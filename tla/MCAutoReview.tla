---------------------------- MODULE MCAutoReview ----------------------------
(* Model checking AutoReview.                                               *)
EXTENDS AutoReview, TLC

Symmetry == Permutations(Txn)

\* What Observed leaves out is never read again, and no property of its run is
\* about it: the confirmations and the end of a process that is past them, how a
\* list differs once it is detected, but for what may be reviewed, and the
\* observation variables of BackoffKept.
Standing(s, c) == CASE s \in Confirmed -> <<s, c>>
                    [] Offered(s) # "none" \/ s = "unknown" -> <<s, 0>>
                    [] OTHER -> <<"over", 0>>

Listed(list, p) == [t \in Txn |-> IF At(p, "detect") THEN Standing(list[t].stage, list[t].changes)
                                  ELSE list[t].stage \in Reviewable]

Observed ==
  <<[t \in Txn |-> Standing(stage[t], changes[t])], posted, mem, disk, pass, events,
    [p \in Polls |-> Listed(view[p], p)], {t \in Txn : data[t].stage \in Reviewable}>>
=============================================================================
