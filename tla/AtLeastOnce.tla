----------------------------- MODULE AtLeastOnce -----------------------------
(***************************************************************************)
(* What a notifier with a memory promises: it tells of nothing that did    *)
(* not happen, and what its memory says has been dealt with was told of    *)
(* before, in an earlier step, so that a crash between the two repeats an  *)
(* announcement but never drops one.  The memory may be set back at any    *)
(* time.                                                                   *)
(***************************************************************************)
CONSTANT Item  \* what may happen and be told of

VARIABLES
  happened,  \* the items that have happened
  told,      \* those that have been announced
  settled    \* those that the memory counts as dealt with

abstractVars == <<happened, told, settled>>

Init == happened \subseteq Item /\ told = {} /\ settled = {}

Happen ==
  /\ happened \subseteq happened' /\ happened' \subseteq Item
  /\ UNCHANGED <<told, settled>>

Tell ==
  /\ told \subseteq told' /\ told' \subseteq told \cup happened
  /\ UNCHANGED <<happened, settled>>

Settle ==
  /\ settled' \subseteq told
  /\ UNCHANGED <<happened, told>>

Next == Settle \/ Tell \/ Happen

Spec == Init /\ [][Next]_abstractVars
=============================================================================
