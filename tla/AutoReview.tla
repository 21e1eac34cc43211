----------------------------- MODULE AutoReview -----------------------------
(***************************************************************************)
(* The opt-in reviews the integration posts for the provider: one pass at   *)
(* the end of each poll, another whenever auto_review_retry_now is called,  *)
(* against a marketplace on which the customer, the provider and the clock  *)
(* move the same transactions.                                              *)
(*                                                                          *)
(* One generation of the entry at a time (BookingEvents has those that are  *)
(* outlived).  Its polls are the first refresh of the setup and the later   *)
(* ones, which exclude one another but not the first: a service may request *)
(* a refresh during it (EarlyRefresh), and then two lists of different age  *)
(* are detected over one dictionary.  Time is counted in units of           *)
(* AUTO_REVIEW_RETRY_BASE and kept relative to now, so that it needs no     *)
(* bound.                                                                   *)
(***************************************************************************)
EXTENDS Integers, Sequences, FiniteSets

CONSTANTS
  Txn,          \* transaction ids
  NoTxn,        \* "no transaction"
  Enabled,      \* the auto_review option
  EarlyRefresh, \* a refresh may be requested during the first one
  Faults,       \* a subset of {"crash", "lost", "timeout", "reconfirm"}
  MaxAttempts,  \* bound: failed attempts are counted up to this
  MaxAge        \* bound: a pass takes at most this many units of time

ASSUME BoundsAssumption == MaxAttempts \in Nat /\ MaxAttempts >= 3 /\ MaxAge \in Nat \ {0}
ASSUME OptionsAssumption ==
  /\ Enabled \in BOOLEAN /\ EarlyRefresh \in BOOLEAN
  /\ Faults \subseteq {"crash", "lost", "timeout", "reconfirm"}
  /\ NoTxn \notin Txn

VARIABLES
  stage,    \* stage[t]: where the marketplace's process stands
  changes,  \* changes[t]: the confirmed transitions of t so far
  posted,   \* posted[t]: who left the provider's review
  mem,      \* mem[t]: t's entry of transaction_states
  disk,     \* the same in the store's file
  pass,     \* pass[p]: the two polls, and the call of auto_review_retry_now
  view,     \* view[p]: what the running poll p fetched
  data,     \* the coordinator's data: what the poll that ended last fetched
  repair,   \* the auto_review Repair is shown
  events,   \* events[t]: review_left events of automatic reviews
  failures, \* failures[t]: failed attempts (observation)
  owed      \* owed[t]: units to wait after the last of them (observation)

marketVars == <<stage, changes>>
storeVars  == <<mem, disk>>
seenVars   == <<view, data>>
pastVars   == <<events, failures, owed>>
vars == <<stage, changes, posted, mem, disk, pass, view, data, repair,
          events, failures, owed>>

-----------------------------------------------------------------------------
(* The marketplace. A hire ends, is completed, and each side may review it   *)
(* until the review period expires.                                          *)

Stage == {"hired", "ended", "completed", "customerFirst", "providerFirst",
          "both", "expired", "cancelled"}

\* the last transition is a confirmed one
Confirmed == {"hired", "ended"}

\* past, not terminal and not reviewed by the provider: worth an attempt
Reviewable == {"ended", "completed", "customerFirst"}

\* the provider's review transition that the marketplace offers, if any
Offered(s) == CASE s = "completed"     -> "review-1"
                [] s = "customerFirst" -> "review-2"
                [] OTHER               -> "none"

AfterReview(via) == IF via = "review-1" THEN "providerFirst" ELSE "both"

MaxChanges == IF "reconfirm" \in Faults THEN 2 ELSE 1

View == [stage : Stage \cup {"unknown"}, changes : 0 .. MaxChanges]
Unknown == [stage |-> "unknown", changes |-> 0]

-----------------------------------------------------------------------------
(* The store. An entry's next attempt is due when wait, the units left until *)
(* auto_review_next_attempt_at, has run down; -MaxAge stands for None too.   *)

Doubled == <<1, 2, 4, 8, 16, 32>>
Least(a, b) == IF a < b THEN a ELSE b
Most(a, b) == IF a > b THEN a ELSE b

\* auto_review_retry_delay: 30 minutes, doubled per failure, at most 12 hours
RetryDelay(attempts) == Least(Doubled[Least(Most(0, attempts - 1), 5) + 1], 24)

Wait == -MaxAge .. 24
Entry == [seen : 0 .. MaxChanges, reviewed : BOOLEAN, attempts : 0 .. MaxAttempts, wait : Wait]
Blank == [seen |-> 0, reviewed |-> FALSE, attempts |-> 0, wait |-> -MaxAge]

Counted(n) == Least(n + 1, MaxAttempts)

\* as seen by a pass whose "now" lies age units back
RetryDue(r, age) == r.wait + age <= 0

\* Variant for the checks: the delay is not stored.
FailureStateDueAtOnce(r, age) == [r EXCEPT !.attempts = Counted(@)]

FailureState(r, age) ==
  [r EXCEPT !.attempts = Counted(@), !.wait = RetryDelay(Counted(r.attempts)) - age]

SuccessState(r) == [r EXCEPT !.reviewed = TRUE, !.wait = -MaxAge]

\* Variant for the checks: after three failures there is no other attempt.
SelectedWithCap(v, r, age, force) ==
  /\ v.stage \in Reviewable
  /\ ~r.reviewed
  /\ force \/ (RetryDue(r, age) /\ r.attempts < 3)

\* Variant for the checks: the backoff is ignored.
SelectedAlways(v, r, age, force) == v.stage \in Reviewable /\ ~r.reviewed

Selected(v, r, age, force) ==
  /\ v.stage \in Reviewable
  /\ ~r.reviewed
  /\ force \/ RetryDue(r, age)

Failing(m) == \E t \in Txn : ~m[t].reviewed /\ m[t].attempts >= 3

\* a confirmation that is new to the entry, or older than it, replaces it
Replaced(v, r) == v.stage \in Confirmed /\ r.seen # v.changes

\* anything else that is listed is written into the entry there is: seen = 0
\* stands for a last transition that is not a confirmed one
Overwritten(v, r) == v.stage \notin Confirmed \cup {"unknown"} /\ r.seen # 0

-----------------------------------------------------------------------------
(* Passes. A pass goes from one await to the next.                          *)

Polls == {"first", "later"}
Pass == Polls \cup {"manual"}
Step == {"idle", "fetch", "detect", "select", "lookup", "post", "answer", "save"}
PassState == [step : Step, age : 0 .. MaxAge, todo : SUBSET Txn,
              cur : Txn \cup {NoTxn}, via : {"none", "review-1", "review-2"},
              held : BOOLEAN]
IdlePass == [step |-> "idle", age |-> 0, todo |-> {}, cur |-> NoTxn,
             via |-> "none", held |-> TRUE]

\* a setup begins with its first refresh
SetupPasses == [p \in Pass |-> IF p = "first" THEN [IdlePass EXCEPT !.step = "fetch"]
                                              ELSE IdlePass]

NothingSeen == [t \in Txn |-> Unknown]

At(p, s) == pass[p].step = s
Go(p, s) == pass' = [pass EXCEPT ![p].step = s]

\* Variant for the checks: one more attempt after the last.
ProceedPastEnd(p, T) ==
  \/ /\ T = {}
     /\ pass' = [pass EXCEPT ![p] = [@ EXCEPT !.step = "lookup", !.cur = NoTxn]]
  \/ \E t \in T :
       pass' = [pass EXCEPT ![p] = [@ EXCEPT !.step = "lookup", !.todo = T \ {t}, !.cur = t]]

\* the transactions T are left to attempt, one after the other
Proceed(p, T) ==
  \/ /\ T = {}
     /\ pass' = [pass EXCEPT ![p] = [@ EXCEPT !.step = "save", !.todo = {},
                                              !.cur = NoTxn, !.via = "none", !.held = TRUE]]
  \/ \E t \in T :
       pass' = [pass EXCEPT ![p] = [@ EXCEPT !.step = "lookup", !.todo = T \ {t},
                                             !.cur = t, !.via = "none", !.held = TRUE]]

\* a poll that ends hands its list to the coordinator
End(p) ==
  /\ pass' = [pass EXCEPT ![p] = IdlePass]
  /\ data' = IF p \in Polls THEN view[p] ELSE data
  /\ view' = IF p \in Polls THEN [view EXCEPT ![p] = NothingSeen] ELSE view

\* the timer and the services share one lock; the first refresh does not take it
StartPoll ==
  /\ At("later", "idle")
  /\ At("first", "idle") \/ EarlyRefresh
  /\ pass' = [pass EXCEPT !["later"].step = "fetch"]
  /\ UNCHANGED <<marketVars, posted, storeVars, seenVars, repair, pastVars>>

FetchSucceeds(p) ==
  /\ At(p, "fetch")
  /\ view' = [view EXCEPT ![p] = [t \in Txn |-> [stage |-> stage[t], changes |-> changes[t]]]]
  /\ Go(p, "detect")
  /\ UNCHANGED <<marketVars, posted, storeVars, data, repair, pastVars>>

FetchFails ==
  /\ At("later", "fetch")
  /\ pass' = [pass EXCEPT !["later"] = IdlePass]
  /\ UNCHANGED <<marketVars, posted, storeVars, seenVars, repair, pastVars>>

\* the setup is given up, and the next one loads the file
SetupFails ==
  /\ At("first", "fetch") /\ At("later", "idle") /\ At("manual", "idle")
  /\ mem' = disk
  /\ pass' = SetupPasses
  /\ data' = NothingSeen
  /\ UNCHANGED <<marketVars, posted, disk, view, repair, pastVars>>

\* _detect_confirmed_bookings writes other transitions into the entry, but puts a
\* new dictionary in its place for a confirmed one; a pass that waits for an
\* answer about it goes on with the old one
Detect(p) ==
  /\ At(p, "detect")
  /\ LET fresh   == {t \in Txn : Replaced(view[p][t], mem[t])}
         changed == {t \in Txn : Overwritten(view[p][t], mem[t])}
     IN
       /\ mem' = [t \in Txn |-> CASE t \in fresh   -> [Blank EXCEPT !.seen = view[p][t].changes]
                                  [] t \in changed -> [mem[t] EXCEPT !.seen = 0]
                                  [] OTHER         -> mem[t]]
       /\ disk' = IF fresh \cup changed = {} THEN disk ELSE mem'
       /\ pass' = [q \in Pass |->
                     IF q = p THEN [pass[p] EXCEPT !.step = "select"]
                     ELSE [pass[q] EXCEPT !.held = @ /\ pass[q].cur \notin fresh]]
  /\ UNCHANGED <<marketVars, posted, seenVars, repair, pastVars>>

\* the poll's pass: _run_auto_review, up to the first lookup
SelectReviews(p) ==
  /\ At(p, "select")
  /\ LET chosen == {t \in Txn : Enabled /\ Selected(view[p][t], mem[t], pass[p].age, FALSE)}
     IN IF chosen # {}
        THEN Proceed(p, chosen) /\ UNCHANGED <<seenVars, repair>>
        ELSE End(p) /\ repair' = (Enabled /\ Failing(mem))
  /\ UNCHANGED <<marketVars, posted, storeVars, pastVars>>

\* auto_review_retry_now for one transaction, on the data of the last poll
RetryNow(t) ==
  /\ At("manual", "idle")
  /\ IF Selected(data[t], mem[t], 0, TRUE)
     THEN Proceed("manual", {t}) /\ UNCHANGED repair
     ELSE repair' = (Enabled /\ Failing(mem)) /\ UNCHANGED pass
  /\ UNCHANGED <<marketVars, posted, storeVars, seenVars, pastVars>>

\* leave_review asks for the offered transitions first
LookupOffers(p) ==
  /\ At(p, "lookup")
  /\ Offered(stage[pass[p].cur]) # "none"
  /\ pass' = [pass EXCEPT ![p].step = "post", ![p].via = Offered(stage[pass[p].cur])]
  /\ UNCHANGED <<marketVars, posted, storeVars, seenVars, repair, pastVars>>

\* Recording: through the entry the pass holds, or into the void if that was
\* replaced since. Nothing is awaited before the next transaction's lookup.
RecordFailure(p) ==
  /\ mem' = IF pass[p].held
            THEN [mem EXCEPT ![pass[p].cur] = FailureState(@, pass[p].age)] ELSE mem
  /\ Proceed(p, pass[p].todo)

\* what a failed attempt of t calls for
Observe(t, age) ==
  /\ failures' = [failures EXCEPT ![t] = Counted(@)]
  /\ owed' = [owed EXCEPT ![t] = RetryDelay(Counted(failures[t])) - age]

\* an APIError or AuthenticationError: nothing offered, a lost lookup, a refusal
AttemptFails(p) ==
  /\ At(p, "lookup") \/ At(p, "post")
  /\ RecordFailure(p)
  /\ Observe(pass[p].cur, pass[p].age)
  /\ UNCHANGED <<marketVars, posted, disk, seenVars, repair, events>>

\* the marketplace accepts the transition it offered, if it still does
PostApplied(p) ==
  LET t == pass[p].cur IN
    /\ At(p, "post")
    /\ Offered(stage[t]) = pass[p].via
    /\ stage' = [stage EXCEPT ![t] = AfterReview(pass[p].via)]
    /\ posted' = [posted EXCEPT ![t] = "auto"]
    /\ Go(p, "answer")
    /\ UNCHANGED <<changes, storeVars, seenVars, repair, pastVars>>

\* Variant for the checks: a post without an answer counts as a success.
AnsweredOptimistic(p) == At(p, "answer") \/ At(p, "post")

Answered(p) == At(p, "answer")

ReviewRecorded(p) ==
  LET t == pass[p].cur IN
    /\ Answered(p)
    /\ mem' = IF pass[p].held THEN [mem EXCEPT ![t] = SuccessState(@)] ELSE mem
    /\ events' = [events EXCEPT ![t] = Least(@ + 1, 2)]
    /\ Proceed(p, pass[p].todo)
    /\ UNCHANGED <<marketVars, posted, disk, seenVars, repair, failures, owed>>

\* the transition was applied, but its answer is lost: an APIError all the same
AnswerLost(p) ==
  /\ "lost" \in Faults
  /\ At(p, "answer")
  /\ RecordFailure(p)
  /\ Observe(pass[p].cur, pass[p].age)
  /\ UNCHANGED <<marketVars, posted, disk, seenVars, repair, events>>

\* The session's TimeoutError is neither: the failure is not recorded, and what
\* the pass has left to attempt and to save is dropped.
TimesOut(p) ==
  /\ "timeout" \in Faults
  /\ At(p, "lookup") \/ At(p, "post") \/ At(p, "answer")
  /\ Observe(pass[p].cur, pass[p].age)
  /\ End(p)
  /\ UNCHANGED <<marketVars, posted, storeVars, repair, events>>

SaveReviews(p) ==
  /\ At(p, "save")
  /\ disk' = mem
  /\ repair' = (Enabled /\ Failing(mem))
  /\ End(p)
  /\ UNCHANGED <<marketVars, posted, mem, pastVars>>

\* whatever else is saved takes the whole mapping with it
SaveOthers ==
  /\ disk' = mem
  /\ UNCHANGED <<marketVars, posted, mem, pass, seenVars, repair, pastVars>>

Restart ==
  /\ "crash" \in Faults
  /\ mem' = disk
  /\ pass' = SetupPasses
  /\ view' = [p \in Polls |-> NothingSeen]
  /\ data' = NothingSeen
  /\ repair' = FALSE
  /\ UNCHANGED <<marketVars, posted, disk, pastVars>>

-----------------------------------------------------------------------------
(* The marketplace and the clock.                                           *)

Moves(t, from, to) == stage[t] \in from /\ stage' = [stage EXCEPT ![t] = to]

MarketMoves(t) ==
  /\ \/ Moves(t, {"hired"}, "ended")
     \/ Moves(t, {"hired"}, "cancelled")
     \/ Moves(t, {"ended"}, "completed")
     \/ Moves(t, {"completed"}, "customerFirst")
     \/ Moves(t, {"providerFirst"}, "both")
     \/ Moves(t, {"completed", "customerFirst"}, "expired")
  /\ UNCHANGED <<changes, posted, storeVars, pass, seenVars, repair, pastVars>>

\* the booking is changed, or its refundable period runs out after its end
Reconfirmed(t) ==
  /\ changes[t] < MaxChanges
  /\ Moves(t, {"hired", "ended"}, "hired") \/ Moves(t, {"ended"}, "ended")
  /\ changes' = [changes EXCEPT ![t] = @ + 1]
  /\ UNCHANGED <<posted, storeVars, pass, seenVars, repair, pastVars>>

\* the provider reviews by hand: the leave_review service, or the web site
ProviderReviews(t) ==
  /\ Offered(stage[t]) # "none"
  /\ stage' = [stage EXCEPT ![t] = AfterReview(Offered(stage[t]))]
  /\ posted' = [posted EXCEPT ![t] = "provider"]
  /\ UNCHANGED <<changes, storeVars, pass, seenVars, repair, pastVars>>

Sooner(w) == Most(w - 1, -MaxAge)
SoonerAll(m) == [t \in Txn |-> [m[t] EXCEPT !.wait = Sooner(@)]]

Tick ==
  /\ \A p \in Pass : At(p, "idle") \/ pass[p].age < MaxAge
  /\ mem' = SoonerAll(mem)
  /\ disk' = SoonerAll(disk)
  /\ owed' = [t \in Txn |-> Sooner(owed[t])]
  /\ pass' = [p \in Pass |-> IF At(p, "idle") THEN pass[p]
                                              ELSE [pass[p] EXCEPT !.age = @ + 1]]
  /\ UNCHANGED <<marketVars, posted, seenVars, repair, events, failures>>

-----------------------------------------------------------------------------
Init ==
  /\ stage = [t \in Txn |-> "hired"]
  /\ changes = [t \in Txn |-> 1]
  /\ posted = [t \in Txn |-> "none"]
  /\ mem = [t \in Txn |-> Blank]
  /\ disk = [t \in Txn |-> Blank]
  /\ pass = SetupPasses
  /\ view = [p \in Polls |-> NothingSeen]
  /\ data = NothingSeen
  /\ repair = FALSE
  /\ events = [t \in Txn |-> 0]
  /\ failures = [t \in Txn |-> 0]
  /\ owed = [t \in Txn |-> -MaxAge]

Attempt(p) ==
  \/ LookupOffers(p) \/ AttemptFails(p) \/ PostApplied(p) \/ ReviewRecorded(p)
  \/ AnswerLost(p) \/ TimesOut(p) \/ SaveReviews(p)

Poll(p) == FetchSucceeds(p) \/ Detect(p) \/ SelectReviews(p)

Next ==
  \/ StartPoll \/ FetchFails \/ SetupFails
  \/ \E p \in Polls : Poll(p)
  \/ \E p \in Pass : Attempt(p)
  \/ \E t \in Txn : RetryNow(t) \/ MarketMoves(t) \/ Reconfirmed(t) \/ ProviderReviews(t)
  \/ SaveOthers \/ Restart \/ Tick

Spec == Init /\ [][Next]_vars

\* Polls and passes run to their end, time passes, and a marketplace that is
\* asked again and again answers now and then.
Fairness ==
  /\ WF_vars(Tick) /\ WF_vars(StartPoll)
  /\ \A p \in Polls : WF_vars(Poll(p)) /\ SF_vars(FetchSucceeds(p))
  /\ \A p \in Pass : /\ WF_vars(Attempt(p))
                     /\ SF_vars(LookupOffers(p)) /\ SF_vars(PostApplied(p))

FairSpec == Spec /\ Fairness

-----------------------------------------------------------------------------
(* Properties.                                                              *)

TypeOK ==
  /\ stage \in [Txn -> Stage]
  /\ changes \in [Txn -> 1 .. MaxChanges]
  /\ posted \in [Txn -> {"none", "auto", "provider"}]
  /\ mem \in [Txn -> Entry] /\ disk \in [Txn -> Entry]
  /\ pass \in [Pass -> PassState]
  /\ \A p \in Pass : pass[p].step \in {"lookup", "post", "answer"} => pass[p].cur \in Txn
  /\ view \in [Polls -> [Txn -> View]] /\ data \in [Txn -> View]
  /\ repair \in BOOLEAN
  /\ events \in [Txn -> 0 .. 2]
  /\ failures \in [Txn -> 0 .. MaxAttempts]
  /\ owed \in [Txn -> Wait]

\* What the store and the review_left events say is so, whatever is lost,
\* replaced, raced for or restarted: an entry is marked auto_reviewed, and an
\* event fired, only for a review that an automatic pass posted; a review left
\* by hand meanwhile is never taken for one (_run_auto_review records only
\* after leave_review returned).
RecordsAreTrue ==
  \A t \in Txn :
    /\ mem[t].reviewed \/ disk[t].reviewed \/ events[t] > 0 => posted[t] = "auto"
    /\ events[t] <= 1

\* the pass of poll p takes up t
Picks(p, t) ==
  /\ At(p, "select") /\ pass'[p].step = "lookup"
  /\ t \in pass'[p].todo \cup {pass'[p].cur}

\* The next automatic attempt keeps the distance the failures so far call for,
\* those of auto_review_retry_now included, and although a poll decides by a
\* clock it read at its start: "Failed attempts use a persisted exponential
\* backoff".  So it is without timeouts, crashes and reconfirmations, and as long
\* as nobody requests a refresh during the first one of a setup (~EarlyRefresh):
\* the older list of that one may say "confirmed" of a booking that the other
\* poll has tried to review since, and then replaces its entry.
BackoffKept ==
  [][\A p \in Polls, t \in Txn : Picks(p, t) => owed[t] + pass[p].age <= 0]_vars

\* No restart makes an automatic attempt earlier than the file says, by more than
\* a pass takes: what was saved of a failure is never undone by anything but a
\* confirmation that the entry does not have.  Of two passes that fail at the
\* longest delay, the one with the older clock may put the next attempt that much
\* before the one that the other has saved, and time out at another booking before
\* it saves.
SavedBackoffKept ==
  [][\A p \in Polls, t \in Txn : Picks(p, t) => disk[t].wait + pass[p].age <= MaxAge]_vars

\* However many attempts failed before, a booking on which the marketplace
\* offers the provider's review gets one, unless the review period ends first.
EventuallyReviewed ==
  \A t \in Txn : Enabled /\ Offered(stage[t]) # "none" ~> Offered(stage[t]) = "none"
=============================================================================
