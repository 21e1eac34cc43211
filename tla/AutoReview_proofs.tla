-------------------------- MODULE AutoReview_proofs --------------------------
(***************************************************************************)
(* What holds of AutoReview for any number of transactions and every fault *)
(* it models: the backoff's bounds, the types, that the store and the      *)
(* review_left events never claim a review that was not posted, and that   *)
(* no attempt is made before the backoff in the file is over.  Where no    *)
(* outcome of an attempt is dropped and no refresh is requested during the *)
(* first one of a setup, the backoff of every failure is kept.             *)
(***************************************************************************)
EXTENDS AutoReview, TLAPS

\* auto_review_retry_delay: at least one unit (30 minutes), at most 24 (12
\* hours), and never shorter after one failure more.
THEOREM RetryDelayBounds ==
  ASSUME NEW n \in Nat
  PROVE  /\ RetryDelay(n) \in 1 .. 24
         /\ RetryDelay(n) <= RetryDelay(n + 1)
         /\ n >= 6 => RetryDelay(n) = 24
<1>. DEFINE e(k) == Least(Most(0, k - 1), 5) + 1
<1>1. e(n) \in 1 .. 6 /\ e(n + 1) \in 1 .. 6 /\ e(n) <= e(n + 1) /\ (n >= 6 => e(n) = 6)
  BY DEF Least, Most
<1>2. \A k \in 1 .. 6 : Doubled[k] \in 1 .. 32
  BY DEF Doubled
<1>3. \A j, k \in 1 .. 6 : j <= k => Doubled[j] <= Doubled[k]
  BY DEF Doubled
<1>4. Doubled[6] = 32
  BY DEF Doubled
<1>5. RetryDelay(n) = Least(Doubled[e(n)], 24) /\ RetryDelay(n + 1) = Least(Doubled[e(n + 1)], 24)
  BY DEF RetryDelay
<1>. HIDE DEF e
<1>. QED  BY <1>1, <1>2, <1>3, <1>4, <1>5 DEF Least

-----------------------------------------------------------------------------
(* Type correctness.                                                        *)

LEMMA CountedType ==
  ASSUME NEW n \in 0 .. MaxAttempts
  PROVE  Counted(n) \in 0 .. MaxAttempts /\ Counted(n) \in Nat
BY BoundsAssumption DEF Counted, Least

LEMMA EntryTypes ==
  ASSUME NEW r \in Entry, NEW age \in 0 .. MaxAge
  PROVE  /\ FailureState(r, age) \in Entry
         /\ SuccessState(r) \in Entry
         /\ [r EXCEPT !.wait = Sooner(@)] \in Entry
<1>1. -MaxAge \in Wait
  BY BoundsAssumption DEF Wait
<1>2. RetryDelay(Counted(r.attempts)) - age \in Wait
  BY CountedType, RetryDelayBounds, BoundsAssumption DEF Entry, Wait
<1>3. FailureState(r, age) \in Entry
  BY <1>2, CountedType DEF FailureState, Entry
<1>4. SuccessState(r) \in Entry
  BY <1>1 DEF SuccessState, Entry
<1>6. Sooner(r.wait) \in Wait
  BY BoundsAssumption DEF Sooner, Most, Entry, Wait
<1>. QED  BY <1>3, <1>4, <1>6 DEF Entry

LEMMA BlankTypes == Blank \in Entry /\ \A c \in 0 .. MaxChanges : [Blank EXCEPT !.seen = c] \in Entry
<1>1. -MaxAge \in Wait /\ 0 \in 0 .. MaxChanges
  BY BoundsAssumption DEF Wait, MaxChanges
<1>2. 0 \in 0 .. MaxAttempts
  BY BoundsAssumption
<1>3. Blank \in Entry
  BY <1>1, <1>2 DEF Blank, Entry
<1>. QED  BY <1>3 DEF Entry

LEMMA OwedType ==
  ASSUME NEW n \in 0 .. MaxAttempts, NEW age \in 0 .. MaxAge
  PROVE  RetryDelay(Counted(n)) - age \in Wait
BY CountedType, RetryDelayBounds, BoundsAssumption DEF Wait

LEMMA PassTypes ==
  ASSUME TypeOK, NEW p \in Pass
  PROVE  /\ IdlePass \in PassState /\ pass[p] \in PassState
         /\ \A T \in SUBSET Txn : Proceed(p, T) =>
              /\ pass' \in [Pass -> PassState]
              /\ \A q \in Pass : pass'[q].step \in {"lookup", "post", "answer"} => pass'[q].cur \in Txn
         /\ \A s \in Step : Go(p, s) => pass' \in [Pass -> PassState]
         /\ End(p) => /\ pass' \in [Pass -> PassState]
                      /\ \A q \in Pass : pass'[q].step \in {"lookup", "post", "answer"} => pass'[q].cur \in Txn
                      /\ data' \in [Txn -> View] /\ view' \in [Polls -> [Txn -> View]]
<1>1. IdlePass \in PassState
  BY BoundsAssumption DEF IdlePass, PassState, Step
<1>2. pass[p] \in PassState
  BY DEF TypeOK
<1>3. ASSUME NEW T \in SUBSET Txn, Proceed(p, T)
      PROVE  /\ pass' \in [Pass -> PassState]
             /\ \A q \in Pass : pass'[q].step \in {"lookup", "post", "answer"} => pass'[q].cur \in Txn
  <2>1. CASE T = {}
    <3>1. pass' = [pass EXCEPT ![p] = [@ EXCEPT !.step = "save", !.todo = {},
                                                !.cur = NoTxn, !.via = "none", !.held = TRUE]]
      BY <1>3, <2>1 DEF Proceed
    <3>2. pass'[p] \in PassState /\ pass'[p].step = "save"
      BY <1>2, <3>1 DEF PassState, Step, TypeOK
    <3>. QED  BY <3>1, <3>2 DEF TypeOK
  <2>2. CASE T # {}
    <3>1. PICK t \in T :
            pass' = [pass EXCEPT ![p] = [@ EXCEPT !.step = "lookup", !.todo = T \ {t},
                                                  !.cur = t, !.via = "none", !.held = TRUE]]
      BY <1>3, <2>2 DEF Proceed
    <3>2. t \in Txn /\ T \ {t} \in SUBSET Txn
      OBVIOUS
    <3>3. pass'[p] \in PassState /\ pass'[p].cur = t
      BY <1>2, <3>1, <3>2 DEF PassState, Step, TypeOK
    <3>. QED  BY <3>1, <3>2, <3>3 DEF TypeOK
  <2>. QED  BY <2>1, <2>2
<1>4. ASSUME NEW s \in Step, Go(p, s) PROVE pass' \in [Pass -> PassState]
  BY <1>2, <1>4 DEF Go, TypeOK, PassState
<1>5. Unknown \in View
  <2>1. 0 \in 0 .. MaxChanges
    BY DEF MaxChanges
  <2>. QED  BY <2>1 DEF Unknown, View
<1>6. ASSUME End(p)
      PROVE  /\ pass' \in [Pass -> PassState]
             /\ \A q \in Pass : pass'[q].step \in {"lookup", "post", "answer"} => pass'[q].cur \in Txn
             /\ data' \in [Txn -> View] /\ view' \in [Polls -> [Txn -> View]]
  <2>1. pass' = [pass EXCEPT ![p] = IdlePass]
    BY <1>6 DEF End
  <2>2. pass' \in [Pass -> PassState]
    BY <1>1, <2>1 DEF TypeOK
  <2>3. \A q \in Pass : pass'[q].step \in {"lookup", "post", "answer"} => pass'[q].cur \in Txn
    BY <2>1 DEF TypeOK, IdlePass
  <2>4. data' \in [Txn -> View] /\ view' \in [Polls -> [Txn -> View]]
    BY <1>5, <1>6 DEF End, NothingSeen, TypeOK
  <2>. QED  BY <2>2, <2>3, <2>4
<1>. QED  BY <1>1, <1>2, <1>3, <1>4, <1>6

\* a setup's first refresh begins
LEMMA SetupTypes ==
  /\ SetupPasses \in [Pass -> PassState]
  /\ \A p \in Pass : SetupPasses[p].step \in {"idle", "fetch"}
  /\ NothingSeen \in [Txn -> View]
<1>1. IdlePass \in PassState /\ [IdlePass EXCEPT !.step = "fetch"] \in PassState
  <2>1. IdlePass \in PassState
    BY BoundsAssumption DEF IdlePass, PassState, Step
  <2>. QED  BY <2>1 DEF PassState, Step
<1>2. Unknown \in View
  <2>1. 0 \in 0 .. MaxChanges
    BY DEF MaxChanges
  <2>. QED  BY <2>1 DEF Unknown, View
<1>3. \A p \in Pass : SetupPasses[p].step \in {"idle", "fetch"}
  BY DEF SetupPasses, IdlePass
<1>. QED  BY <1>1, <1>2, <1>3 DEF SetupPasses, NothingSeen

\* what the polls do, up to their passes
Polling == StartPoll \/ FetchFails \/ SetupFails \/ \E p \in Polls : Poll(p)

LEMMA PollTypeOK ==
  ASSUME TypeOK, Polling
  PROVE  TypeOK'
<1>. USE DEF marketVars, storeVars, seenVars, pastVars
<1>1. "later" \in Pass /\ \A p \in Polls : p \in Pass
  BY DEF Pass, Polls
<1>2. CASE StartPoll
  <2>1. pass' = [pass EXCEPT !["later"].step = "fetch"] /\ pass["later"] \in PassState
    BY <1>1, <1>2 DEF StartPoll, TypeOK
  <2>2. /\ pass' \in [Pass -> PassState]
        /\ \A q \in Pass : pass'[q].step \in {"lookup", "post", "answer"} => pass'[q].cur \in Txn
    BY <1>1, <2>1 DEF TypeOK, PassState, Step
  <2>. QED  BY <1>2, <2>2 DEF StartPoll, TypeOK
<1>3. ASSUME NEW p \in Polls, FetchSucceeds(p) PROVE TypeOK'
  <2>1. view' \in [Polls -> [Txn -> View]]
    <3>1. [t \in Txn |-> [stage |-> stage[t], changes |-> changes[t]]] \in [Txn -> View]
      BY DEF TypeOK, View
    <3>. QED  BY <1>3, <3>1 DEF FetchSucceeds, TypeOK
  <2>2. /\ pass' \in [Pass -> PassState]
        /\ \A q \in Pass : pass'[q].step \in {"lookup", "post", "answer"} => pass'[q].cur \in Txn
    <3>1. pass' = [pass EXCEPT ![p].step = "detect"]
      BY <1>3 DEF FetchSucceeds, Go
    <3>2. pass[p] \in PassState
      BY <1>1 DEF TypeOK
    <3>. QED  BY <1>1, <3>1, <3>2 DEF TypeOK, PassState, Step
  <2>. QED  BY <1>3, <2>1, <2>2 DEF FetchSucceeds, TypeOK
<1>4. CASE FetchFails
  BY <1>1, <1>4, PassTypes DEF FetchFails, TypeOK, IdlePass
<1>5. ASSUME NEW p \in Polls, Detect(p) PROVE TypeOK'
  <2>1. ASSUME NEW t \in Txn
        PROVE  /\ [Blank EXCEPT !.seen = view[p][t].changes] \in Entry
               /\ mem[t] \in Entry /\ [mem[t] EXCEPT !.seen = 0] \in Entry
    <3>1. mem[t] \in Entry /\ view[p][t].changes \in 0 .. MaxChanges /\ 0 \in 0 .. MaxChanges
      BY DEF TypeOK, View, MaxChanges
    <3>. QED  BY <3>1, BlankTypes DEF Entry
  <2>2. mem' \in [Txn -> Entry]
    BY <1>5, <2>1 DEF Detect
  <2>3. disk' \in [Txn -> Entry]
    BY <1>5, <2>2 DEF Detect, TypeOK
  <2>4. /\ pass' \in [Pass -> PassState]
        /\ \A q \in Pass : pass'[q].step \in {"lookup", "post", "answer"} => pass'[q].cur \in Txn
    <3>1. PICK fresh \in SUBSET Txn :
            pass' = [q \in Pass |->
                      IF q = p THEN [pass[p] EXCEPT !.step = "select"]
                      ELSE [pass[q] EXCEPT !.held = @ /\ pass[q].cur \notin fresh]]
      BY <1>5 DEF Detect
    <3>. SUFFICES ASSUME NEW q \in Pass
                  PROVE  /\ pass'[q] \in PassState
                         /\ pass'[q].step \in {"lookup", "post", "answer"} => pass'[q].cur \in Txn
      BY <3>1
    <3>2. pass[q] \in PassState /\ (pass[q].step \in {"lookup", "post", "answer"} => pass[q].cur \in Txn)
      BY DEF TypeOK
    <3>3. CASE q = p
      BY <3>1, <3>2, <3>3 DEF PassState, Step
    <3>4. CASE q # p
      <4>. DEFINE h == pass[q].held /\ pass[q].cur \notin fresh
      <4>1. h \in BOOLEAN
        OBVIOUS
      <4>2. pass'[q] = [pass[q] EXCEPT !.held = h]
        BY <3>1, <3>2, <3>4 DEF PassState
      <4>. HIDE DEF h
      <4>. QED  BY <3>2, <4>1, <4>2 DEF PassState
    <3>. QED  BY <3>3, <3>4
  <2>. QED  BY <1>5, <2>2, <2>3, <2>4 DEF Detect, TypeOK
<1>6. ASSUME NEW p \in Polls, SelectReviews(p) PROVE TypeOK'
  <2>. DEFINE chosen == {t \in Txn : Enabled /\ Selected(view[p][t], mem[t], pass[p].age, FALSE)}
  <2>1. CASE chosen # {}
    <3>1. Proceed(p, chosen) /\ UNCHANGED <<view, data, repair>>
      BY <1>6, <2>1 DEF SelectReviews
    <3>2. chosen \in SUBSET Txn
      OBVIOUS
    <3>3. /\ pass' \in [Pass -> PassState]
          /\ \A q \in Pass : pass'[q].step \in {"lookup", "post", "answer"} => pass'[q].cur \in Txn
      BY <1>1, <3>1, <3>2, PassTypes
    <3>. QED  BY <1>6, <3>1, <3>3 DEF SelectReviews, TypeOK
  <2>2. CASE chosen = {}
    <3>1. End(p) /\ repair' \in BOOLEAN
      BY <1>6, <2>2, OptionsAssumption DEF SelectReviews, Failing
    <3>. QED  BY <1>1, <1>6, <3>1, PassTypes DEF SelectReviews, TypeOK
  <2>. QED  BY <2>1, <2>2
<1>7. CASE SetupFails
  BY <1>7, SetupTypes DEF SetupFails, TypeOK
<1>. QED  BY <1>2, <1>3, <1>4, <1>5, <1>6, <1>7 DEF Polling, Poll

LEMMA AttemptTypeOK ==
  ASSUME TypeOK, NEW p \in Pass, Attempt(p)
  PROVE  TypeOK'
<1>. USE DEF marketVars, storeVars, seenVars, pastVars, At
<1>1. pass[p] \in PassState
  BY DEF TypeOK
<1>2. pass[p].age \in 0 .. MaxAge /\ pass[p].todo \in SUBSET Txn
  BY <1>1 DEF PassState
<1>3. ASSUME pass[p].cur \in Txn, RecordFailure(p)
      PROVE  /\ mem' \in [Txn -> Entry]
             /\ pass' \in [Pass -> PassState]
             /\ \A q \in Pass : pass'[q].step \in {"lookup", "post", "answer"} => pass'[q].cur \in Txn
  <2>1. FailureState(mem[pass[p].cur], pass[p].age) \in Entry
    BY <1>2, <1>3, EntryTypes DEF TypeOK
  <2>2. mem' \in [Txn -> Entry]
    BY <1>3, <2>1 DEF RecordFailure, TypeOK
  <2>3. Proceed(p, pass[p].todo)
    BY <1>3 DEF RecordFailure
  <2>. QED  BY <1>2, <2>2, <2>3, PassTypes
<1>4. ASSUME pass[p].cur \in Txn, Observe(pass[p].cur, pass[p].age)
      PROVE  failures' \in [Txn -> 0 .. MaxAttempts] /\ owed' \in [Txn -> Wait]
  <2>1. failures[pass[p].cur] \in 0 .. MaxAttempts
    BY <1>4 DEF TypeOK
  <2>2. RetryDelay(Counted(failures[pass[p].cur])) - pass[p].age \in Wait
    BY <1>2, <2>1, OwedType
  <2>. QED  BY <1>4, <2>1, <2>2, CountedType DEF Observe, TypeOK
<1>5. pass[p].step \in {"lookup", "post", "answer"} => pass[p].cur \in Txn
  BY DEF TypeOK
<1>6. ASSUME NEW s \in {"post", "answer"}, NEW v \in {"none", "review-1", "review-2"},
             pass[p].cur \in Txn, pass' = [pass EXCEPT ![p].step = s, ![p].via = v]
      PROVE  /\ pass' \in [Pass -> PassState]
             /\ \A q \in Pass : pass'[q].step \in {"lookup", "post", "answer"} => pass'[q].cur \in Txn
  BY <1>1, <1>6 DEF TypeOK, PassState, Step
<1>7. \A s : Offered(s) \in {"none", "review-1", "review-2"}
  BY DEF Offered
<1>8. CASE LookupOffers(p)
  BY <1>5, <1>6, <1>7, <1>8 DEF LookupOffers, TypeOK
<1>9. CASE AttemptFails(p)
  BY <1>3, <1>4, <1>5, <1>9 DEF AttemptFails, TypeOK
<1>10. CASE PostApplied(p)
  <2>1. pass' = [pass EXCEPT ![p].step = "answer"] /\ pass[p].cur \in Txn
    BY <1>5, <1>10 DEF PostApplied, Go
  <2>2. /\ pass' \in [Pass -> PassState]
        /\ \A q \in Pass : pass'[q].step \in {"lookup", "post", "answer"} => pass'[q].cur \in Txn
    BY <1>1, <2>1 DEF TypeOK, PassState, Step
  <2>3. stage' \in [Txn -> Stage] /\ posted' \in [Txn -> {"none", "auto", "provider"}]
    BY <1>10, <2>1 DEF PostApplied, TypeOK, AfterReview, Stage
  <2>. QED  BY <1>10, <2>2, <2>3 DEF PostApplied, TypeOK
<1>11. CASE ReviewRecorded(p)
  <2>1. pass[p].cur \in Txn /\ Proceed(p, pass[p].todo)
    BY <1>5, <1>11 DEF ReviewRecorded, Answered
  <2>2. SuccessState(mem[pass[p].cur]) \in Entry
    BY <1>2, <2>1, EntryTypes DEF TypeOK
  <2>3. mem' \in [Txn -> Entry]
    BY <1>11, <2>2 DEF ReviewRecorded, TypeOK
  <2>4. events' \in [Txn -> 0 .. 2]
    BY <1>11, <2>1 DEF ReviewRecorded, TypeOK, Least
  <2>5. /\ pass' \in [Pass -> PassState]
        /\ \A q \in Pass : pass'[q].step \in {"lookup", "post", "answer"} => pass'[q].cur \in Txn
    BY <1>2, <2>1, PassTypes
  <2>. QED  BY <1>11, <2>3, <2>4, <2>5 DEF ReviewRecorded, TypeOK
<1>12. CASE AnswerLost(p)
  BY <1>3, <1>4, <1>5, <1>12 DEF AnswerLost, TypeOK
<1>13. CASE TimesOut(p)
  BY <1>4, <1>5, <1>13, PassTypes DEF TimesOut, TypeOK
<1>14. CASE SaveReviews(p)
  <2>1. repair' \in BOOLEAN
    BY <1>14, OptionsAssumption DEF SaveReviews, Failing
  <2>. QED  BY <1>14, <2>1, PassTypes DEF SaveReviews, TypeOK
<1>. QED  BY <1>8, <1>9, <1>10, <1>11, <1>12, <1>13, <1>14 DEF Attempt

LEMMA OthersTypeOK ==
  ASSUME TypeOK,
         \/ \E t \in Txn : RetryNow(t) \/ MarketMoves(t) \/ Reconfirmed(t) \/ ProviderReviews(t)
         \/ SaveOthers \/ Restart \/ Tick
  PROVE  TypeOK'
<1>. USE DEF marketVars, storeVars, seenVars, pastVars
<1>1. "manual" \in Pass
  BY DEF Pass
<1>2. ASSUME NEW t \in Txn, RetryNow(t) PROVE TypeOK'
  <2>1. CASE Selected(data[t], mem[t], 0, TRUE)
    <3>1. Proceed("manual", {t}) /\ {t} \in SUBSET Txn
      BY <1>2, <2>1 DEF RetryNow
    <3>2. /\ pass' \in [Pass -> PassState]
          /\ \A q \in Pass : pass'[q].step \in {"lookup", "post", "answer"} => pass'[q].cur \in Txn
      BY <1>1, <3>1, PassTypes
    <3>. QED  BY <1>2, <2>1, <3>2 DEF RetryNow, TypeOK
  <2>2. CASE ~Selected(data[t], mem[t], 0, TRUE)
    <3>1. repair' \in BOOLEAN
      BY <1>2, <2>2, OptionsAssumption DEF RetryNow, Failing
    <3>. QED  BY <1>2, <2>2, <3>1 DEF RetryNow, TypeOK
  <2>. QED  BY <2>1, <2>2
<1>3. ASSUME NEW t \in Txn, MarketMoves(t) PROVE TypeOK'
  BY <1>3 DEF MarketMoves, Moves, Stage, TypeOK
<1>4. ASSUME NEW t \in Txn, Reconfirmed(t) PROVE TypeOK'
  <2>1. stage' \in [Txn -> Stage]
    BY <1>4 DEF Reconfirmed, Moves, Stage, TypeOK
  <2>2. changes' \in [Txn -> 1 .. MaxChanges]
    BY <1>4 DEF Reconfirmed, TypeOK, MaxChanges
  <2>. QED  BY <1>4, <2>1, <2>2 DEF Reconfirmed, TypeOK
<1>5. ASSUME NEW t \in Txn, ProviderReviews(t) PROVE TypeOK'
  BY <1>5 DEF ProviderReviews, AfterReview, Stage, TypeOK
<1>6. CASE SaveOthers
  BY <1>6 DEF SaveOthers, TypeOK
<1>7. CASE Restart
  BY <1>7, SetupTypes DEF Restart, TypeOK
<1>8. CASE Tick
  <2>1. \A r \in Entry : [r EXCEPT !.wait = Sooner(@)] \in Entry
    BY EntryTypes, BoundsAssumption
  <2>2. mem' \in [Txn -> Entry] /\ disk' \in [Txn -> Entry]
    BY <1>8, <2>1 DEF Tick, SoonerAll, TypeOK
  <2>3. owed' \in [Txn -> Wait]
    BY <1>8, BoundsAssumption DEF Tick, Sooner, Most, Wait, TypeOK
  <2>4. \A p \in Pass : /\ pass'[p] \in PassState
                        /\ pass'[p].step = pass[p].step /\ pass'[p].cur = pass[p].cur
    <3>. SUFFICES ASSUME NEW p \in Pass
                  PROVE  /\ pass'[p] \in PassState
                         /\ pass'[p].step = pass[p].step /\ pass'[p].cur = pass[p].cur
      OBVIOUS
    <3>1. pass[p] \in PassState
      BY DEF TypeOK
    <3>2. CASE pass[p].step = "idle"
      BY <1>8, <3>1, <3>2 DEF Tick, At
    <3>3. CASE pass[p].step # "idle"
      <4>1. pass'[p] = [pass[p] EXCEPT !.age = @ + 1] /\ pass[p].age < MaxAge
        BY <1>8, <3>3 DEF Tick, At
      <4>. QED  BY <3>1, <4>1, BoundsAssumption DEF PassState
    <3>. QED  BY <3>2, <3>3
  <2>5. pass' = [p \in Pass |-> pass'[p]]
    BY <1>8 DEF Tick
  <2>6. pass' \in [Pass -> PassState]
    BY <2>4, <2>5
  <2>. QED  BY <1>8, <2>2, <2>3, <2>4, <2>6 DEF Tick, TypeOK
<1>. QED  BY <1>2, <1>3, <1>4, <1>5, <1>6, <1>7, <1>8

\* Every reachable state is well typed: no counter, no delay and no age leaves
\* its range, and every attempt under way is one of a transaction.
THEOREM TypeCorrect == Spec => []TypeOK
<1>1. Init => TypeOK
  <2>. SUFFICES ASSUME Init PROVE TypeOK
    OBVIOUS
  <2>2. 1 \in 1 .. MaxChanges
    BY DEF MaxChanges
  <2>3. -MaxAge \in Wait
    BY BoundsAssumption DEF Wait
  <2>4. 0 \in 0 .. MaxAttempts
    BY BoundsAssumption
  <2>5. /\ pass \in [Pass -> PassState]
        /\ \A p \in Pass : pass[p].step \in {"lookup", "post", "answer"} => pass[p].cur \in Txn
    BY SetupTypes DEF Init
  <2>6. /\ stage \in [Txn -> Stage] /\ changes \in [Txn -> 1 .. MaxChanges]
        /\ posted \in [Txn -> {"none", "auto", "provider"}]
    BY <2>2 DEF Init, Stage
  <2>7. /\ events \in [Txn -> 0 .. 2] /\ failures \in [Txn -> 0 .. MaxAttempts]
        /\ owed \in [Txn -> Wait]
    BY <2>3, <2>4 DEF Init
  <2>8. mem \in [Txn -> Entry] /\ disk \in [Txn -> Entry]
    BY BlankTypes DEF Init
  <2>. QED  BY SetupTypes, <2>5, <2>6, <2>7, <2>8 DEF Init, TypeOK
<1>2. TypeOK /\ [Next]_vars => TypeOK'
  <2>1. TypeOK /\ UNCHANGED vars => TypeOK'
    BY DEF vars, TypeOK
  <2>. QED  BY <2>1, PollTypeOK, AttemptTypeOK, OthersTypeOK DEF Next, Polling
<1>. QED  BY <1>1, <1>2, PTL DEF Spec

-----------------------------------------------------------------------------
(* The records are true. A pass that waits for an answer is the one that    *)
(* posted its transaction's review, and has not told of it yet; before the  *)
(* provider's review the process stands where nobody has posted one.        *)

Answering(p) == pass[p].step = "answer"

ReviewInv ==
  /\ \A t \in Txn :
       stage[t] \in {"hired", "ended", "completed", "customerFirst"} => posted[t] = "none"
  /\ \A p \in Pass : pass[p].step = "post" => pass[p].via # "none"
  /\ \A p \in Pass : Answering(p) => posted[pass[p].cur] = "auto" /\ events[pass[p].cur] = 0
  /\ \A p, q \in Pass : Answering(p) /\ Answering(q) /\ pass[p].cur = pass[q].cur => p = q
  /\ RecordsAreTrue

\* The reviews, the events and the entries' auto_reviewed stay as they are,
\* except that entries are copied or reset, and no pass comes to post or answer.
Idling ==
  /\ UNCHANGED <<stage, posted, events>>
  /\ \A t \in Txn :
       /\ mem'[t].reviewed => mem[t].reviewed \/ disk[t].reviewed
       /\ disk'[t].reviewed => mem[t].reviewed \/ disk[t].reviewed
  /\ \A p \in Pass : pass'[p].step \in {"post", "answer"} =>
       pass'[p].step = pass[p].step /\ pass'[p].cur = pass[p].cur /\ pass'[p].via = pass[p].via

LEMMA IdlingKeeps ==
  ASSUME TypeOK, ReviewInv, Idling
  PROVE  ReviewInv'
<1>1. UNCHANGED <<stage, posted, events>>
  BY DEF Idling
<1>2. \A t \in Txn : mem'[t].reviewed \/ disk'[t].reviewed => mem[t].reviewed \/ disk[t].reviewed
  BY DEF Idling
<1>3. RecordsAreTrue'
  BY <1>1, <1>2 DEF ReviewInv, RecordsAreTrue
<1>4. \A p \in Pass : pass'[p].step \in {"post", "answer"} =>
        pass'[p].step = pass[p].step /\ pass'[p].cur = pass[p].cur /\ pass'[p].via = pass[p].via
  BY DEF Idling
<1>5. /\ \A p \in Pass : Answering(p)' => Answering(p) /\ pass'[p].cur = pass[p].cur
      /\ \A p \in Pass : pass'[p].step = "post" => pass'[p].via # "none"
  BY <1>4 DEF ReviewInv, Answering
<1>6. \A p, q \in Pass : Answering(p)' /\ Answering(q)' /\ pass'[p].cur = pass'[q].cur => p = q
  BY <1>5 DEF ReviewInv
<1>7. \A p \in Pass : Answering(p)' => posted'[pass'[p].cur] = "auto" /\ events'[pass'[p].cur] = 0
  BY <1>1, <1>5 DEF ReviewInv
<1>. QED  BY <1>1, <1>3, <1>5, <1>6, <1>7 DEF ReviewInv

LEMMA PassSteps ==
  ASSUME TypeOK, NEW p \in Pass
  PROVE  /\ \A T \in SUBSET Txn : Proceed(p, T) =>
              /\ pass'[p].step \in {"save", "lookup"}
              /\ \A q \in Pass : q # p => pass'[q] = pass[q]
         /\ End(p) => /\ pass'[p].step = "idle"
                      /\ \A q \in Pass : q # p => pass'[q] = pass[q]
<1>1. pass[p] \in PassState /\ pass \in [Pass -> PassState]
  BY DEF TypeOK
<1>2. ASSUME NEW T \in SUBSET Txn, Proceed(p, T)
      PROVE  /\ pass'[p].step \in {"save", "lookup"}
             /\ \A q \in Pass : q # p => pass'[q] = pass[q]
  <2>1. CASE T = {}
    <3>1. pass' = [pass EXCEPT ![p] = [@ EXCEPT !.step = "save", !.todo = {},
                                                !.cur = NoTxn, !.via = "none", !.held = TRUE]]
      BY <1>2, <2>1 DEF Proceed
    <3>2. pass'[p].step = "save"
      BY <1>1, <3>1 DEF PassState
    <3>3. \A q \in Pass : q # p => pass'[q] = pass[q]
      BY <1>1, <3>1
    <3>. QED  BY <3>2, <3>3
  <2>2. CASE T # {}
    <3>1. PICK t \in T :
            pass' = [pass EXCEPT ![p] = [@ EXCEPT !.step = "lookup", !.todo = T \ {t},
                                                  !.cur = t, !.via = "none", !.held = TRUE]]
      BY <1>2, <2>2 DEF Proceed
    <3>2. pass'[p].step = "lookup"
      BY <1>1, <3>1 DEF PassState
    <3>3. \A q \in Pass : q # p => pass'[q] = pass[q]
      BY <1>1, <3>1
    <3>. QED  BY <3>2, <3>3
  <2>. QED  BY <2>1, <2>2
<1>3. End(p) => /\ pass'[p].step = "idle"
                /\ \A q \in Pass : q # p => pass'[q] = pass[q]
  BY <1>1 DEF End, IdlePass
<1>. QED  BY <1>2, <1>3

\* What a failed attempt writes into an entry leaves its auto_reviewed alone.
LEMMA FailureKeepsReviewed ==
  ASSUME TypeOK, NEW p \in Pass, pass[p].cur \in Txn, RecordFailure(p)
  PROVE  \A t \in Txn : mem'[t].reviewed = mem[t].reviewed
<1>1. FailureState(mem[pass[p].cur], pass[p].age).reviewed = mem[pass[p].cur].reviewed
  BY DEF FailureState, TypeOK, Entry
<1>2. \A t \in Txn : mem'[t] = mem[t]
                    \/ (t = pass[p].cur /\ mem'[t] = FailureState(mem[t], pass[p].age))
  BY DEF RecordFailure, TypeOK
<1>. QED  BY <1>1, <1>2

LEMMA PollIdles ==
  ASSUME TypeOK, Polling
  PROVE  Idling
<1>. USE DEF Idling, marketVars, storeVars, seenVars, pastVars
<1>1. "later" \in Pass /\ \A p \in Polls : p \in Pass
  BY DEF Pass, Polls
<1>2. CASE StartPoll
  <2>1. pass' = [pass EXCEPT !["later"].step = "fetch"]
        /\ UNCHANGED <<stage, posted, events, mem, disk>>
    BY <1>2 DEF StartPoll
  <2>2. pass'["later"].step = "fetch" /\ \A q \in Pass : q # "later" => pass'[q] = pass[q]
    BY <1>1, <2>1 DEF TypeOK, PassState
  <2>. QED  BY <1>1, <2>1, <2>2
<1>3. ASSUME NEW p \in Polls, FetchSucceeds(p) PROVE Idling
  <2>1. pass' = [pass EXCEPT ![p].step = "detect"]
        /\ UNCHANGED <<stage, posted, events, mem, disk>>
    BY <1>3 DEF FetchSucceeds, Go
  <2>2. pass'[p].step = "detect" /\ \A q \in Pass : q # p => pass'[q] = pass[q]
    BY <1>1, <2>1 DEF TypeOK, PassState
  <2>. QED  BY <1>1, <2>1, <2>2
<1>4. CASE FetchFails
  BY <1>1, <1>4 DEF FetchFails, TypeOK, PassState, IdlePass
<1>5. ASSUME NEW p \in Polls, Detect(p) PROVE Idling
  <2>1. \A q \in Pass : pass[q] \in PassState
    BY DEF TypeOK
  <2>2. \A t \in Txn : mem'[t].reviewed => mem[t].reviewed
    <3>1. ~[Blank EXCEPT !.seen = 0].reviewed /\ \A c : ~[Blank EXCEPT !.seen = c].reviewed
      BY DEF Blank
    <3>2. \A t \in Txn : [mem[t] EXCEPT !.seen = 0].reviewed = mem[t].reviewed
      BY DEF TypeOK, Entry
    <3>. QED  BY <1>5, <3>1, <3>2 DEF Detect
  <2>3. disk' \in {disk, mem'}
    BY <1>5 DEF Detect
  <2>4. ASSUME NEW q \in Pass
        PROVE  \/ q = p /\ pass'[q].step = "select"
               \/ /\ pass'[q].step = pass[q].step /\ pass'[q].cur = pass[q].cur
                  /\ pass'[q].via = pass[q].via
    BY <1>1, <1>5, <2>1 DEF Detect, PassState
  <2>5. UNCHANGED <<stage, posted, events>>
    BY <1>5 DEF Detect
  <2>. QED  BY <2>2, <2>3, <2>4, <2>5
<1>6. ASSUME NEW p \in Polls, SelectReviews(p) PROVE Idling
  <2>. DEFINE chosen == {t \in Txn : Enabled /\ Selected(view[p][t], mem[t], pass[p].age, FALSE)}
  <2>1. chosen \in SUBSET Txn
    OBVIOUS
  <2>2. Proceed(p, chosen) \/ End(p)
    BY <1>6 DEF SelectReviews
  <2>. HIDE DEF chosen
  <2>3. /\ pass'[p].step \in {"save", "lookup", "idle"}
        /\ \A q \in Pass : q # p => pass'[q] = pass[q]
    BY <1>1, <2>1, <2>2, PassSteps
  <2>4. UNCHANGED <<stage, posted, events, mem, disk>>
    BY <1>6 DEF SelectReviews
  <2>. QED  BY <2>3, <2>4
<1>7. CASE SetupFails
  BY <1>7, SetupTypes DEF SetupFails
<1>. QED  BY <1>2, <1>3, <1>4, <1>5, <1>6, <1>7 DEF Polling, Poll

\* The steps of an attempt that neither post nor record a review.
LEMMA AttemptIdles ==
  ASSUME TypeOK, NEW p \in Pass,
         AttemptFails(p) \/ AnswerLost(p) \/ TimesOut(p) \/ SaveReviews(p)
  PROVE  Idling
<1>. USE DEF Idling, marketVars, storeVars, seenVars, pastVars
<1>1. pass[p] \in PassState /\ pass[p].todo \in SUBSET Txn
  BY DEF TypeOK, PassState
<1>2. pass[p].step \in {"lookup", "post", "answer"} => pass[p].cur \in Txn
  BY DEF TypeOK
<1>3. CASE AttemptFails(p) \/ AnswerLost(p)
  <2>1. /\ RecordFailure(p) /\ pass[p].cur \in Txn
        /\ UNCHANGED <<stage, posted, events, disk>>
    BY <1>2, <1>3 DEF AttemptFails, AnswerLost, At
  <2>2. Proceed(p, pass[p].todo)
    BY <2>1 DEF RecordFailure
  <2>3. /\ pass'[p].step \in {"save", "lookup"}
        /\ \A q \in Pass : q # p => pass'[q] = pass[q]
    BY <1>1, <2>2, PassSteps
  <2>4. \A t \in Txn : mem'[t].reviewed = mem[t].reviewed
    BY <2>1, FailureKeepsReviewed
  <2>. QED  BY <2>1, <2>3, <2>4
<1>4. CASE TimesOut(p) \/ SaveReviews(p)
  <2>1. End(p) /\ UNCHANGED <<stage, posted, events, mem>> /\ disk' \in {disk, mem}
    BY <1>4 DEF TimesOut, SaveReviews
  <2>2. /\ pass'[p].step = "idle"
        /\ \A q \in Pass : q # p => pass'[q] = pass[q]
    BY <2>1, PassSteps
  <2>. QED  BY <2>1, <2>2
<1>. QED  BY <1>3, <1>4

LEMMA LookupKeeps ==
  ASSUME TypeOK, ReviewInv, NEW p \in Pass, LookupOffers(p)
  PROVE  ReviewInv'
<1>1. /\ UNCHANGED <<stage, posted, events, mem, disk>>
      /\ Offered(stage[pass[p].cur]) # "none"
      /\ pass' = [pass EXCEPT ![p].step = "post", ![p].via = Offered(stage[pass[p].cur])]
  BY DEF LookupOffers, storeVars, pastVars, marketVars
<1>2. pass'[p].step = "post" /\ pass'[p].via # "none"
  BY <1>1 DEF TypeOK, PassState
<1>3. \A q \in Pass : q # p => pass'[q] = pass[q]
  BY <1>1 DEF TypeOK
<1>4. \A q \in Pass : pass'[q].step = "answer" =>
                        pass[q].step = "answer" /\ pass'[q].cur = pass[q].cur
  BY <1>2, <1>3
<1>5. \A q \in Pass : pass'[q].step = "post" => pass'[q].via # "none"
  BY <1>2, <1>3 DEF ReviewInv
<1>6. RecordsAreTrue'
  BY <1>1 DEF ReviewInv, RecordsAreTrue
<1>7. \A q \in Pass : pass'[q].step = "answer" =>
                        posted'[pass'[q].cur] = "auto" /\ events'[pass'[q].cur] = 0
  BY <1>1, <1>4 DEF ReviewInv, Answering
<1>8. \A q, r \in Pass :
          (pass'[q].step = "answer" /\ pass'[r].step = "answer" /\ pass'[q].cur = pass'[r].cur)
            => q = r
  <2>1. \A q, r \in Pass :
            (pass[q].step = "answer" /\ pass[r].step = "answer" /\ pass[q].cur = pass[r].cur)
              => q = r
    BY DEF ReviewInv, Answering
  <2>. QED  BY <1>4, <2>1
<1>9. \A t \in Txn :
        stage'[t] \in {"hired", "ended", "completed", "customerFirst"} => posted'[t] = "none"
  BY <1>1 DEF ReviewInv
<1>. QED  BY <1>5, <1>6, <1>7, <1>8, <1>9 DEF ReviewInv, Answering

\* A review the marketplace accepts is the first of its transaction.
LEMMA PostKeeps ==
  ASSUME TypeOK, ReviewInv, NEW p \in Pass, PostApplied(p)
  PROVE  ReviewInv'
<1>. DEFINE t == pass[p].cur
<1>1. /\ UNCHANGED <<events, mem, disk>> /\ t \in Txn
      /\ Offered(stage[t]) = pass[p].via /\ pass[p].step = "post"
      /\ stage' = [stage EXCEPT ![t] = AfterReview(pass[p].via)]
      /\ posted' = [posted EXCEPT ![t] = "auto"]
      /\ pass' = [pass EXCEPT ![p].step = "answer"]
  BY DEF PostApplied, storeVars, pastVars, At, Go, TypeOK
<1>2. stage[t] \in {"completed", "customerFirst"}
  BY <1>1 DEF ReviewInv, Offered
<1>3. posted[t] = "none" /\ events[t] = 0
  BY <1>1, <1>2 DEF ReviewInv, RecordsAreTrue, TypeOK
<1>4. \A q \in Pass : Answering(q) => pass[q].cur # t
  BY <1>3 DEF ReviewInv
<1>5. /\ pass'[p].step = "answer" /\ pass'[p].cur = t
      /\ \A q \in Pass : q # p => pass'[q] = pass[q]
  BY <1>1 DEF TypeOK, PassState
<1>6. /\ posted'[t] = "auto" /\ stage'[t] \in {"providerFirst", "both"}
      /\ \A u \in Txn : u # t => posted'[u] = posted[u] /\ stage'[u] = stage[u]
  BY <1>1 DEF TypeOK, AfterReview
<1>7. \A q \in Pass : Answering(q) => pass[q].cur \in Txn
  BY DEF TypeOK, Answering
<1>. HIDE DEF t
<1>8. \A u \in Txn : stage'[u] \in {"hired", "ended", "completed", "customerFirst"} => posted'[u] = "none"
  BY <1>6 DEF ReviewInv
<1>9. \A q \in Pass : pass'[q].step = "post" => pass'[q].via # "none"
  BY <1>5 DEF ReviewInv
<1>10. \A q \in Pass : pass'[q].step = "answer" =>
          posted'[pass'[q].cur] = "auto" /\ events'[pass'[q].cur] = 0
  BY <1>1, <1>3, <1>4, <1>5, <1>6, <1>7 DEF ReviewInv, Answering
<1>11. \A q, r \in Pass :
          (pass'[q].step = "answer" /\ pass'[r].step = "answer" /\ pass'[q].cur = pass'[r].cur)
            => q = r
  BY <1>4, <1>5 DEF ReviewInv, Answering
<1>12. RecordsAreTrue'
  BY <1>1, <1>6 DEF ReviewInv, RecordsAreTrue
<1>. QED  BY <1>8, <1>9, <1>10, <1>11, <1>12 DEF ReviewInv, Answering

LEMMA RecordedKeeps ==
  ASSUME TypeOK, ReviewInv, NEW p \in Pass, ReviewRecorded(p)
  PROVE  ReviewInv'
<1>. DEFINE t == pass[p].cur
<1>1. /\ Answering(p) /\ t \in Txn /\ UNCHANGED <<stage, posted, disk>>
      /\ mem' = IF pass[p].held THEN [mem EXCEPT ![t] = SuccessState(@)] ELSE mem
      /\ events' = [events EXCEPT ![t] = Least(@ + 1, 2)]
      /\ Proceed(p, pass[p].todo)
  BY DEF ReviewRecorded, marketVars, Answering, Answered, At, TypeOK
<1>2. posted[t] = "auto" /\ events[t] = 0
  BY <1>1 DEF ReviewInv
<1>3. /\ events'[t] = 1
      /\ \A u \in Txn : u # t => events'[u] = events[u] /\ mem'[u] = mem[u]
  BY <1>1, <1>2 DEF TypeOK, Least
<1>4. pass[p].todo \in SUBSET Txn
  BY DEF TypeOK, PassState
<1>5. /\ pass'[p].step \in {"save", "lookup"}
      /\ \A q \in Pass : q # p => pass'[q] = pass[q]
  BY <1>1, <1>4, PassSteps
<1>6. \A q \in Pass : Answering(q) /\ q # p => pass[q].cur \in Txn /\ pass[q].cur # t
  BY <1>1 DEF TypeOK, Answering, ReviewInv
<1>. HIDE DEF t
<1>7. RecordsAreTrue'
  BY <1>1, <1>2, <1>3 DEF ReviewInv, RecordsAreTrue
<1>8. \A q \in Pass : pass'[q].step = "answer" =>
          posted'[pass'[q].cur] = "auto" /\ events'[pass'[q].cur] = 0
  BY <1>1, <1>3, <1>5, <1>6 DEF ReviewInv, Answering
<1>. QED  BY <1>1, <1>5, <1>7, <1>8 DEF ReviewInv, Answering

LEMMA OthersKeep ==
  ASSUME TypeOK, ReviewInv,
         \/ \E t \in Txn : RetryNow(t) \/ MarketMoves(t) \/ Reconfirmed(t) \/ ProviderReviews(t)
         \/ SaveOthers \/ Restart \/ Tick
  PROVE  ReviewInv'
<1>. USE DEF marketVars, storeVars, seenVars, pastVars
<1>1. ASSUME NEW t \in Txn, RetryNow(t) PROVE ReviewInv'
  <2>1. UNCHANGED <<stage, posted, events, mem, disk>> /\ (Proceed("manual", {t}) \/ UNCHANGED pass)
    BY <1>1 DEF RetryNow
  <2>2. "manual" \in Pass
    BY DEF Pass
  <2>3. Proceed("manual", {t}) =>
          /\ pass'["manual"].step \in {"save", "lookup"}
          /\ \A q \in Pass : q # "manual" => pass'[q] = pass[q]
    BY <2>2, PassSteps
  <2>4. Idling
    BY <2>1, <2>2, <2>3 DEF Idling
  <2>. QED  BY <2>4, IdlingKeeps
<1>2. ASSUME NEW t \in Txn, MarketMoves(t) \/ Reconfirmed(t) PROVE ReviewInv'
  <2>1. UNCHANGED <<posted, events, mem, disk, pass>>
    BY <1>2 DEF MarketMoves, Reconfirmed
  <2>2. \A u \in Txn :
          stage'[u] \in {"hired", "ended", "completed", "customerFirst"} =>
            stage[u] \in {"hired", "ended", "completed", "customerFirst"}
    BY <1>2 DEF MarketMoves, Reconfirmed, Moves, TypeOK
  <2>. QED  BY <2>1, <2>2 DEF ReviewInv, Answering, RecordsAreTrue
<1>3. ASSUME NEW t \in Txn, ProviderReviews(t) PROVE ReviewInv'
  <2>1. /\ UNCHANGED <<events, mem, disk, pass>>
        /\ stage[t] \in {"completed", "customerFirst"}
        /\ posted' = [posted EXCEPT ![t] = "provider"]
        /\ stage' = [stage EXCEPT ![t] = AfterReview(Offered(stage[t]))]
    BY <1>3 DEF ProviderReviews, Offered
  <2>2. posted[t] = "none"
    BY <2>1 DEF ReviewInv
  <2>3. /\ \A u \in Txn : u # t => posted'[u] = posted[u] /\ stage'[u] = stage[u]
        /\ stage'[t] \in {"providerFirst", "both"}
    BY <2>1 DEF TypeOK, AfterReview
  <2>4. \A p \in Pass : Answering(p) => pass[p].cur \in Txn /\ pass[p].cur # t
    BY <2>2 DEF ReviewInv, TypeOK, Answering
  <2>5. RecordsAreTrue'
    BY <2>1, <2>2, <2>3 DEF ReviewInv, RecordsAreTrue
  <2>. QED  BY <2>1, <2>3, <2>4, <2>5 DEF ReviewInv, Answering
<1>4. CASE SaveOthers
  BY <1>4, IdlingKeeps DEF SaveOthers, Idling
<1>5. CASE Restart
  BY <1>5, IdlingKeeps, SetupTypes DEF Restart, Idling
<1>6. CASE Tick
  <2>1. \A t \in Txn : mem'[t].reviewed = mem[t].reviewed /\ disk'[t].reviewed = disk[t].reviewed
    BY <1>6 DEF Tick, SoonerAll, TypeOK, Entry
  <2>2. \A p \in Pass : /\ pass'[p].step = pass[p].step /\ pass'[p].cur = pass[p].cur
                        /\ pass'[p].via = pass[p].via
    BY <1>6 DEF Tick, TypeOK, PassState
  <2>. QED  BY <1>6, <2>1, <2>2, IdlingKeeps DEF Tick, Idling
<1>. QED  BY <1>1, <1>2, <1>3, <1>4, <1>5, <1>6

\* In every reachable state, whatever is lost, restarted or raced for: an entry
\* says auto_reviewed, and a review_left event was fired, only for a review that
\* an automatic pass posted, and at most one event for each (_run_auto_review).
THEOREM ReviewRecordsAreTrue == Spec => []RecordsAreTrue
<1>1. Init => ReviewInv
  <2>. SUFFICES ASSUME Init PROVE ReviewInv
    OBVIOUS
  <2>1. \A p \in Pass : pass[p].step \in {"idle", "fetch"}
    BY SetupTypes DEF Init
  <2>2. RecordsAreTrue
    BY DEF Init, RecordsAreTrue, Blank
  <2>. QED  BY <2>1, <2>2 DEF Init, ReviewInv, Answering
<1>2. TypeOK /\ ReviewInv /\ [Next]_vars => ReviewInv'
  <2>. SUFFICES ASSUME TypeOK, ReviewInv, [Next]_vars PROVE ReviewInv'
    OBVIOUS
  <2>1. CASE Polling
    BY <2>1, PollIdles, IdlingKeeps
  <2>2. ASSUME NEW p \in Pass, Attempt(p) PROVE ReviewInv'
    BY <2>2, AttemptIdles, IdlingKeeps, LookupKeeps, PostKeeps, RecordedKeeps DEF Attempt
  <2>3. CASE UNCHANGED vars
    BY <2>3 DEF vars, ReviewInv, Answering, RecordsAreTrue
  <2>. QED  BY <2>1, <2>2, <2>3, OthersKeep DEF Next, Polling
<1>3. ReviewInv => RecordsAreTrue
  BY DEF ReviewInv
<1>. QED  BY <1>1, <1>2, <1>3, TypeCorrect, PTL DEF Spec

-----------------------------------------------------------------------------
(* The backoff that was saved.                                              *)

LEMMA DelayGrows ==
  ASSUME NEW j \in Nat, NEW k \in Nat, j <= k
  PROVE  RetryDelay(j) <= RetryDelay(k)
<1>. DEFINE e(n) == Least(Most(0, n - 1), 5) + 1
<1>1. e(j) \in 1 .. 6 /\ e(k) \in 1 .. 6 /\ e(j) <= e(k)
  BY DEF Least, Most
<1>2. \A n \in 1 .. 6 : Doubled[n] \in 1 .. 32
  BY DEF Doubled
<1>3. \A m, n \in 1 .. 6 : m <= n => Doubled[m] <= Doubled[n]
  BY DEF Doubled
<1>4. RetryDelay(j) = Least(Doubled[e(j)], 24) /\ RetryDelay(k) = Least(Doubled[e(k)], 24)
  BY DEF RetryDelay
<1>. HIDE DEF e
<1>. QED  BY <1>1, <1>2, <1>3, <1>4 DEF Least

\* An entry in the file is not ahead of the one at work, unless that one is
\* done: it counts no more failures, and it is due at most a pass's time later.
SavedBehind ==
  \A t \in Txn :
    /\ mem[t].wait <= RetryDelay(mem[t].attempts)
    /\ disk[t].wait <= RetryDelay(disk[t].attempts)
    /\ \/ mem[t].reviewed
       \/ /\ disk[t].attempts <= mem[t].attempts
          /\ disk[t].wait <= mem[t].wait + MaxAge

\* All that a step does to an entry: an attempt is recorded, the entry is copied
\* between dictionary and file, or replaced or overwritten in both, or time passes.
EntryStep(t) ==
  \/ mem'[t] = mem[t] /\ disk'[t] = disk[t]
  \/ disk'[t] = disk[t] /\ \E age \in 0 .. MaxAge : mem'[t] = FailureState(mem[t], age)
  \/ disk'[t] = disk[t] /\ mem'[t] = SuccessState(mem[t])
  \/ /\ mem'[t] = disk'[t]
     /\ mem'[t] \in {mem[t], disk[t], [mem[t] EXCEPT !.seen = 0]}
                     \cup {[Blank EXCEPT !.seen = c] : c \in 0 .. MaxChanges}
  \/ /\ mem'[t] = [mem[t] EXCEPT !.wait = Sooner(@)]
     /\ disk'[t] = [disk[t] EXCEPT !.wait = Sooner(@)]

LEMMA RecordingSteps ==
  ASSUME TypeOK, NEW p \in Pass, Attempt(p), NEW t \in Txn
  PROVE  EntryStep(t)
<1>. USE DEF EntryStep, storeVars
<1>1. pass[p].age \in 0 .. MaxAge /\ mem \in [Txn -> Entry]
  BY DEF TypeOK, PassState
<1>2. CASE AttemptFails(p) \/ AnswerLost(p)
  BY <1>1, <1>2 DEF AttemptFails, AnswerLost, RecordFailure
<1>3. CASE ReviewRecorded(p)
  BY <1>1, <1>3 DEF ReviewRecorded
<1>4. CASE LookupOffers(p) \/ PostApplied(p) \/ TimesOut(p)
  BY <1>4 DEF LookupOffers, PostApplied, TimesOut
<1>5. CASE SaveReviews(p)
  BY <1>5 DEF SaveReviews
<1>. QED  BY <1>2, <1>3, <1>4, <1>5 DEF Attempt

LEMMA EntrySteps ==
  ASSUME TypeOK, [Next]_vars, NEW t \in Txn
  PROVE  EntryStep(t)
<1>. USE DEF EntryStep, storeVars
<1>1. ASSUME NEW p \in Polls, Detect(p) PROVE EntryStep(t)
  <2>1. view[p][t].changes \in 0 .. MaxChanges
    BY DEF TypeOK, View
  <2>. DEFINE fresh == {u \in Txn : Replaced(view[p][u], mem[u])}
              changed == {u \in Txn : Overwritten(view[p][u], mem[u])}
  <2>2. /\ mem' = [u \in Txn |-> CASE u \in fresh   -> [Blank EXCEPT !.seen = view[p][u].changes]
                                   [] u \in changed -> [mem[u] EXCEPT !.seen = 0]
                                   [] OTHER         -> mem[u]]
        /\ disk' = IF fresh \cup changed = {} THEN disk ELSE mem'
    BY <1>1 DEF Detect
  <2>. HIDE DEF fresh, changed
  <2>3. mem'[t] \in {mem[t], [mem[t] EXCEPT !.seen = 0], [Blank EXCEPT !.seen = view[p][t].changes]}
    BY <2>2
  <2>4. mem'[t] = mem[t] \/ t \in fresh \cup changed
    BY <2>2
  <2>. QED  BY <2>1, <2>2, <2>3, <2>4
<1>2. CASE StartPoll \/ FetchFails \/ \E p \in Polls : FetchSucceeds(p) \/ SelectReviews(p)
  BY <1>2 DEF StartPoll, FetchSucceeds, FetchFails, SelectReviews
<1>3. CASE \E u \in Txn : RetryNow(u) \/ MarketMoves(u) \/ Reconfirmed(u) \/ ProviderReviews(u)
  BY <1>3 DEF RetryNow, MarketMoves, Reconfirmed, ProviderReviews
<1>4. CASE SaveOthers \/ Restart \/ SetupFails
  BY <1>4 DEF SaveOthers, Restart, SetupFails
<1>5. CASE Tick
  BY <1>5 DEF Tick, SoonerAll
<1>6. CASE UNCHANGED vars
  BY <1>6 DEF vars
<1>. QED  BY <1>1, <1>2, <1>3, <1>4, <1>5, <1>6, RecordingSteps DEF Next, Poll

LEMMA SavedBehindNext ==
  ASSUME TypeOK, SavedBehind, [Next]_vars
  PROVE  SavedBehind'
<1>. SUFFICES ASSUME NEW t \in Txn
              PROVE  /\ mem'[t].wait <= RetryDelay(mem'[t].attempts)
                     /\ disk'[t].wait <= RetryDelay(disk'[t].attempts)
                     /\ \/ mem'[t].reviewed
                        \/ /\ disk'[t].attempts <= mem'[t].attempts
                           /\ disk'[t].wait <= mem'[t].wait + MaxAge
  BY DEF SavedBehind
<1>. DEFINE m == mem[t]
            d == disk[t]
<1>1. /\ m \in Entry /\ d \in Entry
      /\ m.wait <= RetryDelay(m.attempts) /\ d.wait <= RetryDelay(d.attempts)
      /\ m.reviewed \/ (d.attempts <= m.attempts /\ d.wait <= m.wait + MaxAge)
  BY DEF TypeOK, SavedBehind
<1>2. /\ m.attempts \in 0 .. MaxAttempts /\ d.attempts \in 0 .. MaxAttempts
      /\ m.wait \in Int /\ d.wait \in Int /\ MaxAge \in Nat /\ MaxAttempts \in Nat
  BY <1>1, BoundsAssumption DEF Entry, Wait
<1>3. EntryStep(t)
  BY EntrySteps
<1>4. RetryDelay(m.attempts) \in 1 .. 24 /\ RetryDelay(d.attempts) \in 1 .. 24
  BY <1>2, RetryDelayBounds
<1>5. ASSUME NEW age \in 0 .. MaxAge, mem'[t] = FailureState(m, age), disk'[t] = d
      PROVE  /\ mem'[t].wait <= RetryDelay(mem'[t].attempts)
             /\ \/ mem'[t].reviewed
                \/ /\ d.attempts <= mem'[t].attempts
                   /\ d.wait <= mem'[t].wait + MaxAge
  <2>. DEFINE n == Counted(m.attempts)
  <2>1. n \in Nat /\ m.attempts <= n
    BY <1>2 DEF Counted, Least
  <2>2. /\ mem'[t].attempts = n /\ mem'[t].wait = RetryDelay(n) - age
        /\ mem'[t].reviewed = m.reviewed
    BY <1>1, <1>5 DEF FailureState, Entry
  <2>3. RetryDelay(n) \in 1 .. 24
    BY <2>1, RetryDelayBounds
  <2>4. d.attempts <= m.attempts => RetryDelay(d.attempts) <= RetryDelay(n)
    BY <1>2, <2>1, DelayGrows
  <2>. HIDE DEF n
  <2>. QED  BY <1>1, <1>2, <1>4, <2>1, <2>2, <2>3, <2>4
<1>6. CASE mem'[t] = SuccessState(m) /\ disk'[t] = d
  <2>1. mem'[t].reviewed /\ mem'[t].wait = -MaxAge /\ mem'[t].attempts = m.attempts
    BY <1>1, <1>6 DEF SuccessState, Entry
  <2>. QED  BY <1>1, <1>2, <1>4, <1>6, <2>1
<1>7. ASSUME NEW c \in 0 .. MaxChanges, mem'[t] = [Blank EXCEPT !.seen = c], disk'[t] = mem'[t]
      PROVE  /\ mem'[t].wait <= RetryDelay(mem'[t].attempts)
             /\ disk'[t].attempts <= mem'[t].attempts
             /\ disk'[t].wait <= mem'[t].wait + MaxAge
  <2>1. mem'[t].wait = -MaxAge /\ mem'[t].attempts = 0
    BY <1>7 DEF Blank
  <2>2. RetryDelay(0) \in 1 .. 24
    BY RetryDelayBounds
  <2>. QED  BY <1>2, <1>7, <2>1, <2>2
<1>8. CASE mem'[t] = disk'[t] /\ mem'[t] \in {m, d, [m EXCEPT !.seen = 0]}
  <2>. DEFINE e == [m EXCEPT !.seen = 0]
  <2>1. e.wait = m.wait /\ e.attempts = m.attempts
    BY <1>1 DEF Entry
  <2>. HIDE DEF e
  <2>2. mem'[t] \in {m, d, e} /\ disk'[t] = mem'[t]
    BY <1>8 DEF e
  <2>. QED  BY <1>1, <1>2, <2>1, <2>2
<1>9. CASE /\ mem'[t] = [m EXCEPT !.wait = Sooner(@)]
           /\ disk'[t] = [d EXCEPT !.wait = Sooner(@)]
  <2>1. /\ mem'[t].wait = Sooner(m.wait) /\ disk'[t].wait = Sooner(d.wait)
        /\ mem'[t].attempts = m.attempts /\ disk'[t].attempts = d.attempts
        /\ mem'[t].reviewed = m.reviewed
    BY <1>1, <1>9 DEF Entry
  <2>2. \A w \in Int : Sooner(w) = (IF w - 1 > -MaxAge THEN w - 1 ELSE -MaxAge)
    BY DEF Sooner, Most
  <2>3. /\ Sooner(m.wait) <= RetryDelay(m.attempts) /\ Sooner(d.wait) <= RetryDelay(d.attempts)
        /\ d.wait <= m.wait + MaxAge => Sooner(d.wait) <= Sooner(m.wait) + MaxAge
    BY <1>1, <1>2, <1>4, <2>2
  <2>. QED  BY <1>1, <2>1, <2>3
<1>10. CASE mem'[t] = m /\ disk'[t] = d
  BY <1>1, <1>10
<1>. QED  BY <1>1, <1>3, <1>5, <1>6, <1>7, <1>8, <1>9, <1>10 DEF EntryStep

\* What the pass of a poll takes up had been selected.
LEMMA PickedAreSelected ==
  ASSUME TypeOK, [Next]_vars, NEW p \in Polls, NEW t \in Txn, Picks(p, t)
  PROVE  Selected(view[p][t], mem[t], pass[p].age, FALSE)
<1>. DEFINE chosen == {u \in Txn : Enabled /\ Selected(view[p][u], mem[u], pass[p].age, FALSE)}
<1>1. p \in Pass /\ p # "manual" /\ "later" \in Pass /\ pass[p] \in PassState
      /\ pass[p].step = "select" /\ pass'[p].step = "lookup"
  BY DEF TypeOK, Pass, Polls, Picks, At
<1>2. SelectReviews(p)
  <2>1. ASSUME NEW q \in Pass, Attempt(q) PROVE q # p /\ pass'[p] = pass[p]
    <3>1. q # p
      BY <1>1, <2>1 DEF Attempt, LookupOffers, AttemptFails, PostApplied, ReviewRecorded, Answered,
                  AnswerLost, TimesOut, SaveReviews, At
    <3>2. pass[q].todo \in SUBSET Txn
      BY DEF TypeOK, PassState
    <3>3. pass' \in {[pass EXCEPT ![q] = x] : x \in {pass'[q]}}
      BY <2>1, <3>2 DEF Attempt, LookupOffers, AttemptFails, PostApplied, ReviewRecorded, RecordFailure,
                  AnswerLost, TimesOut, SaveReviews, Go, TypeOK, Proceed, End
    <3>. QED  BY <1>1, <3>1, <3>3 DEF TypeOK
  <2>2. ASSUME NEW q \in Polls, q # p, Poll(q) PROVE pass'[p].step = pass[p].step
    <3>1. q \in Pass /\ pass[q] \in PassState
      BY DEF Pass, TypeOK
    <3>2. CASE FetchSucceeds(q)
      BY <1>1, <2>2, <3>2 DEF FetchSucceeds, Go, TypeOK
    <3>3. CASE Detect(q)
      BY <1>1, <2>2, <3>3 DEF Detect, PassState
    <3>4. CASE SelectReviews(q)
      <4>. DEFINE T == {u \in Txn : Enabled /\ Selected(view[q][u], mem[u], pass[q].age, FALSE)}
      <4>1. T \in SUBSET Txn /\ (Proceed(q, T) \/ End(q))
        BY <3>4 DEF SelectReviews
      <4>. HIDE DEF T
      <4>. QED  BY <1>1, <2>2, <3>1, <4>1, PassSteps
    <3>. QED  BY <2>2, <3>2, <3>3, <3>4 DEF Poll
  <2>3. CASE \E u \in Txn : RetryNow(u)
    <3>1. pass'[p] = pass[p]
      BY <1>1, <2>3 DEF RetryNow, Proceed, TypeOK
    <3>. QED  BY <1>1, <3>1
  <2>4. CASE \E u \in Txn : MarketMoves(u) \/ Reconfirmed(u) \/ ProviderReviews(u)
    BY <1>1, <2>4 DEF MarketMoves, Reconfirmed, ProviderReviews
  <2>5. CASE SaveOthers \/ UNCHANGED vars
    BY <1>1, <2>5 DEF SaveOthers, vars
  <2>6. CASE Restart \/ SetupFails
    BY <1>1, <2>6, SetupTypes DEF Restart, SetupFails
  <2>7. CASE Tick
    BY <1>1, <2>7 DEF Tick, At, PassState
  <2>8. ~StartPoll
    BY <1>1 DEF StartPoll, At, TypeOK, PassState
  <2>9. ~FetchFails
    BY <1>1 DEF FetchFails, At, TypeOK, IdlePass
  <2>10. ~FetchSucceeds(p) /\ ~Detect(p)
    BY <1>1 DEF FetchSucceeds, Detect, At, PassState
  <2>. QED  BY <1>1, <2>1, <2>2, <2>3, <2>4, <2>5, <2>6, <2>7, <2>8, <2>9, <2>10 DEF Next, Poll
<1>3. chosen # {} /\ Proceed(p, chosen)
  <2>1. ~End(p)
    BY <1>1 DEF End, IdlePass, TypeOK
  <2>. QED  BY <1>2, <2>1 DEF SelectReviews
<1>4. PICK u \in chosen : pass' = [pass EXCEPT ![p] =
        [@ EXCEPT !.step = "lookup", !.todo = chosen \ {u}, !.cur = u, !.via = "none", !.held = TRUE]]
  BY <1>3 DEF Proceed
<1>. HIDE DEF chosen
<1>5. pass'[p].todo = chosen \ {u} /\ pass'[p].cur = u
  BY <1>1, <1>4 DEF PassState, TypeOK
<1>6. t \in chosen
  BY <1>4, <1>5 DEF Picks
<1>. QED  BY <1>6 DEF chosen

\* No restart makes an automatic attempt earlier than the file says, by more than
\* a pass takes: for any number of transactions, whatever is lost, times out, is
\* raced for or reconfirmed (retry_due of auto_review.py).
THEOREM SavedBackoff == Spec => SavedBackoffKept
<1>1. Init => SavedBehind
  <2>1. RetryDelay(0) \in 1 .. 24
    BY RetryDelayBounds
  <2>. QED  BY <2>1, BoundsAssumption DEF Init, SavedBehind, Blank
<1>2. TypeOK /\ SavedBehind /\ [Next]_vars =>
        [\A p \in Polls, t \in Txn : Picks(p, t) => disk[t].wait + pass[p].age <= MaxAge]_vars
  <2>. SUFFICES ASSUME TypeOK, SavedBehind, [Next]_vars, NEW p \in Polls, NEW t \in Txn, Picks(p, t)
                PROVE  disk[t].wait + pass[p].age <= MaxAge
    OBVIOUS
  <2>1. ~mem[t].reviewed /\ mem[t].wait + pass[p].age <= 0
    BY PickedAreSelected DEF Selected, RetryDue
  <2>2. mem[t].wait \in Int /\ disk[t].wait \in Int /\ pass[p].age \in Int /\ MaxAge \in Int
    BY BoundsAssumption DEF TypeOK, Entry, Wait, Pass, PassState
  <2>. QED  BY <2>1, <2>2 DEF SavedBehind
<1>. QED  BY <1>1, <1>2, SavedBehindNext, TypeCorrect, PTL DEF Spec, SavedBackoffKept

-----------------------------------------------------------------------------
(* The backoff that is called for. Without timeouts, crashes and new         *)
(* confirmations, and where no refresh is requested during the first one of  *)
(* a setup, the entry at work knows of every failed attempt.                 *)

NothingDropped == Faults \cap {"timeout", "crash", "reconfirm"} = {}

\* an attempt of t was made, is under way, or may be made of what was fetched
Taken(t) ==
  \/ failures[t] > 0
  \/ data[t].stage \in Reviewable
  \/ \E p \in Polls : /\ pass[p].step \in {"select", "lookup", "post", "answer", "save"}
                      /\ view[p][t].stage \in Reviewable
  \/ \E p \in Pass : t \in pass[p].todo \cup {pass[p].cur}

\* no list says "confirmed" of t, and none will
NotListed(t) == stage[t] \notin Confirmed /\ \A p \in Polls : view[p][t].stage \notin Confirmed

\* the confirmation of t is in its entry, or no poll will see it any more
Past(t) == mem[t].seen = 1 \/ NotListed(t)

\* There is one list at a time, and the first refresh begins with what is in the file.
OneList ==
  /\ \A p, q \in Polls : p # q => pass[p].step = "idle" \/ pass[q].step = "idle"
  /\ \A p \in Polls : pass[p].step \in {"idle", "fetch"} => view[p] = NothingSeen
  /\ pass["first"].step = "fetch" => /\ mem = disk /\ data = NothingSeen
                                     /\ pass["manual"].step = "idle"

\* The entry counts the failures that were made, and waits as they call for.
EntryCounts ==
  \A t \in Txn : /\ mem[t].attempts = failures[t]
                 /\ mem[t].reviewed \/ mem[t].wait = owed[t]
                 /\ failures[t] = 0 => owed[t] = -MaxAge

\* What a poll fetched was so, and a hire that is over is not confirmed again.
ViewIsPast ==
  \A p \in Polls, t \in Txn : view[p][t].stage # "unknown" =>
    view[p][t].changes = 1 /\ (view[p][t].stage \notin Confirmed => stage[t] \notin Confirmed)

\* No entry is replaced once an attempt is made.
TakenArePast == \A t \in Txn : Taken(t) => Past(t)

BackoffInv ==
  /\ OneList
  /\ EntryCounts
  /\ \A p \in Pass : pass[p].held
  /\ ViewIsPast
  /\ TakenArePast

\* A step that leaves stage, view and the entries' confirmations behind, and
\* takes up nothing, leaves alone what keeps entries from being replaced.
LEMMA TakenKept ==
  ASSUME TypeOK, ViewIsPast, TakenArePast,
         \A t \in Txn : mem'[t].seen = mem[t].seen,
         \A t \in Txn : stage[t] \notin Confirmed => stage'[t] \notin Confirmed,
         \A p \in Polls, t \in Txn : view'[p][t] \in {view[p][t], Unknown},
         \A t \in Txn : Taken(t)' => Taken(t)
  PROVE  ViewIsPast' /\ TakenArePast'
<1>1. Unknown.stage = "unknown" /\ "unknown" \notin Confirmed
  BY DEF Unknown, Confirmed
<1>2. ViewIsPast'
  <2>. SUFFICES ASSUME NEW p \in Polls, NEW t \in Txn, view'[p][t].stage # "unknown"
                PROVE  /\ view'[p][t].changes = 1
                       /\ view'[p][t].stage \notin Confirmed => stage'[t] \notin Confirmed
    BY DEF ViewIsPast
  <2>1. view'[p][t] = view[p][t]
    BY <1>1
  <2>. QED  BY <2>1 DEF ViewIsPast
<1>3. ASSUME NEW t \in Txn, Past(t) PROVE Past(t)'
  <2>1. \A p \in Polls : view[p][t].stage \notin Confirmed => view'[p][t].stage \notin Confirmed
    BY <1>1
  <2>. QED  BY <1>3, <2>1 DEF Past, NotListed
<1>. QED  BY <1>2, <1>3 DEF TakenArePast

\* what is left of a pass when it goes on, and when it ends
LEMMA PassAfter ==
  ASSUME TypeOK, NEW p \in Pass
  PROVE  /\ \A T \in SUBSET Txn : Proceed(p, T) =>
              /\ pass'[p].step \in {"save", "lookup"} /\ pass'[p].held
              /\ pass'[p].todo \cup {pass'[p].cur} \subseteq T \cup {NoTxn}
              /\ \A q \in Pass : q # p => pass'[q] = pass[q]
         /\ End(p) =>
              /\ pass'[p] = IdlePass
              /\ \A q \in Pass : q # p => pass'[q] = pass[q]
              /\ p \in Polls => data' = view[p] /\ view' = [view EXCEPT ![p] = NothingSeen]
              /\ p \notin Polls => data' = data /\ view' = view
<1>1. pass[p] \in PassState /\ pass \in [Pass -> PassState]
  BY DEF TypeOK
<1>2. ASSUME NEW T \in SUBSET Txn, Proceed(p, T)
      PROVE  /\ pass'[p].step \in {"save", "lookup"} /\ pass'[p].held
             /\ pass'[p].todo \cup {pass'[p].cur} \subseteq T \cup {NoTxn}
             /\ \A q \in Pass : q # p => pass'[q] = pass[q]
  <2>1. CASE pass' = [pass EXCEPT ![p] = [@ EXCEPT !.step = "save", !.todo = {},
                                          !.cur = NoTxn, !.via = "none", !.held = TRUE]]
    BY <1>1, <2>1 DEF PassState
  <2>2. ASSUME NEW t \in T,
               pass' = [pass EXCEPT ![p] = [@ EXCEPT !.step = "lookup", !.todo = T \ {t},
                                                     !.cur = t, !.via = "none", !.held = TRUE]]
        PROVE  /\ pass'[p].step \in {"save", "lookup"} /\ pass'[p].held
               /\ pass'[p].todo \cup {pass'[p].cur} \subseteq T \cup {NoTxn}
               /\ \A q \in Pass : q # p => pass'[q] = pass[q]
    <3>1. /\ pass'[p].step = "lookup" /\ pass'[p].held
          /\ pass'[p].todo = T \ {t} /\ pass'[p].cur = t
      BY <1>1, <2>2 DEF PassState
    <3>2. \A q \in Pass : q # p => pass'[q] = pass[q]
      BY <1>1, <2>2
    <3>. QED  BY <3>1, <3>2
  <2>. QED  BY <1>2, <2>1, <2>2 DEF Proceed
<1>3. ASSUME End(p)
      PROVE  /\ pass'[p] = IdlePass
             /\ \A q \in Pass : q # p => pass'[q] = pass[q]
             /\ p \in Polls => data' = view[p] /\ view' = [view EXCEPT ![p] = NothingSeen]
             /\ p \notin Polls => data' = data /\ view' = view
  BY <1>1, <1>3 DEF End
<1>. QED  BY <1>2, <1>3

\* the list of a poll that ends is put away
LEMMA ViewAfter ==
  ASSUME TypeOK, NEW p \in Pass, End(p) \/ UNCHANGED view
  PROVE  \A q \in Polls, t \in Txn : view'[q][t] \in {view[q][t], Unknown}
BY PassAfter DEF TypeOK, NothingSeen

\* A pass that is past its detection goes on with its list, or ends.
LEMMA GoesOn ==
  ASSUME TypeOK, NEW p \in Pass, Attempt(p) \/ (p \in Polls /\ SelectReviews(p))
  PROVE  /\ pass[p].step \in {"select", "lookup", "post", "answer", "save"}
         /\ \A q \in Pass : q # p => pass'[q] = pass[q]
         /\ \/ pass'[p].step \notin {"idle", "fetch"} /\ UNCHANGED <<view, data>>
            \/ End(p)
<1>. USE DEF marketVars, storeVars, seenVars, pastVars, At
<1>1. pass[p] \in PassState /\ pass[p].todo \in SUBSET Txn /\ pass \in [Pass -> PassState]
  BY DEF TypeOK, PassState
<1>2. CASE AttemptFails(p) \/ AnswerLost(p) \/ ReviewRecorded(p)
  <2>1. /\ Proceed(p, pass[p].todo) /\ UNCHANGED <<view, data>>
        /\ pass[p].step \in {"lookup", "post", "answer"}
    BY <1>2 DEF AttemptFails, AnswerLost, ReviewRecorded, Answered, RecordFailure
  <2>. QED  BY <1>1, <2>1, PassAfter
<1>3. CASE TimesOut(p) \/ SaveReviews(p)
  <2>1. End(p) /\ pass[p].step \in {"lookup", "post", "answer", "save"}
    BY <1>3 DEF TimesOut, SaveReviews
  <2>. QED  BY <2>1, PassAfter
<1>4. CASE LookupOffers(p) \/ PostApplied(p)
  <2>1. /\ UNCHANGED <<view, data>> /\ pass[p].step \in {"lookup", "post"}
        /\ \/ pass' = [pass EXCEPT ![p].step = "post", ![p].via = Offered(stage[pass[p].cur])]
           \/ pass' = [pass EXCEPT ![p].step = "answer"]
    BY <1>4 DEF LookupOffers, PostApplied, Go
  <2>2. pass'[p].step \in {"post", "answer"} /\ \A q \in Pass : q # p => pass'[q] = pass[q]
    BY <1>1, <2>1 DEF PassState
  <2>. QED  BY <2>1, <2>2
<1>5. CASE p \in Polls /\ SelectReviews(p)
  <2>. DEFINE chosen == {t \in Txn : Enabled /\ Selected(view[p][t], mem[t], pass[p].age, FALSE)}
  <2>1. /\ chosen \in SUBSET Txn /\ pass[p].step = "select"
        /\ (Proceed(p, chosen) /\ UNCHANGED <<view, data>>) \/ End(p)
    BY <1>5 DEF SelectReviews
  <2>. HIDE DEF chosen
  <2>. QED  BY <2>1, PassAfter
<1>. QED  BY <1>2, <1>3, <1>4, <1>5 DEF Attempt

\* The polls have one list at a time where nobody requests a refresh during the
\* first one of the setup.
LEMMA OneListNext ==
  ASSUME TypeOK, OneList, NothingDropped, ~EarlyRefresh, Next
  PROVE  OneList'
<1>. USE DEF marketVars, storeVars, seenVars, pastVars, At
<1>1. /\ pass \in [Pass -> PassState] /\ view \in [Polls -> [Txn -> View]]
      /\ "first" \in Polls /\ "later" \in Polls /\ "manual" \in Pass /\ "manual" \notin Polls
      /\ \A p \in Polls : p \in Pass /\ p \in {"first", "later"}
  BY DEF TypeOK, Pass, Polls
<1>2. /\ \A p, q \in Polls : p # q => pass[p].step = "idle" \/ pass[q].step = "idle"
      /\ \A p \in Polls : pass[p].step \in {"idle", "fetch"} => view[p] = NothingSeen
      /\ pass["first"].step = "fetch" => /\ mem = disk /\ data = NothingSeen
                                         /\ pass["manual"].step = "idle"
  BY DEF OneList
<1>3. CASE StartPoll
  <2>1. /\ UNCHANGED <<mem, disk, view, data>>
        /\ pass["later"].step = "idle" /\ pass["first"].step = "idle"
        /\ pass' = [pass EXCEPT !["later"].step = "fetch"]
    BY <1>3 DEF StartPoll
  <2>2. pass'["first"].step = "idle" /\ pass'["later"].step = "fetch"
    BY <1>1, <2>1 DEF PassState
  <2>. QED  BY <1>1, <1>2, <2>1, <2>2 DEF OneList
<1>4. ASSUME NEW p \in Polls, FetchSucceeds(p) PROVE OneList'
  <2>1. /\ UNCHANGED <<mem, disk, data>> /\ pass[p].step = "fetch"
        /\ pass' = [pass EXCEPT ![p].step = "detect"]
        /\ \A q \in Polls : q # p => view'[q] = view[q]
    BY <1>1, <1>4 DEF FetchSucceeds, Go
  <2>2. pass'[p].step = "detect" /\ \A q \in Pass : q # p => pass'[q] = pass[q]
    BY <1>1, <2>1 DEF PassState
  <2>3. pass'["first"].step # "fetch"
    BY <1>1, <1>2, <2>1, <2>2
  <2>. QED  BY <1>1, <1>2, <2>1, <2>2, <2>3 DEF OneList
<1>5. CASE FetchFails
  <2>1. /\ UNCHANGED <<mem, disk, view, data>> /\ pass["later"].step = "fetch"
        /\ pass'["later"].step = "idle" /\ \A q \in Pass : q # "later" => pass'[q] = pass[q]
    BY <1>1, <1>5 DEF FetchFails, IdlePass
  <2>. QED  BY <1>1, <1>2, <2>1 DEF OneList
<1>6. CASE SetupFails
  <2>1. /\ pass["first"].step = "fetch" /\ pass["later"].step = "idle"
        /\ mem' = disk /\ disk' = disk /\ data' = NothingSeen /\ view' = view
        /\ pass' = SetupPasses
    BY <1>6 DEF SetupFails
  <2>2. SetupPasses["later"].step = "idle" /\ SetupPasses["manual"].step = "idle"
    BY <1>1 DEF SetupPasses, IdlePass
  <2>3. \A p \in Polls : view'[p] = NothingSeen
    BY <1>1, <1>2, <2>1
  <2>. QED  BY <1>1, <2>1, <2>2, <2>3 DEF OneList
<1>7. ASSUME NEW p \in Polls, Detect(p) PROVE OneList'
  <2>1. pass[p].step = "detect" /\ UNCHANGED <<view, data>>
    BY <1>7 DEF Detect
  <2>2. pass'[p].step = "select" /\ \A q \in Pass : q # p => pass'[q].step = pass[q].step
    BY <1>1, <1>7 DEF Detect, PassState
  <2>3. pass'["first"].step # "fetch"
    BY <1>1, <1>2, <2>1, <2>2
  <2>. QED  BY <1>1, <1>2, <2>1, <2>2, <2>3 DEF OneList
<1>8. ASSUME NEW p \in Pass, Attempt(p) \/ (p \in Polls /\ SelectReviews(p)) PROVE OneList'
  <2>1. /\ pass[p].step \in {"select", "lookup", "post", "answer", "save"}
        /\ \A q \in Pass : q # p => pass'[q] = pass[q]
        /\ \/ pass'[p].step \notin {"idle", "fetch"} /\ UNCHANGED <<view, data>>
           \/ End(p)
    BY <1>8, GoesOn
  <2>2. End(p) => /\ pass'[p].step = "idle"
                  /\ p \in Polls => view' = [view EXCEPT ![p] = NothingSeen]
                  /\ p \notin Polls => view' = view
    BY PassAfter DEF IdlePass
  <2>3. /\ \A q \in Polls : q # p => view'[q] = view[q]
        /\ p \in Polls /\ pass'[p].step \in {"idle", "fetch"} => view'[p] = NothingSeen
    BY <1>1, <2>1, <2>2
  <2>4. pass'["first"].step # "fetch"
    BY <1>1, <1>2, <2>1, <2>2 DEF Pass
  <2>. QED  BY <1>1, <1>2, <2>1, <2>2, <2>3, <2>4 DEF OneList
<1>9. ASSUME NEW t \in Txn, RetryNow(t) PROVE OneList'
  <2>1. /\ UNCHANGED <<mem, disk, view, data>>
        /\ UNCHANGED pass \/ (Selected(data[t], mem[t], 0, TRUE) /\ Proceed("manual", {t}))
    BY <1>9 DEF RetryNow
  <2>2. Selected(data[t], mem[t], 0, TRUE) => data # NothingSeen
    BY DEF Selected, NothingSeen, Unknown, Reviewable
  <2>3. {t} \in SUBSET Txn
    OBVIOUS
  <2>4. Proceed("manual", {t}) => \A q \in Polls : pass'[q] = pass[q]
    BY <1>1, <2>3, PassAfter
  <2>. QED  BY <1>1, <1>2, <2>1, <2>2, <2>4 DEF OneList
<1>10. ASSUME NEW t \in Txn, MarketMoves(t) \/ ProviderReviews(t) \/ Reconfirmed(t) PROVE OneList'
  BY <1>10 DEF MarketMoves, ProviderReviews, Reconfirmed, OneList
<1>11. CASE SaveOthers
  BY <1>11 DEF SaveOthers, OneList
<1>12. ~Restart
  BY DEF Restart, NothingDropped
<1>13. CASE Tick
  <2>1. /\ UNCHANGED <<view, data>> /\ mem' = SoonerAll(mem) /\ disk' = SoonerAll(disk)
        /\ \A q \in Pass : pass'[q].step = pass[q].step
    BY <1>1, <1>13 DEF Tick, PassState
  <2>. QED  BY <1>1, <1>2, <2>1 DEF OneList
<1>. QED  BY <1>1, <1>3, <1>4, <1>5, <1>6, <1>7, <1>8, <1>9, <1>10, <1>11, <1>12, <1>13 DEF Next, Poll

\* A pass that goes on with what it had left, or ends, takes up nothing.
LEMMA GoingOnTakes ==
  ASSUME TypeOK, NEW p \in Pass, pass[p].step \in {"select", "lookup", "post", "answer", "save"},
         NEW T \in SUBSET Txn, \A t \in T : Taken(t),
         \/ Proceed(p, T) /\ UNCHANGED <<view, data>>
         \/ End(p)
  PROVE  \A t \in Txn : Taken(t)' => Taken(t) \/ failures'[t] # failures[t]
<1>. SUFFICES ASSUME NEW t \in Txn, Taken(t)', failures'[t] = failures[t], ~Taken(t)
              PROVE  FALSE
  OBVIOUS
<1>1. t # NoTxn /\ \A q \in Polls : q \in Pass
  BY OptionsAssumption DEF Pass
<1>2. CASE Proceed(p, T) /\ UNCHANGED <<view, data>>
  BY <1>1, <1>2, PassAfter DEF Taken
<1>3. CASE End(p)
  <2>1. p \in Polls => data' = view[p] /\ view' = [view EXCEPT ![p] = NothingSeen]
    BY <1>3, PassAfter
  <2>2. p \notin Polls => view' = view /\ data' = data
    BY <1>3, PassAfter
  <2>4. \A q \in Polls : q # p => view'[q] = view[q]
    BY <2>1, <2>2 DEF TypeOK
  <2>3. pass'[p] = IdlePass /\ \A q \in Pass : q # p => pass'[q] = pass[q]
    BY <1>3, PassAfter
  <2>. QED  BY <1>1, <2>1, <2>2, <2>3, <2>4 DEF Taken, IdlePass
<1>. QED  BY <1>2, <1>3

\* A failed attempt is recorded in the entry as it is observed.
LEMMA FailureCounts ==
  ASSUME TypeOK, EntryCounts, NEW p \in Pass, pass[p].cur \in Txn, pass[p].held,
         RecordFailure(p), Observe(pass[p].cur, pass[p].age)
  PROVE  /\ EntryCounts'
         /\ \A t \in Txn : mem'[t].seen = mem[t].seen
         /\ \A t \in Txn : t # pass[p].cur => failures'[t] = failures[t]
<1>. DEFINE u == pass[p].cur
            age == pass[p].age
<1>1. /\ mem' = [mem EXCEPT ![u] = FailureState(@, age)]
      /\ failures' = [failures EXCEPT ![u] = Counted(@)]
      /\ owed' = [owed EXCEPT ![u] = RetryDelay(Counted(failures[u])) - age]
  BY DEF RecordFailure, Observe
<1>2. u \in Txn /\ mem[u] \in Entry /\ failures[u] \in 0 .. MaxAttempts
  BY DEF TypeOK
<1>3. /\ mem'[u].attempts = Counted(mem[u].attempts)
      /\ mem'[u].wait = RetryDelay(Counted(mem[u].attempts)) - age
      /\ mem'[u].seen = mem[u].seen
  BY <1>1, <1>2 DEF FailureState, Entry, TypeOK
<1>4. failures'[u] = Counted(failures[u]) /\ owed'[u] = RetryDelay(Counted(failures[u])) - age
  BY <1>1, <1>2 DEF TypeOK
<1>5. Counted(failures[u]) # 0
  BY <1>2, BoundsAssumption DEF Counted, Least
<1>6. \A t \in Txn : t # u => mem'[t] = mem[t] /\ failures'[t] = failures[t] /\ owed'[t] = owed[t]
  BY <1>1 DEF TypeOK
<1>7. mem[u].attempts = failures[u]
  BY <1>2 DEF EntryCounts
<1>. HIDE DEF u, age
<1>. QED  BY <1>3, <1>4, <1>5, <1>6, <1>7 DEF EntryCounts, u

\* A pass between two awaits.
LEMMA AttemptKeepsBackoff ==
  ASSUME TypeOK, BackoffInv, NothingDropped, ~EarlyRefresh, NEW p \in Pass, Attempt(p)
  PROVE  BackoffInv'
<1>. USE DEF marketVars, storeVars, seenVars, pastVars
<1>1. /\ EntryCounts /\ ViewIsPast /\ TakenArePast /\ \A q \in Pass : pass[q].held
      /\ pass[p] \in PassState /\ pass \in [Pass -> PassState] /\ \A q \in Polls : q \in Pass
  BY DEF BackoffInv, TypeOK, Pass
<1>0. OneList'
  BY OneListNext DEF BackoffInv, Next
<1>2. pass[p].step \in {"lookup", "post", "answer"} => pass[p].cur \in Txn
  BY DEF TypeOK
<1>3. pass[p].todo \in SUBSET Txn /\ \A t \in pass[p].todo : Taken(t)
  BY <1>1 DEF PassState, Taken
<1>4. CASE AttemptFails(p) \/ AnswerLost(p)
  <2>1. /\ RecordFailure(p) /\ Observe(pass[p].cur, pass[p].age)
        /\ UNCHANGED <<stage, view, data>> /\ pass[p].step \in {"lookup", "post", "answer"}
    BY <1>4 DEF AttemptFails, AnswerLost, At
  <2>2. Proceed(p, pass[p].todo)
    BY <2>1 DEF RecordFailure
  <2>3. EntryCounts'
    BY <1>1, <1>2, <2>1, FailureCounts
  <2>8. \A t \in Txn : mem'[t].seen = mem[t].seen
    BY <1>1, <1>2, <2>1, FailureCounts
  <2>9. \A t \in Txn : t # pass[p].cur => failures'[t] = failures[t]
    BY <1>1, <1>2, <2>1, FailureCounts
  <2>4. \A t \in Txn : Taken(t)' => Taken(t) \/ failures'[t] # failures[t]
    BY <1>3, <2>1, <2>2, GoingOnTakes
  <2>5. \A t \in Txn : Taken(t)' => Taken(t)
    <3>1. Taken(pass[p].cur)
      BY DEF Taken
    <3>. QED  BY <2>4, <2>9, <3>1
  <2>6. ViewIsPast' /\ TakenArePast'
    <3>1. /\ \A t \in Txn : stage[t] \notin Confirmed => stage'[t] \notin Confirmed
          /\ \A q \in Polls, t \in Txn : view'[q][t] \in {view[q][t], Unknown}
      BY <2>1
    <3>. QED  BY <1>1, <2>5, <2>8, <3>1, TakenKept
  <2>7. \A q \in Pass : pass'[q].held
    BY <1>1, <1>3, <2>2, PassAfter
  <2>. QED  BY <1>0, <2>3, <2>6, <2>7 DEF BackoffInv
<1>5. CASE ReviewRecorded(p)
  <2>1. /\ UNCHANGED <<stage, view, data, failures, owed>> /\ pass[p].step = "answer"
        /\ Proceed(p, pass[p].todo)
        /\ mem' = [mem EXCEPT ![pass[p].cur] = SuccessState(@)]
    BY <1>1, <1>5 DEF ReviewRecorded, Answered, At
  <2>2. \A t \in Txn : /\ mem'[t].seen = mem[t].seen /\ mem'[t].attempts = mem[t].attempts
                       /\ mem'[t].reviewed \/ mem'[t] = mem[t]
    <3>1. mem \in [Txn -> Entry]
      BY DEF TypeOK
    <3>2. \A t \in Txn : mem'[t] = mem[t] \/ mem'[t] = SuccessState(mem[t])
      BY <2>1, <3>1
    <3>. QED  BY <3>1, <3>2 DEF SuccessState, Entry
  <2>3. EntryCounts'
    BY <1>1, <2>1, <2>2 DEF EntryCounts
  <2>4. \A t \in Txn : Taken(t)' => Taken(t) \/ failures'[t] # failures[t]
    BY <1>3, <2>1, GoingOnTakes
  <2>5. ViewIsPast' /\ TakenArePast'
    BY <1>1, <2>1, <2>2, <2>4, TakenKept
  <2>6. \A q \in Pass : pass'[q].held
    BY <1>1, <1>3, <2>1, PassAfter
  <2>. QED  BY <1>0, <2>3, <2>5, <2>6 DEF BackoffInv
<1>6. CASE LookupOffers(p) \/ PostApplied(p)
  <2>1. /\ UNCHANGED <<mem, view, data, failures, owed>>
        /\ pass[p].step \in {"lookup", "post"}
        /\ pass'[p].step \in {"post", "answer"} /\ pass'[p].held = pass[p].held
        /\ pass'[p].todo = pass[p].todo /\ pass'[p].cur = pass[p].cur
        /\ \A q \in Pass : q # p => pass'[q] = pass[q]
    <3>1. /\ UNCHANGED <<mem, view, data, failures, owed>>
          /\ pass[p].step \in {"lookup", "post"}
      BY <1>6 DEF LookupOffers, PostApplied, At
    <3>2. \/ pass' = [pass EXCEPT ![p].step = "post", ![p].via = Offered(stage[pass[p].cur])]
          \/ pass' = [pass EXCEPT ![p].step = "answer"]
      BY <1>6 DEF LookupOffers, PostApplied, Go
    <3>. QED  BY <1>1, <3>1, <3>2 DEF PassState
  <2>2. \A t \in Txn : stage[t] \notin Confirmed => stage'[t] \notin Confirmed
    BY <1>6 DEF LookupOffers, PostApplied, AfterReview, Confirmed, TypeOK
  <2>3. ASSUME NEW t \in Txn, Taken(t)' PROVE Taken(t)
    <3>1. \A q \in Pass : pass'[q].todo = pass[q].todo /\ pass'[q].cur = pass[q].cur
      BY <2>1
    <3>2. \A q \in Polls : pass'[q].step = pass[q].step \/ pass[q].step \in {"lookup", "post"}
      BY <1>1, <2>1
    <3>3. view' = view /\ data' = data /\ failures' = failures
      BY <2>1
    <3>. QED  BY <2>3, <3>1, <3>2, <3>3 DEF Taken
  <2>4. ViewIsPast' /\ TakenArePast'
    BY <1>1, <2>1, <2>2, <2>3, TakenKept
  <2>. QED  BY <1>0, <1>1, <2>1, <2>4 DEF BackoffInv, EntryCounts
<1>7. CASE SaveReviews(p)
  <2>1. End(p) /\ UNCHANGED <<stage, mem, failures, owed>> /\ pass[p].step = "save"
    BY <1>7 DEF SaveReviews, At
  <2>2. \A t \in Txn : Taken(t)' => Taken(t) \/ failures'[t] # failures[t]
    BY <1>3, <2>1, GoingOnTakes
  <2>3. \A q \in Polls, t \in Txn : view'[q][t] \in {view[q][t], Unknown}
    BY <2>1, ViewAfter
  <2>4. ViewIsPast' /\ TakenArePast'
    BY <1>1, <2>1, <2>2, <2>3, TakenKept
  <2>5. \A q \in Pass : pass'[q].held
    BY <1>1, <2>1, PassAfter DEF IdlePass
  <2>. QED  BY <1>0, <1>1, <2>1, <2>4, <2>5 DEF BackoffInv, EntryCounts
<1>8. ~TimesOut(p)
  BY DEF TimesOut, NothingDropped
<1>. QED  BY <1>4, <1>5, <1>6, <1>7, <1>8 DEF Attempt

\* A poll replaces the entry of no transaction that was taken up.
LEMMA DetectKeepsBackoff ==
  ASSUME TypeOK, BackoffInv, OneList', NEW p \in Polls, Detect(p)
  PROVE  BackoffInv'
<1>. DEFINE fresh == {t \in Txn : Replaced(view[p][t], mem[t])}
            changed == {t \in Txn : Overwritten(view[p][t], mem[t])}
<1>1. /\ OneList /\ EntryCounts /\ ViewIsPast /\ TakenArePast /\ \A q \in Pass : pass[q].held
      /\ pass \in [Pass -> PassState] /\ \A q \in Polls : q \in Pass
  BY DEF BackoffInv, TypeOK, Pass
<1>2. /\ UNCHANGED <<stage, view, data, failures, owed>> /\ pass[p].step = "detect"
      /\ mem' = [t \in Txn |-> CASE t \in fresh   -> [Blank EXCEPT !.seen = view[p][t].changes]
                                [] t \in changed -> [mem[t] EXCEPT !.seen = 0]
                                [] OTHER         -> mem[t]]
      /\ pass' = [q \in Pass |->
                    IF q = p THEN [pass[p] EXCEPT !.step = "select"]
                    ELSE [pass[q] EXCEPT !.held = @ /\ pass[q].cur \notin fresh]]
  BY DEF Detect, marketVars, seenVars, pastVars, At
<1>3. ASSUME NEW t \in fresh
      PROVE  t \in Txn /\ view[p][t].stage \in Confirmed /\ view[p][t].changes = 1 /\ ~Taken(t)
  <2>1. t \in Txn /\ view[p][t].stage \in Confirmed /\ mem[t].seen # view[p][t].changes
    BY DEF Replaced
  <2>2. view[p][t].changes = 1
    BY <1>1, <2>1 DEF ViewIsPast, Confirmed
  <2>. QED  BY <1>1, <2>1, <2>2 DEF TakenArePast, Past, NotListed
<1>4. \A t \in fresh : failures[t] = 0 /\ \A q \in Pass : t # pass[q].cur
  <2>1. \A t \in Txn : failures[t] \in 0 .. MaxAttempts
    BY DEF TypeOK
  <2>. QED  BY <1>3, <2>1, BoundsAssumption DEF Taken
<1>5. ASSUME NEW q \in Pass
      PROVE  /\ pass'[q].held /\ pass'[q].todo = pass[q].todo /\ pass'[q].cur = pass[q].cur
             /\ pass'[q].step = (IF q = p THEN "select" ELSE pass[q].step)
  <2>1. pass[q] \in PassState /\ pass[q].held
    BY <1>1
  <2>2. CASE q = p
    BY <1>2, <2>1, <2>2 DEF PassState
  <2>3. CASE q # p
    <3>. DEFINE h == pass[q].held /\ pass[q].cur \notin fresh
    <3>1. h = TRUE
      BY <1>4, <2>1
    <3>2. pass'[q] = [pass[q] EXCEPT !.held = h]
      BY <1>2, <2>1, <2>3 DEF PassState
    <3>. HIDE DEF h
    <3>. QED  BY <2>1, <2>3, <3>1, <3>2 DEF PassState
  <2>. QED  BY <2>2, <2>3
<1>6. ASSUME NEW t \in Txn, view[p][t].stage \notin Confirmed \cup {"unknown"} PROVE NotListed(t)
  <2>1. stage[t] \notin Confirmed
    BY <1>1, <1>6 DEF ViewIsPast
  <2>2. \A q \in Polls : q # p => view[q] = NothingSeen
    BY <1>1, <1>2 DEF OneList
  <2>3. \A q \in Polls : q # p => view[q][t].stage \notin Confirmed
    BY <2>2 DEF NothingSeen, Unknown, Confirmed
  <2>. QED  BY <1>6, <2>1, <2>3 DEF NotListed
<1>7. ASSUME NEW t \in Txn
      PROVE  \/ t \in fresh /\ mem'[t] = [Blank EXCEPT !.seen = 1]
             \/ t \notin fresh /\ NotListed(t) /\ mem'[t] = [mem[t] EXCEPT !.seen = 0]
             \/ t \notin fresh /\ mem'[t] = mem[t]
  <2>1. t \in changed => NotListed(t)
    BY <1>6 DEF Overwritten
  <2>2. t \in fresh => view[p][t].changes = 1
    BY <1>3
  <2>3. mem' = [u \in Txn |-> CASE u \in fresh   -> [Blank EXCEPT !.seen = view[p][u].changes]
                              [] u \in changed -> [mem[u] EXCEPT !.seen = 0]
                              [] OTHER         -> mem[u]]
    BY <1>2
  <2>4. ~(t \in fresh /\ t \in changed)
    BY DEF Replaced, Overwritten
  <2>. HIDE DEF fresh, changed
  <2>5. \/ t \in fresh /\ mem'[t] = [Blank EXCEPT !.seen = view[p][t].changes]
        \/ t \notin fresh /\ t \in changed /\ mem'[t] = [mem[t] EXCEPT !.seen = 0]
        \/ t \notin fresh /\ mem'[t] = mem[t]
    BY <2>3, <2>4
  <2>. QED  BY <2>1, <2>2, <2>5
<1>8. ASSUME NEW t \in Txn
      PROVE  /\ t \in fresh => mem'[t].attempts = 0 /\ mem'[t].wait = -MaxAge /\ mem'[t].seen = 1
             /\ t \notin fresh => /\ mem'[t].attempts = mem[t].attempts /\ mem'[t].wait = mem[t].wait
                                  /\ mem'[t].reviewed = mem[t].reviewed
                                  /\ NotListed(t) \/ mem'[t].seen = mem[t].seen
  <2>1. /\ [Blank EXCEPT !.seen = 1].attempts = 0 /\ [Blank EXCEPT !.seen = 1].wait = -MaxAge
        /\ [Blank EXCEPT !.seen = 1].seen = 1
    BY DEF Blank
  <2>2. mem[t] \in Entry
    BY DEF TypeOK
  <2>3. /\ [mem[t] EXCEPT !.seen = 0].attempts = mem[t].attempts
        /\ [mem[t] EXCEPT !.seen = 0].wait = mem[t].wait
        /\ [mem[t] EXCEPT !.seen = 0].reviewed = mem[t].reviewed
    BY <2>2 DEF Entry
  <2>. HIDE DEF fresh
  <2>. QED  BY <1>7, <2>1, <2>3
<1>9. EntryCounts'
  <2>. HIDE DEF fresh
  <2>. QED  BY <1>1, <1>2, <1>4, <1>8 DEF EntryCounts
<1>10. ViewIsPast'
  BY <1>1, <1>2 DEF ViewIsPast
<1>11. ASSUME NEW t \in Txn, Taken(t)' PROVE Past(t)'
  <2>1. NotListed(t) => NotListed(t)'
    BY <1>2 DEF NotListed
  <2>2. CASE Taken(t)
    <3>1. t \notin fresh
      BY <1>3, <2>2
    <3>. HIDE DEF fresh
    <3>. QED  BY <1>1, <1>8, <2>1, <2>2, <3>1 DEF TakenArePast, Past
  <2>3. CASE ~Taken(t)
    <3>1. view[p][t].stage \in Reviewable
      BY <1>1, <1>2, <1>5, <1>11, <2>3 DEF Taken
    <3>2. CASE view[p][t].stage \in Confirmed
      <4>1. t \in fresh \/ mem[t].seen = view[p][t].changes
        BY <3>2 DEF Replaced
      <4>2. view[p][t].changes = 1
        BY <1>1, <3>2 DEF ViewIsPast, Confirmed
      <4>3. ~NotListed(t)
        BY <3>2 DEF NotListed
      <4>. HIDE DEF fresh
      <4>. QED  BY <1>8, <4>1, <4>2, <4>3 DEF Past
    <3>3. CASE view[p][t].stage \notin Confirmed
      <4>1. view[p][t].stage # "unknown"
        BY <3>1 DEF Reviewable
      <4>. QED  BY <1>6, <2>1, <3>3, <4>1 DEF Past
    <3>. QED  BY <3>2, <3>3
  <2>. QED  BY <2>2, <2>3
<1>. QED  BY <1>5, <1>9, <1>10, <1>11 DEF BackoffInv, TakenArePast

LEMMA PollKeepsBackoff ==
  ASSUME TypeOK, BackoffInv, NothingDropped, ~EarlyRefresh, Polling
  PROVE  BackoffInv'
<1>. USE DEF marketVars, storeVars, seenVars, pastVars
<1>1. /\ EntryCounts /\ ViewIsPast /\ TakenArePast /\ \A q \in Pass : pass[q].held
      /\ OneList /\ pass \in [Pass -> PassState] /\ "later" \in Pass
      /\ \A q \in Polls : q \in Pass
  BY DEF BackoffInv, TypeOK, Pass, Polls
<1>2. OneList'
  BY <1>1, OneListNext DEF Next, Polling
<1>3. CASE StartPoll
  <2>1. /\ UNCHANGED <<stage, mem, view, data, failures, owed>>
        /\ pass' = [pass EXCEPT !["later"].step = "fetch"]
    BY <1>3 DEF StartPoll
  <2>2. /\ pass'["later"].step = "fetch" /\ pass'["later"].held = pass["later"].held
        /\ pass'["later"].todo = pass["later"].todo /\ pass'["later"].cur = pass["later"].cur
        /\ \A q \in Pass : q # "later" => pass'[q] = pass[q]
    BY <1>1, <2>1 DEF PassState
  <2>3. \A t \in Txn : Taken(t)' => Taken(t)
    BY <1>1, <2>1, <2>2 DEF Taken
  <2>4. ViewIsPast' /\ TakenArePast'
    BY <1>1, <2>1, <2>3, TakenKept
  <2>. QED  BY <1>1, <1>2, <2>1, <2>2, <2>4 DEF BackoffInv, EntryCounts
<1>4. ASSUME NEW p \in Polls, FetchSucceeds(p) PROVE BackoffInv'
  <2>1. /\ UNCHANGED <<stage, mem, data, failures, owed>>
        /\ view' = [view EXCEPT ![p] = [t \in Txn |-> [stage |-> stage[t], changes |-> changes[t]]]]
        /\ pass' = [pass EXCEPT ![p].step = "detect"]
    BY <1>4 DEF FetchSucceeds, Go
  <2>2. /\ pass'[p].step = "detect" /\ pass'[p].held = pass[p].held
        /\ pass'[p].todo = pass[p].todo /\ pass'[p].cur = pass[p].cur
        /\ \A q \in Pass : q # p => pass'[q] = pass[q]
    BY <1>1, <2>1 DEF PassState
  <2>3. \A t \in Txn : changes[t] = 1
    BY DEF TypeOK, MaxChanges, NothingDropped
  <2>4. /\ \A q \in Polls : q # p => view'[q] = view[q]
        /\ \A t \in Txn : view'[p][t].stage = stage[t] /\ view'[p][t].changes = 1
    BY <2>1, <2>3 DEF TypeOK
  <2>5. ViewIsPast'
    BY <1>1, <2>1, <2>4 DEF ViewIsPast
  <2>6. \A t \in Txn : Taken(t)' => Taken(t)
    BY <1>1, <2>1, <2>2, <2>4 DEF Taken
  <2>7. \A t \in Txn : Past(t) => Past(t)'
    BY <2>1, <2>4 DEF Past, NotListed
  <2>. QED  BY <1>1, <1>2, <2>1, <2>2, <2>5, <2>6, <2>7 DEF BackoffInv, EntryCounts, TakenArePast
<1>5. CASE FetchFails
  <2>1. /\ UNCHANGED <<stage, mem, view, data, failures, owed>>
        /\ pass'["later"] = IdlePass
        /\ \A q \in Pass : q # "later" => pass'[q] = pass[q]
    BY <1>1, <1>5 DEF FetchFails
  <2>2. \A t \in Txn : Taken(t)' => Taken(t)
    BY <1>1, <2>1, OptionsAssumption DEF Taken, IdlePass
  <2>3. ViewIsPast' /\ TakenArePast'
    BY <1>1, <2>1, <2>2, TakenKept
  <2>. QED  BY <1>1, <1>2, <2>1, <2>3 DEF BackoffInv, EntryCounts, IdlePass
<1>6. CASE SetupFails
  <2>1. /\ UNCHANGED <<stage, view, failures, owed>> /\ mem' = mem
        /\ data' = NothingSeen /\ pass' = SetupPasses
    BY <1>1, <1>6 DEF SetupFails, At, OneList
  <2>2. \A q \in Pass : /\ SetupPasses[q].step \in {"idle", "fetch"} /\ SetupPasses[q].held
                        /\ SetupPasses[q].todo = {} /\ SetupPasses[q].cur = NoTxn
    BY DEF SetupPasses, IdlePass
  <2>3. \A t \in Txn : Taken(t)' => Taken(t)
    BY <1>1, <2>1, <2>2, OptionsAssumption DEF Taken, NothingSeen, Unknown, Reviewable
  <2>4. ViewIsPast' /\ TakenArePast'
    BY <1>1, <2>1, <2>3, TakenKept
  <2>. QED  BY <1>1, <1>2, <2>1, <2>2, <2>4 DEF BackoffInv, EntryCounts
<1>7. ASSUME NEW p \in Polls, SelectReviews(p) PROVE BackoffInv'
  <2>. DEFINE chosen == {t \in Txn : Enabled /\ Selected(view[p][t], mem[t], pass[p].age, FALSE)}
  <2>1. /\ UNCHANGED <<stage, mem, failures, owed>> /\ pass[p].step = "select"
        /\ (Proceed(p, chosen) /\ UNCHANGED <<view, data>>) \/ End(p)
    BY <1>7 DEF SelectReviews, At
  <2>2. chosen \in SUBSET Txn /\ \A t \in chosen : Taken(t)
    BY <2>1 DEF Selected, Taken
  <2>. HIDE DEF chosen
  <2>3. \A t \in Txn : Taken(t)' => Taken(t) \/ failures'[t] # failures[t]
    BY <1>1, <2>1, <2>2, GoingOnTakes
  <2>4. \A q \in Polls, t \in Txn : view'[q][t] \in {view[q][t], Unknown}
    BY <1>1, <2>1, ViewAfter
  <2>5. ViewIsPast' /\ TakenArePast'
    BY <1>1, <2>1, <2>3, <2>4, TakenKept
  <2>6. \A q \in Pass : pass'[q].held
    BY <1>1, <2>1, <2>2, PassAfter DEF IdlePass
  <2>. QED  BY <1>1, <1>2, <2>1, <2>5, <2>6 DEF BackoffInv, EntryCounts
<1>. QED  BY <1>1, <1>2, <1>3, <1>4, <1>5, <1>6, <1>7, DetectKeepsBackoff DEF Polling, Poll

LEMMA OthersKeepBackoff ==
  ASSUME TypeOK, BackoffInv, NothingDropped, ~EarlyRefresh,
         \/ \E t \in Txn : RetryNow(t) \/ MarketMoves(t) \/ Reconfirmed(t) \/ ProviderReviews(t)
         \/ SaveOthers \/ Restart \/ Tick
  PROVE  BackoffInv'
<1>. USE DEF marketVars, storeVars, seenVars, pastVars
<1>1. /\ EntryCounts /\ ViewIsPast /\ TakenArePast /\ \A q \in Pass : pass[q].held
      /\ pass \in [Pass -> PassState] /\ "manual" \in Pass /\ "manual" \notin Polls
      /\ \A q \in Polls : q \in Pass
  BY DEF BackoffInv, TypeOK, Pass, Polls
<1>0. OneList'
  BY OneListNext DEF BackoffInv, Next
<1>2. ASSUME NEW t \in Txn, RetryNow(t) PROVE BackoffInv'
  <2>1. /\ UNCHANGED <<stage, mem, view, data, failures, owed>>
        /\ UNCHANGED pass \/ (Selected(data[t], mem[t], 0, TRUE) /\ Proceed("manual", {t}))
    BY <1>2 DEF RetryNow
  <2>2. {t} \in SUBSET Txn
    OBVIOUS
  <2>3. \A u \in Txn : Taken(u)' => Taken(u)
    <3>1. ASSUME NEW u \in Txn, Selected(data[t], mem[t], 0, TRUE), Proceed("manual", {t}),
                 Taken(u)', u # t
          PROVE  Taken(u)
      <4>1. /\ pass'["manual"].todo \cup {pass'["manual"].cur} \subseteq {t} \cup {NoTxn}
            /\ \A q \in Pass : q # "manual" => pass'[q] = pass[q]
        BY <1>1, <2>2, <3>1, PassAfter
      <4>. QED  BY <1>1, <2>1, <3>1, <4>1, OptionsAssumption DEF Taken
    <3>2. Selected(data[t], mem[t], 0, TRUE) => Taken(t)
      BY DEF Selected, Taken
    <3>3. UNCHANGED pass => \A u \in Txn : Taken(u)' => Taken(u)
      BY <2>1 DEF Taken
    <3>. QED  BY <2>1, <3>1, <3>2, <3>3
  <2>4. ViewIsPast' /\ TakenArePast'
    BY <1>1, <2>1, <2>3, TakenKept
  <2>5. \A q \in Pass : pass'[q].held
    BY <1>1, <2>1, <2>2, PassAfter
  <2>. QED  BY <1>0, <1>1, <2>1, <2>4, <2>5 DEF BackoffInv, EntryCounts
<1>3. ASSUME NEW t \in Txn, MarketMoves(t) \/ ProviderReviews(t) PROVE BackoffInv'
  <2>1. UNCHANGED <<mem, view, data, failures, owed, pass>>
    BY <1>3 DEF MarketMoves, ProviderReviews
  <2>2. \A u \in Txn : stage[u] \notin Confirmed => stage'[u] \notin Confirmed
    BY <1>3 DEF MarketMoves, ProviderReviews, Moves, AfterReview, Confirmed, TypeOK
  <2>3. \A u \in Txn : Taken(u)' => Taken(u)
    BY <2>1 DEF Taken
  <2>4. ViewIsPast' /\ TakenArePast'
    BY <1>1, <2>1, <2>2, <2>3, TakenKept
  <2>. QED  BY <1>0, <1>1, <2>1, <2>4 DEF BackoffInv, EntryCounts
<1>4. ~Restart /\ \A t \in Txn : ~Reconfirmed(t)
  BY DEF Restart, Reconfirmed, NothingDropped, MaxChanges, TypeOK
<1>5. CASE SaveOthers
  <2>1. UNCHANGED <<stage, mem, view, data, failures, owed, pass>>
    BY <1>5 DEF SaveOthers
  <2>2. \A u \in Txn : Taken(u)' => Taken(u)
    BY <2>1 DEF Taken
  <2>3. ViewIsPast' /\ TakenArePast'
    BY <1>1, <2>1, <2>2, TakenKept
  <2>. QED  BY <1>0, <1>1, <2>1, <2>3 DEF BackoffInv, EntryCounts
<1>6. CASE Tick
  <2>1. UNCHANGED <<stage, view, data, failures>>
    BY <1>6 DEF Tick
  <2>2. \A t \in Txn : /\ mem'[t].seen = mem[t].seen /\ mem'[t].attempts = mem[t].attempts
                       /\ mem'[t].reviewed = mem[t].reviewed
                       /\ mem'[t].wait = Sooner(mem[t].wait) /\ owed'[t] = Sooner(owed[t])
    BY <1>6 DEF Tick, SoonerAll, TypeOK, Entry
  <2>3. \A q \in Pass : /\ pass'[q].step = pass[q].step /\ pass'[q].cur = pass[q].cur
                        /\ pass'[q].todo = pass[q].todo /\ pass'[q].held = pass[q].held
    BY <1>1, <1>6 DEF Tick, PassState
  <2>4. Sooner(-MaxAge) = -MaxAge
    BY BoundsAssumption DEF Sooner, Most
  <2>5. EntryCounts'
    BY <1>1, <2>1, <2>2, <2>4 DEF EntryCounts
  <2>6. \A t \in Txn : Taken(t)' => Taken(t)
    BY <1>1, <2>1, <2>3 DEF Taken
  <2>7. ViewIsPast' /\ TakenArePast'
    BY <1>1, <2>1, <2>2, <2>6, TakenKept
  <2>. QED  BY <1>0, <1>1, <2>3, <2>5, <2>7 DEF BackoffInv
<1>. QED  BY <1>2, <1>3, <1>4, <1>5, <1>6

\* While nothing times out, crashes or is confirmed anew, and nobody requests a
\* refresh during the first one of a setup, an automatic attempt keeps the
\* distance that all the failures before it call for, those of
\* auto_review_retry_now and of lost answers included, for any number of
\* transactions and although two passes read their clocks at different times
\* (failure_state and retry_due of auto_review.py).
THEOREM BackoffIsKept ==
  ASSUME NothingDropped, ~EarlyRefresh
  PROVE  Spec => BackoffKept
<1>1. Init => BackoffInv
  <2>. SUFFICES ASSUME Init PROVE BackoffInv
    OBVIOUS
  <2>1. \A q \in Pass : /\ pass[q].step = (IF q = "first" THEN "fetch" ELSE "idle")
                        /\ pass[q].todo = {} /\ pass[q].cur = NoTxn /\ pass[q].held
    BY DEF Init, SetupPasses, IdlePass
  <2>2. EntryCounts /\ ViewIsPast
    BY DEF Init, EntryCounts, ViewIsPast, NothingSeen, Blank, Unknown
  <2>3. \A t \in Txn : ~Taken(t)
    BY <2>1, OptionsAssumption DEF Init, Taken, NothingSeen, Unknown, Reviewable, Pass
  <2>4. OneList
    BY <2>1 DEF Init, OneList, Pass, Polls
  <2>. QED  BY <2>1, <2>2, <2>3, <2>4 DEF BackoffInv, TakenArePast
<1>2. TypeOK /\ BackoffInv /\ [Next]_vars => BackoffInv'
  <2>1. BackoffInv /\ UNCHANGED vars => BackoffInv'
    BY DEF vars, BackoffInv, OneList, EntryCounts, ViewIsPast, TakenArePast, Taken, Past, NotListed
  <2>. QED  BY <2>1, PollKeepsBackoff, AttemptKeepsBackoff, OthersKeepBackoff DEF Next, Polling
<1>3. TypeOK /\ BackoffInv /\ [Next]_vars =>
        [\A p \in Polls, t \in Txn : Picks(p, t) => owed[t] + pass[p].age <= 0]_vars
  <2>. SUFFICES ASSUME TypeOK, BackoffInv, [Next]_vars, NEW p \in Polls, NEW t \in Txn, Picks(p, t)
                PROVE  owed[t] + pass[p].age <= 0
    OBVIOUS
  <2>1. ~mem[t].reviewed /\ mem[t].wait + pass[p].age <= 0
    BY PickedAreSelected DEF Selected, RetryDue
  <2>. QED  BY <2>1 DEF BackoffInv, EntryCounts
<1>. QED  BY <1>1, <1>2, <1>3, TypeCorrect, PTL DEF Spec, BackoffKept
=============================================================================
