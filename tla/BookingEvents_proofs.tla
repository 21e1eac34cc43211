------------------------ MODULE BookingEvents_proofs ------------------------
(***************************************************************************)
(* What holds of BookingEvents for any number of transactions, generations *)
(* and events, with every fault it models: the types, and that no booking  *)
(* request and no confirmation slips through unannounced.                  *)
(***************************************************************************)
EXTENDS BookingEvents, TLAPS

-----------------------------------------------------------------------------
(* Lemmas about the operators.                                             *)

\* A counter that was advanced is in its range and is not zero.
LEMMA CappedType ==
  ASSUME NEW n \in 0 .. MaxCount
  PROVE  Capped(n) \in 1 .. MaxCount
BY BoundsAssumption, SMT DEF Capped

\* Queueing a run of the automation respects the queue's limit.
LEMMA QueuedType ==
  ASSUME NEW n \in 0 .. MaxPending
  PROVE  Queued(n) \in 0 .. MaxPending
BY BoundsAssumption, SMT DEF Queued

\* What the handlers write into an entry of the mapping is an entry again.
LEMMA RecordTypes ==
  ASSUME NEW r \in Record, NEW tr \in Transition, NEW a \in At
  PROVE  /\ AfterRequest(r, tr, a) \in Record
         /\ AfterConfirmation(r, tr, a) \in Record
         /\ AfterMark(r) \in Record
<1>1. AfterRequest(r, tr, a) \in Record
  BY DEF AfterRequest, Record, Transition
<1>2. AfterConfirmation(r, tr, a) \in Record
  BY DEF AfterConfirmation, IsNewConfirmation, Record, Transition
<1>3. AfterMark(r) \in Record
  BY DEF AfterMark, Record, Transition
<1>. QED  BY <1>1, <1>2, <1>3

\* Every poll is one of the two of its generation.
LEMMA PollsType ==
  /\ \A p \in Polls : p[1] \in Gen /\ (p = First(p[1]) \/ p = Later(p[1]))
  /\ \A g \in Gen : /\ First(g) \in Polls /\ First(g)[1] = g
                    /\ Later(g) \in Polls /\ Later(g)[1] = g
                    /\ First(g) # Later(g)
BY DEF Polls, First, Later

LEMMA EmptyType == Absent \in Record /\ Empty \in [Txn -> Record]
BY BoundsAssumption DEF Absent, Empty, Record, Transition, At

\* Forgetting a generation's dictionary leaves a mapping, and touches none
\* that something still refers to.
LEMMA CollectType ==
  ASSUME NEW m \in [Gen -> [Txn -> Record]], NEW l, NEW q, NEW j
  PROVE  /\ Collect(m, l, q, j) \in [Gen -> [Txn -> Record]]
         /\ \A g \in Gen : Collect(m, l, q, j)[g] = m[g] \/ Collect(m, l, q, j)[g] = Empty
         /\ \A g \in Gen : l = g => Collect(m, l, q, j)[g] = m[g]
         /\ \A p \in Polls : q[p] # "none" => Collect(m, l, q, j)[p[1]] = m[p[1]]
<1>1. \A g \in Gen : Collect(m, l, q, j)[g] = IF Referenced(g, l, q, j) THEN m[g] ELSE Empty
  BY DEF Collect
<1>2. \A p \in Polls : q[p] # "none" => Referenced(p[1], l, q, j) /\ p[1] \in Gen
  BY PollsType DEF Referenced
<1>3. Collect(m, l, q, j) \in [Gen -> [Txn -> Record]]
  BY EmptyType DEF Collect
<1>4. \A g \in Gen : l = g => Referenced(g, l, q, j)
  BY DEF Referenced
<1>. QED  BY <1>1, <1>2, <1>3, <1>4

\* What a poll saw of a transaction it lists is a transition of its history.
LEMMA SeenType ==
  ASSUME TypeOK, NEW p \in Polls, NEW t \in Listed(p)
  PROVE  /\ t \in Txn
         /\ snap[p][t] \in 1 .. MaxAt
         /\ snap[p][t] \in At
         /\ Seen(p, t) \in Transition
<1>1. t \in Txn /\ snap[p][t] # 0
  BY DEF Listed
<1>2. snap[p][t] \in At /\ snap[p][t] <= Len(hist[t]) /\ hist[t] \in Seq(Transition)
  BY <1>1 DEF TypeOK
<1>3. snap[p][t] \in 1 .. MaxAt /\ snap[p][t] \in 1 .. Len(hist[t])
  BY <1>1, <1>2, BoundsAssumption DEF At
<1>. QED  BY <1>1, <1>2, <1>3 DEF Seen

\* The dictionary after each detection is a mapping again.
LEMMA AfterDetectionType ==
  ASSUME TypeOK, NEW p \in Polls
  PROVE  /\ AfterRequests(p) \in [Txn -> Record]
         /\ AfterConfirmations(p) \in [Txn -> Record]
<1>1. \A t \in Txn : mem[p[1]][t] \in Record
  BY PollsType DEF TypeOK
<1>2. Requests(p) \subseteq Listed(p)
  BY DEF Requests
<1>3. \A t \in Listed(p) :
        /\ AfterRequest(mem[p[1]][t], Seen(p, t), snap[p][t]) \in Record
        /\ AfterConfirmation(mem[p[1]][t], Seen(p, t), snap[p][t]) \in Record
  BY <1>1, SeenType, RecordTypes
<1>. QED  BY <1>1, <1>2, <1>3 DEF AfterRequests, AfterConfirmations

\* Firing events keeps the counters in their range, decreases none, and
\* leaves that of each announced position above zero.
LEMMA FiredType ==
  ASSUME NEW e \in [Txn -> [1 .. MaxAt -> 0 .. MaxCount]],
         NEW p \in Polls, NEW T
  PROVE  /\ Fired(e, p, T) \in [Txn -> [1 .. MaxAt -> 0 .. MaxCount]]
         /\ \A t \in Txn, a \in 1 .. MaxAt : e[t][a] > 0 => Fired(e, p, T)[t][a] > 0
         /\ \A t \in Txn, a \in 1 .. MaxAt :
              t \in T /\ a = snap[p][t] => Fired(e, p, T)[t][a] > 0
<1>1. \A t \in Txn, a \in 1 .. MaxAt :
        e[t][a] \in 0 .. MaxCount /\ Capped(e[t][a]) \in 1 .. MaxCount
  BY CappedType
<1>2. \A t \in Txn, a \in 1 .. MaxAt :
        Fired(e, p, T)[t][a] = IF t \in T /\ a = snap[p][t] THEN Capped(e[t][a]) ELSE e[t][a]
  BY DEF Fired
<1>3. \A t \in Txn, a \in 1 .. MaxAt : Fired(e, p, T)[t][a] \in 0 .. MaxCount
  <2>. SUFFICES ASSUME NEW t \in Txn, NEW a \in 1 .. MaxAt
                PROVE  Fired(e, p, T)[t][a] \in 0 .. MaxCount
    OBVIOUS
  <2>1. e[t][a] \in 0 .. MaxCount /\ Capped(e[t][a]) \in 0 .. MaxCount
    BY <1>1, BoundsAssumption
  <2>2. Fired(e, p, T)[t][a] = Capped(e[t][a]) \/ Fired(e, p, T)[t][a] = e[t][a]
    BY <1>2
  <2>. QED  BY <2>1, <2>2
<1>4. Fired(e, p, T) \in [Txn -> [1 .. MaxAt -> 0 .. MaxCount]]
  BY <1>1, BoundsAssumption DEF Fired
<1>5. \A t \in Txn, a \in 1 .. MaxAt : e[t][a] > 0 => Fired(e, p, T)[t][a] > 0
  BY <1>1, <1>2
<1>6. \A t \in Txn, a \in 1 .. MaxAt :
        t \in T /\ a = snap[p][t] => Fired(e, p, T)[t][a] > 0
  BY <1>1, <1>2
<1>. QED  BY <1>4, <1>5, <1>6
-----------------------------------------------------------------------------
(* Type correctness.                                                       *)

LEMMA InitTypeOK == Init => TypeOK
<1>. SUFFICES ASSUME Init PROVE TypeOK
  OBVIOUS
<1>1. hist \in [Txn -> Seq(Transition)] /\ \A t \in Txn : Len(hist[t]) <= MaxAt
  <2>1. \A tr \in Transition : <<tr>> \in Seq(Transition) /\ Len(<<tr>>) = 1
    OBVIOUS
  <2>2. <<>> \in Seq(Transition) /\ Len(<<>>) = 0
    OBVIOUS
  <2>3. \A t \in Txn : hist[t] \in Seq(Transition) /\ Len(hist[t]) \in {0, 1}
    <3>1. hist \in [Txn -> {<<>>} \cup {<<tr>> : tr \in Transition}]
      BY DEF Init
    <3>. QED  BY <2>1, <2>2, <3>1
  <2>4. hist = [t \in Txn |-> hist[t]]
    BY DEF Init
  <2>5. hist \in [Txn -> Seq(Transition)]
    BY <2>3, <2>4
  <2>6. 0 <= MaxAt /\ 1 <= MaxAt
    BY BoundsAssumption
  <2>7. ASSUME NEW t \in Txn PROVE Len(hist[t]) <= MaxAt
    <3>1. Len(hist[t]) = 0 \/ Len(hist[t]) = 1
      BY <2>3
    <3>. QED  BY ONLY <3>1, <2>6
  <2>. QED  BY <2>5, <2>7
<1>2. disk \in [Txn -> Record]
  <2>1. \A tr \in Transition, sent \in BOOLEAN : MigratedRecord(tr, sent) \in Record
    BY BoundsAssumption DEF MigratedRecord, Record, At
  <2>. QED  BY <2>1, EmptyType DEF Init
<1>3. mem \in [Gen -> [Txn -> Record]]
  BY EmptyType DEF Init
<1>4. /\ snap \in [Polls -> [Txn -> At]]
      /\ \A p \in Polls, t \in Txn : snap[p][t] <= Len(hist[t])
  <2>1. snap = [p \in Polls |-> NoSnap]
    BY DEF Init
  <2>2. \A t \in Txn : Len(hist[t]) \in Nat
    BY <1>1
  <2>. QED  BY <2>1, <2>2, BoundsAssumption DEF NoSnap, At
<1>5. /\ job \in [Callers -> Job]
      /\ \A c \in Callers : job[c] # Idle => job[c].txn \in Txn /\ job[c].gen \in Gen
  BY DEF Init, Idle, Job
<1>6. /\ reqEvents \in [Txn -> [1 .. MaxAt -> 0 .. MaxCount]]
      /\ confEvents \in [Txn -> [1 .. MaxAt -> 0 .. MaxCount]]
      /\ delivered \in [Txn -> 0 .. MaxCount]
      /\ pending \in [Txn -> 0 .. MaxPending]
  BY BoundsAssumption DEF Init
<1>. QED  BY <1>1, <1>2, <1>3, <1>4, <1>5, <1>6 DEF Init, TypeOK, Phase

\* The actions of a generation's setup keep the types.
LEMMA SetupTypeOK ==
  ASSUME TypeOK, NEW g \in Gen, Setup(g)
  PROVE  TypeOK'
<1>. USE PollsType DEF TypeOK, entryVars, serviceVars, eventVars, Phase, InFlight
<1>1. CASE Load(g)
  BY <1>1 DEF Load
<1>2. CASE AuthenticationFails(g)
  BY <1>2, CollectType DEF AuthenticationFails
<1>3. CASE Publish(g)
  BY <1>3 DEF Publish
<1>4. ASSUME NEW E, Withdraw(g, E) PROVE TypeOK'
  <2>1. NoSnap \in [Txn -> At] /\ \A t \in Txn : NoSnap[t] <= Len(hist[t])
    BY BoundsAssumption DEF NoSnap, At
  <2>2. mem' \in [Gen -> [Txn -> Record]]
    BY <1>4, CollectType DEF Withdraw
  <2>3. /\ snap' \in [Polls -> [Txn -> At]]
        /\ \A p \in Polls, t \in Txn : snap'[p][t] <= Len(hist[t])
    BY <1>4, <2>1 DEF Withdraw
  <2>. QED  BY <1>4, <2>2, <2>3 DEF Withdraw
<1>5. CASE SetupFails(g) \/ SetupCancelled(g) \/ UnloadAndStop(g) \/ UnloadInFlight(g)
  BY <1>4, <1>5 DEF SetupFails, SetupCancelled, UnloadAndStop, UnloadInFlight
<1>. QED  BY <1>1, <1>2, <1>3, <1>5 DEF Setup

\* The steps of a poll keep the types.
LEMMA PollTypeOK ==
  ASSUME TypeOK, NEW p \in Polls, Poll(p)
  PROVE  TypeOK'
<1>. USE PollsType DEF TypeOK, entryVars, serviceVars, eventVars, Phase, InFlight
<1>1. CASE FetchSucceeds(p)
  <2>1. \A t \in Txn : Len(hist[t]) \in At
    BY BoundsAssumption DEF At
  <2>. QED  BY <1>1, <2>1 DEF FetchSucceeds
<1>2. ASSUME EndPoll(p), ready' \in BOOLEAN PROVE TypeOK'
  <2>1. NoSnap \in [Txn -> At] /\ \A t \in Txn : NoSnap[t] <= Len(hist[t])
    BY BoundsAssumption DEF NoSnap, At
  <2>. QED  BY <1>2, <2>1, CollectType DEF EndPoll
<1>3. CASE FetchFails(p) \/ FinishPoll(p)
  BY <1>2, <1>3 DEF FetchFails, FinishPoll
<1>4. CASE DetectRequests(p)
  BY <1>4, AfterDetectionType, FiredType DEF DetectRequests
<1>5. CASE DetectConfirmations(p)
  BY <1>5, AfterDetectionType, FiredType, QueuedType DEF DetectConfirmations
<1>6. CASE SavePoll(p)
  BY <1>6 DEF SavePoll
<1>. QED  BY <1>1, <1>3, <1>4, <1>5, <1>6 DEF Poll

\* So do the start of a poll and a save of the archives.
LEMMA RefreshTypeOK ==
  ASSUME TypeOK, NEW g \in Gen, StartPoll(g) \/ SaveArchives(g)
  PROVE  TypeOK'
<1>1. Later(g) \in Polls
  BY PollsType
<1>2. CASE StartPoll(g)
  BY <1>1, <1>2 DEF StartPoll, TypeOK, entryVars, serviceVars, eventVars, Phase, InFlight
<1>3. CASE SaveArchives(g)
  BY <1>3 DEF SaveArchives, TypeOK, entryVars, serviceVars, eventVars
<1>. QED  BY <1>2, <1>3

\* The actions of the marketplace, the automation and the services, and a
\* restart, keep the types.
LEMMA ServiceTypeOK ==
  ASSUME TypeOK, Service
  PROVE  TypeOK'
<1>. USE DEF TypeOK, entryVars, serviceVars, eventVars, Phase, InFlight
<1>1. ASSUME NEW c \in Callers, NEW step \in {"send", "save"}, NEW t \in Txn,
             live # NoGen, Call(c, step, t)
      PROVE  /\ job' \in [Callers -> Job]
             /\ \A d \in Callers : job'[d] # Idle => job'[d].txn \in Txn /\ job'[d].gen \in Gen
  BY <1>1 DEF Call, Job
<1>2. ASSUME NEW t \in Txn, AutomationSends(t) PROVE TypeOK'
  <2>1. /\ "automation" \in Callers /\ live # NoGen /\ Call("automation", "send", t)
        /\ pending' = [pending EXCEPT ![t] = @ - 1] /\ pending[t] > 0
        /\ UNCHANGED <<hist, disk, mem, pc, snap, live, ready, reqEvents, confEvents, delivered>>
    BY <1>2 DEF AutomationSends
  <2>2. pending' \in [Txn -> 0 .. MaxPending]
    BY <2>1, BoundsAssumption
  <2>3. /\ job' \in [Callers -> Job]
        /\ \A d \in Callers : job'[d] # Idle => job'[d].txn \in Txn /\ job'[d].gen \in Gen
    BY <1>1, <2>1
  <2>. QED  BY <2>1, <2>2, <2>3
<1>3. ASSUME NEW t \in Txn, AutomationRefused(t) PROVE TypeOK'
  <2>1. pending' \in [Txn -> 0 .. MaxPending]
    BY <1>3, BoundsAssumption DEF AutomationRefused
  <2>. QED  BY <1>3, <2>1 DEF AutomationRefused
<1>4. ASSUME NEW t \in Txn, ProviderMarks(t) PROVE TypeOK'
  <2>1. \A r \in Record : AfterMark(r) \in Record
    BY DEF AfterMark, Record, Transition
  <2>2. /\ "provider" \in Callers /\ live # NoGen /\ Call("provider", "save", t)
        /\ mem' = [mem EXCEPT ![live][t] = AfterMark(@)]
        /\ UNCHANGED <<hist, disk, pc, snap, live, ready, pending, reqEvents, confEvents, delivered>>
    BY <1>4 DEF ProviderMarks
  <2>3. mem' \in [Gen -> [Txn -> Record]]
    BY <2>1, <2>2
  <2>4. /\ job' \in [Callers -> Job]
        /\ \A d \in Callers : job'[d] # Idle => job'[d].txn \in Txn /\ job'[d].gen \in Gen
    BY <1>1, <2>2
  <2>. QED  BY <2>2, <2>3, <2>4
<1>5. ASSUME NEW c \in Callers, job[c].step \in {"send", "answered", "save"}
      PROVE  job[c] \in Job /\ job[c].txn \in Txn /\ job[c].gen \in Gen
  BY <1>5 DEF Idle
<1>6. ASSUME NEW c \in Callers, SendDelivered(c) PROVE TypeOK'
  <2>1. \A n \in 0 .. MaxCount : Capped(n) \in 0 .. MaxCount
    BY CappedType
  <2>. QED  BY <1>5, <1>6, <2>1 DEF SendDelivered, Job
<1>7. ASSUME NEW c \in Callers, SendFails(c) PROVE TypeOK'
  BY <1>7, CollectType DEF SendFails, Job, Idle
<1>8. ASSUME NEW c \in Callers, MarkSent(c) PROVE TypeOK'
  <2>1. \A r \in Record : AfterMark(r) \in Record
    BY DEF AfterMark, Record, Transition
  <2>2. mem' = [mem EXCEPT ![job[c].gen][job[c].txn] = AfterMark(@)]
    BY <1>8 DEF MarkSent
  <2>3. mem' \in [Gen -> [Txn -> Record]]
    BY <1>5, <1>8, <2>1, <2>2 DEF MarkSent
  <2>4. /\ job' \in [Callers -> Job]
        /\ \A d \in Callers : job'[d] # Idle => job'[d].txn \in Txn /\ job'[d].gen \in Gen
    BY <1>5, <1>8 DEF MarkSent, Job
  <2>5. UNCHANGED <<hist, disk, pc, snap, live, ready, pending, delivered, reqEvents, confEvents>>
    BY <1>8 DEF MarkSent
  <2>. QED  BY <2>3, <2>4, <2>5
<1>9. ASSUME NEW c \in Callers, SaveMark(c) PROVE TypeOK'
  BY <1>5, <1>9, CollectType DEF SaveMark, Job, Idle
<1>. QED  BY <1>2, <1>3, <1>4, <1>6, <1>7, <1>8, <1>9 DEF Service

\* A transition lands behind those a poll has already seen.
LEMMA TransactKeeps ==
  ASSUME TypeOK, NEW t \in Txn, Transact(t)
  PROVE  /\ hist' \in [Txn -> Seq(Transition)]
         /\ \A u \in Txn : Len(hist'[u]) <= MaxAt /\ Len(hist[u]) <= Len(hist'[u])
         /\ \A u \in Txn : \A a \in 1 .. Len(hist[u]) : hist'[u][a] = hist[u][a]
<1>1. PICK tr \in Successors(LastTransition(t)) : hist' = [hist EXCEPT ![t] = Append(@, tr)]
  BY DEF Transact
<1>2. hist \in [Txn -> Seq(Transition)] /\ Len(hist[t]) < MaxAt
  BY DEF Transact, TypeOK
<1>3. LastTransition(t) \in Transition \cup {"none"}
  <2>1. hist[t] # <<>> => Len(hist[t]) \in 1 .. Len(hist[t])
    BY <1>2
  <2>. QED  BY <1>2, <2>1 DEF LastTransition
<1>4. tr \in Transition
  BY <1>1, <1>3 DEF Successors, Transition
<1>5. /\ Append(hist[t], tr) \in Seq(Transition)
      /\ Len(Append(hist[t], tr)) = Len(hist[t]) + 1
      /\ \A a \in 1 .. Len(hist[t]) : Append(hist[t], tr)[a] = hist[t][a]
  BY <1>2, <1>4
<1>6. hist' \in [Txn -> Seq(Transition)]
  BY <1>1, <1>2, <1>5
<1>7. \A u \in Txn : u # t => hist'[u] = hist[u]
  BY <1>1, <1>2
<1>8. hist'[t] = Append(hist[t], tr)
  BY <1>1, <1>2
<1>9. \A u \in Txn : Len(hist[u]) \in Nat /\ Len(hist[u]) <= MaxAt
  BY <1>2 DEF TypeOK
<1>10. \A u \in Txn : Len(hist'[u]) <= MaxAt /\ Len(hist[u]) <= Len(hist'[u])
  BY <1>2, <1>5, <1>7, <1>8, <1>9, BoundsAssumption
<1>11. \A u \in Txn : \A a \in 1 .. Len(hist[u]) : hist'[u][a] = hist[u][a]
  BY <1>5, <1>7, <1>8
<1>. QED  BY <1>6, <1>10, <1>11

LEMMA NextTypeOK == TypeOK /\ [Next]_vars => TypeOK'
<1>. SUFFICES ASSUME TypeOK, [Next]_vars PROVE TypeOK'
  OBVIOUS
<1>. USE DEF TypeOK, entryVars, serviceVars, eventVars
<1>1. ASSUME \/ \E g \in Gen : Setup(g) \/ StartPoll(g) \/ SaveArchives(g)
             \/ \E p \in Polls : Poll(p)
      PROVE  TypeOK'
  BY <1>1, SetupTypeOK, RefreshTypeOK, PollTypeOK
<1>2. CASE Restart
  <2>1. NoSnap \in [Txn -> At] /\ \A t \in Txn : NoSnap[t] <= Len(hist[t])
    BY BoundsAssumption DEF NoSnap, At
  <2>2. Idle \in Job
    BY DEF Idle, Job
  <2>3. pending' \in [Txn -> 0 .. MaxPending]
    BY <1>2, BoundsAssumption DEF Restart
  <2>4. /\ snap' \in [Polls -> [Txn -> At]]
        /\ \A p \in Polls, t \in Txn : snap'[p][t] <= Len(hist'[t])
    BY <1>2, <2>1 DEF Restart
  <2>5. mem' \in [Gen -> [Txn -> Record]]
    BY <1>2, EmptyType DEF Restart
  <2>. QED  BY <1>2, <2>2, <2>3, <2>4, <2>5 DEF Restart, Phase
<1>3. ASSUME NEW t \in Txn, Transact(t) PROVE TypeOK'
  <2>1. UNCHANGED <<disk, mem, pc, snap, entryVars, serviceVars, eventVars>>
    BY <1>3 DEF Transact
  <2>2. \A p \in Polls, u \in Txn : snap[p][u] <= Len(hist'[u])
    BY <1>3, TransactKeeps DEF At
  <2>. QED  BY <1>3, <2>1, <2>2, TransactKeeps
<1>4. CASE Service
  BY <1>4, ServiceTypeOK
<1>5. CASE UNCHANGED vars
  BY <1>5 DEF vars
<1>. QED  BY <1>1, <1>2, <1>3, <1>4, <1>5 DEF Next

\* Every reachable state is well typed: counters and queues within their
\* limits, every poll's snapshot inside the marketplace's history, and every
\* service call in flight with a transaction and a generation to write to.
THEOREM TypeCorrect == Spec => []TypeOK
BY InitTypeOK, NextTypeOK, PTL DEF Spec

-----------------------------------------------------------------------------
(* No event is missed. Three actions write what the poll saw or change what *)
(* there is to see: DetectRequests, DetectConfirmations and Transact.  All   *)
(* others only copy entries, mark or forget them, or end a poll.            *)

PastRequests == {"saveReq", "conf", "saveConf", "rest"}
PastConfirmations == {"saveConf", "rest"}

Copying ==
  /\ UNCHANGED <<hist, eventVars>>
  /\ \A t \in Txn : disk'[t] = disk[t] \/ \E g \in Gen : disk'[t] = mem[g][t]
  /\ \A g \in Gen, t \in Txn :
       mem'[g][t] \in {mem[g][t], AfterMark(mem[g][t]), disk[t], Absent}
  /\ \A p \in Polls : pc'[p] \in PastRequests =>
       /\ pc[p] \in PastRequests
       /\ pc'[p] \in PastConfirmations => pc[p] \in PastConfirmations
       /\ snap'[p] = snap[p]
       /\ \A t \in Txn : mem'[p[1]][t] \in {mem[p[1]][t], AfterMark(mem[p[1]][t])}

LEMMA CollectCopies ==
  ASSUME TypeOK, NEW l, NEW q, NEW j, mem' = Collect(mem, l, q, j)
  PROVE  /\ \A g \in Gen, t \in Txn : mem'[g][t] \in {mem[g][t], Absent}
         /\ \A p \in Polls : q[p] # "none" => mem'[p[1]] = mem[p[1]]
<1>1. mem \in [Gen -> [Txn -> Record]]
  BY DEF TypeOK
<1>2. \A g \in Gen : mem'[g] = mem[g] \/ mem'[g] = Empty
  BY <1>1, CollectType
<1>3. \A p \in Polls : q[p] # "none" => mem'[p[1]] = mem[p[1]]
  BY <1>1, CollectType
<1>. QED  BY <1>2, <1>3 DEF Empty

LEMMA SetupCopies ==
  ASSUME TypeOK, NEW g \in Gen, Setup(g)
  PROVE  Copying
<1>. USE DEF Phase, InFlight, Copying, PastRequests, PastConfirmations, entryVars, serviceVars, eventVars
<1>1. pc \in [Polls -> Phase] /\ mem \in [Gen -> [Txn -> Record]]
  BY DEF TypeOK
<1>2. CASE Load(g)
  <2>1. pc[First(g)] = "none" /\ pc[Later(g)] = "none"
    BY <1>2 DEF Load, Referenced
  <2>2. \A p \in Polls : p[1] = g => pc'[p] \in {"none", "loaded"}
    BY <1>1, <1>2, <2>1, PollsType DEF Load
  <2>3. ASSUME NEW p \in Polls, p[1] # g PROVE pc'[p] = pc[p] /\ mem'[p[1]] = mem[p[1]]
    <3>1. p # First(g) /\ First(g) \in Polls /\ p[1] \in Gen
      BY <2>3, PollsType
    <3>. QED  BY <1>1, <1>2, <2>3, <3>1 DEF Load
  <2>4. \A p \in Polls : pc'[p] \in PastRequests =>
          pc[p] = pc'[p] /\ mem'[p[1]] = mem[p[1]] /\ snap'[p] = snap[p]
    BY <1>2, <2>2, <2>3 DEF Load
  <2>5. /\ UNCHANGED <<hist, eventVars, disk>>
        /\ \A h \in Gen, t \in Txn : mem'[h][t] = mem[h][t] \/ mem'[h][t] = disk[t]
    BY <1>1, <1>2 DEF Load
  <2>. QED  BY <2>4, <2>5
<1>3. CASE AuthenticationFails(g)
  <2>1. mem' = Collect(mem, live, pc', job)
    BY <1>3 DEF AuthenticationFails
  <2>2. /\ \A h \in Gen, t \in Txn : mem'[h][t] \in {mem[h][t], Absent}
        /\ \A q \in Polls : pc'[q] # "none" => mem'[q[1]] = mem[q[1]]
    BY <2>1, CollectCopies
  <2>3. \A q \in Polls : pc'[q] # "none" => pc'[q] = pc[q]
    BY <1>1, <1>3 DEF AuthenticationFails
  <2>4. UNCHANGED <<hist, eventVars, disk, snap>>
    BY <1>3 DEF AuthenticationFails
  <2>. QED  BY <2>2, <2>3, <2>4
<1>4. CASE Publish(g)
  BY <1>1, <1>4 DEF Publish
<1>5. ASSUME NEW E, Withdraw(g, E) PROVE Copying
  <2>1. mem' = Collect(mem, live', pc', job)
    BY <1>5 DEF Withdraw
  <2>2. \A p \in Polls : pc'[p] # "none" => pc'[p] = pc[p] /\ snap'[p] = snap[p]
    BY <1>5 DEF Withdraw
  <2>. QED  BY <1>5, <2>1, <2>2, CollectCopies DEF Withdraw
<1>6. CASE SetupFails(g) \/ SetupCancelled(g) \/ UnloadAndStop(g) \/ UnloadInFlight(g)
  BY <1>5, <1>6 DEF SetupFails, SetupCancelled, UnloadAndStop, UnloadInFlight
<1>. QED  BY <1>2, <1>3, <1>4, <1>6 DEF Setup

LEMMA PollCopies ==
  ASSUME TypeOK, NEW p \in Polls, Poll(p), ~DetectRequests(p), ~DetectConfirmations(p)
  PROVE  Copying
<1>. USE DEF Phase, InFlight, Copying, PastRequests, PastConfirmations, entryVars, serviceVars, eventVars
<1>1. /\ pc \in [Polls -> Phase] /\ mem \in [Gen -> [Txn -> Record]]
      /\ snap \in [Polls -> [Txn -> At]] /\ disk \in [Txn -> Record]
  BY DEF TypeOK
<1>2. CASE FetchSucceeds(p)
  BY <1>1, <1>2 DEF FetchSucceeds
<1>3. CASE FetchFails(p) \/ FinishPoll(p)
  <2>1. EndPoll(p)
    BY <1>3 DEF FetchFails, FinishPoll
  <2>2. mem' = Collect(mem, live, pc', job)
    BY <2>1 DEF EndPoll
  <2>3. \A q \in Polls : pc'[q] # "none" => pc'[q] = pc[q] /\ snap'[q] = snap[q]
    BY <1>1, <2>1 DEF EndPoll
  <2>4. /\ \A h \in Gen, t \in Txn : mem'[h][t] \in {mem[h][t], Absent}
        /\ \A q \in Polls : pc'[q] # "none" => mem'[q[1]] = mem[q[1]]
    BY <2>2, CollectCopies
  <2>5. UNCHANGED <<hist, eventVars, disk>>
    BY <2>1 DEF EndPoll
  <2>. QED  BY <2>3, <2>4, <2>5
<1>4. CASE SavePoll(p)
  <2>1. \A q \in Polls : pc'[q] \in PastRequests =>
          pc[q] \in PastRequests /\ (pc'[q] \in PastConfirmations => pc[q] \in PastConfirmations)
    BY <1>1, <1>4 DEF SavePoll
  <2>2. /\ UNCHANGED <<hist, eventVars, mem, snap>>
        /\ disk' = mem[p[1]] /\ p[1] \in Gen
    BY <1>4, PollsType DEF SavePoll
  <2>. QED  BY <2>1, <2>2
<1>. QED  BY <1>2, <1>3, <1>4 DEF Poll

LEMMA RefreshCopies ==
  ASSUME TypeOK, NEW g \in Gen, StartPoll(g) \/ SaveArchives(g)
  PROVE  Copying
BY PollsType
DEF StartPoll, SaveArchives, TypeOK, Copying, PastRequests, PastConfirmations,
    entryVars, serviceVars, eventVars

LEMMA ServiceCopies ==
  ASSUME TypeOK, Service
  PROVE  Copying
<1>. USE DEF Phase, InFlight, Copying, PastRequests, PastConfirmations, entryVars, serviceVars, eventVars
<1>1. /\ pc \in [Polls -> Phase] /\ mem \in [Gen -> [Txn -> Record]]
      /\ snap \in [Polls -> [Txn -> At]] /\ disk \in [Txn -> Record]
  BY DEF TypeOK
<1>2. ASSUME NEW c \in Callers, job[c].step \in {"send", "answered", "save"}
      PROVE  job[c].txn \in Txn /\ job[c].gen \in Gen
  BY <1>2 DEF Idle, TypeOK
<1>3. ASSUME NEW t \in Txn, AutomationSends(t) \/ AutomationRefused(t) PROVE Copying
  BY <1>1, <1>3 DEF AutomationSends, AutomationRefused
<1>4. ASSUME NEW t \in Txn, ProviderMarks(t) PROVE Copying
  <2>1. live \in Gen
    BY <1>4 DEF ProviderMarks, TypeOK
  <2>. QED  BY <1>1, <1>4, <2>1 DEF ProviderMarks
<1>5. ASSUME NEW c \in Callers, SendDelivered(c) PROVE Copying
  BY <1>1, <1>5 DEF SendDelivered
<1>6. ASSUME NEW c \in Callers, SendFails(c) PROVE Copying
  BY <1>1, <1>6, CollectCopies DEF SendFails
<1>7. ASSUME NEW c \in Callers, MarkSent(c) PROVE Copying
  BY <1>1, <1>2, <1>7 DEF MarkSent
<1>8. ASSUME NEW c \in Callers, SaveMark(c) PROVE Copying
  <2>1. job[c].gen \in Gen
    BY <1>2, <1>8 DEF SaveMark
  <2>. QED  BY <1>1, <1>8, <2>1, CollectCopies DEF SaveMark
<1>. QED  BY <1>3, <1>4, <1>5, <1>6, <1>7, <1>8 DEF Service

\* Every step detects, is the marketplace's, or copies.
LEMMA StepCases ==
  ASSUME TypeOK, [Next]_vars
  PROVE  \/ \E p \in Polls : DetectRequests(p) \/ DetectConfirmations(p)
         \/ \E t \in Txn : Transact(t)
         \/ Copying
<1>1. ASSUME NEW g \in Gen, Setup(g) \/ StartPoll(g) \/ SaveArchives(g) PROVE Copying
  BY <1>1, SetupCopies, RefreshCopies
<1>2. ASSUME NEW p \in Polls, Poll(p), ~DetectRequests(p), ~DetectConfirmations(p)
      PROVE  Copying
  BY <1>2, PollCopies
<1>3. CASE Restart
  BY <1>3, PollsType DEF Restart, Copying, PastRequests, Empty, eventVars, TypeOK
<1>4. CASE Service
  BY <1>4, ServiceCopies
<1>5. CASE UNCHANGED vars
  BY <1>5 DEF vars, Copying, eventVars, TypeOK
<1>. QED  BY <1>1, <1>2, <1>3, <1>4, <1>5 DEF Next

-----------------------------------------------------------------------------
(* Confirmations. Copying entries, marking and forgetting them keeps        *)
(* NoMissedConfirmation, for events are never taken back; the detection     *)
(* fires before it records.                                                 *)

LEMMA MarkAccounted ==
  ASSUME NEW r \in Record
  PROVE  AfterMark(r).sent /\ AfterMark(r).at = r.at
         /\ AfterMark(r).reqFired = r.reqFired
         /\ (AfterMark(r).tr = r.tr \/ AfterMark(r).tr = "unset")
BY DEF AfterMark, Record

LEMMA CopyingKeepsConfirmations ==
  ASSUME TypeOK, NoMissedConfirmation, Copying
  PROVE  NoMissedConfirmation'
<1>. USE DEF ConfirmationAccounted, Announced
<1>1. UNCHANGED <<hist, confEvents>>
  BY DEF Copying, eventVars
<1>2. \A t \in Txn : ConfirmationAccounted(disk[t], t) /\ ConfirmationAccounted(Absent, t)
  BY DEF NoMissedConfirmation, Absent
<1>3. \A g \in Gen, t \in Txn : /\ ConfirmationAccounted(mem[g][t], t)
                                /\ ConfirmationAccounted(AfterMark(mem[g][t]), t)
  BY MarkAccounted DEF NoMissedConfirmation, TypeOK
<1>4. \A t \in Txn : ConfirmationAccounted(disk'[t], t)
  BY <1>2, <1>3 DEF Copying
<1>5. \A g \in Gen, t \in Txn : ConfirmationAccounted(mem'[g][t], t)
  BY <1>2, <1>3 DEF Copying
<1>6. ASSUME NEW p \in Polls, pc'[p] \in PastConfirmations,
             NEW t \in Txn, snap'[p][t] # 0, hist'[t][snap'[p][t]] = "confirmed"
      PROVE  mem'[p[1]][t].sent \/ confEvents'[t][snap'[p][t]] > 0
  <2>1. /\ pc[p] \in PastConfirmations /\ snap'[p] = snap[p]
        /\ mem'[p[1]][t] = mem[p[1]][t] \/ mem'[p[1]][t] = AfterMark(mem[p[1]][t])
    BY <1>6 DEF Copying, PastConfirmations, PastRequests
  <2>2. mem[p[1]][t].sent \/ confEvents[t][snap[p][t]] > 0
    BY <1>1, <1>6, <2>1 DEF NoMissedConfirmation, PastConfirmations, Listed, Seen
  <2>. QED  BY <1>1, <2>1, <2>2, MarkAccounted, PollsType DEF TypeOK
<1>. QED  BY <1>1, <1>4, <1>5, <1>6 DEF NoMissedConfirmation, PastConfirmations, Listed, Seen

LEMMA TransactKeepsConfirmations ==
  ASSUME TypeOK, NoMissedConfirmation, NEW t \in Txn, Transact(t)
  PROVE  NoMissedConfirmation'
<1>1. UNCHANGED <<disk, mem, pc, snap, confEvents>>
  BY DEF Transact, eventVars
<1>2. \A p \in Polls, u \in Txn : u \in Listed(p) => hist'[u][snap[p][u]] = hist[u][snap[p][u]]
  <2>1. \A p \in Polls, u \in Txn : u \in Listed(p) => snap[p][u] \in 1 .. Len(hist[u])
    BY DEF Listed, TypeOK, At
  <2>. QED  BY <2>1, TransactKeeps
<1>. QED  BY <1>1, <1>2 DEF NoMissedConfirmation, ConfirmationAccounted, Announced, Listed, Seen

LEMMA RequestsKeepConfirmations ==
  ASSUME TypeOK, NoMissedConfirmation, NEW p \in Polls, DetectRequests(p)
  PROVE  NoMissedConfirmation'
<1>1. /\ UNCHANGED <<hist, disk, snap, confEvents>>
      /\ pc' = [pc EXCEPT ![p] = "saveReq"]
      /\ mem' = [mem EXCEPT ![p[1]] = AfterRequests(p)]
  BY DEF DetectRequests
<1>2. \A t \in Requests(p) :
        /\ AfterRequest(mem[p[1]][t], Seen(p, t), snap[p][t]).tr = "request"
        /\ AfterRequest(mem[p[1]][t], Seen(p, t), snap[p][t]).sent = mem[p[1]][t].sent
  <2>1. \A t \in Requests(p) : Seen(p, t) = "request" /\ mem[p[1]][t] \in Record
    BY SeenType, PollsType DEF Requests, IsNewRequest, TypeOK
  <2>. QED  BY <2>1 DEF AfterRequest, Record
<1>3. \A t \in Txn : \/ AfterRequests(p)[t] = mem[p[1]][t]
                     \/ /\ AfterRequests(p)[t].tr = "request"
                        /\ AfterRequests(p)[t].sent = mem[p[1]][t].sent
  BY <1>2 DEF AfterRequests
<1>4. \A h \in Gen, t \in Txn :
        \/ mem'[h][t] = mem[h][t]
        \/ mem'[h][t].tr = "request" /\ mem'[h][t].sent = mem[h][t].sent
  BY <1>1, <1>3, PollsType DEF TypeOK
<1>5. \A h \in Gen, t \in Txn : ConfirmationAccounted(mem'[h][t], t)
  BY <1>4 DEF NoMissedConfirmation, ConfirmationAccounted
<1>6. \A q \in Polls : pc'[q] \in PastConfirmations => pc[q] \in PastConfirmations
  BY <1>1 DEF PastConfirmations, TypeOK
<1>7. \A q \in Polls, t \in Txn : mem'[q[1]][t].sent = mem[q[1]][t].sent
  BY <1>4, PollsType
<1>. QED  BY <1>1, <1>5, <1>6, <1>7
         DEF NoMissedConfirmation, ConfirmationAccounted, Announced, PastConfirmations, Listed, Seen

LEMMA ConfirmationsKeepConfirmations ==
  ASSUME TypeOK, NoMissedConfirmation, NEW p \in Polls, DetectConfirmations(p)
  PROVE  NoMissedConfirmation'
<1>. DEFINE new(t) == AfterConfirmation(mem[p[1]][t], Seen(p, t), snap[p][t])
<1>1. /\ UNCHANGED <<hist, disk, snap>>
      /\ confEvents' = Fired(confEvents, p, Confirmations(p))
      /\ mem' = [mem EXCEPT ![p[1]] = AfterConfirmations(p)]
  BY DEF DetectConfirmations
<1>2. /\ \A q \in Polls : q # p => pc'[q] = pc[q]
      /\ \A h \in Gen : h # p[1] => mem'[h] = mem[h]
  BY <1>1 DEF DetectConfirmations, TypeOK
<1>3. \A t \in Txn, a \in 1 .. MaxAt : Announced(t, a) => confEvents'[t][a] > 0
  BY <1>1, FiredType DEF Announced, TypeOK
<1>4. \A t \in Confirmations(p) : confEvents'[t][snap[p][t]] > 0
  <2>1. \A t \in Confirmations(p) : t \in Txn /\ snap[p][t] \in 1 .. MaxAt
    BY SeenType DEF Confirmations
  <2>. QED  BY <1>1, <2>1, FiredType DEF TypeOK
<1>5. \A r \in Record, t \in Txn :
        ConfirmationAccounted(r, t) /\ r.tr = "confirmed" /\ r.at # 0 =>
          r.sent \/ confEvents'[t][r.at] > 0
  <2>1. \A r \in Record : r.at # 0 => r.at \in 1 .. MaxAt
    BY BoundsAssumption DEF Record, At
  <2>. QED  BY <1>3, <2>1 DEF ConfirmationAccounted
<1>6. ASSUME NEW t \in Listed(p)
      PROVE  /\ new(t).tr = "confirmed" /\ new(t).at # 0 =>
                  new(t).sent \/ confEvents'[t][new(t).at] > 0
             /\ Seen(p, t) = "confirmed" =>
                  new(t).sent \/ confEvents'[t][snap[p][t]] > 0
  <2>1. t \in Txn /\ snap[p][t] # 0 /\ mem[p[1]][t] \in Record
    BY SeenType, PollsType DEF Listed, TypeOK
  <2>2. ConfirmationAccounted(mem[p[1]][t], t)
    BY <2>1, PollsType DEF NoMissedConfirmation
  <2>3. CASE IsNewConfirmation(mem[p[1]][t], Seen(p, t), snap[p][t])
    <3>1. new(t) = [tr |-> Seen(p, t), at |-> snap[p][t],
                    sent |-> mem[p[1]][t].sent, reqFired |-> FALSE]
      BY <2>3 DEF AfterConfirmation, IsNewConfirmation
    <3>2. mem[p[1]][t].sent \/ t \in Confirmations(p)
      BY <2>3 DEF Confirmations, FiresConfirmation
    <3>. QED  BY <1>4, <3>1, <3>2
  <2>4. CASE ~IsNewConfirmation(mem[p[1]][t], Seen(p, t), snap[p][t]) /\ Seen(p, t) = "confirmed"
    <3>1. new(t) = mem[p[1]][t]
      BY <2>4 DEF AfterConfirmation
    <3>2. mem[p[1]][t].tr = "confirmed" /\ mem[p[1]][t].at = snap[p][t]
      BY <2>4 DEF IsNewConfirmation
    <3>. QED  BY <1>5, <2>1, <2>2, <3>1, <3>2
  <2>5. CASE Seen(p, t) # "confirmed"
    <3>1. new(t).tr = Seen(p, t) \/ new(t) = mem[p[1]][t]
      BY <2>1, <2>5 DEF AfterConfirmation, IsNewConfirmation, Record
    <3>. QED  BY <1>5, <2>1, <2>2, <2>5, <3>1
  <2>. QED  BY <2>3, <2>4, <2>5
<1>7. \A t \in Txn : mem'[p[1]][t] = IF t \in Listed(p) THEN new(t) ELSE mem[p[1]][t]
  BY <1>1, PollsType DEF AfterConfirmations, TypeOK
<1>11. \A t \in Txn : mem'[p[1]][t].sent = mem[p[1]][t].sent
  <2>1. ASSUME NEW t \in Listed(p) PROVE new(t).sent = mem[p[1]][t].sent
    <3>1. mem[p[1]][t] \in Record
      BY SeenType, PollsType DEF TypeOK
    <3>. QED  BY <3>1 DEF AfterConfirmation, Record
  <2>. QED  BY <1>7, <2>1
<1>. HIDE DEF new
<1>8. ASSUME NEW t \in Txn PROVE ConfirmationAccounted(disk[t], t)'
  BY <1>1, <1>5, <1>8 DEF NoMissedConfirmation, ConfirmationAccounted, Announced, TypeOK
<1>9. ASSUME NEW h \in Gen, NEW t \in Txn PROVE ConfirmationAccounted(mem[h][t], t)'
  <2>1. ConfirmationAccounted(mem[h][t], t) /\ mem[h][t] \in Record
    BY DEF NoMissedConfirmation, TypeOK
  <2>2. CASE mem'[h][t] = mem[h][t]
    BY <1>5, <2>1, <2>2 DEF ConfirmationAccounted, Announced
  <2>3. CASE h = p[1] /\ t \in Listed(p)
    BY <1>6, <1>7, <2>3 DEF ConfirmationAccounted, Announced
  <2>. QED  BY <1>2, <1>7, <2>2, <2>3
<1>10. ASSUME NEW q \in Polls, pc'[q] \in PastConfirmations,
              NEW t \in Listed(q), Seen(q, t) = "confirmed"
       PROVE  mem'[q[1]][t].sent \/ confEvents'[t][snap[q][t]] > 0
  <2>1. t \in Txn /\ snap[q][t] \in 1 .. MaxAt
    BY SeenType
  <2>2. CASE q = p
    BY <1>6, <1>7, <1>10, <2>1, <2>2
  <2>3. CASE q # p
    <3>1. mem[q[1]][t].sent \/ Announced(t, snap[q][t])
      BY <1>2, <1>10, <2>3 DEF NoMissedConfirmation, PastConfirmations
    <3>2. mem'[q[1]][t].sent = mem[q[1]][t].sent
      BY <1>2, <1>11, <2>1, PollsType
    <3>. QED  BY <1>3, <2>1, <3>1, <3>2
  <2>. QED  BY <2>2, <2>3
<1>. QED  BY <1>1, <1>8, <1>9, <1>10
         DEF NoMissedConfirmation, PastConfirmations, Announced, Listed, Seen

\* In every reachable state, whatever crashes, cancellations and overlapping
\* generations there were: what the mapping records as confirmed, in the file
\* or in memory, had its event fired or its message marked
\* (_detect_confirmed_bookings).
THEOREM ConfirmationsNotMissed == Spec => []NoMissedConfirmation
<1>1. Init => NoMissedConfirmation
  <2>. SUFFICES ASSUME Init PROVE NoMissedConfirmation
    OBVIOUS
  <2>1. \A t \in Txn : disk[t].at = 0
    BY DEF Init, Absent, MigratedRecord
  <2>2. \A g \in Gen, t \in Txn : mem[g][t].at = 0
    BY DEF Init, Empty, Absent
  <2>3. \A p \in Polls : pc[p] = "none"
    BY DEF Init
  <2>. QED  BY <2>1, <2>2, <2>3 DEF NoMissedConfirmation, ConfirmationAccounted
<1>2. TypeOK /\ NoMissedConfirmation /\ [Next]_vars => NoMissedConfirmation'
  BY StepCases, CopyingKeepsConfirmations, TransactKeepsConfirmations,
     RequestsKeepConfirmations, ConfirmationsKeepConfirmations
<1>. QED  BY <1>1, <1>2, TypeCorrect, PTL DEF Spec

-----------------------------------------------------------------------------
(* Requests. The recorded requests alone are not inductive: an entry whose  *)
(* request_event_fired_at is set silences the event of the transition it    *)
(* stands at, so that RequestsRemembered has to hold of every entry.        *)

RequestInv == NoMissedRequest /\ RequestsRemembered

LEMMA CopyingKeepsRequests ==
  ASSUME TypeOK, RequestInv, Copying
  PROVE  RequestInv'
<1>. DEFINE good(r, t) == RequestAccounted(r, t) /\ RequestMemory(r, t)
<1>1. UNCHANGED <<hist, reqEvents>>
  BY DEF Copying, eventVars
<1>2. \A t \in Txn : good(disk[t], t) /\ good(Absent, t)
  BY DEF RequestInv, NoMissedRequest, RequestsRemembered, RequestAccounted,
         RequestMemory, Absent, TypeOK
<1>3. \A g \in Gen, t \in Txn : good(mem[g][t], t) /\ good(AfterMark(mem[g][t]), t)
  <2>1. \A g \in Gen, t \in Txn : mem[g][t] \in Record /\ good(mem[g][t], t)
    BY DEF RequestInv, NoMissedRequest, RequestsRemembered, TypeOK
  <2>2. \A r \in Record, t \in Txn : good(r, t) => good(AfterMark(r), t)
    BY MarkAccounted DEF RequestAccounted, RequestMemory
  <2>. QED  BY <2>1, <2>2
<1>4. \A t \in Txn : good(disk'[t], t)
  BY <1>2, <1>3 DEF Copying
<1>5. \A g \in Gen, t \in Txn : good(mem'[g][t], t)
  BY <1>2, <1>3 DEF Copying
<1>6. ASSUME NEW p \in Polls, pc'[p] \in PastRequests,
             NEW t \in Txn, snap'[p][t] # 0, hist'[t][snap'[p][t]] = "request"
      PROVE  reqEvents'[t][snap'[p][t]] > 0
  BY <1>1, <1>6 DEF Copying, RequestInv, NoMissedRequest, RequestAnnounced,
                    PastRequests, Listed, Seen
<1>. QED  BY <1>1, <1>4, <1>5, <1>6
         DEF RequestInv, NoMissedRequest, RequestsRemembered, RequestAccounted, RequestMemory,
             RequestAnnounced, PastRequests, Listed, Seen

LEMMA TransactKeepsRequests ==
  ASSUME TypeOK, RequestInv, NEW t \in Txn, Transact(t)
  PROVE  RequestInv'
<1>1. UNCHANGED <<disk, mem, pc, snap, reqEvents>>
  BY DEF Transact, eventVars
<1>2. \A p \in Polls, u \in Txn : u \in Listed(p) => hist'[u][snap[p][u]] = hist[u][snap[p][u]]
  <2>1. \A p \in Polls, u \in Txn : u \in Listed(p) => snap[p][u] \in 1 .. Len(hist[u])
    BY DEF Listed, TypeOK, At
  <2>. QED  BY <2>1, TransactKeeps
<1>3. ASSUME NEW r \in Record, NEW u \in Txn, RequestMemory(r, u)
      PROVE  /\ r.at <= Len(hist'[u])
             /\ r.reqFired /\ r.at # 0 /\ hist'[u][r.at] = "request" => RequestAnnounced(u, r.at)
  <2>1. r.at \in Nat /\ r.at <= Len(hist[u]) /\ Len(hist[u]) \in Nat /\ Len(hist'[u]) \in Nat
    <3>1. hist[u] \in Seq(Transition) /\ hist'[u] \in Seq(Transition)
      BY TransactKeeps DEF TypeOK
    <3>2. r.at \in Nat
      BY BoundsAssumption DEF Record, At
    <3>. QED  BY <1>3, <3>1, <3>2 DEF RequestMemory
  <2>2. r.at # 0 => r.at \in 1 .. Len(hist[u])
    BY <2>1
  <2>. QED  BY <1>3, <2>1, <2>2, TransactKeeps DEF RequestMemory
<1>4. RequestsRemembered'
  BY <1>1, <1>3 DEF RequestInv, RequestsRemembered, RequestMemory, RequestAnnounced, TypeOK
<1>5. NoMissedRequest'
  BY <1>1, <1>2
     DEF RequestInv, NoMissedRequest, RequestAccounted, RequestAnnounced, Listed, Seen
<1>. QED  BY <1>4, <1>5 DEF RequestInv

\* A request that a poll's detection leaves out was announced before.
LEMMA KnownRequestAnnounced ==
  ASSUME TypeOK, RequestInv, NEW p \in Polls, NEW t \in Listed(p),
         Seen(p, t) = "request", t \notin Requests(p)
  PROVE  RequestAnnounced(t, snap[p][t])
<1>1. mem[p[1]][t].reqFired /\ mem[p[1]][t].at = snap[p][t] /\ t \in Txn /\ snap[p][t] # 0
  BY DEF Requests, IsNewRequest, Listed
<1>. QED  BY <1>1, PollsType DEF RequestInv, RequestsRemembered, RequestMemory, Seen

LEMMA RequestsKeepRequests ==
  ASSUME TypeOK, RequestInv, NEW p \in Polls, DetectRequests(p)
  PROVE  RequestInv'
<1>1. /\ UNCHANGED <<hist, disk, snap>>
      /\ reqEvents' = Fired(reqEvents, p, Requests(p))
      /\ mem' = [mem EXCEPT ![p[1]] = AfterRequests(p)]
      /\ pc' = [pc EXCEPT ![p] = "saveReq"]
  BY DEF DetectRequests
<1>2. /\ \A q \in Polls : q # p => pc'[q] = pc[q]
      /\ \A h \in Gen : h # p[1] => mem'[h] = mem[h]
  BY <1>1 DEF TypeOK
<1>3. \A t \in Txn, a \in 1 .. MaxAt : RequestAnnounced(t, a) => reqEvents'[t][a] > 0
  BY <1>1, FiredType DEF RequestAnnounced, TypeOK
<1>4. \A t \in Requests(p) : reqEvents'[t][snap[p][t]] > 0
  <2>1. \A t \in Requests(p) : t \in Txn /\ snap[p][t] \in 1 .. MaxAt
    BY SeenType DEF Requests
  <2>. QED  BY <1>1, <2>1, FiredType DEF TypeOK
<1>5. ASSUME NEW r \in Record, NEW t \in Txn, RequestAccounted(r, t), RequestMemory(r, t)
      PROVE  RequestAccounted(r, t)' /\ RequestMemory(r, t)'
  <2>1. r.at # 0 => r.at \in 1 .. MaxAt
    BY BoundsAssumption DEF Record, At
  <2>. QED  BY <1>1, <1>3, <1>5, <2>1 DEF RequestAccounted, RequestMemory, RequestAnnounced
<1>6. ASSUME NEW t \in Requests(p)
      PROVE  RequestAccounted(mem[p[1]][t], t)' /\ RequestMemory(mem[p[1]][t], t)'
  <2>1. t \in Listed(p) /\ Seen(p, t) = "request" /\ mem[p[1]][t] \in Record /\ t \in Txn
    BY SeenType, PollsType DEF Requests, IsNewRequest, TypeOK
  <2>2. mem'[p[1]][t] = AfterRequest(mem[p[1]][t], Seen(p, t), snap[p][t])
    BY <1>1, <2>1, PollsType DEF AfterRequests, TypeOK
  <2>3. mem'[p[1]][t].at = snap[p][t]
    BY <2>1, <2>2 DEF AfterRequest, Record
  <2>4. snap[p][t] <= Len(hist[t])
    BY <2>1 DEF TypeOK
  <2>. QED  BY <1>1, <1>4, <2>3, <2>4 DEF RequestAccounted, RequestMemory, RequestAnnounced
<1>7. ASSUME NEW t \in Txn
      PROVE  RequestAccounted(disk[t], t)' /\ RequestMemory(disk[t], t)'
  BY <1>1, <1>5 DEF RequestInv, NoMissedRequest, RequestsRemembered, TypeOK,
                    RequestAccounted, RequestMemory, RequestAnnounced
<1>8. ASSUME NEW h \in Gen, NEW t \in Txn
      PROVE  RequestAccounted(mem[h][t], t)' /\ RequestMemory(mem[h][t], t)'
  <2>1. mem[h][t] \in Record /\ RequestAccounted(mem[h][t], t) /\ RequestMemory(mem[h][t], t)
    BY DEF RequestInv, NoMissedRequest, RequestsRemembered, TypeOK
  <2>2. CASE mem'[h][t] = mem[h][t]
    BY <1>5, <2>1, <2>2 DEF RequestAccounted, RequestMemory, RequestAnnounced
  <2>3. CASE h = p[1] /\ t \in Requests(p)
    BY <1>6, <2>3 DEF RequestAccounted, RequestMemory, RequestAnnounced
  <2>4. h = p[1] /\ t \notin Requests(p) => mem'[h][t] = mem[h][t]
    BY <1>1 DEF AfterRequests, TypeOK
  <2>. QED  BY <1>2, <2>2, <2>3, <2>4
<1>9. ASSUME NEW q \in Polls, pc'[q] \in PastRequests, NEW t \in Listed(q), Seen(q, t) = "request"
      PROVE  reqEvents'[t][snap[q][t]] > 0
  <2>1. t \in Txn /\ snap[q][t] \in 1 .. MaxAt
    BY SeenType
  <2>2. CASE q = p
    BY <1>3, <1>4, <1>9, <2>1, <2>2, KnownRequestAnnounced
  <2>3. CASE q # p
    BY <1>2, <1>3, <1>9, <2>1, <2>3 DEF RequestInv, NoMissedRequest, PastRequests
  <2>. QED  BY <2>2, <2>3
<1>. QED  BY <1>1, <1>7, <1>8, <1>9
         DEF RequestInv, NoMissedRequest, RequestsRemembered, PastRequests,
             RequestAnnounced, Listed, Seen

LEMMA ConfirmationsKeepRequests ==
  ASSUME TypeOK, RequestInv, NEW p \in Polls, DetectConfirmations(p)
  PROVE  RequestInv'
<1>. DEFINE new(t) == AfterConfirmation(mem[p[1]][t], Seen(p, t), snap[p][t])
<1>1. /\ UNCHANGED <<hist, disk, snap, reqEvents>>
      /\ mem' = [mem EXCEPT ![p[1]] = AfterConfirmations(p)]
      /\ pc[p] = "conf" \/ Requests(p) = {}
  BY DEF DetectConfirmations
<1>2. /\ \A q \in Polls : q # p => pc'[q] = pc[q]
      /\ \A h \in Gen : h # p[1] => mem'[h] = mem[h]
  BY <1>1 DEF DetectConfirmations, TypeOK
<1>3. \A t \in Listed(p) : Seen(p, t) = "request" => RequestAnnounced(t, snap[p][t])
  BY <1>1, KnownRequestAnnounced DEF RequestInv, NoMissedRequest
<1>4. ASSUME NEW t \in Listed(p)
      PROVE  RequestAccounted(new(t), t) /\ RequestMemory(new(t), t)
  <2>1. /\ t \in Txn /\ mem[p[1]][t] \in Record
        /\ RequestAccounted(mem[p[1]][t], t) /\ RequestMemory(mem[p[1]][t], t)
        /\ snap[p][t] <= Len(hist[t])
    BY SeenType, PollsType DEF RequestInv, NoMissedRequest, RequestsRemembered, TypeOK
  <2>2. \/ new(t) = mem[p[1]][t]
        \/ /\ new(t).tr = Seen(p, t) /\ new(t).at = snap[p][t]
           /\ Seen(p, t) = "confirmed" => ~new(t).reqFired
    BY <2>1 DEF AfterConfirmation, IsNewConfirmation, Record
  <2>. QED  BY <1>3, <2>1, <2>2 DEF RequestAccounted, RequestMemory, Seen
<1>5. \A t \in Txn : mem'[p[1]][t] = IF t \in Listed(p) THEN new(t) ELSE mem[p[1]][t]
  BY <1>1, PollsType DEF AfterConfirmations, TypeOK
<1>. HIDE DEF new
<1>6. \A h \in Gen, t \in Txn : RequestAccounted(mem'[h][t], t) /\ RequestMemory(mem'[h][t], t)
  BY <1>2, <1>4, <1>5 DEF RequestInv, NoMissedRequest, RequestsRemembered
<1>7. ASSUME NEW q \in Polls, pc'[q] \in PastRequests, NEW t \in Listed(q), Seen(q, t) = "request"
      PROVE  RequestAnnounced(t, snap[q][t])
  BY <1>2, <1>3, <1>7 DEF RequestInv, NoMissedRequest, PastRequests
<1>. QED  BY <1>1, <1>6, <1>7
         DEF RequestInv, NoMissedRequest, RequestsRemembered, RequestAccounted, RequestMemory,
             RequestAnnounced, PastRequests, Listed, Seen

\* In every reachable state, with every fault: what the mapping records as a
\* request, and every request a poll has gone past, had its event fired,
\* although _detect_confirmed_bookings records requests that
\* _detect_booking_requests skipped.
THEOREM RequestsNotMissed == Spec => []NoMissedRequest
<1>1. Init => RequestInv
  <2>. SUFFICES ASSUME Init PROVE RequestInv
    OBVIOUS
  <2>1. \A t \in Txn : disk[t].at = 0
    BY DEF Init, Absent, MigratedRecord
  <2>2. \A g \in Gen, t \in Txn : mem[g][t].at = 0
    BY DEF Init, Empty, Absent
  <2>3. \A p \in Polls : pc[p] = "none"
    BY DEF Init
  <2>4. \A t \in Txn : 0 <= Len(hist[t])
    BY InitTypeOK DEF TypeOK
  <2>. QED  BY <2>1, <2>2, <2>3, <2>4
           DEF RequestInv, NoMissedRequest, RequestsRemembered, RequestAccounted, RequestMemory
<1>2. TypeOK /\ RequestInv /\ [Next]_vars => RequestInv'
  BY StepCases, CopyingKeepsRequests, TransactKeepsRequests,
     RequestsKeepRequests, ConfirmationsKeepRequests
<1>3. RequestInv => NoMissedRequest
  BY DEF RequestInv
<1>. QED  BY <1>1, <1>2, <1>3, TypeCorrect, PTL DEF Spec

-----------------------------------------------------------------------------
(* The coordinator implements AtLeastOnce: detections tell, copies of the   *)
(* mapping settle, and the marketplace makes things happen.                 *)

LEMMA AnnounceableType ==
  ASSUME NEW i \in Announceable
  PROVE  i[1] \in {"request", "confirmed"} /\ i[2] \in Txn /\ i[3] \in 1 .. MaxAt
BY DEF Announceable

\* what the bars stand for
LEMMA HappenedMeaning ==
  TypeOK => HappenedBar =
              {i \in Announceable : i[3] <= Len(hist[i[2]]) /\ hist[i[2]][i[3]] = i[1]}
<1>. SUFFICES ASSUME TypeOK
              PROVE  \A i : i \in HappenedBar <=>
                       /\ i \in Announceable
                       /\ i[3] <= Len(hist[i[2]]) /\ hist[i[2]][i[3]] = i[1]
  OBVIOUS
<1>1. \A t \in Txn : /\ hist[t] \in Seq(Transition) /\ Len(hist[t]) \in Nat
                     /\ Len(hist[t]) <= MaxAt /\ DOMAIN hist[t] = 1 .. Len(hist[t])
  BY DEF TypeOK
<1>2. ASSUME NEW i \in HappenedBar
      PROVE  i \in Announceable /\ i[3] <= Len(hist[i[2]]) /\ hist[i[2]][i[3]] = i[1]
  <2>0. PICK t \in Txn : i \in {<<hist[t][b], t, b>> :
                               b \in {c \in DOMAIN hist[t] : hist[t][c] # "other"}}
    BY DEF HappenedBar
  <2>1. PICK a \in DOMAIN hist[t] : hist[t][a] # "other" /\ i = <<hist[t][a], t, a>>
    BY <2>0
  <2>2. a \in 1 .. Len(hist[t]) /\ hist[t] \in Seq(Transition)
    BY <1>1, <2>1
  <2>3. a \in 1 .. MaxAt /\ a <= Len(hist[t])
    BY <1>1, <2>2, BoundsAssumption
  <2>4. hist[t][a] \in {"request", "confirmed"}
    BY <2>1, <2>2 DEF Transition
  <2>5. i[1] = hist[t][a] /\ i[2] = t /\ i[3] = a
    BY <2>1
  <2>6. i \in Announceable
    BY <2>1, <2>3, <2>4 DEF Announceable
  <2>. QED BY <2>3, <2>5, <2>6
<1>3. ASSUME NEW i \in Announceable, i[3] <= Len(hist[i[2]]), hist[i[2]][i[3]] = i[1]
      PROVE  i \in HappenedBar
  <2>1. /\ i[1] \in {"request", "confirmed"} /\ i[2] \in Txn /\ i[3] \in 1 .. MaxAt
        /\ i = <<i[1], i[2], i[3]>>
    BY DEF Announceable
  <2>2. i[3] \in DOMAIN hist[i[2]] /\ hist[i[2]][i[3]] # "other"
    BY <1>1, <1>3, <2>1, BoundsAssumption
  <2>3. i = <<hist[i[2]][i[3]], i[2], i[3]>>
    BY <1>3, <2>1
  <2>. QED BY <2>1, <2>2, <2>3 DEF HappenedBar
<1>. QED BY <1>2, <1>3

LEMMA ToldMeaning ==
  ToldBar = {i \in Announceable : IF i[1] = "request" THEN RequestAnnounced(i[2], i[3])
                                                      ELSE Announced(i[2], i[3])}
BY DEF ToldBar, RequestAnnounced, Announced

LEMMA SettledMeaning ==
  TypeOK => \A i \in SettledBar :
              /\ i \in Announceable /\ disk[i[2]].tr = i[1] /\ disk[i[2]].at = i[3]
              /\ i[1] = "confirmed" => ~disk[i[2]].sent
<1>. SUFFICES ASSUME TypeOK, NEW i \in SettledBar
              PROVE  /\ i \in Announceable /\ disk[i[2]].tr = i[1] /\ disk[i[2]].at = i[3]
                     /\ i[1] = "confirmed" => ~disk[i[2]].sent
  OBVIOUS
<1>1. PICK t \in Txn : /\ disk[t].tr \in {"request", "confirmed"} /\ disk[t].at # 0
                       /\ disk[t].tr = "confirmed" => ~disk[t].sent
                       /\ i = <<disk[t].tr, t, disk[t].at>>
  BY DEF SettledBar
<1>2. disk[t].at \in 1 .. MaxAt
  BY <1>1, BoundsAssumption DEF TypeOK, Record, At
<1>3. i[1] = disk[t].tr /\ i[2] = t /\ i[3] = disk[t].at
  BY <1>1
<1>. QED BY <1>1, <1>2, <1>3 DEF Announceable

\* what the file counts as dealt with has been announced
LEMMA SettledTold ==
  TypeOK /\ NoMissedConfirmation /\ NoMissedRequest => SettledBar \subseteq ToldBar
<1> SUFFICES ASSUME TypeOK, NoMissedConfirmation, NoMissedRequest, NEW i \in SettledBar
             PROVE  i \in ToldBar
    OBVIOUS
<1>1. /\ i \in Announceable /\ disk[i[2]].tr = i[1] /\ disk[i[2]].at = i[3]
      /\ i[1] = "confirmed" => ~disk[i[2]].sent
  BY SettledMeaning
<1>2. i[1] \in {"request", "confirmed"} /\ i[2] \in Txn /\ i[3] # 0
  BY <1>1, AnnounceableType
<1>3. CASE i[1] = "request"
  <2>1. RequestAccounted(disk[i[2]], i[2])
    BY <1>2 DEF NoMissedRequest
  <2>. QED BY <1>1, <1>2, <1>3, <2>1, ToldMeaning DEF RequestAccounted
<1>4. CASE i[1] = "confirmed"
  <2>1. ConfirmationAccounted(disk[i[2]], i[2])
    BY <1>2 DEF NoMissedConfirmation
  <2>. QED BY <1>1, <1>2, <1>4, <2>1, ToldMeaning DEF ConfirmationAccounted
<1>. QED BY <1>2, <1>3, <1>4

\* a poll announces what the booking it fetched stands at
LEMMA FiredHappened ==
  ASSUME TypeOK, NEW e \in [Txn -> [1 .. MaxAt -> 0 .. MaxCount]], NEW p \in Polls,
         NEW T \in SUBSET Listed(p), NEW t \in Txn, NEW a \in 1 .. MaxAt,
         Fired(e, p, T)[t][a] > 0, ~(e[t][a] > 0)
  PROVE  t \in T /\ hist[t][a] = Seen(p, t) /\ a <= Len(hist[t])
<1>1. t \in T /\ a = snap[p][t]
  BY DEF Fired
<1>. QED BY <1>1 DEF Seen, TypeOK

LEMMA RequestsTell ==
  ASSUME TypeOK, NEW p \in Polls, DetectRequests(p)
  PROVE  Notifier!Tell
<1>1. /\ reqEvents' = Fired(reqEvents, p, Requests(p))
      /\ UNCHANGED <<hist, disk, confEvents>>
  BY DEF DetectRequests
<1>2. reqEvents \in [Txn -> [1 .. MaxAt -> 0 .. MaxCount]] /\ Requests(p) \in SUBSET Listed(p)
  BY DEF TypeOK, Requests
<1>3. ToldBar \subseteq ToldBar'
  <2>1. \A t \in Txn, a \in 1 .. MaxAt : reqEvents[t][a] > 0 => reqEvents'[t][a] > 0
    BY <1>1, <1>2, FiredType
  <2>. QED BY <1>1, <2>1, AnnounceableType DEF ToldBar
<1>4. ASSUME NEW i \in ToldBar', i \notin ToldBar PROVE i \in HappenedBar
  <2>1. i \in Announceable
    BY <1>4 DEF ToldBar, Announceable
  <2>2. i[2] \in Txn /\ i[3] \in 1 .. MaxAt
    BY <2>1, AnnounceableType
  <2>3. i[1] = "request" /\ reqEvents'[i[2]][i[3]] > 0 /\ ~(reqEvents[i[2]][i[3]] > 0)
    BY <1>1, <1>4, <2>1 DEF ToldBar
  <2>4. /\ i[2] \in Requests(p) /\ hist[i[2]][i[3]] = Seen(p, i[2])
        /\ i[3] <= Len(hist[i[2]])
    BY <1>1, <1>2, <2>2, <2>3, FiredHappened
  <2>5. Seen(p, i[2]) = "request"
    BY <2>4 DEF Requests, IsNewRequest
  <2>. QED BY <2>1, <2>3, <2>4, <2>5, HappenedMeaning
<1>5. UNCHANGED <<HappenedBar, SettledBar>>
  BY <1>1 DEF HappenedBar, SettledBar
<1>. QED BY <1>3, <1>4, <1>5 DEF Notifier!Tell

LEMMA ConfirmationsTell ==
  ASSUME TypeOK, NEW p \in Polls, DetectConfirmations(p)
  PROVE  Notifier!Tell
<1>1. /\ confEvents' = Fired(confEvents, p, Confirmations(p))
      /\ UNCHANGED <<hist, disk, reqEvents>>
  BY DEF DetectConfirmations
<1>2. confEvents \in [Txn -> [1 .. MaxAt -> 0 .. MaxCount]]
      /\ Confirmations(p) \in SUBSET Listed(p)
  BY DEF TypeOK, Confirmations
<1>3. ToldBar \subseteq ToldBar'
  <2>1. \A t \in Txn, a \in 1 .. MaxAt : confEvents[t][a] > 0 => confEvents'[t][a] > 0
    BY <1>1, <1>2, FiredType
  <2>. QED BY <1>1, <2>1, AnnounceableType DEF ToldBar
<1>4. ASSUME NEW i \in ToldBar', i \notin ToldBar PROVE i \in HappenedBar
  <2>1. i \in Announceable
    BY <1>4 DEF ToldBar, Announceable
  <2>2. i[1] \in {"request", "confirmed"} /\ i[2] \in Txn /\ i[3] \in 1 .. MaxAt
    BY <2>1, AnnounceableType
  <2>3. /\ i[1] = "confirmed"
        /\ confEvents'[i[2]][i[3]] > 0 /\ ~(confEvents[i[2]][i[3]] > 0)
    BY <1>1, <1>4, <2>1, <2>2 DEF ToldBar
  <2>4. /\ i[2] \in Confirmations(p) /\ hist[i[2]][i[3]] = Seen(p, i[2])
        /\ i[3] <= Len(hist[i[2]])
    BY <1>1, <1>2, <2>2, <2>3, FiredHappened
  <2>5. Seen(p, i[2]) = "confirmed"
    BY <2>4 DEF Confirmations, FiresConfirmation, IsNewConfirmation
  <2>. QED BY <2>1, <2>3, <2>4, <2>5, HappenedMeaning
<1>5. UNCHANGED <<HappenedBar, SettledBar>>
  BY <1>1 DEF HappenedBar, SettledBar
<1>. QED BY <1>3, <1>4, <1>5 DEF Notifier!Tell

LEMMA TransactHappens ==
  ASSUME TypeOK, TypeOK', NEW t \in Txn, Transact(t)
  PROVE  Notifier!Happen
<1>1. UNCHANGED <<disk, reqEvents, confEvents>>
  BY DEF Transact, eventVars
<1>2. UNCHANGED <<ToldBar, SettledBar>>
  BY <1>1 DEF ToldBar, SettledBar
<1>3. /\ hist' \in [Txn -> Seq(Transition)] /\ hist \in [Txn -> Seq(Transition)]
      /\ \A u \in Txn : Len(hist[u]) <= Len(hist'[u])
      /\ \A u \in Txn : \A a \in 1 .. Len(hist[u]) : hist'[u][a] = hist[u][a]
  BY TransactKeeps DEF TypeOK
<1>6. (TypeOK => HappenedBar =
              {i \in Announceable : i[3] <= Len(hist[i[2]]) /\ hist[i[2]][i[3]] = i[1]})'
  BY HappenedMeaning, PTL
<1>4. ASSUME NEW i \in HappenedBar PROVE i \in HappenedBar'
  <2>1. i \in Announceable /\ i[3] <= Len(hist[i[2]]) /\ hist[i[2]][i[3]] = i[1]
    BY HappenedMeaning
  <2>2. i[2] \in Txn /\ i[3] \in 1 .. MaxAt
    BY <2>1, AnnounceableType
  <2>3. Len(hist[i[2]]) \in Nat /\ Len(hist'[i[2]]) \in Nat
    BY <1>3, <2>2
  <2>4. i[3] \in 1 .. Len(hist[i[2]])
    BY <2>1, <2>2, <2>3, BoundsAssumption
  <2>5. i[3] <= Len(hist'[i[2]]) /\ hist'[i[2]][i[3]] = hist[i[2]][i[3]]
    <3>1. Len(hist[i[2]]) <= Len(hist'[i[2]])
      BY <1>3, <2>2
    <3>. QED BY <1>3, <2>2, <2>3, <2>4, <3>1
  <2>. QED BY <1>6, <2>1, <2>5 DEF Announceable
<1>5. HappenedBar' \subseteq Announceable
  BY <1>6 DEF Announceable
<1>. QED BY <1>2, <1>4, <1>5 DEF Notifier!Happen

LEMMA CopyingSettles ==
  ASSUME TypeOK', NoMissedConfirmation', NoMissedRequest', Copying
  PROVE  Notifier!Settle
<1>1. UNCHANGED <<hist, reqEvents, confEvents>>
  BY DEF Copying, eventVars
<1>2. UNCHANGED <<HappenedBar, ToldBar>>
  BY <1>1 DEF HappenedBar, ToldBar
<1>3. (TypeOK /\ NoMissedConfirmation /\ NoMissedRequest => SettledBar \subseteq ToldBar)'
  BY SettledTold, PTL
<1>. QED BY <1>2, <1>3 DEF Notifier!Settle

\* Whatever happens, each request and each confirmation is announced before
\* it counts as dealt with, and nothing is announced that did not happen.
THEOREM NotifiesOrRepeats == Spec => NotifiesAtLeastOnce
<1>1. Init => Notifier!Init
  <2> SUFFICES ASSUME Init PROVE Notifier!Init
      OBVIOUS
  <2>1. HappenedBar \subseteq Announceable
    BY InitTypeOK, HappenedMeaning
  <2>2. ToldBar = {}
    BY AnnounceableType DEF Init, ToldBar
  <2>3. SettledBar = {}
    <3>1. \A t \in Txn : disk[t].at = 0
      BY DEF Init, Absent, MigratedRecord
    <3>. QED BY <3>1 DEF SettledBar
  <2>. QED BY <2>1, <2>2, <2>3 DEF Notifier!Init
<1>2. TypeOK /\ TypeOK' /\ NoMissedConfirmation' /\ NoMissedRequest' /\ [Next]_vars =>
        [Notifier!Next]_<<HappenedBar, ToldBar, SettledBar>>
  BY StepCases, RequestsTell, ConfirmationsTell, TransactHappens, CopyingSettles
     DEF Notifier!Next
<1>. QED BY <1>1, <1>2, TypeCorrect, ConfirmationsNotMissed, RequestsNotMissed, PTL
     DEF Spec, NotifiesAtLeastOnce, Notifier!Spec, Notifier!abstractVars
=============================================================================
