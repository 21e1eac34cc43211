---------------------- MODULE BookingEventsOnce_proofs ----------------------
(***************************************************************************)
(* What holds of BookingEvents while no generation outlives its runtime:   *)
(* marks last and silence a booking, and events find the runtime, whatever *)
(* crashes, is cancelled or is polled twice at once; and without any fault *)
(* each transition is announced once, as long as the polls of a generation *)
(* do not overlap.  All of it for any number of transactions, generations  *)
(* and events.                                                             *)
(***************************************************************************)
EXTENDS BookingEvents_proofs

\* a generation that is set up, or has a poll in flight
AtWork(g) == live = g \/ \E p \in Polls : p[1] = g /\ pc[p] # "none"

\* Without overlaps a poll is one of the live generation, a generation that is
\* being loaded is the only one there is, the timer starts when the first
\* refresh is over, and calls are those of the live generation.
OneGeneration ==
  /\ \A p \in Polls : pc[p] \in InFlight => live = p[1]
  /\ \A p \in Polls : pc[p] = "loaded" => live = NoGen /\ p = First(p[1])
  /\ \A p, q \in Polls : pc[p] # "none" /\ pc[q] # "none" => p[1] = q[1]
  /\ ready => live # NoGen /\ \A g \in Gen : pc[First(g)] = "none"
  /\ \A c \in Callers : job[c] # Idle => job[c].gen = live

\* what the file says of a mark, the dictionary at work says too
MarksKnown ==
  \A g \in Gen, t \in Txn : AtWork(g) /\ disk[t].sent => mem[g][t].sent

MarkInv == "overlap" \notin Faults => OneGeneration /\ MarksKnown

\* without an early refresh the polls exclude one another
OnePoll == \A p, q \in Polls : pc[p] # "none" /\ pc[q] # "none" => p = q

NoSaveDue ==
  /\ \A p \in Polls : pc[p] \notin {"saveReq", "saveConf"}
  /\ \A c \in Callers : job[c].step # "save"

\* the file is the dictionary, unless a save is due
FileIsCurrent ==
  /\ \A p \in Polls : pc[p] = "loaded" => mem[p[1]] = disk
  /\ \A g \in Gen : live = g /\ NoSaveDue => mem[g] = disk

\* what was announced, an entry remembers: it stands there, or further on
Remembers(r, t) ==
  \A a \in 1 .. MaxAt :
    /\ confEvents[t][a] > 0 => r.at > a \/ (r.at = a /\ r.tr = "confirmed")
    /\ reqEvents[t][a] > 0 => r.at > a \/ (r.at = a /\ r.reqFired)

\* an entry is not ahead of the marketplace
Behind(r, t) == r.at <= Len(hist[t])

NothingForgotten ==
  /\ \A g \in Gen, t \in Txn : AtWork(g) => Remembers(mem[g][t], t) /\ Behind(mem[g][t], t)
  /\ (\A g \in Gen : ~AtWork(g)) => \A t \in Txn : Remembers(disk[t], t) /\ Behind(disk[t], t)

\* a list is not older than the entries it is compared with
ListIsNewer ==
  \A p \in Polls, t \in Txn :
    pc[p] \in {"detect", "saveReq", "conf"} => mem[p[1]][t].at <= snap[p][t]

\* an event was fired for what happened
EventsAreTrue ==
  \A t \in Txn, a \in 1 .. MaxAt :
    /\ confEvents[t][a] > 0 => a <= Len(hist[t]) /\ hist[t][a] = "confirmed"
    /\ reqEvents[t][a] > 0 => a <= Len(hist[t]) /\ hist[t][a] = "request"

OnceInv ==
  Faults = {} /\ ~EarlyRefresh =>
    /\ OnePoll /\ FileIsCurrent /\ NothingForgotten
    /\ ListIsNewer /\ EventsAreTrue /\ AnnouncedOnce
-----------------------------------------------------------------------------
(* One generation at a time.                                                *)

LEMMA WorksAlone ==
  ASSUME TypeOK, OneGeneration
  PROVE  /\ \A g, h \in Gen : AtWork(g) /\ AtWork(h) => g = h
         /\ live # NoGen => live \in Gen /\ AtWork(live)
         /\ \A p \in Polls : pc[p] # "none" => AtWork(p[1]) /\ p[1] \in Gen
         /\ \A p \in Polls : pc[p] \in {"none", "loaded"} \cup InFlight
         /\ live = NoGen => \A p \in Polls : pc[p] \in {"none", "loaded"}
         /\ live = NoGen => ~ready /\ \A c \in Callers : job[c] = Idle
<1>1. \A p \in Polls : pc[p] \in {"none", "loaded"} \cup InFlight
  BY DEF TypeOK, Phase
<1>2. \A p \in Polls : pc[p] # "none" => AtWork(p[1]) /\ p[1] \in Gen
  BY PollsType DEF AtWork
<1>3. live # NoGen => live \in Gen /\ AtWork(live)
  BY DEF TypeOK, AtWork
<1>4. live = NoGen => \A p \in Polls : pc[p] \in {"none", "loaded"}
  BY <1>1, PollsType, SentinelAssumption DEF OneGeneration
<1>5. live = NoGen => ~ready /\ \A c \in Callers : job[c] = Idle
  BY SentinelAssumption DEF OneGeneration, TypeOK
<1>6. ASSUME NEW g \in Gen, NEW h \in Gen, AtWork(g), AtWork(h) PROVE g = h
  <2>1. CASE live = NoGen
    BY <1>6, <2>1, SentinelAssumption DEF AtWork, OneGeneration
  <2>2. ASSUME live # NoGen, NEW p \in Polls, pc[p] # "none" PROVE p[1] = live
    BY <1>1, <2>2 DEF OneGeneration
  <2>. QED  BY <1>6, <2>1, <2>2 DEF AtWork
<1>. QED  BY <1>1, <1>2, <1>3, <1>4, <1>5, <1>6

OneAtWork == \A g, h \in Gen : AtWork(g) /\ AtWork(h) => g = h

LEMMA OneWorks == TypeOK /\ OneGeneration => OneAtWork
BY WorksAlone DEF OneAtWork

\* A withdrawal leaves neither a generation nor a poll nor a call.
LEMMA WithdrawalEnds ==
  ASSUME "overlap" \notin Faults, TypeOK, OneGeneration, NEW g \in Gen,
         SetupFails(g) \/ SetupCancelled(g) \/ UnloadAndStop(g)
  PROVE  /\ live = g /\ live' = NoGen /\ ready' = FALSE
         /\ \A p \in Polls : pc'[p] = "none"
         /\ \A h \in Gen : ~AtWork(h)'
         /\ \A c \in Callers : job[c] = Idle
         /\ UNCHANGED <<hist, disk, job, eventVars>>
<1>1. PICK E : /\ live = g /\ NoCallLeftBehind(g) /\ Withdraw(g, E)
               /\ \A p \in Polls : p[1] = g => pc[p] = "none" \/ p \in E
  <2>1. CASE SetupFails(g) \/ SetupCancelled(g)
    <3>1. \A p \in Polls : p[1] = g => pc[p] = "none" \/ p \in {First(g)}
      BY <2>1, PollsType DEF SetupFails, SetupCancelled, NoPollLeftBehind
    <3>. QED  BY <2>1, <3>1 DEF SetupFails, SetupCancelled
  <2>2. CASE UnloadAndStop(g)
    <3>1. \A p \in Polls : p[1] = g => pc[p] = "none" \/ p \in {Later(g)}
      BY <2>2, PollsType DEF UnloadAndStop, OneGeneration
    <3>. QED  BY <2>2, <3>1 DEF UnloadAndStop
  <2>. QED  BY <2>1, <2>2
<1>2. \A c \in Callers : job[c] = Idle
  BY <1>1 DEF NoCallLeftBehind, OneGeneration
<1>3. /\ live' = NoGen /\ ready' = FALSE /\ UNCHANGED <<hist, disk, job, eventVars>>
      /\ \A p \in Polls : pc'[p] = IF p \in E THEN "none" ELSE pc[p]
  BY <1>1 DEF Withdraw, serviceVars
<1>4. \A p \in Polls : pc[p] # "none" => p[1] = g
  BY <1>1, WorksAlone, SentinelAssumption DEF OneGeneration
<1>5. \A p \in Polls : pc'[p] = "none"
  BY <1>1, <1>3, <1>4
<1>6. \A h \in Gen : ~AtWork(h)'
  BY <1>3, <1>5, SentinelAssumption DEF AtWork
<1>. QED  BY <1>1, <1>2, <1>3, <1>5, <1>6

LEMMA SetupKeepsOne ==
  ASSUME "overlap" \notin Faults, TypeOK, OneGeneration, NEW g \in Gen, Setup(g)
  PROVE  OneGeneration'
<1>. USE DEF InFlight
<1>1. /\ pc \in [Polls -> Phase] /\ NoGen \notin Gen
      /\ First(g) \in Polls /\ First(g)[1] = g
      /\ \A p \in Polls : p[1] = g => p = First(g) \/ p = Later(g)
  BY SentinelAssumption, PollsType DEF TypeOK
<1>2. CASE Load(g)
  <2>1. /\ live = NoGen /\ live' = NoGen /\ job' = job /\ ready' = ready
        /\ pc' = [pc EXCEPT ![First(g)] = "loaded"]
    BY <1>2 DEF Load, entryVars, serviceVars
  <2>2. \A p \in Polls : pc[p] = "none"
    BY <1>2, <2>1, WorksAlone, PollsType DEF Load, SettingUp, OneGeneration
  <2>3. \A p \in Polls : pc'[p] = IF p = First(g) THEN "loaded" ELSE "none"
    BY <1>1, <2>1, <2>2
  <2>4. ~ready /\ \A c \in Callers : job[c] = Idle
    BY <2>1, WorksAlone
  <2>. QED  BY <1>1, <2>1, <2>3, <2>4 DEF OneGeneration
<1>3. CASE AuthenticationFails(g)
  <2>1. /\ pc[First(g)] = "loaded" /\ live' = live /\ job' = job /\ ready' = ready
        /\ pc' = [pc EXCEPT ![First(g)] = "none"]
    BY <1>3 DEF AuthenticationFails, entryVars, serviceVars
  <2>2. \A p \in Polls : pc'[p] = IF p = First(g) THEN "none" ELSE pc[p]
    BY <1>1, <2>1
  <2>3. live = NoGen
    BY <1>1, <2>1 DEF OneGeneration
  <2>4. ~ready /\ \A c \in Callers : job[c] = Idle
    BY <2>3, WorksAlone
  <2>. QED  BY <2>1, <2>2, <2>4 DEF OneGeneration
<1>4. CASE Publish(g)
  <2>1. /\ pc[First(g)] = "loaded" /\ live' = g /\ job' = job /\ ready' = ready
        /\ pc' = [pc EXCEPT ![First(g)] = "fetch"]
    BY <1>4 DEF Publish, serviceVars
  <2>2. live = NoGen
    BY <1>1, <2>1 DEF OneGeneration
  <2>3. ~ready /\ \A c \in Callers : job[c] = Idle
    BY <2>2, WorksAlone
  <2>4. \A p \in Polls : p # First(g) => pc[p] = "none"
    <3>1. \A p \in Polls : pc[p] # "none" => pc[p] = "loaded"
      BY <2>2, WorksAlone
    <3>. QED  BY <1>1, <2>1, <3>1 DEF OneGeneration
  <2>5. \A p \in Polls : pc'[p] = IF p = First(g) THEN "fetch" ELSE "none"
    BY <1>1, <2>1, <2>4
  <2>. QED  BY <1>1, <2>1, <2>3, <2>5 DEF OneGeneration
<1>5. CASE SetupFails(g) \/ SetupCancelled(g) \/ UnloadAndStop(g)
  BY <1>5, WithdrawalEnds DEF OneGeneration
<1>6. ~UnloadInFlight(g)
  BY DEF UnloadInFlight
<1>. QED  BY <1>2, <1>3, <1>4, <1>5, <1>6 DEF Setup

\* What a poll changes: its own place, and whether the setup is complete.
LEMMA PollSteps ==
  ASSUME TypeOK, OneGeneration, NEW p \in Polls, Poll(p)
  PROVE  /\ pc[p] \in InFlight /\ pc'[p] \in InFlight \cup {"none"}
         /\ \A q \in Polls : q # p => pc'[q] = pc[q] /\ snap'[q] = snap[q]
         /\ live = p[1] /\ live' = live /\ job' = job
         /\ ready' = ready \/ (ready' /\ p = First(p[1]) /\ pc'[p] = "none")
<1>. USE DEF InFlight
<1>1. pc \in [Polls -> Phase] /\ snap \in [Polls -> [Txn -> At]]
  BY DEF TypeOK
<1>2. /\ pc[p] \in InFlight
      /\ \E s \in InFlight \cup {"none"} : pc' = [pc EXCEPT ![p] = s]
  BY DEF Poll, FetchSucceeds, FetchFails, DetectRequests, DetectConfirmations, SavePoll,
         FinishPoll, EndPoll
<1>3. snap' = snap \/ \E s : snap' = [snap EXCEPT ![p] = s]
  BY DEF Poll, FetchSucceeds, FetchFails, DetectRequests, DetectConfirmations, SavePoll,
         FinishPoll, EndPoll
<1>4. live' = live /\ job' = job
  BY DEF Poll, FetchSucceeds, FetchFails, DetectRequests, DetectConfirmations, SavePoll,
         FinishPoll, EndPoll, entryVars, serviceVars
<1>5. ready' = ready \/ FinishPoll(p)
  BY DEF Poll, FetchSucceeds, FetchFails, DetectRequests, DetectConfirmations, SavePoll,
         entryVars
<1>6. FinishPoll(p) => /\ pc'[p] = "none"
                       /\ ready' = (ready \/ p = First(p[1]))
  BY <1>1 DEF FinishPoll, EndPoll
<1>7. ready' = ready \/ (ready' /\ p = First(p[1]) /\ pc'[p] = "none")
  <2>1. ready \in BOOLEAN
    BY DEF TypeOK
  <2>. QED  BY <1>5, <1>6, <2>1
<1>. QED  BY <1>1, <1>2, <1>3, <1>4, <1>7 DEF OneGeneration

LEMMA PollKeepsOne ==
  ASSUME TypeOK, OneGeneration, NEW p \in Polls, Poll(p)
  PROVE  OneGeneration'
<1>1. /\ pc[p] \in InFlight /\ pc'[p] \in InFlight \cup {"none"}
      /\ \A q \in Polls : q # p => pc'[q] = pc[q]
      /\ live = p[1] /\ live' = live /\ job' = job
      /\ ready' = ready \/ (ready' /\ p = First(p[1]) /\ pc'[p] = "none")
  BY PollSteps
<1>2. p[1] \in Gen /\ live # NoGen
  BY <1>1, PollsType, SentinelAssumption
<1>3. \A q \in Polls : pc'[q] # "none" => pc[q] # "none" /\ pc[q] # "loaded"
  BY <1>1, <1>2 DEF OneGeneration, InFlight
<1>4. \A q \in Polls : pc'[q] # "none" => q[1] = live
  <2>1. \A q \in Polls : pc'[q] # "none" => pc[q] \in InFlight
    BY <1>3, WorksAlone
  <2>. QED  BY <2>1 DEF OneGeneration
<1>5. ready' => \A g \in Gen : pc'[First(g)] = "none"
  <2>1. CASE ready' /\ ~ready
    <3>1. p = First(p[1]) /\ pc'[p] = "none"
      BY <1>1, <2>1
    <3>2. \A g \in Gen : pc'[First(g)] # "none" => g = p[1]
      BY <1>1, <1>4, PollsType
    <3>. QED  BY <3>1, <3>2
  <2>2. CASE ready
    BY <1>3, <2>2, PollsType DEF OneGeneration
  <2>. QED  BY <2>1, <2>2
<1>6. \A q \in Polls : pc'[q] # "loaded"
  BY <1>1, <1>3 DEF InFlight
<1>. QED  BY <1>1, <1>2, <1>4, <1>5, <1>6 DEF OneGeneration, InFlight

LEMMA RefreshKeepsOne ==
  ASSUME TypeOK, OneGeneration, NEW g \in Gen, StartPoll(g) \/ SaveArchives(g)
  PROVE  OneGeneration' /\ UNCHANGED <<live, ready, job>>
<1>1. UNCHANGED <<live, ready, job>>
  BY DEF StartPoll, SaveArchives, entryVars, serviceVars
<1>2. CASE StartPoll(g)
  <2>1. live = g /\ pc' = [pc EXCEPT ![Later(g)] = "fetch"] /\ Later(g) \in Polls /\ Later(g)[1] = g
    BY <1>2, PollsType DEF StartPoll
  <2>2. \A p \in Polls : pc'[p] = IF p = Later(g) THEN "fetch" ELSE pc[p]
    BY <2>1 DEF TypeOK
  <2>3. live # NoGen /\ \A h \in Gen : First(h) \in Polls /\ First(h) # Later(g)
    BY <2>1, SentinelAssumption DEF First, Later, Polls
  <2>4. \A p \in Polls : pc'[p] # "none" => p[1] = g /\ pc'[p] # "loaded"
    BY <2>1, <2>2, <2>3, WorksAlone DEF OneGeneration
  <2>. QED  BY <1>1, <2>1, <2>2, <2>3, <2>4 DEF OneGeneration
<1>3. CASE SaveArchives(g)
  BY <1>1, <1>3 DEF SaveArchives, OneGeneration
<1>. QED  BY <1>1, <1>2, <1>3

LEMMA ServiceKeepsOne ==
  ASSUME TypeOK, OneGeneration, Service
  PROVE  OneGeneration' /\ UNCHANGED <<pc, live, ready>>
<1>1. UNCHANGED <<pc, live, ready>>
  BY DEF Service, AutomationSends, AutomationRefused, ProviderMarks, SendDelivered,
         SendFails, MarkSent, SaveMark, entryVars
<1>2. \A c \in Callers : job'[c] # Idle => job'[c].gen = live
  <2>. USE DEF TypeOK, OneGeneration
  <2>1. ASSUME NEW t \in Txn, AutomationSends(t) \/ AutomationRefused(t) \/ ProviderMarks(t)
        PROVE  \A c \in Callers : job'[c] # Idle => job'[c].gen = live
    <3>1. CASE job' = job
      BY <3>1
    <3>2. ASSUME NEW d \in Callers, NEW s, Call(d, s, t)
          PROVE  \A c \in Callers : job'[c] # Idle => job'[c].gen = live
      <4>1. job' = [job EXCEPT ![d] = [step |-> s, txn |-> t, gen |-> live]]
        BY <3>2 DEF Call
      <4>2. job'[d].gen = live /\ \A c \in Callers : c # d => job'[c] = job[c]
        BY <4>1
      <4>. QED BY <4>2
    <3>. QED BY <2>1, <3>1, <3>2 DEF AutomationSends, AutomationRefused, ProviderMarks
  <2>2. ASSUME NEW d \in Callers, SendFails(d) \/ SaveMark(d)
        PROVE  \A c \in Callers : job'[c] # Idle => job'[c].gen = live
    BY <2>2 DEF SendFails, SaveMark
  <2>3. ASSUME NEW d \in Callers, SendDelivered(d) \/ MarkSent(d)
        PROVE  \A c \in Callers : job'[c] # Idle => job'[c].gen = live
    <3>1. job[d] # Idle
      BY <2>3 DEF SendDelivered, MarkSent, Idle
    <3>2. \A c \in Callers : job'[c].gen = job[c].gen /\ (c # d => job'[c] = job[c])
      BY <2>3 DEF SendDelivered, MarkSent, Job
    <3>. QED BY <3>1, <3>2
  <2>. QED BY <2>1, <2>2, <2>3 DEF Service
<1>. QED BY <1>1, <1>2 DEF OneGeneration

LEMMA NextKeepsOne ==
  ASSUME "overlap" \notin Faults, TypeOK, OneGeneration, [Next]_vars
  PROVE  OneGeneration'
<1>1. CASE Restart
  BY <1>1, SentinelAssumption DEF Restart, OneGeneration, InFlight
<1>2. ASSUME NEW t \in Txn, Transact(t) PROVE OneGeneration'
  BY <1>2 DEF Transact, OneGeneration, entryVars, serviceVars
<1>3. CASE UNCHANGED vars
  BY <1>3 DEF vars, OneGeneration
<1>. QED  BY <1>1, <1>2, <1>3, SetupKeepsOne, RefreshKeepsOne, PollKeepsOne, ServiceKeepsOne
          DEF Next

-----------------------------------------------------------------------------
(* The steps that neither detect nor move the marketplace carry entries: a  *)
(* dictionary at work keeps its entries or has them marked, a new one has   *)
(* the file's, and the file is as it was or becomes the dictionary at work. *)

Carried(g) ==
  /\ AtWork(g)
  /\ \A t \in Txn : mem'[g][t] \in {mem[g][t], AfterMark(mem[g][t])}

Loaded(g) == mem'[g] = disk /\ \A h \in Gen : ~AtWork(h)

Saved(g) == AtWork(g) /\ AtWork(g)' /\ disk' = mem[g] /\ mem'[g] = mem[g]

Carrying ==
  /\ UNCHANGED <<hist, eventVars>>
  /\ \A g \in Gen : AtWork(g)' => Carried(g) \/ Loaded(g)
  /\ disk' = disk \/ \E g \in Gen : Saved(g)

\* A forgotten dictionary is that of a generation that is not at work.
LEMMA CollectCarries ==
  ASSUME TypeOK, NEW j, mem' = Collect(mem, live', pc', j), NEW g \in Gen, AtWork(g)'
  PROVE  mem'[g] = mem[g]
<1>1. mem \in [Gen -> [Txn -> Record]]
  BY DEF TypeOK
<1>2. live' = g => mem'[g] = mem[g]
  BY <1>1, CollectType
<1>3. \A p \in Polls : pc'[p] # "none" => mem'[p[1]] = mem[p[1]]
  BY <1>1, CollectType
<1>. QED  BY <1>2, <1>3 DEF AtWork

LEMMA SetupCarries ==
  ASSUME "overlap" \notin Faults, TypeOK, OneGeneration, NEW g \in Gen, Setup(g)
  PROVE  Carrying /\ disk' = disk
<1>1. /\ pc \in [Polls -> Phase] /\ mem \in [Gen -> [Txn -> Record]]
      /\ First(g) \in Polls /\ First(g)[1] = g
  BY PollsType DEF TypeOK
<1>2. CASE Load(g)
  <2>1. \A h \in Gen : ~AtWork(h)
    BY <1>2, WorksAlone, PollsType, SentinelAssumption
    DEF Load, SettingUp, AtWork, OneGeneration
  <2>2. ASSUME NEW h \in Gen, AtWork(h)' PROVE Loaded(h)
    <3>1. live' = live /\ pc' = [pc EXCEPT ![First(g)] = "loaded"] /\ mem' = [mem EXCEPT ![g] = disk]
      BY <1>2 DEF Load, entryVars
    <3>2. h = g
      BY <1>1, <2>1, <2>2, <3>1 DEF AtWork
    <3>. QED  BY <1>1, <2>1, <3>1, <3>2 DEF Loaded
  <2>. QED  BY <1>2, <2>2 DEF Load, Carrying
<1>3. CASE AuthenticationFails(g)
  <2>1. ASSUME NEW h \in Gen, AtWork(h)' PROVE Carried(h)
    <3>1. /\ mem' = Collect(mem, live', pc', job) /\ live' = live
          /\ pc' = [pc EXCEPT ![First(g)] = "none"]
      BY <1>3 DEF AuthenticationFails, entryVars
    <3>2. AtWork(h)
      BY <1>1, <2>1, <3>1 DEF AtWork
    <3>3. mem'[h] = mem[h]
      BY <2>1, <3>1, CollectCarries
    <3>. QED  BY <3>2, <3>3 DEF Carried
  <2>. QED  BY <1>3, <2>1 DEF AuthenticationFails, Carrying
<1>4. CASE Publish(g)
  <2>1. /\ pc[First(g)] = "loaded" /\ live' = g /\ mem' = mem
        /\ \A p \in Polls : p # First(g) => pc'[p] = pc[p]
    BY <1>1, <1>4 DEF Publish
  <2>2. ASSUME NEW h \in Gen, AtWork(h)' PROVE AtWork(h)
    BY <1>1, <2>1, <2>2 DEF AtWork
  <2>. QED  BY <1>4, <2>1, <2>2 DEF Publish, Carrying, Carried
<1>5. CASE SetupFails(g) \/ SetupCancelled(g) \/ UnloadAndStop(g)
  BY <1>5, WithdrawalEnds DEF Carrying
<1>6. ~UnloadInFlight(g)
  BY DEF UnloadInFlight
<1>. QED  BY <1>2, <1>3, <1>4, <1>5, <1>6 DEF Setup

LEMMA RefreshCarries ==
  ASSUME TypeOK, OneGeneration, NEW g \in Gen, StartPoll(g) \/ SaveArchives(g)
  PROVE  Carrying
<1>1. /\ pc \in [Polls -> Phase] /\ Later(g) \in Polls /\ Later(g)[1] = g
  BY PollsType DEF TypeOK
<1>2. /\ UNCHANGED <<hist, eventVars, mem, live>>
      /\ disk' = disk \/ disk' = mem[g]
      /\ AtWork(g) /\ AtWork(g)'
      /\ \A p \in Polls : p # Later(g) => pc'[p] = pc[p]
  BY <1>1 DEF StartPoll, SaveArchives, entryVars, AtWork
<1>3. \A h \in Gen : AtWork(h)' => AtWork(h)
  BY <1>1, <1>2 DEF AtWork
<1>. QED  BY <1>2, <1>3 DEF Carrying, Carried, Saved

LEMMA PollCarries ==
  ASSUME TypeOK, OneGeneration, NEW p \in Polls, Poll(p),
         ~DetectRequests(p), ~DetectConfirmations(p)
  PROVE  Carrying
<1>1. p[1] \in Gen /\ live = p[1] /\ live' = live
  BY PollSteps, PollsType
<1>2. /\ pc[p] # "none"
      /\ \A q \in Polls : q # p => pc'[q] = pc[q]
  BY PollSteps DEF InFlight
<1>3. \A h \in Gen : AtWork(h)' => AtWork(h)
  BY <1>1, <1>2 DEF AtWork
<1>4. AtWork(p[1]) /\ AtWork(p[1])'
  BY <1>1 DEF AtWork
<1>5. CASE FetchSucceeds(p)
  BY <1>3, <1>5 DEF FetchSucceeds, Carrying, Carried
<1>6. CASE FetchFails(p) \/ FinishPoll(p)
  <2>1. mem' = Collect(mem, live', pc', job) /\ UNCHANGED <<hist, eventVars, disk>>
    BY <1>1, <1>6 DEF FetchFails, FinishPoll, EndPoll
  <2>2. \A h \in Gen : AtWork(h)' => mem'[h] = mem[h]
    BY <2>1, CollectCarries
  <2>. QED  BY <1>3, <2>1, <2>2 DEF Carrying, Carried
<1>7. CASE SavePoll(p)
  <2>1. UNCHANGED <<hist, eventVars, mem>> /\ disk' = mem[p[1]]
    BY <1>7 DEF SavePoll
  <2>. QED  BY <1>1, <1>3, <1>4, <2>1 DEF Carrying, Carried, Saved
<1>. QED  BY <1>5, <1>6, <1>7 DEF Poll

LEMMA ServiceCarries ==
  ASSUME TypeOK, OneGeneration, Service
  PROVE  Carrying
<1>1. mem \in [Gen -> [Txn -> Record]] /\ pc' = pc /\ live' = live
  BY ServiceKeepsOne DEF TypeOK
<1>2. ASSUME NEW c \in Callers, job[c] # Idle
      PROVE  job[c].gen = live /\ live \in Gen /\ AtWork(live) /\ job[c].txn \in Txn
  BY <1>2, WorksAlone, SentinelAssumption DEF OneGeneration, TypeOK
<1>0. \A h \in Gen : AtWork(h)' <=> AtWork(h)
  BY <1>1 DEF AtWork
<1>3. CASE UNCHANGED <<hist, eventVars, disk, mem>>
  BY <1>0, <1>3 DEF Carrying, Carried
<1>4. ASSUME NEW t \in Txn, NEW h \in Gen, mem' = [mem EXCEPT ![h][t] = AfterMark(@)],
             UNCHANGED <<hist, eventVars, disk>>
      PROVE  Carrying
  <2>1. \A i \in Gen, u \in Txn : mem'[i][u] \in {mem[i][u], AfterMark(mem[i][u])}
    BY <1>1, <1>4
  <2>. QED BY <1>0, <1>4, <2>1 DEF Carrying, Carried
<1>5. ASSUME mem' = Collect(mem, live', pc', job'), UNCHANGED <<hist, eventVars>>,
             disk' = disk \/ \E h \in Gen : AtWork(h) /\ disk' = mem[h]
      PROVE  Carrying
  <2>1. \A h \in Gen : AtWork(h)' => mem'[h] = mem[h]
    BY <1>5, CollectCarries
  <2>. QED BY <1>0, <1>5, <2>1 DEF Carrying, Carried, Saved
<1>6. ASSUME NEW t \in Txn, AutomationSends(t) \/ AutomationRefused(t) \/ ProviderMarks(t)
      PROVE  Carrying
  <2>1. ProviderMarks(t) => live \in Gen
    BY WorksAlone DEF ProviderMarks
  <2>. QED BY <1>3, <1>4, <1>6, <2>1 DEF AutomationSends, AutomationRefused, ProviderMarks
<1>7. ASSUME NEW c \in Callers,
             SendDelivered(c) \/ SendFails(c) \/ MarkSent(c) \/ SaveMark(c)
      PROVE  Carrying
  <2>1. job[c] # Idle
    BY <1>7 DEF SendDelivered, SendFails, MarkSent, SaveMark, Idle
  <2>2. job[c].gen \in Gen /\ AtWork(job[c].gen) /\ job[c].txn \in Txn
    BY <1>2, <2>1
  <2>3. CASE SendDelivered(c)
    BY <1>3, <2>3 DEF SendDelivered
  <2>4. CASE SendFails(c)
    BY <1>1, <1>5, <2>4 DEF SendFails
  <2>5. CASE MarkSent(c)
    BY <1>4, <2>2, <2>5 DEF MarkSent
  <2>6. CASE SaveMark(c)
    BY <1>1, <1>5, <2>2, <2>6 DEF SaveMark
  <2>. QED BY <1>7, <2>3, <2>4, <2>5, <2>6
<1>. QED BY <1>6, <1>7 DEF Service

LEMMA StepCarries ==
  ASSUME "overlap" \notin Faults, TypeOK, OneGeneration, [Next]_vars
  PROVE  \/ \E p \in Polls : DetectRequests(p) \/ DetectConfirmations(p)
         \/ \E t \in Txn : Transact(t)
         \/ Carrying
<1>1. CASE Restart
  BY <1>1, SentinelAssumption DEF Restart, Carrying, AtWork
<1>2. CASE UNCHANGED vars
  BY <1>2 DEF vars, Carrying, Carried, eventVars, AtWork
<1>3. ASSUME NEW g \in Gen, Setup(g) \/ StartPoll(g) \/ SaveArchives(g) PROVE Carrying
  BY <1>3, SetupCarries, RefreshCarries
<1>. QED  BY <1>1, <1>2, <1>3, PollCarries, ServiceCarries DEF Next

-----------------------------------------------------------------------------
(* Marks.                                                                   *)

\* A detection keeps the mark of every entry.
LEMMA DetectionKeepsMarks ==
  ASSUME TypeOK, NEW p \in Polls, NEW t \in Txn
  PROVE  /\ AfterRequests(p)[t].sent = mem[p[1]][t].sent
         /\ AfterConfirmations(p)[t].sent = mem[p[1]][t].sent
<1>1. mem[p[1]][t] \in Record
  BY PollsType DEF TypeOK
<1>. QED  BY <1>1 DEF AfterRequests, AfterConfirmations, AfterRequest, AfterConfirmation, Record

LEMMA CarryingKeepsMarks ==
  ASSUME TypeOK, TypeOK', OneGeneration', MarksKnown, Carrying
  PROVE  MarksKnown'
<1>. SUFFICES ASSUME NEW g \in Gen, NEW t \in Txn, AtWork(g)', disk'[t].sent
              PROVE  mem'[g][t].sent
  BY DEF MarksKnown
<1>1. CASE disk' = disk
  <2>1. CASE Loaded(g)
    BY <1>1, <2>1 DEF Loaded
  <2>2. CASE Carried(g)
    <3>1. mem[g][t].sent /\ mem[g][t] \in Record
      BY <1>1, <2>2 DEF Carried, MarksKnown, TypeOK
    <3>2. AfterMark(mem[g][t]).sent
      BY <3>1 DEF AfterMark, Record
    <3>. QED BY <2>2, <3>1, <3>2 DEF Carried
  <2>. QED BY <2>1, <2>2 DEF Carrying
<1>2. ASSUME NEW h \in Gen, Saved(h) PROVE mem'[g][t].sent
  <2>1. h = g
    <3>1. (TypeOK /\ OneGeneration => OneAtWork)'
      BY OneWorks, PTL
    <3>. QED  BY <1>2, <3>1 DEF Saved, OneAtWork
  <2>. QED  BY <1>2, <2>1 DEF Saved
<1>. QED BY <1>1, <1>2 DEF Carrying

LEMMA NextKeepsMarks ==
  ASSUME "overlap" \notin Faults, TypeOK, OneGeneration, MarksKnown, [Next]_vars
  PROVE  MarksKnown'
<1>1. ASSUME NEW p \in Polls, DetectRequests(p) \/ DetectConfirmations(p) PROVE MarksKnown'
  <2>1. disk' = disk /\ live' = live /\ pc[p] # "none" /\ \A q \in Polls : q # p => pc'[q] = pc[q]
    BY <1>1 DEF DetectRequests, DetectConfirmations, TypeOK, entryVars
  <2>2. \/ mem' = [mem EXCEPT ![p[1]] = AfterRequests(p)]
        \/ mem' = [mem EXCEPT ![p[1]] = AfterConfirmations(p)]
    BY <1>1 DEF DetectRequests, DetectConfirmations
  <2>3. \A h \in Gen, t \in Txn : mem'[h][t].sent = mem[h][t].sent
    <3>1. \A h \in Gen : h # p[1] => mem'[h] = mem[h]
      BY <2>2 DEF TypeOK
    <3>2. mem'[p[1]] = AfterRequests(p) \/ mem'[p[1]] = AfterConfirmations(p)
      BY <2>2, PollsType DEF TypeOK
    <3>. QED  BY <3>1, <3>2, DetectionKeepsMarks
  <2>4. \A h \in Gen : AtWork(h)' => AtWork(h)
    BY <2>1 DEF AtWork
  <2>. QED  BY <2>1, <2>3, <2>4 DEF MarksKnown
<1>2. ASSUME NEW t \in Txn, Transact(t) PROVE MarksKnown'
  BY <1>2 DEF Transact, MarksKnown, AtWork, entryVars
<1>3. CASE Carrying
  BY <1>3, CarryingKeepsMarks, NextKeepsOne, NextTypeOK
<1>. QED  BY <1>1, <1>2, <1>3, StepCarries

LEMMA MarkInvInit == Init => MarkInv
BY SentinelAssumption DEF Init, MarkInv, OneGeneration, MarksKnown, InFlight, AtWork

LEMMA MarkInvNext == TypeOK /\ MarkInv /\ [Next]_vars => MarkInv'
BY NextKeepsOne, NextKeepsMarks DEF MarkInv

\* A mark in the file lasts, whatever crashes, is cancelled or saves what, as
\* long as no generation outlives its runtime.
THEOREM MarksLast ==
  ASSUME "overlap" \notin Faults
  PROVE  Spec => MarksSurvive
<1>1. TypeOK /\ MarkInv /\ [Next]_vars =>
        [\A t \in Txn : disk[t].sent => disk'[t].sent]_vars
  <2>. SUFFICES ASSUME TypeOK, OneGeneration, MarksKnown, [Next]_vars,
                       NEW t \in Txn, disk[t].sent
                PROVE  disk'[t].sent
    BY DEF MarkInv
  <2>1. disk' = disk => disk'[t].sent
    OBVIOUS
  <2>2. ASSUME NEW g \in Gen, Saved(g) PROVE disk'[t].sent
    BY <2>2 DEF Saved, MarksKnown
  <2>3. CASE Carrying
    BY <2>1, <2>2, <2>3 DEF Carrying
  <2>. QED BY <2>1, <2>3, StepCarries DEF DetectRequests, DetectConfirmations, Transact
<1>. QED BY <1>1, TypeCorrect, MarkInvInit, MarkInvNext, PTL DEF Spec, MarksSurvive

\* Only a detection fires a confirmation, of the live generation and for a
\* booking without a mark.
LEMMA WhoConfirms ==
  ASSUME "overlap" \notin Faults, TypeOK, OneGeneration, [Next]_vars,
         confEvents' # confEvents
  PROVE  /\ live # NoGen
         /\ \A t \in Txn : mem[live][t].sent => confEvents'[t] = confEvents[t]
<1>1. PICK p \in Polls : DetectConfirmations(p)
  BY StepCarries DEF DetectRequests, Transact, Carrying, eventVars
<1>2. live = p[1] /\ p[1] \in Gen
  BY <1>1, PollsType DEF DetectConfirmations, OneGeneration, InFlight
<1>3. live # NoGen
  BY <1>2, SentinelAssumption
<1>4. ASSUME NEW t \in Txn, mem[p[1]][t].sent PROVE confEvents'[t] = confEvents[t]
  <2>1. t \notin Confirmations(p)
    BY <1>4 DEF Confirmations, FiresConfirmation
  <2>2. confEvents[t] \in [1 .. MaxAt -> 0 .. MaxCount]
    BY DEF TypeOK
  <2>3. confEvents'[t] = [a \in 1 .. MaxAt |-> confEvents[t][a]]
    BY <1>1, <2>1 DEF DetectConfirmations, Fired
  <2>. QED BY <2>2, <2>3
<1>. QED BY <1>2, <1>3, <1>4

\* A booking whose message is marked in the file is announced no more.
THEOREM MarkedAreQuiet ==
  ASSUME "overlap" \notin Faults
  PROVE  Spec => QuietOnceMarked
<1>1. TypeOK /\ MarkInv /\ [Next]_vars =>
        [\A t \in Txn : disk[t].sent => confEvents'[t] = confEvents[t]]_vars
  <2>. SUFFICES ASSUME TypeOK, OneGeneration, MarksKnown, [Next]_vars,
                       NEW t \in Txn, disk[t].sent, confEvents' # confEvents
                PROVE  confEvents'[t] = confEvents[t]
    BY DEF MarkInv
  <2>1. live # NoGen /\ (mem[live][t].sent => confEvents'[t] = confEvents[t])
    BY WhoConfirms
  <2>2. mem[live][t].sent
    BY <2>1, WorksAlone DEF MarksKnown
  <2>. QED BY <2>1, <2>2
<1>. QED BY <1>1, TypeCorrect, MarkInvInit, MarkInvNext, PTL DEF Spec, QuietOnceMarked

\* A confirmation is announced only while services find the runtime.
THEOREM EventsFindRuntime ==
  ASSUME "overlap" \notin Faults
  PROVE  Spec => RuntimeForEvents
<1>1. TypeOK /\ MarkInv /\ [Next]_vars => [confEvents' # confEvents => live # NoGen]_vars
  BY WhoConfirms DEF MarkInv
<1>. QED BY <1>1, TypeCorrect, MarkInvInit, MarkInvNext, PTL DEF Spec, RuntimeForEvents

-----------------------------------------------------------------------------
(* Without any fault: the file is the dictionary at work.                   *)

LEMMA SetupKeepsFile ==
  ASSUME Faults = {}, TypeOK, OneGeneration, FileIsCurrent, NEW g \in Gen, Setup(g)
  PROVE  FileIsCurrent'
<1>1. /\ pc \in [Polls -> Phase] /\ mem \in [Gen -> [Txn -> Record]] /\ NoGen \notin Gen
      /\ First(g) \in Polls /\ First(g)[1] = g
  BY SentinelAssumption, PollsType DEF TypeOK
<1>2. CASE Load(g)
  <2>1. \A p \in Polls : pc[p] # "loaded"
    BY <1>2, PollsType DEF Load, SettingUp, OneGeneration
  <2>2. live' = NoGen /\ disk' = disk /\ mem'[g] = disk
    BY <1>1, <1>2 DEF Load, entryVars
  <2>3. \A p \in Polls : pc'[p] = "loaded" => p = First(g)
    BY <1>1, <1>2, <2>1 DEF Load
  <2>. QED  BY <1>1, <2>2, <2>3 DEF FileIsCurrent
<1>3. CASE AuthenticationFails(g)
  <2>1. live' = live /\ live = NoGen /\ disk' = disk
    BY <1>1, <1>3, WorksAlone DEF AuthenticationFails, entryVars, OneGeneration
  <2>2. \A p \in Polls : pc'[p] # "loaded"
    BY <1>1, <1>3 DEF AuthenticationFails, OneGeneration, First
  <2>. QED  BY <1>1, <2>1, <2>2 DEF FileIsCurrent
<1>4. CASE Publish(g)
  <2>1. live' = g /\ mem' = mem /\ disk' = disk /\ mem[g] = disk
    BY <1>1, <1>4 DEF Publish, FileIsCurrent
  <2>2. \A p \in Polls : pc'[p] = "loaded" => pc[p] = "loaded"
    BY <1>1, <1>4 DEF Publish
  <2>. QED  BY <2>1, <2>2 DEF FileIsCurrent
<1>5. CASE SetupFails(g) \/ SetupCancelled(g) \/ UnloadAndStop(g)
  BY <1>1, <1>5, WithdrawalEnds DEF FileIsCurrent
<1>6. ~UnloadInFlight(g)
  BY DEF UnloadInFlight
<1>. QED  BY <1>2, <1>3, <1>4, <1>5, <1>6 DEF Setup

\* While there is a runtime: the file is written, or a save is due after the
\* step, or neither was due before it nor does it change the dictionary.
LEMMA RuntimeKeepsFile ==
  ASSUME TypeOK, OneGeneration, FileIsCurrent, live \in Gen, live' = live,
         \A p \in Polls : pc'[p] # "loaded",
         \/ disk' = mem'[live]
         \/ ~NoSaveDue'
         \/ disk' = disk /\ mem'[live] = mem[live] /\ (NoSaveDue' => NoSaveDue)
  PROVE  FileIsCurrent'
BY DEF FileIsCurrent

LEMMA RefreshKeepsFile ==
  ASSUME TypeOK, OneGeneration, FileIsCurrent, NEW g \in Gen,
         StartPoll(g) \/ (SaveArchives(g) /\ Faults = {})
  PROVE  FileIsCurrent'
<1>1. /\ pc \in [Polls -> Phase] /\ Later(g) \in Polls /\ Later(g)[1] = g
      /\ live = g /\ live' = live
  BY PollsType DEF TypeOK, StartPoll, SaveArchives, OneGeneration, InFlight, entryVars
<1>2. \A p \in Polls : pc[p] # "loaded"
  BY <1>1, SentinelAssumption DEF OneGeneration
<1>3. CASE StartPoll(g)
  <2>1. disk' = disk /\ mem' = mem /\ job' = job /\ pc' = [pc EXCEPT ![Later(g)] = "fetch"]
    BY <1>3 DEF StartPoll, serviceVars
  <2>2. pc[Later(g)] = "none"
    BY <1>3 DEF StartPoll
  <2>3. NoSaveDue' => NoSaveDue
    BY <1>1, <2>1, <2>2 DEF NoSaveDue
  <2>. QED  BY <1>1, <1>2, <2>1, <2>3, RuntimeKeepsFile
<1>4. CASE SaveArchives(g)
  BY <1>1, <1>2, <1>4, RuntimeKeepsFile DEF SaveArchives
<1>. QED  BY <1>3, <1>4

LEMMA PollKeepsFile ==
  ASSUME TypeOK, OneGeneration, FileIsCurrent, NEW p \in Polls, Poll(p)
  PROVE  FileIsCurrent'
<1>1. /\ pc \in [Polls -> Phase] /\ mem \in [Gen -> [Txn -> Record]] /\ p[1] \in Gen
      /\ live = p[1] /\ live' = live /\ job' = job /\ AtWork(p[1])'
      /\ \A q \in Polls : q # p => pc'[q] = pc[q]
  BY PollSteps, PollsType DEF TypeOK, AtWork
<1>2. \A q \in Polls : pc'[q] # "loaded"
  BY <1>1, PollSteps, WorksAlone, SentinelAssumption DEF OneGeneration, InFlight
<1>3. pc[p] \notin {"saveReq", "saveConf"} => (NoSaveDue' => NoSaveDue)
  BY <1>1 DEF NoSaveDue
<1>4. CASE FetchSucceeds(p)
  BY <1>1, <1>2, <1>3, <1>4, RuntimeKeepsFile DEF FetchSucceeds
<1>5. CASE FetchFails(p) \/ FinishPoll(p)
  <2>1. mem' = Collect(mem, live', pc', job) /\ disk' = disk /\ pc[p] \notin {"saveReq", "saveConf"}
    BY <1>1, <1>5 DEF FetchFails, FinishPoll, EndPoll
  <2>2. mem'[live] = mem[live]
    BY <1>1, <2>1, CollectCarries
  <2>. QED  BY <1>1, <1>2, <1>3, <2>1, <2>2, RuntimeKeepsFile
<1>6. CASE DetectRequests(p)
  <2>1. pc'[p] = "saveReq"
    BY <1>1, <1>6 DEF DetectRequests
  <2>. QED  BY <1>1, <1>2, <2>1, RuntimeKeepsFile DEF NoSaveDue
<1>7. CASE DetectConfirmations(p)
  <2>1. /\ mem'[live] = AfterConfirmations(p) /\ disk' = disk
        /\ pc[p] \notin {"saveReq", "saveConf"}
    BY <1>1, <1>7 DEF DetectConfirmations
  <2>2. CASE AfterConfirmations(p) = mem[p[1]]
    BY <1>1, <1>2, <1>3, <2>1, <2>2, RuntimeKeepsFile
  <2>3. CASE AfterConfirmations(p) # mem[p[1]]
    <3>1. pc'[p] = "saveConf"
      BY <1>1, <1>7, <2>3 DEF DetectConfirmations
    <3>. QED  BY <1>1, <1>2, <3>1, RuntimeKeepsFile DEF NoSaveDue
  <2>. QED  BY <2>2, <2>3
<1>8. CASE SavePoll(p)
  BY <1>1, <1>2, <1>8, RuntimeKeepsFile DEF SavePoll
<1>. QED  BY <1>4, <1>5, <1>6, <1>7, <1>8 DEF Poll

LEMMA ServiceKeepsFile ==
  ASSUME TypeOK, OneGeneration, FileIsCurrent, Service
  PROVE  FileIsCurrent'
<1>1. /\ mem \in [Gen -> [Txn -> Record]] /\ job \in [Callers -> Job]
      /\ pc' = pc /\ live' = live
  BY ServiceKeepsOne DEF TypeOK
<1>2. ASSUME live \in Gen PROVE AtWork(live)' /\ \A p \in Polls : pc'[p] # "loaded"
  BY <1>1, <1>2, SentinelAssumption DEF AtWork, OneGeneration
<1>3. ASSUME NEW c \in Callers, job[c] # Idle PROVE job[c].gen = live /\ live \in Gen
  BY <1>3, WorksAlone, SentinelAssumption DEF OneGeneration
<1>4. CASE mem' = mem /\ disk' = disk /\ job' = job
  BY <1>1, <1>4 DEF FileIsCurrent, NoSaveDue
<1>5. ASSUME NEW t \in Txn, AutomationSends(t) PROVE FileIsCurrent'
  <2>1. live \in Gen /\ mem' = mem /\ disk' = disk /\ job["automation"] = Idle
    BY <1>5, WorksAlone DEF AutomationSends
  <2>2. \A c \in Callers : c # "automation" => job'[c] = job[c]
    BY <1>1, <1>5 DEF AutomationSends, Call
  <2>3. NoSaveDue' => NoSaveDue
    BY <1>1, <2>1, <2>2 DEF NoSaveDue, Idle
  <2>. QED  BY <1>1, <1>2, <2>1, <2>3, RuntimeKeepsFile
<1>6. ASSUME NEW t \in Txn, AutomationRefused(t) PROVE FileIsCurrent'
  BY <1>4, <1>6 DEF AutomationRefused
<1>7. ASSUME NEW t \in Txn, ProviderMarks(t) PROVE FileIsCurrent'
  <2>1. live \in Gen /\ "provider" \in Callers /\ job'["provider"].step = "save"
    BY <1>1, <1>7, WorksAlone DEF ProviderMarks, Call
  <2>. QED  BY <1>1, <1>2, <2>1, RuntimeKeepsFile DEF NoSaveDue
<1>8. ASSUME NEW c \in Callers, SendDelivered(c) \/ SendFails(c)
      PROVE  FileIsCurrent'
  <2>1. job[c].step # "save" /\ job[c] # Idle /\ disk' = disk
    BY <1>8 DEF SendDelivered, SendFails, Idle
  <2>2. live \in Gen
    BY <1>3, <2>1
  <2>3. mem' = mem \/ mem' = Collect(mem, live', pc', job')
    BY <1>1, <1>8 DEF SendDelivered, SendFails
  <2>4. mem'[live] = mem[live]
    BY <1>2, <2>2, <2>3, CollectCarries, <1>1
  <2>5. \A d \in Callers : d # c => job'[d] = job[d]
    BY <1>1, <1>8 DEF SendDelivered, SendFails
  <2>6. NoSaveDue' => NoSaveDue
    BY <1>1, <2>1, <2>5 DEF NoSaveDue
  <2>. QED  BY <1>1, <1>2, <2>1, <2>2, <2>4, <2>6, RuntimeKeepsFile
<1>9. ASSUME NEW c \in Callers, MarkSent(c) PROVE FileIsCurrent'
  <2>1. live \in Gen
    BY <1>3, <1>9 DEF MarkSent, Idle
  <2>2. job'[c].step = "save"
    BY <1>1, <1>9 DEF MarkSent, Job
  <2>. QED  BY <1>1, <1>2, <2>1, <2>2, RuntimeKeepsFile DEF NoSaveDue
<1>10. ASSUME NEW c \in Callers, SaveMark(c) PROVE FileIsCurrent'
  <2>1. job[c].gen = live /\ live \in Gen
    BY <1>3, <1>10 DEF SaveMark, Idle
  <2>2. mem' = Collect(mem, live', pc', job') /\ disk' = mem[live]
    BY <1>1, <1>10, <2>1 DEF SaveMark
  <2>3. mem'[live] = mem[live]
    BY <1>2, <2>1, <2>2, CollectCarries, <1>1
  <2>. QED  BY <1>1, <1>2, <2>1, <2>2, <2>3, RuntimeKeepsFile
<1>. QED  BY <1>5, <1>6, <1>7, <1>8, <1>9, <1>10 DEF Service

LEMMA NextKeepsFile ==
  ASSUME Faults = {}, TypeOK, OneGeneration, FileIsCurrent, [Next]_vars
  PROVE  FileIsCurrent'
<1>1. CASE Restart
  BY <1>1, SentinelAssumption DEF Restart, FileIsCurrent
<1>2. ASSUME NEW t \in Txn, Transact(t) PROVE FileIsCurrent'
  BY <1>2 DEF Transact, FileIsCurrent, NoSaveDue, entryVars, serviceVars
<1>3. CASE UNCHANGED vars
  BY <1>3 DEF vars, FileIsCurrent, NoSaveDue
<1>. QED  BY <1>1, <1>2, <1>3, SetupKeepsFile, RefreshKeepsFile, PollKeepsFile, ServiceKeepsFile
          DEF Next

\* A generation that ends has saved its dictionary.
LEMMA EndsSaved ==
  ASSUME Faults = {}, TypeOK, OneGeneration, FileIsCurrent, [Next]_vars,
         NEW g \in Gen, AtWork(g), \A h \in Gen : ~AtWork(h)'
  PROVE  mem[g] = disk
<1>1. ASSUME live = g, \A p \in Polls : pc[p] \notin {"saveReq", "saveConf"},
             \A c \in Callers : job[c] = Idle
      PROVE  mem[g] = disk
  BY <1>1 DEF FileIsCurrent, NoSaveDue, Idle
<1>2. ASSUME NEW h \in Gen, Setup(h) PROVE mem[g] = disk
  <2>1. CASE AuthenticationFails(h)
    <3>1. pc[First(h)] = "loaded" /\ First(h) \in Polls /\ First(h)[1] = h
      BY <2>1, PollsType DEF AuthenticationFails
    <3>2. g = h
      BY <3>1, WorksAlone
    <3>. QED  BY <3>1, <3>2 DEF FileIsCurrent
  <2>2. CASE SetupFails(h) \/ SetupCancelled(h) \/ UnloadAndStop(h)
    <3>1. live = h /\ \A c \in Callers : job[c] = Idle
      BY <2>2, WithdrawalEnds
    <3>2. h = g
      BY <3>1, WorksAlone, SentinelAssumption
    <3>3. pc[First(h)] \in {"none", "fetch", "rest"} /\ pc[Later(h)] = "none"
      BY <2>2 DEF SetupFails, SetupCancelled, UnloadAndStop, NoPollLeftBehind, OneGeneration
    <3>4. \A p \in Polls : pc[p] \in {"saveReq", "saveConf"} => p = First(h) \/ p = Later(h)
      BY <3>1, PollsType DEF OneGeneration, InFlight
    <3>. QED  BY <1>1, <3>1, <3>2, <3>3, <3>4
  <2>3. CASE Load(h) \/ Publish(h)
    <3>1. pc \in [Polls -> Phase] /\ First(h) \in Polls /\ First(h)[1] = h
      BY PollsType DEF TypeOK
    <3>2. pc'[First(h)] # "none"
      BY <2>3, <3>1 DEF Load, Publish
    <3>. QED  BY <3>1, <3>2 DEF AtWork
  <2>. QED  BY <1>2, <2>1, <2>2, <2>3 DEF Setup, UnloadInFlight
<1>3. ASSUME live' = live, live \in Gen PROVE FALSE
  BY <1>3 DEF AtWork
<1>4. ASSUME NEW h \in Gen, StartPoll(h) \/ SaveArchives(h) PROVE FALSE
  <2>1. live' = live /\ live = h
    BY <1>4, PollsType DEF StartPoll, SaveArchives, OneGeneration, InFlight, entryVars
  <2>. QED  BY <1>3, <2>1
<1>5. ASSUME NEW p \in Polls, Poll(p) PROVE FALSE
  BY <1>3, <1>5, PollSteps, PollsType
<1>6. CASE Restart
  <2>1. (\A p \in Polls : pc[p] = "none") /\ \A c \in Callers : job[c] = Idle
    BY <1>6 DEF Restart, AtRest
  <2>. QED  BY <1>1, <2>1 DEF AtWork
<1>7. ASSUME Service \/ UNCHANGED vars \/ \E t \in Txn : Transact(t) PROVE FALSE
  <2>1. pc' = pc /\ live' = live
    BY <1>7, ServiceKeepsOne DEF vars, Transact, entryVars
  <2>. QED  BY <2>1 DEF AtWork
<1>. QED  BY <1>2, <1>4, <1>5, <1>6, <1>7 DEF Next

-----------------------------------------------------------------------------
(* Without any fault and early refresh: each transition is announced once.  *)

LEMMA NextKeepsOnePoll ==
  ASSUME "overlap" \notin Faults, ~EarlyRefresh, TypeOK, OneGeneration, OnePoll, [Next]_vars
  PROVE  OnePoll'
<1>1. pc \in [Polls -> Phase]
  BY DEF TypeOK
<1>2. ASSUME \A p \in Polls : pc'[p] # "none" => pc[p] # "none" PROVE OnePoll'
  BY <1>2 DEF OnePoll
<1>3. ASSUME NEW r \in Polls, \A p \in Polls : p # r => pc'[p] = "none" PROVE OnePoll'
  BY <1>3 DEF OnePoll
<1>4. ASSUME NEW g \in Gen, Setup(g) PROVE OnePoll'
  <2>. First(g) \in Polls
    BY PollsType
  <2>1. CASE Load(g)
    <3>1. \A p \in Polls : pc[p] = "none"
      BY <2>1, WorksAlone, PollsType DEF Load, SettingUp, OneGeneration
    <3>. QED  BY <1>1, <1>3, <2>1, <3>1 DEF Load
  <2>2. CASE AuthenticationFails(g) \/ Publish(g)
    BY <1>1, <1>2, <2>2 DEF AuthenticationFails, Publish
  <2>3. CASE SetupFails(g) \/ SetupCancelled(g) \/ UnloadAndStop(g)
    BY <1>2, <2>3, WithdrawalEnds
  <2>. QED  BY <1>4, <2>1, <2>2, <2>3 DEF Setup, UnloadInFlight
<1>5. ASSUME NEW g \in Gen, StartPoll(g) PROVE OnePoll'
  <2>1. live = g /\ ready /\ Later(g) \in Polls
    BY <1>5, PollsType DEF StartPoll
  <2>2. ASSUME NEW p \in Polls, pc[p] # "none" PROVE p = Later(g)
    <3>1. p[1] = g
      BY <2>1, <2>2, WorksAlone
    <3>. QED  BY <2>1, <2>2, <3>1, PollsType DEF OneGeneration
  <2>. QED  BY <1>1, <1>3, <1>5, <2>1, <2>2 DEF StartPoll
<1>6. ASSUME NEW p \in Polls, Poll(p) PROVE OnePoll'
  BY <1>2, <1>6, PollSteps DEF InFlight
<1>7. CASE Restart
  BY <1>2, <1>7 DEF Restart
<1>8. ASSUME UNCHANGED pc PROVE OnePoll'
  BY <1>8 DEF OnePoll
<1>. QED  BY <1>4, <1>5, <1>6, <1>7, <1>8, ServiceKeepsOne DEF Next, vars, Transact, SaveArchives

\* A poll that is alone is the work of the only generation.
LEMMA PollAlone ==
  ASSUME TypeOK, OneGeneration, OnePoll, NEW p \in Polls, Poll(p)
  PROVE  /\ p[1] \in Gen /\ AtWork(p[1])
         /\ \A g \in Gen : AtWork(g)' => g = p[1]
         /\ AtWork(p[1])'
         /\ \A q \in Polls : pc'[q] # "none" => q = p
<1>1. p[1] \in Gen /\ live = p[1] /\ live' = live /\ pc[p] # "none"
  BY PollSteps, PollsType DEF InFlight
<1>2. \A q \in Polls : pc'[q] # "none" => q = p
  BY <1>1, PollSteps DEF OnePoll
<1>. QED  BY <1>1, <1>2 DEF AtWork

Comparing == {"detect", "saveReq", "conf"}

\* A step that carries leaves a poll before its detections as it is, or gives
\* it a list.
LEMMA ListsCarried ==
  ASSUME "overlap" \notin Faults, TypeOK, OneGeneration, [Next]_vars,
         NEW p \in Polls, ~DetectRequests(p), ~DetectConfirmations(p), pc'[p] \in Comparing
  PROVE  \/ pc[p] \in Comparing /\ snap'[p] = snap[p]
         \/ /\ AtWork(p[1]) /\ mem'[p[1]] = mem[p[1]]
            /\ \A t \in Txn : snap'[p][t] = Len(hist[t])
<1>. USE DEF Comparing
<1>1. pc \in [Polls -> Phase] /\ snap \in [Polls -> [Txn -> At]]
  BY DEF TypeOK
<1>2. ASSUME NEW h \in Gen, Setup(h)
      PROVE  pc[p] \in Comparing /\ snap'[p] = snap[p]
  <2>1. CASE Load(h) \/ AuthenticationFails(h) \/ Publish(h)
    BY <1>1, <2>1 DEF Load, AuthenticationFails, Publish
  <2>2. CASE SetupFails(h) \/ SetupCancelled(h) \/ UnloadAndStop(h)
    <3>1. pc'[p] = "none"
      BY <2>2, WithdrawalEnds
    <3>. QED  BY <3>1
  <2>. QED  BY <1>2, <2>1, <2>2 DEF Setup, UnloadInFlight
<1>3. ASSUME NEW h \in Gen, StartPoll(h) \/ SaveArchives(h)
      PROVE  pc[p] \in Comparing /\ snap'[p] = snap[p]
  BY <1>1, <1>3 DEF StartPoll, SaveArchives
<1>4. ASSUME NEW q \in Polls, Poll(q)
      PROVE  \/ pc[p] \in Comparing /\ snap'[p] = snap[p]
             \/ /\ AtWork(p[1]) /\ mem'[p[1]] = mem[p[1]]
                /\ \A t \in Txn : snap'[p][t] = Len(hist[t])
  <2>1. CASE q # p
    BY <1>4, <2>1, PollSteps
  <2>2. CASE q = p /\ FetchSucceeds(p)
    BY <1>1, <2>2, PollsType DEF FetchSucceeds, AtWork
  <2>3. CASE q = p /\ (FetchFails(p) \/ FinishPoll(p))
    BY <1>1, <2>3 DEF FetchFails, FinishPoll, EndPoll
  <2>4. CASE q = p /\ SavePoll(p)
    BY <1>1, <2>4 DEF SavePoll
  <2>. QED  BY <1>4, <2>1, <2>2, <2>3, <2>4 DEF Poll
<1>5. CASE Restart
  BY <1>5 DEF Restart
<1>6. CASE Service
  BY <1>6 DEF Service, AutomationSends, AutomationRefused, ProviderMarks, SendDelivered,
              SendFails, MarkSent, SaveMark
<1>7. CASE UNCHANGED vars \/ \E t \in Txn : Transact(t)
  BY <1>7 DEF vars, Transact
<1>. QED  BY <1>2, <1>3, <1>4, <1>5, <1>6, <1>7 DEF Next

\* what an entry has to say
Sound(r, t) == Remembers(r, t) /\ Behind(r, t)

LEMMA MarkSound ==
  ASSUME NEW r \in Record, NEW t \in Txn, Sound(r, t)
  PROVE  Sound(AfterMark(r), t) /\ AfterMark(r).at = r.at
<1>1. /\ AfterMark(r).at = r.at /\ AfterMark(r).reqFired = r.reqFired
      /\ r.tr = "confirmed" => AfterMark(r).tr = "confirmed"
  BY DEF AfterMark, Record
<1>. QED BY <1>1 DEF Sound, Remembers, Behind

LEMMA CarryingKeepsOnce ==
  ASSUME Faults = {}, TypeOK, OneGeneration, FileIsCurrent, [Next]_vars, Carrying,
         \A p \in Polls : ~DetectRequests(p) /\ ~DetectConfirmations(p),
         NothingForgotten, ListIsNewer, EventsAreTrue, AnnouncedOnce
  PROVE  NothingForgotten' /\ ListIsNewer' /\ EventsAreTrue' /\ AnnouncedOnce'
<1>1. UNCHANGED <<hist, reqEvents, confEvents>>
  BY DEF Carrying, eventVars
<1>2. \A g \in Gen, t \in Txn : mem[g][t] \in Record
  BY DEF TypeOK
<1>3. ASSUME NEW g \in Gen, Carried(g), NEW t \in Txn
      PROVE  Sound(mem'[g][t], t) /\ mem'[g][t].at = mem[g][t].at
  BY <1>2, <1>3, MarkSound DEF Carried, NothingForgotten, Sound
<1>4. ASSUME NEW g \in Gen, AtWork(g)', NEW t \in Txn
      PROVE  Sound(mem'[g][t], t)
  <2>1. CASE Carried(g)
    BY <1>3, <2>1 DEF Carried
  <2>2. CASE Loaded(g)
    BY <2>2 DEF Loaded, NothingForgotten, Sound
  <2>. QED BY <1>4, <2>1, <2>2 DEF Carrying
<1>5. ASSUME \A g \in Gen : ~AtWork(g)', NEW t \in Txn
      PROVE  Sound(disk'[t], t)
  <2>1. disk' = disk
    BY <1>5 DEF Carrying, Saved
  <2>2. CASE \A g \in Gen : ~AtWork(g)
    BY <2>1, <2>2 DEF NothingForgotten, Sound
  <2>3. ASSUME NEW g \in Gen, AtWork(g) PROVE Sound(disk[t], t)
    <3>1. mem[g] = disk
      BY <1>5, <2>3, EndsSaved
    <3>. QED BY <2>3, <3>1 DEF NothingForgotten, Sound
  <2>. QED BY <2>1, <2>2, <2>3
<1>6. NothingForgotten'
  BY <1>1, <1>4, <1>5 DEF NothingForgotten, Sound, Remembers, Behind
<1>7. ASSUME NEW p \in Polls, pc'[p] \in Comparing, NEW t \in Txn
      PROVE  mem'[p[1]][t].at <= snap'[p][t]
  <2>1. p[1] \in Gen /\ AtWork(p[1])'
    BY <1>7, PollsType DEF Comparing, AtWork
  <2>2. CASE pc[p] \in Comparing /\ snap'[p] = snap[p]
    <3>1. AtWork(p[1])
      BY <2>1, <2>2 DEF AtWork, Comparing
    <3>2. Carried(p[1])
      BY <2>1, <3>1 DEF Carrying, Loaded
    <3>3. mem'[p[1]][t].at = mem[p[1]][t].at /\ mem[p[1]][t].at <= snap[p][t]
      BY <1>3, <2>1, <2>2, <3>2 DEF ListIsNewer, Comparing
    <3>. QED  BY <2>2, <3>3
  <2>3. CASE /\ AtWork(p[1]) /\ mem'[p[1]] = mem[p[1]]
             /\ \A u \in Txn : snap'[p][u] = Len(hist[u])
    BY <2>1, <2>3 DEF NothingForgotten, Behind
  <2>. QED  BY <1>7, <2>2, <2>3, ListsCarried
<1>8. ListIsNewer'
  BY <1>7 DEF ListIsNewer, Comparing
<1>9. EventsAreTrue' /\ AnnouncedOnce'
  BY <1>1 DEF EventsAreTrue, AnnouncedOnce
<1>. QED BY <1>6, <1>8, <1>9

LEMMA TransactKeepsOnce ==
  ASSUME TypeOK, NEW t \in Txn, Transact(t),
         NothingForgotten, ListIsNewer, EventsAreTrue, AnnouncedOnce
  PROVE  NothingForgotten' /\ ListIsNewer' /\ EventsAreTrue' /\ AnnouncedOnce'
<1>1. UNCHANGED <<disk, mem, pc, snap, live, reqEvents, confEvents>>
  BY DEF Transact, entryVars, eventVars
<1>2. /\ hist' \in [Txn -> Seq(Transition)] /\ hist \in [Txn -> Seq(Transition)]
      /\ \A u \in Txn : Len(hist[u]) <= Len(hist'[u])
      /\ \A u \in Txn : \A a \in 1 .. Len(hist[u]) : hist'[u][a] = hist[u][a]
  BY TransactKeeps DEF TypeOK
<1>3. \A u \in Txn : Len(hist[u]) \in Nat /\ Len(hist'[u]) \in Nat
  BY <1>2
<1>4. NothingForgotten'
  <2>1. /\ disk \in [Txn -> Record] /\ mem \in [Gen -> [Txn -> Record]]
        /\ disk' = disk /\ mem' = mem
        /\ \A g \in Gen : AtWork(g)' <=> AtWork(g)
    BY <1>1 DEF TypeOK, AtWork
  <2>2. ASSUME NEW g \in Gen, NEW u \in Txn, AtWork(g)'
        PROVE  Remembers(mem[g][u], u)' /\ Behind(mem[g][u], u)'
    BY <1>1, <1>2, <1>3, <2>1, <2>2, BoundsAssumption
    DEF NothingForgotten, Remembers, Behind, Record, At
  <2>3. ASSUME \A g \in Gen : ~AtWork(g)', NEW u \in Txn
        PROVE  Remembers(disk[u], u)' /\ Behind(disk[u], u)'
    BY <1>1, <1>2, <1>3, <2>1, <2>3, BoundsAssumption
    DEF NothingForgotten, Remembers, Behind, Record, At
  <2>. QED BY <2>2, <2>3 DEF NothingForgotten
<1>5. EventsAreTrue'
  <2>. SUFFICES ASSUME NEW u \in Txn, NEW a \in 1 .. MaxAt, a <= Len(hist[u])
                PROVE  a <= Len(hist'[u]) /\ hist'[u][a] = hist[u][a]
    BY <1>1 DEF EventsAreTrue
  <2>1. a \in 1 .. Len(hist[u])
    BY <1>3, BoundsAssumption
  <2>. QED BY <1>2, <1>3, <2>1
<1>6. ListIsNewer' /\ AnnouncedOnce'
  BY <1>1 DEF ListIsNewer, AnnouncedOnce
<1>. QED BY <1>4, <1>5, <1>6

\* A detection fires once what had not been fired, and nothing else.
LEMMA FiredOnce ==
  ASSUME NEW e \in [Txn -> [1 .. MaxAt -> 0 .. MaxCount]], NEW p \in Polls, NEW T,
         NEW t \in Txn, NEW a \in 1 .. MaxAt
  PROVE  /\ t \in T /\ a = snap[p][t] /\ ~(e[t][a] > 0) => Fired(e, p, T)[t][a] = 1
         /\ ~(t \in T /\ a = snap[p][t]) => Fired(e, p, T)[t][a] = e[t][a]
<1>1. e[t][a] \in 0 .. MaxCount
  OBVIOUS
<1>2. Capped(0) = 1
  BY BoundsAssumption DEF Capped
<1>. QED BY <1>1, <1>2, BoundsAssumption DEF Fired

LEMMA ComparedEntry ==
  ASSUME TypeOK, NothingForgotten, ListIsNewer, NEW p \in Polls, pc[p] \in Comparing,
         NEW t \in Txn
  PROVE  /\ mem[p[1]][t] \in Record /\ mem[p[1]][t].at <= snap[p][t]
         /\ Sound(mem[p[1]][t], t)
<1>1. p[1] \in Gen /\ AtWork(p[1])
  BY PollsType DEF AtWork, Comparing
<1>. QED  BY <1>1 DEF TypeOK, ListIsNewer, NothingForgotten, Sound, Comparing

\* what is known of a transaction that a poll compares with its entry
LEMMA Compared ==
  ASSUME TypeOK, NothingForgotten, ListIsNewer, NEW p \in Polls, pc[p] \in Comparing,
         NEW t \in Listed(p)
  PROVE  /\ t \in Txn /\ snap[p][t] \in 1 .. MaxAt /\ Seen(p, t) = hist[t][snap[p][t]]
         /\ mem[p[1]][t] \in Record /\ mem[p[1]][t].at \in Nat /\ mem[p[1]][t].at <= snap[p][t]
         /\ snap[p][t] <= Len(hist[t]) /\ Sound(mem[p[1]][t], t)
<1>1. t \in Txn /\ snap[p][t] \in 1 .. MaxAt
  BY SeenType
<1>2. mem[p[1]][t] \in Record /\ mem[p[1]][t].at \in Nat /\ snap[p][t] <= Len(hist[t])
  <2>1. mem[p[1]][t] \in Record
    BY <1>1, ComparedEntry
  <2>2. mem[p[1]][t].at \in Nat
    BY <2>1, BoundsAssumption DEF Record, At
  <2>. QED  BY <1>1, <2>1, <2>2 DEF TypeOK
<1>3. mem[p[1]][t].at <= snap[p][t] /\ Sound(mem[p[1]][t], t)
  BY <1>1, ComparedEntry
<1>. QED BY <1>1, <1>2, <1>3 DEF Seen

LEMMA RequestsKeepOnce ==
  ASSUME TypeOK, OneGeneration, OnePoll, NothingForgotten, ListIsNewer, EventsAreTrue, AnnouncedOnce,
         NEW p \in Polls, DetectRequests(p)
  PROVE  NothingForgotten' /\ ListIsNewer' /\ EventsAreTrue' /\ AnnouncedOnce'
<1>1. /\ UNCHANGED <<hist, snap, confEvents>> /\ pc[p] \in Comparing /\ pc'[p] = "saveReq"
      /\ reqEvents' = Fired(reqEvents, p, Requests(p))
      /\ mem'[p[1]] = AfterRequests(p)
  BY PollsType DEF DetectRequests, Comparing, TypeOK
<1>2. /\ \A g \in Gen : AtWork(g)' => g = p[1]
      /\ p[1] \in Gen /\ AtWork(p[1]) /\ AtWork(p[1])'
      /\ \A q \in Polls : pc'[q] # "none" => q = p
  BY PollAlone DEF Poll
<1>3. reqEvents \in [Txn -> [1 .. MaxAt -> 0 .. MaxCount]] /\ Requests(p) \in SUBSET Listed(p)
  BY DEF TypeOK, Requests
<1>4. \A t \in Requests(p) : /\ Seen(p, t) = "request"
                             /\ ~(mem[p[1]][t].reqFired /\ mem[p[1]][t].at = snap[p][t])
  BY DEF Requests, IsNewRequest
<1>5. \A t \in Requests(p) : ~(reqEvents[t][snap[p][t]] > 0)
  BY <1>1, <1>3, <1>4, Compared DEF Sound, Remembers
<1>6. AnnouncedOnce'
  BY <1>1, <1>3, <1>5, FiredOnce DEF AnnouncedOnce
<1>7. ASSUME NEW t \in Txn, NEW a \in 1 .. MaxAt, reqEvents'[t][a] > 0
      PROVE  reqEvents[t][a] > 0 \/ (t \in Requests(p) /\ a = snap[p][t])
  BY <1>1, <1>3, <1>7, FiredOnce
<1>8. EventsAreTrue'
  BY <1>1, <1>3, <1>4, <1>7, Compared DEF EventsAreTrue
<1>9. ASSUME NEW t \in Txn
      PROVE  Sound(mem[p[1]][t], t)' /\ mem'[p[1]][t].at <= snap[p][t]
  <2>1. CASE t \notin Requests(p)
    <3>1. mem'[p[1]][t] = mem[p[1]][t]
      BY <1>1, <2>1 DEF AfterRequests
    <3>2. \A a \in 1 .. MaxAt : reqEvents'[t][a] = reqEvents[t][a]
      BY <1>1, <1>3, <2>1, FiredOnce
    <3>3. Sound(mem[p[1]][t], t) /\ mem[p[1]][t].at <= snap[p][t]
      BY <1>1, ComparedEntry
    <3>. QED BY <1>1, <3>1, <3>2, <3>3 DEF Sound, Remembers, Behind
  <2>2. CASE t \in Requests(p)
    <3>. DEFINE r == mem[p[1]][t]
                b == snap[p][t]
    <3>1. /\ b \in 1 .. MaxAt /\ hist[t][b] = "request" /\ b <= Len(hist[t])
          /\ r \in Record /\ r.at \in Nat /\ r.at <= b /\ Sound(r, t)
      BY <1>1, <1>3, <1>4, <2>2, Compared
    <3>2. mem'[p[1]][t] = AfterRequest(r, Seen(p, t), b)
      BY <1>1, <2>2 DEF AfterRequests
    <3>3. mem'[p[1]][t].at = b /\ mem'[p[1]][t].reqFired
      BY <3>1, <3>2 DEF AfterRequest, Record
    <3>4. ASSUME NEW a \in 1 .. MaxAt, confEvents[t][a] > 0 PROVE b > a
      <4>1. a <= r.at /\ hist[t][a] = "confirmed"
        BY <3>1, <3>4 DEF Sound, Remembers, EventsAreTrue
      <4>. QED BY <3>1, <4>1
    <3>5. ASSUME NEW a \in 1 .. MaxAt, reqEvents'[t][a] > 0 PROVE b >= a
      BY <1>7, <3>1, <3>5 DEF Sound, Remembers
    <3>6. Remembers(mem[p[1]][t], t)'
      BY <1>1, <3>1, <3>3, <3>4, <3>5 DEF Remembers
    <3>. QED BY <1>1, <3>1, <3>3, <3>6 DEF Sound, Behind
  <2>. QED BY <2>1, <2>2
<1>10. NothingForgotten'
  BY <1>1, <1>2, <1>9 DEF NothingForgotten, Sound
<1>11. ListIsNewer'
  BY <1>1, <1>2, <1>9 DEF ListIsNewer
<1>. QED BY <1>6, <1>8, <1>10, <1>11

LEMMA ConfirmationsKeepOnce ==
  ASSUME TypeOK, OneGeneration, OnePoll, NothingForgotten, ListIsNewer, EventsAreTrue, AnnouncedOnce,
         NEW p \in Polls, DetectConfirmations(p)
  PROVE  NothingForgotten' /\ ListIsNewer' /\ EventsAreTrue' /\ AnnouncedOnce'
<1>1. /\ UNCHANGED <<hist, snap, reqEvents>> /\ pc[p] \in Comparing
      /\ pc'[p] \in {"rest", "saveConf"}
      /\ confEvents' = Fired(confEvents, p, Confirmations(p))
      /\ mem'[p[1]] = AfterConfirmations(p)
  BY PollsType DEF DetectConfirmations, Comparing, TypeOK
<1>2. /\ \A g \in Gen : AtWork(g)' => g = p[1]
      /\ p[1] \in Gen /\ AtWork(p[1]) /\ AtWork(p[1])'
      /\ \A q \in Polls : pc'[q] # "none" => q = p
  BY PollAlone DEF Poll
<1>3. /\ confEvents \in [Txn -> [1 .. MaxAt -> 0 .. MaxCount]]
      /\ Confirmations(p) \in SUBSET Listed(p)
  BY DEF TypeOK, Confirmations
<1>4. \A t \in Confirmations(p) :
        /\ Seen(p, t) = "confirmed"
        /\ IsNewConfirmation(mem[p[1]][t], Seen(p, t), snap[p][t])
        /\ ~(mem[p[1]][t].at = snap[p][t] /\ mem[p[1]][t].tr = "confirmed")
  BY DEF Confirmations, FiresConfirmation, IsNewConfirmation
<1>5. \A t \in Confirmations(p) : ~(confEvents[t][snap[p][t]] > 0)
  BY <1>1, <1>3, <1>4, Compared DEF Sound, Remembers
<1>6. AnnouncedOnce'
  BY <1>1, <1>3, <1>5, FiredOnce DEF AnnouncedOnce
<1>7. ASSUME NEW t \in Txn, NEW a \in 1 .. MaxAt, confEvents'[t][a] > 0
      PROVE  confEvents[t][a] > 0 \/ (t \in Confirmations(p) /\ a = snap[p][t])
  BY <1>1, <1>3, <1>7, FiredOnce
<1>8. EventsAreTrue'
  BY <1>1, <1>3, <1>4, <1>7, Compared DEF EventsAreTrue
<1>9. ASSUME NEW t \in Txn
      PROVE  Sound(mem[p[1]][t], t)'
  <2>1. CASE t \notin Listed(p)
    <3>1. mem'[p[1]][t] = mem[p[1]][t]
      BY <1>1, <2>1 DEF AfterConfirmations
    <3>2. \A a \in 1 .. MaxAt : confEvents'[t][a] = confEvents[t][a]
      BY <1>1, <1>3, <2>1, FiredOnce
    <3>3. Sound(mem[p[1]][t], t)
      BY <1>1, ComparedEntry
    <3>. QED BY <1>1, <3>1, <3>2, <3>3 DEF Sound, Remembers, Behind
  <2>2. CASE t \in Listed(p)
    <3>. DEFINE r == mem[p[1]][t]
                b == snap[p][t]
                s == mem'[p[1]][t]
    <3>1. /\ b \in 1 .. MaxAt /\ Seen(p, t) = hist[t][b] /\ b <= Len(hist[t])
          /\ r \in Record /\ r.at \in Nat /\ r.at <= b /\ Sound(r, t)
      BY <1>1, <2>2, Compared
    <3>2. s = AfterConfirmation(r, Seen(p, t), b)
      BY <1>1, <2>2 DEF AfterConfirmations
    <3>3. ASSUME NEW a \in 1 .. MaxAt, confEvents'[t][a] > 0
          PROVE  b > a \/ (a = b /\ hist[t][b] = "confirmed")
      <4>1. CASE confEvents[t][a] > 0
        BY <3>1, <4>1 DEF Sound, Remembers, EventsAreTrue
      <4>2. CASE t \in Confirmations(p) /\ a = b
        BY <1>4, <3>1, <4>2
      <4>. QED BY <1>7, <3>3, <4>1, <4>2
    <3>4. ASSUME NEW a \in 1 .. MaxAt, reqEvents[t][a] > 0
          PROVE  b > a \/ (a = b /\ r.at = b /\ r.reqFired /\ hist[t][b] = "request")
      BY <3>1, <3>4 DEF Sound, Remembers, EventsAreTrue
    <3>5. CASE IsNewConfirmation(r, Seen(p, t), b)
      <4>1. s.at = b /\ s.tr = "confirmed" /\ hist[t][b] = "confirmed"
        BY <3>1, <3>2, <3>5 DEF AfterConfirmation, IsNewConfirmation
      <4>. QED BY <1>1, <3>1, <3>3, <3>4, <4>1 DEF Sound, Remembers, Behind
    <3>6. CASE /\ ~IsNewConfirmation(r, Seen(p, t), b)
               /\ Seen(p, t) # "confirmed" /\ (r.tr = "absent" \/ r.at # b)
      <4>1. s.at = b /\ s.reqFired = r.reqFired /\ hist[t][b] # "confirmed"
        BY <3>1, <3>2, <3>6 DEF AfterConfirmation, Record
      <4>. QED BY <1>1, <3>1, <3>3, <3>4, <4>1 DEF Sound, Remembers, Behind
    <3>7. CASE /\ ~IsNewConfirmation(r, Seen(p, t), b)
               /\ ~(Seen(p, t) # "confirmed" /\ (r.tr = "absent" \/ r.at # b))
      <4>1. s = r
        BY <3>2, <3>7 DEF AfterConfirmation
      <4>2. \A a \in 1 .. MaxAt : confEvents'[t][a] = confEvents[t][a]
        BY <1>1, <1>3, <1>4, <3>7, FiredOnce
      <4>. QED BY <1>1, <3>1, <4>1, <4>2 DEF Sound, Remembers, Behind
    <3>. QED BY <3>5, <3>6, <3>7
  <2>. QED BY <2>1, <2>2
<1>10. NothingForgotten'
  BY <1>1, <1>2, <1>9 DEF NothingForgotten, Sound
<1>11. ListIsNewer'
  BY <1>1, <1>2 DEF ListIsNewer
<1>. QED BY <1>6, <1>8, <1>10, <1>11

LEMMA OnceInvInit == Init => OnceInv
<1>. SUFFICES ASSUME Init PROVE OnceInv
  OBVIOUS
<1>1. \A t \in Txn, a \in 1 .. MaxAt : confEvents[t][a] = 0 /\ reqEvents[t][a] = 0
  BY DEF Init
<1>2. \A t \in Txn : disk[t].at = 0 /\ Len(hist[t]) \in Nat
  BY InitTypeOK DEF TypeOK, Init, Absent, MigratedRecord
<1>3. (\A p \in Polls : pc[p] = "none") /\ live \notin Gen /\ \A g \in Gen : ~AtWork(g)
  BY SentinelAssumption DEF Init, AtWork
<1>4. OnePoll /\ FileIsCurrent /\ ListIsNewer
  BY <1>3 DEF OnePoll, FileIsCurrent, ListIsNewer
<1>5. NothingForgotten
  BY <1>1, <1>2, <1>3 DEF NothingForgotten, Remembers, Behind
<1>6. EventsAreTrue /\ AnnouncedOnce
  BY <1>1 DEF EventsAreTrue, AnnouncedOnce
<1>. QED  BY <1>4, <1>5, <1>6 DEF OnceInv

LEMMA OnceInvNext == TypeOK /\ MarkInv /\ OnceInv /\ [Next]_vars => OnceInv'
<1>. SUFFICES ASSUME Faults = {}, ~EarlyRefresh, TypeOK, OneGeneration, OnePoll, FileIsCurrent,
                     NothingForgotten, ListIsNewer, EventsAreTrue, AnnouncedOnce, [Next]_vars
              PROVE  OnceInv'
  BY DEF MarkInv, OnceInv
<1>1. FileIsCurrent' /\ OnePoll'
  BY NextKeepsFile, NextKeepsOnePoll
<1>2. NothingForgotten' /\ ListIsNewer' /\ EventsAreTrue' /\ AnnouncedOnce'
  BY StepCarries, CarryingKeepsOnce, TransactKeepsOnce, RequestsKeepOnce, ConfirmationsKeepOnce
<1>. QED  BY <1>1, <1>2 DEF OnceInv

\* Without faults, and as long as nobody requests a refresh during the first one
\* of a setup, every transition is announced at most once, across any number of
\* polls, marks, clean restarts and reloads, and after a migrated store.
THEOREM NeverTwice ==
  ASSUME Faults = {}, ~EarlyRefresh
  PROVE  Spec => []AnnouncedOnce
<1>1. OnceInv => AnnouncedOnce
  BY DEF OnceInv
<1>. QED  BY <1>1, TypeCorrect, MarkInvInit, MarkInvNext, OnceInvInit, OnceInvNext, PTL DEF Spec
=============================================================================
