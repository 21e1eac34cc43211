------------------------ MODULE EntryLifetime_proofs -------------------------
(***************************************************************************)
(* Proofs about EntryLifetime, for any bookings, customers, generations    *)
(* and platforms: its steps are steps of SetupLifecycle, whose theorems    *)
(* therefore hold of it, and what the customer history's file, dictionary  *)
(* and attribute hold at each step.                                        *)
(***************************************************************************)
EXTENDS EntryLifetime, SetupLifecycle_proofs

\* the current generation has taken the archive from the file
IsBuilt == step \notin {"out", "load", "adopt", "drop"}

\* dictionary and attribute are the same, and without the opt-in a generation
\* whose poll has merged holds no contact data
Agrees(r) ==
  /\ r.stored = r.shown
  /\ (r.polled \/ \E s \in Slot : r.poll[s] \in {"save", "rest"}) /\ ~r.opt.sensitive =>
       ~Private(r.stored)

HeldAgree == \A g \in Gen : Agrees(held[g])

\* there is a generation as long as the entry is not out, and it has nothing
\* under way before it is built
CurrentAccounted ==
  /\ current = NoGen <=> step = "out"
  /\ current # NoGen /\ ~IsBuilt => ~Busy(held[current])

\* no save of r is outstanding
NothingToSave(r) == ~r.clearing /\ \A s \in Slot : r.poll[s] # "save"

\* the file is the current generation's, unless a rollback cut a save short,
\* another generation wrote it, or a save is outstanding
FileAccounted ==
  IsBuilt /\ step # "unwind" /\ ~stale /\ NothingToSave(held[current]) =>
    disk = held[current].stored

\* what came to stay is in the file, and in the dictionary that may be the next
\* to be written there
KeptAccounted ==
  /\ kept \subseteq disk.txns
  /\ IsBuilt => kept \subseteq held[current].stored.txns

HistoryInv ==
  /\ HistoryTypeOK
  /\ HeldAgree
  /\ CurrentAccounted
  /\ FileAccounted
  /\ KeptAccounted

-----------------------------------------------------------------------------
(* The composition's steps are SetupLifecycle's.                            *)

LEMMA StepMaps == [EntryNext]_entryVars => [Next]_vars
<1> SUFFICES ASSUME [EntryNext]_entryVars
             PROVE  Next \/ UNCHANGED vars
    OBVIOUS
<1>1. CASE Begin
  BY <1>1 DEF Begin, Next, Setup
<1>2. CASE Advance
  <2>1. CASE Load \/ Adopt \/ DropLegacy \/ Abandon
    BY <2>1 DEF Load, Adopt, DropLegacy, Abandon, Next, Setup
  <2>2. CASE PublishRuntime \/ FirstRefreshEnds \/ Fail
    BY <2>2 DEF PublishRuntime, FirstRefreshEnds, Fail, Next, Setup
  <2>3. CASE FirstPoll
    BY <2>3 DEF FirstPoll, ListArrives, PollSaves, PollFinishes, Next
  <2>4. CASE Platform
    BY <2>4 DEF Platform, Next, Setup, Unload
  <2>5. CASE Remove \/ AbandonUnload
    BY <2>5 DEF Remove, AbandonUnload, Next, Setup, Unload
  <2>. QED BY <1>2, <2>1, <2>2, <2>3, <2>4, <2>5 DEF Advance
<1>3. CASE StartUnload \/ Stop
  BY <1>3 DEF StartUnload, Stop, Next, Unload
<1>4. CASE StartLaterPoll \/ ClearHistory
  BY <1>4 DEF StartLaterPoll, ClearHistory
<1>5. CASE \E g \in Gen : Work(g)
  BY <1>5 DEF Work, ListArrives, LaterPollFails, PollSaves, PollFinishes,
              ClearSaves, SaveOthers, Next
<1>6. CASE UNCHANGED entryVars
  BY <1>6 DEF entryVars
<1>. QED BY <1>1, <1>2, <1>3, <1>4, <1>5, <1>6 DEF EntryNext

\* With its polls, services and saves an entry is still set up and unloaded as
\* SetupLifecycle says.
THEOREM Simulates == EntrySpec => Spec
<1>1. EntryInit => Init
  BY DEF EntryInit
<1>2. [EntryNext]_entryVars => [Next]_vars
  BY StepMaps
<1>. QED BY <1>1, <1>2, PTL DEF EntrySpec, Spec

\* The whole entry, with its polls and saves, comes and goes at once.
THEOREM EntryRefines == EntrySpec => EverythingOrNothing
BY Simulates, Refinement, PTL

\* However the polls run, only platforms that would not unload are left over.
THEOREM EntryStuckRemain == EntrySpec => []OnlyStuckRemain
BY Simulates, StuckRemain, PTL

\* No poll or service writes a file without the old install's data before they
\* have been adopted.
THEOREM EntryAdoption == EntrySpec => AdoptedDataKept
BY Simulates, AdoptionKeepsData, PTL

LEMMA EntryLifecycle == EntrySpec => []LifecycleInv
BY Simulates, Accounted, PTL

-----------------------------------------------------------------------------
(* Archives and what merging, pruning and clearing make of them.            *)

LEMMA CustomersTyped == ASSUME NEW T \in SUBSET Txn PROVE CustomersOf(T) \subseteq Customer
BY HistoryAssumption DEF CustomersOf

\* A merge keeps every booking, and without the opt-in no private value.
LEMMA MergeFacts ==
  ASSUME NEW a \in Archive, NEW L \in SUBSET Txn, NEW sensitive \in BOOLEAN
  PROVE  /\ Merge(a, L, sensitive) \in Archive
         /\ Merge(a, L, sensitive).txns = a.txns \cup L
         /\ ~sensitive => ~Private(Merge(a, L, sensitive))
<1>1. CustomersOf(L) \subseteq Customer
  BY CustomersTyped
<1>. QED BY <1>1 DEF Merge, Archive, Private

\* A pruning keeps what has not exceeded the retention, and adds nothing.
LEMMA PruneFacts ==
  ASSUME NEW a \in Archive, NEW old \in SUBSET Txn, NEW retention
  PROVE  /\ Prune(a, retention, old) \in Archive
         /\ retention = "forever" => Prune(a, retention, old).txns = a.txns
         /\ a.txns \ old \subseteq Prune(a, retention, old).txns
         /\ ~Private(a) => ~Private(Prune(a, retention, old))
BY DEF Prune, Archive, Private

LEMMA ClearedFacts ==
  ASSUME NEW a \in Archive, NEW scope \in Scope
  PROVE  /\ Cleared(a, scope) \in Archive
         /\ scope # "all" => Cleared(a, scope).txns = a.txns
         /\ ~Private(Cleared(a, scope))
<1>1. CASE scope = "all"
  BY <1>1 DEF Cleared, Empty, Archive, Private
<1>2. CASE scope # "all"
  <2>1. Cleared(a, scope) = Merge(a, {}, FALSE)
    BY <1>2 DEF Cleared
  <2>2. /\ Merge(a, {}, FALSE) \in Archive
        /\ Merge(a, {}, FALSE).txns = a.txns \cup {}
        /\ ~Private(Merge(a, {}, FALSE))
    BY MergeFacts
  <2>. QED BY <1>2, <2>1, <2>2
<1>. QED BY <1>1, <1>2

LEMMA GoneFacts == Gone \in Generation /\ Agrees(Gone) /\ ~Busy(Gone)
<1>1. Gone \in Generation
  BY DEF Gone, Generation, Empty, Archive, Unread, Await
<1>2. Agrees(Gone)
  BY DEF Gone, Agrees, Empty, Private
<1>3. ~Busy(Gone)
  BY DEF Gone, Busy
<1>. QED BY <1>1, <1>2, <1>3

\* the fields of a generation
LEMMA Fields ==
  ASSUME NEW r \in Generation
  PROVE  /\ r.stored \in Archive /\ r.shown \in Archive
         /\ r.poll \in [Slot -> Await]
         /\ r.clearing \in BOOLEAN /\ r.polled \in BOOLEAN
BY DEF Generation

LEMMA OptFields ==
  ASSUME NEW r \in Generation
  PROVE  r.opt.sensitive \in BOOLEAN
<1>1. r.opt \in Options \cup {Unread}
  BY DEF Generation
<1>2. CASE r.opt \in Options
  BY <1>2 DEF Options
<1>3. CASE r.opt = Unread
  BY <1>3 DEF Unread
<1>. QED BY <1>1, <1>2, <1>3

LEMMA BecomeFacts ==
  ASSUME held \in [Gen -> Generation], HeldAgree,
         NEW g \in Gen, NEW r \in Generation, Agrees(r), Become(g, r)
  PROVE  /\ held' \in [Gen -> Generation] /\ HeldAgree'
         /\ \A h \in Gen : h # g => held'[h] = held[h]
         /\ g = current => held'[g] = r
<1> DEFINE q == IF g = current \/ Busy(r) THEN r ELSE Gone
<1>1. q \in Generation /\ Agrees(q) /\ (g = current => q = r)
  BY GoneFacts
<1>2. held' = [held EXCEPT ![g] = q]
  BY DEF Become
<1> HIDE DEF q
<1>3. held' \in [Gen -> Generation] /\ held'[g] = q
      /\ \A h \in Gen : h # g => held'[h] = held[h]
  BY <1>1, <1>2
<1>4. \A h \in Gen : Agrees(held'[h])
  BY <1>1, <1>3 DEF HeldAgree
<1>5. HeldAgree'
  BY <1>4 DEF HeldAgree, Agrees
<1>. QED BY <1>1, <1>3, <1>5

-----------------------------------------------------------------------------
(* What polls and services do.                                              *)

\* what g has under way brings it nearer to a save, or leaves its dictionary
LEMMA UnsavedKeeps ==
  ASSUME HistoryInv, NEW g \in Gen, NEW r \in Generation, Agrees(r), Become(g, r),
         UNCHANGED <<step, disk, current, stale>>,
         g = current => IsBuilt,
         g = current /\ NothingToSave(r) =>
           NothingToSave(held[g]) /\ r.stored = held[g].stored,
         kept' \subseteq kept,
         g = current => kept' \subseteq r.stored.txns
  PROVE  HistoryInv'
<1>0. HistoryTypeOK /\ HeldAgree /\ CurrentAccounted /\ FileAccounted /\ KeptAccounted
  BY DEF HistoryInv
<1>1. /\ held' \in [Gen -> Generation] /\ HeldAgree'
      /\ \A h \in Gen : h # g => held'[h] = held[h]
      /\ g = current => held'[g] = r
  BY <1>0, BecomeFacts DEF HistoryTypeOK
<1>2. HistoryTypeOK'
  BY <1>0, <1>1 DEF HistoryTypeOK
<1>3. current # NoGen => current \in Gen
  BY <1>0 DEF HistoryTypeOK
<1>4. CurrentAccounted'
  <2>1. (current = NoGen <=> step = "out")'
    BY <1>0 DEF CurrentAccounted
  <2>2. ASSUME current # NoGen, ~IsBuilt PROVE ~Busy(held'[current])
    BY <1>0, <1>1, <1>3, <2>2 DEF CurrentAccounted
  <2>. QED BY <2>1, <2>2 DEF CurrentAccounted, IsBuilt, Busy
<1>5. FileAccounted'
  <2>1. ASSUME IsBuilt, step # "unwind", ~stale, NothingToSave(held'[current])
        PROVE  disk = held'[current].stored
    <3>1. current \in Gen
      BY <1>0, <1>3, <2>1 DEF CurrentAccounted, IsBuilt
    <3>2. CASE g = current
      <4>1. NothingToSave(held[g]) /\ r.stored = held[g].stored
        BY <1>1, <2>1, <3>2
      <4>. QED BY <1>0, <1>1, <2>1, <3>2, <4>1 DEF FileAccounted
    <3>3. CASE g # current
      BY <1>0, <1>1, <2>1, <3>1, <3>3 DEF FileAccounted
    <3>. QED BY <3>2, <3>3
  <2>. QED BY <2>1 DEF FileAccounted, IsBuilt, NothingToSave
<1>6. KeptAccounted'
  <2>1. IsBuilt => current \in Gen
    BY <1>0, <1>3 DEF CurrentAccounted, IsBuilt
  <2>2. IsBuilt => kept' \subseteq held'[current].stored.txns
    BY <1>0, <1>1, <2>1 DEF KeptAccounted
  <2>. QED BY <1>0, <2>2 DEF KeptAccounted, IsBuilt
<1>. QED BY <1>1, <1>2, <1>4, <1>5, <1>6 DEF HistoryInv

\* a save of g, after which it has the same dictionary
LEMMA SavedKeeps ==
  ASSUME HistoryInv, NEW g \in Gen, Save(g), UNCHANGED <<step, current>>,
         held' \in [Gen -> Generation], HeldAgree',
         \A h \in Gen : h # g => held'[h] = held[h],
         g = current => IsBuilt /\ held'[g].stored = held[g].stored
  PROVE  HistoryInv'
<1>0. HistoryTypeOK /\ HeldAgree /\ CurrentAccounted /\ FileAccounted /\ KeptAccounted
  BY DEF HistoryInv
<1>1. current # NoGen => current \in Gen
  BY <1>0 DEF HistoryTypeOK
<1>2. disk' = held[g].stored /\ disk' \in Archive /\ disk'.txns \subseteq Txn
  <2>1. disk' = held[g].stored /\ held[g] \in Generation
    BY <1>0 DEF HistoryTypeOK, Save
  <2>. QED BY <2>1, Fields DEF Archive
<1>3. kept' \subseteq Txn /\ stale' \in BOOLEAN
  BY <1>0, <1>2 DEF HistoryTypeOK, Save
<1>4. HistoryTypeOK'
  BY <1>0, <1>2, <1>3 DEF HistoryTypeOK
<1>5. CurrentAccounted'
  <2>1. (current = NoGen <=> step = "out")'
    BY <1>0 DEF CurrentAccounted
  <2>2. ASSUME current # NoGen, ~IsBuilt PROVE ~Busy(held'[current])
    BY <1>0, <1>1, <2>2 DEF CurrentAccounted
  <2>. QED BY <2>1, <2>2 DEF CurrentAccounted, IsBuilt, Busy
<1>6. FileAccounted'
  <2>1. ASSUME IsBuilt, ~stale' PROVE disk' = held'[current].stored
    <3>1. current \in Gen
      BY <1>0, <1>1, <2>1 DEF CurrentAccounted, IsBuilt
    <3>2. g = current
      BY <2>1, <3>1, HistoryAssumption DEF Save
    <3>. QED BY <1>2, <3>2
  <2>. QED BY <2>1 DEF FileAccounted, IsBuilt
<1>7. KeptAccounted'
  <2>1. kept' \subseteq disk'.txns
    <3>1. CASE g = current
      BY <1>0, <1>2, <3>1 DEF Save, KeptAccounted
    <3>2. CASE g # current
      BY <3>2 DEF Save
    <3>. QED BY <3>1, <3>2
  <2>2. ASSUME IsBuilt PROVE kept' \subseteq held'[current].stored.txns
    <3>1. current \in Gen
      BY <1>0, <1>1, <2>2 DEF CurrentAccounted, IsBuilt
    <3>2. CASE g = current
      BY <1>2, <2>1, <3>2
    <3>3. CASE g # current
      BY <1>0, <2>2, <3>1, <3>3 DEF Save, KeptAccounted
    <3>. QED BY <3>2, <3>3
  <2>. QED BY <2>1, <2>2 DEF KeptAccounted, IsBuilt
<1>. QED BY <1>4, <1>5, <1>6, <1>7 DEF HistoryInv

\* any step of the polls and of the clears that changes no more than what g
\* has under way
LEMMA PollMoves ==
  ASSUME HistoryInv, NEW g \in Gen, NEW s \in Slot, NEW v \in Await,
         Become(g, [held[g] EXCEPT !.poll[s] = v]),
         UNCHANGED <<step, disk, current, stale, kept>>,
         g = current => IsBuilt,
         v \in {"none", "fetch"}, held[g].poll[s] # "save"
  PROVE  HistoryInv'
<1>0. HistoryTypeOK /\ HeldAgree /\ KeptAccounted
  BY DEF HistoryInv
<1>1. held[g] \in Generation /\ Agrees(held[g])
  BY <1>0 DEF HistoryTypeOK, HeldAgree
<1> DEFINE r == held[g]
           q == [r EXCEPT !.poll[s] = v]
<1>2. Become(g, q)
  OBVIOUS
<1>3. q = [r EXCEPT !.poll[s] = v]
  OBVIOUS
<1> HIDE DEF q
<1>4. /\ q \in Generation /\ q.poll[s] = v
      /\ \A t \in Slot : t # s => q.poll[t] = r.poll[t]
      /\ q.stored = r.stored /\ q.shown = r.shown /\ q.opt = r.opt
      /\ q.clearing = r.clearing /\ q.polled = r.polled
  <2> HIDE DEF r
  <2>1. r \in Generation
    BY <1>1 DEF r
  <2>. QED BY <2>1, <1>3 DEF Generation
<1>5. Agrees(q)
  BY <1>1, <1>4 DEF Agrees
<1>6. NothingToSave(q) => NothingToSave(held[g])
  BY <1>4 DEF NothingToSave
<1>7. g = current => kept \subseteq q.stored.txns
  BY <1>0, <1>4 DEF KeptAccounted
<1>. QED BY <1>2, <1>4, <1>5, <1>6, <1>7, UnsavedKeeps

LEMMA BusyIsBuilt ==
  ASSUME HistoryInv, NEW g \in Gen, Busy(held[g]), g = current
  PROVE  IsBuilt
<1>1. current # NoGen
  BY HistoryAssumption
<1>. QED BY <1>1 DEF HistoryInv, CurrentAccounted

LEMMA FetchFailsKeeps ==
  ASSUME HistoryInv, NEW g \in Gen, LaterPollFails(g)
  PROVE  HistoryInv'
<1>1. held[g].poll["later"] = "fetch" /\ "later" \in Slot
  BY DEF LaterPollFails, FetchFails, Slot
<1>2. g = current => IsBuilt
  BY <1>1, BusyIsBuilt DEF Busy
<1>3. /\ Become(g, [held[g] EXCEPT !.poll["later"] = "none"])
      /\ UNCHANGED <<step, disk, current, stale, kept>>
  BY DEF LaterPollFails, FetchFails, vars, observed
<1>. QED BY <1>1, <1>2, <1>3, PollMoves DEF Await

\* a poll starts: of the runtime, or the first before it is published
LEMMA StartPollKeeps ==
  ASSUME HistoryInv, LifecycleInv, StartLaterPoll
  PROVE  HistoryInv'
<1>1. runtime /\ StartPoll(current, "later")
      /\ UNCHANGED <<step, disk, current, stale, kept>>
  BY DEF StartLaterPoll, vars, observed
<1>2. IsBuilt
  BY <1>1 DEF LifecycleInv, RuntimeAccounted, IsBuilt, Preparing
<1>3. current \in Gen
  BY <1>2 DEF HistoryInv, HistoryTypeOK, CurrentAccounted, IsBuilt
<1>4. /\ held[current].poll["later"] = "none" /\ "later" \in Slot /\ "fetch" \in Await
      /\ Become(current, [held[current] EXCEPT !.poll["later"] = "fetch"])
  BY <1>1 DEF StartPoll, Slot, Await
<1>. QED BY <1>1, <1>2, <1>3, <1>4, PollMoves

LEMMA ListKeeps ==
  ASSUME HistoryInv, NEW g \in Gen, NEW s \in Slot, ListArrives(g, s)
  PROVE  HistoryInv'
<1>0. HistoryTypeOK /\ HeldAgree /\ KeptAccounted
  BY DEF HistoryInv
<1>1. PICK L \in SUBSET Txn, old \in SUBSET Txn : Archived(g, s, L, old)
  BY DEF ListArrives
<1>2. UNCHANGED <<step, disk, current, stale>>
  BY DEF ListArrives, vars
<1> DEFINE r == held[g]
           merged == Merge(r.stored, L, r.opt.sensitive)
           pruned == Prune(merged, r.opt.retention, old)
           changed == HistoryChanged(r.stored, merged, pruned, r.shown)
           saving == [r EXCEPT !.shown = pruned, !.stored = pruned, !.poll[s] = "save"]
           resting == [r EXCEPT !.shown = pruned, !.poll[s] = "rest"]
<1>3. /\ r.poll[s] = "fetch"
      /\ changed => Become(g, saving)
      /\ ~changed => Become(g, resting)
      /\ kept' = IF r.opt.retention = "forever" THEN kept ELSE kept \ old
  BY <1>1 DEF Archived
<1>4. r \in Generation /\ Agrees(r)
  BY <1>0 DEF HistoryTypeOK, HeldAgree
<1>5. /\ r.stored \in Archive /\ r.opt.sensitive \in BOOLEAN
      /\ r.stored = r.shown
  BY <1>4, Fields, OptFields DEF Agrees
<1>6. /\ merged \in Archive /\ merged.txns = r.stored.txns \cup L
      /\ ~r.opt.sensitive => ~Private(merged)
  BY <1>5, MergeFacts
<1>7. /\ pruned \in Archive
      /\ r.opt.retention = "forever" => pruned.txns = merged.txns
      /\ merged.txns \ old \subseteq pruned.txns
      /\ ~Private(merged) => ~Private(pruned)
  BY <1>6, PruneFacts
<1>8. g = current => IsBuilt
  BY <1>3, BusyIsBuilt DEF Busy
<1>9. kept' \subseteq kept
  BY <1>3
<1>10. g = current => kept' \subseteq pruned.txns
  <2>1. g = current => kept \subseteq r.stored.txns
    BY <1>0, <1>8 DEF KeptAccounted
  <2>. QED BY <1>3, <1>6, <1>7, <2>1
<1>11. ~changed => merged = r.stored /\ pruned = r.shown
  BY DEF HistoryChanged
<1> HIDE DEF r, merged, pruned, changed
<1>12. CASE changed
  <2>1. /\ saving \in Generation /\ saving.poll[s] = "save"
        /\ saving.stored = pruned /\ saving.shown = pruned /\ saving.opt = r.opt
    BY <1>4, <1>7 DEF Generation, Await
  <2>2. Become(g, saving)
    BY <1>3, <1>12
  <2> HIDE DEF saving
  <2>3. Agrees(saving)
    BY <1>6, <1>7, <2>1 DEF Agrees
  <2>4. ~NothingToSave(saving)
    BY <2>1 DEF NothingToSave
  <2>5. g = current => kept' \subseteq saving.stored.txns
    BY <1>10, <2>1
  <2>. QED BY <1>2, <1>8, <1>9, <2>1, <2>2, <2>3, <2>4, <2>5, UnsavedKeeps
<1>13. CASE ~changed
  <2>1. /\ resting \in Generation /\ resting.poll[s] = "rest"
        /\ \A t \in Slot : t # s => resting.poll[t] = r.poll[t]
        /\ resting.stored = r.stored /\ resting.shown = r.shown /\ resting.opt = r.opt
        /\ resting.clearing = r.clearing
    BY <1>4, <1>7, <1>11, <1>13 DEF Generation, Await
  <2>2. Become(g, resting)
    BY <1>3, <1>13
  <2> HIDE DEF resting
  <2>3. Agrees(resting)
    BY <1>5, <1>6, <1>11, <1>13, <2>1 DEF Agrees
  <2>4. NothingToSave(resting) => NothingToSave(r)
    BY <1>3, <2>1 DEF NothingToSave
  <2>5. g = current => kept' \subseteq resting.stored.txns
    BY <1>5, <1>10, <1>11, <1>13, <2>1
  <2>. QED BY <1>2, <1>8, <1>9, <2>1, <2>2, <2>3, <2>4, <2>5, UnsavedKeeps DEF r
<1>. QED BY <1>12, <1>13

LEMMA PollSavesKeeps ==
  ASSUME HistoryInv, NEW g \in Gen, NEW s \in Slot, PollSaves(g, s)
  PROVE  HistoryInv'
<1>0. HistoryTypeOK /\ HeldAgree
  BY DEF HistoryInv
<1> DEFINE r == held[g]
           q == [r EXCEPT !.poll[s] = "rest"]
<1>1. held[g].poll[s] = "save" /\ Save(g) /\ Become(g, q) /\ UNCHANGED <<step, current>>
  BY DEF PollSaves, PollSaved, SaveOwn
<1>2. r \in Generation /\ Agrees(r)
  BY <1>0 DEF HistoryTypeOK, HeldAgree
<1>3. g = current => IsBuilt
  BY <1>1, BusyIsBuilt DEF Busy
<1> HIDE DEF r
<1>4. /\ q \in Generation /\ q.stored = r.stored /\ q.shown = r.shown
      /\ q.opt = r.opt
  BY <1>2 DEF Generation, Await
<1>5. r.poll[s] = "save"
  BY <1>1 DEF r
<1> HIDE DEF q
<1>6. Agrees(q)
  BY <1>2, <1>4, <1>5 DEF Agrees
<1>7. /\ held' \in [Gen -> Generation] /\ HeldAgree'
      /\ \A h \in Gen : h # g => held'[h] = held[h]
      /\ g = current => held'[g] = q
  BY <1>0, <1>1, <1>4, <1>6, BecomeFacts DEF HistoryTypeOK
<1>8. g = current => held'[g].stored = held[g].stored
  BY <1>4, <1>7 DEF r
<1>. QED BY <1>1, <1>3, <1>7, <1>8, SavedKeeps

LEMMA PollFinishesKeeps ==
  ASSUME HistoryInv, NEW g \in Gen, NEW s \in Slot, PollFinishes(g, s)
  PROVE  HistoryInv'
<1>0. HistoryTypeOK /\ HeldAgree /\ KeptAccounted
  BY DEF HistoryInv
<1> DEFINE r == held[g]
           q == [r EXCEPT !.polled = TRUE, !.poll[s] = "none"]
<1>1. /\ r.poll[s] = "rest" /\ Become(g, q)
      /\ UNCHANGED <<step, disk, current, stale, kept>>
  BY DEF PollFinishes, FinishPoll, vars, observed
<1>2. r \in Generation /\ Agrees(r)
  BY <1>0 DEF HistoryTypeOK, HeldAgree
<1>3. g = current => IsBuilt
  BY <1>1, BusyIsBuilt DEF Busy
<1>4. g = current => kept \subseteq r.stored.txns
  BY <1>0, <1>3 DEF KeptAccounted
<1> HIDE DEF r
<1>5. /\ q \in Generation /\ q.stored = r.stored /\ q.shown = r.shown
      /\ q.opt = r.opt /\ q.clearing = r.clearing
      /\ \A t \in Slot : t # s => q.poll[t] = r.poll[t]
  BY <1>2 DEF Generation, Await
<1> HIDE DEF q
<1>6. Agrees(q)
  BY <1>1, <1>2, <1>5 DEF Agrees
<1>7. NothingToSave(q) => NothingToSave(held[g])
  BY <1>1, <1>5 DEF NothingToSave, r
<1>8. q.stored = held[g].stored
  BY <1>5 DEF r
<1>. QED BY <1>1, <1>3, <1>4, <1>5, <1>6, <1>7, <1>8, UnsavedKeeps

LEMMA ClearKeeps ==
  ASSUME HistoryInv, LifecycleInv, ClearHistory
  PROVE  HistoryInv'
<1>0. HistoryTypeOK /\ HeldAgree /\ KeptAccounted
  BY DEF HistoryInv
<1>1. runtime /\ UNCHANGED <<step, disk, current, stale>>
  BY DEF ClearHistory, vars
<1>2. PICK scope \in Scope : Clear(current, scope)
  BY DEF ClearHistory
<1>3. IsBuilt
  BY <1>1 DEF LifecycleInv, RuntimeAccounted, IsBuilt, Preparing
<1>4. current \in Gen
  BY <1>3 DEF HistoryInv, HistoryTypeOK, CurrentAccounted, IsBuilt
<1> DEFINE r == held[current]
           cleared == Cleared(r.shown, scope)
           q == [r EXCEPT !.shown = cleared, !.stored = cleared, !.clearing = TRUE]
<1>5. Become(current, q) /\ kept' = IF scope = "all" THEN {} ELSE kept
  BY <1>2 DEF Clear
<1>6. r \in Generation /\ Agrees(r)
  BY <1>0, <1>4 DEF HistoryTypeOK, HeldAgree
<1>7. kept \subseteq r.shown.txns
  BY <1>0, <1>3, <1>6 DEF KeptAccounted, Agrees
<1> HIDE DEF r
<1>8. r.shown \in Archive
  BY <1>6, Fields
<1>9. /\ cleared \in Archive /\ ~Private(cleared)
      /\ scope # "all" => cleared.txns = r.shown.txns
  BY <1>8, ClearedFacts
<1> HIDE DEF cleared
<1>10. /\ q \in Generation /\ q.stored = cleared /\ q.shown = cleared /\ q.clearing
  BY <1>6, <1>9 DEF Generation
<1> HIDE DEF q
<1>11. Agrees(q)
  BY <1>9, <1>10 DEF Agrees
<1>12. ~NothingToSave(q)
  BY <1>10 DEF NothingToSave
<1>13. kept' \subseteq kept /\ kept' \subseteq q.stored.txns
  BY <1>5, <1>7, <1>9, <1>10
<1>. QED BY <1>1, <1>3, <1>4, <1>5, <1>10, <1>11, <1>12, <1>13, UnsavedKeeps

LEMMA ClearSavesKeeps ==
  ASSUME HistoryInv, NEW g \in Gen, ClearSaves(g)
  PROVE  HistoryInv'
<1>0. HistoryTypeOK /\ HeldAgree
  BY DEF HistoryInv
<1> DEFINE r == held[g]
           q == [r EXCEPT !.clearing = FALSE]
<1>1. held[g].clearing /\ Save(g) /\ Become(g, q) /\ UNCHANGED <<step, current>>
  BY DEF ClearSaves, ClearSaved, SaveOwn
<1>2. r \in Generation /\ Agrees(r)
  BY <1>0 DEF HistoryTypeOK, HeldAgree
<1>3. g = current => IsBuilt
  BY <1>1, BusyIsBuilt DEF Busy
<1> HIDE DEF r
<1>4. /\ q \in Generation /\ q.stored = r.stored /\ q.shown = r.shown
      /\ q.opt = r.opt /\ q.poll = r.poll /\ q.polled = r.polled
  BY <1>2 DEF Generation
<1> HIDE DEF q
<1>5. Agrees(q)
  BY <1>2, <1>4 DEF Agrees
<1>6. /\ held' \in [Gen -> Generation] /\ HeldAgree'
      /\ \A h \in Gen : h # g => held'[h] = held[h]
      /\ g = current => held'[g] = q
  BY <1>0, <1>1, <1>4, <1>5, BecomeFacts DEF HistoryTypeOK
<1>7. g = current => held'[g].stored = held[g].stored
  BY <1>4, <1>6 DEF r
<1>. QED BY <1>1, <1>3, <1>6, <1>7, SavedKeeps

LEMMA OthersKeep ==
  ASSUME HistoryInv, LifecycleInv, NEW g \in Gen, SaveOthers(g)
  PROVE  HistoryInv'
<1>0. HistoryTypeOK /\ HeldAgree
  BY DEF HistoryInv
<1>1. Save(g) /\ UNCHANGED <<step, current, held>>
  BY DEF SaveOthers, SaveOwn
<1>2. held' \in [Gen -> Generation] /\ \A h \in Gen : held'[h] = held[h]
  BY <1>0, <1>1 DEF HistoryTypeOK
<1>3. HeldAgree'
  BY <1>0, <1>1 DEF HeldAgree, Agrees
<1>4. runtime => IsBuilt
  BY DEF LifecycleInv, RuntimeAccounted, IsBuilt, Preparing
<1>5. g = current => IsBuilt
  <2>1. CASE runtime
    BY <1>4, <2>1
  <2>2. CASE \E s \in Slot : held[g].poll[s] = "rest"
    BY <2>2, BusyIsBuilt DEF Busy
  <2>. QED BY <2>1, <2>2 DEF SaveOthers
<1>. QED BY <1>1, <1>2, <1>3, <1>5, SavedKeeps

LEMMA WorkKeeps ==
  HistoryInv /\ LifecycleInv
    /\ (StartLaterPoll \/ ClearHistory \/ FirstPoll \/ \E g \in Gen : Work(g)) =>
  HistoryInv'
<1> SUFFICES ASSUME HistoryInv, LifecycleInv
             PROVE  StartLaterPoll \/ ClearHistory \/ FirstPoll \/ (\E g \in Gen : Work(g)) =>
                      HistoryInv'
    OBVIOUS
<1>1. StartLaterPoll \/ ClearHistory => HistoryInv'
  BY StartPollKeeps, ClearKeeps
<1>2. "first" \in Slot /\ "later" \in Slot
  BY DEF Slot
<1>3. FirstPoll => HistoryInv'
  BY <1>2, ListKeeps, PollSavesKeeps, PollFinishesKeeps DEF FirstPoll
<1>4. ASSUME NEW g \in Gen PROVE Work(g) => HistoryInv'
  BY <1>2, <1>4, ListKeeps, FetchFailsKeeps, PollSavesKeeps, PollFinishesKeeps,
     ClearSavesKeeps, OthersKeep DEF Work
<1>. QED BY <1>1, <1>3, <1>4

-----------------------------------------------------------------------------
(* What a setup and an unload do to the history.                            *)

LEMMA QuietKeeps ==
  ASSUME HistoryInv, UNCHANGED historyVars,
         step = "out" <=> step' = "out",
         IsBuilt <=> IsBuilt',
         step = "unwind" => step' = "unwind"
  PROVE  HistoryInv'
<1>0. HistoryTypeOK /\ HeldAgree /\ CurrentAccounted /\ FileAccounted /\ KeptAccounted
  BY DEF HistoryInv
<1>1. disk' = disk /\ current' = current /\ held' = held /\ stale' = stale /\ kept' = kept
  BY DEF historyVars
<1>2. HistoryTypeOK' /\ HeldAgree'
  BY <1>0, <1>1 DEF HistoryTypeOK, HeldAgree, Agrees
<1>3. CurrentAccounted'
  <2>1. (current = NoGen <=> step = "out")'
    BY <1>0, <1>1 DEF CurrentAccounted
  <2>2. Busy(held[current])' <=> Busy(held[current])
    BY <1>1 DEF Busy
  <2>. QED BY <1>0, <1>1, <2>1, <2>2 DEF CurrentAccounted
<1>4. FileAccounted'
  <2>1. NothingToSave(held[current])' <=> NothingToSave(held[current])
    BY <1>1 DEF NothingToSave
  <2>. QED BY <1>0, <1>1, <2>1 DEF FileAccounted
<1>5. KeptAccounted'
  BY <1>0, <1>1 DEF KeptAccounted
<1>. QED BY <1>2, <1>3, <1>4, <1>5 DEF HistoryInv

LEMMA BeginKeeps == ASSUME HistoryInv, Begin PROVE HistoryInv'
<1>0. HistoryTypeOK /\ HeldAgree /\ CurrentAccounted /\ FileAccounted /\ KeptAccounted
  BY DEF HistoryInv
<1>1. step = "out" /\ step' = "load" /\ UNCHANGED <<disk, held, stale, kept>>
  BY DEF Begin, BeginSetup, Goto, observed
<1>2. current' \in Gen /\ ~Busy(held[current'])
  BY DEF Begin
<1>3. HistoryTypeOK' /\ HeldAgree'
  BY <1>0, <1>1, <1>2 DEF HistoryTypeOK, HeldAgree, Agrees
<1>4. ~Busy(held[current])'
  BY <1>1, <1>2 DEF Busy
<1>5. CurrentAccounted'
  BY <1>1, <1>2, <1>4, HistoryAssumption DEF CurrentAccounted
<1>6. FileAccounted' /\ KeptAccounted'
  BY <1>0, <1>1 DEF FileAccounted, KeptAccounted, IsBuilt
<1>. QED BY <1>3, <1>5, <1>6 DEF HistoryInv

LEMMA BuildKeeps ==
  ASSUME HistoryInv, step \in {"load", "drop"}, step' = "auth", BuildCoordinator
  PROVE  HistoryInv'
<1>0. HistoryTypeOK /\ HeldAgree /\ CurrentAccounted /\ KeptAccounted
  BY DEF HistoryInv
<1>1. current \in Gen
  BY <1>0 DEF HistoryTypeOK, CurrentAccounted
<1>2. PICK o \in Options : Build(current, o)
  BY DEF BuildCoordinator
<1>3. /\ stale' = FALSE /\ kept' = kept \cup disk.txns
      /\ disk' = disk /\ current' = current
  BY DEF BuildCoordinator
<1> DEFINE q == [Gone EXCEPT !.stored = disk, !.shown = disk, !.opt = o]
<1>4. held' = [held EXCEPT ![current] = q]
  BY <1>2 DEF Build
<1>5. disk \in Archive
  BY <1>0 DEF HistoryTypeOK
<1>6. /\ q \in Generation /\ q.stored = disk /\ q.shown = disk
      /\ q.poll = Gone.poll /\ q.polled = Gone.polled
  BY <1>5, GoneFacts DEF Generation
<1>7. Gone.polled = FALSE /\ \A s \in Slot : Gone.poll[s] = "none"
  BY DEF Gone
<1> HIDE DEF q
<1>8. Agrees(q)
  BY <1>6, <1>7 DEF Agrees
<1>9. /\ held' \in [Gen -> Generation] /\ held'[current] = q
      /\ \A h \in Gen : h # current => held'[h] = held[h]
  BY <1>0, <1>1, <1>4, <1>6 DEF HistoryTypeOK
<1>10. \A h \in Gen : Agrees(held'[h])
  BY <1>0, <1>8, <1>9 DEF HeldAgree
<1>11. HeldAgree'
  BY <1>10 DEF HeldAgree, Agrees
<1>12. kept' = disk.txns /\ kept' \subseteq Txn
  BY <1>0, <1>3, <1>5 DEF KeptAccounted, Archive
<1>13. HistoryTypeOK'
  BY <1>0, <1>3, <1>9, <1>12 DEF HistoryTypeOK
<1>14. CurrentAccounted'
  BY <1>1, <1>3, HistoryAssumption DEF CurrentAccounted, IsBuilt
<1>15. FileAccounted' /\ KeptAccounted'
  BY <1>3, <1>6, <1>9, <1>12 DEF FileAccounted, KeptAccounted
<1>. QED BY <1>11, <1>13, <1>14, <1>15 DEF HistoryInv

LEMMA WithdrawKeeps ==
  ASSUME HistoryInv, step # "out", step' = "out",
         NEW cancelled \in BOOLEAN, Withdraw(cancelled), UNCHANGED <<disk, kept>>
  PROVE  HistoryInv'
<1>0. HistoryTypeOK /\ HeldAgree /\ CurrentAccounted /\ KeptAccounted
  BY DEF HistoryInv
<1>1. current \in Gen
  BY <1>0 DEF HistoryTypeOK, CurrentAccounted
<1> DEFINE g == held[current]
           r == IF cancelled THEN [g EXCEPT !.poll["later"] = "none"] ELSE g
           q == IF Busy(r) THEN r ELSE Gone
<1>2. current' = NoGen /\ stale' = FALSE /\ held' = [held EXCEPT ![current] = q]
  BY DEF Withdraw
<1>3. g \in Generation /\ Agrees(g)
  BY <1>0, <1>1 DEF HistoryTypeOK, HeldAgree
<1> HIDE DEF g
<1>4. r \in Generation /\ Agrees(r)
  <2>1. CASE cancelled
    <3>1. /\ r \in Generation /\ r.stored = g.stored /\ r.shown = g.shown
          /\ r.opt = g.opt /\ r.polled = g.polled
          /\ \A s \in Slot : r.poll[s] \in {"save", "rest"} => r.poll[s] = g.poll[s]
      BY <1>3, <2>1 DEF Generation, Await, Slot
    <3> HIDE DEF r
    <3>. QED BY <1>3, <3>1 DEF Agrees
  <2>2. CASE ~cancelled
    BY <1>3, <2>2
  <2>. QED BY <2>1, <2>2
<1> HIDE DEF r
<1>5. q \in Generation /\ Agrees(q)
  BY <1>4, GoneFacts
<1> HIDE DEF q
<1>6. held' \in [Gen -> Generation] /\ \A h \in Gen : Agrees(held'[h])
  BY <1>0, <1>1, <1>2, <1>5 DEF HistoryTypeOK, HeldAgree
<1>7. HeldAgree'
  BY <1>6 DEF HeldAgree, Agrees
<1>8. HistoryTypeOK'
  BY <1>0, <1>2, <1>6 DEF HistoryTypeOK
<1>9. CurrentAccounted' /\ FileAccounted' /\ KeptAccounted'
  BY <1>0, <1>2 DEF CurrentAccounted, FileAccounted, KeptAccounted, IsBuilt
<1>. QED BY <1>7, <1>8, <1>9 DEF HistoryInv

LEMMA PublishKeeps ==
  ASSUME HistoryInv, PublishRuntime
  PROVE  HistoryInv'
<1>0. HistoryTypeOK /\ HeldAgree /\ CurrentAccounted /\ FileAccounted /\ KeptAccounted
  BY DEF HistoryInv
<1>1. /\ step = "auth" /\ step' = "refresh"
      /\ UNCHANGED <<disk, current, stale, kept>>
  BY DEF PublishRuntime, Publish, Goto, observed
<1>2. IsBuilt /\ current \in Gen
  BY <1>0, <1>1 DEF IsBuilt, HistoryTypeOK, CurrentAccounted
<1> DEFINE r == held[current]
           q == [r EXCEPT !.poll["first"] = "fetch"]
<1>3. r.poll["first"] = "none" /\ Become(current, q)
  BY DEF PublishRuntime, StartPoll
<1>4. r \in Generation /\ Agrees(r)
  BY <1>0, <1>2 DEF HistoryTypeOK, HeldAgree
<1> HIDE DEF r
<1>5. /\ q \in Generation /\ q.stored = r.stored /\ q.shown = r.shown
      /\ q.opt = r.opt /\ q.polled = r.polled /\ q.clearing = r.clearing
      /\ \A s \in Slot : q.poll[s] \in {"save", "rest"} => q.poll[s] = r.poll[s]
      /\ \A s \in Slot : r.poll[s] = "save" => q.poll[s] = "save"
  BY <1>3, <1>4 DEF Generation, Await, Slot
<1> HIDE DEF q
<1>6. Agrees(q)
  BY <1>4, <1>5 DEF Agrees
<1>7. /\ held' \in [Gen -> Generation] /\ HeldAgree'
      /\ held'[current] = q
  BY <1>0, <1>2, <1>3, <1>5, <1>6, BecomeFacts DEF HistoryTypeOK
<1>8. HistoryTypeOK'
  BY <1>0, <1>1, <1>7 DEF HistoryTypeOK
<1>9. CurrentAccounted'
  BY <1>1, <1>2, HistoryAssumption DEF CurrentAccounted, IsBuilt
<1>10. NothingToSave(q) => NothingToSave(r)
  BY <1>5 DEF NothingToSave
<1>11. disk = r.stored \/ stale \/ ~NothingToSave(r)
  BY <1>0, <1>1, <1>2 DEF FileAccounted, r
<1>12. NothingToSave(held[current])' <=> NothingToSave(q)
  BY <1>1, <1>7 DEF NothingToSave
<1>13. FileAccounted'
  BY <1>1, <1>5, <1>7, <1>10, <1>11, <1>12 DEF FileAccounted
<1>14. kept \subseteq r.stored.txns
  BY <1>0, <1>2 DEF KeptAccounted, r
<1>15. KeptAccounted'
  BY <1>0, <1>1, <1>5, <1>7, <1>14 DEF KeptAccounted
<1>. QED BY <1>7, <1>8, <1>9, <1>13, <1>15 DEF HistoryInv

LEMMA FailKeeps ==
  ASSUME HistoryInv, Fail
  PROVE  HistoryInv'
<1>0. HistoryTypeOK /\ HeldAgree /\ CurrentAccounted /\ KeptAccounted
  BY DEF HistoryInv
<1>1. /\ step \in {"refresh", "forward"} /\ step' = "unwind"
      /\ UNCHANGED <<disk, current, stale, kept>>
  BY DEF Fail, SetupFails, InTransaction, observed
<1>2. IsBuilt /\ current \in Gen
  BY <1>0, <1>1 DEF IsBuilt, HistoryTypeOK, CurrentAccounted
<1> DEFINE r == held[current]
           q == [r EXCEPT !.poll["first"] = "none"]
<1>3. Become(current, q)
  BY DEF Fail, DropFirstPoll
<1>4. r \in Generation /\ Agrees(r)
  BY <1>0, <1>2 DEF HistoryTypeOK, HeldAgree
<1>5. kept \subseteq r.stored.txns
  BY <1>0, <1>2 DEF KeptAccounted
<1> HIDE DEF r
<1>6. /\ q \in Generation /\ q.stored = r.stored /\ q.shown = r.shown
      /\ q.opt = r.opt /\ q.polled = r.polled
      /\ \A s \in Slot : q.poll[s] \in {"save", "rest"} => q.poll[s] = r.poll[s]
  BY <1>4 DEF Generation, Await, Slot
<1> HIDE DEF q
<1>7. Agrees(q)
  BY <1>4, <1>6 DEF Agrees
<1>8. /\ held' \in [Gen -> Generation] /\ HeldAgree'
      /\ held'[current] = q
  BY <1>0, <1>2, <1>3, <1>6, <1>7, BecomeFacts DEF HistoryTypeOK
<1>9. HistoryTypeOK'
  BY <1>0, <1>1, <1>8 DEF HistoryTypeOK
<1>10. CurrentAccounted'
  BY <1>1, <1>2, HistoryAssumption DEF CurrentAccounted, IsBuilt
<1>11. FileAccounted'
  BY <1>1 DEF FileAccounted
<1>12. KeptAccounted'
  BY <1>0, <1>1, <1>5, <1>6, <1>8 DEF KeptAccounted
<1>. QED BY <1>8, <1>9, <1>10, <1>11, <1>12 DEF HistoryInv

LEMMA StopKeeps ==
  ASSUME HistoryInv, Stop
  PROVE  HistoryInv'
<1>0. HistoryTypeOK /\ KeptAccounted
  BY DEF HistoryInv
<1>1. /\ step' = "out" /\ current' = NoGen /\ stale' = FALSE
      /\ disk' = disk /\ kept' = kept /\ held' = [g \in Gen |-> Gone]
  BY DEF Stop, Restart, Goto
<1>2. held' \in [Gen -> Generation] /\ \A h \in Gen : Agrees(held'[h])
  BY <1>1, GoneFacts
<1>3. HeldAgree'
  BY <1>2 DEF HeldAgree, Agrees
<1>4. HistoryTypeOK'
  BY <1>0, <1>1, <1>2 DEF HistoryTypeOK
<1>5. CurrentAccounted' /\ FileAccounted' /\ KeptAccounted'
  BY <1>0, <1>1 DEF CurrentAccounted, FileAccounted, KeptAccounted, IsBuilt
<1>. QED BY <1>3, <1>4, <1>5 DEF HistoryInv

LEMMA PrepareKeeps ==
  HistoryInv /\ (Begin \/ Load \/ Adopt \/ DropLegacy \/ Abandon \/ PublishRuntime) =>
    HistoryInv'
<1> SUFFICES ASSUME HistoryInv
             PROVE  Begin \/ Load \/ Adopt \/ DropLegacy \/ Abandon \/ PublishRuntime =>
                      HistoryInv'
    OBVIOUS
<1>1. ASSUME Load PROVE HistoryInv'
  <2>1. CASE Adopts
    <3>1. UNCHANGED historyVars /\ step = "load" /\ step' = "adopt"
      BY <1>1, <2>1 DEF Load, LoadStore, Goto
    <3>. QED BY <3>1, QuietKeeps DEF IsBuilt
  <2>2. CASE ~Adopts
    <3>1. BuildCoordinator /\ step = "load" /\ step' = "auth"
      BY <1>1, <2>2 DEF Load, LoadStore, Goto
    <3>. QED BY <3>1, BuildKeeps
  <2>. QED BY <2>1, <2>2
<1>2. ASSUME Adopt PROVE HistoryInv'
  <2>1. UNCHANGED historyVars /\ step = "adopt" /\ step' = "drop"
    BY <1>2 DEF Adopt, SaveAdopted, Goto
  <2>. QED BY <2>1, QuietKeeps DEF IsBuilt
<1>3. ASSUME DropLegacy PROVE HistoryInv'
  <2>1. BuildCoordinator /\ step = "drop" /\ step' = "auth"
    BY <1>3 DEF DropLegacy, RemoveLegacy, Goto
  <2>. QED BY <2>1, BuildKeeps
<1>4. ASSUME Abandon PROVE HistoryInv'
  <2>1. step # "out" /\ step' = "out" /\ Withdraw(TRUE) /\ UNCHANGED <<disk, kept>>
    BY <1>4 DEF Abandon, AbandonSetup, Goto, Preparing
  <2>. QED BY <2>1, WithdrawKeeps
<1>. QED BY <1>1, <1>2, <1>3, <1>4, BeginKeeps, PublishKeeps

LEMMA TransactionKeeps ==
  HistoryInv /\ (FirstRefreshEnds \/ Platform \/ Fail \/ Remove \/ StartUnload
                   \/ AbandonUnload \/ Stop) =>
    HistoryInv'
<1> SUFFICES ASSUME HistoryInv
             PROVE  FirstRefreshEnds \/ Platform \/ Fail \/ Remove \/ StartUnload
                      \/ AbandonUnload \/ Stop => HistoryInv'
    OBVIOUS
<1>1. ASSUME FirstRefreshEnds PROVE HistoryInv'
  <2>1. UNCHANGED historyVars /\ step = "refresh" /\ step' = "forward"
    BY <1>1 DEF FirstRefreshEnds, FirstRefreshDone
  <2>. QED BY <2>1, QuietKeeps DEF IsBuilt
<1>2. ASSUME Platform PROVE HistoryInv'
  <2>1. UNCHANGED historyVars
    BY <1>2 DEF Platform
  <2>2. step' = step \/ (step = "forward" /\ step' = "up")
    BY <1>2 DEF Platform, PlatformLoads, Forwarded, UnwindPlatform, UnwindFails,
                PlatformUnloads, PlatformSticks, Goto
  <2>. QED BY <2>1, <2>2, QuietKeeps DEF IsBuilt
<1>3. ASSUME Remove PROVE HistoryInv'
  <2>1. step \in {"unwind", "unload"} /\ step' = "out" /\ UNCHANGED <<disk, kept>>
    BY <1>3 DEF Remove, Unwound, Unloaded, Goto
  <2>2. PICK cancelled \in BOOLEAN : Withdraw(cancelled)
    BY <1>3 DEF Remove
  <2>. QED BY <2>1, <2>2, WithdrawKeeps
<1>4. ASSUME StartUnload PROVE HistoryInv'
  <2>1. UNCHANGED historyVars /\ step = "up" /\ step' = "unload"
    BY <1>4 DEF StartUnload, BeginUnload, Goto
  <2>. QED BY <2>1, QuietKeeps DEF IsBuilt
<1>5. ASSUME AbandonUnload PROVE HistoryInv'
  <2>1. UNCHANGED historyVars /\ step = "unload" /\ step' = "failed"
    BY <1>5 DEF AbandonUnload, UnloadFails, Goto
  <2>. QED BY <2>1, QuietKeeps DEF IsBuilt
<1>. QED BY <1>1, <1>2, <1>3, <1>4, <1>5, FailKeeps, StopKeeps

LEMMA NextHistoryInv ==
  HistoryInv /\ LifecycleInv /\ [EntryNext]_entryVars => HistoryInv'
<1> SUFFICES ASSUME HistoryInv, LifecycleInv, [EntryNext]_entryVars
             PROVE  HistoryInv'
    OBVIOUS
<1>1. CASE EntryNext
  BY <1>1, PrepareKeeps, TransactionKeeps, WorkKeeps DEF EntryNext, Advance
<1>2. CASE UNCHANGED entryVars
  BY <1>2, QuietKeeps DEF entryVars, vars, IsBuilt
<1>. QED BY <1>1, <1>2

LEMMA InitHistoryInv == EntryInit => HistoryInv
<1> SUFFICES ASSUME EntryInit PROVE HistoryInv
    OBVIOUS
<1>1. /\ step = "out" /\ disk = Empty /\ current = NoGen
      /\ held = [g \in Gen |-> Gone] /\ stale = FALSE /\ kept = {}
  BY DEF EntryInit, Init, HistoryInit
<1>2. HistoryTypeOK
  BY <1>1, GoneFacts DEF HistoryTypeOK, Empty, Archive
<1>3. HeldAgree
  BY <1>1, GoneFacts DEF HeldAgree
<1>4. CurrentAccounted /\ FileAccounted /\ KeptAccounted
  BY <1>1 DEF CurrentAccounted, FileAccounted, KeptAccounted, IsBuilt
<1>. QED BY <1>2, <1>3, <1>4 DEF HistoryInv

LEMMA HistoryAccounted == EntrySpec => []HistoryInv
<1>1. HistoryInv /\ LifecycleInv /\ [EntryNext]_entryVars => HistoryInv'
  BY NextHistoryInv
<1>. QED BY <1>1, InitHistoryInv, EntryLifecycle, PTL DEF EntrySpec

-----------------------------------------------------------------------------
(* The theorems about the history.                                          *)

\* The files, the platforms and every generation's history have their types.
THEOREM EntryTypes == EntrySpec => []TypeOK
<1>1. LifecycleInv /\ HistoryInv => TypeOK
  BY DEF LifecycleInv, HistoryInv, TypeOK
<1>. QED BY <1>1, EntryLifecycle, HistoryAccounted, PTL

LEMMA SettledIsBuilt ==
  LifecycleInv /\ HistoryInv /\ Settled =>
    /\ current \in Gen /\ disk = held[current].stored
    /\ Agrees(held[current])
<1> SUFFICES ASSUME LifecycleInv, HistoryInv, Settled
             PROVE  /\ current \in Gen /\ disk = held[current].stored
                    /\ Agrees(held[current])
    OBVIOUS
<1>1. runtime /\ step # "unwind" /\ ~stale /\ NothingToSave(held[current])
  BY DEF Settled, NothingToSave
<1>2. IsBuilt
  BY <1>1 DEF LifecycleInv, RuntimeAccounted, IsBuilt, Preparing
<1>3. current \in Gen
  BY <1>2 DEF HistoryInv, HistoryTypeOK, CurrentAccounted, IsBuilt
<1>4. disk = held[current].stored
  BY <1>1, <1>2 DEF HistoryInv, FileAccounted
<1>. QED BY <1>3, <1>4 DEF HistoryInv, HeldAgree

\* Once its saves are done a generation's file, dictionary and attribute agree.
THEOREM HistoryFileAgrees == EntrySpec => []FileAgrees
<1>1. LifecycleInv /\ HistoryInv => FileAgrees
  BY SettledIsBuilt DEF FileAgrees, Agrees
<1>. QED BY <1>1, EntryLifecycle, HistoryAccounted, PTL

\* Without the opt-in no contact data are left after a poll.
THEOREM HistoryConsent == EntrySpec => []ConsentKept
<1>1. LifecycleInv /\ HistoryInv => ConsentKept
  <2> SUFFICES ASSUME LifecycleInv, HistoryInv, current # NoGen,
                      held[current].polled, ~held[current].opt.sensitive
               PROVE  /\ ~Private(held[current].stored)
                      /\ ~Private(held[current].shown)
                      /\ Settled => ~Private(disk)
      BY DEF ConsentKept
  <2>1. current \in Gen
    BY DEF HistoryInv, HistoryTypeOK
  <2>2. Agrees(held[current])
    BY <2>1 DEF HistoryInv, HeldAgree
  <2>3. ~Private(held[current].stored) /\ held[current].stored = held[current].shown
    BY <2>2 DEF Agrees
  <2>4. Settled => ~Private(disk)
    BY <2>3, SettledIsBuilt
  <2>. QED BY <2>3, <2>4
<1>. QED BY <1>1, EntryLifecycle, HistoryAccounted, PTL

\* Bookings that came to the file to stay are there over every reload and crash.
THEOREM HistoryKept == EntrySpec => []ReferencesKept
<1>1. HistoryInv => ReferencesKept
  BY DEF HistoryInv, KeptAccounted, ReferencesKept
<1>. QED BY <1>1, HistoryAccounted, PTL
=============================================================================
