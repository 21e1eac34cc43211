----------------------- MODULE MessageSyncMerge_proofs -----------------------
(***************************************************************************)
(* Proofs that the operations on the archive do not undo one another: what  *)
(* is archived and retained stays, and what was read before a clear does    *)
(* not come back after it.                                                  *)
(*                                                                          *)
(* Both rest on the lock.  An operation works on the archive it read when   *)
(* it took the lock, and writes that back; since nobody else writes while   *)
(* it has the lock (LockInv), its work is never behind the archive, and a   *)
(* clear finds no work anywhere.                                            *)
(***************************************************************************)
EXTENDS MessageSync_proofs

-----------------------------------------------------------------------------
(* What a step of a job adds to the archive it works on.                     *)

\* archive b has every message of archive a
Extends(a, b) == \A t \in Txn : a[t].msgs \subseteq b[t].msgs

\* archive a holds nothing but what is in set[t], of any conversation t
Within(a, set) == \A t \in Txn : a[t].msgs \subseteq set[t]

\* A new record of a conversation adds messages or none, and only such as the
\* call has got.
LEMMA RecordedAdds ==
  ASSUME NEW f, NEW j, JobInv(j, f), NEW r, NEW got,
         r.msgs = j.work[j.txn].msgs \/ r.msgs = j.work[j.txn].msgs \cup got
  PROVE  LET k == Recorded(j, r)
         IN /\ Extends(j.work, k.work)
            /\ k.todo = j.todo /\ k.mode = j.mode
            /\ \A set : (Within(j.work, set) /\ (j.txn \in Txn => got \subseteq set[j.txn]))
                          => Within(k.work, set)
<1>. DEFINE k == Recorded(j, r)
            t == j.txn
            w == [j.work EXCEPT ![t] = r]
            d == j.dirty \/ r # j.work[t]
<1>1. k = [j EXCEPT !.work = w, !.dirty = d]
  BY DEF Recorded
<1>2. JobShape(j)
  BY DEF JobInv
<1>3. k.work = w /\ k.todo = j.todo /\ k.mode = j.mode
  <2>. HIDE DEF k, w, d
  <2>. QED  BY <1>1, <1>2 DEF JobShape
<1>4. \A u \in Txn : w[u] = IF u = t THEN r ELSE j.work[u]
  BY DEF JobInv, ArchiveOK
<1>5. Extends(j.work, w)
  <2>. HIDE DEF w
  <2>. QED  BY <1>4 DEF Extends
<1>6. \A set : (Within(j.work, set) /\ (t \in Txn => got \subseteq set[t])) => Within(w, set)
  <2>. HIDE DEF w
  <2>. QED  BY <1>4 DEF Within
<1>. HIDE DEF k, w
<1>7. /\ Extends(j.work, k.work) /\ k.todo = j.todo /\ k.mode = j.mode
      /\ \A set : (Within(j.work, set) /\ (t \in Txn => got \subseteq set[t]))
                    => Within(k.work, set)
  BY <1>3, <1>5, <1>6
<1>. QED  BY <1>7 DEF k

\* What a page makes of a job, and what a failure makes of it.
LEMMA AfterAdds ==
  ASSUME NEW f, NEW j, JobInv(j, f), NEW page
  PROVE  LET k   == AfterPage(page, j)
             got == j.got \cup NewOn(page, j)
         IN /\ Extends(j.work, k.work) /\ k.mode = j.mode
            /\ \A set : (Within(j.work, set) /\ (j.txn \in Txn => got \subseteq set[j.txn]))
                          => Within(k.work, set)
            /\ k.txn = j.txn
            /\ (k.page > j.page /\ j.at = "page" /\ j.txn \in Txn) => k.got = got
<1>. DEFINE k == AfterPage(page, j)
            got == j.got \cup NewOn(page, j)
            pages == BackfillPages(page, j)
            found == j.found \/ j.resume \in page
            next == j.page + 1
            record == j.work[j.txn]
<1>1. \/ \E r : k = Recorded(j, r) /\ r.msgs = record.msgs \cup got
      \/ k = [j EXCEPT !.page = next, !.pages = pages, !.found = found, !.got = got]
  <2>1. \A a : /\ Completed(record, got).msgs = record.msgs \cup got
              /\ Continued(record, got, a).msgs = record.msgs \cup got
    BY DEF Completed, Continued
  <2>. DEFINE byComplete == Completed(record, got)
              byOldest == Continued(record, got, Oldest(page))
              byResume == Continued(record, got, j.resume)
  <2>2. \/ k = Recorded(j, byComplete) \/ k = Recorded(j, byOldest)
        \/ k = Recorded(j, byResume)
        \/ k = [j EXCEPT !.page = next, !.pages = pages, !.found = found, !.got = got]
    BY DEF AfterPage
  <2>3. /\ byComplete.msgs = record.msgs \cup got /\ byOldest.msgs = record.msgs \cup got
        /\ byResume.msgs = record.msgs \cup got
    BY <2>1
  <2>. HIDE DEF k, got, pages, found, next, record, byComplete, byOldest, byResume
  <2>. QED  BY <2>2, <2>3
<1>2. JobShape(j)
  BY DEF JobInv
<1>. HIDE DEF k, got, pages, found, next
<1>3. CASE \E r : k = Recorded(j, r) /\ r.msgs = record.msgs \cup got
  <2>1. PICK r : k = Recorded(j, r) /\ r.msgs = record.msgs \cup got
    BY <1>3
  <2>2. /\ Extends(j.work, k.work) /\ k.mode = j.mode
        /\ \A set : (Within(j.work, set) /\ (j.txn \in Txn => got \subseteq set[j.txn]))
                      => Within(k.work, set)
    BY <2>1, RecordedAdds
  <2>3. k.page = j.page /\ k.txn = j.txn
    <3>. DEFINE w == [j.work EXCEPT ![j.txn] = r]
                d == j.dirty \/ r # j.work[j.txn]
    <3>1. k = [j EXCEPT !.work = w, !.dirty = d]
      BY <2>1 DEF Recorded
    <3>. HIDE DEF w, d
    <3>. QED  BY <1>2, <3>1 DEF JobShape
  <2>4. ~(k.page > j.page /\ j.at = "page" /\ j.txn \in Txn)
    <3>1. (j.at = "page" /\ j.txn \in Txn) => j.page \in Nat
      BY LimitsAssumption DEF JobInv, PageInv
    <3>. QED  BY <2>3, <3>1
  <2>. QED  BY <2>2, <2>3, <2>4 DEF k, got
<1>4. CASE k = [j EXCEPT !.page = next, !.pages = pages, !.found = found, !.got = got]
  <2>1. k.work = j.work /\ k.mode = j.mode /\ k.txn = j.txn /\ k.got = got
    BY <1>2, <1>4 DEF JobShape
  <2>. QED  BY <2>1 DEF Extends, Within, k, got
<1>. QED  BY <1>1, <1>3, <1>4

-----------------------------------------------------------------------------
(* A step of a process that has the lock.                                    *)

\* what a call has read of a conversation is in set[t]
GotWithin(j, set) == (j.at = "page" /\ j.txn \in Txn) => j.got \subseteq set[j.txn]

FetchedShape == fetched = [t \in Txn |-> fetched[t]]

\* A page or a failure turns the job of p into another one, whose archive has
\* all that the old one had, and nothing new but what was read.
LEMMA StepOfReading ==
  ASSUME SyncInv, FetchedShape, NEW p \in {"poll", "service"},
         Start(p) \/ ReadPage(p) \/ RequestFails(p)
  PROVE  \E k : /\ JobShape(k) /\ ArchiveOK(k.work, forgotten')
                /\ Extends(job[p].work, k.work)
                /\ (Within(job[p].work, fetched) /\ GotWithin(job[p], fetched))
                      => Within(k.work, fetched')
                /\ \/ Continue(p, k)
                   \/ /\ job' = [job EXCEPT ![p] = k] /\ UNCHANGED <<archive, stored, lock>>
                      /\ k.at = "page"
                      /\ GotWithin(job[p], fetched) => GotWithin(k, fetched')
                /\ \A t \in Txn : fetched[t] \subseteq fetched'[t]
                /\ FetchedShape'
                /\ disk' = disk /\ expired' = expired
<1>. DEFINE j == job[p]
            Result(k) ==
                /\ JobShape(k) /\ ArchiveOK(k.work, forgotten')
                /\ Extends(j.work, k.work)
                /\ (Within(j.work, fetched) /\ GotWithin(j, fetched))
                      => Within(k.work, fetched')
                /\ \/ Continue(p, k)
                   \/ /\ job' = [job EXCEPT ![p] = k] /\ UNCHANGED <<archive, stored, lock>>
                      /\ k.at = "page"
                      /\ GotWithin(j, fetched) => GotWithin(k, fetched')
                /\ \A t \in Txn : fetched[t] \subseteq fetched'[t]
                /\ FetchedShape'
                /\ disk' = disk /\ expired' = expired
<1>1. JobInv(j, forgotten) /\ \A t \in Txn : count[t] \in 0 .. MaxMessages /\ expired[t] \in Nat
  BY DEF SyncInv, Process
<1>2. CASE Start(p)
  <2>1. /\ Continue(p, j) /\ fetched' = fetched /\ forgotten' = forgotten
        /\ disk' = disk /\ expired' = expired
    BY <1>2 DEF Start, observed, worldVars
  <2>2. Extends(j.work, j.work)
    BY DEF Extends
  <2>3. Within(j.work, fetched) => Within(j.work, fetched')
    BY <2>1
  <2>4. FetchedShape'
    BY <2>1 DEF FetchedShape
  <2>5. Result(j)
    BY <1>1, <2>1, <2>2, <2>3, <2>4 DEF JobInv
  <2>. QED  BY <2>5
<1>3. CASE ReadPage(p)
  <2>. DEFINE page == PageOf(count[j.txn], j.page)
              new == NewOn(page, j)
              k == AfterPage(page, j)
              got == j.got \cup new
  <2>1. /\ j.at = "page" /\ UNCHANGED <<worldVars, disk, forgotten>>
        /\ fetched' = [fetched EXCEPT ![j.txn] = @ \cup new]
        /\ \/ /\ k.page > j.page
              /\ job' = [job EXCEPT ![p] = k]
              /\ UNCHANGED <<archive, stored, lock>>
           \/ Continue(p, k)
    BY <1>3 DEF ReadPage
  <2>2. JobShape(k) /\ k.at = "page" /\ ArchiveOK(k.work, forgotten)
    BY <1>1, <2>1, AfterKeeps
  <2>3. /\ Extends(j.work, k.work)
        /\ \A set : (Within(j.work, set) /\ (j.txn \in Txn => got \subseteq set[j.txn]))
                      => Within(k.work, set)
        /\ k.txn = j.txn
        /\ (k.page > j.page /\ j.txn \in Txn) => k.got = got
    BY <1>1, <2>1, AfterAdds
  <2>. HIDE DEF new, k
  <2>4. /\ FetchedShape' /\ \A t \in Txn : fetched[t] \subseteq fetched'[t]
        /\ j.txn \in Txn => new \subseteq fetched'[j.txn]
    BY <2>1 DEF FetchedShape
  <2>5. ASSUME GotWithin(j, fetched) PROVE j.txn \in Txn => got \subseteq fetched'[j.txn]
    BY <2>1, <2>4, <2>5 DEF GotWithin
  <2>6. ASSUME GotWithin(j, fetched), Within(j.work, fetched) PROVE Within(k.work, fetched')
    <3>1. Within(j.work, fetched')
      BY <2>4, <2>6 DEF Within
    <3>. QED  BY <2>3, <2>5, <2>6, <3>1
  <2>7. ASSUME GotWithin(j, fetched), k.page > j.page PROVE GotWithin(k, fetched')
    BY <2>3, <2>5, <2>7 DEF GotWithin
  <2>8. disk' = disk /\ expired' = expired /\ forgotten' = forgotten
    BY <2>1 DEF worldVars
  <2>9. Result(k)
    BY <2>1, <2>2, <2>3, <2>4, <2>6, <2>7, <2>8
  <2>. QED  BY <2>9
<1>4. CASE RequestFails(p)
  <2>. DEFINE r == Failed(j.work[j.txn])
              k == IF j.mode = "sync" THEN Recorded(j, r) ELSE j
  <2>1. /\ Continue(p, k) /\ UNCHANGED <<worldVars, disk, fetched>>
        /\ forgotten \subseteq forgotten'
        /\ (j.mode = "sync" /\ j.work[j.txn].status = "partial") => j.txn \in forgotten'
    BY <1>4 DEF RequestFails
  <2>2. JobShape(j) /\ ArchiveOK(j.work, forgotten')
    BY <1>1, <2>1, MoreForgotten DEF JobInv
  <2>3. JobShape(k) /\ ArchiveOK(k.work, forgotten')
    BY <2>1, <2>2, FailedKeeps
  <2>4. Extends(j.work, k.work) /\ \A set : Within(j.work, set) => Within(k.work, set)
    <3>1. CASE j.mode # "sync"
      BY <3>1 DEF Extends
    <3>2. CASE j.mode = "sync" /\ j.txn \notin Txn
      <4>1. k.work = j.work
        BY <2>2, <3>2, RecordedOther
      <4>. QED  BY <4>1 DEF Extends
    <3>3. CASE j.mode = "sync" /\ j.txn \in Txn
      <4>1. r.msgs = j.work[j.txn].msgs
        BY <2>2, <3>3 DEF Failed, ArchiveOK, Known
      <4>2. /\ Extends(j.work, Recorded(j, r).work)
            /\ \A set : (Within(j.work, set) /\ (j.txn \in Txn => {} \subseteq set[j.txn]))
                          => Within(Recorded(j, r).work, set)
        BY <1>1, <4>1, RecordedAdds
      <4>. HIDE DEF r
      <4>. QED  BY <3>3, <4>2
    <3>. QED  BY <3>1, <3>2, <3>3
  <2>5. FetchedShape' /\ fetched' = fetched /\ disk' = disk /\ expired' = expired
    BY <2>1 DEF FetchedShape, worldVars
  <2>. HIDE DEF k
  <2>6. Result(k)
    BY <2>1, <2>3, <2>4, <2>5
  <2>. QED  BY <2>6
<1>. QED  BY <1>2, <1>3, <1>4

\* Pruning takes away expired messages and no others.
LEMMA PrunedFacts ==
  ASSUME NEW f, NEW a, ArchiveOK(a, f), NEW t \in Txn
  PROVE  /\ Pruned(a)[t].msgs \subseteq a[t].msgs
         /\ \A i \in a[t].msgs : i > expired[t] => i \in Pruned(a)[t].msgs
<1>. DEFINE r == a[t]
            set == {i \in r.msgs : i > expired[t]}
<1>1. r \in Known
  BY DEF ArchiveOK
<1>2. Pruned(a)[t] = IF Retention THEN [r EXCEPT !.msgs = set] ELSE r
  BY DEF Pruned
<1>3. set \subseteq r.msgs /\ \A i \in r.msgs : i > expired[t] => i \in set
  OBVIOUS
<1>. HIDE DEF r, set
<1>4. [r EXCEPT !.msgs = set].msgs = set
  BY <1>1 DEF Known
<1>. QED  BY <1>2, <1>3, <1>4 DEF r

\* What p writes when it goes on with job k, and the job it then has.
LEMMA ContinueWrites ==
  ASSUME SyncInv, NEW p \in Process, NEW k, JobShape(k), Continue(p, k)
  PROVE  /\ archive' \in {Pruned(k.work), k.work, archive}
         /\ stored' = stored \/ stored'.history = archive'
         /\ \E n : /\ job' = [job EXCEPT ![p] = n]
                   /\ \/ n.at \notin {"start", "page"} /\ n.work = EmptyArchive
                      \/ /\ n.at = "page" /\ n.work = k.work /\ n.got = {}
                         /\ archive' \in {k.work, archive}
<1>1. CASE k.todo = <<>>
  <2>. DEFINE kept == Pruned(k.work)
              dirty == k.dirty \/ kept # k.work
              n == [Waiting(k.mode, k.skip) EXCEPT !.at = "save"]
  <2>1. /\ archive' = kept
        /\ stored' = CASE k.mode = "sync" -> [history |-> kept, cursor |-> k.next]
                       [] dirty /\ k.mode = "scan" -> [stored EXCEPT !.history = kept]
                       [] OTHER -> stored
    BY <1>1 DEF Continue, Close
  <2>2. \/ job' = [job EXCEPT ![p] = n]
        \/ job' = [job EXCEPT ![p] = Following(p)]
    BY <1>1 DEF Continue, Close, Release
  <2>3. /\ n.at \notin {"start", "page"} /\ n.work = EmptyArchive
        /\ Following(p).at \notin {"start", "page"} /\ Following(p).work = EmptyArchive
    BY WaitingAt
  <2>. HIDE DEF kept, dirty, n
  <2>4. \/ stored' = [history |-> kept, cursor |-> k.next]
        \/ stored' = [stored EXCEPT !.history = kept]
        \/ stored' = stored
    BY <2>1
  <2>5. stored' = stored \/ stored'.history = kept
    BY <2>4 DEF SyncInv
  <2>6. archive' \in {Pruned(k.work), k.work, archive}
    BY <2>1 DEF kept
  <2>. QED  BY <2>1, <2>2, <2>3, <2>5, <2>6
<1>2. CASE k.todo # <<>>
  <2>1. /\ job' = [job EXCEPT ![p] = Opened(k)]
        /\ archive' = IF k.mode = "scan" THEN k.work ELSE archive
        /\ stored' = stored
    BY <1>2 DEF Continue
  <2>2. Opened(k).at = "page" /\ Opened(k).work = k.work /\ Opened(k).got = {}
    <3>. DEFINE n == Opened(k)
                t == Head(k.todo)
                rest == Tail(k.todo)
                resume == Resume(k.work[t])
    <3>1. n = [k EXCEPT !.at = "page", !.todo = rest, !.txn = t, !.resume = resume,
                        !.found = FALSE, !.page = 1, !.pages = 0, !.got = {}]
      BY DEF Opened
    <3>. HIDE DEF n, t, rest, resume
    <3>2. n.at = "page" /\ n.work = k.work /\ n.got = {}
      BY <3>1 DEF JobShape
    <3>. QED  BY <3>2 DEF n
  <2>3. archive' \in {k.work, archive}
    BY <2>1
  <2>. QED  BY <2>1, <2>2, <2>3
<1>. QED  BY <1>1, <1>2

-----------------------------------------------------------------------------
(* Nothing is lost.                                                         *)

\* What a process works on while it has the lock is never behind the archive.
WorkInv ==
  \A p \in Process : job[p].at \in {"start", "page"} => Extends(archive, job[p].work)

LEMMA WorkStep ==
  ASSUME SyncInv, LockInv, WorkInv, NEW p \in Process, NEW k, job' = [job EXCEPT ![p] = k],
         archive' = archive \/ lock \in {p, "free"},
         k.at \in {"start", "page"} => Extends(archive', k.work)
  PROVE  WorkInv'
<1>1. job'[p] = k /\ \A q \in Process \ {p} : job'[q] = job[q]
  BY DEF SyncInv
<1>2. ASSUME NEW q \in Process, job'[q].at \in {"start", "page"}
      PROVE  Extends(archive', job'[q].work)
  <2>1. CASE q = p
    BY <1>1, <1>2, <2>1
  <2>2. CASE q # p
    <3>1. job[q].at \in {"start", "page"} /\ lock = q
      BY <1>1, <1>2, <2>2 DEF LockInv
    <3>2. archive' = archive
      BY <2>2, <3>1 DEF Process
    <3>. QED  BY <1>1, <2>2, <3>1, <3>2 DEF WorkInv
  <2>. QED  BY <2>1, <2>2
<1>. QED  BY <1>2 DEF WorkInv, Extends

\* A step of a process that reads: it adds to the archive, but for what expired.
LEMMA ReadingMerges ==
  ASSUME SyncInv, LockInv, WorkInv, FetchedShape, NEW p \in {"poll", "service"},
         Start(p) \/ ReadPage(p) \/ RequestFails(p)
  PROVE  WorkInv' /\ \A t \in Txn : Kept(t) \subseteq archive'[t].msgs
<1>1. PICK k : /\ JobShape(k) /\ ArchiveOK(k.work, forgotten')
               /\ Extends(job[p].work, k.work)
               /\ \/ Continue(p, k)
                  \/ /\ job' = [job EXCEPT ![p] = k] /\ UNCHANGED <<archive, stored, lock>>
                     /\ k.at = "page"
  BY StepOfReading
<1>2. p \in Process /\ job[p].at \in {"start", "page"} /\ lock = p
  BY DEF Start, ReadPage, RequestFails, LockInv, Process
<1>3. Extends(archive, k.work)
  BY <1>1, <1>2 DEF WorkInv, Extends
<1>4. CASE Continue(p, k)
  <2>1. archive' \in {Pruned(k.work), k.work, archive}
    BY <1>1, <1>2, <1>4, ContinueWrites
  <2>2. PICK n : /\ job' = [job EXCEPT ![p] = n]
                 /\ \/ n.at \notin {"start", "page"} /\ n.work = EmptyArchive
                    \/ /\ n.at = "page" /\ n.work = k.work /\ n.got = {}
                       /\ archive' \in {k.work, archive}
    BY <1>1, <1>2, <1>4, ContinueWrites
  <2>3. n.at \in {"start", "page"} => Extends(archive', n.work)
    BY <1>3, <2>2 DEF Extends
  <2>4. WorkInv'
    BY <1>2, <2>2, <2>3, WorkStep
  <2>5. ASSUME NEW t \in Txn, NEW i \in Kept(t) PROVE i \in archive'[t].msgs
    <3>1. i \in archive[t].msgs /\ i \in k.work[t].msgs /\ i > expired[t]
      BY <1>3 DEF Kept, Extends
    <3>2. i \in Pruned(k.work)[t].msgs
      BY <1>1, <3>1, PrunedFacts
    <3>. QED  BY <2>1, <3>1, <3>2
  <2>. QED  BY <2>4, <2>5
<1>5. CASE ~Continue(p, k)
  <2>1. WorkInv'
    BY <1>1, <1>2, <1>3, <1>5, WorkStep
  <2>. QED  BY <1>1, <1>5, <2>1 DEF Kept
<1>. QED  BY <1>4, <1>5

\* what NothingLost says of a step
Merges ==
  \A t \in Txn : \/ Kept(t) \subseteq archive'[t].msgs
                 \/ archive' = EmptyArchive /\ job'["clear"].at = "save"
                 \/ archive' = disk.history /\ job' = [p \in Process |-> IdleJob]

\* Every other step leaves the archive alone, clears it, or restarts.
LEMMA MergesNext ==
  ASSUME SyncInv, LockInv, WorkInv, FetchedShape, [Next]_vars
  PROVE  WorkInv' /\ Merges
<1>1. ASSUME archive' = archive PROVE Merges
  BY <1>1 DEF Merges, Kept
<1>2. ASSUME NEW p \in Process, NEW k, job' = [job EXCEPT ![p] = k], archive' = archive,
             k.at \notin {"start", "page"}
      PROVE  WorkInv' /\ Merges
  <2>1. WorkInv'
    BY <1>2, WorkStep
  <2>. QED  BY <1>1, <1>2, <2>1
<1>3. CASE BeginPoll
  <2>1. Waiting("scan", {}).at = "wait"
    BY WaitingAt
  <2>. QED  BY <1>2, <1>3, <2>1 DEF BeginPoll, Process
<1>4. CASE ScanSkipped \/ BeginSync
  <2>1. Waiting("sync", {}).at = "wait"
    BY WaitingAt
  <2>. QED  BY <1>2, <1>4, <2>1 DEF ScanSkipped, BeginSync, Process
<1>5. ASSUME NEW p \in {"poll", "service"}, Operation(p) PROVE WorkInv' /\ Merges
  <2>. DEFINE j == job[p]
  <2>1. p \in Process
    BY DEF Process
  <2>2. CASE SyncNothing(p)
    <3>1. IdleJob.at = "idle"
      BY WaitingAt
    <3>. QED  BY <1>2, <2>1, <2>2, <3>1 DEF SyncNothing
  <2>3. CASE Acquire(p)
    <3>. DEFINE q == Planned(p)
                k == [q EXCEPT !.at = "start"]
    <3>1. JobShape(q) /\ q.work = archive
      BY <2>1, PlannedKeeps DEF SyncInv, JobInv
    <3>2. job' = [job EXCEPT ![p] = k] /\ archive' = archive
      BY <2>3 DEF Acquire
    <3>3. k.work = archive
      <4>. HIDE DEF q
      <4>. QED  BY <3>1 DEF JobShape
    <3>. HIDE DEF k
    <3>4. Extends(archive', k.work)
      BY <3>2, <3>3 DEF Extends
    <3>5. WorkInv'
      BY <2>1, <3>2, <3>4, WorkStep
    <3>. QED  BY <1>1, <3>2, <3>5
  <2>4. CASE Start(p) \/ ReadPage(p) \/ RequestFails(p)
    BY <2>4, ReadingMerges DEF Merges
  <2>5. CASE TimesOut(p)
    <3>. DEFINE k == IF j.mode = "scan" THEN Waiting("sync", {}) ELSE IdleJob
    <3>1. k.at \in {"idle", "wait"}
      BY WaitingAt
    <3>2. job' = [job EXCEPT ![p] = k] /\ archive' = archive
      BY <2>5 DEF TimesOut, Release
    <3>. HIDE DEF k
    <3>. QED  BY <1>2, <2>1, <3>1, <3>2
  <2>6. CASE SaveArchive(p)
    <3>1. Following(p).at \in {"idle", "wait"}
      BY WaitingAt
    <3>. QED  BY <1>2, <2>1, <2>6, <3>1 DEF SaveArchive, Release
  <2>. QED  BY <1>5, <2>2, <2>3, <2>4, <2>5, <2>6 DEF Operation
<1>6. CASE ClearMessages
  <2>1. /\ archive' = EmptyArchive /\ job' = [job EXCEPT !["clear"] = Saving]
        /\ lock = "free" /\ "clear" \in Process
    BY <1>6 DEF ClearMessages, Process
  <2>2. Saving.at = "save"
    BY WaitingAt
  <2>3. WorkInv'
    BY <2>1, <2>2, WorkStep
  <2>4. job'["clear"].at = "save"
    BY <2>1, <2>2 DEF SyncInv
  <2>. QED  BY <2>1, <2>3, <2>4 DEF Merges
<1>7. CASE ClearSaved
  <2>1. IdleJob.at = "idle"
    BY WaitingAt
  <2>. QED  BY <1>2, <1>7, <2>1 DEF ClearSaved, Process
<1>8. CASE Restart
  <2>1. archive' = disk.history /\ job' = [p \in Process |-> IdleJob]
    BY <1>8 DEF Restart
  <2>2. IdleJob.at = "idle"
    BY WaitingAt
  <2>. QED  BY <2>1, <2>2 DEF Merges, WorkInv
<1>9. CASE SaveOthers \/ UNCHANGED vars \/ \E t \in Txn : MessageSent(t) \/ Expire(t)
  <2>1. archive' = archive /\ job' = job
    BY <1>9 DEF SaveOthers, MessageSent, Expire, vars
  <2>. QED  BY <1>1, <2>1 DEF WorkInv, Extends
<1>. QED  BY <1>3, <1>4, <1>5, <1>6, <1>7, <1>8, <1>9 DEF Next

-----------------------------------------------------------------------------
(* What was cleared stays away.                                             *)

\* Whatever is archived, saved or being worked on was read since the last clear.
FetchedInv ==
  /\ FetchedShape
  /\ Within(archive, fetched) /\ Within(stored.history, fetched) /\ Within(disk.history, fetched)
  /\ \A p \in Process : Within(job[p].work, fetched) /\ GotWithin(job[p], fetched)

LEMMA EmptyWithin == \A set : Within(EmptyArchive, set)
BY DEF Within, EmptyArchive, NoRecord

LEMMA FetchedStep ==
  ASSUME SyncInv, FetchedInv, NEW p \in Process, NEW k, job' = [job EXCEPT ![p] = k],
         FetchedShape', \A t \in Txn : fetched[t] \subseteq fetched'[t],
         Within(archive', fetched'), Within(stored'.history, fetched'),
         disk' \in {disk, stored}, Within(k.work, fetched'), GotWithin(k, fetched')
  PROVE  FetchedInv'
<1>1. job'[p] = k /\ \A q \in Process \ {p} : job'[q] = job[q]
  BY DEF SyncInv
<1>2. \A a : Within(a, fetched) => Within(a, fetched')
  BY DEF Within
<1>3. Within(disk'.history, fetched')
  BY <1>2 DEF FetchedInv
<1>4. ASSUME NEW q \in Process PROVE Within(job'[q].work, fetched') /\ GotWithin(job'[q], fetched')
  <2>1. CASE q = p
    BY <1>1, <2>1
  <2>2. CASE q # p
    BY <1>1, <1>2, <2>2 DEF FetchedInv, GotWithin
  <2>. QED  BY <2>1, <2>2
<1>5. (Within(archive, fetched) /\ Within(stored.history, fetched) /\ Within(disk.history, fetched))'
  BY <1>3 DEF Within
<1>6. (\A q \in Process : Within(job[q].work, fetched) /\ GotWithin(job[q], fetched))'
  BY <1>4 DEF Within, GotWithin
<1>. QED  BY <1>5, <1>6 DEF FetchedInv

\* A step of a process that reads: what it merges it has read.
LEMMA ReadingFetches ==
  ASSUME SyncInv, FetchedInv, NEW p \in {"poll", "service"},
         Start(p) \/ ReadPage(p) \/ RequestFails(p)
  PROVE  FetchedInv'
<1>1. p \in Process /\ Within(job[p].work, fetched) /\ GotWithin(job[p], fetched)
  BY DEF FetchedInv, Process
<1>2. PICK k : /\ JobShape(k) /\ ArchiveOK(k.work, forgotten')
               /\ Within(k.work, fetched')
               /\ \/ Continue(p, k)
                  \/ /\ job' = [job EXCEPT ![p] = k] /\ UNCHANGED <<archive, stored, lock>>
                     /\ k.at = "page"
                     /\ GotWithin(k, fetched')
               /\ \A t \in Txn : fetched[t] \subseteq fetched'[t]
               /\ FetchedShape'
               /\ disk' = disk
  BY <1>1, StepOfReading DEF FetchedInv
<1>3. Within(archive, fetched') /\ Within(stored.history, fetched')
  BY <1>2 DEF FetchedInv, Within
<1>4. CASE Continue(p, k)
  <2>1. archive' \in {Pruned(k.work), k.work, archive} /\ (stored' = stored \/ stored'.history = archive')
    BY <1>1, <1>2, <1>4, ContinueWrites
  <2>2. PICK n : /\ job' = [job EXCEPT ![p] = n]
                 /\ \/ n.at \notin {"start", "page"} /\ n.work = EmptyArchive
                    \/ /\ n.at = "page" /\ n.work = k.work /\ n.got = {}
                       /\ archive' \in {k.work, archive}
    BY <1>1, <1>2, <1>4, ContinueWrites
  <2>3. Within(Pruned(k.work), fetched')
    BY <1>2, PrunedFacts DEF Within
  <2>4. Within(archive', fetched') /\ Within(stored'.history, fetched')
    BY <1>2, <1>3, <2>1, <2>3
  <2>5. Within(n.work, fetched') /\ GotWithin(n, fetched')
    BY <1>2, <2>2, EmptyWithin DEF GotWithin
  <2>. QED  BY <1>1, <1>2, <2>2, <2>4, <2>5, FetchedStep
<1>5. CASE ~Continue(p, k)
  BY <1>1, <1>2, <1>3, <1>5, FetchedStep
<1>. QED  BY <1>4, <1>5

LEMMA FetchedNext ==
  ASSUME SyncInv, LockInv, FetchedInv, [Next]_vars
  PROVE  FetchedInv'
<1>1. ASSUME NEW p \in Process, NEW k, job' = [job EXCEPT ![p] = k], fetched' = fetched,
             archive' = archive, stored' = stored, disk' \in {disk, stored},
             k.at # "page", k.work \in {EmptyArchive, archive}
      PROVE  FetchedInv'
  <2>1. Within(k.work, fetched) /\ GotWithin(k, fetched)
    BY <1>1, EmptyWithin DEF FetchedInv, GotWithin
  <2>2. FetchedShape' /\ \A t \in Txn : fetched[t] \subseteq fetched'[t]
    BY <1>1 DEF FetchedInv, FetchedShape
  <2>. QED  BY <1>1, <2>1, <2>2, FetchedStep DEF FetchedInv
<1>2. CASE BeginPoll
  <2>1. Waiting("scan", {}).at = "wait" /\ Waiting("scan", {}).work = EmptyArchive
    BY WaitingAt
  <2>. QED  BY <1>1, <1>2, <2>1 DEF BeginPoll, Process, observed
<1>3. CASE ScanSkipped \/ BeginSync
  <2>1. Waiting("sync", {}).at = "wait" /\ Waiting("sync", {}).work = EmptyArchive
    BY WaitingAt
  <2>. QED  BY <1>1, <1>3, <2>1 DEF ScanSkipped, BeginSync, Process, observed
<1>4. ASSUME NEW p \in {"poll", "service"}, Operation(p) PROVE FetchedInv'
  <2>. DEFINE j == job[p]
  <2>1. p \in Process
    BY DEF Process
  <2>2. CASE SyncNothing(p)
    <3>1. IdleJob.at = "idle" /\ IdleJob.work = EmptyArchive
      BY WaitingAt
    <3>. QED  BY <1>1, <2>1, <2>2, <3>1 DEF SyncNothing, observed
  <2>3. CASE Acquire(p)
    <3>. DEFINE q == Planned(p)
                k == [q EXCEPT !.at = "start"]
    <3>1. JobShape(q) /\ q.work = archive
      BY <2>1, PlannedKeeps DEF SyncInv, JobInv
    <3>2. job' = [job EXCEPT ![p] = k] /\ UNCHANGED <<archive, stored, disk, fetched>>
      BY <2>3 DEF Acquire, observed
    <3>3. k.work = archive /\ k.at = "start"
      <4>. HIDE DEF q
      <4>. QED  BY <3>1 DEF JobShape
    <3>. HIDE DEF k
    <3>. QED  BY <1>1, <2>1, <3>2, <3>3
  <2>4. CASE Start(p) \/ ReadPage(p) \/ RequestFails(p)
    BY <2>4, ReadingFetches
  <2>5. CASE TimesOut(p)
    <3>. DEFINE k == IF j.mode = "scan" THEN Waiting("sync", {}) ELSE IdleJob
    <3>1. k.at \in {"idle", "wait"} /\ k.work = EmptyArchive
      BY WaitingAt
    <3>2. job' = [job EXCEPT ![p] = k] /\ UNCHANGED <<archive, stored, disk, fetched>>
      BY <2>5 DEF TimesOut, Release, observed
    <3>. HIDE DEF k
    <3>. QED  BY <1>1, <2>1, <3>1, <3>2
  <2>6. CASE SaveArchive(p)
    <3>1. Following(p).at \in {"idle", "wait"} /\ Following(p).work = EmptyArchive
      BY WaitingAt
    <3>. QED  BY <1>1, <2>1, <2>6, <3>1 DEF SaveArchive, Release, observed
  <2>. QED  BY <1>4, <2>2, <2>3, <2>4, <2>5, <2>6 DEF Operation
<1>5. CASE ClearMessages
  <2>1. /\ archive' = EmptyArchive /\ stored' = Emptied /\ disk' = disk
        /\ job' = [job EXCEPT !["clear"] = Saving] /\ fetched' = fetched /\ "clear" \in Process
    BY <1>5 DEF ClearMessages, Process, observed
  <2>2. Saving.at = "save" /\ Saving.work = EmptyArchive
    BY WaitingAt
  <2>3. FetchedShape' /\ \A t \in Txn : fetched[t] \subseteq fetched'[t]
    BY <2>1 DEF FetchedInv, FetchedShape
  <2>4. stored'.history = EmptyArchive
    BY <2>1 DEF Emptied
  <2>5. Within(Saving.work, fetched') /\ GotWithin(Saving, fetched')
    BY <2>2, EmptyWithin DEF GotWithin
  <2>. QED  BY <2>1, <2>3, <2>4, <2>5, EmptyWithin, FetchedStep
<1>6. CASE ClearSaved
  <2>1. /\ job' = [job EXCEPT !["clear"] = IdleJob] /\ disk' = stored
        /\ fetched' = [t \in Txn |-> {}]
        /\ UNCHANGED <<archive, stored>> /\ lock = "clear"
    BY <1>6 DEF ClearSaved, LockInv, Process
  <2>2. archive = EmptyArchive /\ stored.history = EmptyArchive
    BY <2>1 DEF LockInv, Emptied
  <2>3. IdleJob.at = "idle" /\ IdleJob.work = EmptyArchive
    BY WaitingAt
  <2>4. ASSUME NEW p \in Process PROVE job'[p].work = EmptyArchive /\ job'[p].at # "page"
    <3>1. CASE p = "clear"
      BY <2>1, <2>3, <3>1 DEF SyncInv
    <3>2. CASE p # "clear"
      <4>1. job'[p] = job[p] /\ job[p].at \notin {"start", "page"}
        BY <2>1, <3>2 DEF SyncInv, LockInv, Process
      <4>. QED  BY <4>1 DEF LockInv
    <3>. QED  BY <3>1, <3>2
  <2>5. FetchedShape'
    BY <2>1 DEF FetchedShape
  <2>6. (Within(archive, fetched) /\ Within(stored.history, fetched) /\ Within(disk.history, fetched))'
    BY <2>1, <2>2, EmptyWithin DEF Within
  <2>7. (\A p \in Process : Within(job[p].work, fetched) /\ GotWithin(job[p], fetched))'
    BY <2>4, EmptyWithin DEF Within, GotWithin
  <2>. QED  BY <2>5, <2>6, <2>7 DEF FetchedInv
<1>7. CASE Restart
  <2>1. /\ archive' = disk.history /\ stored' = disk /\ disk' = disk /\ fetched' = fetched
        /\ \A p \in Process : job'[p] = IdleJob
    BY <1>7 DEF Restart, observed
  <2>2. IdleJob.at = "idle" /\ IdleJob.work = EmptyArchive
    BY WaitingAt
  <2>3. (Within(archive, fetched) /\ Within(stored.history, fetched) /\ Within(disk.history, fetched))'
    BY <2>1 DEF FetchedInv, Within
  <2>4. (\A p \in Process : Within(job[p].work, fetched) /\ GotWithin(job[p], fetched))'
    BY <2>1, <2>2, EmptyWithin DEF Within, GotWithin
  <2>5. FetchedShape'
    BY <2>1 DEF FetchedInv, FetchedShape
  <2>. QED  BY <2>3, <2>4, <2>5 DEF FetchedInv
<1>8. CASE SaveOthers \/ UNCHANGED vars \/ \E t \in Txn : MessageSent(t) \/ Expire(t)
  <2>1. archive' = archive /\ job' = job /\ stored' = stored /\ disk' \in {disk, stored}
        /\ fetched' = fetched
    BY <1>8 DEF SaveOthers, MessageSent, Expire, vars, observed
  <2>. QED  BY <2>1 DEF FetchedInv, FetchedShape, Within, GotWithin
<1>. QED  BY <1>2, <1>3, <1>4, <1>5, <1>6, <1>7, <1>8 DEF Next

-----------------------------------------------------------------------------
(* The theorems.                                                            *)

LEMMA MergeInit == Init => WorkInv /\ FetchedInv
<1>. SUFFICES ASSUME Init PROVE WorkInv /\ FetchedInv
  OBVIOUS
<1>1. IdleJob.at = "idle" /\ IdleJob.work = EmptyArchive
  BY WaitingAt
<1>2. /\ archive = EmptyArchive /\ stored.history = EmptyArchive /\ disk.history = EmptyArchive
      /\ \A p \in Process : job[p] = IdleJob
      /\ fetched = [t \in Txn |-> {}]
  BY DEF Init
<1>3. FetchedShape
  BY <1>2 DEF FetchedShape
<1>. QED  BY <1>1, <1>2, <1>3, EmptyWithin DEF WorkInv, FetchedInv, GotWithin

LEMMA MergeInvariant ==
  Spec => [](SyncInv /\ LockInv /\ WorkInv /\ FetchedInv)
<1>1. Init => SyncInv /\ LockInv /\ WorkInv /\ FetchedInv
  BY SyncInvInit, LockInvInit, MergeInit
<1>2. SyncInv /\ LockInv /\ WorkInv /\ FetchedInv /\ [Next]_vars
        => SyncInv' /\ LockInv' /\ WorkInv' /\ FetchedInv'
  BY SyncInvNext, LockInvNext, MergesNext, FetchedNext DEF FetchedInv
<1>. QED  BY <1>1, <1>2, PTL DEF Spec

\* Once clear_message_history has returned, nothing that was read before it is
\* in the archive or in the file again, whatever scan or sync was under way.
THEOREM ClearsAreFinal == Spec => []ClearIsFinal
<1>1. FetchedInv => ClearIsFinal
  BY DEF FetchedInv, Within, ClearIsFinal
<1>. QED  BY <1>1, MergeInvariant, PTL

\* A scan and a sync of _refresh_awaiting_replies and sync_message_history
\* undo nothing of what the other merged: only a clear or a restart takes an
\* archived message that is still retained out of the archive.
THEOREM NothingIsLost == Spec => NothingLost
<1>1. SyncInv /\ LockInv /\ WorkInv /\ FetchedInv /\ [Next]_vars => [Merges]_vars
  BY MergesNext DEF FetchedInv
<1>2. Spec => [][Next]_vars
  BY PTL DEF Spec
<1>3. Spec => [][Merges]_vars
  BY <1>1, <1>2, MergeInvariant, PTL
<1>. QED  BY <1>3, PTL DEF NothingLost, Merges
=============================================================================
