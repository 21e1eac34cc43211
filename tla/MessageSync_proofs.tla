-------------------------- MODULE MessageSync_proofs --------------------------
(***************************************************************************)
(* Proofs that a conversation called complete has no hole unless a request  *)
(* of a backfill failed, that the types are kept, and that the rotation of  *)
(* select_sync_batch leaves no conversation out.                            *)
(*                                                                          *)
(* A call that resumes at an anchor reads every page from the newest on, so *)
(* what it has and what the record had cover all that lies above the page   *)
(* it reads next; messages that arrive meanwhile only move that page up.  A *)
(* call without an anchor meets nothing known before its last page, and the *)
(* record it started from is complete, or empty.  PageInv says both.        *)
(*                                                                          *)
(* A clear forgets where a backfill failed, so it must leave nothing of     *)
(* such a conversation behind, in no record and no job: LockInv says why.   *)
(***************************************************************************)
EXTENDS MessageSync, FiniteSetTheorems, WellFoundedInduction, TLAPS

-----------------------------------------------------------------------------
(* The invariant.                                                           *)

\* A record is true, given where (f) a backfill failed: "complete" covers
\* everything, as does a failed record, which keeps what it had, and the anchor
\* of a partial one is archived, or expired since.
RecordOK(r, t, f) ==
  /\ r.msgs \subseteq 1 .. count[t]
  /\ r.status = "none" => r.msgs = {}
  /\ (r.status \in {"complete", "failed"} /\ t \notin f) => Covered(r.msgs, 0, t)
  /\ r.status = "partial" =>
       r.anchor \in 1 .. count[t] /\ (r.anchor \in r.msgs \/ r.anchor <= expired[t])

Known == [msgs : SUBSET Message, status : {"none", "complete", "partial", "failed"},
          anchor : 0 .. MaxMessages]

ArchiveOK(a, f) ==
  /\ a \in [Txn -> Known]
  /\ \A t \in Txn : RecordOK(a[t], t, f)

\* the call for conversation t of job j, about to read its next page
PageInv(j, t) ==
  LET r   == j.work[t]
      top == Below(count[t], j.page - 1)
  IN /\ j.page \in 1 .. MaxPages
     /\ j.got \subseteq 1 .. count[t]
     /\ Covered(r.msgs \cup j.got, top, t)
     /\ j.resume = Resume(r)
     /\ (j.resume = 0 /\ j.page > 1) => \A i \in r.msgs : i <= top

\* j has the fields of a job
JobShape(j) ==
  j = [at |-> j.at, mode |-> j.mode, skip |-> j.skip, todo |-> j.todo, txn |-> j.txn,
       resume |-> j.resume, found |-> j.found, page |-> j.page, pages |-> j.pages,
       got |-> j.got, work |-> j.work, dirty |-> j.dirty, next |-> j.next]

JobInv(j, f) ==
  /\ JobShape(j)
  /\ ArchiveOK(j.work, f)
  /\ (j.at = "page" /\ j.txn \in Txn) => PageInv(j, j.txn)

SyncInv ==
  /\ count \in [Txn -> 0 .. MaxMessages]
  /\ expired \in [Txn -> Nat]
  /\ ArchiveOK(archive, forgotten)
  /\ ArchiveOK(stored.history, forgotten)
  /\ ArchiveOK(disk.history, forgotten)
  /\ stored = [history |-> stored.history, cursor |-> stored.cursor]
  /\ disk = [history |-> disk.history, cursor |-> disk.cursor]
  /\ job = [p \in Process |-> job[p]]
  /\ \A p \in Process : JobInv(job[p], forgotten)

-----------------------------------------------------------------------------
(* Pages.                                                                   *)

\* The pages of a list of messages meet without a gap, and one that is not
\* full is the last.
LEMMA BelowFacts ==
  ASSUME NEW n \in Nat, NEW k \in Nat
  PROVE  /\ Below(n, k) \in Int
         /\ Below(n + 1, k) = Below(n, k) + 1
         /\ Below(n, 0) = n
         /\ k > 0 => Below(n, k - 1) = Below(n, k) + PerPage
         /\ Below(n, k) <= n
<1>1. k * PerPage \in Nat
  BY LimitsAssumption
<1>2. k > 0 => (k - 1) * PerPage = k * PerPage - PerPage
  BY LimitsAssumption
<1>3. 0 * PerPage = 0
  BY LimitsAssumption
<1>. DEFINE m == k * PerPage
<1>4. k > 0 => Below(n, k - 1) = n - (m - PerPage)
  BY <1>2 DEF Below
<1>5. Below(n, k) = n - m /\ Below(n + 1, k) = (n + 1) - m /\ Below(n, 0) = n - 0
  BY <1>3 DEF Below
<1>6. m \in Nat
  BY <1>1
<1>. HIDE DEF m
<1>. QED  BY <1>4, <1>5, <1>6, LimitsAssumption

LEMMA PageFacts ==
  ASSUME NEW n \in Nat, NEW k \in Nat \ {0}
  PROVE  /\ PageOf(n, k) \subseteq 1 .. n
         /\ Cardinality(PageOf(n, k)) < PerPage => Below(n, k) < 0
         /\ ~(Cardinality(PageOf(n, k)) < PerPage) => Oldest(PageOf(n, k)) \in PageOf(n, k)
<1>. DEFINE b == Below(n, k)
            a == Below(n, k - 1)
<1>1. b \in Int /\ a \in Int /\ a = b + PerPage /\ a <= n
  BY BelowFacts, LimitsAssumption
<1>2. PageOf(n, k) = {i \in 1 .. n : b < i /\ i <= a}
  BY DEF PageOf
<1>. HIDE DEF a, b
<1>3. CASE b >= 0
  <2>1. PageOf(n, k) = (b + 1) .. a
    BY <1>1, <1>2, <1>3, LimitsAssumption
  <2>2. Cardinality((b + 1) .. a) = PerPage
    <3>1. b + 1 \in Int /\ a \in Int /\ ~(b + 1 > a) /\ a - (b + 1) + 1 = PerPage
      BY <1>1, LimitsAssumption
    <3>. QED  BY <3>1, FS_Interval
  <2>3. b + 1 \in PageOf(n, k) /\ \A j \in PageOf(n, k) : b + 1 <= j
    BY <2>1, <1>1, LimitsAssumption
  <2>4. Oldest(PageOf(n, k)) \in PageOf(n, k)
    BY <2>3 DEF Oldest
  <2>5. ~(Cardinality(PageOf(n, k)) < PerPage)
    BY <2>1, <2>2, LimitsAssumption
  <2>6. PageOf(n, k) \subseteq 1 .. n
    BY <1>2
  <2>. QED  BY <2>4, <2>5, <2>6
<1>4. CASE b < 0
  <2>1. CASE a < 1
    <3>1. PageOf(n, k) = {}
      BY <1>1, <1>2, <2>1
    <3>. QED  BY <3>1, FS_EmptySet, LimitsAssumption, <1>4 DEF b
  <2>2. CASE a >= 1
    <3>1. PageOf(n, k) = 1 .. a
      BY <1>1, <1>2, <1>4, <2>2
    <3>2. Cardinality(1 .. a) = a
      <4>1. 1 \in Int /\ a \in Int /\ ~(1 > a) /\ a - 1 + 1 = a
        BY <1>1, <2>2
      <4>. QED  BY <4>1, FS_Interval
    <3>3. a < PerPage
      BY <1>1, <1>4, LimitsAssumption
    <3>. QED  BY <1>1, <1>2, <1>4, <3>1, <3>2, <3>3, LimitsAssumption DEF b
  <2>. QED  BY <1>1, <2>1, <2>2
<1>. QED  BY <1>1, <1>3, <1>4
-----------------------------------------------------------------------------
(* Records.                                                                 *)

\* A record stays true when messages arrive and when messages expire.
LEMMA RecordLater ==
  ASSUME NEW f, NEW t \in Txn, NEW r \in Known, RecordOK(r, t, f),
         count[t] \in Nat, count'[t] \in Nat, expired[t] \in Nat, expired'[t] \in Nat,
         count[t] <= count'[t], expired[t] <= expired'[t]
  PROVE  RecordOK(r, t, f)'
<1>1. r.msgs \subseteq 1 .. count'[t]
  BY DEF RecordOK
<1>2. (r.status \in {"complete", "failed"} /\ t \notin f) => Covered(r.msgs, 0, t)'
  BY DEF RecordOK, Covered, Message
<1>3. r.status = "partial" =>
        r.anchor \in 1 .. count'[t] /\ (r.anchor \in r.msgs \/ r.anchor <= expired'[t])
  BY DEF RecordOK, Known
<1>. QED  BY <1>1, <1>2, <1>3 DEF RecordOK

LEMMA ArchiveLater ==
  ASSUME NEW f, NEW a, ArchiveOK(a, f),
         \A t \in Txn : /\ count[t] \in Nat /\ count'[t] \in Nat /\ count[t] <= count'[t]
                       /\ expired[t] \in Nat /\ expired'[t] \in Nat
                       /\ expired[t] <= expired'[t]
  PROVE  ArchiveOK(a, f)'
<1>1. a \in [Txn -> Known] /\ \A t \in Txn : RecordOK(a[t], t, f)
  BY DEF ArchiveOK
<1>2. ASSUME NEW t \in Txn PROVE RecordOK(a[t], t, f)'
  <2>. DEFINE r == a[t]
  <2>1. r \in Known /\ RecordOK(r, t, f)
    BY <1>1
  <2>. HIDE DEF r
  <2>2. RecordOK(r, t, f)'
    BY <2>1, RecordLater
  <2>. QED  BY <2>2 DEF r
<1>. QED  BY <1>1, <1>2 DEF ArchiveOK

LEMMA OtherMessages ==
  ASSUME NEW r \in Known, NEW set \in SUBSET Message
  PROVE  /\ [r EXCEPT !.msgs = set] \in Known
         /\ [r EXCEPT !.msgs = set].msgs = set
         /\ [r EXCEPT !.msgs = set].status = r.status
         /\ [r EXCEPT !.msgs = set].anchor = r.anchor
BY DEF Known

\* Pruning takes away expired messages only.
LEMMA PruneKeeps ==
  ASSUME NEW f, NEW a, ArchiveOK(a, f), \A t \in Txn : expired[t] \in Nat
  PROVE  ArchiveOK(Pruned(a), f)
<1>1. a \in [Txn -> Known] /\ \A t \in Txn : RecordOK(a[t], t, f)
  BY DEF ArchiveOK
<1>. DEFINE kept(t) == {i \in a[t].msgs : i > expired[t]}
            pruned(t) == IF Retention THEN [a[t] EXCEPT !.msgs = kept(t)] ELSE a[t]
<1>2. Pruned(a) = [t \in Txn |-> pruned(t)]
  BY DEF Pruned
<1>3. ASSUME NEW t \in Txn PROVE pruned(t) \in Known /\ RecordOK(pruned(t), t, f)
  <2>. DEFINE r == a[t]
              q == pruned(t)
              set == kept(t)
  <2>1. r \in Known /\ RecordOK(r, t, f) /\ expired[t] \in Nat
    BY <1>1
  <2>2. set \in SUBSET Message /\ \A i \in Message : i \in set <=> i \in r.msgs /\ i > expired[t]
    BY <2>1 DEF Known
  <2>3. q = IF Retention THEN [r EXCEPT !.msgs = set] ELSE r
    OBVIOUS
  <2>. HIDE DEF r, q, set
  <2>4. CASE ~Retention
    BY <2>1, <2>3, <2>4 DEF q
  <2>5. CASE Retention
    <3>1. q \in Known /\ q.msgs = set /\ q.status = r.status /\ q.anchor = r.anchor
      BY <2>1, <2>2, <2>3, <2>5, OtherMessages
    <3>2. (q.status \in {"complete", "failed"} /\ t \notin f) => Covered(q.msgs, 0, t)
      BY <2>1, <2>2, <3>1 DEF RecordOK, Covered, Message
    <3>3. q.status = "partial" => q.anchor \in q.msgs \/ q.anchor <= expired[t]
      BY <2>1, <2>2, <3>1 DEF RecordOK, Known, Message
    <3>4. q.msgs \subseteq 1 .. count[t] /\ (q.status = "none" => q.msgs = {})
      BY <2>1, <2>2, <3>1 DEF RecordOK, Known
    <3>5. q.status = "partial" => q.anchor \in 1 .. count[t]
      BY <2>1, <3>1 DEF RecordOK
    <3>. QED  BY <3>1, <3>2, <3>3, <3>4, <3>5 DEF RecordOK, q
  <2>. QED  BY <2>4, <2>5
<1>. HIDE DEF pruned
<1>. QED  BY <1>2, <1>3 DEF ArchiveOK
-----------------------------------------------------------------------------
(* One page of a call.                                                      *)

\* what a call has after one more page
GotAfter(page, j) == j.got \cup NewOn(page, j)

\* A call without an anchor that meets a known message on this page has
\* everything: what is above the message is new, what is below was complete.
LEMMA BoundaryCloses ==
  ASSUME NEW f, NEW t \in Txn, t \notin f, NEW j, ArchiveOK(j.work, f), PageInv(j, t), j.txn = t,
         count[t] \in Nat, expired[t] \in Nat, j.resume = 0,
         NEW m \in PageOf(count[t], j.page) \cap j.work[t].msgs
  PROVE  Covered(j.work[t].msgs \cup GotAfter(PageOf(count[t], j.page), j), 0, t)
<1>. DEFINE n == count[t]
            msgs == j.work[t].msgs
            page == PageOf(n, j.page)
            top == Below(n, j.page - 1)
            bottom == Below(n, j.page)
            new == NewOn(page, j)
            got == j.got
<1>1. n \in Nat /\ expired[t] \in Nat /\ page = {i \in 1 .. n : bottom < i /\ i <= top}
  BY DEF PageOf
<1>2. top \in Int /\ bottom \in Int
  <2>1. j.page \in Nat /\ j.page - 1 \in Nat
    BY LimitsAssumption DEF PageInv
  <2>. QED  BY <1>1, <2>1, BelowFacts
<1>3. new = {i \in page : \A k \in msgs \cap page : i > k}
  BY DEF NewOn
<1>4. j.work[t] \in Known /\ RecordOK(j.work[t], t, f)
  BY DEF ArchiveOK
<1>5. Covered(msgs, 0, t)
  <2>1. j.work[t].status # "partial"
    BY <1>4 DEF PageInv, Resume, RecordOK
  <2>2. j.work[t].status # "none"
    BY <1>4 DEF RecordOK
  <2>. QED  BY <1>4, <2>1, <2>2 DEF RecordOK, Known
<1>6. Covered(msgs \cup got, top, t) /\ msgs \subseteq Nat /\ got \subseteq Nat
  BY <1>4 DEF PageInv, RecordOK
<1>7. m \in page /\ m \in msgs
  OBVIOUS
<1>. HIDE DEF n, msgs, page, top, bottom, new, got
<1>8. ASSUME NEW l \in msgs \cup got \cup new, NEW i \in Message,
             0 < i, i <= l, i > expired[t]
      PROVE  i \in msgs \cup got \cup new
  <2>1. i \in Nat /\ l \in Nat /\ m \in Nat
    BY <1>1, <1>3, <1>6, <1>7 DEF Message
  <2>2. CASE \E k \in msgs : i <= k
    BY <1>5, <2>2, <1>8 DEF Covered
  <2>3. ASSUME \A k \in msgs : ~(i <= k), i > top
        PROVE  i \in got
    <3>1. l \in got
      BY <1>1, <1>2, <1>3, <1>8, <2>1, <2>3
    <3>2. i \in msgs \cup got
      BY <1>6, <1>8, <2>3, <3>1 DEF Covered
    <3>3. i \notin msgs
      BY <2>1, <2>3
    <3>. QED  BY <3>2, <3>3
  <2>4. ASSUME \A k \in msgs : ~(i <= k), i <= top
        PROVE  i \in new
    <3>1. i > m /\ \A k \in msgs : i > k
      BY <1>6, <1>7, <2>1, <2>4
    <3>2. i > bottom
      BY <1>1, <1>2, <1>7, <2>1, <3>1
    <3>3. l \in got \/ l \in new
      BY <1>8, <2>4
    <3>4. l \in 1 .. n
      BY <1>1, <1>3, <3>3 DEF PageInv, got, n
    <3>5. i \in page
      BY <1>1, <1>8, <2>1, <2>4, <3>2, <3>4
    <3>. QED  BY <1>3, <3>1, <3>5
  <2>5. i > top \/ i <= top
    BY <1>2, <2>1
  <2>. QED  BY <2>2, <2>3, <2>4, <2>5
<1>9. Covered(msgs \cup got \cup new, 0, t)
  BY <1>8 DEF Covered
<1>10. msgs \cup (got \cup new) = msgs \cup got \cup new
  OBVIOUS
<1>. QED  BY <1>9, <1>10 DEF GotAfter, msgs, got, new, page, n

\* Otherwise everything on the page is had now, but for what has expired.
LEMMA PageHad ==
  ASSUME NEW f, NEW t \in Txn, NEW j, ArchiveOK(j.work, f), PageInv(j, t), j.txn = t,
         count[t] \in Nat, expired[t] \in Nat,
         ~(j.resume = 0 /\ PageOf(count[t], j.page) \cap j.work[t].msgs # {}),
         NEW i \in PageOf(count[t], j.page)
  PROVE  /\ i \in j.work[t].msgs \cup NewOn(PageOf(count[t], j.page), j) \/ i <= expired[t]
         /\ j.resume = 0 => i \in NewOn(PageOf(count[t], j.page), j)
<1>. DEFINE page == PageOf(count[t], j.page)
            msgs == j.work[t].msgs
            new == NewOn(page, j)
<1>1. i \in page /\ page \subseteq 1 .. count[t]
  BY PageFacts, LimitsAssumption DEF PageInv
<1>2. j.work[t] \in Known /\ RecordOK(j.work[t], t, f)
  BY DEF ArchiveOK
<1>3. j.resume # 0 => j.resume \in msgs \/ j.resume <= expired[t]
  BY <1>2 DEF PageInv, Resume, RecordOK
<1>4. CASE j.resume = 0
  <2>1. new = {k \in page : \A l \in msgs \cap page : k > l}
    BY <1>4 DEF NewOn
  <2>2. msgs \cap page = {}
    BY <1>4
  <2>. QED  BY <1>1, <2>1, <2>2
<1>5. CASE j.resume # 0 /\ j.found
  <2>1. new = page
    BY <1>5 DEF NewOn
  <2>. QED  BY <1>1, <1>5, <2>1
<1>6. CASE j.resume # 0 /\ ~j.found
  <2>1. new = {k \in page \ {j.resume} : k \notin msgs \/ (j.resume \in page /\ k < j.resume)}
    BY <1>6 DEF NewOn
  <2>2. i \in new \/ i \in msgs \/ i = j.resume
    BY <1>1, <2>1
  <2>. QED  BY <1>3, <1>6, <2>2
<1>. QED  BY <1>4, <1>5, <1>6
\* Either way everything above the bottom of the page is covered.
LEMMA PageCovers ==
  ASSUME NEW f, NEW t \in Txn, NEW j, ArchiveOK(j.work, f), PageInv(j, t), j.txn = t,
         count[t] \in Nat, expired[t] \in Nat,
         ~(j.resume = 0 /\ PageOf(count[t], j.page) \cap j.work[t].msgs # {})
  PROVE  Covered(j.work[t].msgs \cup GotAfter(PageOf(count[t], j.page), j),
                 Below(count[t], j.page), t)
<1>. DEFINE n == count[t]
            msgs == j.work[t].msgs
            page == PageOf(n, j.page)
            top == Below(n, j.page - 1)
            bottom == Below(n, j.page)
            new == NewOn(page, j)
            got == j.got
<1>1. n \in Nat /\ page = {i \in 1 .. n : bottom < i /\ i <= top}
  BY DEF PageOf
<1>2. top \in Int /\ bottom \in Int
  <2>1. j.page \in Nat /\ j.page - 1 \in Nat
    BY LimitsAssumption DEF PageInv
  <2>. QED  BY <1>1, <2>1, BelowFacts
<1>3. new \subseteq page
  BY DEF NewOn
<1>4. msgs \subseteq 1 .. n /\ got \subseteq 1 .. n /\ Covered(msgs \cup got, top, t)
  BY DEF ArchiveOK, RecordOK, PageInv
<1>5. \A i \in page : i > expired[t] => i \in msgs \cup new
  <2>1. ASSUME NEW i \in page, i > expired[t] PROVE i \in msgs \cup new
    <3>1. i \in msgs \cup new \/ i <= expired[t]
      BY PageHad
    <3>2. i \in Nat
      BY <1>1
    <3>. QED  BY <2>1, <3>1, <3>2
  <2>. QED  BY <2>1
<1>. HIDE DEF n, msgs, page, top, bottom, new, got
<1>6. ASSUME NEW l \in msgs \cup got \cup new, NEW i \in Message,
             bottom < i, i <= l, i > expired[t]
      PROVE  i \in msgs \cup got \cup new
  <2>1. i \in Nat /\ i >= 1 /\ l \in 1 .. n
    BY <1>1, <1>3, <1>4 DEF Message
  <2>2. CASE i <= top
    <3>1. i \in page
      BY <1>1, <1>6, <2>1, <2>2
    <3>. QED  BY <1>5, <1>6, <3>1
  <2>3. CASE ~(i <= top)
    <3>1. l \notin new
      BY <1>1, <1>2, <1>3, <1>6, <2>1, <2>3
    <3>. QED  BY <1>2, <1>4, <1>6, <2>1, <2>3, <3>1 DEF Covered
  <2>. QED  BY <2>2, <2>3
<1>7. Covered(msgs \cup got \cup new, bottom, t)
  BY <1>6 DEF Covered
<1>8. msgs \cup (got \cup new) = msgs \cup got \cup new
  OBVIOUS
<1>. QED  BY <1>7, <1>8 DEF GotAfter, msgs, got, new, page, bottom, n

-----------------------------------------------------------------------------
(* Jobs.                                                                    *)

LEMMA RecordedKeeps ==
  ASSUME NEW f, NEW t \in Txn, NEW j, JobShape(j), j.txn = t, ArchiveOK(j.work, f),
         NEW r \in Known, RecordOK(r, t, f)
  PROVE  /\ JobShape(Recorded(j, r))
         /\ ArchiveOK(Recorded(j, r).work, f)
         /\ Recorded(j, r).page = j.page
<1>. DEFINE w == [j.work EXCEPT ![t] = r]
            d == j.dirty \/ r # j.work[t]
<1>1. /\ JobShape(Recorded(j, r))
      /\ Recorded(j, r).work = w
      /\ Recorded(j, r).page = j.page
  <2>1. Recorded(j, r) = [j EXCEPT !.work = w, !.dirty = d]
    BY DEF Recorded
  <2>. HIDE DEF w, d
  <2>. QED  BY <2>1 DEF JobShape
<1>2. ArchiveOK([j.work EXCEPT ![t] = r], f)
  BY DEF ArchiveOK
<1>. QED  BY <1>1, <1>2

\* There is nothing to record of what is no conversation.
LEMMA RecordedOther ==
  ASSUME NEW f, NEW j, JobShape(j), ArchiveOK(j.work, f), j.txn \notin Txn, NEW r
  PROVE  /\ JobShape(Recorded(j, r))
         /\ Recorded(j, r).work = j.work
         /\ Recorded(j, r).txn = j.txn
<1>. DEFINE w == [j.work EXCEPT ![j.txn] = r]
            d == j.dirty \/ r # j.work[j.txn]
<1>1. w = j.work
  BY DEF ArchiveOK
<1>2. Recorded(j, r) = [j EXCEPT !.work = w, !.dirty = d]
  BY DEF Recorded
<1>. HIDE DEF w, d
<1>. QED  BY <1>1, <1>2 DEF JobShape

\* What a page makes of a job keeps the archive it works on true, and the call
\* as PageInv has it if there is another page to read.
LEMMA PageAnswered ==
  ASSUME NEW f, NEW t \in Txn, NEW j, JobShape(j), j.txn = t, ArchiveOK(j.work, f), PageInv(j, t),
         count[t] \in 0 .. MaxMessages, expired[t] \in Nat
  PROVE  LET after == AfterPage(PageOf(count[t], j.page), j)
         IN /\ JobShape(after)
            /\ ArchiveOK(after.work, f)
            /\ after.page > j.page => after.txn = t /\ PageInv(after, t)
<1>. DEFINE n == count[t]
            page == PageOf(n, j.page)
            r == j.work[t]
            got == GotAfter(page, j)
            pages == BackfillPages(page, j)
            found == j.found \/ j.resume \in page
            ended == \/ j.resume = 0 /\ page \cap r.msgs # {}
                     \/ Cardinality(page) < PerPage
            capped == IF j.resume = 0 THEN j.page >= PageLimit(j)
                                      ELSE found /\ pages >= PageLimit(j)
            after == AfterPage(page, j)
<1>1. after = CASE ended -> Recorded(j, Completed(r, got))
                [] ~ended /\ capped -> Recorded(j, Continued(r, got, Oldest(page)))
                [] ~ended /\ ~capped /\ j.page >= MaxPages
                          -> Recorded(j, Continued(r, got, j.resume))
                [] OTHER  -> [j EXCEPT !.page = @ + 1, !.pages = pages,
                                       !.found = found, !.got = got]
  BY DEF AfterPage, GotAfter
<1>2. n \in Nat /\ 1 .. n \subseteq Message /\ 1 .. n \subseteq 0 .. MaxMessages /\ j.page \in Nat \ {0}
  BY LimitsAssumption DEF PageInv, Message
<1>3. page \subseteq 1 .. n
  BY <1>2, PageFacts
<1>4. r \in Known /\ RecordOK(r, t, f)
  BY DEF ArchiveOK
<1>5. got \subseteq 1 .. n /\ r.msgs \cup got \subseteq 1 .. n
  BY <1>3, <1>4 DEF GotAfter, NewOn, PageInv, RecordOK
<1>6. CASE ended
  <2>1. ASSUME t \notin f PROVE Covered(r.msgs \cup got, 0, t)
    <3>1. CASE j.resume = 0 /\ page \cap r.msgs # {}
      <4>1. PICK m : m \in page \cap r.msgs
        BY <3>1
      <4>. QED  BY <2>1, <3>1, <4>1, <1>2, BoundaryCloses
    <3>2. CASE ~(j.resume = 0 /\ page \cap r.msgs # {})
      <4>1. Below(n, j.page) < 0
        BY <1>2, <1>6, <3>2, PageFacts
      <4>2. Covered(r.msgs \cup got, Below(n, j.page), t)
        BY <1>2, <3>2, PageCovers
      <4>3. Below(n, j.page) \in Int
        BY <1>2, BelowFacts
      <4>. HIDE DEF n, r, got, page
      <4>. QED  BY <4>1, <4>2, <4>3 DEF Covered, Message
    <3>. QED  BY <3>1, <3>2
  <2>2. Completed(r, got) \in Known
    BY <1>2, <1>5, LimitsAssumption DEF Completed, Known
  <2>3. RecordOK(Completed(r, got), t, f)
    BY <1>5, <2>1 DEF Completed, RecordOK
  <2>4. after = Recorded(j, Completed(r, got))
    BY <1>1, <1>6
  <2>5. JobShape(after) /\ ArchiveOK(after.work, f) /\ after.page = j.page
    BY <2>2, <2>3, <2>4, RecordedKeeps
  <2>. QED  BY <1>2, <2>5
<1>7. ASSUME ~ended, NEW a \in 1 .. n, a \in r.msgs \cup got \/ a <= expired[t],
             after = Recorded(j, Continued(r, got, a))
      PROVE  JobShape(after) /\ ArchiveOK(after.work, f) /\ after.page = j.page
  <2>1. Continued(r, got, a) \in Known
    BY <1>2, <1>5, <1>7 DEF Continued, Known
  <2>2. RecordOK(Continued(r, got, a), t, f)
    BY <1>5, <1>7 DEF Continued, RecordOK
  <2>. QED  BY <1>7, <2>1, <2>2, RecordedKeeps
<1>8. CASE ~ended /\ capped
  <2>1. Oldest(page) \in page
    BY <1>2, <1>8, PageFacts
  <2>2. Oldest(page) \in r.msgs \cup got \/ Oldest(page) <= expired[t]
    BY <1>2, <1>8, <2>1, PageHad DEF GotAfter
  <2>3. after = Recorded(j, Continued(r, got, Oldest(page)))
    BY <1>1, <1>8
  <2>4. JobShape(after) /\ ArchiveOK(after.work, f) /\ after.page = j.page
    BY <1>3, <1>7, <1>8, <2>1, <2>2, <2>3
  <2>. QED  BY <1>2, <2>4
<1>9. CASE ~ended /\ ~capped /\ j.page >= MaxPages
  <2>1. j.resume # 0
    BY <1>2, <1>9, LimitsAssumption DEF PageLimit
  <2>2. j.resume \in 1 .. n /\ (j.resume \in r.msgs \/ j.resume <= expired[t])
    BY <1>4, <2>1 DEF PageInv, Resume, RecordOK
  <2>3. after = Recorded(j, Continued(r, got, j.resume))
    BY <1>1, <1>9
  <2>4. JobShape(after) /\ ArchiveOK(after.work, f) /\ after.page = j.page
    BY <1>7, <1>9, <2>2, <2>3
  <2>. QED  BY <1>2, <2>4
<1>10. CASE ~ended /\ ~capped /\ ~(j.page >= MaxPages)
  <2>1. after = [j EXCEPT !.page = @ + 1, !.pages = pages, !.found = found, !.got = got]
    BY <1>1, <1>10
  <2>2. /\ JobShape(after) /\ after.work = j.work /\ after.page = j.page + 1
        /\ after.got = got /\ after.resume = j.resume /\ after.txn = t
    BY <2>1 DEF JobShape
  <2>3. after.page \in 1 .. MaxPages
    BY <1>2, <1>10, <2>2, LimitsAssumption
  <2>4. Covered(r.msgs \cup got, Below(n, j.page), t)
    BY <1>2, <1>10, PageCovers
  <2>5. j.page + 1 - 1 = j.page
    BY <1>2
  <2>6. ASSUME j.resume = 0, NEW i \in r.msgs PROVE i <= Below(n, j.page)
    <3>1. i \notin page /\ i \in 1 .. n
      BY <1>5, <1>10, <2>6
    <3>2. i <= Below(n, j.page - 1)
      <4>1. CASE j.page > 1
        BY <2>6, <4>1 DEF PageInv
      <4>2. CASE j.page = 1
        BY <1>2, <3>1, <4>2, BelowFacts
      <4>. QED  BY <1>2, <4>1, <4>2
    <3>3. Below(n, j.page) \in Int
      BY <1>2, BelowFacts
    <3>. QED  BY <3>1, <3>2, <3>3 DEF PageOf
  <2>7. PageInv(after, t)
    BY <1>5, <2>2, <2>3, <2>4, <2>5, <2>6 DEF PageInv
  <2>. QED  BY <2>2, <2>7
<1>. QED  BY <1>6, <1>8, <1>9, <1>10

\* A page and a failure leave a job a job that reads.
LEMMA ShapeKept ==
  ASSUME NEW j, JobShape(j)
  PROVE  /\ \A r : JobShape(Recorded(j, r)) /\ Recorded(j, r).at = j.at
         /\ \A page : JobShape(AfterPage(page, j)) /\ AfterPage(page, j).at = j.at
<1>1. ASSUME NEW r PROVE JobShape(Recorded(j, r)) /\ Recorded(j, r).at = j.at
  <2>. DEFINE w == [j.work EXCEPT ![j.txn] = r]
              d == j.dirty \/ r # j.work[j.txn]
  <2>1. Recorded(j, r) = [j EXCEPT !.work = w, !.dirty = d]
    BY DEF Recorded
  <2>. HIDE DEF w, d
  <2>. QED  BY <2>1 DEF JobShape
<1>2. ASSUME NEW page PROVE JobShape(AfterPage(page, j)) /\ AfterPage(page, j).at = j.at
  <2>. DEFINE pages == BackfillPages(page, j)
              found == j.found \/ j.resume \in page
              got == j.got \cup NewOn(page, j)
              after == AfterPage(page, j)
              next == j.page + 1
  <2>1. \/ \E r : after = Recorded(j, r)
        \/ after = [j EXCEPT !.page = next, !.pages = pages, !.found = found, !.got = got]
    BY DEF AfterPage
  <2>. HIDE DEF pages, found, got, after, next
  <2>2. JobShape(after) /\ after.at = j.at
    BY <1>1, <2>1 DEF JobShape
  <2>. QED  BY <2>2 DEF after
<1>. QED  BY <1>1, <1>2

\* The same for a job whose conversation may be none.
LEMMA AfterKeeps ==
  ASSUME NEW f, NEW j, JobInv(j, f), j.at = "page",
         \A t \in Txn : count[t] \in 0 .. MaxMessages /\ expired[t] \in Nat
  PROVE  LET after == AfterPage(PageOf(count[j.txn], j.page), j)
         IN /\ JobShape(after) /\ after.at = "page"
            /\ ArchiveOK(after.work, f)
            /\ after.page > j.page => JobInv(after, f)
<1>. DEFINE t == j.txn
            page == PageOf(count[t], j.page)
            after == AfterPage(page, j)
<1>1. JobShape(j) /\ ArchiveOK(j.work, f)
  BY DEF JobInv
<1>2. JobShape(after) /\ after.at = "page"
  BY <1>1, ShapeKept
<1>3. CASE t \in Txn
  <2>1. /\ ArchiveOK(after.work, f)
        /\ after.page > j.page => after.txn = t /\ PageInv(after, t)
    BY <1>1, <1>3, PageAnswered DEF JobInv
  <2>. QED  BY <1>2, <2>1 DEF JobInv
<1>4. CASE t \notin Txn
  <2>. DEFINE pages == BackfillPages(page, j)
              found == j.found \/ j.resume \in page
              got == j.got \cup NewOn(page, j)
  <2>1. \/ \E r : after = Recorded(j, r)
        \/ after = [j EXCEPT !.page = @ + 1, !.pages = pages, !.found = found, !.got = got]
    BY DEF AfterPage
  <2>2. CASE \E r : after = Recorded(j, r)
    <3>. HIDE DEF after
    <3>1. after.work = j.work /\ after.txn = t
      BY <1>1, <1>4, <2>2, RecordedOther
    <3>. QED  BY <1>1, <1>2, <1>4, <3>1 DEF JobInv, after
  <2>3. CASE after = [j EXCEPT !.page = @ + 1, !.pages = pages, !.found = found, !.got = got]
    <3>. HIDE DEF pages, found, got, after
    <3>1. after.work = j.work /\ after.txn = t
      BY <1>1, <2>3 DEF JobShape
    <3>. QED  BY <1>1, <1>2, <1>4, <3>1 DEF JobInv, after
  <2>. QED  BY <2>1, <2>2, <2>3
<1>. QED  BY <1>3, <1>4

\* A failure may be recorded where the backfill that fails is remembered.
LEMMA FailedKeeps ==
  ASSUME NEW g, NEW j, JobShape(j), ArchiveOK(j.work, g),
         j.work[j.txn].status = "partial" => j.txn \in g
  PROVE  LET k == Recorded(j, Failed(j.work[j.txn]))
         IN JobShape(k) /\ ArchiveOK(k.work, g)
<1>. DEFINE t == j.txn
            q == j.work[t]
            r == Failed(q)
<1>1. CASE t \notin Txn
  BY <1>1, RecordedOther
<1>2. CASE t \in Txn
  <2>1. q \in Known /\ RecordOK(q, t, g) /\ (q.status = "partial" => t \in g)
    BY <1>2 DEF ArchiveOK
  <2>2. r = [q EXCEPT !.status = "failed"]
    BY DEF Failed
  <2>. HIDE DEF q, r, t
  <2>3. r \in Known /\ r.msgs = q.msgs /\ r.status = "failed"
    BY <2>1, <2>2 DEF Known
  <2>4. t \notin g => Covered(q.msgs, 0, t)
    BY <2>1 DEF RecordOK, Known, Covered
  <2>5. RecordOK(r, t, g)
    BY <2>1, <2>3, <2>4 DEF RecordOK
  <2>. QED  BY <1>2, <2>3, <2>5, RecordedKeeps DEF t, r, q
<1>. QED  BY <1>1, <1>2

\* A call begins with nothing read.
LEMMA OpenedKeeps ==
  ASSUME NEW f, NEW j, JobShape(j), ArchiveOK(j.work, f), \A t \in Txn : count[t] \in Nat
  PROVE  JobInv(Opened(j), f)
<1>. DEFINE k == Opened(j)
            t == Head(j.todo)
            rest == Tail(j.todo)
            resume == Resume(j.work[t])
<1>1. /\ JobShape(k) /\ k.work = j.work /\ k.txn = t /\ k.resume = resume
      /\ k.page = 1 /\ k.got = {}
  <2>1. k = [j EXCEPT !.at = "page", !.todo = rest, !.txn = t, !.resume = resume,
                      !.found = FALSE, !.page = 1, !.pages = 0, !.got = {}]
    BY DEF Opened
  <2>. HIDE DEF k, t, rest, resume
  <2>. QED  BY <2>1 DEF JobShape
<1>2. ASSUME t \in Txn PROVE PageInv(k, t)
  <2>. HIDE DEF k, t
  <2>1. RecordOK(j.work[t], t, f) /\ count[t] \in Nat
    BY <1>2 DEF ArchiveOK
  <2>2. 1 \in 1 .. MaxPages /\ 1 - 1 = 0
    BY LimitsAssumption
  <2>3. Below(count[t], 0) = count[t]
    BY <2>1, BelowFacts
  <2>4. Covered(j.work[t].msgs \cup {}, count[t], t)
    BY <2>1 DEF RecordOK, Covered, Message
  <2>5. ~(k.page > 1)
    BY <1>1
  <2>6. k.page \in 1 .. MaxPages /\ k.got \subseteq 1 .. count[t] /\ Below(count[t], k.page - 1) = count[t]
    BY <1>1, <2>2, <2>3
  <2>. QED  BY <1>1, <2>4, <2>5, <2>6 DEF PageInv
<1>. QED  BY <1>1, <1>2 DEF JobInv

LEMMA WaitingKeeps ==
  ASSUME NEW f
  PROVE  /\ JobInv(IdleJob, f)
         /\ \A mode, skip : /\ JobInv(Waiting(mode, skip), f)
                            /\ JobInv([Waiting(mode, skip) EXCEPT !.at = "save"], f)
         /\ JobInv(Saving, f)
         /\ \A p : JobInv(Following(p), f)
<1>1. ArchiveOK(EmptyArchive, f)
  <2>1. NoRecord \in Known
    BY LimitsAssumption DEF NoRecord, Known
  <2>2. \A t \in Txn : RecordOK(NoRecord, t, f)
    BY DEF NoRecord, RecordOK
  <2>. QED  BY <2>1, <2>2 DEF EmptyArchive, ArchiveOK
<1>2. JobInv(IdleJob, f)
  BY <1>1 DEF IdleJob, JobInv, JobShape
<1>3. ASSUME NEW mode, NEW skip
      PROVE  JobInv(Waiting(mode, skip), f) /\ JobInv([Waiting(mode, skip) EXCEPT !.at = "save"], f)
  <2>. DEFINE k == Waiting(mode, skip)
              saving == [k EXCEPT !.at = "save"]
  <2>1. JobShape(IdleJob) /\ IdleJob.work = EmptyArchive
    BY DEF JobShape, IdleJob
  <2>2. JobShape(k) /\ k.work = EmptyArchive /\ k.at = "wait"
    <3>. DEFINE idle == IdleJob
                empty == EmptyArchive
    <3>1. JobShape(idle) /\ idle.work = empty
      BY <2>1
    <3>2. k = [idle EXCEPT !.at = "wait", !.mode = mode, !.skip = skip]
      BY DEF Waiting
    <3>. HIDE DEF idle, empty, k
    <3>3. JobShape(k) /\ k.work = empty /\ k.at = "wait"
      BY <3>1, <3>2 DEF JobShape
    <3>. QED  BY <3>3 DEF empty
  <2>. HIDE DEF k
  <2>3. JobShape(saving) /\ saving.work = EmptyArchive /\ saving.at = "save"
    BY <2>2 DEF JobShape
  <2>. QED  BY <1>1, <2>2, <2>3 DEF JobInv, k
<1>4. JobInv(Saving, f)
  BY <1>3 DEF Saving
<1>5. \A p : JobInv(Following(p), f)
  BY <1>2, <1>3 DEF Following
<1>. QED  BY <1>2, <1>3, <1>4, <1>5

\* A record that is true stays so when one more failure is remembered.
LEMMA MoreForgotten ==
  ASSUME NEW f, NEW g, f \subseteq g
  PROVE  /\ \A a : ArchiveOK(a, f) => ArchiveOK(a, g)
         /\ \A j : JobInv(j, f) => JobInv(j, g)
<1>1. ASSUME NEW a, ArchiveOK(a, f) PROVE ArchiveOK(a, g)
  BY <1>1 DEF ArchiveOK, RecordOK
<1>. QED  BY <1>1 DEF JobInv

\* A step that leaves messages and their age alone keeps the invariant if what
\* it writes is true.
LEMMA WritingAll ==
  ASSUME UNCHANGED worldVars, SyncInv,
         ArchiveOK(archive', forgotten'), ArchiveOK(stored'.history, forgotten'),
         ArchiveOK(disk'.history, forgotten'), disk' \in {disk, stored},
         stored' = [history |-> stored'.history, cursor |-> stored'.cursor],
         job' = [q \in Process |-> job'[q]], \A q \in Process : JobInv(job'[q], forgotten')
  PROVE  SyncInv'
<1>1. disk' = [history |-> disk'.history, cursor |-> disk'.cursor]
  BY DEF SyncInv
<1>2. count' = count /\ expired' = expired
  BY DEF worldVars
<1>3. ArchiveOK(archive, forgotten)' /\ ArchiveOK(stored.history, forgotten)' /\ ArchiveOK(disk.history, forgotten)'
  BY <1>2 DEF ArchiveOK, RecordOK, Covered
<1>4. ASSUME NEW q \in Process PROVE JobInv(job[q], forgotten)'
  <2>1. JobInv(job'[q], forgotten')
    OBVIOUS
  <2>2. ArchiveOK(job[q].work, forgotten)'
    BY <1>2, <2>1 DEF JobInv, ArchiveOK, RecordOK, Covered
  <2>3. JobShape(job[q])'
    BY <2>1 DEF JobInv, JobShape
  <2>4. ((job[q].at = "page" /\ job[q].txn \in Txn) => PageInv(job[q], job[q].txn))'
    BY <1>2, <2>1 DEF JobInv, PageInv, Covered
  <2>. QED  BY <2>2, <2>3, <2>4 DEF JobInv
<1>5. (count \in [Txn -> 0 .. MaxMessages] /\ expired \in [Txn -> Nat])'
  BY <1>2 DEF SyncInv
<1>. QED  BY <1>1, <1>3, <1>4, <1>5 DEF SyncInv

LEMMA Writing ==
  ASSUME SyncInv, UNCHANGED worldVars, forgotten \subseteq forgotten',
         ArchiveOK(archive', forgotten'), ArchiveOK(stored'.history, forgotten'),
         disk' \in {disk, stored},
         stored' = [history |-> stored'.history, cursor |-> stored'.cursor],
         NEW p \in Process, NEW k, JobInv(k, forgotten'), job' = [job EXCEPT ![p] = k]
  PROVE  SyncInv'
<1>. DEFINE f == forgotten
            g == forgotten'
<1>1. /\ \A a : ArchiveOK(a, f) => ArchiveOK(a, g)
      /\ \A j : JobInv(j, f) => JobInv(j, g)
  BY MoreForgotten
<1>2. job' = [q \in Process |-> job'[q]] /\ \A q \in Process : JobInv(job'[q], g)
  BY <1>1 DEF SyncInv
<1>3. ArchiveOK(disk'.history, g)
  BY <1>1 DEF SyncInv
<1>. QED  BY <1>2, <1>3, WritingAll

LEMMA ContinueKeeps ==
  ASSUME SyncInv, UNCHANGED worldVars, UNCHANGED disk, forgotten \subseteq forgotten',
         NEW p \in Process, NEW j, JobShape(j), ArchiveOK(j.work, forgotten'), Continue(p, j)
  PROVE  SyncInv'
<1>. DEFINE g == forgotten'
<1>1. CASE j.todo = <<>>
  <2>. DEFINE kept == Pruned(j.work)
              dirty == j.dirty \/ kept # j.work
  <2>1. ArchiveOK(kept, g)
    BY PruneKeeps DEF SyncInv
  <2>2. /\ archive' = kept
        /\ stored' = CASE j.mode = "sync" -> [history |-> kept, cursor |-> j.next]
                       [] dirty /\ j.mode = "scan" -> [stored EXCEPT !.history = kept]
                       [] OTHER -> stored
    BY <1>1 DEF Continue, Close
  <2>3. \/ job' = [job EXCEPT ![p] = [Waiting(j.mode, j.skip) EXCEPT !.at = "save"]]
        \/ job' = [job EXCEPT ![p] = Following(p)]
    BY <1>1 DEF Continue, Close, Release
  <2>4. PICK k : JobInv(k, g) /\ job' = [job EXCEPT ![p] = k]
    BY <2>3, WaitingKeeps
  <2>. HIDE DEF kept, dirty
  <2>5. \/ stored' = [history |-> kept, cursor |-> j.next]
        \/ stored' = [stored EXCEPT !.history = kept]
        \/ stored' = stored
    BY <2>2
  <2>6. ArchiveOK(stored.history, g)
    BY MoreForgotten DEF SyncInv
  <2>7. /\ ArchiveOK(stored'.history, g)
        /\ stored' = [history |-> stored'.history, cursor |-> stored'.cursor]
    BY <2>1, <2>5, <2>6 DEF SyncInv
  <2>8. ArchiveOK(archive', g)
    BY <2>1, <2>2
  <2>. QED  BY <2>4, <2>7, <2>8, Writing
<1>2. CASE j.todo # <<>>
  <2>1. /\ job' = [job EXCEPT ![p] = Opened(j)]
        /\ archive' = IF j.mode = "scan" THEN j.work ELSE archive
        /\ stored' = stored
    BY <1>2 DEF Continue
  <2>2. JobInv(Opened(j), g)
    BY OpenedKeeps DEF SyncInv
  <2>3. ArchiveOK(archive, g) /\ ArchiveOK(stored.history, g)
    BY MoreForgotten DEF SyncInv
  <2>4. /\ ArchiveOK(archive', g) /\ ArchiveOK(stored'.history, g)
        /\ stored' = [history |-> stored'.history, cursor |-> stored'.cursor]
    BY <2>1, <2>3 DEF SyncInv
  <2>. QED  BY <2>1, <2>2, <2>4, Writing
<1>. QED  BY <1>1, <1>2
-----------------------------------------------------------------------------
(* The operations.                                                          *)

LEMMA SyncInvInit == Init => SyncInv
<1>. SUFFICES ASSUME Init PROVE SyncInv
  OBVIOUS
<1>1. count \in [Txn -> 0 .. MaxMessages] /\ expired \in [Txn -> Nat]
  BY DEF Init
<1>2. ArchiveOK(EmptyArchive, forgotten)
  BY WaitingKeeps DEF JobInv, IdleJob
<1>3. job = [p \in Process |-> job[p]] /\ \A p \in Process : JobInv(job[p], forgotten)
  BY WaitingKeeps DEF Init
<1>4. /\ archive = EmptyArchive
      /\ stored = [history |-> EmptyArchive, cursor |-> 0]
      /\ disk = [history |-> EmptyArchive, cursor |-> 0]
  BY DEF Init
<1>. QED  BY <1>1, <1>2, <1>3, <1>4 DEF SyncInv

\* a job that has the lock works on the archive
LEMMA PlannedKeeps ==
  ASSUME NEW p \in Process, JobShape(job[p])
  PROVE  JobShape(Planned(p)) /\ Planned(p).work = archive
<1>. DEFINE todo1 == Listed(Places(Active))
            batch == SelectBatch(Listed(FirstPlaces(Txn \ job[p].skip)), BatchOf(p), stored.cursor)
            a == [job[p] EXCEPT !.work = archive]
            picked == batch.picked
            next == batch.next
<1>1. JobShape(a) /\ a.work = archive
  BY DEF JobShape
<1>2. Planned(p) = IF a.mode = "scan" THEN [a EXCEPT !.todo = todo1]
                   ELSE [a EXCEPT !.todo = picked, !.next = next]
  BY DEF Planned
<1>. HIDE DEF a, todo1, batch, picked, next
<1>. QED  BY <1>1, <1>2 DEF JobShape

\* the steps of the operations
LEMMA OperationKeeps ==
  ASSUME SyncInv, NEW p \in Process, Operation(p)
  PROVE  SyncInv'
<1>. DEFINE j == job[p]
<1>1. JobInv(j, forgotten) /\ \A t \in Txn : count[t] \in 0 .. MaxMessages /\ expired[t] \in Nat
  BY DEF SyncInv
<1>2. CASE SyncNothing(p)
  <2>1. JobInv(IdleJob, forgotten)
    BY WaitingKeeps
  <2>. QED  BY <1>2, <2>1, Writing DEF SyncNothing, SyncInv, worldVars, observed
<1>3. CASE Acquire(p)
  <2>. DEFINE k == [Planned(p) EXCEPT !.at = "start"]
  <2>1. JobInv(k, forgotten)
    <3>. DEFINE q == Planned(p)
    <3>1. JobShape(q) /\ q.work = archive
      BY <1>1, PlannedKeeps DEF JobInv
    <3>. HIDE DEF q
    <3>2. JobShape([q EXCEPT !.at = "start"]) /\ [q EXCEPT !.at = "start"].work = archive
          /\ [q EXCEPT !.at = "start"].at = "start"
      BY <3>1 DEF JobShape
    <3>. QED  BY <3>2 DEF JobInv, SyncInv, q
  <2>. HIDE DEF k
  <2>2. job' = [job EXCEPT ![p] = k] /\ UNCHANGED <<worldVars, archive, stored, disk, forgotten>>
    BY <1>3 DEF Acquire, k, observed
  <2>. QED  BY <2>1, <2>2, Writing DEF SyncInv
<1>4. CASE Start(p)
  BY <1>1, <1>4, ContinueKeeps DEF Start, JobInv, observed
<1>5. CASE ReadPage(p)
  <2>. DEFINE after == AfterPage(PageOf(count[j.txn], j.page), j)
  <2>1. /\ j.at = "page" /\ UNCHANGED <<worldVars, disk, forgotten>>
        /\ \/ /\ after.page > j.page
              /\ job' = [job EXCEPT ![p] = after]
              /\ UNCHANGED <<archive, stored, lock>>
           \/ Continue(p, after)
    BY <1>5 DEF ReadPage
  <2>2. /\ JobShape(after) /\ ArchiveOK(after.work, forgotten)
        /\ after.page > j.page => JobInv(after, forgotten)
    BY <1>1, <2>1, AfterKeeps
  <2>. HIDE DEF after
  <2>3. CASE Continue(p, after)
    BY <2>1, <2>2, <2>3, ContinueKeeps
  <2>4. CASE ~Continue(p, after)
    BY <2>1, <2>2, <2>4, Writing DEF SyncInv
  <2>. QED  BY <2>3, <2>4
<1>6. CASE RequestFails(p)
  <2>. DEFINE k == IF j.mode = "sync" THEN Recorded(j, Failed(j.work[j.txn])) ELSE j
  <2>1. /\ Continue(p, k) /\ UNCHANGED <<worldVars, disk>> /\ forgotten \subseteq forgotten'
        /\ (j.mode = "sync" /\ j.work[j.txn].status = "partial") => j.txn \in forgotten'
    BY <1>6 DEF RequestFails
  <2>2. JobShape(j) /\ ArchiveOK(j.work, forgotten')
    BY <1>1, <2>1, MoreForgotten DEF JobInv
  <2>3. JobShape(k) /\ ArchiveOK(k.work, forgotten')
    BY <2>1, <2>2, FailedKeeps
  <2>. QED  BY <2>1, <2>3, ContinueKeeps
<1>7. CASE TimesOut(p)
  <2>1. PICK k : JobInv(k, forgotten) /\ job' = [job EXCEPT ![p] = k]
    BY <1>7, WaitingKeeps DEF TimesOut, Release
  <2>. QED  BY <1>7, <2>1, Writing DEF TimesOut, SyncInv, observed
<1>8. CASE SaveArchive(p)
  <2>1. JobInv(Following(p), forgotten) /\ job' = [job EXCEPT ![p] = Following(p)]
    BY <1>8, WaitingKeeps DEF SaveArchive, Release
  <2>. QED  BY <1>8, <2>1, Writing DEF SaveArchive, SyncInv, observed
<1>. QED  BY <1>2, <1>3, <1>4, <1>5, <1>6, <1>7, <1>8 DEF Operation
\* A new message moves the next page up: the call has all that is above it.
LEMMA PageLater ==
  ASSUME NEW t \in Txn, NEW j, PageInv(j, t),
         count[t] \in Nat, count'[t] \in {count[t], count[t] + 1},
         expired[t] \in Nat, expired'[t] \in Nat, expired[t] <= expired'[t],
         j.work[t].msgs \subseteq 1 .. count[t]
  PROVE  PageInv(j, t)'
<1>. DEFINE top == Below(count[t], j.page - 1)
            above == Below(count'[t], j.page - 1)
<1>1. top \in Int /\ above \in Int /\ top <= above
  <2>1. j.page - 1 \in Nat
    BY LimitsAssumption DEF PageInv
  <2>2. top \in Int /\ Below(count[t] + 1, j.page - 1) = top + 1
    BY <2>1, BelowFacts
  <2>. QED  BY <2>2
<1>2. Covered(j.work[t].msgs \cup j.got, top, t)
  BY DEF PageInv
<1>3. j.got \subseteq 1 .. count'[t]
  BY DEF PageInv
<1>4. (j.resume = 0 /\ j.page > 1) => \A i \in j.work[t].msgs : i <= above
  <2>1. (j.resume = 0 /\ j.page > 1) => \A i \in j.work[t].msgs : i <= top
    BY DEF PageInv
  <2>. HIDE DEF top, above
  <2>. QED  BY <1>1, <2>1
<1>5. \A l \in j.work[t].msgs \cup j.got : \A i \in Message :
        (above < i /\ i <= l /\ i > expired'[t]) => i \in j.work[t].msgs \cup j.got
  <2>. HIDE DEF top, above
  <2>. QED  BY <1>1, <1>2 DEF Covered, Message
<1>6. j.page \in 1 .. MaxPages /\ j.resume = Resume(j.work[t])
  BY DEF PageInv
<1>. QED  BY <1>3, <1>4, <1>5, <1>6 DEF PageInv, Covered, Below

\* messages arrive and expire
LEMMA WorldKeeps ==
  ASSUME SyncInv, NEW t \in Txn, MessageSent(t) \/ Expire(t)
  PROVE  SyncInv'
<1>1. /\ count' \in [Txn -> 0 .. MaxMessages] /\ expired' \in [Txn -> Nat]
      /\ \A u \in Txn : count'[u] \in {count[u], count[u] + 1} /\ expired[u] <= expired'[u]
      /\ UNCHANGED <<archive, stored, disk, job, forgotten>>
  BY LimitsAssumption DEF SyncInv, MessageSent, Expire, observed
<1>2. \A u \in Txn : /\ count[u] \in Nat /\ count'[u] \in Nat /\ count[u] <= count'[u]
                     /\ expired[u] \in Nat /\ expired'[u] \in Nat /\ expired[u] <= expired'[u]
  BY <1>1 DEF SyncInv
<1>. DEFINE f == forgotten
<1>3. ArchiveOK(archive, f)' /\ ArchiveOK(stored.history, f)' /\ ArchiveOK(disk.history, f)'
  <2>. DEFINE a == archive
              s == stored.history
              d == disk.history
  <2>1. /\ ArchiveOK(a, f) /\ ArchiveOK(s, f) /\ ArchiveOK(d, f)
        /\ a' = a /\ s' = s /\ d' = d /\ f' = f
    BY <1>1 DEF SyncInv
  <2>2. ASSUME NEW x, NEW h, ArchiveOK(x, h) PROVE ArchiveOK(x, h)'
    BY <1>2, <2>2, ArchiveLater
  <2>. HIDE DEF a, s, d, f
  <2>3. ArchiveOK(a, f)' /\ ArchiveOK(s, f)' /\ ArchiveOK(d, f)'
    BY <2>1, <2>2
  <2>. QED  BY <2>3 DEF a, s, d
<1>4. ASSUME NEW p \in Process PROVE JobInv(job[p], f)'
  <2>. DEFINE j == job[p]
  <2>1. JobInv(j, f) /\ job'[p] = j /\ f' = f
    BY <1>1 DEF SyncInv
  <2>2. ASSUME NEW k, NEW h, JobInv(k, h) PROVE JobInv(k, h)'
    <3>1. ArchiveOK(k.work, h)'
      BY <1>2, <2>2, ArchiveLater DEF JobInv
    <3>2. ASSUME NEW u \in Txn, k.at = "page", k.txn = u PROVE PageInv(k, u)'
      <4>1. PageInv(k, u) /\ k.work[u].msgs \subseteq 1 .. count[u]
        BY <2>2, <3>2 DEF JobInv, ArchiveOK, RecordOK
      <4>. QED  BY <1>1, <1>2, <4>1, PageLater
    <3>. QED  BY <2>2, <3>1, <3>2 DEF JobInv, JobShape
  <2>. HIDE DEF j, f
  <2>3. JobInv(j, f)' /\ j' = j
    BY <2>1, <2>2, <1>1 DEF j
  <2>. QED  BY <2>3 DEF j
<1>5. job' = [p \in Process |-> job'[p]]
      /\ stored' = [history |-> stored'.history, cursor |-> stored'.cursor]
      /\ disk' = [history |-> disk'.history, cursor |-> disk'.cursor]
  BY <1>1 DEF SyncInv
<1>. QED  BY <1>1, <1>3, <1>4, <1>5 DEF SyncInv

-----------------------------------------------------------------------------
(* The lock.                                                                *)

\* Only the holder of the lock reads or saves, and while a clear holds it the
\* archive and the dictionary stay empty.
LockInv ==
  /\ \A p \in Process : /\ job[p].at \in {"start", "page", "save"} => lock = p
                        /\ job[p].at \notin {"start", "page"} => job[p].work = EmptyArchive
  /\ job["clear"].at \in {"idle", "save"}
  /\ lock = "clear" => archive = EmptyArchive /\ stored = Emptied

\* where the jobs stand that are not reading
LEMMA WaitingAt ==
  /\ IdleJob.at = "idle" /\ IdleJob.work = EmptyArchive
  /\ \A mode, skip :
       LET k == Waiting(mode, skip)
           s == [k EXCEPT !.at = "save"]
       IN k.at = "wait" /\ k.work = EmptyArchive /\ s.at = "save" /\ s.work = EmptyArchive
  /\ Saving.at = "save" /\ Saving.work = EmptyArchive
  /\ \A p : Following(p).at \in {"idle", "wait"} /\ Following(p).work = EmptyArchive
<1>. DEFINE empty == EmptyArchive
<1>1. IdleJob.at = "idle" /\ IdleJob.work = empty /\ JobShape(IdleJob)
  BY DEF IdleJob, JobShape
<1>2. ASSUME NEW mode, NEW skip
      PROVE  LET k == Waiting(mode, skip)
                 s == [k EXCEPT !.at = "save"]
             IN k.at = "wait" /\ k.work = empty /\ s.at = "save" /\ s.work = empty
  <2>. DEFINE idle == IdleJob
              k == Waiting(mode, skip)
  <2>1. JobShape(idle) /\ idle.work = empty
    BY <1>1
  <2>2. k = [idle EXCEPT !.at = "wait", !.mode = mode, !.skip = skip]
    BY DEF Waiting
  <2>. HIDE DEF idle, empty, k
  <2>3. JobShape(k) /\ k.work = empty /\ k.at = "wait"
    BY <2>1, <2>2 DEF JobShape
  <2>4. [k EXCEPT !.at = "save"].at = "save" /\ [k EXCEPT !.at = "save"].work = empty
    BY <2>3 DEF JobShape
  <2>. QED  BY <2>3, <2>4 DEF k
<1>. HIDE DEF empty
<1>3. Saving.at = "save" /\ Saving.work = empty
  BY <1>2 DEF Saving
<1>4. \A p : Following(p).at \in {"idle", "wait"} /\ Following(p).work = empty
  BY <1>1, <1>2 DEF Following
<1>. QED  BY <1>1, <1>2, <1>3, <1>4 DEF empty

\* One job is replaced, and the lock taken when it is free or let go.
LEMMA LockStep ==
  ASSUME SyncInv, LockInv, NEW p \in Process, NEW k, job' = [job EXCEPT ![p] = k],
         k.at \in {"start", "page", "save"} => lock' = p,
         k.at \notin {"start", "page"} => k.work = EmptyArchive,
         p = "clear" => k.at \in {"idle", "save"},
         lock' # lock => lock \in {p, "free"},
         lock' = "clear" => archive' = EmptyArchive /\ stored' = Emptied
  PROVE  LockInv'
<1>1. job'[p] = k /\ \A q \in Process \ {p} : job'[q] = job[q]
  BY DEF SyncInv
<1>2. ASSUME NEW q \in Process
      PROVE  /\ job'[q].at \in {"start", "page", "save"} => lock' = q
             /\ job'[q].at \notin {"start", "page"} => job'[q].work = EmptyArchive
  <2>1. CASE q = p
    BY <1>1, <2>1
  <2>2. CASE q # p
    BY <1>1, <2>2 DEF LockInv, Process
  <2>. QED  BY <2>1, <2>2
<1>3. job'["clear"].at \in {"idle", "save"}
  BY <1>1 DEF LockInv, Process
<1>. QED  BY <1>2, <1>3 DEF LockInv

\* p, which reads, goes on: it keeps the lock, or lets it go.
LEMMA ContinueLocks ==
  ASSUME SyncInv, LockInv, NEW p \in {"poll", "service"}, job[p].at \in {"start", "page"},
         NEW j, JobShape(j), Continue(p, j)
  PROVE  LockInv'
<1>1. lock = p /\ p \in Process /\ p # "clear" /\ p # "free"
  BY DEF LockInv, Process
<1>2. CASE j.todo = <<>>
  <2>. DEFINE k == [Waiting(j.mode, j.skip) EXCEPT !.at = "save"]
  <2>1. \/ job' = [job EXCEPT ![p] = k] /\ lock' = lock
        \/ job' = [job EXCEPT ![p] = Following(p)] /\ lock' = "free"
    BY <1>2 DEF Continue, Close, Release
  <2>2. k.at = "save" /\ k.work = EmptyArchive
    BY WaitingAt
  <2>. HIDE DEF k
  <2>3. CASE job' = [job EXCEPT ![p] = k] /\ lock' = lock
    BY <1>1, <2>2, <2>3, LockStep
  <2>4. CASE job' = [job EXCEPT ![p] = Following(p)] /\ lock' = "free"
    <3>1. Following(p).at \in {"idle", "wait"} /\ Following(p).work = EmptyArchive
      BY WaitingAt
    <3>. QED  BY <1>1, <2>4, <3>1, LockStep
  <2>. QED  BY <2>1, <2>3, <2>4
<1>3. CASE j.todo # <<>>
  <2>1. job' = [job EXCEPT ![p] = Opened(j)] /\ lock' = lock
    BY <1>3 DEF Continue
  <2>2. Opened(j).at = "page"
    <3>. DEFINE k == Opened(j)
                t == Head(j.todo)
                rest == Tail(j.todo)
                resume == Resume(j.work[t])
    <3>1. k = [j EXCEPT !.at = "page", !.todo = rest, !.txn = t, !.resume = resume,
                        !.found = FALSE, !.page = 1, !.pages = 0, !.got = {}]
      BY DEF Opened
    <3>. HIDE DEF k, t, rest, resume
    <3>2. k.at = "page"
      BY <3>1 DEF JobShape
    <3>. QED  BY <3>2 DEF k
  <2>. QED  BY <1>1, <2>1, <2>2, LockStep
<1>. QED  BY <1>2, <1>3

LEMMA LockOperation ==
  ASSUME SyncInv, LockInv, NEW p \in {"poll", "service"}, Operation(p)
  PROVE  LockInv'
<1>. DEFINE j == job[p]
<1>1. p \in Process /\ p # "clear" /\ p # "free" /\ JobShape(j)
  BY DEF SyncInv, JobInv, Process
<1>2. CASE SyncNothing(p)
  <2>1. IdleJob.at = "idle" /\ IdleJob.work = EmptyArchive
    BY WaitingAt
  <2>. QED  BY <1>1, <1>2, <2>1, LockStep DEF SyncNothing, LockInv
<1>3. CASE Acquire(p)
  <2>. DEFINE k == [Planned(p) EXCEPT !.at = "start"]
  <2>1. JobShape(Planned(p))
    BY <1>1, PlannedKeeps
  <2>2. k.at = "start"
    <3>. DEFINE q == Planned(p)
    <3>. HIDE DEF q
    <3>1. JobShape(q) => [q EXCEPT !.at = "start"].at = "start"
      BY DEF JobShape
    <3>. QED  BY <2>1, <3>1 DEF q
  <2>3. job' = [job EXCEPT ![p] = k] /\ lock' = p /\ lock = "free"
    BY <1>3 DEF Acquire
  <2>. HIDE DEF k
  <2>. QED  BY <1>1, <2>2, <2>3, LockStep
<1>4. CASE Start(p)
  BY <1>1, <1>4, ContinueLocks DEF Start
<1>5. CASE ReadPage(p)
  <2>. DEFINE after == AfterPage(PageOf(count[j.txn], j.page), j)
  <2>1. JobShape(after) /\ after.at = "page" /\ j.at = "page"
    BY <1>1, <1>5, ShapeKept DEF ReadPage
  <2>2. \/ job' = [job EXCEPT ![p] = after] /\ UNCHANGED <<archive, stored, lock>>
        \/ Continue(p, after)
    BY <1>5 DEF ReadPage
  <2>. HIDE DEF after
  <2>3. CASE job' = [job EXCEPT ![p] = after] /\ UNCHANGED <<archive, stored, lock>>
    BY <1>1, <2>1, <2>3, LockStep DEF LockInv
  <2>. QED  BY <2>1, <2>2, <2>3, ContinueLocks
<1>6. CASE RequestFails(p)
  <2>1. PICK k : JobShape(k) /\ Continue(p, k)
    BY <1>1, <1>6, ShapeKept DEF RequestFails
  <2>2. j.at = "page"
    BY <1>6 DEF RequestFails
  <2>. QED  BY <2>1, <2>2, ContinueLocks
<1>7. CASE TimesOut(p)
  <2>1. PICK k : /\ job' = [job EXCEPT ![p] = k]
                 /\ k.at \in {"idle", "wait"} /\ k.work = EmptyArchive
    <3>. DEFINE k == IF j.mode = "scan" THEN Waiting("sync", {}) ELSE IdleJob
    <3>1. k.at \in {"idle", "wait"} /\ k.work = EmptyArchive
      BY WaitingAt
    <3>2. job' = [job EXCEPT ![p] = k]
      BY <1>7 DEF TimesOut, Release
    <3>. QED  BY <3>1, <3>2
  <2>2. lock = p /\ lock' = "free"
    BY <1>1, <1>7 DEF TimesOut, Release, LockInv
  <2>. QED  BY <1>1, <2>1, <2>2, LockStep
<1>8. CASE SaveArchive(p)
  <2>1. /\ job' = [job EXCEPT ![p] = Following(p)]
        /\ Following(p).at \in {"idle", "wait"} /\ Following(p).work = EmptyArchive
    BY <1>8, WaitingAt DEF SaveArchive, Release
  <2>2. lock = p /\ lock' = "free"
    BY <1>1, <1>8 DEF SaveArchive, Release, LockInv
  <2>. QED  BY <1>1, <2>1, <2>2, LockStep
<1>. QED  BY <1>2, <1>3, <1>4, <1>5, <1>6, <1>7, <1>8 DEF Operation

LEMMA LockInvNext ==
  ASSUME SyncInv, LockInv, [Next]_vars
  PROVE  LockInv'
<1>. DEFINE waiting(k) == k.at = "wait" /\ k.work = EmptyArchive
<1>1. ASSUME NEW p \in Process \ {"clear"}, NEW k, waiting(k), job' = [job EXCEPT ![p] = k],
             UNCHANGED <<archive, stored, lock>>
      PROVE  LockInv'
  BY <1>1, LockStep DEF LockInv
<1>2. CASE BeginPoll
  <2>1. waiting(Waiting("scan", {}))
    BY WaitingAt
  <2>. QED  BY <1>1, <1>2, <2>1 DEF BeginPoll, Process
<1>3. CASE ScanSkipped \/ BeginSync
  <2>1. waiting(Waiting("sync", {}))
    BY WaitingAt
  <2>. QED  BY <1>1, <1>3, <2>1 DEF ScanSkipped, BeginSync, Process
<1>4. ASSUME NEW p \in {"poll", "service"}, Operation(p) PROVE LockInv'
  BY <1>4, LockOperation
<1>5. CASE ClearMessages
  <2>1. Saving.at = "save" /\ Saving.work = EmptyArchive
    BY WaitingAt
  <2>. QED  BY <1>5, <2>1, LockStep DEF ClearMessages, Process
<1>6. CASE ClearSaved
  <2>1. IdleJob.at = "idle" /\ IdleJob.work = EmptyArchive
    BY WaitingAt
  <2>2. lock = "clear" /\ lock' = "free"
    BY <1>6 DEF ClearSaved, LockInv, Process
  <2>. QED  BY <1>6, <2>1, <2>2, LockStep DEF ClearSaved, Process
<1>7. CASE Restart
  <2>1. IdleJob.at = "idle" /\ IdleJob.work = EmptyArchive
    BY WaitingAt
  <2>2. lock' = "free" /\ \A p \in Process : job'[p] = IdleJob
    BY <1>7 DEF Restart
  <2>. QED  BY <2>1, <2>2 DEF LockInv, Process
<1>8. CASE SaveOthers \/ UNCHANGED vars \/ \E t \in Txn : MessageSent(t) \/ Expire(t)
  <2>1. UNCHANGED <<archive, stored, lock, job>>
    BY <1>8 DEF SaveOthers, MessageSent, Expire, vars
  <2>. QED  BY <2>1 DEF LockInv
<1>. QED  BY <1>2, <1>3, <1>4, <1>5, <1>6, <1>7, <1>8 DEF Next

-----------------------------------------------------------------------------
(* The theorem.                                                             *)

LEMMA LockInvInit == Init => LockInv
BY WaitingAt DEF Init, LockInv, Process

LEMMA SyncInvNext ==
  ASSUME SyncInv, LockInv, [Next]_vars
  PROVE  SyncInv'
<1>1. ASSUME NEW p \in Process, NEW k, JobInv(k, forgotten), job' = [job EXCEPT ![p] = k],
             UNCHANGED <<worldVars, archive, stored, disk, forgotten>>
      PROVE  SyncInv'
  BY <1>1, Writing DEF SyncInv
<1>2. CASE BeginPoll
  BY <1>1, <1>2, WaitingKeeps DEF BeginPoll, Process, observed
<1>3. CASE ScanSkipped
  BY <1>1, <1>3, WaitingKeeps DEF ScanSkipped, Process, observed
<1>4. CASE BeginSync
  BY <1>1, <1>4, WaitingKeeps DEF BeginSync, Process, observed
<1>5. ASSUME NEW p \in {"poll", "service"}, Operation(p) PROVE SyncInv'
  BY <1>5, OperationKeeps DEF Process
<1>6. CASE ClearMessages
  <2>1. ArchiveOK(EmptyArchive, forgotten)
    BY WaitingKeeps DEF JobInv, IdleJob
  <2>2. /\ archive' = EmptyArchive /\ stored' = [history |-> EmptyArchive, cursor |-> 0]
        /\ job' = [job EXCEPT !["clear"] = Saving] /\ UNCHANGED <<worldVars, disk, forgotten>>
    BY <1>6 DEF ClearMessages, Emptied, observed
  <2>3. JobInv(Saving, forgotten)
    BY WaitingKeeps
  <2>4. ArchiveOK(stored'.history, forgotten)
        /\ stored' = [history |-> stored'.history, cursor |-> stored'.cursor]
    BY <2>1, <2>2 DEF SyncInv
  <2>. QED  BY <2>1, <2>2, <2>3, <2>4, Writing DEF Process
<1>7. CASE ClearSaved
  <2>1. /\ job' = [job EXCEPT !["clear"] = IdleJob] /\ disk' = stored /\ forgotten' = {}
        /\ UNCHANGED <<worldVars, archive, stored>> /\ lock = "clear"
    BY <1>7 DEF ClearSaved, LockInv, Process
  <2>2. archive = EmptyArchive /\ stored = [history |-> EmptyArchive, cursor |-> 0]
    BY <2>1 DEF LockInv, Emptied
  <2>3. JobInv(IdleJob, {}) /\ ArchiveOK(EmptyArchive, {})
    BY WaitingKeeps DEF JobInv, IdleJob
  <2>4. ASSUME NEW p \in Process PROVE JobInv(job'[p], {})
    <3>1. CASE p = "clear"
      BY <2>1, <2>3, <3>1 DEF SyncInv
    <3>2. CASE p # "clear"
      <4>1. job'[p] = job[p] /\ job[p].at \notin {"start", "page"} /\ job[p].work = EmptyArchive
        BY <2>1, <3>2 DEF SyncInv, LockInv, Process
      <4>. QED  BY <2>3, <4>1 DEF SyncInv, JobInv
    <3>. QED  BY <3>1, <3>2
  <2>5. job' = [p \in Process |-> job'[p]]
    BY <2>1 DEF SyncInv
  <2>6. /\ ArchiveOK(archive', forgotten') /\ ArchiveOK(stored'.history, forgotten')
        /\ ArchiveOK(disk'.history, forgotten')
    BY <2>1, <2>2, <2>3
  <2>. QED  BY <2>1, <2>4, <2>5, <2>6, WritingAll DEF SyncInv
<1>8. CASE SaveOthers
  <2>1. disk' = stored /\ UNCHANGED <<worldVars, archive, stored, job, forgotten>>
    BY <1>8 DEF SaveOthers, observed
  <2>2. job' = [job EXCEPT !["poll"] = job["poll"]] /\ JobInv(job["poll"], forgotten)
    BY <2>1 DEF SyncInv, Process
  <2>. QED  BY <2>1, <2>2, Writing DEF SyncInv, Process
<1>9. CASE Restart
  <2>1. /\ archive' = disk.history /\ stored' = disk /\ disk' = disk
        /\ job' = [p \in Process |-> IdleJob] /\ UNCHANGED <<worldVars, forgotten>>
    BY <1>9 DEF Restart, observed
  <2>2. job' = [p \in Process |-> job'[p]] /\ \A p \in Process : JobInv(job'[p], forgotten)
    BY <2>1, WaitingKeeps
  <2>3. /\ ArchiveOK(archive', forgotten) /\ ArchiveOK(stored'.history, forgotten)
        /\ stored' = [history |-> stored'.history, cursor |-> stored'.cursor]
        /\ ArchiveOK(disk'.history, forgotten)
    BY <2>1 DEF SyncInv
  <2>. QED  BY <2>1, <2>2, <2>3, WritingAll
<1>10. ASSUME NEW t \in Txn, MessageSent(t) \/ Expire(t) PROVE SyncInv'
  BY <1>10, WorldKeeps
<1>11. CASE UNCHANGED vars
  <2>1. job' = [job EXCEPT !["poll"] = job["poll"]] /\ JobInv(job["poll"], forgotten)
    BY <1>11 DEF SyncInv, Process, vars
  <2>. QED  BY <1>1, <1>11, <2>1 DEF Process, vars, worldVars
<1>. QED  BY <1>2, <1>3, <1>4, <1>5, <1>6, <1>7, <1>8, <1>9, <1>10, <1>11 DEF Next

\* A conversation that the archive calls complete has no hole unless a request
\* of its backfill failed: sync_message_history and the scan have read every
\* message that is older than one they archived and still retained, whatever
\* arrives, expires, times out, is cleared or is lost in a restart meanwhile.
THEOREM CompleteMeansNoGap == Spec => []NoGap
<1>1. Init => SyncInv /\ LockInv
  BY SyncInvInit, LockInvInit
<1>2. SyncInv /\ LockInv /\ [Next]_vars => SyncInv' /\ LockInv'
  BY SyncInvNext, LockInvNext
<1>3. SyncInv => NoGap
  BY DEF SyncInv, ArchiveOK, RecordOK, NoGap
<1>. QED  BY <1>1, <1>2, <1>3, PTL DEF Spec
-----------------------------------------------------------------------------
(* The list of bookings.                                                     *)

\* Every set of natural numbers that is not empty has a least element: what
\* the proofs use where a reader would say "by induction".
LEMMA LeastNat ==
  ASSUME NEW S \in SUBSET Nat, S # {}
  PROVE  \E n \in S : \A m \in S : n <= m
<1>. DEFINE R == {ss \in Nat \X Nat : ss[1] < ss[2]}
<1>1. IsWellFoundedOn(R, Nat)
  BY NatLessThanWellFounded DEF OpToRel
<1>. HIDE DEF R
<1>2. PICK n \in S : \A m \in S : ~(<<m, n>> \in R)
  BY <1>1, WFMin
<1>3. \A m \in S : ~(m < n)
  BY <1>2 DEF R
<1>. QED  BY <1>3

\* how many of the first i conversations of the list are in the places set
Rank(set, i) == Cardinality(set \cap 1 .. i)

LEMMA RankFacts ==
  ASSUME NEW set \in SUBSET (1 .. Len(Listing))
  PROVE  /\ \A i \in Nat : Rank(set, i) \in Nat
         /\ Rank(set, 0) = 0
         /\ Rank(set, Len(Listing)) = Cardinality(set)
         /\ \A i \in Nat : Rank(set, i + 1) = IF i + 1 \in set THEN Rank(set, i) + 1
                                                              ELSE Rank(set, i)
         /\ IsFiniteSet(set) /\ Cardinality(set) \in 0 .. Len(Listing)
<1>1. Len(Listing) \in Nat
  BY ListingAssumption
<1>2. \A i \in Nat : IsFiniteSet(set \cap 1 .. i) /\ Cardinality(set \cap 1 .. i) \in Nat
  <2>. SUFFICES ASSUME NEW i \in Nat
                PROVE  IsFiniteSet(set \cap 1 .. i) /\ Cardinality(set \cap 1 .. i) \in Nat
    OBVIOUS
  <2>1. IsFiniteSet(1 .. i)
    BY FS_Interval
  <2>2. set \cap 1 .. i \in SUBSET (1 .. i)
    OBVIOUS
  <2>3. IsFiniteSet(set \cap 1 .. i)
    BY <2>1, <2>2, FS_Subset
  <2>. QED  BY <2>3, FS_CardinalityType
<1>3. Cardinality(set \cap 1 .. 0) = 0
  <2>1. set \cap 1 .. 0 = {}
    OBVIOUS
  <2>. QED  BY <2>1, FS_EmptySet
<1>4. set \cap 1 .. Len(Listing) = set
  BY <1>1
<1>5. ASSUME NEW i \in Nat
      PROVE  Cardinality(set \cap 1 .. (i + 1)) =
               IF i + 1 \in set THEN Cardinality(set \cap 1 .. i) + 1
                                ELSE Cardinality(set \cap 1 .. i)
  <2>1. CASE i + 1 \in set
    <3>1. set \cap 1 .. (i + 1) = (set \cap 1 .. i) \cup {i + 1} /\ i + 1 \notin set \cap 1 .. i
      BY <2>1
    <3>. QED  BY <1>2, <2>1, <3>1, FS_AddElement
  <2>2. CASE i + 1 \notin set
    <3>1. set \cap 1 .. (i + 1) = set \cap 1 .. i
      BY <2>2
    <3>. QED  BY <2>2, <3>1
  <2>. QED  BY <2>1, <2>2
<1>6. IsFiniteSet(set) /\ Cardinality(set) \in 0 .. Len(Listing)
  <2>1. IsFiniteSet(1 .. Len(Listing)) /\ Cardinality(1 .. Len(Listing)) = Len(Listing)
    <3>1. 1 > Len(Listing) => Len(Listing) = 0
      BY <1>1
    <3>2. 1 \in Int /\ Len(Listing) \in Int /\ Len(Listing) - 1 + 1 = Len(Listing)
      BY <1>1
    <3>. QED  BY <3>1, <3>2, FS_Interval
  <2>2. IsFiniteSet(set) /\ Cardinality(set) <= Cardinality(1 .. Len(Listing))
    BY <2>1, FS_Subset
  <2>3. Cardinality(set) \in Nat
    BY <2>2, FS_CardinalityType
  <2>. QED  BY <1>1, <2>1, <2>2, <2>3
<1>. QED  BY <1>2, <1>3, <1>4, <1>5, <1>6 DEF Rank

\* The n-th place has rank n: the rank counts from 0 on, one by one.
LEMMA RankReached ==
  ASSUME NEW set \in SUBSET (1 .. Len(Listing)), NEW n \in 1 .. Cardinality(set)
  PROVE  \E i \in set : Rank(set, i) = n
<1>. DEFINE reached == {i \in Nat : Rank(set, i) >= n}
<1>1. n \in Nat /\ n > 0 /\ n <= Rank(set, Len(Listing)) /\ Len(Listing) \in Nat
  BY RankFacts, ListingAssumption
<1>2. reached \in SUBSET Nat /\ reached # {}
  BY <1>1, RankFacts
<1>3. PICK i \in reached : \A k \in reached : i <= k
  BY <1>2, LeastNat
<1>4. i # 0
  BY <1>1, RankFacts
<1>5. i - 1 \in Nat /\ (i - 1) + 1 = i /\ ~(Rank(set, i - 1) >= n)
  BY <1>3, <1>4
<1>6. /\ Rank(set, i - 1) \in Nat /\ Rank(set, i) >= n
      /\ Rank(set, (i - 1) + 1) = IF (i - 1) + 1 \in set THEN Rank(set, i - 1) + 1
                                                        ELSE Rank(set, i - 1)
  BY <1>3, <1>5, RankFacts
<1>. QED  BY <1>1, <1>5, <1>6

\* Listed keeps, of the list, the places it is given: it is as long as they
\* are many, every item of it is at one of them, and another item at another.
LEMMA ListedFacts ==
  ASSUME NEW set \in SUBSET (1 .. Len(Listing))
  PROVE  /\ Listed(set) \in Seq(Txn)
         /\ Len(Listed(set)) = Cardinality(set)
         /\ Len(Listed(set)) \in 0 .. Len(Listing)
         /\ set # {} => Len(Listed(set)) > 0
         /\ \A n \in 1 .. Len(Listed(set)) :
              \E i \in set : Rank(set, i) = n /\ Listed(set)[n] = Listing[i]
<1>. DEFINE m == Cardinality(set)
            place(n) == CHOOSE i \in set : Rank(set, i) = n
<1>1. m \in Nat /\ m <= Len(Listing) /\ (set # {} => m > 0)
  <2>1. IsFiniteSet(set) /\ m \in 0 .. Len(Listing)
    BY RankFacts
  <2>. QED  BY <2>1, ListingAssumption, FS_EmptySet
<1>2. ASSUME NEW n \in 1 .. m PROVE place(n) \in set /\ Rank(set, place(n)) = n
  BY RankReached
<1>3. ASSUME NEW n \in 1 .. m PROVE Listing[place(n)] \in Txn
  <2>1. place(n) \in 1 .. Len(Listing)
    BY <1>2
  <2>. HIDE DEF place
  <2>. QED  BY <2>1, ListingAssumption
<1>4. Listed(set) = [n \in 1 .. m |-> Listing[place(n)]]
  BY DEF Listed, Rank
<1>. HIDE DEF m, place
<1>5. Listed(set) \in Seq(Txn) /\ Len(Listed(set)) = m
  BY <1>1, <1>3, <1>4
<1>6. \A n \in 1 .. m : Listed(set)[n] = Listing[place(n)]
  BY <1>4
<1>. QED  BY <1>1, <1>2, <1>5, <1>6 DEF m

\* A conversation that is listed is listed a first time.
LEMMA FirstPlacesFacts ==
  ASSUME NEW S
  PROVE  /\ Places(S) \in SUBSET (1 .. Len(Listing))
         /\ FirstPlaces(S) \in SUBSET Places(S)
         /\ \A i \in Places(S) : \E k \in FirstPlaces(S) : Listing[k] = Listing[i]
         /\ \A i, k \in FirstPlaces(S) : Listing[i] = Listing[k] => i = k
<1>1. Places(S) \in SUBSET (1 .. Len(Listing)) /\ FirstPlaces(S) \in SUBSET Places(S)
      /\ Len(Listing) \in Nat
  BY ListingAssumption DEF Places, FirstPlaces
<1>2. ASSUME NEW i \in Places(S)
      PROVE  \E k \in FirstPlaces(S) : Listing[k] = Listing[i]
  <2>. DEFINE same == {k \in 1 .. Len(Listing) : Listing[k] = Listing[i]}
  <2>1. same \in SUBSET Nat /\ same # {}
    BY <1>1
  <2>2. PICK k \in same : \A l \in same : k <= l
    BY <2>1, LeastNat
  <2>3. k \in Places(S)
    BY <1>2, <2>2 DEF Places
  <2>4. \A l \in 1 .. k - 1 : l \notin same /\ l \in 1 .. Len(Listing)
    BY <1>1, <2>2
  <2>. QED  BY <2>2, <2>3, <2>4 DEF FirstPlaces
<1>3. ASSUME NEW i \in FirstPlaces(S), NEW k \in FirstPlaces(S), Listing[i] = Listing[k]
      PROVE  i = k
  <2>1. i \in Nat \ {0} /\ k \in Nat \ {0} /\ ~(i \in 1 .. k - 1) /\ ~(k \in 1 .. i - 1)
    BY <1>1, <1>3 DEF FirstPlaces
  <2>. QED  BY <2>1
<1>. QED  BY <1>1, <1>2, <1>3

-----------------------------------------------------------------------------
(* The batch of select_sync_batch.                                           *)

Smaller(a, b) == IF a < b THEN a ELSE b

\* A batch has min(size, Len(list)) conversations of the list, and the next
\* one starts at a position of it.
LEMMA BatchFacts ==
  ASSUME NEW S, NEW list \in Seq(S), Len(list) > 0, NEW size \in Nat, NEW cursor \in Nat
  PROVE  LET batch == SelectBatch(list, size, cursor)
             m == Smaller(size, Len(list))
         IN /\ batch.picked \in Seq(S) /\ Len(batch.picked) = m
            /\ batch.next \in 0 .. Len(list) - 1
            /\ batch.next = ((cursor % Len(list)) + m) % Len(list)
            /\ \A i \in 1 .. m :
                 batch.picked[i] = list[(((cursor % Len(list)) + i - 1) % Len(list)) + 1]
<1>. DEFINE n == Len(list)
            m == Smaller(size, n)
            c == cursor % n
            picked == [i \in 1 .. m |-> list[((c + i - 1) % n) + 1]]
            next == (c + m) % n
<1>1. n \in Nat /\ n > 0 /\ m \in Nat
  BY DEF Smaller
<1>2. SelectBatch(list, size, cursor) = [picked |-> picked, next |-> next]
  BY DEF SelectBatch, Smaller
<1>. HIDE DEF n, m
<1>3. \A a \in Nat : a % n \in 0 .. n - 1
  BY <1>1
<1>4. c \in Nat
  BY <1>1, <1>3
<1>. HIDE DEF c
<1>5. next \in 0 .. n - 1
  BY <1>1, <1>3, <1>4
<1>6. ASSUME NEW i \in 1 .. m PROVE list[((c + i - 1) % n) + 1] \in S
  <2>1. c + i - 1 \in Nat
    BY <1>1, <1>4
  <2>2. (c + i - 1) % n \in 0 .. n - 1
    BY <1>3, <2>1
  <2>3. ((c + i - 1) % n) + 1 \in 1 .. n
    BY <1>1, <2>2
  <2>. QED  BY <2>3 DEF n
<1>7. picked \in Seq(S) /\ Len(picked) = m
  BY <1>1, <1>6
<1>8. \A i \in 1 .. m : picked[i] = list[((c + i - 1) % n) + 1]
  OBVIOUS
<1>. HIDE DEF picked, next
<1>9. next = (c + m) % n
  BY DEF next
<1>. QED  BY <1>2, <1>5, <1>7, <1>8, <1>9 DEF n, m, c

-----------------------------------------------------------------------------
(* The rotation. Batch after batch of the same list, every conversation gets *)
(* its turn.                                                                 *)

\* a step of at most one turn from a place of a list of length n
LEMMA OneTurn ==
  ASSUME NEW n \in Nat \ {0}, NEW a \in 0 .. n - 1, NEW b \in 0 .. n
  PROVE  /\ (a + b) % n = IF a + b < n THEN a + b ELSE a + b - n
         /\ a % n = a
<1>1. ASSUME NEW x \in 0 .. 2 * n - 1
      PROVE  x % n = IF x < n THEN x ELSE x - n
  <2>. DEFINE d == x \div n
              r == x % n
  <2>1. x = n * d + r /\ r \in 0 .. n - 1 /\ d \in Int
    OBVIOUS
  <2>. HIDE DEF d, r
  <2>2. d >= 2 => n * d >= n * 2
    BY <2>1
  <2>3. d <= -1 => n * d <= n * (-1)
    BY <2>1
  <2>4. d = 0 \/ d = 1
    BY <2>1, <2>2, <2>3
  <2>5. d = 0 => n * d = 0
    BY <2>1
  <2>6. d = 1 => n * d = n
    BY <2>1
  <2>7. r = IF x < n THEN x ELSE x - n
    BY <2>1, <2>4, <2>5, <2>6
  <2>. QED  BY <2>7 DEF r
<1>2. (a + b) % n = IF a + b < n THEN a + b ELSE a + b - n
  <2>. DEFINE x == a + b
  <2>1. x \in 0 .. 2 * n - 1
    OBVIOUS
  <2>. HIDE DEF x
  <2>2. x % n = IF x < n THEN x ELSE x - n
    BY <1>1, <2>1
  <2>. QED  BY <2>2 DEF x
<1>3. a % n = a
  <2>1. a \in 0 .. 2 * n - 1
    OBVIOUS
  <2>. QED  BY <1>1, <2>1
<1>. QED  BY <1>2, <1>3

\* how far position p of a list of length n is ahead of the cursor
Ahead(n, p, cursor) ==
  LET c == cursor % n
  IN IF c < p THEN p - 1 - c ELSE p - 1 + n - c

\* A batch takes a position that is less than a batch ahead, and brings every
\* other one a batch nearer.
LEMMA BatchNearer ==
  ASSUME NEW S, NEW list \in Seq(S), Len(list) > 0, NEW size \in Nat \ {0}, NEW cursor \in Nat,
         NEW p \in 1 .. Len(list)
  PROVE  LET n == Len(list)
             m == Smaller(size, n)
             batch == SelectBatch(list, size, cursor)
             d == Ahead(n, p, cursor)
         IN /\ d \in 0 .. n - 1
            /\ d < m => d + 1 \in 1 .. Len(batch.picked) /\ batch.picked[d + 1] = list[p]
            /\ d >= m => Ahead(n, p, batch.next) = d - m
<1>. DEFINE n == Len(list)
            m == Smaller(size, n)
            batch == SelectBatch(list, size, cursor)
            d == Ahead(n, p, cursor)
            c == cursor % n
            e == batch.next % n
<1>1. n \in Nat \ {0} /\ m \in Nat \ {0} /\ m <= n
  BY DEF Smaller
<1>2. /\ Len(batch.picked) = m
      /\ batch.next = (c + m) % n
      /\ \A i \in 1 .. m : batch.picked[i] = list[((c + i - 1) % n) + 1]
      /\ batch.next \in 0 .. n - 1
  BY BatchFacts
<1>3. c \in 0 .. n - 1
  BY <1>1
<1>4. d = IF c < p THEN p - 1 - c ELSE p - 1 + n - c
  BY DEF Ahead
<1>5. Ahead(n, p, batch.next) = IF e < p THEN p - 1 - e ELSE p - 1 + n - e
  BY DEF Ahead
<1>6. p \in 1 .. n
  OBVIOUS
<1>. HIDE DEF n, m, batch, d, c
<1>7. e = batch.next /\ batch.next = IF c + m < n THEN c + m ELSE c + m - n
  <2>1. (c + m) % n = IF c + m < n THEN c + m ELSE c + m - n
    <3>1. m \in 0 .. n
      BY <1>1
    <3>. QED  BY <1>1, <1>3, <3>1, OneTurn
  <2>2. batch.next % n = batch.next
    BY <1>1, <1>2, OneTurn
  <2>. QED  BY <1>1, <1>2, <2>1, <2>2
<1>. HIDE DEF e
<1>8. d \in 0 .. n - 1
  BY <1>1, <1>3, <1>4, <1>6
<1>9. ASSUME d < m PROVE d + 1 \in 1 .. m /\ batch.picked[d + 1] = list[p]
  <2>1. d + 1 \in 1 .. m /\ c + (d + 1) - 1 = c + d
    BY <1>1, <1>3, <1>8, <1>9
  <2>2. c + d = p - 1 \/ c + d = p - 1 + n
    BY <1>1, <1>3, <1>4, <1>6, <1>8
  <2>3. (c + d) % n = IF c + d < n THEN c + d ELSE c + d - n
    <3>1. d \in 0 .. n
      BY <1>1, <1>8
    <3>. QED  BY <1>1, <1>3, <3>1, OneTurn
  <2>4. (c + d) % n = p - 1
    BY <1>1, <1>6, <2>2, <2>3
  <2>. QED  BY <1>2, <1>6, <2>1, <2>4
<1>10. d >= m => Ahead(n, p, batch.next) = d - m
  BY <1>1, <1>3, <1>4, <1>5, <1>6, <1>7
<1>. QED  BY <1>2, <1>8, <1>9, <1>10 DEF n, m, batch, d

\* cursor[k] is where the k-th of the batches of a list starts
Turns(list, size, cursor) ==
  /\ cursor \in [Nat -> Nat]
  /\ \A k \in Nat : cursor[k + 1] = SelectBatch(list, size, cursor[k]).next

\* x is in the k-th of them
Picks(list, size, cursor, k, x) ==
  LET picked == SelectBatch(list, size, cursor[k]).picked
  IN \E l \in 1 .. Len(picked) : picked[l] = x

\* x is in one of the first batches, which are as few as cover the list
Reached(list, size, cursor, x) ==
  \E k \in Nat : k * Smaller(size, Len(list)) < Len(list) /\ Picks(list, size, cursor, k, x)

\* One batch after the other reaches every position of the list.
LEMMA BatchesReach ==
  ASSUME NEW S, NEW list \in Seq(S), Len(list) > 0, NEW size \in Nat \ {0}, NEW cursor,
         Turns(list, size, cursor), NEW p \in 1 .. Len(list)
  PROVE  Reached(list, size, cursor, list[p])
<1>. DEFINE n == Len(list)
            m == Smaller(size, n)
            picked(k) == SelectBatch(list, size, cursor[k]).picked
            d(k) == Ahead(n, p, cursor[k])
            Taken(k) == \E i \in 1 .. Len(picked(k)) : picked(k)[i] = list[p]
            missed == {e \in Nat : \E k \in Nat : /\ d(k) = e
                                                  /\ \A l \in Nat : Taken(k + l) => l * m > e}
<1>1. n \in Nat \ {0} /\ m \in Nat \ {0}
  BY DEF Smaller
<1>2. ASSUME NEW k \in Nat
      PROVE  /\ d(k) \in 0 .. n - 1
             /\ d(k) < m => Taken(k)
             /\ d(k) >= m => d(k + 1) = d(k) - m
  <2>. DEFINE c == cursor[k]
              batch == SelectBatch(list, size, c)
  <2>1. c \in Nat /\ cursor[k + 1] = batch.next
    BY DEF Turns
  <2>2. d(k) = Ahead(n, p, c) /\ d(k + 1) = Ahead(n, p, batch.next) /\ picked(k) = batch.picked
    BY <2>1
  <2>. HIDE DEF c
  <2>3. /\ Ahead(n, p, c) \in 0 .. n - 1
        /\ Ahead(n, p, c) < m => /\ Ahead(n, p, c) + 1 \in 1 .. Len(batch.picked)
                                 /\ batch.picked[Ahead(n, p, c) + 1] = list[p]
        /\ Ahead(n, p, c) >= m => Ahead(n, p, batch.next) = Ahead(n, p, c) - m
    BY <2>1, BatchNearer
  <2>. HIDE DEF batch, n, m, d, picked
  <2>. QED  BY <2>2, <2>3
<1>. HIDE DEF n, m, picked, d, Taken
<1>3. missed = {}
  <2>. SUFFICES ASSUME missed # {} PROVE FALSE
    OBVIOUS
  <2>1. PICK e \in missed : \A f \in missed : e <= f
    BY LeastNat
  <2>2. PICK k \in Nat : d(k) = e /\ \A l \in Nat : Taken(k + l) => l * m > e
    BY <2>1
  <2>3. e \in Nat /\ (e < m => Taken(k)) /\ (e >= m => d(k + 1) = e - m)
    BY <1>2, <2>1, <2>2
  <2>4. CASE e < m
    <3>1. Taken(k + 0) /\ 0 * m = 0
      BY <1>1, <2>3, <2>4
    <3>. QED  BY <2>2, <2>3, <3>1
  <2>5. CASE e >= m
    <3>. DEFINE f == e - m
    <3>1. d(k + 1) = f /\ f \in Nat /\ f < e
      BY <1>1, <2>3, <2>5
    <3>2. f \notin missed
      <4>. HIDE DEF f, missed
      <4>. QED  BY <2>1, <2>3, <3>1
    <3>3. k + 1 \in Nat
      OBVIOUS
    <3>. HIDE DEF f
    <3>4. PICK l \in Nat : Taken((k + 1) + l) /\ ~(l * m > f)
      BY <3>1, <3>2, <3>3
    <3>5. l + 1 \in Nat /\ k + (l + 1) = (k + 1) + l
      OBVIOUS
    <3>6. (l + 1) * m > e
      BY <2>2, <3>4, <3>5
    <3>7. (l + 1) * m = l * m + m /\ l * m \in Nat
      BY <1>1
    <3>. QED  BY <1>1, <2>3, <3>1, <3>4, <3>6, <3>7 DEF f
  <2>. QED  BY <1>1, <2>3, <2>4, <2>5
<1>4. d(0) \in Nat /\ d(0) < n
  BY <1>1, <1>2
<1>5. PICK k \in Nat : Taken(0 + k) /\ ~(k * m > d(0))
  BY <1>3, <1>4
<1>6. k * m < n /\ 0 + k = k
  <2>1. k * m \in Nat
    BY <1>1
  <2>. QED  BY <1>1, <1>4, <1>5, <2>1
<1>. QED  BY <1>5, <1>6 DEF Taken, picked, m, n, Reached, Picks

LEMMA ListedAll ==
  ASSUME NEW set \in SUBSET (1 .. Len(Listing)), NEW i \in set
  PROVE  \E n \in 1 .. Len(Listed(set)) : Listed(set)[n] = Listing[i]
<1>1. Len(Listing) \in Nat /\ IsFiniteSet(set) /\ Cardinality(set) \in Nat
  BY RankFacts, ListingAssumption
<1>2. ASSUME NEW k \in set, NEW l \in set, k < l
      PROVE  Rank(set, k) < Rank(set, l)
  <2>. DEFINE b == l - 1
  <2>1. /\ k \in Nat /\ b \in Nat /\ b + 1 = l
        /\ set \cap 1 .. k \in SUBSET (set \cap 1 .. b)
        /\ set \cap 1 .. b \in SUBSET set
    BY <1>1, <1>2
  <2>. HIDE DEF b
  <2>2. IsFiniteSet(set \cap 1 .. b)
    BY <1>1, <2>1, FS_Subset
  <2>3. Rank(set, k) <= Rank(set, b)
    BY <2>1, <2>2, FS_Subset DEF Rank
  <2>4. Rank(set, b + 1) = Rank(set, b) + 1 /\ Rank(set, k) \in Nat /\ Rank(set, b) \in Nat
    BY <1>2, <2>1, RankFacts
  <2>. QED  BY <2>1, <2>3, <2>4
<1>3. Rank(set, i) \in 1 .. Cardinality(set)
  <2>1. i \in Nat /\ set \cap 1 .. i \in SUBSET set /\ i \in set \cap 1 .. i
    BY <1>1
  <2>2. Rank(set, i) <= Cardinality(set) /\ IsFiniteSet(set \cap 1 .. i)
    BY <1>1, <2>1, FS_Subset DEF Rank
  <2>3. Rank(set, i) # 0
    BY <2>1, <2>2, FS_EmptySet DEF Rank
  <2>4. Rank(set, i) \in Nat
    BY <2>1, RankFacts
  <2>. QED  BY <1>1, <2>2, <2>3, <2>4
<1>4. PICK k \in set : Rank(set, k) = Rank(set, i) /\ Listed(set)[Rank(set, i)] = Listing[k]
  BY <1>3, ListedFacts
<1>5. k \in Nat /\ i \in Nat /\ Rank(set, k) \in Nat
  BY <1>1, RankFacts
<1>6. k = i
  BY <1>2, <1>4, <1>5
<1>. QED  BY <1>3, <1>4, <1>6, ListedFacts

\* A batch of select_sync_batch names no conversation twice, however often the
\* list of bookings names it, and none that was scanned in the same poll.
THEOREM BatchRepeatsNothing ==
  ASSUME NEW S, Places(S) # {}, NEW size \in Nat, NEW cursor \in Nat
  PROVE  LET picked == SelectBatch(Listed(FirstPlaces(S)), size, cursor).picked
         IN /\ \A k \in 1 .. Len(picked) : picked[k] \in S
            /\ \A k, l \in 1 .. Len(picked) : picked[k] = picked[l] => k = l
<1>. DEFINE set == FirstPlaces(S)
            list == Listed(set)
            picked == SelectBatch(list, size, cursor).picked
            n == Len(list)
            m == Smaller(size, n)
            c == cursor % n
            at(k) == ((c + (k - 1)) % n) + 1
<1>1. /\ set \in SUBSET (1 .. Len(Listing)) /\ set # {} /\ set \subseteq Places(S)
      /\ \A i, k \in set : Listing[i] = Listing[k] => i = k
  BY FirstPlacesFacts
<1>. HIDE DEF set
<1>2. /\ list \in Seq(Txn) /\ n > 0 /\ n \in Nat
      /\ \A k \in 1 .. n : \E i \in set : Rank(set, i) = k /\ list[k] = Listing[i]
  BY <1>1, ListedFacts
<1>. HIDE DEF list
<1>3. m \in Nat /\ m <= n
  BY <1>2 DEF Smaller
<1>4. /\ Len(picked) = m
      /\ \A k \in 1 .. m : picked[k] = list[((c + k - 1) % n) + 1]
  BY <1>2, BatchFacts
<1>5. c \in 0 .. n - 1
  BY <1>2
<1>. HIDE DEF picked, n, m, c
<1>6. ASSUME NEW k \in 1 .. m
      PROVE  /\ picked[k] = list[at(k)] /\ at(k) \in 1 .. n
             /\ at(k) = IF c + (k - 1) < n THEN c + k ELSE c + k - n
  <2>1. k - 1 \in 0 .. n /\ c + k - 1 = c + (k - 1) /\ n \in Nat \ {0}
    BY <1>2, <1>3, <1>5
  <2>2. (c + (k - 1)) % n = IF c + (k - 1) < n THEN c + (k - 1) ELSE c + (k - 1) - n
    BY <1>5, <2>1, OneTurn
  <2>3. at(k) = IF c + (k - 1) < n THEN c + k ELSE c + k - n
    BY <1>2, <1>5, <2>1, <2>2
  <2>4. picked[k] = list[at(k)]
    BY <1>4, <2>1
  <2>. HIDE DEF at
  <2>. QED  BY <1>2, <1>3, <1>5, <2>3, <2>4
<1>. HIDE DEF at
<1>7. ASSUME NEW k \in 1 .. m PROVE picked[k] \in S
  <2>1. PICK i \in set : list[at(k)] = Listing[i]
    BY <1>2, <1>6
  <2>. QED  BY <1>1, <1>6, <2>1 DEF Places
<1>8. ASSUME NEW k \in 1 .. m, NEW l \in 1 .. m, picked[k] = picked[l]
      PROVE  k = l
  <2>1. PICK i \in set : Rank(set, i) = at(k) /\ list[at(k)] = Listing[i]
    BY <1>2, <1>6
  <2>2. PICK j \in set : Rank(set, j) = at(l) /\ list[at(l)] = Listing[j]
    BY <1>2, <1>6
  <2>3. at(k) = at(l)
    <3>1. i = j
      BY <1>1, <1>6, <1>8, <2>1, <2>2
    <3>. QED  BY <2>1, <2>2, <3>1
  <2>. QED  BY <1>2, <1>3, <1>5, <1>6, <2>3
<1>. QED  BY <1>4, <1>7, <1>8 DEF picked, m, list, set

\* select_sync_batch leaves no conversation out: while the list and what is
\* skipped stay the same, each of the n conversations that are left is in one
\* of the next k + 1 batches of m, for a k with k * m < n, wherever the cursor
\* was; that is ceil(n / m) polls, with no restart of the rotation in between.
THEOREM RotationReachesAll ==
  ASSUME NEW S, NEW i \in Places(S), NEW size \in Nat \ {0}, NEW cursor,
         Turns(Listed(FirstPlaces(S)), size, cursor)
  PROVE  Reached(Listed(FirstPlaces(S)), size, cursor, Listing[i])
<1>. DEFINE set == FirstPlaces(S)
            list == Listed(set)
<1>1. set \in SUBSET (1 .. Len(Listing)) /\ \E k \in set : Listing[k] = Listing[i]
  BY FirstPlacesFacts
<1>. HIDE DEF set
<1>2. list \in Seq(Txn) /\ \E n \in 1 .. Len(list) : list[n] = Listing[i]
  <2>1. PICK k \in set : Listing[k] = Listing[i]
    BY <1>1
  <2>2. \E n \in 1 .. Len(Listed(set)) : Listed(set)[n] = Listing[k]
    BY <1>1, <2>1, ListedAll
  <2>3. Listed(set) \in Seq(Txn)
    BY <1>1, ListedFacts
  <2>. QED  BY <2>1, <2>2, <2>3
<1>3. Turns(list, size, cursor)
  BY DEF set
<1>. HIDE DEF list
<1>4. PICK n \in 1 .. Len(list) : list[n] = Listing[i]
  BY <1>2
<1>5. Reached(list, size, cursor, list[n])
  BY <1>2, <1>3, <1>4, BatchesReach
<1>. QED  BY <1>4, <1>5 DEF list, set

-----------------------------------------------------------------------------
(* Types. The pages of a call stay within the limits because an anchor that  *)
(* was found is one to resume at; the cursor stays a position of the list    *)
(* because a job only carries such a position.                               *)

Position(c) == c \in Nat /\ (c = 0 \/ c < Len(Listing))

TypedJob(j) ==
  /\ j \in Job
  /\ Position(j.next)
  /\ j.at = "page" => j.txn \in Txn /\ j.page >= 1 /\ (j.found => j.resume # 0)

TypeInv == TypeOK /\ \A p \in Process : TypedJob(job[p])

\* a job is in Job when its fields are
LEMMA JobByField ==
  ASSUME NEW j, JobShape(j),
         j.at \in {"idle", "wait", "start", "page", "save"}, j.mode \in {"scan", "sync"},
         j.skip \in {{}, Active}, j.todo \in Seq(Txn), j.txn \in Txn \cup {NoTxn},
         j.resume \in 0 .. MaxMessages, j.found \in BOOLEAN, j.page \in 0 .. MaxPages,
         j.pages \in 0 .. MaxPages, j.got \in SUBSET Message, j.work \in Archive,
         j.dirty \in BOOLEAN, j.next \in Nat
  PROVE  j \in Job
BY DEF JobShape, Job

LEMMA FieldsOfJob ==
  ASSUME NEW j \in Job
  PROVE  /\ JobShape(j)
         /\ j.at \in {"idle", "wait", "start", "page", "save"} /\ j.mode \in {"scan", "sync"}
         /\ j.skip \in {{}, Active} /\ j.todo \in Seq(Txn) /\ j.txn \in Txn \cup {NoTxn}
         /\ j.resume \in 0 .. MaxMessages /\ j.found \in BOOLEAN /\ j.page \in 0 .. MaxPages
         /\ j.pages \in 0 .. MaxPages /\ j.got \in SUBSET Message /\ j.work \in Archive
         /\ j.dirty \in BOOLEAN /\ j.next \in Nat
BY DEF JobShape, Job

LEMMA WaitingTyped ==
  /\ TypedJob(IdleJob)
  /\ \A mode \in {"scan", "sync"}, skip \in {{}, Active} :
       /\ TypedJob(Waiting(mode, skip))
       /\ TypedJob([Waiting(mode, skip) EXCEPT !.at = "save"])
  /\ TypedJob(Saving)
  /\ \A p : TypedJob(Following(p))
<1>. DEFINE empty == EmptyArchive
<1>1. empty \in Archive
  BY LimitsAssumption DEF EmptyArchive, NoRecord, Archive, Record
<1>. HIDE DEF empty
<1>2. TypedJob(IdleJob) /\ IdleJob.at = "idle"
  <2>1. <<>> \in Seq(Txn)
    OBVIOUS
  <2>2. IdleJob = [at |-> "idle", mode |-> "scan", skip |-> {}, todo |-> <<>>, txn |-> NoTxn,
                   resume |-> 0, found |-> FALSE, page |-> 0, pages |-> 0, got |-> {},
                   work |-> empty, dirty |-> FALSE, next |-> 0]
    BY DEF IdleJob, empty
  <2>. QED  BY <1>1, <2>1, <2>2, LimitsAssumption DEF TypedJob, Position, Job
<1>3. ASSUME NEW mode \in {"scan", "sync"}, NEW skip \in {{}, Active}
      PROVE  /\ TypedJob(Waiting(mode, skip))
             /\ TypedJob([Waiting(mode, skip) EXCEPT !.at = "save"])
  <2>. DEFINE k == Waiting(mode, skip)
              idle == IdleJob
  <2>1. k = [idle EXCEPT !.at = "wait", !.mode = mode, !.skip = skip]
    BY DEF Waiting
  <2>2. TypedJob(idle)
    BY <1>2
  <2>. HIDE DEF k, idle
  <2>3. TypedJob(k) /\ TypedJob([k EXCEPT !.at = "save"])
    BY <2>1, <2>2 DEF TypedJob, Job
  <2>. QED  BY <2>3 DEF k
<1>4. TypedJob(Saving)
  BY <1>3 DEF Saving
<1>5. \A p : TypedJob(Following(p))
  BY <1>2, <1>3 DEF Following
<1>. QED  BY <1>2, <1>3, <1>4, <1>5

LEMMA OpenedTyped ==
  ASSUME NEW j, TypedJob(j), j.todo # <<>>
  PROVE  TypedJob(Opened(j))
<1>. DEFINE t == Head(j.todo)
            rest == Tail(j.todo)
            resume == Resume(j.work[t])
            k == Opened(j)
<1>1. j \in Job /\ Position(j.next)
  BY DEF TypedJob
<1>2. j.todo \in Seq(Txn) /\ j.work \in Archive
  BY <1>1 DEF Job
<1>3. t \in Txn /\ rest \in Seq(Txn)
  BY <1>2
<1>4. resume \in 0 .. MaxMessages
  BY <1>2, <1>3, LimitsAssumption DEF Resume, Archive, Record
<1>5. k = [j EXCEPT !.at = "page", !.todo = rest, !.txn = t, !.resume = resume,
                    !.found = FALSE, !.page = 1, !.pages = 0, !.got = {}]
  BY DEF Opened
<1>. HIDE DEF t, rest, resume, k
<1>6. TypedJob(k)
  <2>1. /\ JobShape(k) /\ k.at = "page" /\ k.todo = rest /\ k.txn = t /\ k.resume = resume
        /\ k.found = FALSE /\ k.page = 1 /\ k.pages = 0 /\ k.got = {}
        /\ k.mode = j.mode /\ k.skip = j.skip /\ k.work = j.work /\ k.dirty = j.dirty
        /\ k.next = j.next
    <3>1. JobShape(j)
      BY <1>1, FieldsOfJob
    <3>. QED  BY <1>5, <3>1 DEF JobShape
  <2>2. 1 \in 0 .. MaxPages /\ 0 \in 0 .. MaxPages /\ 1 >= 1
    BY LimitsAssumption
  <2>3. k \in Job
    BY <1>1, <1>3, <1>4, <2>1, <2>2, FieldsOfJob, JobByField
  <2>. QED  BY <1>1, <1>3, <2>1, <2>2, <2>3 DEF TypedJob
<1>. QED  BY <1>6 DEF k

\* A new record of the conversation.
LEMMA RecordedTyped ==
  ASSUME NEW j, TypedJob(j), j.at = "page", NEW r \in Record
  PROVE  TypedJob(Recorded(j, r)) /\ Recorded(j, r).at = "page"
<1>. DEFINE w == [j.work EXCEPT ![j.txn] = r]
            d == j.dirty \/ r # j.work[j.txn]
            k == Recorded(j, r)
<1>1. j \in Job /\ j.work \in Archive /\ j.dirty \in BOOLEAN /\ j.txn \in Txn
  BY DEF TypedJob, Job
<1>2. w \in Archive /\ d \in BOOLEAN
  BY <1>1 DEF Archive
<1>3. k = [j EXCEPT !.work = w, !.dirty = d]
  BY DEF Recorded
<1>. HIDE DEF w, d, k
<1>4. TypedJob(k) /\ k.at = "page"
  BY <1>1, <1>2, <1>3 DEF TypedJob, Job
<1>. QED  BY <1>4 DEF k

\* A page: the next one is within MaxPages, and the pages that count against
\* the limit are too.
LEMMA AfterTyped ==
  ASSUME NEW j, TypedJob(j), j.at = "page", count[j.txn] \in 0 .. MaxMessages
  PROVE  LET page == PageOf(count[j.txn], j.page)
         IN /\ TypedJob(AfterPage(page, j)) /\ AfterPage(page, j).at = "page"
            /\ NewOn(page, j) \subseteq Message
<1>. DEFINE n == count[j.txn]
            page == PageOf(n, j.page)
            record == j.work[j.txn]
            new == NewOn(page, j)
            got == j.got \cup new
            pages == BackfillPages(page, j)
            found == j.found \/ j.resume \in page
            ended == \/ j.resume = 0 /\ page \cap record.msgs # {}
                     \/ Cardinality(page) < PerPage
            capped == IF j.resume = 0 THEN j.page >= PageLimit(j)
                                      ELSE found /\ pages >= PageLimit(j)
            next == j.page + 1
            after == AfterPage(page, j)
<1>1. /\ j \in Job /\ j.txn \in Txn /\ j.page \in 1 .. MaxPages /\ (j.found => j.resume # 0)
      /\ j.work \in Archive /\ record \in Record /\ j.got \in SUBSET Message
      /\ j.resume \in 0 .. MaxMessages /\ j.found \in BOOLEAN /\ j.pages \in 0 .. MaxPages
      /\ Position(j.next) /\ MaxPages \in Nat \ {0}
      /\ n \in Nat /\ n <= MaxMessages /\ MaxMessages \in Nat
  BY LimitsAssumption DEF TypedJob, Job, Archive
<1>2. page \subseteq 1 .. n /\ (~(Cardinality(page) < PerPage) => Oldest(page) \in page)
  BY <1>1, PageFacts
<1>3. page \subseteq Message /\ 0 \notin page
  BY <1>1, <1>2 DEF Message
<1>4. new \subseteq page
  BY DEF NewOn
<1>5. got \in SUBSET Message
  BY <1>1, <1>3, <1>4
<1>6. found \in BOOLEAN /\ (found => j.resume # 0)
  BY <1>1, <1>3
<1>7. PageLimit(j) \in Nat /\ PageLimit(j) <= MaxPages
  BY LimitsAssumption DEF PageLimit
<1>8. ~capped => pages \in 0 .. MaxPages
  <2>1. CASE j.found
    <3>1. pages = j.pages + 1 /\ j.resume # 0 /\ found
      BY <1>1, <2>1 DEF BackfillPages
    <3>2. ~capped => ~(pages >= PageLimit(j))
      BY <3>1
    <3>. HIDE DEF pages, capped
    <3>. QED  BY <1>1, <1>7, <3>1, <3>2
  <2>2. CASE ~j.found
    <3>1. pages \in {0, 1}
      BY <2>2 DEF BackfillPages
    <3>. HIDE DEF pages, capped
    <3>. QED  BY <1>1, <3>1
  <2>. QED  BY <2>1, <2>2
<1>9. /\ Completed(record, got) \in Record
      /\ \A a \in 0 .. MaxMessages : Continued(record, got, a) \in Record
  <2>. HIDE DEF got, record
  <2>. QED  BY <1>1, <1>5, LimitsAssumption DEF Completed, Continued, Record
<1>10. ~ended => Oldest(page) \in 0 .. MaxMessages
  BY <1>2, <1>3 DEF Message
<1>11. \/ \E r \in Record : after = Recorded(j, r)
       \/ /\ ~capped /\ ~(j.page >= MaxPages)
          /\ after = [j EXCEPT !.page = next, !.pages = pages, !.found = found, !.got = got]
  <2>1. \/ after = Recorded(j, Completed(record, got))
        \/ ~ended /\ after = Recorded(j, Continued(record, got, Oldest(page)))
        \/ after = Recorded(j, Continued(record, got, j.resume))
        \/ /\ ~capped /\ ~(j.page >= MaxPages)
           /\ after = [j EXCEPT !.page = next, !.pages = pages, !.found = found, !.got = got]
    BY DEF AfterPage
  <2>. HIDE DEF page, record, new, got, pages, found, ended, capped, next, after
  <2>. QED  BY <1>1, <1>9, <1>10, <2>1
<1>. HIDE DEF page, record, new, got, pages, found, ended, capped, next, after
<1>12. CASE \E r \in Record : after = Recorded(j, r)
  <2>1. TypedJob(after) /\ after.at = "page"
    BY <1>12, RecordedTyped
  <2>. QED  BY <1>3, <1>4, <2>1 DEF after, page, new
<1>13. CASE /\ ~capped /\ ~(j.page >= MaxPages)
            /\ after = [j EXCEPT !.page = next, !.pages = pages, !.found = found, !.got = got]
  <2>1. next \in 1 .. MaxPages
    BY <1>1, <1>13 DEF next
  <2>2. TypedJob(after) /\ after.at = "page"
    <3>1. /\ JobShape(after) /\ after.page = next /\ after.pages = pages
          /\ after.found = found /\ after.got = got /\ after.at = "page"
          /\ after.mode = j.mode /\ after.skip = j.skip /\ after.todo = j.todo
          /\ after.txn = j.txn /\ after.resume = j.resume /\ after.work = j.work
          /\ after.dirty = j.dirty /\ after.next = j.next
      <4>1. JobShape(j)
        BY <1>1, FieldsOfJob
      <4>2. j.at = "page"
        OBVIOUS
      <4>. QED  BY <1>13, <4>1, <4>2 DEF JobShape
    <3>2. next \in 0 .. MaxPages /\ next >= 1
      BY <1>1, <2>1
    <3>3. after \in Job
      BY <1>1, <1>5, <1>6, <1>8, <1>13, <3>1, <3>2, FieldsOfJob, JobByField
    <3>. QED  BY <1>1, <1>6, <3>1, <3>2, <3>3 DEF TypedJob
  <2>. QED  BY <1>3, <1>4, <2>2 DEF after, page, new
<1>. QED  BY <1>11, <1>12, <1>13

-----------------------------------------------------------------------------
(* The types are kept.                                                       *)

\* what a job plans to read when it gets the lock
LEMMA PlannedTyped ==
  ASSUME NEW p \in Process, TypedJob(job[p]), Position(stored.cursor), archive \in Archive,
         job[p].at = "wait", ~NothingToSync(p)
  PROVE  TypedJob([Planned(p) EXCEPT !.at = "start"])
<1>. DEFINE list == Listed(FirstPlaces(Txn \ job[p].skip))
            size == BatchOf(p)
            batch == SelectBatch(list, size, stored.cursor)
            scanned == Listed(Places(Active))
            picked == batch.picked
            next == batch.next
            a == [job[p] EXCEPT !.work = archive]
            k == Planned(p)
<1>1. JobShape(job[p]) /\ job[p] \in Job /\ Position(job[p].next)
  BY FieldsOfJob DEF TypedJob
<1>2. scanned \in Seq(Txn)
  BY ListedFacts, FirstPlacesFacts
<1>3. ASSUME job[p].mode # "scan"
      PROVE  picked \in Seq(Txn) /\ Position(next)
  <2>1. Places(Txn \ job[p].skip) # {}
    BY <1>1, <1>3, FieldsOfJob DEF NothingToSync
  <2>2. list \in Seq(Txn) /\ Len(list) > 0 /\ Len(list) \in 0 .. Len(Listing)
    <3>. DEFINE set == FirstPlaces(Txn \ job[p].skip)
    <3>1. set \in SUBSET (1 .. Len(Listing)) /\ set # {}
      BY <2>1, FirstPlacesFacts
    <3>. HIDE DEF set
    <3>. QED  BY <3>1, ListedFacts DEF set
  <2>3. size \in Nat /\ stored.cursor \in Nat
    BY LimitsAssumption DEF BatchOf, Position
  <2>. HIDE DEF list, size
  <2>4. picked \in Seq(Txn) /\ next \in 0 .. Len(list) - 1
    BY <2>2, <2>3, BatchFacts
  <2>. QED  BY <2>2, <2>4, ListingAssumption DEF Position
<1>4. a.mode = job[p].mode /\ JobShape(a) /\ a.work = archive /\ a.at = "wait"
      /\ a.skip = job[p].skip /\ a.txn = job[p].txn /\ a.resume = job[p].resume
      /\ a.found = job[p].found /\ a.page = job[p].page /\ a.pages = job[p].pages
      /\ a.got = job[p].got /\ a.dirty = job[p].dirty /\ a.next = job[p].next
      /\ a.todo = job[p].todo
  BY <1>1 DEF JobShape
<1>5. k = IF a.mode = "scan" THEN [a EXCEPT !.todo = scanned]
                            ELSE [a EXCEPT !.todo = picked, !.next = next]
  BY DEF Planned
<1>. HIDE DEF list, size, batch, scanned, picked, next, a, k
<1>6. a \in Job
  BY <1>1, <1>4, FieldsOfJob, JobByField
<1>7. k \in Job /\ Position(k.next) /\ k.at = "wait"
  <2>1. CASE a.mode = "scan"
    <3>1. k = [a EXCEPT !.todo = scanned]
      BY <1>5, <2>1
    <3>. QED  BY <1>1, <1>2, <1>4, <1>6, <3>1 DEF Job
  <2>2. CASE a.mode # "scan"
    <3>1. k = [a EXCEPT !.todo = picked, !.next = next]
      BY <1>5, <2>2
    <3>2. picked \in Seq(Txn) /\ Position(next) /\ next \in Nat
      BY <1>3, <1>4, <2>2 DEF Position
    <3>. QED  BY <1>4, <1>6, <3>1, <3>2 DEF Job
  <2>. QED  BY <2>1, <2>2
<1>8. TypedJob([k EXCEPT !.at = "start"])
  BY <1>7 DEF TypedJob, Job
<1>. QED  BY <1>8 DEF k

\* one job is replaced by another
LEMMA JobTyped ==
  ASSUME job \in [Process -> Job], \A q \in Process : TypedJob(job[q]),
         NEW p \in Process, NEW k, TypedJob(k), job' = [job EXCEPT ![p] = k]
  PROVE  job' \in [Process -> Job] /\ \A q \in Process : TypedJob(job'[q])
<1>1. k \in Job
  BY DEF TypedJob
<1>2. \A q \in Process : job'[q] = IF q = p THEN k ELSE job[q]
  OBVIOUS
<1>. QED  BY <1>1, <1>2

LEMMA PrunedTyped ==
  ASSUME NEW a \in Archive
  PROVE  Pruned(a) \in Archive
<1>1. \A t \in Txn : a[t] \in Record /\ [a[t] EXCEPT !.msgs = {i \in @ : i > expired[t]}] \in Record
  BY DEF Archive, Record
<1>. QED  BY <1>1 DEF Pruned, Archive

\* p, which reads, goes on with job j.
LEMMA ContinueTyped ==
  ASSUME TypeInv, NEW p \in {"poll", "service"}, NEW j, TypedJob(j), Continue(p, j)
  PROVE  /\ archive' \in Archive /\ stored' \in Stored
         /\ lock' \in {"free", "poll", "service", "clear"}
         /\ job' \in [Process -> Job] /\ \A q \in Process : TypedJob(job'[q])
<1>1. /\ archive \in Archive /\ stored \in Stored /\ p \in Process /\ job \in [Process -> Job]
      /\ lock \in {"free", "poll", "service", "clear"} /\ \A q \in Process : TypedJob(job[q])
      /\ j.work \in Archive /\ Position(j.next) /\ j.mode \in {"scan", "sync"}
      /\ j.skip \in {{}, Active}
  BY FieldsOfJob DEF TypeInv, TypeOK, TypedJob, Process
<1>2. CASE j.todo = <<>>
  <2>. DEFINE kept == Pruned(j.work)
              dirty == j.dirty \/ kept # j.work
              saving == [Waiting(j.mode, j.skip) EXCEPT !.at = "save"]
  <2>1. kept \in Archive
    BY <1>1, PrunedTyped
  <2>2. TypedJob(saving) /\ TypedJob(Following(p))
    BY <1>1, WaitingTyped
  <2>3. /\ archive' = kept
        /\ stored' = CASE j.mode = "sync" -> [history |-> kept, cursor |-> j.next]
                       [] dirty /\ j.mode = "scan" -> [stored EXCEPT !.history = kept]
                       [] OTHER -> stored
        /\ \/ job' = [job EXCEPT ![p] = saving] /\ UNCHANGED lock
           \/ job' = [job EXCEPT ![p] = Following(p)] /\ lock' = "free"
    BY <1>2 DEF Continue, Close, Release
  <2>. HIDE DEF kept, dirty, saving
  <2>4. stored' \in Stored
    <3>1. CASE j.mode = "sync"
      BY <1>1, <2>1, <2>3, <3>1 DEF Stored, Position
    <3>2. CASE j.mode # "sync" /\ dirty
      BY <1>1, <2>1, <2>3, <3>2 DEF Stored
    <3>3. CASE j.mode # "sync" /\ ~dirty
      BY <1>1, <2>3, <3>3
    <3>. QED  BY <3>1, <3>2, <3>3
  <2>5. job' \in [Process -> Job] /\ \A q \in Process : TypedJob(job'[q])
    BY <1>1, <2>2, <2>3, JobTyped
  <2>. QED  BY <1>1, <2>1, <2>3, <2>4, <2>5
<1>3. CASE j.todo # <<>>
  <2>1. /\ job' = [job EXCEPT ![p] = Opened(j)]
        /\ archive' = IF j.mode = "scan" THEN j.work ELSE archive
        /\ UNCHANGED <<stored, lock>>
    BY <1>3 DEF Continue
  <2>2. TypedJob(Opened(j))
    BY <1>3, OpenedTyped
  <2>3. job' \in [Process -> Job] /\ \A q \in Process : TypedJob(job'[q])
    BY <1>1, <2>1, <2>2, JobTyped
  <2>. QED  BY <1>1, <2>1, <2>3
<1>. QED  BY <1>2, <1>3

LEMMA OperationTyped ==
  ASSUME TypeInv, NEW p \in {"poll", "service"}, Operation(p)
  PROVE  TypeInv'
<1>. DEFINE j == job[p]
<1>1. /\ count \in [Txn -> 0 .. MaxMessages] /\ expired \in [Txn -> 0 .. MaxMessages]
      /\ archive \in Archive /\ stored \in Stored /\ disk \in Stored
      /\ lock \in {"free", "poll", "service", "clear"} /\ job \in [Process -> Job]
      /\ fetched \in [Txn -> SUBSET Message] /\ forgotten \subseteq Txn
      /\ p \in Process /\ \A q \in Process : TypedJob(job[q])
  BY DEF TypeInv, TypeOK, Process
<1>2. TypedJob(j) /\ (j.at = "page" => j.txn \in Txn) /\ Position(stored.cursor)
  BY <1>1 DEF TypedJob, Stored, Position
<1>3. ASSUME NEW k, TypedJob(k), job' = [job EXCEPT ![p] = k],
             UNCHANGED <<worldVars, archive, stored, observed>>,
             disk' \in {disk, stored}, lock' \in {lock, "free", p}
      PROVE  TypeInv'
  <2>1. job' \in [Process -> Job] /\ \A q \in Process : TypedJob(job'[q])
    BY <1>1, <1>3, JobTyped
  <2>. QED  BY <1>1, <1>3, <2>1 DEF TypeInv, TypeOK, worldVars, observed
<1>4. CASE SyncNothing(p)
  BY <1>3, <1>4, WaitingTyped DEF SyncNothing
<1>5. CASE Acquire(p)
  <2>1. TypedJob([Planned(p) EXCEPT !.at = "start"])
    BY <1>1, <1>2, <1>5, PlannedTyped DEF Acquire
  <2>. QED  BY <1>3, <1>5, <2>1 DEF Acquire
<1>6. CASE Start(p)
  <2>1. Continue(p, j) /\ UNCHANGED <<worldVars, disk, observed>>
    BY <1>6 DEF Start
  <2>. QED  BY <1>1, <1>2, <2>1, ContinueTyped DEF TypeInv, TypeOK, worldVars, observed
<1>7. CASE ReadPage(p)
  <2>. DEFINE page == PageOf(count[j.txn], j.page)
              after == AfterPage(page, j)
              new == NewOn(page, j)
  <2>1. /\ j.at = "page" /\ UNCHANGED <<worldVars, disk, forgotten>>
        /\ fetched' = [fetched EXCEPT ![j.txn] = @ \cup new]
        /\ \/ job' = [job EXCEPT ![p] = after] /\ UNCHANGED <<archive, stored, lock>>
           \/ Continue(p, after)
    BY <1>7 DEF ReadPage
  <2>2. TypedJob(after) /\ new \subseteq Message
    BY <1>1, <1>2, <2>1, AfterTyped
  <2>. HIDE DEF page, after, new
  <2>3. fetched' \in [Txn -> SUBSET Message]
    BY <1>1, <1>2, <2>1, <2>2
  <2>4. /\ archive' \in Archive /\ stored' \in Stored
        /\ lock' \in {"free", "poll", "service", "clear"}
        /\ job' \in [Process -> Job] /\ \A q \in Process : TypedJob(job'[q])
    <3>1. CASE job' = [job EXCEPT ![p] = after] /\ UNCHANGED <<archive, stored, lock>>
      BY <1>1, <2>2, <3>1, JobTyped
    <3>2. CASE Continue(p, after)
      BY <2>2, <3>2, ContinueTyped
    <3>. QED  BY <2>1, <3>1, <3>2
  <2>. QED  BY <1>1, <2>1, <2>3, <2>4 DEF TypeInv, TypeOK, worldVars
<1>8. CASE RequestFails(p)
  <2>. DEFINE failed == Recorded(j, Failed(j.work[j.txn]))
              k == IF j.mode = "sync" THEN failed ELSE j
  <2>1. /\ j.at = "page" /\ Continue(p, k) /\ UNCHANGED <<worldVars, disk, fetched>>
        /\ forgotten' \in {forgotten, forgotten \cup {j.txn}}
    BY <1>8 DEF RequestFails
  <2>2. j.work[j.txn] \in Record
    BY <1>2, <2>1, FieldsOfJob DEF TypedJob, Archive
  <2>3. Failed(j.work[j.txn]) \in Record
    BY <2>2 DEF Failed, Record
  <2>4. TypedJob(k)
    BY <1>2, <2>1, <2>3, RecordedTyped
  <2>. HIDE DEF k
  <2>5. forgotten' \subseteq Txn
    BY <1>1, <1>2, <2>1
  <2>. QED  BY <1>1, <2>1, <2>4, <2>5, ContinueTyped DEF TypeInv, TypeOK, worldVars
<1>9. CASE TimesOut(p)
  <2>1. PICK k : /\ TypedJob(k) /\ job' = [job EXCEPT ![p] = k] /\ lock' = "free"
                 /\ UNCHANGED <<worldVars, archive, stored, disk, observed>>
    BY <1>9, WaitingTyped DEF TimesOut, Release
  <2>. QED  BY <1>3, <2>1
<1>10. CASE SaveArchive(p)
  BY <1>3, <1>10, WaitingTyped DEF SaveArchive, Release
<1>. QED  BY <1>4, <1>5, <1>6, <1>7, <1>8, <1>9, <1>10 DEF Operation

LEMMA TypeInvNext ==
  ASSUME TypeInv, [Next]_vars
  PROVE  TypeInv'
<1>1. /\ count \in [Txn -> 0 .. MaxMessages] /\ expired \in [Txn -> 0 .. MaxMessages]
      /\ archive \in Archive /\ stored \in Stored /\ disk \in Stored
      /\ lock \in {"free", "poll", "service", "clear"} /\ job \in [Process -> Job]
      /\ fetched \in [Txn -> SUBSET Message] /\ forgotten \subseteq Txn
      /\ \A q \in Process : TypedJob(job[q])
  BY DEF TypeInv, TypeOK
<1>2. ASSUME NEW p \in Process, NEW k, TypedJob(k), job' = [job EXCEPT ![p] = k],
             UNCHANGED <<worldVars, archive, stored, disk, lock, observed>>
      PROVE  TypeInv'
  <2>1. job' \in [Process -> Job] /\ \A q \in Process : TypedJob(job'[q])
    BY <1>1, <1>2, JobTyped
  <2>. QED  BY <1>1, <1>2, <2>1 DEF TypeInv, TypeOK, worldVars, observed
<1>3. CASE BeginPoll \/ ScanSkipped
  <2>1. PICK k : TypedJob(k) /\ job' = [job EXCEPT !["poll"] = k]
    BY <1>3, WaitingTyped DEF BeginPoll, ScanSkipped
  <2>. QED  BY <1>2, <1>3, <2>1 DEF BeginPoll, ScanSkipped, Process
<1>4. CASE BeginSync
  BY <1>2, <1>4, WaitingTyped DEF BeginSync, Process
<1>5. EmptyArchive \in Archive /\ Emptied \in Stored
  BY WaitingTyped, FieldsOfJob DEF TypedJob, IdleJob, Emptied, Stored
<1>6. CASE ClearMessages
  <2>1. /\ job' = [job EXCEPT !["clear"] = Saving] /\ lock' = "clear"
        /\ archive' = EmptyArchive /\ stored' = Emptied /\ UNCHANGED <<worldVars, disk, observed>>
    BY <1>6 DEF ClearMessages
  <2>2. job' \in [Process -> Job] /\ \A q \in Process : TypedJob(job'[q])
    BY <1>1, <2>1, WaitingTyped, JobTyped DEF Process
  <2>. QED  BY <1>1, <1>5, <2>1, <2>2 DEF TypeInv, TypeOK, worldVars, observed
<1>7. CASE ClearSaved
  <2>1. /\ job' = [job EXCEPT !["clear"] = IdleJob] /\ lock' \in {lock, "free"} /\ disk' = stored
        /\ fetched' = [t \in Txn |-> {}] /\ forgotten' = {}
        /\ UNCHANGED <<worldVars, archive, stored>>
    BY <1>7 DEF ClearSaved
  <2>2. job' \in [Process -> Job] /\ \A q \in Process : TypedJob(job'[q])
    BY <1>1, <2>1, WaitingTyped, JobTyped DEF Process
  <2>. QED  BY <1>1, <2>1, <2>2 DEF TypeInv, TypeOK, worldVars
<1>8. CASE SaveOthers
  BY <1>1, <1>8 DEF SaveOthers, TypeInv, TypeOK, worldVars, observed
<1>9. CASE Restart
  <2>1. /\ archive' = disk.history /\ stored' = disk /\ lock' = "free"
        /\ job' = [p \in Process |-> IdleJob] /\ UNCHANGED <<worldVars, disk, observed>>
    BY <1>9 DEF Restart
  <2>2. disk.history \in Archive
    BY <1>1 DEF Stored
  <2>3. job' \in [Process -> Job] /\ \A q \in Process : TypedJob(job'[q])
    <3>1. TypedJob(IdleJob) /\ IdleJob \in Job
      BY WaitingTyped DEF TypedJob
    <3>. QED  BY <2>1, <3>1
  <2>. QED  BY <1>1, <2>1, <2>2, <2>3 DEF TypeInv, TypeOK, worldVars, observed
<1>10. ASSUME NEW t \in Txn, MessageSent(t) \/ Expire(t) PROVE TypeInv'
  <2>1. count' \in [Txn -> 0 .. MaxMessages] /\ expired' \in [Txn -> 0 .. MaxMessages]
    BY <1>1, <1>10, LimitsAssumption DEF MessageSent, Expire
  <2>2. UNCHANGED <<archive, stored, disk, lock, job, observed>>
    BY <1>10 DEF MessageSent, Expire
  <2>. QED  BY <1>1, <2>1, <2>2 DEF TypeInv, TypeOK, observed
<1>11. CASE UNCHANGED vars
  BY <1>1, <1>11 DEF vars, TypeInv, TypeOK
<1>. QED  BY <1>3, <1>4, <1>6, <1>7, <1>8, <1>9, <1>10, <1>11, OperationTyped DEF Next

\* The archive, the store and the operations always have the types the code
\* expects: whatever is interrupted, cleared or lost, the cursor is a position of
\* the list or 0 (select_sync_batch), and a call reads no page above MAX_PAGES
\* (get_messages_incremental of api.py).
THEOREM TypeCorrect == Spec => []TypeOK
<1>1. Init => TypeInv
  <2>. SUFFICES ASSUME Init PROVE TypeInv
    OBVIOUS
  <2>1. TypedJob(IdleJob) /\ IdleJob \in Job /\ EmptyArchive \in Archive
    BY WaitingTyped, FieldsOfJob DEF TypedJob, IdleJob
  <2>2. job \in [Process -> Job] /\ \A q \in Process : TypedJob(job[q])
    BY <2>1 DEF Init
  <2>3. archive \in Archive /\ stored \in Stored /\ disk \in Stored
    BY <2>1 DEF Init, Stored
  <2>. QED  BY <2>2, <2>3, LimitsAssumption DEF Init, TypeInv, TypeOK
<1>2. TypeInv /\ [Next]_vars => TypeInv'
  BY TypeInvNext
<1>3. TypeInv => TypeOK
  BY DEF TypeInv
<1>. QED  BY <1>1, <1>2, <1>3, PTL DEF Spec

\* Where no request fails, "complete" means what SHARETRIBE_API.md promises: the
\* anchors skip no older page. It is the failed request alone that breaks it,
\* and no timeout, clear, restart or concurrent sync does.
THEOREM NothingIsSkipped ==
  ASSUME "fail" \notin Faults
  PROVE  Spec => []NothingSkipped
<1>1. Init => forgotten = {}
  BY DEF Init
<1>2. forgotten = {} /\ [Next]_vars => (forgotten = {})'
  <2>. SUFFICES ASSUME forgotten = {}, [Next]_vars PROVE forgotten' = {}
    OBVIOUS
  <2>1. ASSUME NEW p \in {"poll", "service"}, Operation(p) PROVE forgotten' = {}
    BY <2>1 DEF Operation, SyncNothing, Acquire, Start, ReadPage, RequestFails, TimesOut,
                SaveArchive, observed
  <2>2. CASE ~\E p \in {"poll", "service"} : Operation(p)
    BY <2>2 DEF Next, vars, observed, BeginPoll, ScanSkipped, BeginSync, ClearMessages,
                ClearSaved, SaveOthers, Restart, MessageSent, Expire
  <2>. QED  BY <2>1, <2>2
<1>3. forgotten = {} /\ NoGap => NothingSkipped
  BY DEF NoGap, NothingSkipped
<1>. QED  BY <1>1, <1>2, <1>3, CompleteMeansNoGap, PTL DEF Spec
=============================================================================
