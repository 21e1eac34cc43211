----------------------------- MODULE MessageSync -----------------------------
(***************************************************************************)
(* The archive of conversations: every poll scans the active conversations  *)
(* and syncs a rotating batch of the others, the sync_message_history       *)
(* service syncs a batch of its own, and clear_message_history empties the  *)
(* archive.  A conversation is read page by page, newest messages first,    *)
(* while new messages arrive; what one call leaves for the next is an       *)
(* anchor.                                                                  *)
(*                                                                          *)
(* One generation of the entry (BookingEvents has the reloads), with        *)
(* archive_messages on.  The messages of a conversation are numbered from   *)
(* the oldest, 1, on.                                                       *)
(***************************************************************************)
EXTENDS Integers, Sequences, FiniteSets

CONSTANTS
  Txn,            \* the conversations
  NoTxn,          \* "no conversation"
  Listing,        \* Txn in the order of the list of bookings
  Active,         \* the upcoming and current bookings, which a poll scans
  Callers,        \* a subset of {"service", "clear"}
  Faults,         \* a subset of {"fail", "timeout", "crash"}
  Retention,      \* a retention period is configured
  PerPage,        \* messages per page (100)
  ScanPages,      \* pages a scan reads of a conversation (2)
  SyncPages,      \* pages a sync reads of a conversation (3)
  MaxPages,       \* pages any call reads (50)
  PollBatch,      \* conversations a poll syncs (5)
  ServiceBatch,   \* conversations a service call syncs (1 to 50)
  MaxMessages     \* bound: messages per conversation

ASSUME ListingAssumption ==
  /\ Listing \in Seq(Txn)
  /\ Active \subseteq Txn
  /\ NoTxn \notin Txn

ASSUME OptionsAssumption ==
  /\ Callers \subseteq {"service", "clear"}
  /\ Faults \subseteq {"fail", "timeout", "crash"}
  /\ Retention \in BOOLEAN

ASSUME LimitsAssumption ==
  /\ PerPage \in Nat \ {0} /\ ScanPages \in Nat \ {0} /\ SyncPages \in Nat \ {0}
  /\ MaxPages \in Nat /\ MaxPages >= ScanPages /\ MaxPages >= SyncPages
  /\ PollBatch \in Nat \ {0} /\ ServiceBatch \in Nat \ {0}
  /\ MaxMessages \in Nat

VARIABLES
  count,    \* count[t]: messages of t on the marketplace
  expired,  \* expired[t]: how many of them are older than the retention period
  archive,  \* message_history of the coordinator
  stored,   \* message_history and message_sync_cursor of the dictionary
  disk,     \* the same in the store's file
  lock,     \* who holds _message_archive_lock
  job,      \* job[p]: the operation of process p
  fetched,  \* fetched[t]: messages read since the last clear (observation)
  forgotten \* where a failure ended a backfill, since then (observation)

worldVars == <<count, expired>>
observed == <<fetched, forgotten>>
vars == <<count, expired, archive, stored, disk, lock, job, fetched, forgotten>>

-----------------------------------------------------------------------------
(* Records and pages.                                                       *)

Message == 1 .. MaxMessages

\* anchor 0 stands for None; "none" is a conversation without a record
Record == [msgs : SUBSET Message, status : {"none", "complete", "partial", "failed"},
           anchor : 0 .. MaxMessages]
NoRecord == [msgs |-> {}, status |-> "none", anchor |-> 0]
Archive == [Txn -> Record]

\* the newest message older than the first k pages, of n messages
Below(n, k) == n - k * PerPage

PageOf(n, k) == {i \in 1 .. n : Below(n, k) < i /\ i <= Below(n, k - 1)}
Oldest(page) == CHOOSE i \in page : \A j \in page : i <= j

\* Variant for the checks: every call starts from the newest known message.
ResumeNowhere(r) == 0

\* where to resume: only a partial record says
Resume(r) == IF r.status = "partial" THEN r.anchor ELSE 0

Completed(r, got) == [msgs |-> r.msgs \cup got, status |-> "complete", anchor |-> 0]
Continued(r, got, a) == [msgs |-> r.msgs \cup got, status |-> "partial", anchor |-> a]
Failed(r) == [r EXCEPT !.status = "failed"]

Pruned(a) ==
  [t \in Txn |-> IF Retention THEN [a[t] EXCEPT !.msgs = {i \in @ : i > expired[t]}]
                              ELSE a[t]]

\* Variant for the checks: the batch always starts at the first conversation.
SelectBatchFirst(list, size, cursor) ==
  LET n == Len(list)
      m == IF size < n THEN size ELSE n
  IN [picked |-> [i \in 1 .. m |-> list[i]], next |-> 0]

\* Variant for the checks: the next position is not wrapped around.
SelectBatchUnwrapped(list, size, cursor) ==
  LET n == Len(list)
      m == IF size < n THEN size ELSE n
      c == cursor % n
  IN [picked |-> [i \in 1 .. m |-> list[((c + i - 1) % n) + 1]], next |-> c + m]

\* select_sync_batch, of a list that is not empty
SelectBatch(list, size, cursor) ==
  LET n == Len(list)
      m == IF size < n THEN size ELSE n
      c == cursor % n
  IN [picked |-> [i \in 1 .. m |-> list[((c + i - 1) % n) + 1]], next |-> (c + m) % n]

-----------------------------------------------------------------------------
(* Operations. A process waits for the lock, reads the pages of one          *)
(* conversation after the other, saves what changed and lets the lock go.    *)

Process == {"poll", "service", "clear"}

Job == [at : {"idle", "wait", "start", "page", "save"}, mode : {"scan", "sync"},
        skip : {{}, Active}, todo : Seq(Txn), txn : Txn \cup {NoTxn},
        resume : 0 .. MaxMessages, found : BOOLEAN, page : 0 .. MaxPages,
        pages : 0 .. MaxPages, got : SUBSET Message, work : Archive,
        dirty : BOOLEAN, next : Nat]

EmptyArchive == [t \in Txn |-> NoRecord]

IdleJob == [at |-> "idle", mode |-> "scan", skip |-> {}, todo |-> <<>>, txn |-> NoTxn,
            resume |-> 0, found |-> FALSE, page |-> 0, pages |-> 0, got |-> {},
            work |-> EmptyArchive, dirty |-> FALSE, next |-> 0]

\* waiting for the lock, to scan, or to sync what is not in skip
Waiting(mode, skip) == [IdleJob EXCEPT !.at = "wait", !.mode = mode, !.skip = skip]

\* a poll syncs what its scan skipped; a service call is over
Following(p) ==
  IF p = "poll" /\ job[p].mode = "scan" THEN Waiting("sync", Active) ELSE IdleJob

\* job j turns to the first of its conversations left to read
Opened(j) ==
  [j EXCEPT !.at = "page", !.todo = Tail(@), !.txn = Head(j.todo),
            !.resume = Resume(j.work[Head(j.todo)]), !.found = FALSE,
            !.page = 1, !.pages = 0, !.got = {}]

Release(p, next) == lock' = "free" /\ job' = [job EXCEPT ![p] = next]

\* job j of p has read its last conversation; it saves if anything changed
Close(p, j) ==
  LET kept  == Pruned(j.work)
      dirty == j.dirty \/ kept # j.work
  IN /\ archive' = kept
     /\ stored' = CASE j.mode = "sync" -> [history |-> kept, cursor |-> j.next]
                    [] dirty /\ j.mode = "scan" -> [stored EXCEPT !.history = kept]
                    [] OTHER -> stored
     /\ IF dirty \/ (j.mode = "sync" /\ j.next # stored.cursor)
        THEN /\ job' = [job EXCEPT ![p] = [Waiting(j.mode, j.skip) EXCEPT !.at = "save"]]
             /\ UNCHANGED lock
        ELSE Release(p, Following(p))

\* p goes on with job j: its next conversation, or the end of the operation
Continue(p, j) ==
  IF j.todo = <<>>
  THEN Close(p, j)
  ELSE /\ job' = [job EXCEPT ![p] = Opened(j)]
       /\ archive' = IF j.mode = "scan" THEN j.work ELSE archive
       /\ UNCHANGED <<stored, lock>>

-----------------------------------------------------------------------------
(* A poll.                                                                  *)

\* _fetch_data reaches the scan of the active bookings; polls do not overlap
BeginPoll ==
  /\ job["poll"].at = "idle"
  /\ job' = [job EXCEPT !["poll"] = Waiting("scan", {})]
  /\ UNCHANGED <<worldVars, archive, stored, disk, lock, observed>>

\* the scan cannot tell who the host is: it raises before it takes the lock
ScanSkipped ==
  /\ "fail" \in Faults
  /\ job["poll"].at = "wait" /\ job["poll"].mode = "scan"
  /\ job' = [job EXCEPT !["poll"] = Waiting("sync", {})]
  /\ UNCHANGED <<worldVars, archive, stored, disk, lock, observed>>

\* the sync_message_history service
BeginSync ==
  /\ "service" \in Callers
  /\ job["service"].at = "idle"
  /\ job' = [job EXCEPT !["service"] = Waiting("sync", {})]
  /\ UNCHANGED <<worldVars, archive, stored, disk, lock, observed>>

\* where the conversations of S are in the list, and where each is first
Places(S) == {i \in 1 .. Len(Listing) : Listing[i] \in S}
FirstPlaces(S) == {i \in Places(S) : \A k \in 1 .. i - 1 : Listing[k] # Listing[i]}

\* the list, of which only the places of set are kept
Listed(set) ==
  [n \in 1 .. Cardinality(set) |->
     Listing[CHOOSE i \in set : Cardinality(set \cap 1 .. i) = n]]

BatchOf(p) == IF p = "poll" THEN PollBatch ELSE ServiceBatch

\* what p reads once it holds the lock: the active bookings, or the next batch
Planned(p) ==
  LET batch == SelectBatch(Listed(FirstPlaces(Txn \ job[p].skip)), BatchOf(p), stored.cursor)
      j == [job[p] EXCEPT !.work = archive]
  IN IF j.mode = "scan"
     THEN [j EXCEPT !.todo = Listed(Places(Active))]
     ELSE [j EXCEPT !.todo = batch.picked, !.next = batch.next]

NothingToSync(p) ==
  job[p].mode = "sync" /\ Places(Txn \ job[p].skip) = {}

\* a sync of no conversation returns before it asks for the lock
SyncNothing(p) ==
  /\ job[p].at = "wait" /\ NothingToSync(p)
  /\ job' = [job EXCEPT ![p] = IdleJob]
  /\ UNCHANGED <<worldVars, archive, stored, disk, lock, observed>>

\* Variant for the checks: the archive is read without the lock.
AcquireAnyway(p) ==
  /\ job[p].at = "wait" /\ ~NothingToSync(p)
  /\ lock' = p
  /\ job' = [job EXCEPT ![p] = [Planned(p) EXCEPT !.at = "start"]]
  /\ UNCHANGED <<worldVars, archive, stored, disk, observed>>

\* p gets the lock and reads the archive and the cursor
Acquire(p) ==
  /\ job[p].at = "wait" /\ ~NothingToSync(p)
  /\ lock = "free"
  /\ lock' = p
  /\ job' = [job EXCEPT ![p] = [Planned(p) EXCEPT !.at = "start"]]
  /\ UNCHANGED <<worldVars, archive, stored, disk, observed>>

\* p turns to its first conversation, if it has one
Start(p) ==
  /\ job[p].at = "start"
  /\ Continue(p, job[p])
  /\ UNCHANGED <<worldVars, disk, observed>>

-----------------------------------------------------------------------------
(* Reading a conversation: get_messages_incremental and the merge of what it *)
(* returns.                                                                  *)

\* what of a page is new: without an anchor the messages above the newest known
\* one; before the anchor what is not known; after it everything
NewOn(page, j) ==
  LET known == j.work[j.txn].msgs
  IN IF j.resume = 0
     THEN {i \in page : \A k \in known \cap page : i > k}
     ELSE IF j.found
     THEN page
     ELSE {i \in page \ {j.resume} : i \notin known \/ (j.resume \in page /\ i < j.resume)}

\* pages that count against the limit, this one included
BackfillPages(page, j) ==
  IF j.found THEN j.pages + 1 ELSE IF j.resume \in page THEN 1 ELSE 0

PageLimit(j) == IF j.mode = "scan" THEN ScanPages ELSE SyncPages

\* the conversation is read: its new record
Recorded(j, record) ==
  LET t == j.txn
  IN [j EXCEPT !.work = [@ EXCEPT ![t] = record],
               !.dirty = @ \/ record # j.work[t]]

\* what becomes of job j when it gets this page of its conversation
AfterPage(page, j) ==
  LET record == j.work[j.txn]
      got    == j.got \cup NewOn(page, j)
      pages  == BackfillPages(page, j)
      found  == j.found \/ j.resume \in page
      ended  == \/ j.resume = 0 /\ page \cap record.msgs # {}
                \/ Cardinality(page) < PerPage
      capped == IF j.resume = 0 THEN j.page >= PageLimit(j)
                                ELSE found /\ pages >= PageLimit(j)
  IN CASE ended             -> Recorded(j, Completed(record, got))
       [] ~ended /\ capped  -> Recorded(j, Continued(record, got, Oldest(page)))
       [] ~ended /\ ~capped /\ j.page >= MaxPages
                            -> Recorded(j, Continued(record, got, j.resume))
       [] OTHER             -> [j EXCEPT !.page = @ + 1, !.pages = pages,
                                         !.found = found, !.got = got]

\* a page of p's conversation arrives; the next one is read, or the next
\* conversation
ReadPage(p) ==
  LET j     == job[p]
      page  == PageOf(count[j.txn], j.page)
      after == AfterPage(page, j)
  IN /\ j.at = "page"
     /\ fetched' = [fetched EXCEPT ![j.txn] = @ \cup NewOn(page, j)]
     /\ IF after.page > j.page
        THEN /\ job' = [job EXCEPT ![p] = after]
             /\ UNCHANGED <<archive, stored, lock>>
        ELSE Continue(p, after)
     /\ UNCHANGED <<worldVars, disk, forgotten>>

\* the request fails: a sync notes the failure, a scan skips the conversation
RequestFails(p) ==
  LET j == job[p]
  IN /\ "fail" \in Faults
     /\ j.at = "page"
     /\ Continue(p, IF j.mode = "sync" THEN Recorded(j, Failed(j.work[j.txn])) ELSE j)
     /\ forgotten' = IF j.mode = "sync" /\ j.work[j.txn].status = "partial"
                     THEN forgotten \cup {j.txn} ELSE forgotten
     /\ UNCHANGED <<worldVars, disk, fetched>>

\* any other exception ends the operation; a scan keeps what it merged, a sync
\* loses it, and the poll goes on to a sync of every conversation
TimesOut(p) ==
  /\ "timeout" \in Faults
  /\ job[p].at = "page"
  /\ Release(p, IF job[p].mode = "scan" THEN Waiting("sync", {}) ELSE IdleJob)
  /\ UNCHANGED <<worldVars, archive, stored, disk, observed>>

\* the dictionary is in the store's file: the lock is free again
SaveArchive(p) ==
  /\ job[p].at = "save"
  /\ disk' = stored
  /\ Release(p, Following(p))
  /\ UNCHANGED <<worldVars, archive, stored, observed>>

-----------------------------------------------------------------------------
(* Clearing, saving, restarting, and the marketplace.                        *)

Emptied == [history |-> EmptyArchive, cursor |-> 0]
Saving == [Waiting("sync", {}) EXCEPT !.at = "save"]

\* Variant for the checks: the archive is emptied while a sync may be reading.
ClearMessagesUnlocked ==
  /\ "clear" \in Callers
  /\ job["clear"].at = "idle"
  /\ archive' = EmptyArchive
  /\ stored' = Emptied
  /\ job' = [job EXCEPT !["clear"] = Saving]
  /\ UNCHANGED <<worldVars, disk, lock, observed>>

\* the clear_message_history service, once it has the lock
ClearMessages ==
  /\ "clear" \in Callers
  /\ job["clear"].at = "idle"
  /\ lock = "free"
  /\ lock' = "clear"
  /\ archive' = EmptyArchive
  /\ stored' = Emptied
  /\ job' = [job EXCEPT !["clear"] = Saving]
  /\ UNCHANGED <<worldVars, disk, observed>>

\* the service call is over: what was read before it is forgotten
ClearSaved ==
  /\ job["clear"].at = "save"
  /\ disk' = stored
  /\ fetched' = [t \in Txn |-> {}]
  /\ forgotten' = {}
  /\ job' = [job EXCEPT !["clear"] = IdleJob]
  /\ lock' = IF lock = "clear" THEN "free" ELSE lock
  /\ UNCHANGED <<worldVars, archive, stored>>

\* another part of the coordinator saves the dictionary
SaveOthers ==
  /\ disk # stored
  /\ disk' = stored
  /\ UNCHANGED <<worldVars, archive, stored, lock, job, observed>>

\* Home Assistant stops and starts again with what the store's file holds
Restart ==
  /\ "crash" \in Faults
  /\ archive' = disk.history
  /\ stored' = disk
  /\ lock' = "free"
  /\ job' = [p \in Process |-> IdleJob]
  /\ UNCHANGED <<worldVars, disk, observed>>

\* a message is sent in conversation t
MessageSent(t) ==
  /\ count[t] < MaxMessages
  /\ count' = [count EXCEPT ![t] = @ + 1]
  /\ UNCHANGED <<expired, archive, stored, disk, lock, job, observed>>

\* the oldest message of t that is not yet too old becomes too old
Expire(t) ==
  /\ Retention
  /\ expired[t] < count[t]
  /\ expired' = [expired EXCEPT ![t] = @ + 1]
  /\ UNCHANGED <<count, archive, stored, disk, lock, job, observed>>

-----------------------------------------------------------------------------

Init ==
  /\ count \in [Txn -> 0 .. MaxMessages]
  /\ expired = [t \in Txn |-> 0]
  /\ archive = EmptyArchive
  /\ stored = [history |-> EmptyArchive, cursor |-> 0]
  /\ disk = [history |-> EmptyArchive, cursor |-> 0]
  /\ lock = "free"
  /\ job = [p \in Process |-> IdleJob]
  /\ fetched = [t \in Txn |-> {}]
  /\ forgotten = {}

Operation(p) ==
  \/ SyncNothing(p)
  \/ Acquire(p)
  \/ Start(p)
  \/ ReadPage(p)
  \/ RequestFails(p)
  \/ TimesOut(p)
  \/ SaveArchive(p)

Next ==
  \/ BeginPoll
  \/ ScanSkipped
  \/ BeginSync
  \/ \E p \in {"poll", "service"} : Operation(p)
  \/ ClearMessages
  \/ ClearSaved
  \/ SaveOthers
  \/ Restart
  \/ \E t \in Txn : MessageSent(t) \/ Expire(t)

Spec == Init /\ [][Next]_vars

\* the coordinator polls for ever, a request is answered, a save ends
Fairness ==
  /\ WF_vars(BeginPoll)
  /\ \A p \in {"poll", "service"} :
        /\ SF_vars(Acquire(p))
        /\ WF_vars(SyncNothing(p) \/ Start(p) \/ ReadPage(p) \/ SaveArchive(p))
  /\ WF_vars(ClearSaved)

FairSpec == Spec /\ Fairness

-----------------------------------------------------------------------------
(* Properties.                                                              *)

Stored == [history : Archive, cursor : {c \in Nat : c = 0 \/ c < Len(Listing)}]

\* Types: the archive, the dictionary, the file and the operations, the pages
\* of which stay within the limits of get_messages_incremental and the cursor
\* of which stays a position of the list.
TypeOK ==
  /\ count \in [Txn -> 0 .. MaxMessages]
  /\ expired \in [Txn -> 0 .. MaxMessages]
  /\ archive \in Archive
  /\ stored \in Stored
  /\ disk \in Stored
  /\ lock \in {"free", "poll", "service", "clear"}
  /\ job \in [Process -> Job]
  /\ fetched \in [Txn -> SUBSET Message]
  /\ forgotten \subseteq Txn

\* the messages of set that are still kept have no gap above message a
Covered(set, a, t) ==
  \A j \in set : \A i \in Message :
    (a < i /\ i <= j /\ i > expired[t]) => i \in set

\* A conversation whose record says "complete" has no hole, unless a request
\* of a backfill failed: every message still retained that is older than an
\* archived one is archived too.  A hole would never be filled, since the next
\* sync stops at the first known message.
NoGap ==
  \A t \in Txn \ forgotten : archive[t].status = "complete" => Covered(archive[t].msgs, 0, t)

\* The promise of the anchors (SHARETRIBE_API.md): a capped backfill is resumed
\* without skipping older pages, so "complete" is said of no conversation with
\* a hole, whatever happened to its requests.
NothingSkipped ==
  \A t \in Txn : archive[t].status = "complete" => Covered(archive[t].msgs, 0, t)

\* Once clear_message_history has returned, nothing that was read before it is
\* in the archive or in the file again: no sync in flight puts it back.
ClearIsFinal ==
  \A t \in Txn : /\ archive[t].msgs \subseteq fetched[t]
                  /\ disk.history[t].msgs \subseteq fetched[t]

Kept(t) == {i \in archive[t].msgs : i > expired[t]}

\* Only a clear or a restart takes an archived message that is still retained
\* out of the archive: of a scan and a sync none undoes what the other merged.
NothingLost ==
  [][\A t \in Txn : \/ Kept(t) \subseteq archive'[t].msgs
                    \/ archive' = EmptyArchive /\ job'["clear"].at = "save"
                    \/ archive' = disk.history /\ job' = [p \in Process |-> IdleJob]]_vars

\* When no more messages arrive and no call fails, polls alone archive every
\* message of every conversation, however far the limits on pages and on
\* conversations cut each poll short.
EventuallyArchived ==
  <>[](\A t \in Txn : archive[t].msgs = 1 .. count[t] /\ archive[t].status = "complete")
=============================================================================
