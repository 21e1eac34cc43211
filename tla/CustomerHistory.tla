--------------------------- MODULE CustomerHistory ---------------------------
(***************************************************************************)
(* The customer history: the archive of bookings and of their customers'   *)
(* contact data that every poll extends, prunes, and scrubs when the       *)
(* provider has not opted in to keeping contact data.                      *)
(*                                                                         *)
(* The archive is held by the coordinator ("generation") that a setup of   *)
(* the entry builds, in the dictionary it saves to the entry's store.      *)
(* This module has the actions; EntryLifetime says when a generation comes *)
(* and goes, and which of its polls may run.                               *)
(***************************************************************************)
EXTENDS Naturals, FiniteSets

CONSTANTS
  Txn,         \* transaction ids
  Customer,    \* customer ids
  CustomerOf,  \* CustomerOf[t]: the customer who made booking t
  Gen,         \* slots for generations
  NoGen,       \* "no generation"
  Retentions,  \* the values of customer_history_retention that are in use
  MaxWork      \* bound: polls and clears that services have under way

ASSUME HistoryAssumption ==
  /\ CustomerOf \in [Txn -> Customer]
  /\ NoGen \notin Gen
  /\ Retentions \subseteq {"forever", "limited"} /\ Retentions # {}
  /\ MaxWork \in Nat \ {0}

\* The last two are history variables, read by the properties only.
VARIABLES
  disk,     \* customer_history in the entry's store file
  current,  \* the generation being set up, live or being unloaded, or NoGen
  held,     \* held[g]: what generation g holds and has under way
  stale,    \* another generation wrote disk since current loaded or wrote it
  kept      \* the bookings that came to disk to stay

historyVars == <<disk, current, held, stale, kept>>

-----------------------------------------------------------------------------
\* the entry's options, as far as the history depends on them
Options == [sensitive : BOOLEAN, retention : Retentions]
Unread == [sensitive |-> FALSE, retention |-> "none"]

\* The archive: its bookings, the customers whose phone, address or licence it
\* has, and the bookings whose referrer it has. A customer has a record as
\* long as a booking of theirs does.
Archive == [txns : SUBSET Txn, contact : SUBSET Customer, referrer : SUBSET Txn]

Empty == [txns |-> {}, contact |-> {}, referrer |-> {}]

CustomersOf(T) == {CustomerOf[t] : t \in T}

Private(a) == a.contact # {} \/ a.referrer # {}

\* Variant for the checks: contact data retained earlier are not scrubbed.
MergeOnlyNew(a, L, sensitive) ==
  [txns     |-> a.txns \cup L,
   contact  |-> IF sensitive THEN a.contact \cup CustomersOf(L) ELSE a.contact,
   referrer |-> IF sensitive THEN a.referrer \cup L ELSE {}]

\* merge_customer_history: snapshots of the list L join the archive, and
\* without the opt-in every private value leaves it, the old ones included
Merge(a, L, sensitive) ==
  [txns     |-> a.txns \cup L,
   contact  |-> IF sensitive THEN a.contact \cup CustomersOf(L) ELSE {},
   referrer |-> IF sensitive THEN a.referrer \cup L ELSE {}]

\* Variant for the checks: "forever" is taken for a limited retention.
PruneAlways(a, retention, old) ==
  LET young == a.txns \ old IN
    [txns     |-> young,
     contact  |-> a.contact \cap CustomersOf(young),
     referrer |-> a.referrer \cap young]

\* prune_customer_history: bookings past the retention go, and customers
\* without a booking go with them
Prune(a, retention, old) ==
  LET young == IF retention = "forever" THEN a.txns ELSE a.txns \ old IN
    [txns     |-> young,
     contact  |-> a.contact \cap CustomersOf(young),
     referrer |-> a.referrer \cap young]

Scope == {"all", "sensitive"}

\* clear_customer_history in customer_history.py
Cleared(a, scope) == IF scope = "all" THEN Empty ELSE Merge(a, {}, FALSE)

\* Variant for the checks: a pruned archive does not count as changed.
ChangedByMerge(before, merged, pruned, attribute) == merged # before

\* history_changed
HistoryChanged(before, merged, pruned, attribute) ==
  merged # before \/ pruned # attribute

-----------------------------------------------------------------------------
(* What a generation holds: its options, the archive in the dictionary it   *)
(* saves and the one in its attribute (which sensors, exports and the clear *)
(* service read), its polls by slot, and whether a clear waits for its save.*)
(* The "first" poll is the setup's; the "later" ones (the timer's, a        *)
(* service's) exclude each other, but not the first.                        *)

Slot == {"first", "later"}

\* the await a poll stands at
Await == {"none", "fetch", "save", "rest"}

Generation ==
  [opt : Options \cup {Unread}, stored : Archive, shown : Archive,
   poll : [Slot -> Await], clearing : BOOLEAN, polled : BOOLEAN]

Gone ==
  [opt |-> Unread, stored |-> Empty, shown |-> Empty,
   poll |-> [s \in Slot |-> "none"], clearing |-> FALSE, polled |-> FALSE]

\* work that may still reach the dictionary or the file
Busy(r) == r.clearing \/ \E s \in Slot : r.poll[s] # "none"

\* the later polls and the clears under way
Requested ==
  {g \in Gen : held[g].poll["later"] # "none"} \X {"poll"} \cup
  {g \in Gen : held[g].clearing} \X {"clear"}

HasRoom == Cardinality(Requested) < MaxWork

\* g becomes r; nothing refers to a withdrawn generation without work
Become(g, r) ==
  held' = [held EXCEPT ![g] = IF g = current \/ Busy(r) THEN r ELSE Gone]

\* A save writes the dictionary as it is then. What an outlived generation
\* writes comes to stay only if a later one loads it.
Save(g) ==
  /\ disk' = held[g].stored
  /\ stale' = (current \notin {g, NoGen})
  /\ kept' = IF g = current THEN kept \cup disk'.txns ELSE kept \cap disk'.txns

\* async_setup_entry: the store's data become the dictionary of a coordinator
\* that is built with the options o the entry has then
Build(g, o) ==
  held' = [held EXCEPT ![g] =
             [Gone EXCEPT !.stored = disk, !.shown = disk, !.opt = o]]

\* _async_update_data asks for the list and waits for it
StartPoll(g, s) ==
  /\ held[g].poll[s] = "none"
  /\ Become(g, [held[g] EXCEPT !.poll[s] = "fetch"])

\* A list L arrives; the bookings of old had exceeded the limited retention
\* when the poll started. The list is merged and the archive pruned at once,
\* and saved if that made a difference. The attribute is set in any case.
Archived(g, s, L, old) ==
  /\ held[g].poll[s] = "fetch"
  /\ LET r      == held[g]
         merged == Merge(r.stored, L, r.opt.sensitive)
         pruned == Prune(merged, r.opt.retention, old)
     IN IF HistoryChanged(r.stored, merged, pruned, r.shown)
        THEN Become(g, [r EXCEPT !.shown = pruned, !.stored = pruned,
                                 !.poll[s] = "save"])
        ELSE Become(g, [r EXCEPT !.shown = pruned, !.poll[s] = "rest"])
  /\ kept' = IF held[g].opt.retention = "forever" THEN kept
             ELSE kept \ old

\* no list: the update failed
FetchFails(g, s) ==
  /\ held[g].poll[s] = "fetch"
  /\ Become(g, [held[g] EXCEPT !.poll[s] = "none"])

PollSaved(g, s) ==
  /\ held[g].poll[s] = "save"
  /\ Save(g)
  /\ Become(g, [held[g] EXCEPT !.poll[s] = "rest"])

\* what a poll does after that leaves the history alone
FinishPoll(g, s) ==
  /\ held[g].poll[s] = "rest"
  /\ Become(g, [held[g] EXCEPT !.polled = TRUE, !.poll[s] = "none"])

\* the clear_customer_history service, up to its save
Clear(g, scope) ==
  /\ ~held[g].clearing
  /\ LET cleared == Cleared(held[g].shown, scope) IN
       Become(g, [held[g] EXCEPT !.shown = cleared, !.stored = cleared,
                                 !.clearing = TRUE])
  /\ kept' = IF scope = "all" THEN {} ELSE kept

ClearSaved(g) ==
  /\ held[g].clearing
  /\ Save(g)
  /\ Become(g, [held[g] EXCEPT !.clearing = FALSE])

\* The first refresh was cancelled, or it failed: its poll is over.
DropFirstPoll(g) == Become(g, [held[g] EXCEPT !.poll["first"] = "none"])

\* The current generation is withdrawn. Home Assistant cancels a later poll of
\* the timer; one that a service started, and a clear, run on.
Withdraw(cancelled) ==
  /\ current' = NoGen /\ stale' = FALSE
  /\ LET g == current
         r == IF cancelled THEN [held[g] EXCEPT !.poll["later"] = "none"]
                           ELSE held[g]
     IN held' = [held EXCEPT ![g] = IF Busy(r) THEN r ELSE Gone]

-----------------------------------------------------------------------------
HistoryInit ==
  /\ disk = Empty
  /\ current = NoGen
  /\ held = [g \in Gen |-> Gone]
  /\ stale = FALSE
  /\ kept = {}

HistoryTypeOK ==
  /\ disk \in Archive
  /\ current \in Gen \cup {NoGen}
  /\ held \in [Gen -> Generation]
  /\ stale \in BOOLEAN
  /\ kept \subseteq Txn
=============================================================================
