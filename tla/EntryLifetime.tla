---------------------------- MODULE EntryLifetime ----------------------------
(***************************************************************************)
(* A config entry over many setups, polls, option changes, unloads and     *)
(* restarts: SetupLifecycle's setup and unload composed with the customer  *)
(* history of the coordinators they build.  The first refresh of a setup   *)
(* is a poll of the new coordinator; the coordinator is withdrawn together *)
(* with its runtime, and what it has under way then may outlive it.        *)
(***************************************************************************)
EXTENDS SetupLifecycle, CustomerHistory

entryVars == <<vars, historyVars>>
observed == <<stale, kept>>

-----------------------------------------------------------------------------
(* Setup.                                                                  *)

\* a generation without work left makes room for the next
Begin ==
  /\ BeginSetup
  /\ \E g \in Gen : ~Busy(held[g])
  /\ current' = CHOOSE g \in Gen : ~Busy(held[g])
  /\ UNCHANGED <<disk, held, observed>>

\* The store's data and the options are read when the last await before the
\* coordinator is over: the load, or the removal of an adopted shared file,
\* which is older than the customer history. They may have been changed at any
\* time; the reload that a change asks for, if setup has registered the update
\* listener by then, is one of the unloads that may come at any time.
BuildCoordinator ==
  /\ \E o \in Options : Build(current, o)
  /\ stale' = FALSE /\ kept' = kept \cup disk.txns
  /\ UNCHANGED <<disk, current>>

Load ==
  /\ LoadStore
  /\ IF Adopts THEN UNCHANGED historyVars ELSE BuildCoordinator

Adopt == SaveAdopted /\ UNCHANGED historyVars

DropLegacy == RemoveLegacy /\ BuildCoordinator

Abandon ==
  /\ AbandonSetup
  /\ Withdraw(TRUE)
  /\ UNCHANGED <<disk, kept>>

PublishRuntime ==
  /\ Publish
  /\ StartPoll(current, "first")
  /\ UNCHANGED <<disk, current, observed>>

FirstRefreshEnds ==
  /\ FirstRefreshDone
  /\ held[current].poll["first"] = "none"
  /\ UNCHANGED historyVars

Platform ==
  /\ \/ PlatformLoads \/ Forwarded
     \/ UnwindPlatform \/ UnwindFails
     \/ \E p \in Platforms : PlatformUnloads(p) \/ PlatformSticks(p)
  /\ UNCHANGED historyVars

\* the first refresh or a platform fails, or the setup is cancelled
Fail ==
  /\ SetupFails
  /\ DropFirstPoll(current)
  /\ UNCHANGED <<disk, current, observed>>

\* The runtime is removed. A later poll or a clear may outlive it.
Remove ==
  /\ Unwound \/ Unloaded
  /\ \E cancelled \in BOOLEAN :
       /\ Withdraw(cancelled)
       /\ "overlap" \in Faults \/ \A g \in Gen : held'[g] = Gone
  /\ UNCHANGED <<disk, kept>>

StartUnload == BeginUnload /\ UNCHANGED historyVars

AbandonUnload == UnloadFails /\ UNCHANGED historyVars

Stop ==
  /\ Restart
  /\ current' = NoGen /\ stale' = FALSE
  /\ held' = [g \in Gen |-> Gone]
  /\ UNCHANGED <<disk, kept>>

-----------------------------------------------------------------------------
(* Polls and services, of the current generation and of outlived ones.     *)

StartLaterPoll ==
  /\ runtime /\ HasRoom
  /\ StartPoll(current, "later")
  /\ UNCHANGED <<vars, disk, current, observed>>

ListArrives(g, s) ==
  /\ \E L, old \in SUBSET Txn : Archived(g, s, L, old)
  /\ UNCHANGED <<vars, disk, current, stale>>

\* the failure of the first poll is the setup's, see Fail
LaterPollFails(g) ==
  /\ FetchFails(g, "later")
  /\ UNCHANGED <<vars, disk, current, observed>>

PollSaves(g, s) ==
  /\ PollSaved(g, s)
  /\ SaveOwn
  /\ UNCHANGED <<current>>

PollFinishes(g, s) ==
  /\ FinishPoll(g, s)
  /\ UNCHANGED <<vars, disk, current, observed>>

\* the service resolves the runtime
ClearHistory ==
  /\ runtime /\ HasRoom
  /\ \E scope \in Scope : Clear(current, scope)
  /\ UNCHANGED <<vars, disk, current, stale>>

ClearSaves(g) ==
  /\ ClearSaved(g)
  /\ SaveOwn
  /\ UNCHANGED <<current>>

\* Booking states, messages and reviews live in the same dictionary: the rest
\* of a poll, or a service of the published runtime, saves it at any time.
SaveOthers(g) ==
  /\ (runtime /\ g = current) \/ \E s \in Slot : held[g].poll[s] = "rest"
  /\ Save(g)
  /\ SaveOwn
  /\ UNCHANGED <<current, held>>

-----------------------------------------------------------------------------
EntryInit == Init /\ HistoryInit

FirstPoll == \E g \in Gen : ListArrives(g, "first") \/ PollSaves(g, "first")
                          \/ PollFinishes(g, "first")

\* a setup or an unload under way goes on
Advance ==
  \/ Load \/ Adopt \/ DropLegacy \/ Abandon
  \/ PublishRuntime \/ FirstPoll \/ FirstRefreshEnds \/ Fail
  \/ Platform \/ Remove \/ AbandonUnload

Work(g) ==
  \/ ListArrives(g, "later") \/ LaterPollFails(g) \/ PollSaves(g, "later")
  \/ PollFinishes(g, "later") \/ ClearSaves(g) \/ SaveOthers(g)

EntryNext ==
  \/ Begin \/ Advance \/ StartUnload \/ Stop
  \/ StartLaterPoll \/ ClearHistory
  \/ \E g \in Gen : Work(g)

\* Every await of a setup or an unload ends, one way or another: requests and
\* Home Assistant's own calls have time limits.
EntrySpec == EntryInit /\ [][EntryNext]_entryVars /\ WF_entryVars(Advance)

-----------------------------------------------------------------------------
(* Properties.                                                             *)

TypeOK == LifecycleTypeOK /\ HistoryTypeOK

\* A setup or an unload, once begun, ends: set up, withdrawn or, if a platform
\* would not unload, given up.
SetupEnds == step \notin {"out", "up", "failed"} ~> step \in {"out", "up", "failed"}

\* the current generation is at work with its runtime, none of its saves is
\* outstanding, and no outlived generation wrote the file after it was loaded
Settled ==
  /\ runtime /\ step # "unwind"
  /\ ~stale
  /\ ~held[current].clearing
  /\ \A s \in Slot : held[current].poll[s] # "save"

\* Whatever polls, clears and other saves a generation has behind it, however
\* the setup poll and a service's overlapped: file, dictionary and attribute
\* hold the same archive once its saves are done (history_changed decides on
\* one of them and is computed from the other two).
FileAgrees ==
  Settled => disk = held[current].stored /\ disk = held[current].shown

\* Without the opt-in, a generation that completed a poll neither shows nor
\* keeps contact data, also those that earlier generations retained.
ConsentKept ==
  current # NoGen /\ held[current].polled /\ ~held[current].opt.sensitive =>
    /\ ~Private(held[current].stored) /\ ~Private(held[current].shown)
    /\ Settled => ~Private(disk)

\* A booking that came to the file stays there, listed or not, over reloads,
\* failed setups and crashes, until a clear, a limited retention that it
\* exceeds, or a generation that outlived its runtime and writes its own.
ReferencesKept == kept \subseteq disk.txns
=============================================================================
