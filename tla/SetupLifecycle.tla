--------------------------- MODULE SetupLifecycle ----------------------------
(***************************************************************************)
(* The setup of a config entry as one transaction, its rollback, and its   *)
(* unload: async_setup_entry, async_setup_transaction and                  *)
(* async_unload_entry, from one await to the next.                         *)
(*                                                                         *)
(* Home Assistant runs one of them at a time, retries a setup that failed, *)
(* and may cancel it at any await.  How it loads and unloads a platform is *)
(* outside this code: a platform may be loaded before the call that        *)
(* forwards it fails, and an unload may fail or be cut short and leave the *)
(* platform behind, which then cannot be forwarded to again.               *)
(***************************************************************************)
EXTENDS Naturals

CONSTANTS
  LastPlatform,  \* PLATFORMS, in their order, is 1 .. LastPlatform
  Faults,        \* a subset of {"crash", "stuck", "overlap"}
  Installs       \* whether the old install's shared file may be there

ASSUME PlatformAssumption == LastPlatform \in Nat \ {0}

ASSUME FaultAssumption == Faults \subseteq {"crash", "stuck", "overlap"}

ASSUME InstallAssumption == Installs \subseteq BOOLEAN

VARIABLES
  step,      \* the await the setup or the unload stands at
  at,        \* the platform it forwards to, or unwinds next
  loaded,    \* the platforms Home Assistant has loaded for the entry
  leftover,  \* those of them whose unload failed
  runtime,   \* the entry's id is in hass.data
  published, \* it has been there since Home Assistant started
  own,       \* what the entry's own store file holds of the old install
  legacy     \* the shared store file of the old install exists

fileVars == <<own, legacy>>
platformVars == <<loaded, leftover>>
runtimeVars == <<runtime, published>>
vars == <<step, at, loaded, leftover, runtime, published, own, legacy>>

-----------------------------------------------------------------------------
Platforms == 1 .. LastPlatform

\* "unknown": the file does not exist; "fresh": it was first written without
\* the old install's data; "adopted": with them
OwnFile == {"unknown", "fresh", "adopted"}

\* the awaits before the runtime is published, and those after it
Preparing == {"load", "adopt", "drop", "auth"}
InTransaction == {"refresh", "forward"}
Step == Preparing \cup InTransaction \cup
        {"out", "unwind", "up", "unload", "failed"}

Goto(s) == step' = s /\ at' = 0

\* async_setup_entry starts, after a restart, a failure or an unload
BeginSetup ==
  /\ step = "out"
  /\ Goto("load")
  /\ UNCHANGED <<platformVars, runtimeVars, fileVars>>

\* the entry has no file of its own, and the shared one is there
Adopts == own = "unknown" /\ legacy

\* store.async_load, and the load of the shared store
LoadStore ==
  /\ step = "load"
  /\ Goto(IF Adopts THEN "adopt" ELSE "auth")
  /\ UNCHANGED <<platformVars, runtimeVars, fileVars>>

\* Variant for the checks: the shared store is removed before the save.
SaveAdoptedLate ==
  /\ step = "adopt"
  /\ legacy' = FALSE
  /\ Goto("drop")
  /\ UNCHANGED <<platformVars, runtimeVars, own>>

SaveAdopted ==
  /\ step = "adopt"
  /\ own' = "adopted"
  /\ Goto("drop")
  /\ UNCHANGED <<platformVars, runtimeVars, legacy>>

RemoveLegacy ==
  /\ step = "drop"
  /\ legacy' = FALSE
  /\ Goto("auth")
  /\ UNCHANGED <<platformVars, runtimeVars, own>>

\* Authentication is refused or fails, or an earlier await is cancelled:
\* nothing of the entry is in place yet.
AbandonSetup ==
  /\ step \in Preparing
  /\ Goto("out")
  /\ UNCHANGED <<platformVars, runtimeVars, fileVars>>

\* the runtime is published before the first refresh starts
Publish ==
  /\ step = "auth"
  /\ runtime' = TRUE /\ published' = TRUE
  /\ Goto("refresh")
  /\ UNCHANGED <<platformVars, fileVars>>

\* the first refresh is over; the first platform counts as attempted
FirstRefreshDone ==
  /\ step = "refresh"
  /\ step' = "forward" /\ at' = 1
  /\ UNCHANGED <<platformVars, runtimeVars, fileVars>>

\* Home Assistant loads the platform it was asked for
PlatformLoads ==
  /\ step = "forward" /\ at \notin loaded
  /\ loaded' = loaded \cup {at}
  /\ UNCHANGED <<step, at, leftover, runtimeVars, fileVars>>

\* Variant for the checks: one platform too many.
ForwardedPastEnd ==
  /\ step = "forward" /\ at \in loaded \ leftover
  /\ IF at <= LastPlatform THEN step' = step /\ at' = at + 1 ELSE Goto("up")
  /\ UNCHANGED <<platformVars, runtimeVars, fileVars>>

\* The call that forwards to a platform returns.  After the last one there is
\* no await: the update listener is added and the entry is set up.
Forwarded ==
  /\ step = "forward" /\ at \in loaded \ leftover
  /\ IF at < LastPlatform THEN step' = step /\ at' = at + 1 ELSE Goto("up")
  /\ UNCHANGED <<platformVars, runtimeVars, fileVars>>

\* Variant for the checks: a platform counts as attempted when it is loaded.
SetupFailsForgetting ==
  /\ step \in InTransaction
  /\ step' = "unwind" /\ at' = IF step = "forward" THEN at - 1 ELSE 0
  /\ UNCHANGED <<platformVars, runtimeVars, fileVars>>

\* The first refresh or a platform fails, or the setup task is cancelled:
\* every attempted platform, the current one included, is unwound.
SetupFails ==
  /\ step \in InTransaction
  /\ step' = "unwind" /\ at' = at
  /\ UNCHANGED <<platformVars, runtimeVars, fileVars>>

\* Variant for the checks: a platform that was never loaded is waited for.
UnwindLoaded ==
  /\ step = "unwind" /\ at \in loaded
  /\ loaded' = loaded \ {at}
  /\ leftover' = leftover \ {at}
  /\ at' = at - 1
  /\ UNCHANGED <<step, runtimeVars, fileVars>>

\* also when the platform was never loaded: the error is swallowed
UnwindPlatform ==
  /\ step = "unwind" /\ at > 0
  /\ loaded' = loaded \ {at}
  /\ leftover' = leftover \ {at}
  /\ at' = at - 1
  /\ UNCHANGED <<step, runtimeVars, fileVars>>

\* Variant for the checks: an exception during the rollback ends the loop.
UnwindFailsAtOnce ==
  /\ "stuck" \in Faults
  /\ step = "unwind" /\ at \in loaded
  /\ leftover' = leftover \cup {at}
  /\ at' = 0
  /\ UNCHANGED <<step, loaded, runtimeVars, fileVars>>

\* An unload that returns False, raises or is cancelled does not stop the
\* rollback: the loop swallows even a cancellation and goes on.
UnwindFails ==
  /\ "stuck" \in Faults
  /\ step = "unwind" /\ at \in loaded
  /\ leftover' = leftover \cup {at}
  /\ at' = at - 1
  /\ UNCHANGED <<step, loaded, runtimeVars, fileVars>>

\* the runtime goes last, whatever the platforms did
Unwound ==
  /\ step = "unwind" /\ at = 0
  /\ runtime' = FALSE
  /\ Goto("out")
  /\ UNCHANGED <<platformVars, published, fileVars>>

-----------------------------------------------------------------------------
(* The unload: by the user, or by a reload, which an option change starts.  *)

BeginUnload ==
  /\ step = "up"
  /\ Goto("unload")
  /\ UNCHANGED <<platformVars, runtimeVars, fileVars>>

\* the platforms unload in any order, each for itself
PlatformUnloads(p) ==
  /\ step = "unload" /\ p \in loaded \ leftover
  /\ loaded' = loaded \ {p}
  /\ UNCHANGED <<step, at, leftover, runtimeVars, fileVars>>

PlatformSticks(p) ==
  /\ "stuck" \in Faults
  /\ step = "unload" /\ p \in loaded \ leftover
  /\ leftover' = leftover \cup {p}
  /\ UNCHANGED <<step, at, loaded, runtimeVars, fileVars>>

Unloaded ==
  /\ step = "unload" /\ loaded = {}
  /\ runtime' = FALSE
  /\ Goto("out")
  /\ UNCHANGED <<platformVars, published, fileVars>>

\* one platform would not: the runtime stays, and so does the entry, half
\* unloaded, until Home Assistant restarts
UnloadFails ==
  /\ step = "unload" /\ leftover # {} /\ loaded = leftover
  /\ Goto("failed")
  /\ UNCHANGED <<platformVars, runtimeVars, fileVars>>

\* Home Assistant stops, at any moment if it crashes: the files stay
Restart ==
  /\ step \in {"out", "up", "failed"} \/ "crash" \in Faults
  /\ Goto("out")
  /\ loaded' = {} /\ leftover' = {}
  /\ runtime' = FALSE /\ published' = FALSE
  /\ UNCHANGED fileVars

\* A poll or a service saves its dictionary: of the published runtime, or of
\* one it outlives. If the entry had no file, nothing was adopted for it.
SaveOwn ==
  /\ published
  /\ own' = IF own = "unknown" THEN "fresh" ELSE own
  /\ UNCHANGED <<step, at, platformVars, runtimeVars, legacy>>

-----------------------------------------------------------------------------
\* an entry of an old install or of a new one, never set up by this version
Init ==
  /\ step = "out" /\ at = 0
  /\ loaded = {} /\ leftover = {}
  /\ runtime = FALSE /\ published = FALSE
  /\ own = "unknown" /\ legacy \in Installs

Setup ==
  \/ BeginSetup \/ LoadStore \/ SaveAdopted \/ RemoveLegacy \/ AbandonSetup
  \/ Publish \/ FirstRefreshDone \/ PlatformLoads \/ Forwarded \/ SetupFails
  \/ UnwindPlatform \/ UnwindFails \/ Unwound

Unload ==
  \/ BeginUnload \/ Unloaded \/ UnloadFails
  \/ \E p \in Platforms : PlatformUnloads(p) \/ PlatformSticks(p)

Next == Setup \/ Unload \/ Restart \/ SaveOwn

Spec == Init /\ [][Next]_vars

-----------------------------------------------------------------------------
(* Properties.                                                             *)

LifecycleTypeOK ==
  /\ step \in Step
  /\ at \in 0 .. LastPlatform
  /\ loaded \subseteq Platforms
  /\ leftover \subseteq loaded
  /\ runtime \in BOOLEAN /\ published \in BOOLEAN
  /\ own \in OwnFile
  /\ legacy \in BOOLEAN

\* how far the entry has come, for those who look at it from outside
PhaseBar ==
  IF leftover # {} THEN "stuck"
  ELSE CASE step = "out"    -> "out"
         [] step = "up"     -> "in"
         [] step = "unload" -> "leaving"
         [] OTHER           -> "entering"

PartsBar == loaded \cup (IF runtime THEN {0} ELSE {})

Abstract == INSTANCE AllOrNothing
  WITH Runtime <- 0, phase <- PhaseBar, parts <- PartsBar

\* A setup puts the runtime and every platform in place or, if the refresh or
\* a platform fails or the task is cancelled wherever it stands, leaves
\* nothing behind; an unload takes everything away. No platform ever exists
\* without the runtime it works with. A platform that would not unload voids
\* this, but a setup on top of it never succeeds.
EverythingOrNothing == Abstract!Spec

\* One platform that would not unload keeps no other in place: what is left of
\* an entry that is not set up are the platforms whose own unload failed.
OnlyStuckRemain == step \in {"out", "failed"} => loaded = leftover

\* The old install's data survive the move to the entry's own store, wherever
\* the move is cut short: until the own file holds them the shared one stays,
\* and no poll or service writes an own file without them.
AdoptedDataKept ==
  [][legacy /\ own = "unknown" =>
       own' = "adopted" \/ (legacy' /\ own' = "unknown")]_vars
=============================================================================
