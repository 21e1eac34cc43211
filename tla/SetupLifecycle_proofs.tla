------------------------ MODULE SetupLifecycle_proofs ------------------------
(***************************************************************************)
(* Proofs about SetupLifecycle, for any number of platforms: what is in    *)
(* place at each step of a setup, its rollback and an unload, and that     *)
(* together they implement AllOrNothing.                                   *)
(***************************************************************************)
EXTENDS SetupLifecycle, TLAPS

\* Which platforms there are, step by step, apart from those that an earlier
\* unload left over: none before the first is forwarded to; those up to the
\* current one then, all but the current one for certain; and while they are
\* unwound none above the next to go.
PlatformsAccounted ==
  /\ step \in Preparing \cup {"out", "refresh", "failed"} => loaded = leftover
  /\ step = "forward" =>
       /\ at \in Platforms
       /\ \A p \in loaded : p \in leftover \/ p <= at
       /\ \A p \in Platforms : p < at => p \in loaded /\ p \notin leftover
  /\ step = "unwind" => \A p \in loaded : p \in leftover \/ p <= at
  /\ step = "up" => loaded = Platforms /\ leftover = {}
  /\ step = "failed" => leftover # {}

\* the runtime is there from its publication to the end of rollback or unload
RuntimeAccounted == runtime <=> step \notin Preparing \cup {"out"}

\* no setup is past the adoption, and nothing has been published, while the
\* old install's data are in the shared file alone
LegacyAccounted ==
  /\ legacy /\ own = "unknown" => ~published /\ step \in {"out", "load", "adopt"}
  /\ step = "drop" => own = "adopted"

LifecycleInv ==
  /\ LifecycleTypeOK
  /\ PlatformsAccounted
  /\ RuntimeAccounted
  /\ LegacyAccounted

LEMMA InitLifecycleInv == Init => LifecycleInv
<1>1. Init => /\ step \in Step /\ at \in 0 .. LastPlatform
              /\ loaded \subseteq Platforms /\ leftover \subseteq loaded
  BY PlatformAssumption DEF Init, Step, Preparing, InTransaction
<1>2. Init => runtime \in BOOLEAN /\ published \in BOOLEAN /\ own \in OwnFile
  BY DEF Init, OwnFile
<1>3. Init => legacy \in BOOLEAN
  BY InstallAssumption DEF Init
<1>4. Init => PlatformsAccounted
  BY DEF Init, PlatformsAccounted, Preparing
<1>5. Init => RuntimeAccounted
  BY DEF Init, RuntimeAccounted, Preparing
<1>6. Init => LegacyAccounted
  BY DEF Init, LegacyAccounted
<1>. QED BY <1>1, <1>2, <1>3, <1>4, <1>5, <1>6 DEF LifecycleInv, LifecycleTypeOK

\* where the setup may stand, and which platforms there are then
PlacesOK ==
  /\ step \in Step
  /\ at \in 0 .. LastPlatform
  /\ loaded \subseteq Platforms
  /\ leftover \subseteq loaded

\* what the runtime and the two files may be
FilesOK ==
  /\ runtime \in BOOLEAN /\ published \in BOOLEAN
  /\ own \in OwnFile
  /\ legacy \in BOOLEAN

LEMMA TypeSplit == LifecycleTypeOK <=> PlacesOK /\ FilesOK
BY DEF LifecycleTypeOK, PlacesOK, FilesOK

LEMMA SetupPlaces ==
  PlacesOK /\ PlatformsAccounted /\ Setup => PlacesOK' /\ PlatformsAccounted'
<1> SUFFICES ASSUME PlacesOK, PlatformsAccounted, Setup
             PROVE  PlacesOK' /\ PlatformsAccounted'
    OBVIOUS
<1> USE PlatformAssumption DEF PlacesOK, PlatformsAccounted, Platforms, Step, Preparing,
        InTransaction, platformVars, Goto
<1>1. CASE BeginSetup \/ SaveAdopted \/ RemoveLegacy \/ AbandonSetup
  <2>1. loaded = leftover /\ UNCHANGED platformVars
    BY <1>1 DEF BeginSetup, SaveAdopted, RemoveLegacy, AbandonSetup
  <2>2. step' \in {"load", "drop", "auth", "out"} /\ at' = 0
    BY <1>1 DEF BeginSetup, SaveAdopted, RemoveLegacy, AbandonSetup
  <2>. QED BY <2>1, <2>2
<1>2. CASE LoadStore
  <2>1. step' \in {"adopt", "auth"} /\ at' = 0
    BY <1>2 DEF LoadStore
  <2>. QED BY <1>2, <2>1 DEF LoadStore
<1>3. CASE Publish
  BY <1>3 DEF Publish
<1>4. CASE FirstRefreshDone
  BY <1>4 DEF FirstRefreshDone
<1>5. CASE PlatformLoads
  BY <1>5 DEF PlatformLoads
<1>6. CASE Forwarded
  <2>1. CASE at < LastPlatform
    BY <1>6, <2>1 DEF Forwarded
  <2>2. CASE ~(at < LastPlatform)
    <3>1. \A p \in Platforms : p \in loaded /\ p \notin leftover
      BY <1>6, <2>2 DEF Forwarded
    <3>2. loaded = Platforms /\ leftover = {}
      BY <3>1
    <3>. QED BY <1>6, <2>2, <3>2 DEF Forwarded
  <2>. QED BY <2>1, <2>2
<1>7. CASE SetupFails
  BY <1>7 DEF SetupFails
<1>8. CASE UnwindPlatform
  BY <1>8 DEF UnwindPlatform
<1>9. CASE UnwindFails
  BY <1>9 DEF UnwindFails
<1>10. CASE Unwound
  <2>1. \A p \in loaded : p \in leftover
    BY <1>10 DEF Unwound
  <2>2. loaded = leftover
    BY <2>1
  <2>. QED BY <1>10, <2>2 DEF Unwound
<1>. QED BY <1>1, <1>2, <1>3, <1>4, <1>5, <1>6, <1>7, <1>8, <1>9, <1>10
       DEF Setup

LEMMA OtherPlaces ==
  PlacesOK /\ PlatformsAccounted /\ (Unload \/ Restart \/ SaveOwn \/ UNCHANGED vars) =>
    PlacesOK' /\ PlatformsAccounted'
<1> SUFFICES ASSUME PlacesOK, PlatformsAccounted,
                    Unload \/ Restart \/ SaveOwn \/ UNCHANGED vars
             PROVE  PlacesOK' /\ PlatformsAccounted'
    OBVIOUS
<1> USE PlatformAssumption DEF PlacesOK, PlatformsAccounted, Platforms, Step, Preparing,
        InTransaction, platformVars, Goto
<1>1. CASE BeginUnload
  BY <1>1 DEF BeginUnload
<1>2. CASE Unloaded
  <2>1. loaded = {} /\ leftover = {}
    BY <1>2 DEF Unloaded
  <2>. QED BY <1>2, <2>1 DEF Unloaded
<1>3. CASE UnloadFails
  BY <1>3 DEF UnloadFails
<1>4. CASE \E p \in Platforms : PlatformUnloads(p) \/ PlatformSticks(p)
  BY <1>4 DEF PlatformUnloads, PlatformSticks
<1>5. CASE Restart
  BY <1>5 DEF Restart
<1>6. CASE SaveOwn \/ UNCHANGED vars
  BY <1>6 DEF SaveOwn, vars
<1>. QED BY <1>1, <1>2, <1>3, <1>4, <1>5, <1>6 DEF Unload

LEMMA LegacyStep == LegacyAccounted /\ [Next]_vars => LegacyAccounted'
<1> SUFFICES ASSUME LegacyAccounted, [Next]_vars PROVE LegacyAccounted'
    OBVIOUS
<1> USE DEF LegacyAccounted, Goto, fileVars, platformVars, runtimeVars
<1>1. CASE BeginSetup \/ LoadStore
  BY <1>1 DEF BeginSetup, LoadStore, Adopts
<1>2. CASE SaveAdopted \/ RemoveLegacy \/ AbandonSetup
  BY <1>2 DEF SaveAdopted, RemoveLegacy, AbandonSetup, Preparing
<1>3. CASE Publish
  BY <1>3 DEF Publish
<1>4. CASE FirstRefreshDone \/ PlatformLoads \/ Forwarded \/ SetupFails \/ UnwindPlatform
           \/ UnwindFails \/ Unwound
  BY <1>4 DEF FirstRefreshDone, PlatformLoads, Forwarded, SetupFails, InTransaction,
     UnwindPlatform, UnwindFails, Unwound
<1>5. CASE Unload
  BY <1>5 DEF Unload, BeginUnload, Unloaded, UnloadFails, PlatformUnloads, PlatformSticks
<1>6. CASE Restart
  BY <1>6 DEF Restart
<1>7. CASE SaveOwn
  BY <1>7 DEF SaveOwn
<1>8. CASE UNCHANGED vars
  BY <1>8 DEF vars
<1>. QED BY <1>1, <1>2, <1>3, <1>4, <1>5, <1>6, <1>7, <1>8 DEF Next, Setup

LEMMA NextLifecycleInv == LifecycleInv /\ [Next]_vars => LifecycleInv'
<1> SUFFICES ASSUME LifecycleInv, [Next]_vars PROVE LifecycleInv'
    OBVIOUS
<1>1. PlacesOK /\ FilesOK /\ PlatformsAccounted
  BY TypeSplit DEF LifecycleInv
<1>2. PlacesOK' /\ PlatformsAccounted'
  BY <1>1, SetupPlaces, OtherPlaces DEF Next
<1>3. FilesOK'
  BY <1>1 DEF FilesOK, OwnFile, Next, Setup, Unload, Restart, SaveOwn, vars, fileVars, platformVars,
     runtimeVars, Goto, BeginSetup, LoadStore, SaveAdopted, RemoveLegacy,
     AbandonSetup, Publish, FirstRefreshDone, PlatformLoads, Forwarded, SetupFails,
     UnwindPlatform, UnwindFails, Unwound, BeginUnload, Unloaded, UnloadFails,
     PlatformUnloads, PlatformSticks
<1>4. RuntimeAccounted'
  BY <1>1 DEF LifecycleInv, RuntimeAccounted, PlacesOK, FilesOK, Step, Preparing,
     InTransaction, Next, Setup, Unload, Restart, SaveOwn, vars, fileVars, platformVars,
     runtimeVars, Goto, BeginSetup, LoadStore, SaveAdopted, RemoveLegacy,
     AbandonSetup, Publish, FirstRefreshDone, PlatformLoads, Forwarded, SetupFails,
     UnwindPlatform, UnwindFails, Unwound, BeginUnload, Unloaded, UnloadFails,
     PlatformUnloads, PlatformSticks
<1>5. LegacyAccounted'
  BY LegacyStep DEF LifecycleInv
<1>6. LifecycleTypeOK'
  BY <1>2, <1>3 DEF LifecycleTypeOK, PlacesOK, FilesOK
<1>. QED BY <1>2, <1>3, <1>4, <1>5, <1>6 DEF LifecycleInv

\* At each step of a setup, a rollback and an unload exactly that is in place
\* which PlatformsAccounted and RuntimeAccounted say.
THEOREM Accounted == Spec => []LifecycleInv
<1>. QED BY InitLifecycleInv, NextLifecycleInv, PTL DEF Spec

\* What is left of an entry that is not set up are platforms whose own unload
\* failed.
THEOREM StuckRemain == Spec => []OnlyStuckRemain
<1>1. LifecycleInv => OnlyStuckRemain
  BY DEF LifecycleInv, PlatformsAccounted, OnlyStuckRemain
<1>. QED BY <1>1, Accounted, PTL

\* The old install's data survive the move to the entry's own store.
THEOREM AdoptionKeepsData == Spec => AdoptedDataKept
<1>1. LifecycleInv /\ [Next]_vars =>
        [legacy /\ own = "unknown" =>
           own' = "adopted" \/ (legacy' /\ own' = "unknown")]_vars
  BY DEF LifecycleInv, LegacyAccounted, Next, Setup, Unload, Restart, SaveOwn, vars,
     fileVars, BeginSetup, LoadStore, SaveAdopted, RemoveLegacy, AbandonSetup, Publish,
     FirstRefreshDone, PlatformLoads, Forwarded, SetupFails, UnwindPlatform,
     UnwindFails, Unwound, BeginUnload, Unloaded, UnloadFails, PlatformUnloads,
     PlatformSticks
<1>. QED BY <1>1, Accounted, PTL DEF Spec, AdoptedDataKept

-----------------------------------------------------------------------------
(* The refinement: how far each step of SetupLifecycle looks like from the  *)
(* outside, and which action of AllOrNothing it is then.                    *)

\* Without a leftover platform what is in place has its runtime, nothing is
\* in place of an entry that is out, and everything of one that is in.
LEMMA BarSupported ==
  LifecycleInv /\ leftover = {} =>
    /\ Abstract!Supported(PartsBar)
    /\ step \in Preparing \cup {"out"} => PartsBar = {}
    /\ step = "up" => PartsBar = Abstract!Parts
<1> SUFFICES ASSUME LifecycleInv, leftover = {}
             PROVE  /\ Abstract!Supported(PartsBar)
                    /\ step \in Preparing \cup {"out"} => PartsBar = {}
                    /\ step = "up" => PartsBar = Abstract!Parts
    OBVIOUS
<1>1. step \in Preparing \cup {"out"} => PartsBar = {}
  BY DEF LifecycleInv, PlatformsAccounted, RuntimeAccounted, PartsBar
<1>2. step \notin Preparing \cup {"out"} => runtime
  BY DEF LifecycleInv, RuntimeAccounted
<1>3. Abstract!Supported(PartsBar)
  BY <1>1, <1>2 DEF PartsBar, Abstract!Supported
<1>4. step = "up" => PartsBar = Abstract!Parts
  BY <1>2 DEF LifecycleInv, PlatformsAccounted, PartsBar, Abstract!Parts, Preparing
<1>. QED BY <1>1, <1>3, <1>4

LEMMA BarParts == LifecycleInv => PartsBar \in SUBSET Abstract!Parts
BY DEF LifecycleInv, LifecycleTypeOK, PartsBar, Abstract!Parts

\* the same of the next state
LEMMA BarNext ==
  ASSUME LifecycleInv'
  PROVE  /\ PartsBar' \in SUBSET Abstract!Parts
         /\ leftover' = {} =>
              /\ Abstract!Supported(PartsBar')
              /\ step' \in Preparing \cup {"out"} => PartsBar' = {}
              /\ step' = "up" => PartsBar' = Abstract!Parts
<1>1. (LifecycleInv => PartsBar \in SUBSET Abstract!Parts)'
  BY BarParts, PTL
<1>2. (LifecycleInv /\ leftover = {} =>
         /\ Abstract!Supported(PartsBar)
         /\ step \in Preparing \cup {"out"} => PartsBar = {}
         /\ step = "up" => PartsBar = Abstract!Parts)'
  BY BarSupported, PTL
<1>. QED BY <1>1, <1>2

\* from which steps the steps of another phase are reached
LEMMA PhaseOrder ==
  ASSUME [Next]_vars
  PROVE  /\ step' = "up" => step \in {"forward", "up"}
         /\ step' = "unload" =>
              step = "unload" \/ (step = "up" /\ UNCHANGED <<loaded, runtime>>)
         /\ step' \notin {"out", "up", "unload", "failed"} =>
              step \notin {"up", "unload", "failed"} /\ (step = "out" => step' = "load")
BY DEF runtimeVars, Preparing, InTransaction, Next, Setup, Unload, Restart, SaveOwn, vars, platformVars, Goto,
     BeginSetup, LoadStore, SaveAdopted, RemoveLegacy, AbandonSetup, Publish,
     FirstRefreshDone, PlatformLoads, Forwarded, SetupFails, UnwindPlatform,
     UnwindFails, Unwound, BeginUnload, Unloaded, UnloadFails, PlatformUnloads,
     PlatformSticks

\* when platforms begin and cease to be left over
LEMMA LeftoverOrder ==
  ASSUME [Next]_vars
  PROVE  /\ leftover = {} /\ leftover' # {} => step \in {"unwind", "unload"}
         /\ leftover # {} /\ leftover' = {} => step' \in {"unwind", "out"}
BY DEF Next, Setup, Unload, Restart, SaveOwn, vars, platformVars, Goto,
     BeginSetup, LoadStore, SaveAdopted, RemoveLegacy, AbandonSetup, Publish,
     FirstRefreshDone, PlatformLoads, Forwarded, SetupFails, UnwindPlatform,
     UnwindFails, Unwound, BeginUnload, Unloaded, UnloadFails, PlatformUnloads,
     PlatformSticks

\* A step between two states without a leftover platform.
LEMMA CleanStep ==
  ASSUME LifecycleInv, LifecycleInv', leftover = {}, leftover' = {}, [Next]_vars
  PROVE  [Abstract!Next]_<<PhaseBar, PartsBar>>
<1>1. /\ PartsBar' \in SUBSET Abstract!Parts /\ Abstract!Supported(PartsBar')
      /\ step' \in Preparing \cup {"out"} => PartsBar' = {}
      /\ step' = "up" => PartsBar' = Abstract!Parts
      /\ step = "up" => PartsBar = Abstract!Parts
  BY BarNext, BarSupported
<1>2. CASE step' = "out"
  BY <1>1, <1>2 DEF PhaseBar, Abstract!Next, Abstract!Restart
<1>3. CASE step' = "up"
  <2>1. CASE step = "forward"
    BY <1>1, <1>3, <2>1 DEF PhaseBar, Abstract!Next, Abstract!Succeed
  <2>2. CASE step = "up"
    BY <1>1, <1>3, <2>2 DEF PhaseBar
  <2>. QED BY <1>3, <2>1, <2>2, PhaseOrder
<1>4. CASE step' = "unload"
  <2>1. CASE step = "unload"
    BY <1>1, <1>4, <2>1 DEF PhaseBar, Abstract!Next, Abstract!Change
  <2>2. CASE step = "up" /\ UNCHANGED <<loaded, runtime>>
    BY <1>4, <2>2 DEF PhaseBar, PartsBar, Abstract!Next, Abstract!Leave
  <2>. QED BY <1>4, <2>1, <2>2, PhaseOrder
<1>5. CASE step' \notin {"out", "up", "unload"}
  <2>1. step' # "failed"
    BY DEF LifecycleInv, PlatformsAccounted
  <2>2. step \notin {"up", "unload", "failed"} /\ (step = "out" => step' = "load")
    BY <1>5, <2>1, PhaseOrder
  <2>3. PhaseBar' = "entering"
    BY <1>5 DEF PhaseBar
  <2>4. CASE step = "out"
    BY <1>1, <2>2, <2>3, <2>4 DEF PhaseBar, Preparing, Abstract!Next, Abstract!Enter
  <2>5. CASE step # "out"
    BY <1>1, <2>2, <2>3, <2>5 DEF PhaseBar, Abstract!Next, Abstract!Change
  <2>. QED BY <2>4, <2>5
<1>. QED BY <1>2, <1>3, <1>4, <1>5

\* A step to, from, or between states with a leftover platform.
LEMMA StuckStep ==
  ASSUME LifecycleInv, LifecycleInv', leftover # {} \/ leftover' # {}, [Next]_vars
  PROVE  [Abstract!Next]_<<PhaseBar, PartsBar>>
<1>1. PartsBar' \in SUBSET Abstract!Parts
  BY BarNext
<1>2. CASE leftover' # {}
  <2>1. PhaseBar' = "stuck"
    BY <1>2 DEF PhaseBar
  <2>2. PhaseBar \in {"entering", "leaving", "stuck"}
    BY <1>2, LeftoverOrder DEF PhaseBar
  <2>. QED BY <1>1, <2>1, <2>2 DEF Abstract!Next, Abstract!Stick
<1>3. CASE leftover' = {}
  <2>1. PhaseBar = "stuck" /\ step' \in {"unwind", "out"}
    BY <1>3, LeftoverOrder DEF PhaseBar
  <2>2. Abstract!Supported(PartsBar') /\ (step' = "out" => PartsBar' = {})
    BY <1>3, BarNext
  <2>3. CASE step' = "unwind"
    BY <1>1, <1>3, <2>1, <2>2, <2>3 DEF PhaseBar, Abstract!Next, Abstract!Recover
  <2>4. CASE step' = "out"
    BY <1>3, <2>2, <2>4 DEF PhaseBar, Abstract!Next, Abstract!Restart
  <2>. QED BY <2>1, <2>3, <2>4
<1>. QED BY <1>2, <1>3

\* The setup transaction, its rollback and the unload implement AllOrNothing:
\* every step is one of its steps or changes nothing it speaks of.
THEOREM Refinement == Spec => EverythingOrNothing
<1>1. Init => Abstract!Init
  BY DEF Init, Abstract!Init, PhaseBar, PartsBar
<1>2. LifecycleInv /\ LifecycleInv' /\ [Next]_vars =>
        [Abstract!Next]_<<PhaseBar, PartsBar>>
  BY CleanStep, StuckStep
<1>3. Spec => []LifecycleInv
  BY Accounted
<1>. QED BY <1>1, <1>2, <1>3, PTL
     DEF Spec, EverythingOrNothing, Abstract!Spec, Abstract!abstractVars
=============================================================================
