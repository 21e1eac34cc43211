---------------------------- MODULE AllOrNothing -----------------------------
(***************************************************************************)
(* What the setup and the unload of a config entry promise to the rest of  *)
(* Home Assistant: the entry's parts (its runtime in hass.data and its     *)
(* entity platforms) come and go as a whole.  In between, a platform is    *)
(* there only together with the runtime it works with.  The promise is     *)
(* void while a platform that would not unload is left over, but even then *)
(* the entry never counts as set up.                                       *)
(***************************************************************************)
CONSTANTS Platforms, Runtime

VARIABLES
  phase,  \* what the entry is doing
  parts   \* which of its parts exist

abstractVars == <<phase, parts>>

Parts == Platforms \cup {Runtime}
Phase == {"out", "entering", "in", "leaving", "stuck"}

\* a platform needs the runtime
Supported(p) == p # {} => Runtime \in p

Init == phase = "out" /\ parts = {}

\* a setup starts from nothing
Enter == phase = "out" /\ phase' = "entering" /\ parts' = {}

\* parts come and go while the entry is set up, rolled back or unloaded
Change ==
  /\ phase \in {"entering", "leaving"}
  /\ phase' = phase
  /\ parts' \in SUBSET Parts /\ Supported(parts')

\* a setup succeeds with every part there is
Succeed == phase = "entering" /\ phase' = "in" /\ parts' = Parts

Leave == phase = "in" /\ phase' = "leaving" /\ parts' = parts

\* an unload, or a setup that failed, leaves nothing
Vanish == phase \in {"entering", "leaving"} /\ phase' = "out" /\ parts' = {}

\* a platform would not unload
Stick ==
  /\ phase \in {"entering", "leaving", "stuck"}
  /\ phase' = "stuck"
  /\ parts' \in SUBSET Parts

\* a later rollback got rid of it
Recover ==
  /\ phase = "stuck"
  /\ phase' = "entering"
  /\ parts' \in SUBSET Parts /\ Supported(parts')

\* Home Assistant stops
Restart == phase' = "out" /\ parts' = {}

Next ==
  \/ Enter \/ Change \/ Succeed \/ Leave \/ Vanish
  \/ Stick \/ Recover \/ Restart

Spec == Init /\ [][Next]_abstractVars
=============================================================================
