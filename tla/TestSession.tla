---------------------------- MODULE TestSession ----------------------------
(***************************************************************************)
(* What a native speed-test session promises to the application, whatever  *)
(* order its threads call Start, Cancel and Close in: it is started at     *)
(* most once, its core is open only between the start and the release, a   *)
(* started session is released only when it is done, and nothing happens   *)
(* to a released one.  SpeedTestSession is shown to implement this, and    *)
(* SpeedTestQueue relies on it.                                            *)
(***************************************************************************)
VARIABLES phase,   \* "new", "running", "done" or "released"
          core     \* is the session's core "off" or "on"?

sessionVars == <<phase, core>>

SessionInit == phase = "new" /\ core = "off"

Begin == phase = "new" /\ phase' = "running" /\ UNCHANGED core

TurnOn == phase = "running" /\ core = "off" /\ core' = "on" /\ UNCHANGED phase

Complete == phase = "running" /\ phase' = "done" /\ UNCHANGED core

TurnOff == phase = "done" /\ core' = "off" /\ UNCHANGED phase

Release == phase \in {"new", "done"} /\ phase' = "released" /\ core' = "off"

SessionNext == Begin \/ TurnOn \/ Complete \/ TurnOff \/ Release

SessionSpec == SessionInit /\ [][SessionNext]_sessionVars
=============================================================================
