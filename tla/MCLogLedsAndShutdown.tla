------------------------ MODULE MCLogLedsAndShutdown ------------------------
(***************************************************************************)
(* LogFiles, LedController and Shutdown in one run: they do not act on     *)
(* each other, and neither do the three LEDs, whose inputs are set by      *)
(* different threads.  In each behaviour one part is driven and the others *)
(* keep still, so that the states of the parts are added and not           *)
(* multiplied.                                                             *)
(*                                                                         *)
(* Intervals are in units of the shortest flicker, 200 ms; the longer ones *)
(* (3000 and 5000 ms) are shortened to the first LED's 2000 ms, which is   *)
(* enough for the codes of the sensors and errors of the instance.         *)
(***************************************************************************)
EXTENDS LogAndLeds, Shutdown

VARIABLE driven

LedsDriven == driven \in {"public", "sensor", "error"}

MCInit == /\ driven \in {"log", "public", "sensor", "error", "shutdown"}
          /\ Init /\ Led!Init /\ ShutdownInit
          /\ driven # "shutdown" => source = "modbus"

MCNext ==
  /\ UNCHANGED driven
  /\ \/ /\ driven = "log" /\ Next
        /\ UNCHANGED <<ledVars, shutdownVars>>
     \/ /\ LedsDriven /\ UNCHANGED <<vars, shutdownVars>>
        /\ \/ Led!Thread
           \/ driven = "public" /\ Led!SetPublicStatus
           \/ driven = "sensor" /\ Led!SetSensorStatus
           \/ driven = "error" /\ Led!SetErrorStatus
     \/ /\ driven = "shutdown" /\ ShutdownNext
        /\ UNCHANGED <<vars, ledVars>>

\* What Fairness is about is not enabled before Shutdown is driven.
MCSpec == /\ MCInit /\ [][MCNext]_<<driven, vars, ledVars, shutdownVars>>
          /\ WF_ledVars(/\ LedsDriven
                        /\ UNCHANGED <<driven, vars, shutdownVars>>
                        /\ Led!Thread)
          /\ Fairness

\* CodesAreShown of LedController, while the LEDs are driven.
CodesAreShown == LedsDriven => Led!CodesAreShown
=============================================================================
