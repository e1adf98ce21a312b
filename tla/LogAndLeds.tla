----------------------------- MODULE LogAndLeds -----------------------------
(***************************************************************************)
(* The log and the LED controller of the collector side by side: LogFiles, *)
(* and LedController as Led.  The two do not act on each other.            *)
(***************************************************************************)
EXTENDS LogFiles

CONSTANTS Sensors, ActiveFlip, InactiveFlip, RunningReset, PublicReset,
          SensorFlip, SensorReset, ErrorFlip, ErrorReset, IndexBound

VARIABLES
  step, setter, public_packet_status, public_age, running,
  error_sensor_flags, error_sensor_index, sensor,
  storage_error_status, mysql_error_status, error, silence, late

Led == INSTANCE LedController

ASSUME LedAssumption == Led!ConstantsAreSound

ledVars == <<step, setter, public_packet_status, public_age, running,
             error_sensor_flags, error_sensor_index, sensor,
             storage_error_status, mysql_error_status, error, silence, late>>

\* The first LED tells in time whether packets come in (PublicStatusIsTimely
\* of LedController, led.c).
PublicStatusIsTimely == Led!PublicStatusIsTimely
=============================================================================
