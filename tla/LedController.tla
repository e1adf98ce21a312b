--------------------------- MODULE LedController ---------------------------
(***************************************************************************)
(* The three indicator LEDs of the collectors (src/led/led.c, the same in  *)
(* data-collector and data-collector-demo3).  A thread wakes up every      *)
(* 50 ms and blinks: the first LED tells whether the public packets come,  *)
(* the second the number of a sensor that fails, the third whether storage *)
(* or MySQL fail.  Other threads set what is to be shown through variables *)
(* without a lock, and may do so at any point of the thread's loop.        *)
(*                                                                         *)
(* Time is counted in wake-ups of the thread.  The time of a last event is *)
(* kept as its age, which stops counting at the interval it is compared    *)
(* with.  Setting a pin may fail, but nothing looks at that: the state of  *)
(* an LED here is the one the thread keeps.                                *)
(***************************************************************************)
EXTENDS Integers, FiniteSets, FiniteSetsExt

CONSTANTS Sensors,          \* indices of the devices, 0 .. device_count - 1
          ActiveFlip, InactiveFlip,   \* system_running_flip_interval
          RunningReset,     \* system_running_reset_interval
          PublicReset,      \* public_packet_reset_interval
          SensorFlip, SensorReset,    \* error_sensor_flip_interval, ...
          ErrorFlip, ErrorReset,      \* error_flip_interval, ...
          IndexBound        \* bound: see SetSensorStatus

\* What a module that instantiates this one assumes of the constants.
ConstantsAreSound ==
  /\ Sensors \subseteq 0 .. 7
  /\ {ActiveFlip, InactiveFlip, SensorFlip, ErrorFlip} \subseteq Nat \ {0}
  /\ {RunningReset, PublicReset, SensorReset, ErrorReset} \subseteq Nat \ {0}
  /\ InactiveFlip <= ActiveFlip
  /\ IndexBound \in Nat

VARIABLES
  step,        \* where the thread is in its loop
  setter,      \* where the UDP thread is in led_set_public_packet_status
  public_packet_status,
  public_age,  \* since public_packet_last_reset_ticks
  running,     \* the first LED
  error_sensor_flags,
  error_sensor_index,
  sensor,      \* the second LED
  storage_error_status, mysql_error_status,
  error,       \* the third LED
  silence,     \* history: wake-ups since the last public packet
  late         \* history: that packet ended a silence as long as PublicReset

publicVars == <<setter, public_packet_status, public_age, silence, late>>
flags == <<error_sensor_flags, storage_error_status, mysql_error_status>>
leds == <<running, error_sensor_index, sensor, error>>
vars == <<step, publicVars, flags, leds>>

\* An LED: whether it is on, the flashes since the last reset, and the ages
\* of the last flicker and of the last reset.
Led(on, flips, flicker, reset) ==
  [on |-> on, flips |-> flips, flicker |-> flicker, reset |-> reset]
Leds(flips, flicker, reset) ==
  [on : BOOLEAN, flips : 0 .. flips, flicker : 0 .. flicker,
   reset : 0 .. reset]

TypeOK ==
  /\ step \in {"public", "inactive", "walk", "blink", "sleep"}
  /\ setter \in {"idle", "set"}
  /\ public_packet_status \in {"active", "inactive"}
  /\ public_age \in 0 .. PublicReset
  /\ running \in Leds(3, ActiveFlip, RunningReset)
  /\ error_sensor_flags \subseteq Sensors
  /\ error_sensor_index \in 0 .. 8 + IndexBound
  /\ sensor \in Leds(9 + IndexBound, SensorFlip, SensorReset)
  /\ storage_error_status \in 0 .. 1 /\ mysql_error_status \in 0 .. 1
  /\ error \in Leds(3, ErrorFlip, ErrorReset)
  /\ silence \in 0 .. PublicReset + 2
  /\ late \in BOOLEAN

\* start_led_controller: the context is cleared, and 0 is LED_ON.
Init ==
  /\ step = "public" /\ setter = "idle"
  /\ public_packet_status = "active" /\ public_age = 0
  /\ running = Led(TRUE, 0, 0, 0)
  /\ error_sensor_flags = {} /\ error_sensor_index = 0
  /\ sensor = Led(TRUE, 0, 0, 0)
  /\ storage_error_status = 0 /\ mysql_error_status = 0
  /\ error = Led(TRUE, 0, 0, 0)
  /\ silence = 0 /\ late = FALSE

-----------------------------------------------------------------------------
(* The thread.                                                             *)

\* A reset that is due starts the flashes anew.
Reset(led, interval) ==
  IF led.reset >= interval THEN [led EXCEPT !.flips = 0, !.reset = 0] ELSE led

\* A flicker that is due turns the LED over, up to the given flashes.
Flicker(led, interval, flips_max) ==
  IF led.flicker < interval THEN led
  ELSE LET on == led.flips < flips_max /\ ~led.on
       IN  [led EXCEPT !.on = on, !.flicker = 0,
                       !.flips = IF on THEN @ + 1 ELSE @]

\* Nothing to show.
Dark(led) == [led EXCEPT !.on = FALSE, !.flips = 0]

\* The reset of the first LED, and the test of the last public packet.
TestPublic ==
  /\ step = "public"
  /\ running' = Reset(running, RunningReset)
  /\ step' = IF public_age >= PublicReset THEN "inactive" ELSE "walk"
  /\ UNCHANGED <<publicVars, flags, error_sensor_index, sensor, error>>

SetInactive ==
  /\ step = "inactive"
  /\ step' = "walk"
  /\ public_age' = 0
  /\ public_packet_status' = "inactive"
  /\ UNCHANGED <<setter, silence, late, flags, leds>>

\* The first LED, and the loop that looks for the next failing sensor; it
\* wraps at 8.
Walk ==
  LET active == public_packet_status = "active"
      following == {s \in error_sensor_flags : s >= error_sensor_index}
  IN
  /\ step = "walk"
  /\ step' = "blink"
  /\ running' = Flicker(running, IF active THEN ActiveFlip ELSE InactiveFlip,
                        IF active THEN 1 ELSE 3)
  /\ error_sensor_index' =
       IF error_sensor_flags = {} THEN error_sensor_index
       ELSE Min(IF following = {} THEN error_sensor_flags ELSE following)
  /\ UNCHANGED <<publicVars, flags, sensor, error>>

\* Mutant: the reset does not move on to the next sensor.
StayAtSensor(index) == index

NextSensor(index) == index + 1

ErrorStatus == storage_error_status + 2 * mysql_error_status

\* The number of flashes is taken from the index before a reset moves on.
Blink ==
  /\ step = "blink"
  /\ step' = "sleep"
  /\ IF error_sensor_flags = {}
     THEN sensor' = Dark(sensor) /\ UNCHANGED error_sensor_index
     ELSE /\ sensor' = Flicker(Reset(sensor, SensorReset), SensorFlip,
                               error_sensor_index + 1)
          /\ error_sensor_index' = IF sensor.reset >= SensorReset
                                   THEN NextSensor(error_sensor_index)
                                   ELSE error_sensor_index
  /\ error' = IF ErrorStatus = 0 THEN Dark(error)
              ELSE Flicker(Reset(error, ErrorReset), ErrorFlip, ErrorStatus)
  /\ UNCHANGED <<publicVars, flags, running>>

Older(age, interval) == IF age < interval THEN age + 1 ELSE age
OlderLed(led, flip, reset) ==
  [led EXCEPT !.flicker = Older(@, flip), !.reset = Older(@, reset)]

\* usleep, and the new ticks.
Sleep ==
  /\ step = "sleep"
  /\ step' = "public"
  /\ public_age' = Older(public_age, PublicReset)
  /\ silence' = Older(silence, PublicReset + 2)
  /\ running' = OlderLed(running, ActiveFlip, RunningReset)
  /\ sensor' = OlderLed(sensor, SensorFlip, SensorReset)
  /\ error' = OlderLed(error, ErrorFlip, ErrorReset)
  /\ UNCHANGED <<setter, public_packet_status, late, flags, error_sensor_index>>

Thread == TestPublic \/ SetInactive \/ Walk \/ Blink \/ Sleep

-----------------------------------------------------------------------------
(* The setters.  A public packet comes at most once in a wake-up interval. *)

SetActive ==
  /\ setter = "idle" /\ silence > 0
  /\ setter' = "set"
  /\ public_packet_status' = "active"
  /\ UNCHANGED <<step, public_age, silence, late, flags, leds>>

\* Mutant: the packet does not restart the interval.
AgeKept == public_age

AgeOfPacket == 0

SetLastPacket ==
  /\ setter = "set"
  /\ setter' = "idle"
  /\ public_age' = AgeOfPacket
  /\ silence' = 0
  /\ late' = (silence >= PublicReset)
  /\ UNCHANGED <<step, public_packet_status, flags, leds>>

SetPublicStatus == SetActive \/ SetLastPacket

\* led_set_sensor_error_status, after each reading of a device.  Each time the
\* flags are set between the loop of Walk and the reset of Blink, the index
\* moves on without having wrapped; this is left out from IndexBound on.
SetSensorStatus ==
  /\ step = "blink" => error_sensor_index < IndexBound
  /\ \E s \in Sensors : \/ error_sensor_flags' = error_sensor_flags \cup {s}
                        \/ error_sensor_flags' = error_sensor_flags \ {s}
  /\ UNCHANGED <<step, publicVars, storage_error_status, mysql_error_status,
                 leds>>

\* led_set_mysql_error_status, led_set_storage_error_status
SetErrorStatus ==
  /\ \/ mysql_error_status' \in 0 .. 1 /\ UNCHANGED storage_error_status
     \/ storage_error_status' \in 0 .. 1 /\ UNCHANGED mysql_error_status
  /\ UNCHANGED <<step, publicVars, error_sensor_flags, leds>>

Next == Thread \/ SetPublicStatus \/ SetSensorStatus \/ SetErrorStatus

\* The thread runs until the end of the process: on_shutdown is never
\* registered.
Spec == Init /\ [][Next]_vars /\ WF_vars(Thread)

-----------------------------------------------------------------------------

\* The first LED tells the truth about the public packets up to a wake-up,
\* although the UDP thread may set the status between the thread's test of
\* the last packet and its reaction: it shows a silence only if there is one
\* as long as the interval, or the one packet since then came just at the end
\* of one; and it shows a silence that lasts.
PublicStatusIsTimely ==
  /\ TypeOK
  /\ public_packet_status = "inactive" => late \/ silence >= PublicReset
  /\ setter = "idle" /\ silence > PublicReset + 1 =>
       public_packet_status = "inactive"

\* A complete code: as many flashes as it says, then a pause.
SensorCode(s) == /\ step = "sleep" /\ error_sensor_index = s
                 /\ sensor.flips = s + 1 /\ ~sensor.on
ErrorCode == step = "sleep" /\ error.flips = ErrorStatus /\ ~error.on

\* As long as nothing else changes, the code of every failing sensor is shown
\* in full again and again, whichever sensors fail and at whatever point of a
\* code they began to, and so is the code of the errors.
CodesAreShown ==
  <>[][UNCHANGED flags]_flags =>
    /\ \A s \in Sensors : []<>(s \in error_sensor_flags => SensorCode(s))
    /\ []<>ErrorCode
=============================================================================
