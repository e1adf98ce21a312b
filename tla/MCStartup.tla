----------------------------- MODULE MCStartup -----------------------------
(***************************************************************************)
(* Startup with configuration files of up to two lines, or up to three     *)
(* when an update is asked for, so that settings are repeated, contradict  *)
(* each other, are misspelt or have values that are refused.               *)
(***************************************************************************)
EXTENDS Startup

Line(k, v) == [key |-> k, value |-> v]

MCLines ==
  {Line("source", "rpmsg"), Line("source", "modbus"), Line("source", "file"),
   Line("serial_device", "/dev/ttymxc1"), Line("baudrate", "1200"),
   Line("ota_enabled", "yes"), Line("ota_enabled", "no"),
   Line("ota_enabled", "bad"), Line("otaenabled", "yes"),
   Line("no separator", ""), Line("", "")}

MCUpdate == <<Line("ota_enabled", "yes"),
              Line("ota_package_path", "/run/update")>>

MCConfigFiles ==
  SeqOf(MCLines, 2) \cup {MCUpdate \o f : f \in SeqOf(MCLines, 1)}
=============================================================================
