----------------------------- MODULE MCCollector -----------------------------
(* Instances of Collector. *)
EXTENDS Collector

Cfg(mode, protocol, slave) == [mode |-> mode, protocol |-> protocol, slave |-> slave]

IpmitoolConfigs ==
  { Cfg("legacy_inband", "node_manager", "0x2c"),
    Cfg("legacy_inband", "dcmi", "0"),
    Cfg("oob", "ipmi", ""),
    Cfg("oob", "node_manager", "0") }

OpenipmiConfigs ==
  { Cfg("legacy_inband_openipmi", "node_manager", ""),
    Cfg("legacy_inband_openipmi", "dcmi", "") }

(* openipmi with the protocols whose requests fit its window. *)
ShortListConfigs ==
  { Cfg("legacy_inband_openipmi", "dcmi", ""),
    Cfg("legacy_inband_openipmi", "ipmi", "") }

(* Every mode, every protocol, a mode there is not, and none at all. *)
AllConfigs ==
  IpmitoolConfigs \cup OpenipmiConfigs \cup
  { Cfg("unknown", "", ""), Cfg("", "", "") }
===============================================================================
