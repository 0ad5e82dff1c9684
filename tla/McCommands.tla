---------------------------- MODULE McCommands -----------------------------
(* The management controller commands, src/lib/ipmi_mc.c.                   *)
EXTENDS CommandSteps

(* A cold reset is sent with intf->noanswer.                                *)
ipmi_mc_reset ==
    [start |-> Branch({"cold", "warm"}),
     cold  |-> PutOr("ColdReset", "ok", "err", "ok"),
     warm  |-> Put("WarmReset", "ok")]

ipmi_mc_get_enables == Asks(Get("GetGlobalEnables", "ok"))

(* The enables are read, changed as the arguments say, written back if that *)
(* makes a difference, and printed.                                         *)
ipmi_mc_set_enables ==
    [start |-> Branch({"ok", "err", "get"}),
     get   |-> Get("GetGlobalEnables", "new"),
     new   |-> Branch({"err", "show", "set"}),
     set   |-> Put("SetGlobalEnables", "show"),
     show  |-> Do("ipmi_mc_get_enables", "ok")]

(* Slip: the response is not compared with NULL.                            *)
ipmi_mc_get_deviceid_unchecked == Asks(GetOr("GetDeviceId", "crash", "err", "ok"))

ipmi_mc_get_deviceid == Asks(Get("GetDeviceId", "ok"))

_ipmi_mc_get_guid ==
    [start |-> GetOr("GetGuid", "err", "pos", "size"),
     size  |-> Branch({"ok", "err"})]

ipmi_mc_print_guid == Asks(CallOr("_ipmi_mc_get_guid", "err", "ok"))

ipmi_mc_get_selftest ==
    [start |-> Get("GetSelfTest", "code"), code |-> Branch({"ok", "err"})]

ipmi_mc_get_watchdog == Asks(Get("GetWatchdog", "ok"))

parse_set_wdt_options == Parses

ipmi_mc_set_watchdog ==
    [start |-> CallOr("parse_set_wdt_options", "err", "set"),
     set   |-> PutOr("SetWatchdog", "err", "pos", "ok")]

ipmi_mc_shutoff_watchdog == Asks(Put("StopWatchdog", "ok"))

ipmi_mc_rst_watchdog == Asks(Put("ResetWatchdog", "ok"))

ipmi_mc_main ==
    Dispatch({"ipmi_mc_reset", "ipmi_mc_get_deviceid", "ipmi_mc_print_guid",
              "ipmi_mc_get_enables", "ipmi_mc_set_enables", "ipmi_mc_get_selftest",
              "ipmi_mc_set_watchdog", "ipmi_mc_get_watchdog",
              "ipmi_mc_shutoff_watchdog", "ipmi_mc_rst_watchdog", "ipmi_sysinfo_main"})

ipmi_mc_getsysinfo == Asks(GetOr("GetSysInfo", "err", "pos", "ok"))

ipmi_mc_setsysinfo == Writes("SetSysInfo")

(* A string is written in blocks of 16 bytes, one request each; the first   *)
(* that fails ends the loop.                                                *)
ipmi_sysinfo_main ==
    [start |-> Branch({"ok", "err", "set", "get"}),
     set   |-> Call("ipmi_mc_setsysinfo", "more"),
     more  |-> Loop("set", "ok"),
     get   |-> Loop("read", "ok"),
     read  |-> Call("ipmi_mc_getsysinfo", "get")]

(* The functions by name. *)
McCode ==
    [ipmi_mc_reset |-> ipmi_mc_reset, ipmi_mc_get_enables |-> ipmi_mc_get_enables,
     ipmi_mc_set_enables |-> ipmi_mc_set_enables,
     ipmi_mc_get_deviceid |-> ipmi_mc_get_deviceid,
     _ipmi_mc_get_guid |-> _ipmi_mc_get_guid, ipmi_mc_print_guid |-> ipmi_mc_print_guid,
     ipmi_mc_get_selftest |-> ipmi_mc_get_selftest,
     ipmi_mc_get_watchdog |-> ipmi_mc_get_watchdog,
     parse_set_wdt_options |-> parse_set_wdt_options,
     ipmi_mc_set_watchdog |-> ipmi_mc_set_watchdog,
     ipmi_mc_shutoff_watchdog |-> ipmi_mc_shutoff_watchdog,
     ipmi_mc_rst_watchdog |-> ipmi_mc_rst_watchdog, ipmi_mc_main |-> ipmi_mc_main,
     ipmi_mc_getsysinfo |-> ipmi_mc_getsysinfo,
     ipmi_mc_setsysinfo |-> ipmi_mc_setsysinfo, ipmi_sysinfo_main |-> ipmi_sysinfo_main]

-----------------------------------------------------------------------------
(* Raw requests, src/lib/ipmi_raw.c.                                        *)

(* Master Write-Read: what is written to the I2C bus is not known.          *)
ipmi_master_write_read == Checked(Put("MasterWriteRead", "ok"))

(* 512 bytes in pieces; a short piece is a failure.                         *)
ipmi_rawspd_main ==
    [start |-> Branch({"ok", "err", "next"}),
     next  |-> Loop("read", "ok"),
     read  |-> CallOr("ipmi_master_write_read", "err", "size"),
     size  |-> Branch({"err", "next"})]

ipmi_rawi2c_main ==
    [start |-> Branch({"ok", "err", "send"}),
     send  |-> CallOr("ipmi_master_write_read", "err", "size"),
     size  |-> Branch({"err", "ok"})]

ipmi_raw_main == [start |-> Branch({"ok", "err", "send"}), send |-> Put("Raw", "ok")]

(* The functions by name. *)
RawCode ==
    [ipmi_master_write_read |-> ipmi_master_write_read,
     ipmi_rawspd_main |-> ipmi_rawspd_main, ipmi_rawi2c_main |-> ipmi_rawi2c_main,
     ipmi_raw_main |-> ipmi_raw_main]

=============================================================================
