---------------------------- MODULE DcmiCommands ----------------------------
(* The data centre and node manager commands, src/lib/ipmi_dcmi.c.  chk_rsp() *)
(* and chk_nm_rsp() turn no response, a completion code and the wrong group *)
(* into a failure; the callers return -1 for it.                            *)
EXTENDS CommandSteps

chk_rsp    == Parses
chk_nm_rsp == Parses

(* Senders that hand the response, whatever it is, to their caller.         *)
ipmi_dcmi_getcapabilities   == Asks(Get("DcmiCapabilities", "ok"))
ipmi_dcmi_getassettag       == Asks(Get("GetAssetTag", "ok"))
ipmi_dcmi_setassettag       == Asks(Put("AssetTag", "ok"))
ipmi_dcmi_getmngctrlids     == Asks(Get("GetMngCtrlId", "ok"))
ipmi_dcmi_setmngctrlids     == Asks(Put("MngCtrlId", "ok"))
ipmi_dcmi_discvry_snsr      == Asks(Get("DcmiSensors", "ok"))
ipmi_dcmi_get_temp_readings == Asks(Get("TempReadings", "ok"))
ipmi_dcmi_getconfparam      == Asks(Get("GetDcmiParam", "ok"))
ipmi_dcmi_setconfparam      == Asks(Put("DcmiParam", "ok"))
ipmi_dcmi_pwr_glimit        == Asks(Get("GetPowerLimit", "ok"))

(* A socket of its own is opened, for an RMCP ping.                         *)
ipmi_dcmi_prnt_oobDiscover ==
    [start |-> Branch({"err", "ping"}),
     ping  |-> GetOr("Ping", "err", "err", "ok")]

ipmi_dcmi_prnt_getcapabilities == Asks(CallOr("ipmi_dcmi_getcapabilities", "err", "ok"))

(* Text that is longer than a message is read and written piece by piece;   *)
(* one that fails ends it, with the pieces before written.                  *)
ipmi_dcmi_prnt_getassettag ==
    [start |-> CallOr("ipmi_dcmi_getassettag", "err", "more"),
     more  |-> Loop("piece", "ok"),
     piece |-> CallOr("ipmi_dcmi_getassettag", "err", "more")]

ipmi_dcmi_prnt_setassettag ==
    [start |-> Branch({"err", "more"}),
     more  |-> Loop("piece", "ok"),
     piece |-> CallOr("ipmi_dcmi_setassettag", "err", "more")]

ipmi_dcmi_prnt_getmngctrlids ==
    [start |-> CallOr("ipmi_dcmi_getmngctrlids", "err", "more"),
     more  |-> Loop("piece", "ok"),
     piece |-> CallOr("ipmi_dcmi_getmngctrlids", "err", "more")]

(* Over lanplus the response is not looked at.                              *)
ipmi_dcmi_prnt_setmngctrlids ==
    [start |-> Branch({"err", "more"}),
     more  |-> Loop("which", "ok"),
     which |-> Branch({"piece", "lanplus"}),
     piece |-> CallOr("ipmi_dcmi_setmngctrlids", "err", "more"),
     lanplus |-> Do("ipmi_dcmi_setmngctrlids", "more")]

(* The response to the request for the next instances is dropped: the first *)
(* one is checked, and printed, again.  When it has no records there are    *)
(* never fewer instances left.                                              *)
ipmi_dcmi_prnt_discvry_snsr ==
    [start  |-> CallOr("ipmi_dcmi_discvry_snsr", "err", "more"),
     more   |-> Repeat("next", "ok"),
     next   |-> Do("ipmi_dcmi_discvry_snsr", "record"),
     record |-> Loop("print", "more"),
     print  |-> Do("ipmi_print_sensor_info", "record")]

ipmi_dcmi_pwr_rd           == Asks(Get("PowerReading", "ok"))
ipmi_dcmi_getthermalpolicy == Asks(Get("GetThermalPolicy", "ok"))
ipmi_dcmi_setthermalpolicy == Asks(Put("ThermalPolicy", "ok"))
ipmi_dcmi_pwr_actdeact     == Asks(Put("PowerLimitActive", "ok"))

(* An entity that does not answer is passed over.  One that stops answering *)
(* between its pages is asked for the same page again, without an end:      *)
(* "again" is no Loop.                                                      *)
ipmi_dcmi_prnt_get_temp_readings ==
    [start |-> Loop("first", "ok"),
     first |-> CallOr("ipmi_dcmi_get_temp_readings", "start", "page"),
     page  |-> Loop("again", "start"),
     again |-> CallOr("ipmi_dcmi_get_temp_readings", "again", "page")]

ipmi_dcmi_prnt_getconfparam ==
    [start |-> Loop("param", "ok"),
     param |-> CallOr("ipmi_dcmi_getconfparam", "err", "start")]

ipmi_dcmi_pwr_prnt_glimit == Asks(CallOr("ipmi_dcmi_pwr_glimit", "err", "ok"))

(* The limits are read, one of them is changed, and all are written.        *)
ipmi_dcmi_pwr_slimit ==
    [start |-> CallOr("ipmi_dcmi_pwr_glimit", "err", "parse"),
     parse |-> Branch({"err", "set"}),
     set   |-> Put("PowerLimit", "ok")]

(* All at once, or pair by pair: the loop looks for a positive result, and  *)
(* the -1 of any pair but the last is lost.                                 *)
ipmi_dcmi_set_limit ==
    [start |-> Branch({"err", "all", "pairs"}),
     all   |-> Put("PowerLimit", "ok"),
     pairs |-> Loop("pair", "ok"),
     pair  |-> CallBy("ipmi_dcmi_pwr_slimit", "failed", "err", "pairs"),
     failed |-> Loop("pair", "err")]

ipmi_dcmi_parse_power ==
    [start  |-> Branch({"err", "read", "get", "set", "act"}),
     read   |-> Call("ipmi_dcmi_pwr_rd", "ok"),
     get    |-> Call("ipmi_dcmi_pwr_prnt_glimit", "ok"),
     set    |-> CallBy("ipmi_dcmi_set_limit", "err", "get", "get"),
     act    |-> Call("ipmi_dcmi_pwr_actdeact", "ok")]

ipmi_dcmi_thermalpolicy ==
    [start |-> Branch({"err", "get", "set"}),
     get   |-> Call("ipmi_dcmi_getthermalpolicy", "ok"),
     set   |-> Call("ipmi_dcmi_setthermalpolicy", "ok")]

(* Of the sensor kinds only the last one's result is returned; a refused    *)
(* configuration parameter is reported, but not returned.                   *)
ipmi_dcmi_main ==
    [start    |-> Branch({"err", "discover", "power", "sensors", "getTag", "setTag", "getId",
                          "setId", "thermal", "temps", "getConf", "setConf", "oob"}),
     discover |-> Loop("capable", "ok"),
     capable  |-> CallBy("ipmi_dcmi_prnt_getcapabilities", "err", "discover", "discover"),
     power    |-> Call("ipmi_dcmi_parse_power", "ok"),
     sensors  |-> Loop("kind", "last"),
     kind     |-> Do("ipmi_dcmi_prnt_discvry_snsr", "sensors"),
     last     |-> Call("ipmi_dcmi_prnt_discvry_snsr", "ok"),
     getTag   |-> CallBy("ipmi_dcmi_prnt_getassettag", "err", "ok", "ok"),
     setTag   |-> CallBy("ipmi_dcmi_prnt_setassettag", "err", "ok", "ok"),
     getId    |-> CallBy("ipmi_dcmi_prnt_getmngctrlids", "err", "ok", "ok"),
     setId    |-> CallBy("ipmi_dcmi_prnt_setmngctrlids", "err", "ok", "ok"),
     thermal  |-> Call("ipmi_dcmi_thermalpolicy", "ok"),
     temps    |-> CallBy("ipmi_dcmi_prnt_get_temp_readings", "err", "ok", "ok"),
     getConf  |-> CallBy("ipmi_dcmi_prnt_getconfparam", "err", "ok", "ok"),
     setConf  |-> Do("ipmi_dcmi_setconfparam", "ok"),
     oob      |-> CallBy("ipmi_dcmi_prnt_oobDiscover", "err", "ok", "ok")]

(* The record is looked for in the whole repository.                        *)
ipmi_print_sensor_info ==
    [start  |-> CallOr("ipmi_sdr_start", "err", "walk"),
     walk   |-> Loop("header", "err"),
     header |-> CallOr("ipmi_sdr_get_next_header", "err", "found"),
     found  |-> Branch({"walk", "record"}),
     record |-> CallOr("ipmi_sdr_get_record", "err", "kind"),
     kind   |-> Branch({"err", "print"}),
     print  |-> Call("ipmi_sdr_print_rawentry", "ok")]

-----------------------------------------------------------------------------
(* The node manager: requests, *)
_ipmi_nm_discover        == Asks(Get("NmDiscover", "ok"))
_ipmi_nm_getcapabilities == Asks(Get("NmCapabilities", "ok"))
_ipmi_nm_get_policy      == Asks(Get("GetNmPolicy", "ok"))
_ipmi_nm_set_policy      == Asks(Put("NmPolicy", "ok"))
_ipmi_nm_policy_limiting == Asks(Get("NmLimiting", "ok"))
_ipmi_nm_control         == Asks(Put("NmControl", "ok"))
_ipmi_nm_statistics      == Asks(Get("NmStatistics", "ok"))
_ipmi_nm_reset_stats     == Asks(Put("NmResetStatistics", "ok"))
_nm_set_range            == Asks(Put("NmRange", "ok"))
_ipmi_nm_get_alert       == Asks(Get("GetNmAlert", "ok"))
_ipmi_nm_set_alert       == Asks(Put("NmAlert", "ok"))
_ipmi_nm_get_thresh      == Asks(Get("GetNmThresholds", "ok"))
_ipmi_nm_set_thresh      == Asks(Put("NmThresholds", "ok"))
_ipmi_nm_get_suspend     == Asks(Get("GetNmSuspend", "ok"))
_ipmi_nm_set_suspend     == Asks(Put("NmSuspend", "ok"))

(* and the commands that parse the arguments for them.                      *)
ipmi_nm_getcapabilities  == Checked(CallOr("_ipmi_nm_getcapabilities", "err", "ok"))
ipmi_nm_get_policy       == Checked(CallOr("_ipmi_nm_get_policy", "err", "ok"))
ipmi_nm_control          == Checked(CallBy("_ipmi_nm_control", "err", "ok", "ok"))
ipmi_nm_get_statistics   == Checked(CallOr("_ipmi_nm_statistics", "err", "ok"))
ipmi_nm_reset_statistics == Checked(CallBy("_ipmi_nm_reset_stats", "err", "ok", "ok"))
ipmi_nm_set_range        == Checked(CallBy("_nm_set_range", "err", "ok", "ok"))
ipmi_nm_get_alert        == Asks(CallOr("_ipmi_nm_get_alert", "err", "ok"))
ipmi_nm_get_thresh       == Asks(CallOr("_ipmi_nm_get_thresh", "err", "ok"))
ipmi_nm_get_suspend      == Asks(CallOr("_ipmi_nm_get_suspend", "err", "ok"))

ipmi_nm_policy ==
    [start |-> Branch({"err", "get", "limiting", "set"}),
     get   |-> Call("ipmi_nm_get_policy", "ok"),
     limiting |-> CallBy("_ipmi_nm_policy_limiting", "err", "ok", "ok"),
     set   |-> CallOr("_ipmi_nm_set_policy", "err", "ok")]

ipmi_nm_alert ==
    [start |-> Branch({"err", "get", "set"}),
     get   |-> Call("ipmi_nm_get_alert", "ok"),
     set   |-> CallOr("_ipmi_nm_set_alert", "err", "ok")]

ipmi_nm_thresh ==
    [start |-> Branch({"err", "get", "set"}),
     get   |-> Call("ipmi_nm_get_thresh", "ok"),
     set   |-> CallBy("_ipmi_nm_set_thresh", "err", "ok", "ok")]

ipmi_nm_suspend ==
    [start |-> Branch({"err", "get", "set"}),
     get   |-> Call("ipmi_nm_get_suspend", "ok"),
     set   |-> CallBy("_ipmi_nm_set_suspend", "err", "ok", "ok")]

ipmi_nm_main ==
    LET procs == {"_ipmi_nm_discover", "ipmi_nm_getcapabilities", "ipmi_nm_control",
                  "ipmi_nm_policy", "ipmi_nm_get_statistics", "ipmi_nm_set_range",
                  "ipmi_nm_suspend", "ipmi_nm_reset_statistics", "ipmi_nm_alert",
                  "ipmi_nm_thresh"}
    IN [place \in {"start"} \cup procs |->
           IF place = "start" THEN Branch(procs \cup {"err"}) ELSE CallOr(place, "err", "ok")]

(* The functions by name. *)
DcmiCode ==
    [chk_rsp |-> chk_rsp, chk_nm_rsp |-> chk_nm_rsp,
     ipmi_dcmi_getcapabilities |-> ipmi_dcmi_getcapabilities,
     ipmi_dcmi_getassettag |-> ipmi_dcmi_getassettag,
     ipmi_dcmi_setassettag |-> ipmi_dcmi_setassettag,
     ipmi_dcmi_getmngctrlids |-> ipmi_dcmi_getmngctrlids,
     ipmi_dcmi_setmngctrlids |-> ipmi_dcmi_setmngctrlids,
     ipmi_dcmi_discvry_snsr |-> ipmi_dcmi_discvry_snsr,
     ipmi_dcmi_get_temp_readings |-> ipmi_dcmi_get_temp_readings,
     ipmi_dcmi_getconfparam |-> ipmi_dcmi_getconfparam,
     ipmi_dcmi_setconfparam |-> ipmi_dcmi_setconfparam,
     ipmi_dcmi_pwr_glimit |-> ipmi_dcmi_pwr_glimit,
     ipmi_dcmi_prnt_oobDiscover |-> ipmi_dcmi_prnt_oobDiscover,
     ipmi_dcmi_prnt_getcapabilities |-> ipmi_dcmi_prnt_getcapabilities,
     ipmi_dcmi_prnt_getassettag |-> ipmi_dcmi_prnt_getassettag,
     ipmi_dcmi_prnt_setassettag |-> ipmi_dcmi_prnt_setassettag,
     ipmi_dcmi_prnt_getmngctrlids |-> ipmi_dcmi_prnt_getmngctrlids,
     ipmi_dcmi_prnt_setmngctrlids |-> ipmi_dcmi_prnt_setmngctrlids,
     ipmi_dcmi_prnt_discvry_snsr |-> ipmi_dcmi_prnt_discvry_snsr,
     ipmi_dcmi_pwr_rd |-> ipmi_dcmi_pwr_rd,
     ipmi_dcmi_getthermalpolicy |-> ipmi_dcmi_getthermalpolicy,
     ipmi_dcmi_setthermalpolicy |-> ipmi_dcmi_setthermalpolicy,
     ipmi_dcmi_pwr_actdeact |-> ipmi_dcmi_pwr_actdeact,
     ipmi_dcmi_prnt_get_temp_readings |-> ipmi_dcmi_prnt_get_temp_readings,
     ipmi_dcmi_prnt_getconfparam |-> ipmi_dcmi_prnt_getconfparam,
     ipmi_dcmi_pwr_prnt_glimit |-> ipmi_dcmi_pwr_prnt_glimit,
     ipmi_dcmi_pwr_slimit |-> ipmi_dcmi_pwr_slimit,
     ipmi_dcmi_set_limit |-> ipmi_dcmi_set_limit,
     ipmi_dcmi_parse_power |-> ipmi_dcmi_parse_power,
     ipmi_dcmi_thermalpolicy |-> ipmi_dcmi_thermalpolicy,
     ipmi_dcmi_main |-> ipmi_dcmi_main,
     ipmi_print_sensor_info |-> ipmi_print_sensor_info,
     _ipmi_nm_discover |-> _ipmi_nm_discover,
     _ipmi_nm_getcapabilities |-> _ipmi_nm_getcapabilities,
     _ipmi_nm_get_policy |-> _ipmi_nm_get_policy,
     _ipmi_nm_set_policy |-> _ipmi_nm_set_policy,
     _ipmi_nm_policy_limiting |-> _ipmi_nm_policy_limiting,
     _ipmi_nm_control |-> _ipmi_nm_control, _ipmi_nm_statistics |-> _ipmi_nm_statistics,
     _ipmi_nm_reset_stats |-> _ipmi_nm_reset_stats, _nm_set_range |-> _nm_set_range,
     _ipmi_nm_get_alert |-> _ipmi_nm_get_alert,
     _ipmi_nm_set_alert |-> _ipmi_nm_set_alert,
     _ipmi_nm_get_thresh |-> _ipmi_nm_get_thresh,
     _ipmi_nm_set_thresh |-> _ipmi_nm_set_thresh,
     _ipmi_nm_get_suspend |-> _ipmi_nm_get_suspend,
     _ipmi_nm_set_suspend |-> _ipmi_nm_set_suspend,
     ipmi_nm_getcapabilities |-> ipmi_nm_getcapabilities,
     ipmi_nm_get_policy |-> ipmi_nm_get_policy, ipmi_nm_control |-> ipmi_nm_control,
     ipmi_nm_get_statistics |-> ipmi_nm_get_statistics,
     ipmi_nm_reset_statistics |-> ipmi_nm_reset_statistics,
     ipmi_nm_set_range |-> ipmi_nm_set_range, ipmi_nm_get_alert |-> ipmi_nm_get_alert,
     ipmi_nm_get_thresh |-> ipmi_nm_get_thresh,
     ipmi_nm_get_suspend |-> ipmi_nm_get_suspend, ipmi_nm_policy |-> ipmi_nm_policy,
     ipmi_nm_alert |-> ipmi_nm_alert, ipmi_nm_thresh |-> ipmi_nm_thresh,
     ipmi_nm_suspend |-> ipmi_nm_suspend, ipmi_nm_main |-> ipmi_nm_main]

=============================================================================
