-------------------------- MODULE ChassisCommands --------------------------
(* The chassis commands, src/lib/ipmi_chassis.c.                            *)
EXTENDS CommandSteps, TLC

ipmi_chassis_power_status == Asks(Get("GetChassisStatus", "ok"))

ipmi_chassis_print_power_status == Asks(Call("ipmi_chassis_power_status", "ok"))

ipmi_chassis_power_control == Asks(Put("ChassisControl", "ok"))

ipmi_chassis_identify == Checked(Put("ChassisIdentify", "ok"))

ipmi_chassis_poh == Asks(Get("GetPohCounter", "ok"))

ipmi_chassis_restart_cause == Asks(Get("GetRestartCause", "ok"))

ipmi_chassis_status == Asks(Get("GetChassisStatus", "ok"))

ipmi_chassis_selftest == Asks(Get("GetSelfTest", "ok"))

(* Set System Boot Options: the completion code is the result.              *)
ipmi_chassis_set_bootparam(param, none, bad, ok) == PutOr(param, none, bad, ok)

ipmi_chassis_get_bootparam == Checked(Get("GetBootOptions", "ok"))

get_bootparam_options == Parses

(* The valid bits, or -1.                                                   *)
ipmi_chassis_get_bootvalid == Asks(Get("GetBootOptions", "ok"))

(* The three steps of the parameter "set in progress".  When the first of   *)
(* them fails, use_progress is cleared and none is sent any more.           *)
chassis_bootparam_set_in_progress(send) ==
    [start  |-> Noted("no progress", "ok", "send"),
     send   |-> send,
     failed |-> Note("no progress", "ok")]

chassis_bootparam_clear_ack(none, bad, ok) ==
    ipmi_chassis_set_bootparam("BootInfoAck", none, bad, ok)

ipmi_chassis_set_bootvalid ==
    [start  |-> Do("SET_IN_PROGRESS", "ack"),
     ack    |-> chassis_bootparam_clear_ack("failed", "refused", "get"),
     get    |-> CallOr("ipmi_chassis_get_bootvalid", "failed", "set"),
     set    |-> ipmi_chassis_set_bootparam("BootFlagValid", "failed", "refused", "commit"),
     commit |-> Do("COMMIT_WRITE", "done"),
     done    |-> Do("SET_COMPLETE", "ok"),
     refused |-> Do("SET_COMPLETE", "pos"),
     failed  |-> Do("SET_COMPLETE", "err")]

(* A refused acknowledge does not stop it, a lost one does.                 *)
ipmi_chassis_set_bootdev ==
    [start   |-> Do("SET_IN_PROGRESS", "ack"),
     ack     |-> chassis_bootparam_clear_ack("failed", "device", "device"),
     device  |-> Branch({"failed", "set"}),
     set     |-> ipmi_chassis_set_bootparam("BootFlags", "failed", "refused", "commit"),
     commit  |-> Do("COMMIT_WRITE", "done"),
     done    |-> Do("SET_COMPLETE", "ok"),
     refused |-> Do("SET_COMPLETE", "pos"),
     failed  |-> Do("SET_COMPLETE", "err")]

(* The data is written block by block.                                      *)
chassis_set_bootmailbox ==
    [start   |-> Branch({"err", "lock"}),
     lock    |-> Do("SET_IN_PROGRESS", "block"),
     block   |-> ipmi_chassis_set_bootparam("BootMailbox", "failed", "refused", "more"),
     more    |-> Loop("block", "commit"),
     commit  |-> Do("COMMIT_WRITE", "ack"),
     ack     |-> chassis_bootparam_clear_ack("failed", "refused", "done"),
     done    |-> Do("SET_COMPLETE", "ok"),
     refused |-> Do("SET_COMPLETE", "pos"),
     failed  |-> Do("SET_COMPLETE", "err")]

(* One block, or all up to the first that cannot be read; only the failure  *)
(* of the very first counts.                                                *)
chassis_get_bootmailbox ==
    [start |-> Call("ipmi_chassis_get_bootparam", "all"),
     all   |-> Loop("next", "ok"),
     next  |-> CallOr("ipmi_chassis_get_bootparam", "ok", "all")]

chassis_bootmailbox == Dispatch({"chassis_get_bootmailbox", "chassis_set_bootmailbox"})

ipmi_chassis_power_policy ==
    [start |-> Branch({"list", "set"}),
     list  |-> Get("SetPowerRestorePolicy", "ok"),
     set   |-> Put("SetPowerRestorePolicy", "ok")]

ipmi_power_main ==
    Dispatch({"ipmi_chassis_print_power_status", "ipmi_chassis_power_control"})

bootdev_parse_options == Parses

(* "bootparam set bootflag" sets the device and then the valid bits: the    *)
(* second result overwrites the first.                                      *)
ipmi_chassis_main ==
    LET direct == {"ipmi_chassis_status", "ipmi_chassis_selftest",
                   "ipmi_chassis_print_power_status", "ipmi_chassis_power_control",
                   "ipmi_chassis_identify", "ipmi_chassis_poh", "ipmi_chassis_restart_cause",
                   "ipmi_chassis_power_policy", "ipmi_chassis_get_bootparam",
                   "ipmi_chassis_set_bootdev", "chassis_bootmailbox"} IN
    [Dispatch(direct) EXCEPT !["start"] = Branch(@.to \cup {"options", "flags"})] @@
    [options |-> CallOr("bootdev_parse_options", "err", "ipmi_chassis_set_bootdev"),
     flags   |-> Do("get_bootparam_options", "dev"),
     dev     |-> CallBy("ipmi_chassis_set_bootdev", "devfail", "devpos", "valid"),
     devfail |-> Branch({"err", "set"}),
     devpos  |-> Branch({"pos", "set"}),
     valid   |-> Branch({"ok", "set"}),
     set     |-> Call("ipmi_chassis_set_bootvalid", "ok")]


(* The functions by name. *)
ChassisCode ==
    [ipmi_chassis_power_status |-> ipmi_chassis_power_status,
     ipmi_chassis_print_power_status |-> ipmi_chassis_print_power_status,
     ipmi_chassis_power_control |-> ipmi_chassis_power_control,
     ipmi_chassis_identify |-> ipmi_chassis_identify,
     ipmi_chassis_poh |-> ipmi_chassis_poh,
     ipmi_chassis_restart_cause |-> ipmi_chassis_restart_cause,
     ipmi_chassis_status |-> ipmi_chassis_status,
     ipmi_chassis_selftest |-> ipmi_chassis_selftest,
     ipmi_chassis_get_bootparam |-> ipmi_chassis_get_bootparam,
     get_bootparam_options |-> get_bootparam_options,
     ipmi_chassis_get_bootvalid |-> ipmi_chassis_get_bootvalid,
     ipmi_chassis_set_bootvalid |-> ipmi_chassis_set_bootvalid,
     ipmi_chassis_set_bootdev |-> ipmi_chassis_set_bootdev,
     chassis_set_bootmailbox |-> chassis_set_bootmailbox,
     chassis_get_bootmailbox |-> chassis_get_bootmailbox,
     chassis_bootmailbox |-> chassis_bootmailbox,
     ipmi_chassis_power_policy |-> ipmi_chassis_power_policy,
     ipmi_power_main |-> ipmi_power_main,
     bootdev_parse_options |-> bootdev_parse_options,
     ipmi_chassis_main |-> ipmi_chassis_main,
     SET_IN_PROGRESS |->
         chassis_bootparam_set_in_progress(LockOr("BootOptions", "failed", "failed", "ok")),
     COMMIT_WRITE |-> chassis_bootparam_set_in_progress(PutOr("BootCommit", "ok", "ok", "ok")),
     SET_COMPLETE |-> chassis_bootparam_set_in_progress(UnlockOr("BootOptions", "ok", "ok", "ok"))]

=============================================================================
