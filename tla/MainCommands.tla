---------------------------- MODULE MainCommands ----------------------------
(* What ipmi_main() does around a command, src/lib/ipmi_main.c, scripts of  *)
(* commands, src/src/ipmishell.c, and the commands for Kontron controllers  *)
(* and generic devices, src/lib/ipmi_kontronoem.c and ipmi_gendev.c.        *)
EXTENDS CommandSteps, TLC

(* The commands of ipmitool by the functions that carry them out; shell is  *)
(* exec with the lines typed.                                               *)
ipmitool_cmd_list ==
    {"ipmi_raw_main", "ipmi_rawi2c_main", "ipmi_rawspd_main", "ipmi_lanp_main",
     "ipmi_chassis_main", "ipmi_power_main", "ipmi_event_main", "ipmi_mc_main", "ipmi_sdr_main",
     "ipmi_sensor_main", "ipmi_fru_main", "ipmi_gendev_main", "ipmi_sel_add_entries_fromfile",
     "ipmi_sel_get_info", "ipmi_sel_get_time", "ipmi_sel_set_time", "ipmi_sel_readraw",
     "ipmi_pef_main", "ipmi_sol_main", "ipmi_tsol_main", "ipmi_isol_main", "ipmi_user_main",
     "ipmi_channel_main", "ipmi_session_main", "ipmi_dcmi_main", "ipmi_nm_main",
     "ipmi_sunoem_main", "ipmi_kontronoem_main", "ipmi_picmg_main", "ipmi_fwum_main",
     "ipmi_firewall_main", "ipmi_delloem_main", "ipmi_shell_main", "ipmi_exec_main",
     "ipmi_set_main", "ipmi_hpmfwupg_main", "ipmi_ime_main", "ipmi_vita_main", "ipmi_lan6_main"}

(* The address on the bus is asked for where there is PICMG or VITA.        *)
ipmi_acquire_ipmb_address ==
    [start |-> Branch({"picmg", "vita", "ok"}),
     picmg |-> Call("ipmi_picmg_ipmb_address", "ok"),
     vita  |-> Call("ipmi_vita_ipmb_address", "ok")]

(* The interface is opened, the controller asked what it is, the command    *)
(* run and the interface closed.  The buffers of a Kontron controller may   *)
(* be enlarged before the command, and are then set back after it, whatever *)
(* it returned.                                                             *)
ipmi_main ==
    [start   |-> Branch({"err", "payload"}),
     payload |-> Do("hpm2_detect_max_payload_size", "oem"),
     oem     |-> Do("ipmi_get_oem", "picmg"),
     picmg   |-> CallBy("picmg_discover", "vita", "address", "vita"),
     vita    |-> Do("vita_discover", "address"),
     address |-> Do("ipmi_acquire_ipmb_address", "bridge"),
     bridge  |-> Branch({"err", "bridged", "cache"}),
     bridged |-> Do("ipmi_acquire_ipmb_address", "cache"),
     cache   |-> Do("ipmi_sdr_list_cache_fromfile", "buffer"),
     buffer  |-> Branch({"run", "large"}),
     large   |-> Do("ipmi_kontronoem_set_large_buffer", "run"),
     run     |-> Branch(ipmitool_cmd_list \cup {"err"}),
     failed  |-> Branch({"err", "resetErr"}),
     refused |-> Branch({"pos", "resetPos"}),
     done    |-> Branch({"ok", "resetOk"}),
     resetErr |-> Do("ipmi_kontronoem_set_large_buffer", "err"),
     resetPos |-> Do("ipmi_kontronoem_set_large_buffer", "pos"),
     resetOk  |-> Do("ipmi_kontronoem_set_large_buffer", "ok")] @@
    [c \in ipmitool_cmd_list |-> CallBy(c, "failed", "refused", "done")]

-----------------------------------------------------------------------------
(* A line of a script runs any command, here one of two.                    *)
ipmi_cmd_run ==
    [start |-> Branch({"err", "first", "second"}),
     first  |-> PutOr("CommandA", "err", "pos", "ok"),
     second |-> PutOr("CommandB", "err", "pos", "ok")]

(* A failure does not stop the script.  The result is the last that is not  *)
(* 0, a positive one as good as a negative one.                             *)
ipmi_exec_main ==
    [start    |-> Branch({"err", "line"}),
     line     |-> Loop("run", "rc"),
     run      |-> CallBy("ipmi_cmd_run", "negative", "positive", "line"),
     negative |-> Note("execNegative", "line"),
     positive |-> Forget("execNegative", "noted"),
     noted    |-> Note("execPositive", "line"),
     rc       |-> Noted("execNegative", "err", "other"),
     other    |-> Noted("execPositive", "pos", "ok")]

(* The result of the last command, or 0 when the user quits.                *)
ipmi_shell_main ==
    [start |-> Repeat("run", "ok"),
     run   |-> CallBy("ipmi_cmd_run", "eofErr", "eofPos", "start"),
     eofErr |-> Branch({"start", "err"}),
     eofPos |-> Branch({"start", "pos"})]

(* "set targetaddr" is for the commands that follow.                        *)
ipmi_set_main ==
    [start |-> Branch({"ok", "err", "addr"}), addr |-> Aim("ok")]

-----------------------------------------------------------------------------
ipmi_kontronoem_send_set_large_buffer == Asks(Put("LargeBuffer", "ok"))

(* With a target behind the bus the buffers of the bus and of the own       *)
(* controller come first.  That the target itself did not take it is not    *)
(* reported.                                                                *)
ipmi_kontronoem_set_large_buffer ==
    [start   |-> Branch({"send", "near"}),
     near    |-> Aim("bus"),
     bus     |-> CallOr("ipmi_kontronoem_send_set_large_buffer", "backErr", "own"),
     own     |-> CallOr("ipmi_kontronoem_send_set_large_buffer", "undo", "backOk"),
     undo    |-> Do("ipmi_kontronoem_send_set_large_buffer", "backErr"),
     backErr |-> Back("pos"),
     backOk  |-> Back("send"),
     send    |-> CallOr("ipmi_kontronoem_send_set_large_buffer", "failed", "ok"),
     failed  |-> Branch({"ok", "away"}),
     away    |-> Aim("clear"),
     clear   |-> Do("ipmi_kontronoem_send_set_large_buffer", "home"),
     home    |-> Back("ok")]

(* The serial number goes into the board area and then the product area.    *)
ipmi_kontron_set_serial_number ==
    [start   |-> Get("KontronNumber", "info"),
     info    |-> Get("FruInfo", "header"),
     header  |-> Get("ReadFru", "version"),
     version |-> Branch({"err", "board"}),
     board   |-> CallBy("read_fru_area", "err", "field", "field"),
     field   |-> Branch({"err", "write"}),
     write   |-> CallBy("write_fru_area", "err", "product", "product"),
     product |-> CallBy("read_fru_area", "err", "field2", "field2"),
     field2  |-> Branch({"err", "write2"}),
     write2  |-> CallBy("write_fru_area", "err", "pos", "pos")]

ipmi_kontron_set_mfg_date ==
    [start   |-> Get("KontronDate", "size"),
     size    |-> Branch({"err", "info"}),
     info    |-> Get("FruInfo", "header"),
     header  |-> Get("ReadFru", "version"),
     version |-> Branch({"err", "board"}),
     board   |-> CallBy("read_fru_area", "err", "write", "write"),
     write   |-> CallBy("write_fru_area", "err", "pos", "pos")]

ipmi_kontron_nextboot_set == Checked(Put("NextBoot", "ok"))

ipmi_kontronoem_main ==
    [start    |-> Branch({"ok", "err", "serial", "date", "nextboot"}),
     serial   |-> CallBy("ipmi_kontron_set_serial_number", "err", "ok", "err"),
     date     |-> CallBy("ipmi_kontron_set_mfg_date", "err", "ok", "err"),
     nextboot |-> CallOr("ipmi_kontron_nextboot_set", "err", "ok")]

-----------------------------------------------------------------------------
(* Blocks of a memory device, each tried several times.                     *)
ipmi_gendev_read_file ==
    [start |-> Branch({"ok", "bytes"}),
     bytes |-> Loop("block", "ok"),
     block |-> CallOr("ipmi_master_write_read", "retry", "file"),
     retry |-> Loop("block", "err"),
     file  |-> Branch({"bytes", "err"})]

ipmi_gendev_write_file ==
    [start |-> Branch({"ok", "bytes"}),
     bytes |-> Loop("file", "ok"),
     file  |-> Branch({"block", "err"}),
     block |-> CallOr("ipmi_master_write_read", "retry", "bytes"),
     retry |-> Loop("block", "err")]

(* What came of the reading and the writing is not looked at.               *)
ipmi_gendev_main ==
    [start |-> Branch({"ok", "err", "list", "find"}),
     list  |-> Call("ipmi_sdr_print_sdr", "ok"),
     find  |-> CallOr("ipmi_sdr_find_sdr_byid", "err", "kind"),
     kind  |-> Branch({"err", "read", "write"}),
     read  |-> Do("ipmi_gendev_read_file", "ok"),
     write |-> Do("ipmi_gendev_write_file", "ok")]


(* The functions by name. *)
MainCode ==
    [ipmi_acquire_ipmb_address |-> ipmi_acquire_ipmb_address, ipmi_main |-> ipmi_main,
     ipmi_cmd_run |-> ipmi_cmd_run, ipmi_exec_main |-> ipmi_exec_main,
     ipmi_shell_main |-> ipmi_shell_main, ipmi_set_main |-> ipmi_set_main,
     ipmi_kontronoem_send_set_large_buffer |-> ipmi_kontronoem_send_set_large_buffer,
     ipmi_kontronoem_set_large_buffer |-> ipmi_kontronoem_set_large_buffer,
     ipmi_kontron_set_serial_number |-> ipmi_kontron_set_serial_number,
     ipmi_kontron_set_mfg_date |-> ipmi_kontron_set_mfg_date,
     ipmi_kontron_nextboot_set |-> ipmi_kontron_nextboot_set,
     ipmi_kontronoem_main |-> ipmi_kontronoem_main,
     ipmi_gendev_read_file |-> ipmi_gendev_read_file,
     ipmi_gendev_write_file |-> ipmi_gendev_write_file,
     ipmi_gendev_main |-> ipmi_gendev_main]

=============================================================================
