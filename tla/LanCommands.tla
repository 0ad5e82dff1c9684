---------------------------- MODULE LanCommands ----------------------------
(* The lan commands, src/lib/ipmi_lanp.c.                                   *)
EXTENDS CommandSteps, TLC

is_lan_channel ==
    [start  |-> Branch({"err", "medium"}),
     medium |-> CallOr("ipmi_get_channel_medium", "err", "lan"),
     lan    |-> Branch({"ok", "err"})]

find_lan_channel ==
    [start |-> Loop("try", "err"), try |-> CallOr("is_lan_channel", "start", "ok")]

(* "ok": the parameter; "pos": it exists but has no data; "err": NULL.      *)
get_lan_param_select ==
    [start |-> GetOr("GetLanParam", "err", "code", "ok"), code |-> Branch({"err", "pos"})]

(* The parameter is read back until it is what was written.                 *)
set_lan_param_wait(param) ==
    [start |-> Check(param, "retry", "ok"), retry |-> Loop("start", "err")]

(* Set LAN Configuration Parameters.  When it waits, 0xcc is tried again, a *)
(* time-out code is not a failure yet, and the parameter is read back in    *)
(* the end; when it does not, a completion code is not looked at.           *)
__set_lan_param(param, readback) ==
    IF readback = "no" THEN Asks(PutOr(param, "err", "ok", "ok"))
    ELSE [start  |-> PutOr(param, "err", "code", "wait"),
          code   |-> Branch({"err", "retry", "wait"}),
          retry  |-> Loop("resend", "wait"),
          resend |-> PutOr(param, "retry", "retry", "wait"),
          wait   |-> Call(readback, "ok")]

(* "ok": set in progress, by whomever.                                      *)
ipmi_lanp_lock_state ==
    [start |-> CallBy("get_lan_param_select", "err", "err", "state"),
     state |-> Branch({"ok", "pos"})]

(* Slip: the tries are not counted.                                         *)
ipmi_lanp_lock_uncounted ==
    [start |-> CallBy("ipmi_lanp_lock_state", "ok", "set", "ok"),
     set   |-> LockOr("LanParams", "start", "start", "start")]

(* Gives up after some tries, or when the state cannot be read, and lets    *)
(* the caller go on all the same.                                           *)
ipmi_lanp_lock ==
    [start |-> CallBy("ipmi_lanp_lock_state", "ok", "retry", "ok"),
     retry |-> Loop("set", "ok"),
     set   |-> LockOr("LanParams", "start", "start", "start")]

ipmi_lanp_unlock ==
    [start  |-> PutOr("LanCommit", "unlock", "unlock", "unlock"),
     unlock |-> UnlockOr("LanParams", "ok", "ok", "ok")]

set_lan_param(set) ==
    [start |-> Do("ipmi_lanp_lock", "set"),
     set   |-> CallOr(set, "fail", "done"),
     fail  |-> Do("ipmi_lanp_unlock", "err"),
     done  |-> Do("ipmi_lanp_unlock", "ok")]

set_lan_param_nowait(set) == set_lan_param(set)

(* A parameter is read, one bit or byte of it changed and written back.     *)
ReadModifyWrite ==
    [start |-> CallOr("get_lan_param_select", "err", "set"),
     set   |-> Call("set_lan_param", "ok")]

lan_set_arp_interval ==
    [start |-> CallOr("get_lan_param_select", "err", "value"),
     value |-> Branch({"ok", "err", "set"}),
     set   |-> Call("set_lan_param", "ok")]

lan_set_arp_generate == ReadModifyWrite

lan_set_arp_respond == ReadModifyWrite

(* Some twenty parameters; two of them may be missing.                      *)
ipmi_lan_print ==
    [start    |-> Branch({"err", "channel"}),
     channel  |-> CallOr("is_lan_channel", "err", "next"),
     next     |-> Loop("param", "ok"),
     param    |-> Branch({"required", "optional"}),
     required |-> CallBy("get_lan_param_select", "err", "next", "next"),
     optional |-> Do("get_lan_param_select", "next")]

ipmi_lan_set_auth == ReadModifyWrite

ipmi_lan_set_password == Asks(CallOr("_ipmi_set_user_password", "err", "ok"))

(* The access settings are read once and written twice: nonvolatile, then   *)
(* volatile.                                                                *)
ipmi_set_alert_enable ==
    [start       |-> CallOr("_ipmi_get_channel_access", "err", "nonvolatile"),
     nonvolatile |-> CallOr("_ipmi_set_channel_access", "err", "volatile"),
     volatile    |-> CallOr("_ipmi_set_channel_access", "err", "ok")]

(* Both are read, each before it is written.                                *)
ipmi_set_channel_access ==
    [start       |-> CallOr("_ipmi_get_channel_access", "err", "nonvolatile"),
     nonvolatile |-> CallOr("_ipmi_set_channel_access", "err", "reread"),
     reread      |-> CallOr("_ipmi_get_channel_access", "err", "volatile"),
     volatile    |-> CallOr("_ipmi_set_channel_access", "err", "ok")]

(* The static function of ipmi_lanp.c with this name.                       *)
ipmi_set_user_access_lanp == Asks(CallOr("_ipmi_set_user_access", "err", "ok"))

get_cmdline_cipher_suite_priv_data == Parses

(* "off": the id is kept and the enable bit cleared.                        *)
ipmi_lan_set_vlan_id ==
    [start |-> Branch({"get", "err", "set"}),
     get   |-> CallOr("get_lan_param_select", "set", "off"),
     off   |-> Branch({"ok", "err", "set"}),
     set   |-> Call("set_vlan_param", "ok")]

ipmi_lan_set_vlan_priority == Checked(Call("set_vlan_param", "ok"))

(* The result of the two vlan functions is dropped.                         *)
ipmi_lan_set ==
    [start   |-> Branch({"ok", "err", "channel"}),
     channel |-> CallOr("is_lan_channel", "err", "what"),
     what    |-> Branch({"ok", "err", "user", "access", "interval", "generate", "respond",
                         "auth", "password", "param", "vlan", "priority", "alert", "privs"}),
     user     |-> Call("ipmi_set_user_access_lanp", "ok"),
     access   |-> Call("ipmi_set_channel_access", "ok"),
     interval |-> Call("lan_set_arp_interval", "ok"),
     generate |-> Call("lan_set_arp_generate", "ok"),
     respond  |-> Call("lan_set_arp_respond", "ok"),
     auth     |-> Call("ipmi_lan_set_auth", "ok"),
     password |-> Call("ipmi_lan_set_password", "ok"),
     param    |-> Call("set_lan_param", "ok"),
     vlan     |-> Do("ipmi_lan_set_vlan_id", "ok"),
     priority |-> Do("ipmi_lan_set_vlan_priority", "ok"),
     alert    |-> Call("ipmi_set_alert_enable", "ok"),
     privs    |-> CallOr("get_cmdline_cipher_suite_priv_data", "ok", "param")]

is_alert_destination ==
    [start  |-> CallOr("get_lan_param_select", "err", "number"),
     number |-> Branch({"ok", "err"})]

ipmi_lan_alert_print ==
    [start |-> CallOr("get_lan_param_select", "err", "type"),
     type  |-> Branch({"err", "addr"}),
     addr  |-> CallOr("get_lan_param_select", "err", "size"),
     size  |-> Branch({"err", "ok"})]

ipmi_lan_alert_print_all ==
    [start |-> CallOr("get_lan_param_select", "err", "next"),
     next  |-> Loop("print", "ok"),
     print |-> Do("ipmi_lan_alert_print", "next")]

(* A parameter without data is written back as well.                        *)
ipmi_lan_alert_set ==
    [start |-> Branch({"ok", "err", "get"}),
     get   |-> CallBy("get_lan_param_select", "err", "value", "value"),
     value |-> Branch({"err", "set"}),
     set   |-> Call("set_lan_param_nowait", "ok")]

(* An unknown subcommand does nothing, with success.                        *)
ipmi_lan_alert ==
    [start |-> Branch({"ok", "err", "find", "given", "set"}),
     find  |-> Do("find_lan_channel", "found"),
     found |-> CallOr("is_lan_channel", "err", "all"),
     given |-> CallOr("is_lan_channel", "err", "which"),
     which |-> Branch({"all", "err", "dest"}),
     all   |-> Call("ipmi_lan_alert_print_all", "ok"),
     dest  |-> CallOr("is_alert_destination", "err", "print"),
     print |-> Call("ipmi_lan_alert_print", "ok"),
     set     |-> CallOr("is_lan_channel", "err", "setdest"),
     setdest |-> CallOr("is_alert_destination", "err", "change"),
     change  |-> Call("ipmi_lan_alert_set", "ok")]

ipmi_lan_stats_get ==
    [start |-> CallOr("is_lan_channel", "err", "get"), get |-> Get("GetLanStats", "ok")]

ipmi_lan_stats_clear ==
    [start |-> CallOr("is_lan_channel", "err", "clear"), clear |-> Put("ClearLanStats", "ok")]

ipmi_lanp_main ==
    [start |-> Branch({"ok", "err", "print", "set", "alert", "stats"}),
     print   |-> Branch({"err", "find", "found"}),
     find    |-> Do("find_lan_channel", "found"),
     found   |-> CallOr("is_lan_channel", "err", "show"),
     show    |-> Call("ipmi_lan_print", "ok"),
     set     |-> Call("ipmi_lan_set", "ok"),
     alert   |-> Call("ipmi_lan_alert", "ok"),
     stats   |-> Branch({"err", "sfind", "sfound"}),
     sfind   |-> Do("find_lan_channel", "sfound"),
     sfound  |-> CallOr("is_lan_channel", "err", "which"),
     which   |-> Branch({"get", "clear", "err"}),
     get     |-> Call("ipmi_lan_stats_get", "ok"),
     clear   |-> Call("ipmi_lan_stats_clear", "ok")]



(* The functions by name. *)
LanCode ==
    [is_lan_channel |-> is_lan_channel, find_lan_channel |-> find_lan_channel,
     get_lan_param_select |-> get_lan_param_select,
     ipmi_lanp_lock_state |-> ipmi_lanp_lock_state, ipmi_lanp_lock |-> ipmi_lanp_lock,
     ipmi_lanp_unlock |-> ipmi_lanp_unlock,
     lan_set_arp_interval |-> lan_set_arp_interval,
     lan_set_arp_generate |-> lan_set_arp_generate,
     lan_set_arp_respond |-> lan_set_arp_respond, ipmi_lan_print |-> ipmi_lan_print,
     ipmi_lan_set_auth |-> ipmi_lan_set_auth,
     ipmi_lan_set_password |-> ipmi_lan_set_password,
     ipmi_set_alert_enable |-> ipmi_set_alert_enable,
     ipmi_set_channel_access |-> ipmi_set_channel_access,
     ipmi_set_user_access_lanp |-> ipmi_set_user_access_lanp,
     get_cmdline_cipher_suite_priv_data |-> get_cmdline_cipher_suite_priv_data,
     ipmi_lan_set_vlan_id |-> ipmi_lan_set_vlan_id,
     ipmi_lan_set_vlan_priority |-> ipmi_lan_set_vlan_priority,
     ipmi_lan_set |-> ipmi_lan_set, is_alert_destination |-> is_alert_destination,
     ipmi_lan_alert_print |-> ipmi_lan_alert_print,
     ipmi_lan_alert_print_all |-> ipmi_lan_alert_print_all,
     ipmi_lan_alert_set |-> ipmi_lan_alert_set, ipmi_lan_alert |-> ipmi_lan_alert,
     ipmi_lan_stats_get |-> ipmi_lan_stats_get,
     ipmi_lan_stats_clear |-> ipmi_lan_stats_clear, ipmi_lanp_main |-> ipmi_lanp_main,
     set_lan_param_wait |-> set_lan_param_wait("LanParam"),
     set_vlan_param_wait |-> set_lan_param_wait("VlanParam"),
     __set_lan_param |-> __set_lan_param("LanParam", "set_lan_param_wait"),
     __set_vlan_param |-> __set_lan_param("VlanParam", "set_vlan_param_wait"),
     __set_lan_param_nowait |-> __set_lan_param("AlertParam", "no"),
     set_lan_param |-> set_lan_param("__set_lan_param"),
     set_vlan_param |-> set_lan_param("__set_vlan_param"),
     set_lan_param_nowait |-> set_lan_param_nowait("__set_lan_param_nowait")]

-----------------------------------------------------------------------------
(* The lan6 commands, src/lib/ipmi_lanp6.c, and the parameters they get and *)
(* set in groups, src/lib/ipmi_cfgp.c.                                      *)

(* What the functions that get and set a parameter return on failure: -1    *)
(* without a response, the completion code otherwise.                       *)
ipmi_get_dynamic_oem_lanp == Asks(GetOr("GetLanParam", "err", "pos", "ok"))

ipmi_set_dynamic_oem_lanp == Asks(PutOr("Lan6Param", "err", "pos", "ok"))

lanp_parse_cfgp == Parses

(* A parameter of the command is up to four of the BMC.                     *)
lanp_set_cfgp ==
    [start |-> Call("ipmi_set_dynamic_oem_lanp", "more"),
     more  |-> Loop("start", "ok")]

lanp_get_cfgp ==
    [start |-> Branch({"err", "get"}),
     get   |-> Call("ipmi_get_dynamic_oem_lanp", "more"),
     more  |-> Loop("get", "ok")]

lanp_save_cfgp == Parses

lanp_print_cfgp == Parses

(* The handler of the parameters, for each kind of action.                  *)
lanp_ip6_cfgp(kind) == Asks(Call(kind, "ok"))

lanp_lock == Asks(LockOr("Lan6Params", "err", "pos", "ok"))

lanp_discard == Asks(UnlockOr("Lan6Params", "err", "pos", "ok"))

lanp_commit ==
    [start   |-> PutOr("Lan6Commit", "err", "pos", "discard"),
     discard |-> Call("lanp_discard", "ok")]

ipmi_cfgp_parse_sel == Parses

ipmi_cfgp_parse_data ==
    [start |-> Branch({"err", "data"}),
     data  |-> CallOr("lanp_parse_cfgp", "err", "ok")]

(* All sets and blocks of a parameter, until one fails: with an error when  *)
(* the parameter was asked for by name and this is its first set and block, *)
(* without one otherwise.  How many there may be is not looked at.          *)
cfgp_get_param ==
    [start |-> Branch({"err", "get"}),
     get   |-> CallBy("lanp_get_cfgp", "first", "first2", "more"),
     first  |-> Branch({"err", "more"}),
     first2 |-> Branch({"pos", "more"}),
     more  |-> Repeat("get", "ok")]

ipmi_cfgp_get ==
    [start |-> Branch({"err", "next"}),
     next  |-> Loop("get", "ok"),
     get   |-> CallOr("cfgp_get_param", "err", "next")]

cfgp_do_action(handler) ==
    [start |-> Branch({"err", "next"}),
     next  |-> Loop("act", "ok"),
     act   |-> CallOr(handler, "err", "next")]

ipmi_cfgp_set == cfgp_do_action("lanp_ip6_set")

ipmi_cfgp_save == cfgp_do_action("lanp_ip6_save")

ipmi_cfgp_print == cfgp_do_action("lanp_ip6_print")

(* "set" takes the lock, unless it is told not to, and commits or discards. *)
(* "lock", "commit" and "discard" are each of them a command of their own,  *)
(* for sets with "nolock" in between.                                       *)
ipmi_lan6_main ==
    [start   |-> Branch({"ok", "err", "lock", "commit", "discard", "find", "get", "set"}),
     lock    |-> PutOr("Lan6Lock", "err", "pos", "ok"),
     commit  |-> Call("lanp_commit", "ok"),
     discard |-> Call("lanp_discard", "ok"),
     find    |-> CallOr("find_lan_channel", "err", "get"),
     get     |-> CallOr("ipmi_cfgp_parse_sel", "err", "read"),
     read    |-> Call("ipmi_cfgp_get", "show"),
     show    |-> Branch({"save", "print"}),
     save    |-> Call("ipmi_cfgp_save", "ok"),
     print   |-> Call("ipmi_cfgp_print", "ok"),
     set     |-> CallOr("ipmi_cfgp_parse_sel", "err", "data"),
     data    |-> Call("ipmi_cfgp_parse_data", "how"),
     how     |-> Branch({"take", "nolock"}),
     nolock  |-> Call("ipmi_cfgp_set", "ok"),
     take    |-> Call("lanp_lock", "change"),
     change  |-> CallBy("ipmi_cfgp_set", "undo", "undo2", "commit"),
     undo    |-> Do("lanp_discard", "err"),
     undo2   |-> Do("lanp_discard", "pos")]


(* The functions by name. *)
Lan6Code ==
    [ipmi_get_dynamic_oem_lanp |-> ipmi_get_dynamic_oem_lanp,
     ipmi_set_dynamic_oem_lanp |-> ipmi_set_dynamic_oem_lanp,
     lanp_parse_cfgp |-> lanp_parse_cfgp, lanp_set_cfgp |-> lanp_set_cfgp,
     lanp_get_cfgp |-> lanp_get_cfgp, lanp_save_cfgp |-> lanp_save_cfgp,
     lanp_print_cfgp |-> lanp_print_cfgp, lanp_lock |-> lanp_lock,
     lanp_discard |-> lanp_discard, lanp_commit |-> lanp_commit,
     ipmi_cfgp_parse_sel |-> ipmi_cfgp_parse_sel,
     ipmi_cfgp_parse_data |-> ipmi_cfgp_parse_data, cfgp_get_param |-> cfgp_get_param,
     ipmi_cfgp_get |-> ipmi_cfgp_get, ipmi_cfgp_set |-> ipmi_cfgp_set,
     ipmi_cfgp_save |-> ipmi_cfgp_save, ipmi_cfgp_print |-> ipmi_cfgp_print,
     ipmi_lan6_main |-> ipmi_lan6_main, lanp_ip6_set |-> lanp_ip6_cfgp("lanp_set_cfgp"),
     lanp_ip6_save |-> lanp_ip6_cfgp("lanp_save_cfgp"),
     lanp_ip6_print |-> lanp_ip6_cfgp("lanp_print_cfgp")]

=============================================================================
