---------------------------- MODULE PefCommands ----------------------------
(* The platform event filter commands, src/lib/ipmi_pef.c.                  *)
EXTENDS CommandSteps

(* A completion code, 0x80 included, is as good as no response.             *)
ipmi_pef_msg_exchange == Asks(Get("PefExchange", "ok"))

_ipmi_get_pef_capabilities      == Reads("GetPefCapabilities")
_ipmi_get_pef_filter_entry      == Reads("GetPefParam")
_ipmi_get_pef_policy_entry      == Reads("GetPefParam")
_ipmi_get_pef_filter_table_size == Reads("GetPefParam")
_ipmi_get_pef_policy_table_size == Reads("GetPefParam")
_ipmi_get_pef_system_guid       == Reads("GetPefParam")

_ipmi_set_pef_filter_entry_cfg == Writes("PefFilter")
_ipmi_set_pef_policy_entry     == Writes("PefPolicy")

(* Only Dell; the blocks after the first are taken whether they came or not. *)
ipmi_pef_print_oem_lan_dest ==
    [start |-> Do("ipmi_get_oem", "oem"),
     oem   |-> Branch({"ok", "count"}),
     count |-> CallOr("ipmi_mc_getsysinfo", "ok", "addr"),
     addr  |-> CallOr("ipmi_mc_getsysinfo", "ok", "more"),
     more  |-> Loop("block", "ok"),
     block |-> Do("ipmi_mc_getsysinfo", "more")]

ipmi_pef_print_lan_dest ==
    [start |-> CallOr("ipmi_pef_msg_exchange", "ok", "type"),
     type  |-> CallOr("ipmi_pef_msg_exchange", "ok", "pet"),
     pet   |-> Branch({"ok", "community", "addr"}),
     community |-> Do("ipmi_pef_msg_exchange", "addr"),
     addr  |-> Do("ipmi_pef_msg_exchange", "ok")]

ipmi_pef_print_serial_dest_dial ==
    [start |-> CallOr("ipmi_pef_msg_exchange", "ok", "more"),
     more  |-> Loop("block", "ok"),
     block |-> CallOr("ipmi_pef_msg_exchange", "ok", "more")]

ipmi_pef_print_serial_dest_tap ==
    [start   |-> CallOr("ipmi_pef_msg_exchange", "ok", "account"),
     account |-> CallOr("ipmi_pef_msg_exchange", "ok", "dial"),
     dial    |-> Do("ipmi_pef_print_serial_dest_dial", "service"),
     service |-> Do("ipmi_pef_msg_exchange", "ok")]

(* A destination behind the end of the serial table is an OEM's.            *)
ipmi_pef_print_serial_dest ==
    [start |-> CallOr("ipmi_pef_msg_exchange", "ok", "which"),
     which |-> Branch({"ok", "oem", "info"}),
     oem   |-> Do("ipmi_pef_print_oem_lan_dest", "ok"),
     info  |-> CallOr("ipmi_pef_msg_exchange", "ok", "type"),
     type  |-> Branch({"ok", "dial", "tap"}),
     dial  |-> Do("ipmi_pef_print_serial_dest_dial", "ok"),
     tap   |-> Do("ipmi_pef_print_serial_dest_tap", "ok")]

(* The configuration is written twice: first the one that was not read, all *)
(* zero, and then with the enable bit set or cleared.                       *)
ipmi_pef2_filter_enable ==
    [start |-> CallOr("_ipmi_get_pef_filter_table_size", "err", "size"),
     size  |-> Branch({"err", "first"}),
     first |-> CallOr("_ipmi_set_pef_filter_entry_cfg", "err", "set"),
     set   |-> CallOr("_ipmi_set_pef_filter_entry_cfg", "err", "ok")]

(* What is not there yet (create, delete, an unknown subcommand) gives 1.   *)
ipmi_pef2_filter ==
    [start  |-> Branch({"ok", "err", "pos", "list", "enable"}),
     list   |-> Call("ipmi_pef2_list_filters", "ok"),
     enable |-> Call("ipmi_pef2_filter_enable", "ok")]

(* The size of the policy table and the GUID may be missing; 0x80 stands    *)
(* for "not supported".                                                     *)
ipmi_pef2_get_info ==
    [start |-> Do("_ipmi_get_pef_policy_table_size", "caps"),
     caps  |-> CallOr("_ipmi_get_pef_capabilities", "err", "guid"),
     guid  |-> CallBy("_ipmi_get_pef_system_guid", "err", "code", "which"),
     code  |-> Branch({"err", "which"}),
     which |-> Branch({"ok", "mc"}),
     mc    |-> Do("_ipmi_mc_get_guid", "ok")]

ipmi_pef2_get_status ==
    [start   |-> CallOr("ipmi_pef_msg_exchange", "err", "control"),
     control |-> CallOr("ipmi_pef_msg_exchange", "err", "action"),
     action  |-> CallOr("ipmi_pef_msg_exchange", "err", "ok")]

(* An entry that cannot be read is left out.                                *)
ipmi_pef2_list_filters ==
    [start |-> CallOr("_ipmi_get_pef_capabilities", "err", "count"),
     count |-> Branch({"err", "next"}),
     next  |-> Loop("entry", "ok"),
     entry |-> Do("_ipmi_get_pef_filter_entry", "next")]

ipmi_pef2_list_policies ==
    [start  |-> CallOr("_ipmi_get_pef_policy_table_size", "err", "count"),
     count  |-> Branch({"err", "next"}),
     next   |-> Loop("entry", "ok"),
     entry  |-> CallOr("_ipmi_get_pef_policy_entry", "next", "info"),
     info   |-> CallOr("_ipmi_get_channel_info", "next", "medium"),
     medium |-> Branch({"lan", "serial", "next"}),
     lan    |-> Do("ipmi_pef_print_lan_dest", "next"),
     serial |-> Do("ipmi_pef_print_serial_dest", "next")]

ipmi_pef2_policy_enable ==
    [start |-> CallOr("_ipmi_get_pef_policy_table_size", "err", "size"),
     size  |-> Branch({"err", "get"}),
     get   |-> CallOr("_ipmi_get_pef_policy_entry", "err", "set"),
     set   |-> CallOr("_ipmi_set_pef_policy_entry", "err", "ok")]

ipmi_pef2_policy ==
    [start  |-> Branch({"ok", "err", "pos", "list", "enable"}),
     list   |-> Call("ipmi_pef2_list_policies", "ok"),
     enable |-> Call("ipmi_pef2_policy_enable", "ok")]

ipmi_pef_main ==
    [start  |-> Branch({"ok", "err", "pos", "filter", "info", "policy", "status"}),
     filter |-> Call("ipmi_pef2_filter", "ok"),
     info   |-> Call("ipmi_pef2_get_info", "ok"),
     policy |-> Call("ipmi_pef2_policy", "ok"),
     status |-> Call("ipmi_pef2_get_status", "ok")]

(* The functions by name. *)
PefCode ==
    [ipmi_pef_msg_exchange |-> ipmi_pef_msg_exchange,
     _ipmi_get_pef_capabilities |-> _ipmi_get_pef_capabilities,
     _ipmi_get_pef_filter_entry |-> _ipmi_get_pef_filter_entry,
     _ipmi_get_pef_policy_entry |-> _ipmi_get_pef_policy_entry,
     _ipmi_get_pef_filter_table_size |-> _ipmi_get_pef_filter_table_size,
     _ipmi_get_pef_policy_table_size |-> _ipmi_get_pef_policy_table_size,
     _ipmi_get_pef_system_guid |-> _ipmi_get_pef_system_guid,
     _ipmi_set_pef_filter_entry_cfg |-> _ipmi_set_pef_filter_entry_cfg,
     _ipmi_set_pef_policy_entry |-> _ipmi_set_pef_policy_entry,
     ipmi_pef_print_oem_lan_dest |-> ipmi_pef_print_oem_lan_dest,
     ipmi_pef_print_lan_dest |-> ipmi_pef_print_lan_dest,
     ipmi_pef_print_serial_dest_dial |-> ipmi_pef_print_serial_dest_dial,
     ipmi_pef_print_serial_dest_tap |-> ipmi_pef_print_serial_dest_tap,
     ipmi_pef_print_serial_dest |-> ipmi_pef_print_serial_dest,
     ipmi_pef2_filter_enable |-> ipmi_pef2_filter_enable,
     ipmi_pef2_filter |-> ipmi_pef2_filter, ipmi_pef2_get_info |-> ipmi_pef2_get_info,
     ipmi_pef2_get_status |-> ipmi_pef2_get_status,
     ipmi_pef2_list_filters |-> ipmi_pef2_list_filters,
     ipmi_pef2_list_policies |-> ipmi_pef2_list_policies,
     ipmi_pef2_policy_enable |-> ipmi_pef2_policy_enable,
     ipmi_pef2_policy |-> ipmi_pef2_policy, ipmi_pef_main |-> ipmi_pef_main]

-----------------------------------------------------------------------------
(* The event commands, src/lib/ipmi_event.c, and those of the sel commands  *)
(* that do not go through the log (the others are module SelCommands),      *)
(* src/lib/ipmi_sel.c.                                                      *)

(* "ok": the manufacturer, known from before or asked for.                  *)
ipmi_get_oem ==
    [start |-> Branch({"ok", "err", "get"}), get |-> Get("GetDeviceId", "ok")]

ipmi_sel_add_entry == Asks(Put("AddSelEntry", "ok"))

(* A line that cannot be read is left out, without an error.                *)
ipmi_sel_add_entries_fromfile ==
    [start |-> Branch({"err", "next"}),
     next  |-> Loop("line", "ok"),
     line  |-> Branch({"next", "add"}),
     add   |-> CallOr("ipmi_sel_add_entry", "err", "next")]

ipmi_sel_readraw == Parses

ipmi_sel_get_info ==
    [start |-> Get("GetSelInfo", "size"),
     size  |-> Branch({"err", "ok", "alloc"}),
     alloc |-> Get("GetSelAllocInfo", "ok")]

ipmi_sel_get_time ==
    [start |-> Get("GetSelTime", "size"), size |-> Branch({"ok", "err"})]

ipmi_sel_set_time ==
    [start |-> Branch({"err", "set"}),
     set   |-> Put("SetSelTime", "show"),
     show  |-> Do("ipmi_sel_get_time", "ok")]

(* The channel says whether the event needs the id of its generator.        *)
ipmi_send_platform_event ==
    [start   |-> Do("ipmi_current_channel_info", "channel"),
     channel |-> Branch({"err", "send"}),
     send    |-> Put("PlatformEvent", "ok")]

ipmi_send_platform_event_num == Checked(Call("ipmi_send_platform_event", "ok"))

(* A threshold event carries the threshold and a reading beyond it, by the  *)
(* hysteresis when there is one.                                            *)
ipmi_event_fromsensor ==
    [start  |-> Branch({"err", "find"}),
     find   |-> CallOr("ipmi_sdr_find_sdr_byid", "err", "kind"),
     kind   |-> Branch({"ok", "err", "thresh", "send"}),
     thresh |-> CallOr("ipmi_sdr_get_sensor_thresholds", "err", "hyst"),
     hyst   |-> Do("ipmi_sdr_get_sensor_hysteresis", "send"),
     send   |-> Call("ipmi_send_platform_event", "ok")]

(* A line with a number that cannot be read gives -1 in the end, but the    *)
(* lines after it are sent.                                                 *)
ipmi_event_fromfile ==
    [start |-> Branch({"err", "next"}),
     next  |-> Loop("line", "done"),
     line  |-> Branch({"next", "bad", "send"}),
     bad   |-> Note("badLine", "next"),
     send  |-> Call("ipmi_send_platform_event", "next"),
     done  |-> Noted("badLine", "err", "ok")]

ipmi_event_main ==
    [start  |-> Branch({"ok", "file", "number", "sensor"}),
     file   |-> Call("ipmi_event_fromfile", "ok"),
     number |-> Call("ipmi_send_platform_event_num", "ok"),
     sensor |-> Call("ipmi_event_fromsensor", "ok")]

(* The functions by name. *)
EventCode ==
    [ipmi_get_oem |-> ipmi_get_oem, ipmi_sel_add_entry |-> ipmi_sel_add_entry,
     ipmi_sel_add_entries_fromfile |-> ipmi_sel_add_entries_fromfile,
     ipmi_sel_readraw |-> ipmi_sel_readraw, ipmi_sel_get_info |-> ipmi_sel_get_info,
     ipmi_sel_get_time |-> ipmi_sel_get_time, ipmi_sel_set_time |-> ipmi_sel_set_time,
     ipmi_send_platform_event |-> ipmi_send_platform_event,
     ipmi_send_platform_event_num |-> ipmi_send_platform_event_num,
     ipmi_event_fromsensor |-> ipmi_event_fromsensor,
     ipmi_event_fromfile |-> ipmi_event_fromfile, ipmi_event_main |-> ipmi_event_main]

=============================================================================
