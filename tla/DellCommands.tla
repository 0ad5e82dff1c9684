---------------------------- MODULE DellCommands ----------------------------
(* The commands for Dell controllers, src/lib/ipmi_delloem.c.               *)
EXTENDS CommandSteps

(* One block of the system information is read: any failure is -1.          *)
SysInfo == Asks(CallOr("ipmi_mc_getsysinfo", "err", "ok"))

(* Text comes in up to four blocks.                                         *)
SysInfoText(fail) ==
    [start |-> Loop("block", "ok"),
     block |-> CallBy("ipmi_mc_getsysinfo", "err", fail, "more"),
     more  |-> Branch({"start", "ok"})]

ipmi_lcd_get_platform_model_name  == SysInfoText("pos")
ipmi_lcd_get_single_line_text     == SysInfoText("err")
ipmi_idracvalidator_command       == SysInfo
ipmi_lcd_get_configure_command_wh == SysInfo
ipmi_lcd_get_configure_command    == SysInfo
ipmi_lcd_get_status_val           == SysInfo
ipmi_get_avgpower_consmpt_history  == SysInfo
ipmi_get_peakpower_consmpt_history == SysInfo
ipmi_get_minpower_consmpt_history  == SysInfo
ipmi_get_power_cap                 == SysInfo

CheckLCDSupport == Asks(Do("ipmi_mc_getsysinfo", "ok"))

ipmi_lcd_set_configure_command == Asks(CallOr("ipmi_mc_setsysinfo", "err", "ok"))

(* What is not to be changed is written as it was read, whether it could be *)
(* read or not.                                                             *)
ipmi_lcd_set_configure_command_wh ==
    [start |-> Do("ipmi_lcd_get_configure_command_wh", "set"),
     set   |-> CallOr("ipmi_mc_setsysinfo", "err", "ok")]

ipmi_lcd_get_info_wh ==
    [start |-> CallOr("ipmi_lcd_get_configure_command_wh", "err", "mode"),
     mode  |-> Branch({"model", "caps", "ok"}),
     model |-> CallOr("ipmi_lcd_get_platform_model_name", "err", "ok"),
     caps  |-> CallOr("ipmi_mc_getsysinfo", "err", "lines"),
     lines |-> Branch({"ok", "text"}),
     text  |-> Do("ipmi_lcd_get_single_line_text", "ok")]

ipmi_lcd_get_info ==
    [start |-> CallOr("ipmi_lcd_get_configure_command", "err", "mode"),
     mode  |-> Branch({"model", "caps", "ok"}),
     model |-> CallOr("ipmi_lcd_get_platform_model_name", "err", "ok"),
     caps  |-> CallOr("ipmi_mc_getsysinfo", "err", "lines"),
     lines |-> Branch({"ok", "text"}),
     text  |-> Do("ipmi_lcd_get_single_line_text", "ok")]

ipmi_lcd_get_status == Asks(CallBy("ipmi_lcd_get_status_val", "err", "pos", "ok"))

(* Read, one of the two values changed, and written.                        *)
ipmi_lcd_set_kvm ==
    [start |-> CallBy("ipmi_lcd_get_status_val", "err", "set", "set"),
     set   |-> Put("LcdStatus", "ok")]

ipmi_lcd_set_lock ==
    [start |-> CallBy("ipmi_lcd_get_status_val", "err", "set", "set"),
     set   |-> Put("LcdStatus", "ok")]

(* The loop goes on after a block that failed: the result is that of the    *)
(* last block.                                                              *)
ipmi_lcd_set_single_line_text ==
    [start |-> Branch({"err", "blocks"}),
     blocks |-> Loop("block", "ok"),
     block |-> CallOr("ipmi_mc_setsysinfo", "failed", "blocks"),
     failed |-> Loop("block", "err")]

ipmi_lcd_set_text ==
    [start |-> CallOr("ipmi_mc_getsysinfo", "err", "lines"),
     lines |-> Branch({"err", "set"}),
     set   |-> Call("ipmi_lcd_set_single_line_text", "ok")]

ipmi_lcd_configure_wh ==
    [start |-> Branch({"text", "mode"}),
     text  |-> Call("ipmi_lcd_set_text", "mode"),
     mode  |-> Call("ipmi_lcd_set_configure_command_wh", "ok")]

ipmi_lcd_configure ==
    [start |-> Branch({"text", "mode"}),
     text  |-> Call("ipmi_lcd_set_text", "mode"),
     mode  |-> Call("ipmi_lcd_set_configure_command", "ok")]

ipmi_delloem_lcd_main ==
    [start |-> Branch({"ok", "err", "check"}),
     check |-> Do("CheckLCDSupport", "idrac"),
     idrac |-> Do("ipmi_idracvalidator_command", "which"),
     which |-> Branch({"err", "ok", "infoWh", "info", "status", "setWh", "set", "kvm", "lock"}),
     infoWh |-> Call("ipmi_lcd_get_info_wh", "ok"),
     info  |-> Call("ipmi_lcd_get_info", "ok"),
     status |-> Call("ipmi_lcd_get_status", "ok"),
     setWh |-> Call("ipmi_lcd_configure_wh", "ok"),
     set   |-> Call("ipmi_lcd_configure", "ok"),
     kvm   |-> Call("ipmi_lcd_set_kvm", "ok"),
     lock  |-> Call("ipmi_lcd_set_lock", "ok")]

-----------------------------------------------------------------------------
(* mac *)
ipmi_macinfo_drac_idrac_virtual_mac ==
    [start |-> Branch({"ok", "get"}), get |-> Get("VirtualMac", "any"),
     any   |-> Branch({"ok", "err"})]

ipmi_macinfo_drac_idrac_mac ==
    [start |-> Do("ipmi_macinfo_drac_idrac_virtual_mac", "which"),
     which |-> Branch({"ok", "get"}),
     get   |-> Get("LanParam", "ok")]

ipmi_macinfo_10g ==
    [start |-> Get("DellMac", "drac"), drac |-> Do("ipmi_macinfo_drac_idrac_mac", "ok")]

ipmi_macinfo_11g ==
    [start |-> Get("DellMac", "which"),
     which |-> Branch({"nics", "drac"}),
     nics  |-> Loop("nic", "drac"),
     nic   |-> Get("DellMac", "nics"),
     drac  |-> Do("ipmi_macinfo_drac_idrac_mac", "ok")]

ipmi_macinfo ==
    [start |-> Branch({"err", "old", "new"}),
     old   |-> Call("ipmi_macinfo_10g", "ok"),
     new   |-> Call("ipmi_macinfo_11g", "ok")]

ipmi_delloem_mac_main ==
    [start |-> Branch({"ok", "idrac"}),
     idrac |-> Do("ipmi_idracvalidator_command", "which"),
     which |-> Branch({"ok", "err", "info"}),
     info  |-> Call("ipmi_macinfo", "ok")]

-----------------------------------------------------------------------------
(* lan *)
IsLANSupported         == Parses
get_nic_selection_mode == Parses

(* The selection is read, for the failover that is there, and the arguments *)
(* are parsed into the new one.                                             *)
get_nic_selection_mode_12g ==
    [start |-> Get("GetNicSelection", "args"), args |-> Branch({"ok", "err"})]

ipmi_lan_set_nic_selection_12g == Asks(Put("NicSelection", "ok"))
ipmi_lan_set_nic_selection     == Asks(Put("NicSelection", "ok"))
ipmi_lan_get_nic_selection ==
    [start |-> Get("GetNicSelection", "known"), known |-> Branch({"ok", "err"})]
ipmi_lan_get_active_nic ==
    [start |-> Get("ActiveNic", "link"), link |-> Get("ActiveNic", "ok")]

(* 0 whether the selection was set or not.                                  *)
ipmi_delloem_lan_main ==
    [start |-> Branch({"ok", "idrac"}),
     idrac |-> Do("ipmi_idracvalidator_command", "supported"),
     supported |-> CallOr("IsLANSupported", "err", "which"),
     which |-> Branch({"err", "mode12", "mode", "get", "active"}),
     mode12 |-> CallOr("get_nic_selection_mode_12g", "err", "set12"),
     set12 |-> Do("ipmi_lan_set_nic_selection_12g", "ok"),
     mode  |-> CallOr("get_nic_selection_mode", "err", "set"),
     set   |-> Do("ipmi_lan_set_nic_selection", "ok"),
     get   |-> Call("ipmi_lan_get_nic_selection", "ok"),
     active |-> Call("ipmi_lan_get_active_nic", "ok")]

-----------------------------------------------------------------------------
(* powermonitor *)
ipmi_get_sensor_reading ==
    [start |-> GetOr("GetSensorReading", "pos", "pos", "valid"), valid |-> Branch({"ok", "pos"})]

ipmi_get_power_capstatus_command == Asks(Get("GetPowerCapStatus", "ok"))

ipmi_set_power_capstatus_command ==
    [start |-> CallBy("ipmi_get_power_capstatus_command", "err", "settable", "settable"),
     settable |-> Branch({"err", "set"}),
     set   |-> Put("PowerCapStatus", "ok")]

ipmi_powermgmt ==
    [start |-> Get("SelTime", "info"), info |-> Get("PowerMonitor", "ok")]
ipmi_powermgmt_clear               == Asks(Put("ClearPowerMonitor", "ok"))
ipmi_get_power_headroom_command    == Asks(Get("PowerHeadroom", "ok"))
ipmi_get_instan_power_consmpt_data == Asks(Get("PowerConsumption", "ok"))

(* The reading itself is printed whether it came or not.                    *)
ipmi_get_power_consumption_data ==
    [start   |-> CallOr("ipmi_sdr_find_sdr_byid", "err", "reading"),
     reading |-> Do("ipmi_get_sensor_reading", "limits"),
     limits  |-> CallOr("ipmi_sdr_get_sensor_thresholds", "err", "ok")]

ipmi_print_get_power_consmpt_data ==
    [start |-> CallBy("ipmi_get_power_consumption_data", "err", "now", "now"),
     now   |-> CallBy("ipmi_get_instan_power_consmpt_data", "err", "room", "room"),
     room  |-> Call("ipmi_get_power_headroom_command", "ok")]

ipmi_print_power_consmpt_history ==
    [start |-> CallBy("ipmi_get_avgpower_consmpt_history", "err", "peak", "peak"),
     peak  |-> CallBy("ipmi_get_peakpower_consmpt_history", "err", "min", "min"),
     min   |-> Call("ipmi_get_minpower_consmpt_history", "ok")]

ipmi_print_power_cap == Asks(Call("ipmi_get_power_cap", "ok"))

ipmi_set_power_cap ==
    [start |-> CallBy("ipmi_get_power_capstatus_command", "err", "settable", "settable"),
     settable |-> Branch({"err", "read"}),
     read  |-> CallOr("ipmi_mc_getsysinfo", "err", "range"),
     range |-> Branch({"err", "set"}),
     set   |-> CallOr("ipmi_mc_setsysinfo", "err", "ok")]

(* Switching the cap on or off returns 0 whatever came of it.               *)
ipmi_delloem_powermonitor_main ==
    [start |-> Branch({"ok", "idrac"}),
     idrac |-> Do("ipmi_idracvalidator_command", "which"),
     which |-> Branch({"err", "show", "clear", "now", "history", "cap", "setCap", "switch"}),
     show  |-> Call("ipmi_powermgmt", "ok"),
     clear |-> Call("ipmi_powermgmt_clear", "ok"),
     now   |-> Call("ipmi_print_get_power_consmpt_data", "ok"),
     history |-> Call("ipmi_print_power_consmpt_history", "ok"),
     cap   |-> Call("ipmi_print_power_cap", "ok"),
     setCap |-> Call("ipmi_set_power_cap", "ok"),
     switch |-> Do("ipmi_set_power_capstatus_command", "ok")]

-----------------------------------------------------------------------------
(* vFlash and setled *)
ipmi_get_sd_card_info ==
    [start |-> Get("SdCard", "present"), present |-> Branch({"ok", "err"})]

ipmi_delloem_vFlash_process ==
    [start |-> Branch({"ok", "err", "idrac"}),
     idrac |-> Do("ipmi_idracvalidator_command", "which"),
     which |-> Branch({"err", "info"}),
     info  |-> Call("ipmi_get_sd_card_info", "ok")]

ipmi_delloem_vFlash_main == Asks(Call("ipmi_delloem_vFlash_process", "ok"))

CheckSetLEDSupport == Asks(GetOr("SesCapability", "ok", "ok", "ok"))
ipmi_getdrivemap   == [start |-> Get("DriveMap", "known"), known |-> Branch({"ok", "err"})]
ipmi_setled_state  == Asks(Put("DriveLed", "ok"))

ipmi_delloem_setled_main ==
    [start |-> Branch({"ok", "err", "check"}),
     check |-> Do("CheckSetLEDSupport", "which"),
     which |-> Branch({"err", "domain", "map"}),
     domain |-> Do("ipmi_getdrivemap", "map"),
     map   |-> CallOr("ipmi_getdrivemap", "err", "set"),
     set   |-> Call("ipmi_setled_state", "ok")]

ipmi_delloem_main ==
    Dispatch({"ipmi_delloem_lcd_main", "ipmi_delloem_mac_main", "ipmi_delloem_lan_main",
              "ipmi_delloem_setled_main", "ipmi_delloem_powermonitor_main",
              "ipmi_delloem_vFlash_main"})

(* The functions by name. *)
DellCode ==
    [ipmi_lcd_get_platform_model_name |-> ipmi_lcd_get_platform_model_name,
     ipmi_lcd_get_single_line_text |-> ipmi_lcd_get_single_line_text,
     ipmi_idracvalidator_command |-> ipmi_idracvalidator_command,
     ipmi_lcd_get_configure_command_wh |-> ipmi_lcd_get_configure_command_wh,
     ipmi_lcd_get_configure_command |-> ipmi_lcd_get_configure_command,
     ipmi_lcd_get_status_val |-> ipmi_lcd_get_status_val,
     ipmi_get_avgpower_consmpt_history |-> ipmi_get_avgpower_consmpt_history,
     ipmi_get_peakpower_consmpt_history |-> ipmi_get_peakpower_consmpt_history,
     ipmi_get_minpower_consmpt_history |-> ipmi_get_minpower_consmpt_history,
     ipmi_get_power_cap |-> ipmi_get_power_cap, CheckLCDSupport |-> CheckLCDSupport,
     ipmi_lcd_set_configure_command |-> ipmi_lcd_set_configure_command,
     ipmi_lcd_set_configure_command_wh |-> ipmi_lcd_set_configure_command_wh,
     ipmi_lcd_get_info_wh |-> ipmi_lcd_get_info_wh,
     ipmi_lcd_get_info |-> ipmi_lcd_get_info,
     ipmi_lcd_get_status |-> ipmi_lcd_get_status, ipmi_lcd_set_kvm |-> ipmi_lcd_set_kvm,
     ipmi_lcd_set_lock |-> ipmi_lcd_set_lock,
     ipmi_lcd_set_single_line_text |-> ipmi_lcd_set_single_line_text,
     ipmi_lcd_set_text |-> ipmi_lcd_set_text,
     ipmi_lcd_configure_wh |-> ipmi_lcd_configure_wh,
     ipmi_lcd_configure |-> ipmi_lcd_configure,
     ipmi_delloem_lcd_main |-> ipmi_delloem_lcd_main,
     ipmi_macinfo_drac_idrac_virtual_mac |-> ipmi_macinfo_drac_idrac_virtual_mac,
     ipmi_macinfo_drac_idrac_mac |-> ipmi_macinfo_drac_idrac_mac,
     ipmi_macinfo_10g |-> ipmi_macinfo_10g, ipmi_macinfo_11g |-> ipmi_macinfo_11g,
     ipmi_macinfo |-> ipmi_macinfo, ipmi_delloem_mac_main |-> ipmi_delloem_mac_main,
     IsLANSupported |-> IsLANSupported,
     get_nic_selection_mode |-> get_nic_selection_mode,
     get_nic_selection_mode_12g |-> get_nic_selection_mode_12g,
     ipmi_lan_set_nic_selection_12g |-> ipmi_lan_set_nic_selection_12g,
     ipmi_lan_set_nic_selection |-> ipmi_lan_set_nic_selection,
     ipmi_lan_get_nic_selection |-> ipmi_lan_get_nic_selection,
     ipmi_lan_get_active_nic |-> ipmi_lan_get_active_nic,
     ipmi_delloem_lan_main |-> ipmi_delloem_lan_main,
     ipmi_get_sensor_reading |-> ipmi_get_sensor_reading,
     ipmi_get_power_capstatus_command |-> ipmi_get_power_capstatus_command,
     ipmi_set_power_capstatus_command |-> ipmi_set_power_capstatus_command,
     ipmi_powermgmt |-> ipmi_powermgmt, ipmi_powermgmt_clear |-> ipmi_powermgmt_clear,
     ipmi_get_power_headroom_command |-> ipmi_get_power_headroom_command,
     ipmi_get_instan_power_consmpt_data |-> ipmi_get_instan_power_consmpt_data,
     ipmi_get_power_consumption_data |-> ipmi_get_power_consumption_data,
     ipmi_print_get_power_consmpt_data |-> ipmi_print_get_power_consmpt_data,
     ipmi_print_power_consmpt_history |-> ipmi_print_power_consmpt_history,
     ipmi_print_power_cap |-> ipmi_print_power_cap,
     ipmi_set_power_cap |-> ipmi_set_power_cap,
     ipmi_delloem_powermonitor_main |-> ipmi_delloem_powermonitor_main,
     ipmi_get_sd_card_info |-> ipmi_get_sd_card_info,
     ipmi_delloem_vFlash_process |-> ipmi_delloem_vFlash_process,
     ipmi_delloem_vFlash_main |-> ipmi_delloem_vFlash_main,
     CheckSetLEDSupport |-> CheckSetLEDSupport, ipmi_getdrivemap |-> ipmi_getdrivemap,
     ipmi_setled_state |-> ipmi_setled_state,
     ipmi_delloem_setled_main |-> ipmi_delloem_setled_main,
     ipmi_delloem_main |-> ipmi_delloem_main]

=============================================================================
