---------------------------- MODULE SdrCommands ----------------------------
(* The sensor data record commands, src/lib/ipmi_sdr.c and                  *)
(* src/lib/ipmi_sdradd.c.  What becomes of a record when its reservation is *)
(* lost is the subject of module SdrReader.                                 *)
EXTENDS CommandSteps

ipmi_sdr_get_sensor_thresholds   == Bridged("get", "GetThresholds")
ipmi_sdr_get_sensor_hysteresis   == Bridged("get", "GetHysteresis")
ipmi_sdr_get_sensor_reading_ipmb == Bridged("get", "GetReading")
ipmi_sdr_get_sensor_event_status == Bridged("get", "GetEventStatus")
ipmi_sdr_get_sensor_event_enable == Bridged("get", "GetEventEnable")

(* Factors of a non-linear sensor are asked for with every reading.         *)
sdr_sensor_has_analog_reading ==
    [start   |-> Branch({"ok", "err", "factors"}),
     factors |-> CallOr("ipmi_sensor_get_sensor_reading_factors", "err", "ok")]

(* "pos": a reading that is not valid.                                      *)
ipmi_sdr_read_sensor_value ==
    [start  |-> Branch({"err", "get"}),
     get    |-> CallOr("ipmi_sdr_get_sensor_reading_ipmb", "pos", "data"),
     data   |-> Branch({"pos", "analog"}),
     analog |-> CallOr("sdr_sensor_has_analog_reading", "valid", "valid"),
     valid  |-> Branch({"ok", "pos"})]

ipmi_sdr_print_sensor_event_status ==
    Asks(CallOr("ipmi_sdr_get_sensor_event_status", "err", "ok"))

ipmi_sdr_print_sensor_event_enable ==
    Asks(CallOr("ipmi_sdr_get_sensor_event_enable", "err", "ok"))

(* A sensor without a valid reading is printed all the same.                *)
ipmi_sdr_print_sensor_fc ==
    [start   |-> CallBy("ipmi_sdr_read_sensor_value", "err", "verbose", "verbose"),
     verbose |-> Branch({"ok", "status"}),
     status  |-> Do("ipmi_sdr_print_sensor_event_status", "enable"),
     enable  |-> Do("ipmi_sdr_print_sensor_event_enable", "ok")]

(* By the type of the record; only sensors need a request.                  *)
ipmi_sdr_print_rawentry ==
    [start |-> Branch({"ok", "err", "fc"}), fc |-> Call("ipmi_sdr_print_sensor_fc", "ok")]

ipmi_sdr_print_listentry == ipmi_sdr_print_rawentry

(* Reads the name through the pointer to the record, if it is of a type     *)
(* that has one.                                                            *)
ipmi_sdr_print_name_from_rawentry == Parses

ipmi_sdr_get_reservation == Asks(Get("ReserveSdr", "ok"))

(* Five tries; a lost reservation is taken anew.                            *)
ipmi_sdr_get_header ==
    [start   |-> Loop("get", "err"),
     get     |-> GetOr("GetSdr", "start", "code", "data"),
     code    |-> Branch({"start", "reserve"}),
     reserve |-> CallOr("ipmi_sdr_get_reservation", "err", "start"),
     data    |-> Branch({"ok", "err"})]

(* "err": the end of the repository as well.                                *)
ipmi_sdr_get_next_header == Checked(CallOr("ipmi_sdr_get_header", "err", "ok"))

(* Partial reads; without a response, or with 0xca, of fewer bytes.  After  *)
(* a cancelled reservation there is a new one as often as it takes.         *)
ipmi_sdr_get_record ==
    [start   |-> Loop("get", "check"),
     get     |-> GetOr("GetSdr", "fewer", "code", "size"),
     code    |-> Branch({"fewer", "reserve", "err"}),
     fewer   |-> Branch({"start", "err"}),
     reserve |-> CallOr("ipmi_sdr_get_reservation", "err", "get"),
     size    |-> Branch({"start", "err"}),
     check   |-> Branch({"ok", "err"})]

(* An iterator for the repository, or for the device SDRs of a controller   *)
(* that has no repository.  An empty repository is built from the device    *)
(* SDRs first.                                                              *)
ipmi_sdr_start(builtin) ==
    [start   |-> Get("GetDeviceId", "which"),
     which   |-> IF builtin THEN Branch({"device"}) ELSE Branch({"device", "repo", "err"}),
     device  |-> Get("GetDeviceSdrInfo", "reserve"),
     repo    |-> Get("GetSdrInfo", "count"),
     count   |-> Branch({"reserve", "build"}),
     build   |-> CallOr("ipmi_sdr_add_nosat", "err", "reserve"),
     reserve |-> CallOr("ipmi_sdr_get_reservation", "err", "ok")]

(* sdr_list_itr and the list of the records read so far outlive the call:   *)
(* a lookup goes on where the last one stopped.  A record that cannot be    *)
(* read is passed over, and never read again.                               *)
Lookup(found, notFound) ==
    [start  |-> Noted("sdr_list_itr", "cached", "open"),
     open   |-> CallOr("ipmi_sdr_start", "err", "opened"),
     opened |-> Note("sdr_list_itr", "walk"),
     cached |-> Branch({"walk", found}),
     walk   |-> Loop("header", notFound),
     header |-> CallOr("ipmi_sdr_get_next_header", notFound, "record"),
     record |-> CallOr("ipmi_sdr_get_record", "walk", "match"),
     match  |-> Branch({"walk", found})]

ipmi_sdr_find_sdr_bynumtype    == Lookup("ok", "err")
ipmi_sdr_find_sdr_byid         == Lookup("ok", "err")
ipmi_sdr_find_sdr_bysensortype == Lookup("walk", "ok")
ipmi_sdr_find_sdr_byentity     == Lookup("walk", "ok")
ipmi_sdr_find_sdr_bytype       == Lookup("walk", "ok")
ipmi_sdr_list_cache            == Lookup("walk", "ok")

ipmi_sdr_list_cache_fromfile == [start |-> Branch({"err", "end"}), end |-> Note("sdr_list_itr", "rc"),
                                 rc |-> Branch({"ok", "err"})]

(* What was read before is printed from the list.  A record that cannot be  *)
(* read or printed gives -1 in the end; a header that cannot be read ends   *)
(* the list as the last record does.                                        *)
ipmi_sdr_print_sdr ==
    [start  |-> Noted("sdr_list_itr", "cached", "open"),
     open   |-> CallOr("ipmi_sdr_start", "err", "opened"),
     opened |-> Note("sdr_list_itr", "walk"),
     cached |-> Loop("entry", "walk"),
     entry  |-> CallBy("ipmi_sdr_print_listentry", "failed", "cached", "cached"),
     failed |-> Note("unread", "cached"),
     walk   |-> Loop("header", "done"),
     header |-> CallOr("ipmi_sdr_get_next_header", "done", "record"),
     record |-> CallOr("ipmi_sdr_get_record", "unread", "print"),
     unread |-> Note("unread", "walk"),
     print  |-> Branch({"walk", "show"}),
     show   |-> CallBy("ipmi_sdr_print_rawentry", "unread", "walk", "walk"),
     done   |-> Noted("unread", "err", "ok")]

ipmi_sdr_get_info == Asks(Get("GetSdrInfo", "ok"))

ipmi_sdr_print_info == Asks(CallOr("ipmi_sdr_get_info", "err", "ok"))

(* One record that cannot be read ends it; the end of the headers, for      *)
(* whatever reason, does not.                                               *)
ipmi_sdr_dump_bin ==
    [start  |-> CallOr("ipmi_sdr_start", "err", "walk"),
     walk   |-> Loop("header", "file"),
     header |-> CallOr("ipmi_sdr_get_next_header", "file", "record"),
     record |-> CallOr("ipmi_sdr_get_record", "err", "walk"),
     file   |-> Branch({"ok", "err"})]

(* The result of the last entry is the result.                              *)
PrintList(find) ==
    [start |-> Branch({"ok", "err", "find"}),
     find  |-> Do(find, "next"),
     next  |-> Loop("print", "ok"),
     print |-> CallBy("ipmi_sdr_print_listentry", "bad", "next", "next"),
     bad   |-> Loop("print", "err")]

ipmi_sdr_print_type   == PrintList("ipmi_sdr_find_sdr_bysensortype")
ipmi_sdr_print_entity == PrintList("ipmi_sdr_find_sdr_byentity")

(* An id that is not found is reported, but is no error.                    *)
ipmi_sdr_print_entry_byid ==
    [start |-> Branch({"err", "next"}),
     next  |-> Loop("find", "done"),
     find  |-> CallOr("ipmi_sdr_find_sdr_byid", "next", "print"),
     print |-> CallBy("ipmi_sdr_print_listentry", "bad", "next", "next"),
     bad   |-> Note("unread", "next"),
     done  |-> Noted("unread", "err", "ok")]

partial_send == [start |-> Put("AddSdr", "size"), size |-> Branch({"ok", "err"})]

(* A record without data is no error.  The header goes first, then the rest *)
(* in parts.                                                                *)
ipmi_sdr_add_record ==
    [start   |-> Branch({"ok", "reserve"}),
     reserve |-> CallOr("ipmi_sdr_get_reservation", "err", "header"),
     header  |-> CallOr("partial_send", "err", "part"),
     part    |-> Loop("send", "ok"),
     send    |-> CallOr("partial_send", "err", "part")]

(* Polls until the erasure is complete.                                     *)
ipmi_sdr_repo_clear ==
    [start |-> CallOr("ipmi_sdr_get_reservation", "err", "try"),
     try   |-> Loop("clear", "err"),
     clear |-> Put("ClearSdr", "state"),
     state |-> Branch({"ok", "try"})]

(* The name of a record is printed whether the record could be read or not. *)
sdrr_get_records ==
    [start  |-> Loop("header", "ok"),
     header |-> CallOr("ipmi_sdr_get_next_header", "ok", "record"),
     record |-> CallOr("ipmi_sdr_get_record", "name", "start"),
     name   |-> Branch({"crash", "start"})]

(* A controller whose records cannot be opened has none.                    *)
sdr_copy_to_sdrr(sdr_start, aims) ==
    [start |-> IF aims THEN Aim("open") ELSE Branch({"open"}),
     open  |-> CallOr(sdr_start, "ok", "read"),
     read  |-> Do("sdrr_get_records", "back"),
     back  |-> IF aims THEN BackFrom("next") ELSE Branch({"next"}),
     next  |-> Loop("add", "ok"),
     add   |-> CallOr("ipmi_sdr_add_record", "bad", "next"),
     bad   |-> Loop("again", "err"),
     again |-> Do("ipmi_sdr_add_record", "bad")]

(* The repository is cleared, and filled from the device SDRs of the        *)
(* controller and, if asked, of those in the slots.                         *)
ipmi_sdr_add_from_sensors(slots) ==
    [start |-> CallOr("ipmi_sdr_repo_clear", "err", "own"),
     own   |-> CallBy("sdr_copy_own", "failed", "failed", "slot"),
     slot  |-> IF slots THEN Loop("copy", "ok") ELSE Branch({"ok"}),
     copy  |-> CallBy("sdr_copy_slot", "failed", "slot", "slot"),
     failed |-> IF slots THEN Loop("more", "err") ELSE Branch({"err"}),
     more  |-> Do("sdr_copy_slot", "failed")]

(* The first slot that fails ends it.                                       *)
ipmi_sdr_add_from_list ==
    [start |-> Branch({"err", "clear"}),
     clear |-> CallOr("ipmi_sdr_repo_clear", "err", "own"),
     own   |-> Call("sdr_copy_own", "slot"),
     slot  |-> Loop("copy", "ok"),
     copy  |-> CallOr("sdr_copy_slot", "err", "slot")]

ipmi_sdr_read_records == Parses

(* The file is read before the repository is cleared.                       *)
ipmi_sdr_add_from_file ==
    [start |-> Call("ipmi_sdr_read_records", "clear"),
     clear |-> CallOr("ipmi_sdr_repo_clear", "err", "next"),
     next  |-> Loop("add", "ok"),
     add   |-> CallOr("ipmi_sdr_add_record", "bad", "next"),
     bad   |-> Loop("again", "err"),
     again |-> Do("ipmi_sdr_add_record", "bad")]

ipmi_sdr_main ==
    Dispatch({"ipmi_sdr_print_sdr", "ipmi_sdr_print_type", "ipmi_sdr_print_entity",
              "ipmi_sdr_print_info", "ipmi_sdr_print_entry_byid", "ipmi_sdr_dump_bin",
              "ipmi_sdr_add_from_sensors", "ipmi_sdr_add_nosat", "ipmi_sdr_add_from_file",
              "ipmi_sdr_add_from_list"})


(* The functions by name. *)
SdrCode ==
    [ipmi_sdr_get_sensor_thresholds |-> ipmi_sdr_get_sensor_thresholds,
     ipmi_sdr_get_sensor_hysteresis |-> ipmi_sdr_get_sensor_hysteresis,
     ipmi_sdr_get_sensor_reading_ipmb |-> ipmi_sdr_get_sensor_reading_ipmb,
     ipmi_sdr_get_sensor_event_status |-> ipmi_sdr_get_sensor_event_status,
     ipmi_sdr_get_sensor_event_enable |-> ipmi_sdr_get_sensor_event_enable,
     sdr_sensor_has_analog_reading |-> sdr_sensor_has_analog_reading,
     ipmi_sdr_read_sensor_value |-> ipmi_sdr_read_sensor_value,
     ipmi_sdr_print_sensor_event_status |-> ipmi_sdr_print_sensor_event_status,
     ipmi_sdr_print_sensor_event_enable |-> ipmi_sdr_print_sensor_event_enable,
     ipmi_sdr_print_sensor_fc |-> ipmi_sdr_print_sensor_fc,
     ipmi_sdr_print_rawentry |-> ipmi_sdr_print_rawentry,
     ipmi_sdr_print_listentry |-> ipmi_sdr_print_listentry,
     ipmi_sdr_print_name_from_rawentry |-> ipmi_sdr_print_name_from_rawentry,
     ipmi_sdr_get_reservation |-> ipmi_sdr_get_reservation,
     ipmi_sdr_get_header |-> ipmi_sdr_get_header,
     ipmi_sdr_get_next_header |-> ipmi_sdr_get_next_header,
     ipmi_sdr_get_record |-> ipmi_sdr_get_record,
     ipmi_sdr_find_sdr_bynumtype |-> ipmi_sdr_find_sdr_bynumtype,
     ipmi_sdr_find_sdr_byid |-> ipmi_sdr_find_sdr_byid,
     ipmi_sdr_find_sdr_bysensortype |-> ipmi_sdr_find_sdr_bysensortype,
     ipmi_sdr_find_sdr_byentity |-> ipmi_sdr_find_sdr_byentity,
     ipmi_sdr_find_sdr_bytype |-> ipmi_sdr_find_sdr_bytype,
     ipmi_sdr_list_cache |-> ipmi_sdr_list_cache,
     ipmi_sdr_list_cache_fromfile |-> ipmi_sdr_list_cache_fromfile,
     ipmi_sdr_print_sdr |-> ipmi_sdr_print_sdr, ipmi_sdr_get_info |-> ipmi_sdr_get_info,
     ipmi_sdr_print_info |-> ipmi_sdr_print_info,
     ipmi_sdr_dump_bin |-> ipmi_sdr_dump_bin,
     ipmi_sdr_print_type |-> ipmi_sdr_print_type,
     ipmi_sdr_print_entity |-> ipmi_sdr_print_entity,
     ipmi_sdr_print_entry_byid |-> ipmi_sdr_print_entry_byid,
     partial_send |-> partial_send, ipmi_sdr_add_record |-> ipmi_sdr_add_record,
     ipmi_sdr_repo_clear |-> ipmi_sdr_repo_clear, sdrr_get_records |-> sdrr_get_records,
     ipmi_sdr_add_from_list |-> ipmi_sdr_add_from_list,
     ipmi_sdr_read_records |-> ipmi_sdr_read_records,
     ipmi_sdr_add_from_file |-> ipmi_sdr_add_from_file, ipmi_sdr_main |-> ipmi_sdr_main,
     ipmi_sdr_start |-> ipmi_sdr_start(FALSE),
     ipmi_sdr_start_builtin |-> ipmi_sdr_start(TRUE),
     ipmi_sdr_add_nosat |-> ipmi_sdr_add_from_sensors(FALSE),
     ipmi_sdr_add_from_sensors |-> ipmi_sdr_add_from_sensors(TRUE),
     sdr_copy_own |-> sdr_copy_to_sdrr("ipmi_sdr_start_builtin", FALSE),
     sdr_copy_slot |-> sdr_copy_to_sdrr("ipmi_sdr_start", TRUE)]

-----------------------------------------------------------------------------
(* The sensor commands, src/lib/ipmi_sensor.c.                              *)

(* Sent to the target, not to the owner of the sensor.                      *)
ipmi_sensor_get_sensor_reading_factors ==
    [start |-> Branch({"err", "get"}),
     get   |-> Get("GetFactors", "size"),
     size  |-> Branch({"ok", "err"})]

ipmi_sensor_set_sensor_thresholds == Bridged("put", "SetThreshold")

ipmi_sensor_print_fc_discrete ==
    [start   |-> CallBy("ipmi_sdr_read_sensor_value", "err", "verbose2", "verbose"),
     verbose  |-> Branch({"ok", "status"}),
     status   |-> Do("ipmi_sdr_print_sensor_event_status", "ok"),
     verbose2 |-> Branch({"err", "status2"}),
     status2  |-> Do("ipmi_sdr_print_sensor_event_status", "err")]

(* Without a valid reading -1, whatever was printed.                        *)
ipmi_sensor_print_fc_threshold ==
    [start  |-> CallBy("ipmi_sdr_read_sensor_value", "err", "thresh2", "thresh"),
     thresh  |-> Do("ipmi_sdr_get_sensor_thresholds", "ok"),
     thresh2 |-> Do("ipmi_sdr_get_sensor_thresholds", "err")]

ipmi_sensor_print_fc ==
    [start     |-> Branch({"threshold", "discrete"}),
     threshold |-> Call("ipmi_sensor_print_fc_threshold", "ok"),
     discrete  |-> Call("ipmi_sensor_print_fc_discrete", "ok")]

(* Nothing that fails on the way shows in the result.                       *)
ipmi_sensor_list ==
    [start  |-> CallOr("ipmi_sdr_start", "err", "walk"),
     walk   |-> Loop("header", "ok"),
     header |-> CallOr("ipmi_sdr_get_next_header", "ok", "record"),
     record |-> CallOr("ipmi_sdr_get_record", "walk", "print"),
     print  |-> Branch({"walk", "sensor"}),
     sensor |-> Do("ipmi_sensor_print_fc", "walk")]

__ipmi_sensor_set_threshold ==
    Asks(CallOr("ipmi_sensor_set_sensor_thresholds", "err", "ok"))

(* All upper or all lower thresholds are written whatever becomes of the    *)
(* others, without a look at the ones that are there; a single one must     *)
(* keep its place between its neighbours.                                   *)
ipmi_sensor_set_threshold ==
    [start  |-> Branch({"ok", "err", "find"}),
     find   |-> CallOr("ipmi_sdr_find_sdr_byid", "err", "kind"),
     kind   |-> Branch({"err", "three", "old"}),
     three  |-> CallOr("__ipmi_sensor_set_threshold", "bad1", "good1"),
     good1  |-> CallOr("__ipmi_sensor_set_threshold", "bad2", "good2"),
     good2  |-> CallOr("__ipmi_sensor_set_threshold", "err", "ok"),
     bad1   |-> Do("__ipmi_sensor_set_threshold", "bad2"),
     bad2   |-> Do("__ipmi_sensor_set_threshold", "err"),
     old    |-> CallOr("ipmi_sdr_get_sensor_thresholds", "err", "order"),
     order  |-> Branch({"err", "one"}),
     one    |-> Call("__ipmi_sensor_set_threshold", "ok")]

(* A sensor that gives no reading is passed over without an error.          *)
ipmi_sensor_get_reading ==
    [start |-> Branch({"err", "next"}),
     next  |-> Loop("find", "done"),
     find  |-> CallOr("ipmi_sdr_find_sdr_byid", "bad", "type"),
     bad   |-> Note("unread", "next"),
     type  |-> Branch({"next", "read"}),
     read  |-> CallBy("ipmi_sdr_read_sensor_value", "bad", "next", "next"),
     done  |-> Noted("unread", "err", "ok")]

ipmi_sensor_get ==
    [start |-> Branch({"ok", "err", "next"}),
     next  |-> Loop("find", "done"),
     find  |-> CallOr("ipmi_sdr_find_sdr_byid", "bad", "type"),
     bad   |-> Note("unread", "next"),
     type  |-> Branch({"sensor", "other"}),
     sensor |-> CallOr("ipmi_sensor_print_fc", "bad", "next"),
     other |-> CallBy("ipmi_sdr_print_listentry", "bad", "next", "next"),
     done  |-> Noted("unread", "err", "ok")]

ipmi_sensor_main ==
    Dispatch({"ipmi_sensor_list", "ipmi_sensor_set_threshold", "ipmi_sensor_get",
              "ipmi_sensor_get_reading"})

(* The functions by name. *)
SensorCode ==
    [ipmi_sensor_get_sensor_reading_factors |-> ipmi_sensor_get_sensor_reading_factors,
     ipmi_sensor_set_sensor_thresholds |-> ipmi_sensor_set_sensor_thresholds,
     ipmi_sensor_print_fc_discrete |-> ipmi_sensor_print_fc_discrete,
     ipmi_sensor_print_fc_threshold |-> ipmi_sensor_print_fc_threshold,
     ipmi_sensor_print_fc |-> ipmi_sensor_print_fc,
     ipmi_sensor_list |-> ipmi_sensor_list,
     __ipmi_sensor_set_threshold |-> __ipmi_sensor_set_threshold,
     ipmi_sensor_set_threshold |-> ipmi_sensor_set_threshold,
     ipmi_sensor_get_reading |-> ipmi_sensor_get_reading,
     ipmi_sensor_get |-> ipmi_sensor_get, ipmi_sensor_main |-> ipmi_sensor_main]

=============================================================================
