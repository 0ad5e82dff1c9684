---------------------------- MODULE FruCommands ----------------------------
(* The FRU inventory commands, src/lib/ipmi_fru.c, and the SPD data of      *)
(* memory modules, src/lib/dimm_spd.c.                                      *)
EXTENDS CommandSteps

(* The areas of the FRU; without them it is written as one area.            *)
build_fru_bloc ==
    [start  |-> Get("ReadFru", "header"),
     header |-> Branch({"err", "ok", "multi"}),
     multi  |-> Loop("record", "ok"),
     record |-> CallBy("read_fru_area", "ok", "check", "check"),
     check  |-> Branch({"multi", "ok"})]

(* rc=1 on success: 0 is a failure.  A protected area is passed over, a     *)
(* length the BMC does not take is cut down while it is long enough.        *)
write_fru_area ==
    [start |-> Branch({"err", "areas"}),
     areas |-> Do("build_fru_bloc", "size"),
     size  |-> Branch({"err", "piece"}),
     piece |-> Loop("write", "pos"),
     write |-> PutOr("FruData", "ok", "code", "piece"),
     code  |-> Branch({"piece", "ok"})]

(* Too long a read is cut down; one that returns nothing is taken for the   *)
(* end of the data.                                                         *)
FruRead ==
    [start |-> Branch({"err", "piece"}),
     piece |-> Loop("read", "ok"),
     read  |-> GetOr("ReadFru", "err", "code", "size"),
     code  |-> Branch({"piece", "err"}),
     size  |-> Branch({"piece", "ok", "err"})]

read_fru_area         == FruRead
read_fru_area_section == FruRead

(* The area's length is read, and then the area.                            *)
PrintArea ==
    [start |-> Do("read_fru_area", "len"),
     len   |-> Branch({"ok", "area"}),
     area  |-> Do("read_fru_area", "ok")]

fru_area_print_chassis == PrintArea
fru_area_print_board   == PrintArea
fru_area_print_product == PrintArea

fru_area_print_multirec ==
    [start  |-> Loop("header", "ok"),
     header |-> CallBy("read_fru_area", "ok", "data", "data"),
     data   |-> CallBy("read_fru_area", "ok", "start", "start")]

(* They edit a record in memory, from the arguments or what the user types. *)
ipmi_fru_query_new_value == Parses
ipmi_fru_oemkontron_get  == [start |-> Branch({"ok"})]
ipmi_fru_oemkontron_edit == [start |-> Branch({"ok", "pos"})]
ipmi_fru_picmg_ext_edit  ==
    [start |-> Loop("field", "done"),
     field |-> Do("ipmi_fru_query_new_value", "start"),
     done  |-> Branch({"ok", "pos"})]

(* The areas are printed as far as they can be read.                        *)
__ipmi_fru_print ==
    [start   |-> Get("FruInfo", "size"),
     size    |-> Branch({"err", "header"}),
     header  |-> GetOr("ReadFru", "pos", "pos", "version"),
     version |-> Branch({"err", "chassis"}),
     chassis |-> Do("fru_area_print_chassis", "board"),
     board   |-> Do("fru_area_print_board", "product"),
     product |-> Do("fru_area_print_product", "multi"),
     multi   |-> Do("fru_area_print_multirec", "ok")]

(* The FRU of a locator record, at its own controller.                      *)
ipmi_fru_print ==
    [start  |-> Branch({"builtin", "err", "ok", "here", "aim", "spd"}),
     builtin |-> Call("__ipmi_fru_print", "ok"),
     here   |-> Call("__ipmi_fru_print", "ok"),
     aim    |-> Aim("there"),
     there  |-> CallBy("__ipmi_fru_print", "errBack", "posBack", "okBack"),
     errBack |-> Back("err"),
     posBack |-> Back("pos"),
     okBack |-> Back("ok"),
     spd    |-> Call("ipmi_spd_print_fru", "ok")]

(* The result is that of the last FRU; with none at all it is never set.    *)
ipmi_fru_print_all ==
    [start   |-> Get("GetDeviceId", "has"),
     has     |-> Branch({"builtin", "unset"}),
     unset   |-> Note("rcUnset", "sdr"),
     builtin |-> CallOr("ipmi_fru_print", "failed", "sdr"),
     failed  |-> Note("rcBad", "sdr"),
     sdr     |-> CallOr("ipmi_sdr_start", "err", "walk"),
     walk    |-> Loop("header", "done"),
     header  |-> CallOr("ipmi_sdr_get_next_header", "done", "kind"),
     kind    |-> Branch({"walk", "mc", "fru"}),
     mc      |-> CallOr("ipmi_sdr_get_record", "walk", "other"),
     other   |-> Branch({"walk", "aim"}),
     aim     |-> Aim("there"),
     there   |-> CallOr("__ipmi_fru_print", "backBad", "back"),
     back    |-> Back("good"),
     backBad |-> Back("bad"),
     fru     |-> CallOr("ipmi_sdr_get_record", "walk", "print"),
     print   |-> CallOr("ipmi_fru_print", "bad", "good"),
     bad     |-> Note("rcBad", "set"),
     good    |-> Forget("rcBad", "set"),
     set     |-> Forget("rcUnset", "walk"),
     done    |-> Noted("rcUnset", "any", "rc"),
     rc      |-> Noted("rcBad", "err", "ok"),
     any     |-> Branch({"ok", "err", "pos"})]

(* Nothing is returned: the file may hold what was in the buffer.           *)
ipmi_fru_read_to_bin ==
    [start |-> GetOr("FruInfo", "ok", "ok", "read"),
     read  |-> Do("read_fru_area", "ok")]

(* Nothing is returned.                                                     *)
ipmi_fru_write_from_bin ==
    [start |-> GetOr("FruInfo", "ok", "ok", "file"),
     file  |-> Branch({"ok", "write"}),
     write |-> Do("write_fru_area", "ok")]

ipmi_fru_get_multirec_location_from_fru ==
    [start  |-> Get("FruInfo", "size"),
     size   |-> Branch({"err", "header"}),
     header |-> Get("ReadFru", "version"),
     version |-> Branch({"err", "ok"})]

(* Whether the record was written is not looked at.                         *)
ipmi_fru_edit_multirec ==
    [start |-> CallOr("ipmi_fru_get_multirec_location_from_fru", "err", "info"),
     info  |-> Get("FruInfo", "size"),
     size  |-> Branch({"err", "records"}),
     records |-> Loop("read", "ok"),
     read  |-> CallBy("read_fru_area", "ok", "kind", "kind"),
     kind  |-> Branch({"records", "picmg", "kontron", "ok"}),
     picmg |-> CallOr("ipmi_fru_picmg_ext_edit", "write", "records"),
     kontron |-> CallOr("ipmi_fru_oemkontron_edit", "write", "records"),
     write |-> Do("write_fru_area", "records")]

ipmi_fru_get_multirec ==
    [start |-> CallOr("ipmi_fru_get_multirec_location_from_fru", "err", "info"),
     info  |-> Get("FruInfo", "size"),
     size  |-> Branch({"err", "records"}),
     records |-> Loop("read", "ok"),
     read  |-> CallBy("read_fru_area", "ok", "kind", "kind"),
     kind  |-> Branch({"records", "kontron", "ok"}),
     kontron |-> Do("ipmi_fru_oemkontron_get", "records")]

ipmi_fru_get_multirec_size_from_file == Parses
ipmi_fru_get_adjust_size_from_buffer == Parses
ipmi_fru_get_multirec_from_file      == Parses

(* The test is for 0, which write_fru_area() returns when it failed.        *)
ipmi_fru_upg_ekeying ==
    [start  |-> Branch({"err", "locate"}),
     locate |-> CallOr("ipmi_fru_get_multirec_location_from_fru", "err", "size"),
     size   |-> CallOr("ipmi_fru_get_multirec_size_from_file", "err", "file"),
     file   |-> CallOr("ipmi_fru_get_multirec_from_file", "err", "adjust"),
     adjust |-> CallOr("ipmi_fru_get_adjust_size_from_buffer", "err", "write"),
     write  |-> CallBy("write_fru_area", "err", "err", "ok")]

ipmi_fru_get_internal_use_info ==
    [start  |-> Get("FruInfo", "size"),
     size   |-> Branch({"err", "header"}),
     header |-> GetOr("ReadFru", "pos", "pos", "version"),
     version |-> Branch({"err", "ok"})]

ipmi_fru_info_internal_use == Asks(CallOr("ipmi_fru_get_internal_use_info", "err", "ok"))

ipmi_fru_read_internal_use ==
    [start |-> CallOr("ipmi_fru_get_internal_use_info", "ok", "read"),
     read  |-> CallOr("read_fru_area_section", "ok", "print"),
     print |-> Branch({"ok", "err"})]

(* 0 whatever happened.                                                     *)
ipmi_fru_write_internal_use ==
    [start |-> CallOr("ipmi_fru_get_internal_use_info", "ok", "file"),
     file  |-> Branch({"ok", "write"}),
     write |-> Do("write_fru_area", "ok")]

(* The first read of the section, and the read of the whole FRU that is to  *)
(* be rebuilt, are not looked at; the writes are, for a negative result.    *)
ipmi_fru_set_field_string ==
    [start  |-> Get("FruInfo", "size"),
     size   |-> Branch({"err", "header"}),
     header |-> Get("ReadFru", "version"),
     version |-> Branch({"err", "length"}),
     length |-> Do("read_fru_area", "section"),
     section |-> CallBy("read_fru_area", "err", "field", "field"),
     field  |-> Branch({"err", "write", "rebuild"}),
     write  |-> CallBy("write_fru_area", "err", "pos", "pos"),
     rebuild |-> Call("ipmi_fru_set_field_string_rebuild", "ok")]

ipmi_fru_set_field_string_rebuild ==
    [start |-> Branch({"err", "read"}),
     read  |-> Do("read_fru_area", "field"),
     field |-> Branch({"err", "write"}),
     write |-> CallBy("write_fru_area", "err", "pos", "pos")]

ipmi_fru_main ==
    Dispatch({"ipmi_fru_print_all", "__ipmi_fru_print", "ipmi_fru_read_to_bin",
              "ipmi_fru_write_from_bin", "ipmi_fru_upg_ekeying", "ipmi_fru_info_internal_use",
              "ipmi_fru_read_internal_use", "ipmi_fru_write_internal_use",
              "ipmi_fru_set_field_string", "ipmi_fru_edit_multirec", "ipmi_fru_get_multirec"})

ipmi_spd_print == Parses

ipmi_spd_print_fru ==
    [start |-> Get("FruInfo", "size"),
     size  |-> Branch({"err", "more"}),
     more  |-> Loop("read", "print"),
     read  |-> GetOr("ReadFru", "err", "code", "len"),
     code  |-> Branch({"err", "pos"}),
     len   |-> Branch({"err", "more"}),
     print |-> Call("ipmi_spd_print", "ok")]

(* The functions by name. *)
FruCode ==
    [build_fru_bloc |-> build_fru_bloc, write_fru_area |-> write_fru_area,
     read_fru_area |-> read_fru_area, read_fru_area_section |-> read_fru_area_section,
     fru_area_print_chassis |-> fru_area_print_chassis,
     fru_area_print_board |-> fru_area_print_board,
     fru_area_print_product |-> fru_area_print_product,
     fru_area_print_multirec |-> fru_area_print_multirec,
     ipmi_fru_query_new_value |-> ipmi_fru_query_new_value,
     ipmi_fru_oemkontron_get |-> ipmi_fru_oemkontron_get,
     ipmi_fru_oemkontron_edit |-> ipmi_fru_oemkontron_edit,
     ipmi_fru_picmg_ext_edit |-> ipmi_fru_picmg_ext_edit,
     __ipmi_fru_print |-> __ipmi_fru_print, ipmi_fru_print |-> ipmi_fru_print,
     ipmi_fru_print_all |-> ipmi_fru_print_all,
     ipmi_fru_read_to_bin |-> ipmi_fru_read_to_bin,
     ipmi_fru_write_from_bin |-> ipmi_fru_write_from_bin,
     ipmi_fru_get_multirec_location_from_fru |-> ipmi_fru_get_multirec_location_from_fru,
     ipmi_fru_edit_multirec |-> ipmi_fru_edit_multirec,
     ipmi_fru_get_multirec |-> ipmi_fru_get_multirec,
     ipmi_fru_get_multirec_size_from_file |-> ipmi_fru_get_multirec_size_from_file,
     ipmi_fru_get_adjust_size_from_buffer |-> ipmi_fru_get_adjust_size_from_buffer,
     ipmi_fru_get_multirec_from_file |-> ipmi_fru_get_multirec_from_file,
     ipmi_fru_upg_ekeying |-> ipmi_fru_upg_ekeying,
     ipmi_fru_get_internal_use_info |-> ipmi_fru_get_internal_use_info,
     ipmi_fru_info_internal_use |-> ipmi_fru_info_internal_use,
     ipmi_fru_read_internal_use |-> ipmi_fru_read_internal_use,
     ipmi_fru_write_internal_use |-> ipmi_fru_write_internal_use,
     ipmi_fru_set_field_string |-> ipmi_fru_set_field_string,
     ipmi_fru_set_field_string_rebuild |-> ipmi_fru_set_field_string_rebuild,
     ipmi_fru_main |-> ipmi_fru_main, ipmi_spd_print |-> ipmi_spd_print,
     ipmi_spd_print_fru |-> ipmi_spd_print_fru]

=============================================================================
