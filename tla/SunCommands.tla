---------------------------- MODULE SunCommands ----------------------------
(* The commands for Sun controllers, src/lib/ipmi_sunoem.c.                 *)
EXTENDS CommandSteps

sunoem_led_get == [start |-> Branch({"err", "get"}), get |-> GetOr("GetLed", "err", "pos", "ok")]
sunoem_led_set == [start |-> Branch({"err", "set"}), set |-> Put("Led", "ok")]

(* A LED that cannot be read makes the whole command fail, unless the BMC   *)
(* says that it is not there.                                               *)
sunoem_led_get_byentity ==
    [start |-> Branch({"ok", "find"}),
     find  |-> Do("ipmi_sdr_find_sdr_byentity", "leds"),
     leds  |-> Loop("led", "ok"),
     led   |-> CallBy("sunoem_led_get", "bad", "gone", "leds"),
     gone  |-> Branch({"leds", "bad"}),
     bad   |-> Note("ledFailed", "leds")]

sunoem_led_set_byentity ==
    [start |-> Branch({"ok", "find"}),
     find  |-> Do("ipmi_sdr_find_sdr_byentity", "leds"),
     leds  |-> Loop("led", "ok"),
     led   |-> CallOr("sunoem_led_set", "bad", "leds"),
     bad   |-> Note("ledFailed", "leds")]

(* All LEDs, one, or those that a logical one stands for.                   *)
ipmi_sunoem_led_get ==
    [start |-> Branch({"ok", "all", "one"}),
     all   |-> CallOr("ipmi_sdr_find_sdr_bytype", "err", "leds"),
     leds  |-> Loop("led", "rc"),
     led   |-> CallBy("sunoem_led_get", "bad", "gone", "leds"),
     gone  |-> Branch({"leds", "bad"}),
     bad   |-> Note("ledFailed", "leds"),
     one   |-> CallOr("ipmi_sdr_find_sdr_byid", "err", "kind"),
     kind  |-> Branch({"err", "single", "assoc"}),
     single |-> CallBy("sunoem_led_get", "err", "away", "ok"),
     away  |-> Branch({"ok", "err"}),
     assoc |-> CallOr("ipmi_sdr_find_sdr_bytype", "err", "list"),
     list  |-> Loop("each", "rc"),
     each  |-> Do("sunoem_led_get_byentity", "list"),
     rc    |-> Noted("ledFailed", "err", "ok")]

ipmi_sunoem_led_set ==
    [start |-> Branch({"ok", "err", "all", "one"}),
     all   |-> CallOr("ipmi_sdr_find_sdr_bytype", "err", "leds"),
     leds  |-> Loop("led", "rc"),
     led   |-> CallOr("sunoem_led_set", "bad", "leds"),
     bad   |-> Note("ledFailed", "leds"),
     one   |-> CallOr("ipmi_sdr_find_sdr_byid", "err", "kind"),
     kind  |-> Branch({"err", "single", "assoc"}),
     single |-> CallOr("sunoem_led_set", "err", "ok"),
     assoc |-> CallOr("ipmi_sdr_find_sdr_bytype", "err", "list"),
     list  |-> Loop("each", "rc"),
     each  |-> Do("sunoem_led_set_byentity", "list"),
     rc    |-> Noted("ledFailed", "err", "ok")]

ipmi_sunoem_sshkey_del == Asks(Put("DeleteSshKey", "ok"))

(* The key goes in blocks; the file may end too early.                      *)
ipmi_sunoem_sshkey_set ==
    [start  |-> Branch({"err", "blocks"}),
     blocks |-> Loop("read", "ok"),
     read   |-> Branch({"err", "block"}),
     block  |-> Put("SshKey", "blocks")]

sunoem_cli_unbufmode_start == [start |-> Branch({"ok", "pos"})]
sunoem_cli_unbufmode_stop  == [start |-> Branch({"ok", "pos"})]

(* The session is opened, with the older version of the protocol or once    *)
(* more when the BMC is busy; then input goes to the BMC until the user or  *)
(* the BMC ends it, and after each the output is polled until there is no   *)
(* more.  A request that times out is sent again, a few times; other        *)
(* completion codes are not looked at until the output has been read.  The  *)
(* terminal is put back in the end.                                         *)
ipmi_sunoem_cli ==
    [start |-> Loop("open", "err"),
     open  |-> GetOr("CliOpen", "err", "retry", "opened"),
     retry |-> Branch({"start", "err"}),
     opened |-> Branch({"retry", "err", "mode", "talk"}),
     mode  |-> CallOr("sunoem_cli_unbufmode_start", "err", "talk"),
     talk  |-> Repeat("send", "ended"),
     send  |-> GetOr("CliData", "failed", "again", "size"),
     again |-> Branch({"send", "failed", "size"}),
     size  |-> Branch({"failed", "poll"}),
     poll  |-> Repeat("send", "talk"),
     failed |-> Branch({"err", "restoreErr"}),
     restoreErr |-> Do("sunoem_cli_unbufmode_stop", "err"),
     ended |-> Branch({"rc", "restore"}),
     restore |-> CallOr("sunoem_cli_unbufmode_stop", "err", "rc"),
     rc    |-> Branch({"ok", "err"})]

ipmi_sunoem_echo ==
    [start |-> Branch({"pos", "err", "more"}),
     more  |-> Loop("echo", "ok"),
     echo  |-> Get("Echo", "same"),
     same  |-> Branch({"more", "err"})]

ipmi_sunoem_getversion == Asks(Get("SunVersion", "ok"))
ipmi_sunoem_checkversion ==
    [start |-> CallOr("ipmi_sunoem_getversion", "err", "compare"),
     compare |-> Branch({"ok", "pos", "err"})]
ipmi_sunoem_version == Asks(Call("ipmi_sunoem_getversion", "ok"))

(* Until a part has the number that was asked for.  A name that grows too   *)
(* long ends it, but parts may be empty.                                    *)
ipmi_sunoem_nacname ==
    [start |-> Branch({"pos", "err", "part"}),
     part  |-> Get("NacName", "size"),
     size  |-> Branch({"err", "last"}),
     last  |-> Repeat("part", "ok")]

(* The property is asked for, and polled until it is there.                 *)
ipmi_sunoem_getval ==
    [start |-> Branch({"pos", "err", "version"}),
     version |-> Do("ipmi_sunoem_checkversion", "ask"),
     ask   |-> Get("GetValRequest", "polls"),
     polls |-> Loop("poll", "err"),
     poll  |-> Get("GetValStatus", "state"),
     state |-> Branch({"ok", "err", "polls"})]

send_luapi_prop_name ==
    [start |-> Loop("part", "ok"),
     part  |-> Put("SetValue", "state"),
     state |-> Branch({"start", "err"})]

send_luapi_prop_value ==
    [start |-> Loop("part", "ok"),
     part  |-> Put("SetValue", "state"),
     state |-> Branch({"start", "err"})]

(* The name, the value, and polls for the result under one transaction id.  *)
ipmi_sunoem_setval ==
    [start |-> Branch({"err", "name"}),
     name  |-> CallOr("send_luapi_prop_name", "err", "value"),
     value |-> CallOr("send_luapi_prop_value", "err", "polls"),
     polls |-> Loop("poll", "err"),
     poll  |-> Get("SetValStatus", "state"),
     state |-> Branch({"ok", "err", "polls"})]

(* Until the BMC says that a block is the last.  One with another number    *)
(* than was asked for ends it.                                              *)
ipmi_sunoem_getfile ==
    [start |-> Branch({"err", "version"}),
     version |-> CallBy("ipmi_sunoem_checkversion", "err", "file", "file"),
     file  |-> Branch({"err", "block"}),
     block |-> Get("GetFile", "check"),
     check |-> Branch({"err", "eof"}),
     eof   |-> Repeat("block", "ok")]

ipmi_sunoem_getbehavior ==
    [start |-> Branch({"err", "version"}),
     version |-> CallBy("ipmi_sunoem_checkversion", "err", "get", "get"),
     get   |-> Get("GetBehavior", "size"),
     size  |-> Branch({"ok", "err"})]

ipmi_sunoem_main ==
    Dispatch({"ipmi_sunoem_cli", "ipmi_sunoem_led_get", "ipmi_sunoem_led_set",
              "ipmi_sunoem_sshkey_del", "ipmi_sunoem_sshkey_set", "ipmi_sunoem_echo",
              "ipmi_sunoem_version", "ipmi_sunoem_nacname", "ipmi_sunoem_getval",
              "ipmi_sunoem_setval", "ipmi_sunoem_getfile", "ipmi_sunoem_getbehavior"})

(* The functions by name. *)
SunCode ==
    [sunoem_led_get |-> sunoem_led_get, sunoem_led_set |-> sunoem_led_set,
     sunoem_led_get_byentity |-> sunoem_led_get_byentity,
     sunoem_led_set_byentity |-> sunoem_led_set_byentity,
     ipmi_sunoem_led_get |-> ipmi_sunoem_led_get,
     ipmi_sunoem_led_set |-> ipmi_sunoem_led_set,
     ipmi_sunoem_sshkey_del |-> ipmi_sunoem_sshkey_del,
     ipmi_sunoem_sshkey_set |-> ipmi_sunoem_sshkey_set,
     sunoem_cli_unbufmode_start |-> sunoem_cli_unbufmode_start,
     sunoem_cli_unbufmode_stop |-> sunoem_cli_unbufmode_stop,
     ipmi_sunoem_cli |-> ipmi_sunoem_cli, ipmi_sunoem_echo |-> ipmi_sunoem_echo,
     ipmi_sunoem_getversion |-> ipmi_sunoem_getversion,
     ipmi_sunoem_checkversion |-> ipmi_sunoem_checkversion,
     ipmi_sunoem_version |-> ipmi_sunoem_version,
     ipmi_sunoem_nacname |-> ipmi_sunoem_nacname,
     ipmi_sunoem_getval |-> ipmi_sunoem_getval,
     send_luapi_prop_name |-> send_luapi_prop_name,
     send_luapi_prop_value |-> send_luapi_prop_value,
     ipmi_sunoem_setval |-> ipmi_sunoem_setval,
     ipmi_sunoem_getfile |-> ipmi_sunoem_getfile,
     ipmi_sunoem_getbehavior |-> ipmi_sunoem_getbehavior,
     ipmi_sunoem_main |-> ipmi_sunoem_main]

=============================================================================
