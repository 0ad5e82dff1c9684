---------------------------- MODULE SolCommands ----------------------------
(* The sol commands but for the console itself (module LanplusSol),         *)
(* src/lib/ipmi_sol.c.                                                      *)
EXTENDS CommandSteps

ipmi_sol_payload_access == Asks(Put("PayloadAccess", "ok"))

ipmi_sol_payload_access_status ==
    [start |-> Get("GetPayloadAccess", "size"), size |-> Branch({"ok", "err"})]

(* Eight parameters; one that is not supported (0x80) is left out, but the  *)
(* port then has to be that of the session.                                 *)
ipmi_get_sol_info ==
    [start |-> Loop("get", "port"),
     get   |-> GetOr("GetSolParam", "err", "code", "start"),
     code  |-> Branch({"err", "start"}),
     port  |-> Branch({"ok", "err"})]

ipmi_print_sol_info == Asks(CallOr("ipmi_get_sol_info", "err", "ok"))

ipmi_sol_set_param_isvalid_uint8_t == Parses

(* ipmi_sol_set_param() calling itself to guard the parameter.              *)
SetInProgress == Asks(LockOr("SolParams", "err", "err", "ok"))
CommitWrite   == Asks(PutOr("SolCommit", "err", "ok", "ok"))
SetComplete   == Asks(UnlockOr("SolParams", "err", "err", "ok"))

(* Half of the parameters share a byte with others, which is read first.    *)
(* When the parameter itself is not answered the function returns at once.  *)
ipmi_sol_set_param ==
    [start  |-> Branch({"err", "number", "other", "guard"}),
     number |-> CallOr("ipmi_sol_set_param_isvalid_uint8_t", "err", "other"),
     other  |-> CallOr("ipmi_get_sol_info", "err", "guard"),
     guard  |-> Branch({"lock", "bare"}),
     bare   |-> Put("SolParam", "ok"),
     lock   |-> CallOr("SetInProgress", "err", "set"),
     set    |-> PutOr("SolParam", "err", "undo", "commit"),
     undo   |-> Do("SetComplete", "err"),
     commit |-> Do("CommitWrite", "done"),
     done   |-> CallOr("SetComplete", "err", "ok")]

ipmi_sol_deactivate == Checked(Put("DeactivateSol", "ok"))

(* The console runs until it is left.  Without an answer to the keepalives, *)
(* and when the BMC has closed the session, the program ends with it; a     *)
(* failed select() returns with the payload active.                         *)
ipmi_sol_red_pill ==
    [start  |-> Branch({"err", "wait"}),
     wait   |-> Branch({"events", "alive"}),
     alive  |-> GetOr("Keepalive", "missed", "events", "events"),
     missed |-> Branch({"events", "silent"}),
     events |-> Branch({"wait", "err", "left", "silent", "exit"}),
     left   |-> Do("ipmi_sol_deactivate", "ok"),
     silent |-> Do("ipmi_sol_deactivate", "exit")]

(* A response of another size, or another port, ends it with the payload    *)
(* active.  The loop test deactivates at once.                              *)
ipmi_sol_activate(looptest) ==
    [start |-> Branch({"err", "send"}),
     send  |-> Put("ActivateSol", "data"),
     data  |-> Branch({"err", "use"}),
     use   |-> IF looptest THEN Do("ipmi_sol_deactivate", "ok")
                           ELSE CallOr("ipmi_sol_red_pill", "err", "ok")]

ipmi_sol_main ==
    [start      |-> Branch({"ok", "err", "info", "status", "access", "set", "activate",
                            "deactivate", "looptest"}),
     info       |-> Call("ipmi_print_sol_info", "ok"),
     status     |-> Call("ipmi_sol_payload_access_status", "ok"),
     access     |-> Call("ipmi_sol_payload_access", "ok"),
     set        |-> Call("ipmi_sol_set_param", "ok"),
     activate   |-> Call("ipmi_sol_activate", "ok"),
     deactivate |-> Call("ipmi_sol_deactivate", "ok"),
     looptest   |-> Loop("test", "ok"),
     test       |-> Call("ipmi_sol_looptest", "looptest")]


(* The functions by name. *)
SolCode ==
    [ipmi_sol_payload_access |-> ipmi_sol_payload_access,
     ipmi_sol_payload_access_status |-> ipmi_sol_payload_access_status,
     ipmi_get_sol_info |-> ipmi_get_sol_info,
     ipmi_print_sol_info |-> ipmi_print_sol_info,
     ipmi_sol_set_param_isvalid_uint8_t |-> ipmi_sol_set_param_isvalid_uint8_t,
     SetInProgress |-> SetInProgress, CommitWrite |-> CommitWrite,
     SetComplete |-> SetComplete, ipmi_sol_set_param |-> ipmi_sol_set_param,
     ipmi_sol_deactivate |-> ipmi_sol_deactivate, ipmi_sol_main |-> ipmi_sol_main,
     ipmi_sol_red_pill |-> ipmi_sol_red_pill,
     ipmi_sol_activate |-> ipmi_sol_activate(FALSE),
     ipmi_sol_looptest |-> ipmi_sol_activate(TRUE)]

-----------------------------------------------------------------------------
(* Serial over LAN before IPMI 2.0: Intel's, src/lib/ipmi_isol.c, and       *)
(* Tyan's, src/lib/ipmi_tsol.c.                                             *)

ipmi_get_isol_info ==
    [start |-> Get("IsolParams", "auth"),
     auth  |-> Get("IsolParams", "baud"),
     baud  |-> Get("IsolParams", "ok")]

ipmi_print_isol_info == Asks(CallOr("ipmi_get_isol_info", "err", "ok"))

ipmi_isol_set_param ==
    [start |-> CallOr("ipmi_get_isol_info", "err", "value"),
     value |-> Branch({"err", "put"}),
     put   |-> Put("IsolParam", "ok")]

ipmi_isol_deactivate == Asks(Put("IsolDeactivate", "ok"))

(* Escape sequences, and the rest to the BMC in one packet.                 *)
processiSolUserInput ==
    [start |-> Branch({"ok", "pos", "send"}),
     send  |-> GetOr("SolPacket", "err", "ok", "ok")]

(* Until the user or the BMC ends it.  What the deactivation gives is not   *)
(* looked at.                                                               *)
ipmi_isol_red_pill ==
    [start |-> Branch({"err", "ready"}),
     ready |-> Repeat("event", "stop"),
     event |-> Branch({"err", "input", "output", "alive"}),
     input |-> CallBy("processiSolUserInput", "ok", "stop", "ready"),
     output |-> GetOr("SolPacket", "ok", "ready", "ready"),
     alive |-> GetOr("Keepalive", "ready", "ready", "ready"),
     stop  |-> Do("ipmi_isol_deactivate", "ok")]

ipmi_isol_activate ==
    [start   |-> CallOr("ipmi_get_isol_info", "err", "enabled"),
     enabled |-> Branch({"err", "put"}),
     put     |-> Put("IsolActivate", "size"),
     size    |-> Branch({"err", "console"}),
     console |-> CallOr("ipmi_isol_red_pill", "err", "ok")]

ipmi_isol_main == Dispatch({"ipmi_print_isol_info", "ipmi_isol_set_param", "ipmi_isol_activate"})

-----------------------------------------------------------------------------
ipmi_tsol_start == Checked(Put("TsolStart", "ok"))
ipmi_tsol_stop  == Checked(Put("TsolStop", "ok"))

(* Whether the keys arrived is looked at in verbose mode only.  The result  *)
(* is the number of keys.                                                   *)
ipmi_tsol_send_keystroke ==
    [start |-> PutOr("TsolKeys", "lost", "lost", "pos"), lost |-> Branch({"err", "pos"})]

tsol_keepalive == [start |-> Branch({"ok", "send"}), send |-> GetOr("Keepalive", "ok", "ok", "ok")]

(* -1 ends the session.                                                     *)
do_inbuf_actions == [start |-> Branch({"err", "pos", "ok"})]

(* When poll() fails the session goes on at the BMC, and the result is 0.   *)
ipmi_tsol_main ==
    [start  |-> Branch({"err", "ok", "begin"}),
     begin  |-> CallBy("ipmi_tsol_start", "err", "wait", "wait"),
     wait   |-> Repeat("alive", "ok"),
     alive  |-> Do("tsol_keepalive", "events"),
     events |-> Branch({"wait", "read", "keys"}),
     read   |-> CallBy("do_inbuf_actions", "quit", "mine", "mine"),
     mine   |-> Branch({"wait", "keys"}),
     keys   |-> Do("ipmi_tsol_send_keystroke", "wait"),
     quit   |-> Call("ipmi_tsol_stop", "ok")]

(* The functions by name. *)
ConsoleCode ==
    [ipmi_get_isol_info |-> ipmi_get_isol_info,
     ipmi_print_isol_info |-> ipmi_print_isol_info,
     ipmi_isol_set_param |-> ipmi_isol_set_param,
     ipmi_isol_deactivate |-> ipmi_isol_deactivate,
     processiSolUserInput |-> processiSolUserInput,
     ipmi_isol_red_pill |-> ipmi_isol_red_pill,
     ipmi_isol_activate |-> ipmi_isol_activate, ipmi_isol_main |-> ipmi_isol_main,
     ipmi_tsol_start |-> ipmi_tsol_start, ipmi_tsol_stop |-> ipmi_tsol_stop,
     ipmi_tsol_send_keystroke |-> ipmi_tsol_send_keystroke,
     tsol_keepalive |-> tsol_keepalive, do_inbuf_actions |-> do_inbuf_actions,
     ipmi_tsol_main |-> ipmi_tsol_main]

=============================================================================
