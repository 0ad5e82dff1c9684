-------------------------- MODULE FirewallCommands --------------------------
(* The firmware firewall, src/lib/ipmi_firewall.c.                          *)
EXTENDS CommandSteps

ipmi_firewall_parse_args == Parses

_get_netfn_support == Asks(Get("NetfnSupport", "ok"))

(* The 256 commands of a network function come in two halves.               *)
TwoHalves(req) == [start |-> Get(req, "upper"), upper |-> Get(req, "ok")]

_get_command_support      == TwoHalves("CommandSupport")
_get_command_configurable == TwoHalves("CommandConfigurable")
_get_command_enables      == TwoHalves("GetCommandEnables")

_set_command_enables ==
    [start |-> Put("CommandEnables", "upper"), upper |-> Put("UpperEnables", "ok")]

_get_subfn_support      == Asks(Get("SubfnSupport", "ok"))
_get_subfn_configurable == Asks(Get("SubfnConfigurable", "ok"))
_get_subfn_enables      == Asks(Get("GetSubfnEnables", "ok"))
_set_subfn_enables      == Asks(Put("SubfnEnables", "ok"))

(* What can be had of one command, one network function or all of them.     *)
(* What cannot be read is left as malloc() gave it, and the result is 0.    *)
_gather_info ==
    [start   |-> Do("_get_netfn_support", "scope"),
     scope   |-> Branch({"ok", "one", "every"}),
     one     |-> CallOr("_get_command_support", "oneConfF", "oneConf"),
     oneConf |-> CallOr("_get_command_configurable", "oneEnF", "oneEn"),
     oneConfF |-> Do("_get_command_configurable", "oneEnF"),
     oneEn   |-> CallOr("_get_command_enables", "ok", "command"),
     oneEnF  |-> Do("_get_command_enables", "ok"),
     command |-> Branch({"ok", "subfn"}),
     subfn   |-> Do("_get_subfn_support", "subConf"),
     subConf |-> Do("_get_subfn_configurable", "subEn"),
     subEn   |-> Do("_get_subfn_enables", "ok"),
     every   |-> Loop("netfn", "ok"),
     netfn   |-> Do("_get_command_support", "conf"),
     conf    |-> Do("_get_command_configurable", "en"),
     en      |-> Do("_get_command_enables", "every")]

ipmi_firewall_info ==
    [start |-> CallOr("ipmi_firewall_parse_args", "ok", "memory"),
     memory |-> Branch({"err", "gather"}),
     gather |-> Call("_gather_info", "ok")]

(* One sub-function; a command with its sub-functions; or a network         *)
(* function.  Without any of them nothing is done.                          *)
ipmi_firewall_enable_disable ==
    [start   |-> Branch({"ok", "args"}),
     args    |-> CallOr("ipmi_firewall_parse_args", "err", "memory"),
     memory  |-> Branch({"err", "gather"}),
     gather  |-> CallBy("_gather_info", "err", "what", "what"),
     what    |-> Branch({"subfn", "command", "netfn", "ok"}),
     subfn   |-> Call("_set_subfn_enables", "ok"),
     command |-> CallOr("_set_subfn_enables", "failed", "netfn"),
     failed  |-> Do("_set_command_enables", "err"),
     netfn   |-> Call("_set_command_enables", "ok")]

(* Everything is enabled again, one command after the other.  The result is *)
(* that of the last network function: "rcLast" is set while it is -1.       *)
ipmi_firewall_reset ==
    [start  |-> Branch({"err", "ok", "args"}),
     args   |-> CallOr("ipmi_firewall_parse_args", "err", "memory"),
     memory |-> Branch({"err", "gather"}),
     gather |-> CallBy("_gather_info", "err", "netfn", "netfn"),
     netfn  |-> Loop("subfns", "rc"),
     subfns |-> Loop("subfn", "enable"),
     subfn  |-> Do("_set_subfn_enables", "subfns"),
     enable |-> CallOr("_set_command_enables", "bad", "good"),
     bad    |-> Note("rcLast", "netfn"),
     good   |-> Forget("rcLast", "netfn"),
     rc     |-> Noted("rcLast", "err", "ok")]

ipmi_firewall_main ==
    Dispatch({"ipmi_firewall_info", "ipmi_firewall_enable_disable", "ipmi_firewall_reset"})

(* The functions by name. *)
FirewallCode ==
    [ipmi_firewall_parse_args |-> ipmi_firewall_parse_args,
     _get_netfn_support |-> _get_netfn_support,
     _get_command_support |-> _get_command_support,
     _get_command_configurable |-> _get_command_configurable,
     _get_command_enables |-> _get_command_enables,
     _set_command_enables |-> _set_command_enables,
     _get_subfn_support |-> _get_subfn_support,
     _get_subfn_configurable |-> _get_subfn_configurable,
     _get_subfn_enables |-> _get_subfn_enables,
     _set_subfn_enables |-> _set_subfn_enables, _gather_info |-> _gather_info,
     ipmi_firewall_info |-> ipmi_firewall_info,
     ipmi_firewall_enable_disable |-> ipmi_firewall_enable_disable,
     ipmi_firewall_reset |-> ipmi_firewall_reset,
     ipmi_firewall_main |-> ipmi_firewall_main]

=============================================================================
