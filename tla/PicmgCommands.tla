--------------------------- MODULE PicmgCommands ---------------------------
(* The PICMG (ATCA, AMC) commands, src/lib/ipmi_picmg.c.                    *)
EXTENDS CommandSteps, TLC

(* is_fru_id(), is_amc_channel() and their kin: an argument is in range, or *)
(* the command is not sent.                                                 *)
PicmgArgument == Parses

WithArgument(step) == [start |-> CallOr("PicmgArgument", "err", "send"), send |-> step]

ipmi_picmg_getaddr       == WithArgument(Get("AddressInfo", "ok"))
ipmi_picmg_properties    == Asks(Get("PicmgProperties", "ok"))
ipmi_picmg_fru_activation == WithArgument(Put("FruActivation", "ok"))
ipmi_picmg_fru_activation_policy_get == WithArgument(Get("GetActivationPolicy", "ok"))
ipmi_picmg_fru_activation_policy_set == WithArgument(Put("ActivationPolicy", "ok"))
ipmi_picmg_portstate_get     == Asks(Get("GetPortState", "ok"))
ipmi_picmg_portstate_set     == Asks(Put("PortState", "ok"))
ipmi_picmg_amc_portstate_get == Asks(Get("GetAmcPortState", "ok"))
ipmi_picmg_amc_portstate_set == Asks(Put("AmcPortState", "ok"))
ipmi_picmg_get_led_properties   == WithArgument(Get("LedProperties", "ok"))
ipmi_picmg_get_led_capabilities == WithArgument(Get("LedCapabilities", "ok"))
ipmi_picmg_get_led_state     == WithArgument(Get("GetLedState", "ok"))
ipmi_picmg_set_led_state     == WithArgument(Put("LedState", "ok"))
ipmi_picmg_get_power_level   == WithArgument(Get("GetPowerLevel", "ok"))
ipmi_picmg_set_power_level   == WithArgument(Put("PowerLevel", "ok"))
ipmi_picmg_fru_control       == WithArgument(Put("FruControl", "ok"))
ipmi_picmg_clk_set           == WithArgument(Put("ClockState", "ok"))

(* All resources, until one cannot be read.                                 *)
ipmi_picmg_bused_resource ==
    [start |-> Loop("query", "ok"), query |-> Get("BusedResource", "start")]

(* A clock that is refused is left out of a list, not of a query.           *)
ipmi_picmg_clk_get ==
    [start |-> GetOr("GetClockState", "err", "mode", "ok"), mode |-> Branch({"ok", "err"})]

(* The properties, which say what kind of card it is, are asked for first,  *)
(* and nothing hangs on the answer: the result is overwritten.  The result  *)
(* of a list is that of its last element.                                   *)
ipmi_picmg_main ==
    LET one == {"ipmi_picmg_getaddr", "ipmi_picmg_fru_control", "ipmi_picmg_fru_activation",
                "ipmi_picmg_fru_activation_policy_get", "ipmi_picmg_fru_activation_policy_set",
                "ipmi_picmg_portstate_set", "ipmi_picmg_amc_portstate_set",
                "ipmi_picmg_get_led_properties", "ipmi_picmg_get_led_capabilities",
                "ipmi_picmg_get_led_state", "ipmi_picmg_set_led_state",
                "ipmi_picmg_get_power_level", "ipmi_picmg_set_power_level",
                "ipmi_picmg_clk_set"}
    IN [place \in one |-> Call(place, "ok")] @@
       [start      |-> Branch({"ok", "properties"}),
        properties |-> CallOr("ipmi_picmg_properties", "failed", "answered"),
        answered   |-> Branch({"ok", "err", "busres", "ports", "amcPorts", "clocks"} \cup one),
        failed     |-> Branch({"err", "busresErr", "ports", "amcPorts", "clocks"} \cup one),
        busres     |-> Do("ipmi_picmg_bused_resource", "ok"),
        busresErr  |-> Do("ipmi_picmg_bused_resource", "err"),
        ports      |-> Loop("port", "lastPort"),
        port       |-> Do("ipmi_picmg_portstate_get", "ports"),
        lastPort   |-> Call("ipmi_picmg_portstate_get", "ok"),
        amcPorts   |-> Loop("amcPort", "lastAmcPort"),
        amcPort    |-> Do("ipmi_picmg_amc_portstate_get", "amcPorts"),
        lastAmcPort |-> Call("ipmi_picmg_amc_portstate_get", "ok"),
        clocks     |-> Loop("clock", "lastClock"),
        clock      |-> Do("ipmi_picmg_clk_get", "clocks"),
        lastClock  |-> Call("ipmi_picmg_clk_get", "ok")]

(* Asked of every controller before the command: whether PICMG is there,    *)
(* and its address on the bus.                                              *)
picmg_discover ==
    [start |-> GetOr("PicmgProperties", "ok", "ok", "kind"), kind |-> Branch({"ok", "pos"})]
ipmi_picmg_ipmb_address ==
    [start |-> Branch({"ok", "ask"}), ask |-> GetOr("AddressInfo", "ok", "ok", "pos")]

(* The functions by name. *)
PicmgCode ==
    [PicmgArgument |-> PicmgArgument, ipmi_picmg_getaddr |-> ipmi_picmg_getaddr,
     ipmi_picmg_properties |-> ipmi_picmg_properties,
     ipmi_picmg_fru_activation |-> ipmi_picmg_fru_activation,
     ipmi_picmg_fru_activation_policy_get |-> ipmi_picmg_fru_activation_policy_get,
     ipmi_picmg_fru_activation_policy_set |-> ipmi_picmg_fru_activation_policy_set,
     ipmi_picmg_portstate_get |-> ipmi_picmg_portstate_get,
     ipmi_picmg_portstate_set |-> ipmi_picmg_portstate_set,
     ipmi_picmg_amc_portstate_get |-> ipmi_picmg_amc_portstate_get,
     ipmi_picmg_amc_portstate_set |-> ipmi_picmg_amc_portstate_set,
     ipmi_picmg_get_led_properties |-> ipmi_picmg_get_led_properties,
     ipmi_picmg_get_led_capabilities |-> ipmi_picmg_get_led_capabilities,
     ipmi_picmg_get_led_state |-> ipmi_picmg_get_led_state,
     ipmi_picmg_set_led_state |-> ipmi_picmg_set_led_state,
     ipmi_picmg_get_power_level |-> ipmi_picmg_get_power_level,
     ipmi_picmg_set_power_level |-> ipmi_picmg_set_power_level,
     ipmi_picmg_fru_control |-> ipmi_picmg_fru_control,
     ipmi_picmg_clk_set |-> ipmi_picmg_clk_set,
     ipmi_picmg_bused_resource |-> ipmi_picmg_bused_resource,
     ipmi_picmg_clk_get |-> ipmi_picmg_clk_get, ipmi_picmg_main |-> ipmi_picmg_main,
     picmg_discover |-> picmg_discover,
     ipmi_picmg_ipmb_address |-> ipmi_picmg_ipmb_address]

-----------------------------------------------------------------------------
(* The VITA 46.11 commands, src/lib/ipmi_vita.c.                            *)

(* Every request has its arguments parsed first; a response that is too     *)
(* short, or not one of VITA's, counts as a failure.                        *)
VitaGet(req) ==
    [start |-> Branch({"err", "get"}),
     get   |-> Get(req, "group"),
     group |-> Branch({"ok", "err"})]
VitaPut(req) ==
    [start |-> Branch({"err", "put"}),
     put   |-> Put(req, "group"),
     group |-> Branch({"ok", "err"})]

(* ipmi_main() asks both before it runs a command.  vita_discover() returns *)
(* 1 when VITA is there, the other the address or 0.                        *)
vita_discover ==
    [start |-> GetOr("VsoCapabilities", "ok", "ok", "group"), group |-> Branch({"ok", "pos"})]
ipmi_vita_ipmb_address ==
    [start |-> GetOr("FruAddress", "ok", "ok", "group"), group |-> Branch({"ok", "pos"})]

ipmi_vita_getaddr                    == VitaGet("FruAddress")
ipmi_vita_get_vso_capabilities       ==
    [start |-> Get("VsoCapabilities", "group"), group |-> Branch({"ok", "err"})]
ipmi_vita_set_fru_activation         == VitaPut("FruActivation")
ipmi_vita_get_fru_state_policy_bits  == VitaGet("GetPolicyBits")
ipmi_vita_set_fru_state_policy_bits  == VitaPut("PolicyBits")
ipmi_vita_get_led_properties         == VitaGet("LedProperties")
ipmi_vita_get_led_color_capabilities == VitaGet("LedColors")
ipmi_vita_get_led_state              == VitaGet("GetVitaLed")
ipmi_vita_set_led_state              == VitaPut("VitaLed")
ipmi_vita_fru_control                == VitaPut("VitaControl")

(* With too few arguments, and with a command it does not know, it shows    *)
(* the help and returns -1.                                                 *)
ipmi_vita_main ==
    Dispatch({"ipmi_vita_getaddr", "ipmi_vita_get_vso_capabilities",
              "ipmi_vita_set_fru_activation", "ipmi_vita_get_fru_state_policy_bits",
              "ipmi_vita_set_fru_state_policy_bits", "ipmi_vita_get_led_properties",
              "ipmi_vita_get_led_color_capabilities", "ipmi_vita_get_led_state",
              "ipmi_vita_set_led_state", "ipmi_vita_fru_control"})

(* The functions by name. *)
VitaCode ==
    [vita_discover |-> vita_discover, ipmi_vita_ipmb_address |-> ipmi_vita_ipmb_address,
     ipmi_vita_getaddr |-> ipmi_vita_getaddr,
     ipmi_vita_get_vso_capabilities |-> ipmi_vita_get_vso_capabilities,
     ipmi_vita_set_fru_activation |-> ipmi_vita_set_fru_activation,
     ipmi_vita_get_fru_state_policy_bits |-> ipmi_vita_get_fru_state_policy_bits,
     ipmi_vita_set_fru_state_policy_bits |-> ipmi_vita_set_fru_state_policy_bits,
     ipmi_vita_get_led_properties |-> ipmi_vita_get_led_properties,
     ipmi_vita_get_led_color_capabilities |-> ipmi_vita_get_led_color_capabilities,
     ipmi_vita_get_led_state |-> ipmi_vita_get_led_state,
     ipmi_vita_set_led_state |-> ipmi_vita_set_led_state,
     ipmi_vita_fru_control |-> ipmi_vita_fru_control, ipmi_vita_main |-> ipmi_vita_main]

=============================================================================
