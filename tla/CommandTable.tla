---------------------------- MODULE CommandTable ----------------------------
(* The functions of all command modules by name.                            *)
EXTENDS
    McCommands, ChassisCommands, ChannelCommands, LanCommands, PefCommands,
    SolCommands, SdrCommands, DcmiCommands, FruCommands, PicmgCommands,
    DellCommands, SunCommands, FirewallCommands, FirmwareCommands,
    HpmCommands, MainCommands

Code ==
    McCode @@ ChassisCode @@ ChannelCode @@ LanCode @@ RawCode @@ Lan6Code @@
    PefCode @@ SolCode @@ EventCode @@ SdrCode @@ SensorCode @@ DcmiCode @@
    FruCode @@ PicmgCode @@ DellCode @@ SunCode @@ FirewallCode @@ VitaCode @@
    FirmwareCode @@ HpmCode @@ ConsoleCode @@ MainCode

=============================================================================
