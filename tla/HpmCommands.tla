---------------------------- MODULE HpmCommands ----------------------------
(* Firmware upgrade by HPM.1, src/lib/ipmi_hpmfwupg.c, and the HPM.2        *)
(* capabilities, src/lib/hpm2.c.  HpmUpload models what is uploaded.        *)
EXTENDS CommandSteps, TLC

(* A request is sent again while there is no answer, or none that says the  *)
(* controller is there, until the time for that is over; and while the      *)
(* controller is busy, for ever.                                            *)
HpmfwupgSendCmd(op, req, none, bad, ok) ==
    [start  |-> Ask(op, req, "silent", "code", ok),
     silent |-> Loop("start", none),
     code   |-> Branch({bad, "again", "start"}),
     again  |-> Loop("start", bad)]

(* A request that may take long: its status is polled, and says how it      *)
(* went.                                                                    *)
LongDuration(req) ==
    HpmfwupgSendCmd("put", req, "err", "failed", "ok") @@
    [failed |-> Branch({"wait", "err"}),
     wait   |-> Call("HpmfwupgWaitLongDurationCmd", "done"),
     done   |-> Check(req, "err", "ok")]

HpmfwupgWaitLongDurationCmd ==
    [start  |-> Branch({"caps", "status"}),
     caps   |-> Do("HpmfwupgGetTargetUpgCapabilities", "status"),
     status |-> CallOr("HpmfwupgGetUpgradeStatus", "err", "last"),
     last   |-> Branch({"ok", "err", "poll"}),
     poll   |-> Loop("status", "err")]

HpmfwupgGetDeviceId              == HpmfwupgSendCmd("get", "DeviceId", "err", "err", "ok")
HpmfwupgGetTargetUpgCapabilities == HpmfwupgSendCmd("get", "UpgradeCaps", "err", "err", "ok")
HpmfwupgGetComponentProperties   ==
    HpmfwupgSendCmd("get", "Component", "err", "err", "kind") @@ [kind |-> Branch({"ok", "err"})]
HpmfwupgAbortUpgrade             == HpmfwupgSendCmd("put", "AbortUpgrade", "err", "err", "ok")
HpmfwupgInitiateUpgradeAction    == LongDuration("InitiateUpgrade")

(* A completion code of the bus counts, three times, as "in progress".      *)
HpmfwupgGetUpgradeStatus ==
    HpmfwupgSendCmd("get", "UpgradeStatus", "err", "bus", "ok") @@ [bus |-> Branch({"ok", "err"})]

(* Over the network the first block without an answer counts as one that is *)
(* too long: the positive result.  So does, for one to be sent again, that  *)
(* of an error of the bus, and a success of the wrong size.                 *)
HpmfwupgUploadFirmwareBlock ==
    [start  |-> [LongDuration("UploadBlock").start EXCEPT !.ok = "size"],
     size   |-> Branch({"ok", "pos"}),
     silent |-> Branch({"pos", "quiet"}),
     quiet  |-> Loop("start", "err"),
     failed |-> Branch({"wait", "pos", "err"})] @@
    LongDuration("UploadBlock")

(* A comparison changes nothing, and may find that the image differs.       *)
HpmfwupgFinishFirmwareUpload ==
    [start   |-> Branch({"compare", "send"}),
     send    |-> LongDuration("FinishUpload").start,
     code    |-> Branch({"failed", "again", "send"}),
     silent  |-> Loop("send", "err"),
     again   |-> Loop("send", "failed"),
     compare |-> GetOr("CompareUpload", "err", "differs", "ok"),
     differs |-> Branch({"ok", "err", "compare"})] @@
    LongDuration("FinishUpload")

(* Without an answer over the network the activation is taken to go on.     *)
HpmfwupgActivateFirmware ==
    [silent |-> Branch({"wait", "quiet"}), quiet |-> Loop("start", "err")] @@
    LongDuration("ActivateFirmware")

QueryUntilDone(req) ==
    HpmfwupgSendCmd("get", req, "err", "failed", "ok") @@
    [failed |-> Branch({"poll", "err"}), poll |-> Loop("start", "err")]

HpmfwupgQueryRollbackStatus == QueryUntilDone("RollbackStatus")
HpmfwupgQuerySelftestResult == QueryUntilDone("SelftestResult")

HpmfwupgManualFirmwareRollback ==
    [start   |-> Call("HpmfwupgGetTargetUpgCapabilities", "send"),
     send    |-> PutOr("ManualRollback", "silent", "code", "query"),
     silent  |-> Branch({"query", "quiet"}),
     quiet   |-> Loop("send", "err"),
     code    |-> Branch({"query", "err", "send"}),
     query   |-> Call("HpmfwupgQueryRollbackStatus", "done"),
     done    |-> Check("ManualRollback", "err", "ok")]

HpmfwupgTargetCheck ==
    [start    |-> CallOr("HpmfwupgGetDeviceId", "err", "caps"),
     caps     |-> Call("HpmfwupgGetTargetUpgCapabilities", "comps"),
     comps    |-> Loop("general", "ok"),
     general  |-> Call("HpmfwupgGetComponentProperties", "desc"),
     desc     |-> Call("HpmfwupgGetComponentProperties", "version"),
     version  |-> Call("HpmfwupgGetComponentProperties", "more"),
     more     |-> Branch({"comps", "rollback", "deferred"}),
     rollback |-> Do("HpmfwupgGetComponentProperties", "last"),
     last     |-> Branch({"comps", "deferred"}),
     deferred |-> Do("HpmfwupgGetComponentProperties", "comps")]

HpmfwupgGetBufferFromFile            == Parses
HpmfwupgValidateImageIntegrity       == Parses
HpmfwupgValidateActionRecordChecksum == Parses

HpmfwupgPreUpgradeCheck ==
    [start  |-> Loop("record", "ok"),
     record |-> CallOr("HpmfwupgValidateActionRecordChecksum", "err", "fits"),
     fits   |-> Branch({"err", "start"})]

(* The result is that of the last component.                                *)
HpmfwupgPreparationStage ==
    [start  |-> CallOr("HpmfwupgGetDeviceId", "err", "image"),
     image  |-> Branch({"err", "caps"}),
     caps   |-> CallOr("HpmfwupgGetTargetUpgCapabilities", "err", "wanted"),
     wanted |-> Branch({"err", "comps"}),
     comps  |-> Loop("comp", "rc"),
     comp   |-> CallOr("HpmfwupgGetComponentProperties", "bad", "good"),
     bad    |-> Note("compFailed", "comps"),
     good   |-> Forget("compFailed", "comps"),
     rc     |-> Noted("compFailed", "err", "ok")]

(* Errors of the bus are counted, but a success sets the count back, also   *)
(* one of the wrong size, after which the block is sent again; and the      *)
(* controller says, as often as it likes, where in the image to go on.      *)
HpmFwupgActionUploadFirmware ==
    [start   |-> Branch({"err", "ok", "init"}),
     init    |-> CallOr("HpmfwupgInitiateUpgradeAction", "err", "blocks"),
     blocks  |-> Repeat("block", "finish"),
     block   |-> CallBy("HpmfwupgUploadFirmwareBlock", "err", "again", "next"),
     again   |-> Repeat("block", "err"),
     next    |-> Branch({"err", "blocks"}),
     finish  |-> Call("HpmfwupgFinishFirmwareUpload", "ok")]

HpmfwupgUpgradeStage ==
    [start  |-> Loop("record", "ok"),
     record |-> CallOr("HpmfwupgValidateActionRecordChecksum", "err", "action"),
     action |-> Branch({"err", "start", "init", "upload"}),
     init   |-> CallOr("HpmfwupgInitiateUpgradeAction", "err", "start"),
     upload |-> CallOr("HpmFwupgActionUploadFirmware", "err", "start")]

(* When the activation or the self test has failed, the result is that of   *)
(* asking for the status of the rollback.                                   *)
HpmfwupgActivationStage ==
    [start    |-> CallOr("HpmfwupgActivateFirmware", "back", "test"),
     test     |-> Branch({"ok", "selftest"}),
     selftest |-> CallOr("HpmfwupgQuerySelftestResult", "back", "result"),
     result   |-> Branch({"ok", "back"}),
     back     |-> Branch({"err", "rollback"}),
     rollback |-> Call("HpmfwupgQueryRollbackStatus", "ok")]

HpmfwupgUpgrade ==
    [start    |-> CallOr("HpmfwupgGetBufferFromFile", "err", "image"),
     image    |-> CallOr("HpmfwupgValidateImageIntegrity", "err", "prepare"),
     prepare  |-> CallOr("HpmfwupgPreparationStage", "err", "check"),
     check    |-> CallOr("HpmfwupgPreUpgradeCheck", "err", "mode"),
     mode     |-> Branch({"ok", "stage"}),
     stage    |-> CallOr("HpmfwupgUpgradeStage", "err", "flag"),
     flag     |-> Branch({"ok", "activate"}),
     activate |-> Call("HpmfwupgActivationStage", "ok")]

ipmi_hpmfwupg_main ==
    LET procs == {"HpmfwupgTargetCheck", "HpmfwupgActivateFirmware",
                  "HpmfwupgGetTargetUpgCapabilities", "HpmfwupgGetComponentProperties",
                  "HpmfwupgAbortUpgrade", "HpmfwupgGetUpgradeStatus",
                  "HpmfwupgManualFirmwareRollback", "HpmfwupgQueryRollbackStatus",
                  "HpmfwupgQuerySelftestResult"}
    IN  [start   |-> Branch(procs \cup {"ok", "err", "check"}),
         check   |-> Call("HpmfwupgTargetCheck", "upgrade"),
         upgrade |-> Call("HpmfwupgUpgrade", "ok")] @@
        [p \in procs |-> Call(p, "ok")]

-----------------------------------------------------------------------------
hpm2_get_capabilities ==
    [start |-> GetOr("Hpm2Caps", "err", "pos", "caps"), caps |-> Branch({"ok", "err"})]
hpm2_get_lan_channel_capabilities ==
    [start |-> GetOr("Hpm2Lan", "err", "pos", "caps"), caps |-> Branch({"ok", "err"})]

(* The largest messages the interface can carry.                            *)
hpm2_detect_max_payload_size ==
    [start |-> Call("hpm2_get_capabilities", "lan"),
     lan   |-> Branch({"ok", "ask"}),
     ask   |-> Call("hpm2_get_lan_channel_capabilities", "ok")]

(* The functions by name. *)
HpmCode ==
    [HpmfwupgWaitLongDurationCmd |-> HpmfwupgWaitLongDurationCmd,
     HpmfwupgGetDeviceId |-> HpmfwupgGetDeviceId,
     HpmfwupgGetTargetUpgCapabilities |-> HpmfwupgGetTargetUpgCapabilities,
     HpmfwupgGetComponentProperties |-> HpmfwupgGetComponentProperties,
     HpmfwupgGetUpgradeStatus |-> HpmfwupgGetUpgradeStatus,
     HpmfwupgAbortUpgrade |-> HpmfwupgAbortUpgrade,
     HpmfwupgInitiateUpgradeAction |-> HpmfwupgInitiateUpgradeAction,
     HpmfwupgUploadFirmwareBlock |-> HpmfwupgUploadFirmwareBlock,
     HpmfwupgFinishFirmwareUpload |-> HpmfwupgFinishFirmwareUpload,
     HpmfwupgActivateFirmware |-> HpmfwupgActivateFirmware,
     HpmfwupgQueryRollbackStatus |-> HpmfwupgQueryRollbackStatus,
     HpmfwupgQuerySelftestResult |-> HpmfwupgQuerySelftestResult,
     HpmfwupgManualFirmwareRollback |-> HpmfwupgManualFirmwareRollback,
     HpmfwupgTargetCheck |-> HpmfwupgTargetCheck,
     HpmfwupgGetBufferFromFile |-> HpmfwupgGetBufferFromFile,
     HpmfwupgValidateImageIntegrity |-> HpmfwupgValidateImageIntegrity,
     HpmfwupgValidateActionRecordChecksum |-> HpmfwupgValidateActionRecordChecksum,
     HpmfwupgPreUpgradeCheck |-> HpmfwupgPreUpgradeCheck,
     HpmfwupgPreparationStage |-> HpmfwupgPreparationStage,
     HpmFwupgActionUploadFirmware |-> HpmFwupgActionUploadFirmware,
     HpmfwupgUpgradeStage |-> HpmfwupgUpgradeStage,
     HpmfwupgActivationStage |-> HpmfwupgActivationStage,
     HpmfwupgUpgrade |-> HpmfwupgUpgrade, ipmi_hpmfwupg_main |-> ipmi_hpmfwupg_main,
     hpm2_get_capabilities |-> hpm2_get_capabilities,
     hpm2_get_lan_channel_capabilities |-> hpm2_get_lan_channel_capabilities,
     hpm2_detect_max_payload_size |-> hpm2_detect_max_payload_size]

=============================================================================
