-------------------------- MODULE FirmwareCommands --------------------------
(* The firmware writers of Kontron, src/lib/ipmi_fwum.c, and of the Intel   *)
(* management engine, src/lib/ipmi_ime.c.                                   *)
EXTENDS CommandSteps

KfwumGetFileSize          == Parses
KfwumSetupBuffersFromFile == Parses
KfwumGetInfoFromFirmware  == Parses
ipmi_kfwum_checkfwcompat  == Parses

KfwumGetInfo              == Asks(Get("FwumInfo", "ok"))
KfwumGetDeviceInfo        == Asks(Get("DeviceId", "ok"))
KfwumManualRollback       == Asks(Put("FwumRollback", "ok"))
KfwumStartFirmwareImage   == Asks(Put("FwumStart", "ok"))
KfwumStartFirmwareUpgrade == Asks(Put("FwumUpgrade", "ok"))

KfwumGetStatus ==
    [start |-> Call("KfwumGetInfo", "banks"),
     banks |-> Loop("bank", "ok"),
     bank  |-> Get("FwumStatus", "banks")]

KfwumGetTraceLog == [start |-> Loop("chunk", "ok"), chunk |-> Get("FwumTrace", "start")]

(* Over the network a block without answer is sent again, one byte shorter, *)
(* and when that has been tried too often its length is 0 and the result    *)
(* still success.  On the other interfaces, and while the answer is busy,   *)
(* too long or duplicate, it is sent for ever.  A block that has been sent  *)
(* twice is there.                                                          *)
KfwumSaveFirmwareImage ==
    [start  |-> PutOr("FwumBlock", "none", "code", "ok"),
     none   |-> Branch({"start", "lan"}),
     lan    |-> Loop("start", "empty"),
     empty  |-> Note("fwumEmpty", "ok"),
     code   |-> Branch({"start", "double", "once", "err"}),
     double |-> Check("FwumBlock", "err", "ok"),
     once   |-> Loop("start", "err")]

(* After a failure the block before is sent again, and a success sets the   *)
(* count of the tries back: when they alternate there is no end.            *)
KfwumUploadFirmware ==
    [start |-> CallOr("KfwumSaveFirmwareImage", "retry", "size"),
     retry |-> Repeat("start", "err"),
     size  |-> Noted("fwumEmpty", "err", "more"),
     more  |-> Repeat("start", "ok")]

(* "Infinite loop if BMC doesn't reply or replies 0xc0 every time."         *)
KfwumFinishFirmwareImage ==
    [start |-> PutOr("FwumFinish", "start", "code", "ok"),
     code  |-> Branch({"start", "err"})]

ipmi_fwum_info ==
    [start  |-> CallOr("KfwumGetDeviceInfo", "other", "info"),
     other  |-> Do("KfwumGetInfo", "err"),
     info   |-> CallOr("KfwumGetInfo", "err", "ok")]

ipmi_fwum_status == Asks(CallOr("KfwumGetStatus", "err", "ok"))

ipmi_fwum_fwupgrade ==
    [start   |-> CallOr("KfwumGetFileSize", "err", "buffers"),
     buffers |-> CallOr("KfwumSetupBuffersFromFile", "err", "header"),
     header  |-> CallOr("KfwumGetInfoFromFirmware", "err", "device"),
     device  |-> CallOr("KfwumGetDeviceInfo", "err", "compat"),
     compat  |-> CallOr("ipmi_kfwum_checkfwcompat", "err", "info"),
     info    |-> Do("KfwumGetInfo", "image"),
     image   |-> CallOr("KfwumStartFirmwareImage", "err", "upload"),
     upload  |-> CallOr("KfwumUploadFirmware", "err", "finish"),
     finish  |-> CallOr("KfwumFinishFirmwareImage", "err", "status"),
     status  |-> CallOr("KfwumGetStatus", "err", "action"),
     action  |-> Branch({"ok", "upgrade"}),
     upgrade |-> CallOr("KfwumStartFirmwareUpgrade", "err", "ok")]

ipmi_fwum_main ==
    Dispatch({"ipmi_fwum_info", "ipmi_fwum_status", "KfwumManualRollback", "ipmi_fwum_fwupgrade",
              "KfwumStartFirmwareUpgrade", "KfwumGetTraceLog"})

-----------------------------------------------------------------------------
ImeImageCtxFromFile      == Parses
ImeUpdatePrepare         == Asks(Put("ImePrepare", "ok"))
ImeUpdateOpenArea        == Asks(Put("ImeOpen", "ok"))
ImeUpdateWriteArea       == Checked(Put("ImeWrite", "ok"))
ImeUpdateCloseArea       == Asks(Put("ImeClose", "ok"))
ImeUpdateRegisterUpdate  == Asks(Put("ImeRegister", "ok"))
ImeUpdateGetStatus       == [start |-> Get("ImeStatus", "size"), size |-> Branch({"ok", "err"})]
ImeUpdateGetCapabilities == [start |-> Get("ImeCaps", "size"), size |-> Branch({"ok", "err"})]

ImeGetInfo ==
    [start  |-> Get("DeviceId", "kind"),
     kind   |-> Branch({"err", "status"}),
     status |-> Call("ImeUpdateGetStatus", "caps"),
     caps   |-> Call("ImeUpdateGetCapabilities", "ok")]

(* Each request is followed by one for the state, which is to be the one    *)
(* that the next needs.  Whatever the state is in the end, 0 is returned.   *)
ImeUpgrade ==
    [start    |-> CallOr("ImeImageCtxFromFile", "err", "state"),
     state    |-> Call("ImeUpdateGetStatus", "prepare"),
     prepare  |-> CallOr("ImeUpdatePrepare", "failed", "prepared"),
     prepared |-> CallOr("ImeUpdateGetStatus", "err", "toOpen"),
     toOpen   |-> Branch({"err", "open"}),
     open     |-> CallOr("ImeUpdateOpenArea", "failed", "opened"),
     opened   |-> CallOr("ImeUpdateGetStatus", "err", "toWrite"),
     toWrite  |-> Branch({"err", "blocks"}),
     blocks   |-> Loop("write", "written"),
     write    |-> CallOr("ImeUpdateWriteArea", "failed", "blocks"),
     written  |-> CallOr("ImeUpdateGetStatus", "err", "toClose"),
     toClose  |-> Branch({"err", "close"}),
     close    |-> CallOr("ImeUpdateCloseArea", "failed", "closed"),
     closed   |-> CallOr("ImeUpdateGetStatus", "err", "toReg"),
     toReg    |-> Branch({"err", "register"}),
     register |-> CallOr("ImeUpdateRegisterUpdate", "failed", "last"),
     last     |-> CallOr("ImeUpdateGetStatus", "err", "ok"),
     failed   |-> Do("ImeUpdateGetStatus", "err")]

ImeManualRollback ==
    [start  |-> CallOr("ImeUpdateRegisterUpdate", "failed", "status"),
     status |-> Do("ImeUpdateGetStatus", "state"),
     state  |-> Branch({"ok", "err"}),
     failed |-> Do("ImeUpdateGetStatus", "err")]

ipmi_ime_main == Dispatch({"ImeGetInfo", "ImeUpgrade", "ImeManualRollback"})

(* The functions by name. *)
FirmwareCode ==
    [KfwumGetFileSize |-> KfwumGetFileSize,
     KfwumSetupBuffersFromFile |-> KfwumSetupBuffersFromFile,
     KfwumGetInfoFromFirmware |-> KfwumGetInfoFromFirmware,
     ipmi_kfwum_checkfwcompat |-> ipmi_kfwum_checkfwcompat,
     KfwumGetInfo |-> KfwumGetInfo, KfwumGetDeviceInfo |-> KfwumGetDeviceInfo,
     KfwumManualRollback |-> KfwumManualRollback,
     KfwumStartFirmwareImage |-> KfwumStartFirmwareImage,
     KfwumStartFirmwareUpgrade |-> KfwumStartFirmwareUpgrade,
     KfwumGetStatus |-> KfwumGetStatus, KfwumGetTraceLog |-> KfwumGetTraceLog,
     KfwumSaveFirmwareImage |-> KfwumSaveFirmwareImage,
     KfwumUploadFirmware |-> KfwumUploadFirmware,
     KfwumFinishFirmwareImage |-> KfwumFinishFirmwareImage,
     ipmi_fwum_info |-> ipmi_fwum_info, ipmi_fwum_status |-> ipmi_fwum_status,
     ipmi_fwum_fwupgrade |-> ipmi_fwum_fwupgrade, ipmi_fwum_main |-> ipmi_fwum_main,
     ImeImageCtxFromFile |-> ImeImageCtxFromFile, ImeUpdatePrepare |-> ImeUpdatePrepare,
     ImeUpdateOpenArea |-> ImeUpdateOpenArea, ImeUpdateWriteArea |-> ImeUpdateWriteArea,
     ImeUpdateCloseArea |-> ImeUpdateCloseArea,
     ImeUpdateRegisterUpdate |-> ImeUpdateRegisterUpdate,
     ImeUpdateGetStatus |-> ImeUpdateGetStatus,
     ImeUpdateGetCapabilities |-> ImeUpdateGetCapabilities, ImeGetInfo |-> ImeGetInfo,
     ImeUpgrade |-> ImeUpgrade, ImeManualRollback |-> ImeManualRollback,
     ipmi_ime_main |-> ipmi_ime_main]

=============================================================================
