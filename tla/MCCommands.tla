----------------------------- MODULE MCCommands ----------------------------
(***************************************************************************)
(* One run of ipmitool, with every command of the table.  The sets below   *)
(* are the places where the code falls short of the properties: every      *)
(* element of every one of them is needed, and no other.                   *)
(***************************************************************************)
EXTENDS CommandFlow

Either(reqs) == reqs \X {"none", "bad"}

(* The function that sends the request prints what went wrong, or nothing,  *)
(* and returns 0 or a completion code, for which main() exits with success. *)
MCUnreported ==
    Either({"ActivateFirmware", "AddSdr", "BootCommit", "BootFlags", "BootOptions", "ClearSdr",
            "CommandA", "CommandB", "DcmiParam", "DeactivateSol", "FruData", "IsolDeactivate",
            "LanCommit", "LanParams", "LargeBuffer", "MasterWriteRead", "MngCtrlId", "NicSelection",
            "PowerCapStatus", "SolCommit", "SubfnEnables", "TsolKeys", "VlanParam"})
    \cup {<<"ColdReset", "none">>}
    \cup {"AlertParam", "BootFlagValid", "BootInfoAck", "BootMailbox", "Lan6Commit", "Lan6Lock",
          "Lan6Params", "SetSysInfo", "SetWatchdog"} \X {"bad"}

(* Early returns between "set in progress" and "set complete".              *)
MCLeftLocked == {"BootOptions", "Lan6Params", "SolParams"}

(* "set targetaddr" of the shell is meant to; the others lose the target    *)
(* when a copy of the sensor records to another controller fails.           *)
MCStale ==
    {"ipmi_set_main", "sdr_copy_slot", "ipmi_sdr_add_from_sensors", "ipmi_sdr_add_from_list",
     "ipmi_sdr_main", "ipmi_main"}

(* A record whose header could be read and whose body could not.            *)
MCUnchecked == {"sdrr_get_records"}

(* A node that stays busy (HPM.1), a controller that never answers, or that *)
(* keeps giving an answer after which there is more to do; and the consoles *)
(* and the shell, which go on as long as the user does.  A function called  *)
(* only below one of them is not listed.                                    *)
MCEndless ==
    {"HpmfwupgGetDeviceId", "HpmfwupgGetTargetUpgCapabilities", "HpmfwupgGetComponentProperties",
     "HpmfwupgGetUpgradeStatus", "HpmfwupgAbortUpgrade", "HpmfwupgInitiateUpgradeAction",
     "HpmFwupgActionUploadFirmware", "HpmfwupgActivateFirmware", "HpmfwupgQueryRollbackStatus",
     "HpmfwupgQuerySelftestResult", "HpmfwupgManualFirmwareRollback", "KfwumUploadFirmware",
     "KfwumFinishFirmwareImage",
     "ipmi_dcmi_prnt_get_temp_readings", "ipmi_dcmi_prnt_discvry_snsr", "ipmi_sdr_get_record",
     "cfgp_get_param", "ipmi_sunoem_nacname", "ipmi_sunoem_getfile",
     "ipmi_sunoem_cli", "ipmi_sol_red_pill", "ipmi_isol_red_pill", "ipmi_tsol_main",
     "ipmi_shell_main"}

-----------------------------------------------------------------------------
(* The tables of CommandFlow: the least, and for what is cleared the        *)
(* greatest, that are closed under the steps of the code.                   *)

RECURSIVE FixReached(_)
FixReached(t) ==
    LET After(s) == IF s.op = "call" THEN {s[r] : r \in Returns \cap t[s.proc]} ELSE Targets(s)
        u == [p \in DOMAIN Code |-> {"start"} \cup UNION {After(Code[p][at]) : at \in t[p] \ Ends}] IN
    IF u = t THEN t ELSE FixReached(u)

ReachedTable == FixReached([p \in DOMAIN Code |-> {}])

RECURSIVE FixForgets(_)
FixForgets(t) ==
    LET Of(s) == IF s.op = "forget" THEN {s.flag} ELSE IF s.op = "call" THEN t[s.proc] ELSE {}
        u == [p \in DOMAIN Code |-> UNION {Of(s) : s \in StepsOf(p)}] IN
    IF u = t THEN t ELSE FixForgets(u)

ForgetsTable == FixForgets([p \in DOMAIN Code |-> {}])

RECURSIVE FixQuits(_)
FixQuits(t) ==
    LET u == {p \in DOMAIN Code : \/ "exit" \in ReachedTable[p]
                                  \/ \E s \in StepsOf(p) : s.op = "call" /\ s.proc \in t} IN
    IF u = t THEN t ELSE FixQuits(u)

QuitsTable == FixQuits({})

(* The steps that may go to a place, and the calls that may, each with the  *)
(* function called and its result.                                          *)
StepsTo ==
    [p \in DOMAIN Code |-> [to \in ReachedTable[p] |->
        {at \in ReachedTable[p] \ Ends : Code[p][at].op # "call" /\ to \in Targets(Code[p][at])}]]

CallsTo ==
    LET Calls(p) == UNION {{<<at, Code[p][at].proc, r>> : r \in Returns} :
                              at \in {at \in ReachedTable[p] \ Ends : Code[p][at].op = "call"}} IN
    [p \in DOMAIN Code |-> [to \in ReachedTable[p] |->
        {c \in Calls(p) : c[3] \in ReachedTable[c[2]] /\ Code[p][c[1]][c[3]] = to}]]

Requests ==
    LET Of(p) == {s.req : s \in {t \in StepsOf(p) : t.op \in {"put", "unlock", "check"}}} IN
    UNION {Of(p) : p \in DOMAIN Code}

RECURSIVE FixCleared(_)
FixCleared(t) ==
    LET Common(sets)  == {q \in Requests : \A set \in sets : q \in set}
        Behind(p, to) == {StepCleared(t[p][at], Code[p][at], to) : at \in StepsTo[p][to]}
                            \cup {t[p][c[1]] \cup t[c[2]][c[3]] : c \in CallsTo[p][to]}
        u == [p \in DOMAIN Code |-> [to \in ReachedTable[p] |->
                 IF to = "start" THEN {} ELSE Common(Behind(p, to))]] IN
    IF u = t THEN t ELSE FixCleared(u)

ClearedTable ==
    FixCleared([p \in DOMAIN Code |-> [to \in ReachedTable[p] |->
                   IF to = "start" THEN {} ELSE Requests]])

RECURSIVE FixMay(_)
FixMay(t) ==
    LET u == [p \in DOMAIN Code |-> [to \in ReachedTable[p] |->
                 UNION {StepEntries(t[p][at], Code[p][at], to) : at \in StepsTo[p][to]}
                 \cup UNION {CallEntries(t[p][c[1]], ForgetsTable[c[2]], ClearedTable[c[2]][c[3]])
                               \cup t[c[2]][c[3]] : c \in CallsTo[p][to]}]] IN
    IF u = t THEN t ELSE FixMay(u)

MayTable == FixMay([p \in DOMAIN Code |-> [to \in ReachedTable[p] |-> {}]])

RECURSIVE FixShifted(_)
FixShifted(t) ==
    LET u == [p \in DOMAIN Code |-> {to \in ReachedTable[p] :
                 \/ \E at \in StepsTo[p][to] : StepShifts(Code[p][at], at \in t[p])
                 \/ \E c \in CallsTo[p][to] : c[1] \in t[p] \/ c[3] \in t[c[2]]}] IN
    IF u = t THEN t ELSE FixShifted(u)

ShiftedTable == FixShifted([p \in DOMAIN Code |-> {}])

MCReached(p)     == ReachedTable[p]
MCForgets(p)     == ForgetsTable[p]
MCQuits(p)       == p \in QuitsTable
MCCleared(p, at) == ClearedTable[p][at]
MCMay(p, at)     == MayTable[p][at]
MCShifted(p)     == ShiftedTable[p]

=============================================================================
