----------------------------- MODULE SelSystem -----------------------------
(***************************************************************************)
(* The event daemon and ipmitool on the same System Event Log, while the   *)
(* BMC goes on logging events and other clients reserve the log.           *)
(***************************************************************************)
EXTENDS SelPolling, SelCommands

vars == <<daemonVars, cmdVars, selVars>>

Init == SelInit /\ DaemonInit /\ CmdInit

Next ==
    \/ Daemon /\ UNCHANGED cmdVars
    \/ Command /\ UNCHANGED daemonVars
    \/ (LogEvent \/ LoseReservation) /\ UNCHANGED <<daemonVars, cmdVars>>

Spec == Init /\ [][Next]_vars

(* The daemon runs: every request is answered or times out.                 *)
FairSpec == Spec /\ WF_vars(Daemon /\ UNCHANGED cmdVars)

-----------------------------------------------------------------------------
(* The properties. *)

(* What the types of the variables are. *)
TypeOK == SelTypeOK /\ DaemonTypeOK /\ CmdTypeOK

ReportedUpTo(n) == {reported[i].event : i \in 1 .. n}

(* Only the first record of the log, read under id 0, is ever reported a    *)
(* second time or although it is older than the daemon.  Any other is       *)
(* reported once and in order, even if records are deleted or the log is    *)
(* cleared and its ids given out again while the daemon reads, as long as   *)
(* it gets to the end of its readings.                                      *)
ReportedOnce ==
    ~short => \A i \in 1 .. Len(reported) :
                 reported[i].id # 0 =>
                     /\ reported[i].event > base
                     /\ \A j \in 1 .. i - 1 : reported[j].event < reported[i].event

(* While nobody removes records and no request fails, the daemon reports    *)
(* the events logged since it was set up without a gap, although events are *)
(* logged while it reads and the count it compares is older than what it    *)
(* has read.                                                                *)
ReportedWithoutGap ==
    (~short /\ removals = 0) =>
        \A i \in 1 .. Len(reported) : base + 1 .. reported[i].event \subseteq ReportedUpTo(i)

(* An event logged after selwatch_setup() is reported in the end, unless    *)
(* records are removed or a request fails.                                  *)
EventReported ==
    \A e \in 1 .. MaxEvents :
        (pc \notin {"setup", "setup_walk"} /\ base < e /\ e <= logged)
            ~> (short \/ removals > 0 \/ e \in ReportedUpTo(Len(reported)))

(* "Show only the most recent 'count' records": where no request failed and *)
(* nothing was removed, "list last" shows the last records and what was     *)
(* logged meanwhile.                                                        *)
ListedLast ==
    (at = "idle" /\ arg < 0 /\ rc = 0 /\ removals = 0 /\ faults = 0 /\ shown # <<>>) =>
        /\ shown[1] = IF -arg <= since THEN since + arg + 1 ELSE 1
        /\ shown[Len(shown)] >= since

(* "sel clear" and "sel delete" report success only if all that was to go   *)
(* has gone, also where the reservation is lost halfway.                    *)
RemovedWhatWasAsked == (at = "idle" /\ rc = 0) => undone = {}

=============================================================================
