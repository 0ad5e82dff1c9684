--------------------------- MODULE CommandRunner ---------------------------
(***************************************************************************)
(* One run of ipmitool: ipmi_main() opens the interface and gives the      *)
(* arguments to one command, which calls functions and sends requests      *)
(* until it is done, and main() turns its result into the exit status      *)
(* (src/lib/ipmi_main.c, src/src/ipmitool.c).  Code is the table of the    *)
(* functions of the command modules, in the notation of CommandSteps.      *)
(*                                                                         *)
(* The BMC is external.  It may refuse any request, or leave it            *)
(* unanswered, having carried it out or not.                               *)
(***************************************************************************)
EXTENDS CommandTable, Sequences

CONSTANTS
    Rounds,      \* bound on the rounds of a Loop
    Unreported,  \* requests whose failure the code leaves out of the result
    LeftLocked,  \* groups of parameters that may be left "set in progress"
    Stale,       \* functions that return with another target
    Unchecked,   \* functions that read a response that need not be there
    Endless      \* functions that send a request again as often as it takes

ASSUME CommandsAssumption == ipmitool_cmd_list \subseteq DOMAIN Code /\ Rounds \in Nat

VARIABLES
    stack,    \* the calls under way: function, place, rounds of its loops,
              \* and the target at its entry
    exit,     \* how the program ended; "running": it has not
    refused,  \* requests that change the BMC whose last try did not succeed,
              \* and whether the BMC refused ("bad") or did not answer ("none")
    locked,   \* groups of parameters the BMC has "set in progress"
    target,   \* intf->target_addr: the BMC's, or "other"
    noted     \* the flags of the program that are set

vars == <<stack, exit, refused, locked, target, noted>>

-----------------------------------------------------------------------------
(* Slip: the target is not saved when a function is entered.                *)
FrameUnsaved(p, t) == [proc |-> p, at |-> "start", rounds |-> <<>>, entry |-> "unset"]

Frame(p, t) == [proc |-> p, at |-> "start", rounds |-> <<>>, entry |-> t]

Init ==
    /\ stack = <<Frame("ipmi_main", "bmc")>>
    /\ exit = "running"
    /\ refused = {} /\ locked = {} /\ noted = {}
    /\ target = "bmc"

Depth == Len(stack)
Top   == stack[Depth]
Step  == Code[Top.proc][Top.at]

AtStep(op) == exit = "running" /\ Top.at \notin Ends /\ Step.op = op

Goto(place) == stack' = [stack EXCEPT ![Depth].at = place]

(* A request that reads.                                                    *)
SendGet ==
    /\ AtStep("get")
    /\ \E place \in {Step.none, Step.bad, Step.ok} : Goto(place)
    /\ UNCHANGED <<exit, refused, locked, target, noted>>

(* The failures that stand when this request succeeds.  A request is known  *)
(* by what it writes, not by the object it writes it to: where a command    *)
(* goes on to another user, record or block after a failure, a success      *)
(* there settles it.                                                        *)
Settled == {r \in refused : r[1] # Step.req}

(* A request that changes the BMC.                                          *)
SendPut ==
    /\ AtStep("put")
    /\ \/ Goto(Step.ok)   /\ refused' = Settled
       \/ Goto(Step.none) /\ refused' = Settled \cup {<<Step.req, "none">>}
       \/ Goto(Step.bad)  /\ refused' = Settled \cup {<<Step.req, "bad">>}
    /\ UNCHANGED <<exit, locked, target, noted>>

(* What was written is read back.                                           *)
ReadBack ==
    /\ AtStep("check")
    /\ \/ Goto(Step.same)  /\ refused' = Settled
       \/ Goto(Step.other) /\ UNCHANGED refused
    /\ UNCHANGED <<exit, locked, target, noted>>

(* "Set in progress" and "set complete": without an answer it may have been *)
(* carried out.                                                             *)
SendLock ==
    /\ AtStep("lock")
    /\ \/ Goto(Step.ok) /\ locked' = locked \cup {Step.req}
       \/ Goto(Step.bad) /\ UNCHANGED locked
       \/ Goto(Step.none) /\ locked' \in {locked, locked \cup {Step.req}}
    /\ UNCHANGED <<exit, refused, target, noted>>

(* Slip: "set in progress" is written where "set complete" should be.       *)
SendUnlockLocks ==
    /\ AtStep("unlock")
    /\ \/ Goto(Step.ok) /\ locked' = locked \cup {Step.req} /\ refused' = Settled
       \/ /\ Goto(Step.bad) /\ UNCHANGED locked
          /\ refused' = Settled \cup {<<Step.req, "bad">>}
       \/ /\ Goto(Step.none) /\ locked' \in {locked, locked \cup {Step.req}}
          /\ refused' = Settled \cup {<<Step.req, "none">>}
    /\ UNCHANGED <<exit, target, noted>>

SendUnlock ==
    /\ AtStep("unlock")
    /\ \/ Goto(Step.ok) /\ locked' = locked \ {Step.req} /\ refused' = Settled
       \/ /\ Goto(Step.bad) /\ UNCHANGED locked
          /\ refused' = Settled \cup {<<Step.req, "bad">>}
       \/ /\ Goto(Step.none) /\ locked' \in {locked, locked \ {Step.req}}
          /\ refused' = Settled \cup {<<Step.req, "none">>}
    /\ UNCHANGED <<exit, target, noted>>

TakeBranch ==
    /\ AtStep("branch")
    /\ \E place \in Step.to : Goto(place)
    /\ UNCHANGED <<exit, refused, locked, target, noted>>

Round == IF Top.at \in DOMAIN Top.rounds THEN Top.rounds[Top.at] ELSE 0

(* The counts of the function's loops, with that of this one set to n.      *)
Counting(n) ==
    [at \in DOMAIN Top.rounds \cup {Top.at} |-> IF at = Top.at THEN n ELSE Top.rounds[at]]

GoRound ==
    /\ AtStep("loop")
    /\ \/ /\ Round < Rounds
          /\ stack' = [stack EXCEPT ![Depth].at = Step.body,
                                    ![Depth].rounds = Counting(Round + 1)]
       \/ stack' = [stack EXCEPT ![Depth].at = Step.done,
                                 ![Depth].rounds = Counting(0)]
    /\ UNCHANGED <<exit, refused, locked, target, noted>>

(* Slip: the target of the caller is not put back.                          *)
SetTargetKept ==
    /\ \/ AtStep("aim") /\ target' = "other"
       \/ AtStep("back") /\ UNCHANGED target
       \/ AtStep("backFrom") /\ target' = stack[Depth - 1].entry
    /\ Goto(Step.next)
    /\ UNCHANGED <<exit, refused, locked, noted>>

SetTarget ==
    /\ \/ AtStep("aim") /\ target' = "other"
       \/ AtStep("back") /\ target' = Top.entry
       \/ AtStep("backFrom") /\ target' = stack[Depth - 1].entry
    /\ Goto(Step.next)
    /\ UNCHANGED <<exit, refused, locked, noted>>

SetFlag ==
    /\ \/ AtStep("note") /\ noted' = noted \cup {Step.flag}
       \/ AtStep("forget") /\ noted' = noted \ {Step.flag}
    /\ Goto(Step.next)
    /\ UNCHANGED <<exit, refused, locked, target>>

TestFlag ==
    /\ AtStep("noted")
    /\ Goto(IF Step.flag \in noted THEN Step.yes ELSE Step.no)
    /\ UNCHANGED <<exit, refused, locked, target, noted>>

CallProc ==
    /\ AtStep("call")
    /\ stack' = Append(stack, Frame(Step.proc, target))
    /\ UNCHANGED <<exit, refused, locked, target, noted>>

(* The caller goes on with the result.                                      *)
Return ==
    /\ exit = "running" /\ Depth > 1 /\ Top.at \in Returns
    /\ LET caller == stack[Depth - 1] IN
       stack' = [SubSeq(stack, 1, Depth - 1) EXCEPT ![Depth - 1].at =
                    Code[caller.proc][caller.at][Top.at]]
    /\ UNCHANGED <<exit, refused, locked, target, noted>>

(* Slip: the result of the command is not looked at.                        *)
ExitStatusIgnored(result) == "success"

(* if (rc < 0) exit(EXIT_FAILURE); else exit(EXIT_SUCCESS);                 *)
ExitStatus(result) == IF result \in {"ok", "pos"} THEN "success" ELSE "failure"

(* The command is done, or the program with it.                             *)
Finish ==
    /\ exit = "running" /\ Top.at \in Ends
    /\ Depth = 1 \/ Top.at \in {"exit", "crash"}
    /\ exit' = IF Top.at = "crash" THEN "crash" ELSE ExitStatus(Top.at)
    /\ UNCHANGED <<stack, refused, locked, target, noted>>

Done == exit # "running" /\ UNCHANGED vars

Next ==
    \/ SendGet \/ SendPut \/ ReadBack \/ SendLock \/ SendUnlock
    \/ TakeBranch \/ GoRound \/ SetTarget \/ SetFlag \/ TestFlag
    \/ CallProc \/ Return \/ Finish
    \/ Done

Spec == Init /\ [][Next]_vars

(* The program runs, and every request is answered or times out.            *)
FairSpec == Spec /\ WF_vars(Next)

-----------------------------------------------------------------------------
(* Properties. *)

(* Every place a function goes to is one of its own or a return, and every  *)
(* function called is one of the table.                                     *)
TypeOK ==
    /\ \A i \in DOMAIN stack :
          /\ stack[i].proc \in DOMAIN Code
          /\ stack[i].at \in DOMAIN Code[stack[i].proc] \cup Ends
          /\ stack[i].entry \in {"bmc", "other"}
    /\ exit \in {"running", "success", "failure", "crash"}
    /\ target \in {"bmc", "other"}

(* The exit status is the only answer a script gets: it says success only   *)
(* when the BMC has carried out what the command asked for last, but for    *)
(* the requests whose failure the code is known to leave out.               *)
ExitHonest == exit = "success" => refused \subseteq Unreported

(* A command that has begun to set a group of parameters does not leave it  *)
(* "set in progress", which keeps every other console out, unless the BMC   *)
(* did not take the end of it.                                              *)
LocksReleased ==
    exit \in {"success", "failure"} => locked \subseteq {r[1] : r \in refused} \cup LeftLocked

(* A function that sends requests to another controller leaves the target   *)
(* as it was, on every path: the next request, and in the shell the next    *)
(* command, would go to the wrong controller.                               *)
TargetRestored ==
    \/ Top.at \notin Returns
    \/ target = Top.entry
    \/ Top.proc \in Stale

(* No response is read that did not come.                                   *)
NoCrash == exit = "crash" => Top.proc \in Unchecked

(* A command ends whatever the BMC answers and however often it does not:   *)
(* the retries of requests are bounded, but for those of Endless.           *)
CommandEnds ==
    <>[](exit # "running" \/ \E i \in DOMAIN stack : stack[i].proc \in Endless)

=============================================================================
