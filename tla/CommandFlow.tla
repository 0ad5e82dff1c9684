---------------------------- MODULE CommandFlow ----------------------------
(***************************************************************************)
(* What can be said of every place of every function, whatever led there:  *)
(* tables, on which the proofs about CommandRunner rest.  They need not be *)
(* the sharpest, only closed under the steps of Code, which TLC evaluates. *)
(* They hold for any number of rounds of the loops.                        *)
(*                                                                         *)
(* A fact is a pair: <<request, "none">> and <<request, "bad">> say that   *)
(* the request's last try failed, <<group, "locked">> that the group is    *)
(* "set in progress" and that the end of it was not refused.  An entry of  *)
(* May is a fact and a set of flags that are noted if it is true.          *)
(***************************************************************************)
EXTENDS CommandRunner

CONSTANTS
    Reached(_),     \* the places the function gets to
    May(_, _),      \* facts that may have become true since its entry, at a place
    Cleared(_, _),  \* requests whose facts before that are no longer true
    Forgets(_),     \* flags the function, or one it calls, may reset
    Quits(_),       \* whether it, or one it calls, may call exit()
    Shifted(_)      \* places where the target may not be that of the entry

Places(p) == DOMAIN Code[p] \cup Ends

(* Where a step may go on. *)
Targets(s) ==
    CASE s.op \in {"get", "put", "lock", "unlock"} -> {s.none, s.bad, s.ok}
      [] s.op = "check"  -> {s.other, s.same}
      [] s.op = "branch" -> s.to
      [] s.op = "loop"   -> {s.body, s.done}
      [] s.op = "noted"  -> {s.yes, s.no}
      [] s.op = "call"   -> {s.err, s.pos, s.ok}
      [] OTHER           -> {s.next}

-----------------------------------------------------------------------------
(* What a step that is not a call does, if it goes to the place to. *)

Settles(s, to) ==
    \/ s.op \in {"put", "unlock"}
    \/ s.op = "check" /\ to # s.other

Creates(s, to) ==
    IF s.op \in {"put", "unlock"}
    THEN {f \in {<<s.req, "none">>, <<s.req, "bad">>} : s[f[2]] = to}
    ELSE IF s.op = "lock" /\ to \in {s.ok, s.none} THEN {<<s.req, "locked">>} ELSE {}

(* The entry e is not of a request that is tried, nor does it say that a   *)
(* flag found reset is noted.                                              *)
Survives(e, s, to) ==
    /\ Settles(s, to) => e[1][1] # s.req
    /\ (s.op = "noted" /\ to # s.yes) => s.flag \notin e[2]

Flagged(e, s) ==
    <<e[1], CASE s.op = "note"   -> e[2] \cup {s.flag}
              [] s.op = "forget" -> e[2] \ {s.flag}
              [] OTHER           -> e[2]>>

StepEntries(entries, s, to) ==
    {Flagged(e, s) : e \in {d \in entries : Survives(d, s, to)}}
       \cup {<<f, {}>> : f \in Creates(s, to)}

StepCleared(reqs, s, to) == IF Settles(s, to) THEN reqs \cup {s.req} ELSE reqs

StepShifts(s, shifted) == s.op \in {"aim", "backFrom"} \/ (shifted /\ s.op # "back")

(* A call of a function that resets some flags and clears some requests. *)
CallEntries(entries, flags, reqs) ==
    {<<e[1], e[2] \ flags>> : e \in {d \in entries : d[1][1] \notin reqs}}

-----------------------------------------------------------------------------
(* The tables are closed. *)

StepClosed(p, at) ==
    LET s == Code[p][at] IN
    /\ \A to \in Targets(s) :
          /\ to \in Reached(p)
          /\ StepEntries(May(p, at), s, to) \subseteq May(p, to)
          /\ Cleared(p, to) \subseteq StepCleared(Cleared(p, at), s, to)
          /\ StepShifts(s, at \in Shifted(p)) => to \in Shifted(p)
    /\ s.op = "forget" => s.flag \in Forgets(p)

CallClosed(p, at) ==
    LET s == Code[p][at]
        q == s.proc IN
    /\ q \in DOMAIN Code /\ Forgets(q) \subseteq Forgets(p) /\ (Quits(q) => Quits(p))
    /\ \A r \in Returns \cap Reached(q) :
          /\ s[r] \in Reached(p)
          /\ CallEntries(May(p, at), Forgets(q), Cleared(q, r)) \subseteq May(p, s[r])
          /\ May(q, r) \subseteq May(p, s[r])
          /\ Cleared(p, s[r]) \subseteq Cleared(p, at) \cup Cleared(q, r)
          /\ (at \in Shifted(p) \/ r \in Shifted(q)) => s[r] \in Shifted(p)

FunctionClosed(p) ==
    /\ "start" \in Reached(p) /\ Reached(p) \subseteq Places(p)
    /\ DOMAIN Code[p] \cap Ends = {}
    /\ Cleared(p, "start") = {} /\ ("exit" \in Reached(p) => Quits(p))
    /\ \A at \in Reached(p) \ Ends :
          IF Code[p][at].op = "call" THEN CallClosed(p, at) ELSE StepClosed(p, at)

(* The groups of parameters; no other request has the name of one. *)
StepsOf(p) == {Code[p][at] : at \in DOMAIN Code[p]}
Groups     == UNION {{s.req : s \in {t \in StepsOf(p) : t.op = "lock"}} : p \in DOMAIN Code}

ASSUME TablesAssumption == \A p \in DOMAIN Code : FunctionClosed(p)

ASSUME GroupsAssumption ==
    \A p \in DOMAIN Code : \A s \in StepsOf(p) : s.op \in {"put", "check"} => s.req \notin Groups

(* ipmi_main() is called by main(), and has no caller's target to restore. *)
ASSUME MainAssumption ==
    /\ "ipmi_main" \in DOMAIN Code
    /\ \A s \in StepsOf("ipmi_main") : s.op # "backFrom"

(* What the tables say, but for the exceptions, of the results of          *)
(* ipmi_main() and of the functions that return: all failures are          *)
(* reported, and the target is put back.                                   *)
ASSUME ReportedAssumption ==
    \A e \in May("ipmi_main", "ok") \cup May("ipmi_main", "pos") :
       e[1][2] = "locked" \/ e[1] \in Unreported

ASSUME RestoredAssumption ==
    \A p \in DOMAIN Code \ Stale : Shifted(p) \cap Returns = {}

(* And that no group stays locked, by ipmi_main() when it returns and by   *)
(* the functions that may be under way when the program exits.             *)
FunctionReleases(p) ==
    \A at \in Reached(p) : (p = "ipmi_main" /\ at \in Returns) \/ Quits(p) =>
       \A e \in May(p, at) : e[1][2] = "locked" => e[1][1] \in LeftLocked

ASSUME ReleasedAssumption == \A p \in DOMAIN Code : FunctionReleases(p)

=============================================================================
