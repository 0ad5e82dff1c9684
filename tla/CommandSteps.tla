---------------------------- MODULE CommandSteps ----------------------------
(***************************************************************************)
(* The notation in which the commands of ipmitool are modelled.  A C       *)
(* function that sends requests is a record: its fields are the places     *)
(* where it sends a request, calls another such function or branches, the  *)
(* values say what it does there and at which place it goes on.  "start"   *)
(* is its first place.  It ends at one of                                  *)
(*    "ok"     it returns 0 (or what its callers take for success),        *)
(*    "err"    it returns a negative number,                               *)
(*    "pos"    it returns a positive number, as a rule a completion code,  *)
(*    "exit"   it calls exit() with a failure,                             *)
(*    "crash"  it reads the response through a null pointer.               *)
(* The sign matters: main() exits with a failure for negative numbers only *)
(* (src/src/ipmitool.c).  Branches on arguments and on the data of         *)
(* responses go either way.                                                *)
(***************************************************************************)
EXTENDS Integers

Returns == {"ok", "err", "pos"}
Ends    == Returns \cup {"exit", "crash"}

Ask(op, req, none, bad, ok) ==
    [op |-> op, req |-> req, none |-> none, bad |-> bad, ok |-> ok]

(* intf->sendrecv() with a request that reads (Get) or changes (Put) the    *)
(* state of the BMC: no response, a completion code other than 0, success.  *)
GetOr(req, none, bad, ok) == Ask("get", req, none, bad, ok)
PutOr(req, none, bad, ok) == Ask("put", req, none, bad, ok)

(* The usual form: either failure makes the function return -1.             *)
Get(req, ok) == GetOr(req, "err", "err", ok)
Put(req, ok) == PutOr(req, "err", "err", ok)

(* "Set in progress", and "set complete", of a group of parameters.         *)
LockOr(group, none, bad, ok)   == Ask("lock", group, none, bad, ok)
UnlockOr(group, none, bad, ok) == Ask("unlock", group, none, bad, ok)

(* What a Put wrote is read back: it is there, or not (yet), or cannot be   *)
(* read.                                                                    *)
Check(req, other, same) == [op |-> "check", req |-> req, other |-> other, same |-> same]

(* A call of another function, and where to go on after a negative, a       *)
(* positive and a zero result.                                              *)
CallBy(proc, err, pos, ok) ==
    [op |-> "call", proc |-> proc, err |-> err, pos |-> pos, ok |-> ok]

(* The result is tested with if (rc).                                       *)
CallOr(proc, fail, ok) == CallBy(proc, fail, fail, ok)

(* A result other than 0 is handed to the caller.                           *)
Call(proc, ok) == CallBy(proc, "err", "pos", ok)

(* The result is not looked at.                                             *)
Do(proc, next) == CallBy(proc, next, next, next)

(* A choice the arguments or the data make.                                 *)
Branch(places) == [op |-> "branch", to |-> places]

(* The head of a loop that counts tries, or goes through a finite list: of  *)
(* the arguments, or the records the BMC holds.                             *)
Loop(body, done) == [op |-> "loop", body |-> body, done |-> done]

(* The head of a loop nothing counts: it goes on as long as what the BMC    *)
(* answers, or what the user types, makes it.                               *)
Repeat(body, done) == Branch({body, done})

(* intf->target_addr is set to another controller, to what it was when the  *)
(* function was entered, and to what it was when its caller was.            *)
Aim(next)      == [op |-> "aim", next |-> next]
Back(next)     == [op |-> "back", next |-> next]
BackFrom(next) == [op |-> "backFrom", next |-> next]

(* A variable of the program that is set, reset and tested.                 *)
Note(flag, next)      == [op |-> "note", flag |-> flag, next |-> next]
Forget(flag, next)    == [op |-> "forget", flag |-> flag, next |-> next]
Noted(flag, yes, no)  == [op |-> "noted", flag |-> flag, yes |-> yes, no |-> no]

(* Functions of a common form.  One that only sends one request:            *)
Asks(step) == [start |-> step]

(* one that hands a completion code to its caller, and when it reads wants a *)
(* response of the right size:                                              *)
Reads(req)  == [start |-> GetOr(req, "err", "pos", "size"), size |-> Branch({"ok", "err"})]
Writes(req) == Asks(PutOr(req, "err", "pos", "ok"))

(* one that asks the controller that owns a sensor, which need not be the   *)
(* target, and returns the response:                                        *)
Bridged(op, req) ==
    [start |-> Branch({"here", "aim"}),
     here  |-> Ask(op, req, "err", "pos", "ok"),
     aim   |-> Aim("there"),
     there |-> Ask(op, req, "none", "bad", "done"),
     none  |-> Back("err"),
     bad   |-> Back("pos"),
     done  |-> Back("ok")]

(* one that finds out from its arguments whether it may go on:              *)
Checked(step) == [start |-> Branch({"err", "send"}), send |-> step]

(* one that picks what to call by its arguments, prints a usage text and    *)
(* returns 0, or finds them wrong:                                          *)
Dispatch(procs) ==
    [place \in {"start"} \cup procs |->
        IF place = "start" THEN Branch(procs \cup {"ok", "err"}) ELSE Call(place, "ok")]

(* one that only looks at data, and accepts it or does not.                 *)
Parses == [start |-> Branch({"ok", "err"})]

=============================================================================
