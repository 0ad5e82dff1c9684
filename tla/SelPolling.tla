----------------------------- MODULE SelPolling -----------------------------
(***************************************************************************)
(* The event daemon polls the System Event Log: selwatch_setup(),          *)
(* selwatch_check(), selwatch_read(), selwatch_get_lastid() and            *)
(* selwatch_wait() of src/src/ipmievd.c.                                   *)
(*                                                                         *)
(* An action is one request of the daemon with what follows it up to the   *)
(* next request.  In between, the BMC logs events and other clients change *)
(* the log.                                                                *)
(***************************************************************************)
EXTENDS SelDevice

VARIABLES
    pc,         \* "setup": in selwatch_setup(); "setup_walk", "check_walk":
                \* in selwatch_get_lastid() from there and from
                \* selwatch_check(); "sleep": in selwatch_wait() before
                \* selwatch_check(); "read": in selwatch_read()
    count,      \* selwatch_count
    lastid,     \* selwatch_lastid
    next,       \* next_id of selwatch_get_lastid() and selwatch_read()
    base,       \* history: events logged when selwatch_setup() was done
    reported,   \* what was given to log_event(): events with the id asked for
    short       \* history: a reading or a walk ended before the last record

daemonVars == <<pc, count, lastid, next, base, reported, short>>

DaemonTypeOK ==
    /\ pc \in {"setup", "setup_walk", "check_walk", "sleep", "read"}
    /\ count \in Nat /\ lastid \in 0 .. End - 1 /\ next \in 0 .. End - 1
    /\ base \in Nat
    /\ reported \in Seq([event : Nat \ {0}, id : 0 .. End - 1])
    /\ short \in BOOLEAN

DaemonInit ==
    /\ pc = "setup"
    /\ count = 0 /\ lastid = 0 /\ next = 0 /\ base = 0
    /\ reported = <<>> /\ short = FALSE

(* selwatch_get_lastid() at its start, called with selwatch_count = n. *)
StartWalk(n, walk) ==
    IF n = 0
    THEN pc' = "sleep" /\ lastid' = 0 /\ UNCHANGED next
    ELSE pc' = walk /\ next' = 0 /\ UNCHANGED lastid

(* selwatch_setup(): selwatch_get_data(), and selwatch_get_lastid() up to   *)
(* its first request.  Without an answer the daemon goes on with a count of *)
(* 0, and all the log is news to it: ipmievd_main() looks for a negative    *)
(* result and gets 0.                                                       *)
selwatch_setup ==
    /\ pc = "setup"
    /\ \/ /\ count' = Len(sel)
          /\ StartWalk(Len(sel), "setup_walk")
          /\ base' = logged
          /\ UNCHANGED selVars
       \/ /\ faults < MaxFaults /\ faults' = faults + 1
          /\ pc' = "sleep"
          /\ UNCHANGED <<count, lastid, next, base, sel, nextId, logged, reserved>>
    /\ UNCHANGED <<reported, short>>

(* A slip: the count has to grow by more than one. *)
selwatch_check_misses_one ==
    /\ pc = "sleep"
    /\ count' = Len(sel)
    /\ IF Len(sel) > count + 1
       THEN pc' = "read" /\ next' = lastid
       ELSE UNCHANGED <<pc, next>>
    /\ lastid' = IF Len(sel) = 0 THEN 0 ELSE lastid
    /\ UNCHANGED <<base, reported, short, selVars>>

(* selwatch_check(), and selwatch_read() or selwatch_get_lastid() up to its *)
(* first request: the walk where the log has shrunk, the reading where it   *)
(* has grown.  Without an answer nothing changes.                           *)
selwatch_check ==
    /\ pc = "sleep"
    /\ count' = Len(sel)
    /\ IF Len(sel) < count
       THEN StartWalk(Len(sel), "check_walk")
       ELSE IF Len(sel) > count
       THEN pc' = "read" /\ next' = lastid /\ UNCHANGED lastid
       ELSE /\ lastid' = IF Len(sel) = 0 THEN 0 ELSE lastid
            /\ UNCHANGED <<pc, next>>
    /\ UNCHANGED <<base, reported, short, selVars>>

(* The loop goes on to the next record, or curr_id is the last one.  It is  *)
(* the id asked for, 0 if there was but one record.                         *)
Advance(i) ==
    IF NextOf(i) = End
    THEN pc' = "sleep" /\ lastid' = next /\ UNCHANGED next
    ELSE next' = NextOf(i) /\ UNCHANGED <<pc, lastid>>

Walking == pc \in {"setup_walk", "check_walk"}

(* A request of selwatch_get_lastid(). *)
selwatch_get_lastid ==
    /\ Walking
    /\ \E i \in Positions(next) : Advance(i)
    /\ base' = IF pc = "setup_walk" THEN logged ELSE base
    /\ UNCHANGED <<count, reported, short, selVars>>

(* Two slips: the record selwatch_lastid names is reported, or the first    *)
(* one is taken for it.                                                     *)
IsNewAlways(id) == TRUE

IsNewNeverFirst(id) == id # lastid

IsNew(id) == id # lastid \/ id = 0

(* A request of selwatch_read(): the record is reported unless it is the    *)
(* one last seen.                                                           *)
selwatch_read ==
    /\ pc = "read"
    /\ \E i \in Positions(next) :
         /\ reported' = IF IsNew(next)
                        THEN Append(reported, [event |-> sel[i].event, id |-> next])
                        ELSE reported
         /\ Advance(i)
    /\ UNCHANGED <<count, base, short, selVars>>

(* The request for a record fails, and so does its repetition: the loop is  *)
(* left, and the id that was not read becomes the last one seen.            *)
EntryNotRead ==
    /\ Walking \/ pc = "read"
    /\ EntryFails(next)
    /\ pc' = "sleep"
    /\ lastid' = next
    /\ base' = IF pc = "setup_walk" THEN logged ELSE base
    /\ short' = TRUE
    /\ UNCHANGED <<count, next, reported, sel, nextId, logged, reserved>>

Daemon == selwatch_setup \/ selwatch_check \/ selwatch_get_lastid \/ selwatch_read \/ EntryNotRead

=============================================================================
