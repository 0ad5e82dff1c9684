----------------------------- MODULE SelDevice -----------------------------
(***************************************************************************)
(* The System Event Log of a BMC, as its clients in this repository use    *)
(* it.  The BMC is external: its records have ascending ids, the next id   *)
(* of the last one is 0xffff, and an id that is not in the log is refused. *)
(* Events are numbered in the order they are logged.                       *)
(***************************************************************************)
EXTENDS Integers, Sequences

CONSTANTS
    MaxEvents,   \* bound on the events logged
    MaxFaults    \* bound on the requests that fail and the reservations lost

End == 65535   \* 0xffff: no record has this id

ASSUME BoundsAssumption == MaxEvents \in Nat /\ MaxFaults \in Nat /\ MaxEvents < End

VARIABLES
    sel,        \* the log: a sequence of records
    nextId,     \* the id of the next record
    logged,     \* events logged so far
    reserved,   \* the reservation last given out still holds
    faults      \* history: requests that failed, reservations lost

selVars == <<sel, nextId, logged, reserved, faults>>

Record == [id : Nat \ {0}, event : Nat \ {0}]

SelTypeOK ==
    /\ sel \in Seq(Record) /\ Len(sel) <= MaxEvents
    /\ nextId \in Nat \ {0} /\ logged \in Nat /\ faults \in Nat
    /\ reserved \in BOOLEAN

(* The log may hold events from before. *)
SelInit ==
    /\ logged \in 0 .. MaxEvents
    /\ sel = [i \in 1 .. logged |-> [id |-> i, event |-> i]]
    /\ nextId = logged + 1
    /\ reserved = FALSE /\ faults = 0

(* Get SEL Entry: the records found for an id, at most one, and the next    *)
(* id.  Id 0 is the first record.                                           *)
Positions(id) ==
    IF id = 0
    THEN {i \in 1 .. Len(sel) : i = 1}
    ELSE {i \in 1 .. Len(sel) : sel[i].id = id}

NextOf(i) == IF i = Len(sel) THEN End ELSE sel[i + 1].id

(* ipmi_sel_get_std_entry() returns 0 for "no answer", "bad completion      *)
(* code" and "short answer" alike.                                          *)
EntryFails(id) ==
    \/ Positions(id) = {} /\ UNCHANGED faults
    \/ faults < MaxFaults /\ faults' = faults + 1

LogEvent ==
    /\ logged < MaxEvents
    /\ logged' = logged + 1
    /\ sel' = Append(sel, [id |-> nextId, event |-> logged + 1])
    /\ nextId' = nextId + 1
    /\ UNCHANGED <<reserved, faults>>

(* Another client reserves the log. *)
LoseReservation ==
    /\ reserved /\ faults < MaxFaults
    /\ reserved' = FALSE /\ faults' = faults + 1
    /\ UNCHANGED <<sel, nextId, logged>>

(* Clear SEL.  The ids start again or go on. *)
Clear ==
    /\ sel' = <<>>
    /\ nextId' \in {1, nextId}
    /\ reserved' = FALSE
    /\ UNCHANGED <<logged, faults>>

(* Delete SEL Entry, for the record at position i. *)
Delete(i) ==
    /\ sel' = SubSeq(sel, 1, i - 1) \o SubSeq(sel, i + 1, Len(sel))
    /\ reserved' \in {reserved, FALSE}
    /\ UNCHANGED <<nextId, logged, faults>>

=============================================================================
