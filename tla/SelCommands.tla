---------------------------- MODULE SelCommands ----------------------------
(***************************************************************************)
(* The commands of ipmitool on the System Event Log: "sel list", "sel      *)
(* save" and "sel writeraw", "sel clear", "sel delete", "sel add"          *)
(* (src/lib/ipmi_sel.c).  An action is one request with what follows it.   *)
(***************************************************************************)
EXTENDS SelDevice

CONSTANTS
    MaxCommands,   \* bound on the commands run
    Counts,        \* values of "list first <n>" (positive) and "last" (negative)
    DeleteLists    \* the lists of ids given to "sel delete"

ASSUME CommandsAssumption ==
    MaxCommands \in Nat /\ Counts \subseteq Int /\ \A l \in DeleteLists : l \in Seq(Nat)

VARIABLES
    at,        \* "idle", or the command and where it is: "info", "skip",
               \* "list", "clear_reserve", "clear", "delete_reserve", "delete"
    arg,       \* the count of "sel list"
    ids,       \* the arguments of "sel delete" still to come
    next_id,   \* next_id of __ipmi_sel_savelist_entries()
    skip,      \* its loop: records still to go past
    shown,     \* the events it has printed or saved
    rc,        \* the command's exit
    undone,    \* history: ids asked to be deleted and not deleted; 0: the log
    since,     \* history: events logged when Get SEL Info was answered
    removals,  \* history: times records were removed
    commands   \* commands run so far

cmdVars == <<at, arg, ids, next_id, skip, shown, rc, undone, since, removals, commands>>

CmdTypeOK ==
    /\ at \in {"idle", "info", "skip", "list", "clear_reserve", "clear", "delete_reserve", "delete"}
    /\ next_id \in 0 .. End /\ skip \in Nat /\ rc \in {0, -1}
    /\ shown \in Seq(Nat) /\ undone \subseteq Nat
    /\ arg \in Counts \cup {0} /\ ids \in Seq(Nat)
    /\ since \in Nat /\ removals \in Nat /\ commands \in Nat

CmdInit ==
    /\ at = "idle" /\ arg = 0 /\ ids = <<>> /\ next_id = 0 /\ skip = 0
    /\ shown = <<>> /\ rc = 0 /\ undone = {}
    /\ since = 0 /\ removals = 0 /\ commands = 0

(* ipmi_sel_main() *)
ipmi_sel_main(where, n, l, u) ==
    /\ at = "idle" /\ commands < MaxCommands
    /\ at' = where /\ arg' = n /\ ids' = l /\ undone' = u
    /\ commands' = commands + 1
    /\ rc' = 0 /\ shown' = <<>>
    /\ UNCHANGED <<next_id, skip, since, removals, selVars>>

Exit(r) == at' = "idle" /\ rc' = r

Fault == faults < MaxFaults /\ faults' = faults + 1 /\ UNCHANGED <<sel, nextId, logged, reserved>>

-----------------------------------------------------------------------------
(* __ipmi_sel_savelist_entries(), behind "sel list", "sel save" and "sel    *)
(* writeraw": Get SEL Info, twice for "list last".                          *)
savelist_info ==
    /\ at = "info"
    /\ \/ /\ since' = logged
          /\ next_id' = 0
          /\ IF Len(sel) = 0
             THEN Exit(0) /\ UNCHANGED skip
             ELSE /\ skip' = IF arg < 0 /\ -arg <= Len(sel) THEN Len(sel) + arg ELSE 0
                  /\ at' = "skip" /\ UNCHANGED rc
          /\ UNCHANGED selVars
       \/ /\ Fault /\ Exit(-1)
          /\ UNCHANGED <<since, next_id, skip>>
    /\ UNCHANGED <<arg, ids, shown, undone, removals, commands>>

(* Two slips: one record too many is skipped, or one too few.               *)
SkipDoneLate == skip + 1 = 0 \/ next_id = End

SkipDoneEarly == skip <= 1 \/ next_id = End

SkipDone == skip = 0 \/ next_id = End

(* The loop that goes past the records "list last" does not show.  It asks  *)
(* again after a failure, but for next_id, which is 0 by then: the answer   *)
(* is the second record's id.                                               *)
savelist_skip ==
    /\ at = "skip"
    /\ \/ /\ SkipDone
          /\ at' = "list"
          /\ UNCHANGED <<next_id, skip, selVars>>
       \/ /\ ~SkipDone
          /\ \E i \in Positions(next_id) : next_id' = NextOf(i)
          /\ skip' = skip - 1
          /\ UNCHANGED <<at, selVars>>
       \/ /\ ~SkipDone
          /\ EntryFails(next_id)
          /\ \/ \E i \in Positions(0) : next_id' = NextOf(i) /\ skip' = skip - 1 /\ UNCHANGED at
             \/ next_id' = 0 /\ at' = "list" /\ UNCHANGED skip
          /\ UNCHANGED <<sel, nextId, logged, reserved>>
    /\ UNCHANGED <<arg, ids, shown, rc, undone, since, removals, commands>>

(* The loop that shows the records, or the first `count` of them. *)
savelist_list ==
    /\ at = "list"
    /\ \/ /\ next_id = End
          /\ Exit(0)
          /\ UNCHANGED <<next_id, shown, selVars>>
       \/ /\ next_id # End
          /\ \E i \in Positions(next_id) :
               /\ shown' = Append(shown, sel[i].event)
               /\ next_id' = NextOf(i)
          /\ IF Len(shown) + 1 = arg THEN Exit(0) ELSE UNCHANGED <<at, rc>>
          /\ UNCHANGED selVars
       \/ /\ next_id # End
          /\ EntryFails(next_id)
          /\ Exit(0)
          /\ UNCHANGED <<next_id, shown, sel, nextId, logged, reserved>>
    /\ UNCHANGED <<arg, ids, skip, undone, since, removals, commands>>

-----------------------------------------------------------------------------
(* ipmi_sel_reserve(), for ipmi_sel_clear() and ipmi_sel_delete(). *)
ipmi_sel_reserve ==
    /\ at \in {"clear_reserve", "delete_reserve"}
    /\ \/ /\ at' = IF at = "clear_reserve" THEN "clear" ELSE "delete"
          /\ reserved' = TRUE
          /\ UNCHANGED <<rc, sel, nextId, logged, faults>>
       \/ Fault /\ Exit(-1)
    /\ UNCHANGED <<arg, ids, next_id, skip, shown, undone, since, removals, commands>>

(* ipmi_sel_clear() behind the reservation. *)
ipmi_sel_clear ==
    /\ at = "clear"
    /\ \/ /\ reserved /\ Clear
          /\ removals' = removals + 1
          /\ undone' = {}
          /\ Exit(0)
       \/ /\ ~reserved
          /\ Exit(-1) /\ UNCHANGED <<removals, undone, selVars>>
       \/ /\ Fault
          /\ Exit(-1) /\ UNCHANGED <<removals, undone>>
    /\ UNCHANGED <<arg, ids, next_id, skip, shown, since, commands>>

LastArg == ids[Len(ids)]

(* A slip: an id that cannot be deleted does not count. *)
ipmi_sel_delete_lenient ==
    /\ at = "delete"
    /\ IF ids = <<>>
       THEN at' = "idle" /\ UNCHANGED <<rc, ids, undone, removals, selVars>>
       ELSE /\ ids' = SubSeq(ids, 1, Len(ids) - 1)
            /\ \/ /\ reserved
                  /\ \E i \in Positions(LastArg) : Delete(i)
                  /\ removals' = removals + 1
                  /\ undone' = undone \ {LastArg}
                  /\ UNCHANGED rc
               \/ /\ ~reserved \/ Positions(LastArg) = {}
                  /\ UNCHANGED <<rc, undone, removals, selVars>>
            /\ UNCHANGED at
    /\ UNCHANGED <<arg, next_id, skip, shown, since, commands>>

(* ipmi_sel_delete(): the ids from the last argument to the first, all      *)
(* under one reservation.                                                   *)
ipmi_sel_delete ==
    /\ at = "delete"
    /\ IF ids = <<>>
       THEN at' = "idle" /\ UNCHANGED <<rc, ids, undone, removals, selVars>>
       ELSE /\ ids' = SubSeq(ids, 1, Len(ids) - 1)
            /\ \/ /\ reserved
                  /\ \E i \in Positions(LastArg) : Delete(i)
                  /\ removals' = removals + 1
                  /\ undone' = undone \ {LastArg}
                  /\ UNCHANGED rc
               \/ /\ ~reserved \/ Positions(LastArg) = {}
                  /\ rc' = -1 /\ UNCHANGED <<undone, removals, selVars>>
               \/ Fault /\ rc' = -1 /\ UNCHANGED <<undone, removals>>
            /\ UNCHANGED at
    /\ UNCHANGED <<arg, next_id, skip, shown, since, commands>>

Command ==
    \/ \E n \in Counts : ipmi_sel_main("info", n, <<>>, {})
    \/ ipmi_sel_main("clear_reserve", 0, <<>>, {0})
    \/ \E l \in DeleteLists : ipmi_sel_main("delete_reserve", 0, l, {l[i] : i \in 1 .. Len(l)})
    \/ savelist_info \/ savelist_skip \/ savelist_list
    \/ ipmi_sel_reserve \/ ipmi_sel_clear \/ ipmi_sel_delete

=============================================================================
