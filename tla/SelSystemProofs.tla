-------------------------- MODULE SelSystemProofs --------------------------
(***************************************************************************)
(* Proofs about SelSystem, for every value of its constants: any number of *)
(* events that leaves an id for each, of failures and of commands.         *)
(***************************************************************************)
EXTENDS SelSystem, TLAPS, SequenceTheorems

-----------------------------------------------------------------------------
(* The inductive invariant, in parts. *)

(* The log is in the order of its ids and of its events. *)
LogSorted ==
    /\ logged <= MaxEvents /\ nextId <= logged + 1 /\ Len(sel) <= logged
    /\ \A i \in 1 .. Len(sel) : sel[i].id < nextId /\ sel[i].event <= logged
    /\ \A i, j \in 1 .. Len(sel) : i < j => sel[i].id < sel[j].id /\ sel[i].event < sel[j].event

LogInv == TypeOK /\ LogSorted

(* A record newer than what was in the log at the start and than what has  *)
(* been reported.                                                          *)
IsNewer(r) == r.event > base /\ \A k \in 1 .. Len(reported) : reported[k].event < r.event

(* The records behind an id are newer, and so is the one with the id. *)
NewerBehind(id) == \A i \in Positions(id) : \A j \in i + 1 .. Len(sel) : IsNewer(sel[j])

NewerAt(id) == \A i \in Positions(id) : IsNewer(sel[i])

(* The daemon is where it has reported, or chosen to go past, all before.  *)
OnceInv ==
    /\ base <= logged /\ \A k \in 1 .. Len(reported) : reported[k].event <= logged
    /\ pc \in {"setup", "setup_walk"} => reported = <<>>
    /\ pc = "setup" => base = 0 /\ lastid = 0
    /\ ReportedOnce
    /\ ~short => /\ pc = "sleep" => NewerBehind(lastid)
                 /\ pc = "read" => /\ NewerBehind(next)
                                   /\ next \notin {0, lastid} => NewerAt(next)

(* While nothing is removed, the nth record is that of the nth event. *)
Unremoved ==
    removals = 0 =>
        /\ Len(sel) = logged /\ nextId = logged + 1
        /\ \A i \in 1 .. Len(sel) : sel[i].id = i /\ sel[i].event = i

(* All events since the start and up to n have been reported. *)
AllReported(n) == base + 1 .. n \subseteq ReportedUpTo(Len(reported))

GapInv ==
    (~short /\ removals = 0) =>
        /\ count <= logged /\ pc # "check_walk"
        /\ ReportedWithoutGap
        /\ (pc \in {"sleep", "read"} /\ lastid # 0) => AllReported(lastid)
        /\ (pc = "read" /\ next # 0) => AllReported(next - 1)

(* The records "list last" goes past, and the first event it shows. *)
Before == IF -arg <= since THEN since + arg ELSE 0
First  == IF Before = 0 THEN 0 ELSE Before + 1

Listing ==
    (arg < 0 /\ removals = 0 /\ faults = 0) =>
       /\ at = "skip" => /\ skip <= Before
                         /\ next_id = IF skip = Before THEN 0 ELSE Before - skip + 1
       /\ at = "list" =>
            IF shown = <<>>
            THEN next_id = First
            ELSE LET m == shown[Len(shown)] IN
                 /\ shown[1] = Before + 1 /\ m \in Before + 1 .. logged
                 /\ (next_id = m + 1 /\ m < logged) \/ (next_id = End /\ m >= since)

ListInv ==
    /\ at \in {"info", "skip"} => shown = <<>> /\ rc = 0
    /\ at \in {"clear_reserve", "clear", "delete_reserve", "delete"} => arg = 0
    /\ since <= logged /\ (at \in {"skip", "list"} => since > 0)
    /\ Listing
    /\ ListedLast

RemovedInv ==
    /\ at \in {"info", "skip", "list"} => undone = {}
    /\ (at \in {"delete_reserve", "delete"} /\ rc = 0) =>
          undone \subseteq {ids[i] : i \in 1 .. Len(ids)}
    /\ RemovedWhatWasAsked

SelInv == LogInv /\ OnceInv /\ Unremoved /\ GapInv /\ ListInv /\ RemovedInv

-----------------------------------------------------------------------------
(* The log. *)

LEMMA Constants ==
    /\ MaxEvents \in Nat /\ MaxFaults \in Nat /\ MaxEvents < End /\ End \in Nat
    /\ MaxCommands \in Nat /\ Counts \subseteq Int /\ 0 < End
    /\ \A l \in DeleteLists : l \in Seq(Nat)
BY BoundsAssumption, CommandsAssumption DEF End

LEMMA Records ==
    ASSUME LogInv
    PROVE  /\ sel \in Seq(Record) /\ Len(sel) \in Nat /\ logged \in Nat /\ nextId \in Nat
           /\ \A i \in 1 .. Len(sel) :
                 /\ sel[i].id \in 1 .. End - 1 /\ sel[i].event \in 1 .. logged
                 /\ sel[i] \in Record
<1>1. sel \in Seq(Record) /\ logged \in Nat /\ nextId \in Nat
  BY DEF LogInv, TypeOK, SelTypeOK
<1>2. \A i \in 1 .. Len(sel) : sel[i] \in Record /\ sel[i].id \in Nat \ {0} /\ sel[i].event \in Nat \ {0}
  <2>1. \A i \in 1 .. Len(sel) : sel[i] \in Record
    BY <1>1
  <2>2. \A r \in Record : r.id \in Nat \ {0} /\ r.event \in Nat \ {0}
    BY DEF Record
  <2> QED
    BY <2>1, <2>2
<1>3. /\ logged <= MaxEvents /\ nextId <= logged + 1
      /\ \A i \in 1 .. Len(sel) : sel[i].id < nextId /\ sel[i].event <= logged
  BY DEF LogInv, LogSorted
<1>4. ASSUME NEW i \in 1 .. Len(sel)
      PROVE  sel[i].id \in 1 .. End - 1 /\ sel[i].event \in 1 .. logged
  <2> DEFINE x == sel[i].id
             y == sel[i].event
  <2>1. x \in Nat \ {0} /\ x < nextId /\ y \in Nat \ {0} /\ y <= logged
    BY <1>2, <1>3
  <2> HIDE DEF x, y
  <2>2. x \in 1 .. End - 1 /\ y \in 1 .. logged
    BY <1>1, <1>3, <2>1, Constants
  <2> QED
    BY <2>2 DEF x, y
<1> QED
  BY <1>1, <1>2, <1>4

(* What Get SEL Entry answers. *)
LEMMA Answer ==
    ASSUME LogInv, NEW id, NEW i \in Positions(id)
    PROVE  /\ i \in 1 .. Len(sel) /\ (id = 0 => i = 1) /\ (id # 0 => sel[i].id = id)
           /\ sel[i].event \in 1 .. logged
           /\ (i = Len(sel) /\ NextOf(i) = End)
              \/ (/\ i < Len(sel) /\ i + 1 \in 1 .. Len(sel) /\ NextOf(i) = sel[i + 1].id
                  /\ NextOf(i) \in 1 .. End - 1 /\ NextOf(i) # End)
<1>1. i \in 1 .. Len(sel) /\ (id = 0 => i = 1) /\ (id # 0 => sel[i].id = id)
  BY DEF Positions
<1>2. sel[i].event \in 1 .. logged /\ Len(sel) \in Nat
  BY <1>1, Records
<1>3. CASE i = Len(sel)
  BY <1>1, <1>2, <1>3 DEF NextOf
<1>4. CASE i # Len(sel)
  <2>1. i < Len(sel) /\ i + 1 \in 1 .. Len(sel) /\ NextOf(i) = sel[i + 1].id
    BY <1>1, <1>2, <1>4 DEF NextOf
  <2>2. NextOf(i) \in 1 .. End - 1
    BY <2>1, Records
  <2>3. NextOf(i) # End
    BY <2>2, Constants
  <2> QED
    BY <1>1, <1>2, <2>1, <2>2, <2>3
<1> QED
  BY <1>3, <1>4

(* The log without one of its records. *)
LEMMA Deleted ==
    ASSUME LogInv, NEW d \in 1 .. Len(sel), Delete(d)
    PROVE  /\ sel' \in Seq(Record) /\ Len(sel') = Len(sel) - 1
           /\ \A i \in 1 .. Len(sel') : LET k == IF i < d THEN i ELSE i + 1
                                        IN  k \in 1 .. Len(sel) /\ sel'[i] = sel[k]
<1> DEFINE a == SubSeq(sel, 1, d - 1)
           b == SubSeq(sel, d + 1, Len(sel))
<1>1. sel \in Seq(Record) /\ Len(sel) \in Nat
  BY Records
<1>2. /\ a \in Seq(Record) /\ Len(a) = d - 1
      /\ \A i \in 1 .. d - 1 : a[i] = sel[i]
  BY <1>1
<1>3. /\ b \in Seq(Record) /\ Len(b) = Len(sel) - d
      /\ \A i \in 1 .. Len(sel) - d : b[i] = sel[d + i]
  BY <1>1
<1>4. sel' = a \o b
  BY DEF Delete
<1> HIDE DEF a, b
<1>5. /\ sel' \in Seq(Record) /\ Len(sel') = Len(sel) - 1
      /\ \A i \in 1 .. Len(sel') : sel'[i] = IF i <= d - 1 THEN a[i] ELSE b[i - (d - 1)]
  <2>1. /\ a \o b \in Seq(Record) /\ Len(a \o b) = Len(a) + Len(b)
        /\ \A i \in 1 .. Len(a) + Len(b) : (a \o b)[i] = IF i <= Len(a) THEN a[i] ELSE b[i - Len(a)]
    BY <1>2, <1>3, ConcatProperties
  <2>2. Len(a) = d - 1 /\ Len(a) + Len(b) = Len(sel) - 1
    BY <1>1, <1>2, <1>3
  <2> QED
    BY <1>4, <2>1, <2>2
<1>6. ASSUME NEW i \in 1 .. Len(sel')
      PROVE  LET k == IF i < d THEN i ELSE i + 1
             IN  k \in 1 .. Len(sel) /\ sel'[i] = sel[k]
  <2>1. CASE i < d
    BY <1>1, <1>2, <1>5, <2>1
  <2>2. CASE ~(i < d)
    <3>1. i - (d - 1) \in 1 .. Len(sel) - d /\ d + (i - (d - 1)) = i + 1 /\ ~(i <= d - 1)
      BY <1>1, <1>5, <2>2
    <3>2. sel'[i] = b[i - (d - 1)]
      BY <1>5, <3>1
    <3>3. b[i - (d - 1)] = sel[i + 1]
      BY <1>3, <3>1
    <3> QED
      BY <1>1, <1>5, <2>2, <3>2, <3>3
  <2> QED
    BY <2>1, <2>2
<1> QED
  BY <1>5, <1>6

LogSame == sel' = sel /\ nextId' = nextId /\ logged' = logged

LEMMA LogSameKeeps ==
    ASSUME LogInv, LogSame, faults' \in Nat, reserved' \in BOOLEAN
    PROVE  SelTypeOK' /\ LogSorted'
BY DEF LogInv, TypeOK, SelTypeOK, LogSorted, LogSame

LEMMA LogEventKeeps ==
    ASSUME LogInv, LogEvent
    PROVE  /\ SelTypeOK' /\ LogSorted' /\ logged' = logged + 1 /\ nextId' = nextId + 1
           /\ Len(sel') = Len(sel) + 1 /\ \A i \in 1 .. Len(sel) : sel'[i] = sel[i]
           /\ sel'[Len(sel) + 1].id = nextId /\ sel'[Len(sel) + 1].event = logged + 1
<1> DEFINE r == [id |-> nextId, event |-> logged + 1]
           n == Len(sel) + 1
<1>1. /\ sel \in Seq(Record) /\ Len(sel) \in Nat /\ logged \in Nat /\ nextId \in Nat \ {0}
      /\ reserved \in BOOLEAN /\ faults \in Nat
  BY Records DEF LogInv, TypeOK, SelTypeOK
<1>2. /\ logged < MaxEvents /\ logged' = logged + 1 /\ nextId' = nextId + 1
      /\ sel' = Append(sel, r) /\ reserved' = reserved /\ faults' = faults
  BY DEF LogEvent
<1>3. r \in Record /\ r.id = nextId /\ r.event = logged + 1
  BY <1>1 DEF Record
<1> HIDE DEF r
<1>4. /\ sel' \in Seq(Record) /\ Len(sel') = n
      /\ \A i \in 1 .. Len(sel) : sel'[i] = sel[i]
      /\ sel'[n] = r
  BY <1>1, <1>2, <1>3, AppendProperties
<1>5. /\ logged <= MaxEvents /\ nextId <= logged + 1 /\ Len(sel) <= logged
      /\ \A i \in 1 .. Len(sel) : sel[i].id < nextId /\ sel[i].event <= logged
      /\ \A i, j \in 1 .. Len(sel) : i < j => sel[i].id < sel[j].id /\ sel[i].event < sel[j].event
      /\ \A i \in 1 .. Len(sel) : sel[i].id \in Nat /\ sel[i].event \in Nat
  BY Records DEF LogInv, LogSorted
<1>6. SelTypeOK'
  BY <1>1, <1>2, <1>4, <1>5, Constants DEF SelTypeOK
<1>7. \A i \in 1 .. n : i \in 1 .. Len(sel) \/ i = n
  BY <1>1
<1>8. \A i \in 1 .. n : sel'[i].id < nextId' /\ sel'[i].event <= logged'
  BY <1>1, <1>2, <1>3, <1>4, <1>5, <1>7
<1>9. ASSUME NEW i \in 1 .. n, NEW j \in 1 .. n, i < j
      PROVE  sel'[i].id < sel'[j].id /\ sel'[i].event < sel'[j].event
  <2>1. i \in 1 .. Len(sel)
    BY <1>1, <1>9
  <2>2. CASE j \in 1 .. Len(sel)
    BY <1>4, <1>5, <1>9, <2>1, <2>2
  <2>3. CASE j = n
    BY <1>1, <1>3, <1>4, <1>5, <2>1, <2>3
  <2> QED
    BY <1>7, <2>2, <2>3
<1>10. logged' <= MaxEvents /\ nextId' <= logged' + 1 /\ Len(sel') <= logged'
  BY <1>1, <1>2, <1>4, <1>5, Constants
<1>11. LogSorted'
  BY <1>4, <1>8, <1>9, <1>10 DEF LogSorted
<1> QED
  BY <1>2, <1>3, <1>4, <1>6, <1>11

LEMMA ClearKeeps ==
    ASSUME LogInv, Clear
    PROVE  SelTypeOK' /\ LogSorted' /\ sel' = <<>> /\ logged' = logged
<1>1. logged \in Nat /\ nextId \in Nat \ {0} /\ faults \in Nat /\ LogSorted
  BY DEF LogInv, TypeOK, SelTypeOK
<1>2. /\ sel' = <<>> /\ nextId' \in {1, nextId} /\ logged' = logged /\ faults' = faults
      /\ reserved' \in BOOLEAN
  BY DEF Clear
<1>3. sel' \in Seq(Record) /\ Len(sel') = 0
  BY <1>2
<1>4. nextId' \in Nat \ {0} /\ nextId' <= logged' + 1 /\ logged' <= MaxEvents
  BY <1>1, <1>2 DEF LogSorted
<1>5. SelTypeOK'
  <2>1. Len(sel') <= MaxEvents /\ logged' \in Nat /\ faults' \in Nat
    BY <1>1, <1>2, <1>3, Constants
  <2> QED
    BY <1>2, <1>3, <1>4, <2>1 DEF SelTypeOK
<1>6. LogSorted'
  BY <1>1, <1>2, <1>3, <1>4 DEF LogSorted
<1> QED
  BY <1>2, <1>5, <1>6

LEMMA DeleteKeeps ==
    ASSUME LogInv, NEW d \in 1 .. Len(sel), Delete(d)
    PROVE  SelTypeOK' /\ LogSorted' /\ logged' = logged
<1>1. /\ sel' \in Seq(Record) /\ Len(sel') = Len(sel) - 1
      /\ \A i \in 1 .. Len(sel') : LET k == IF i < d THEN i ELSE i + 1
                                   IN  k \in 1 .. Len(sel) /\ sel'[i] = sel[k]
  BY Deleted
<1>2. nextId' = nextId /\ logged' = logged /\ faults' = faults /\ reserved' \in {reserved, FALSE}
  BY DEF Delete
<1>3. Len(sel) \in Nat /\ logged \in Nat /\ LogSorted
  BY Records DEF LogInv
<1>4. SelTypeOK'
  <2>1. /\ Len(sel) <= MaxEvents /\ nextId \in Nat \ {0} /\ faults \in Nat
        /\ reserved \in BOOLEAN
    BY DEF LogInv, TypeOK, SelTypeOK
  <2>2. Len(sel') <= MaxEvents
    BY <1>1, <1>3, <2>1, Constants
  <2> QED
    BY <1>1, <1>2, <1>3, <2>1, <2>2 DEF SelTypeOK
<1>5. \A i \in 1 .. Len(sel') : sel'[i].id < nextId' /\ sel'[i].event <= logged'
  BY <1>1, <1>2, <1>3 DEF LogSorted
<1>6. ASSUME NEW i \in 1 .. Len(sel'), NEW j \in 1 .. Len(sel'), i < j
      PROVE  sel'[i].id < sel'[j].id /\ sel'[i].event < sel'[j].event
  <2> DEFINE k == IF i < d THEN i ELSE i + 1
             m == IF j < d THEN j ELSE j + 1
  <2>1. k \in 1 .. Len(sel) /\ sel'[i] = sel[k] /\ m \in 1 .. Len(sel) /\ sel'[j] = sel[m]
    BY <1>1
  <2>2. k < m
    BY <1>6
  <2> HIDE DEF k, m
  <2> QED
    BY <1>3, <2>1, <2>2 DEF LogSorted
<1>7. logged' <= MaxEvents /\ nextId' <= logged' + 1 /\ Len(sel') <= logged'
  BY <1>1, <1>2, <1>3 DEF LogSorted
<1> QED
  BY <1>2, <1>4, <1>5, <1>6, <1>7 DEF LogSorted

-----------------------------------------------------------------------------
(* Types. *)

Ids == 0 .. End - 1

LEMMA DaemonParts ==
    DaemonTypeOK <=>
        /\ pc \in {"setup", "setup_walk", "check_walk", "sleep", "read"}
        /\ count \in Nat /\ lastid \in Ids /\ next \in Ids /\ base \in Nat
        /\ reported \in Seq([event : Nat \ {0}, id : Ids]) /\ short \in BOOLEAN
BY DEF DaemonTypeOK, Ids

LEMMA DaemonType ==
    ASSUME LogInv, Daemon
    PROVE  DaemonTypeOK' /\ LogSame /\ faults' \in Nat /\ reserved' \in BOOLEAN
<1>1. /\ pc \in {"setup", "setup_walk", "check_walk", "sleep", "read"}
      /\ count \in Nat /\ lastid \in Ids /\ next \in Ids /\ base \in Nat
      /\ reported \in Seq([event : Nat \ {0}, id : Ids]) /\ short \in BOOLEAN
      /\ faults \in Nat /\ reserved \in BOOLEAN /\ Len(sel) \in Nat /\ logged \in Nat
      /\ 0 \in Ids
  BY DaemonParts, Records, Constants DEF LogInv, TypeOK, SelTypeOK, Ids
<1>2. LogSame /\ faults' \in Nat /\ reserved' \in BOOLEAN
  BY <1>1 DEF Daemon, selwatch_setup, selwatch_check, selwatch_get_lastid, selwatch_read,
              EntryNotRead, EntryFails, LogSame, selVars
<1>3. ASSUME NEW i \in Positions(next), Advance(i)
      PROVE  /\ pc' = pc \/ pc' = "sleep"
             /\ lastid' \in Ids /\ next' \in Ids
  <2>1. NextOf(i) # End => NextOf(i) \in Ids
    BY <1>3, Answer DEF Ids
  <2> QED
    BY <1>1, <1>3, <2>1 DEF Advance
<1>4. CASE selwatch_setup \/ selwatch_check
  <2>1. /\ pc' \in {"setup_walk", "check_walk", "sleep", "read"} \/ pc' = pc
        /\ lastid' \in Ids /\ next' \in Ids
    BY <1>1, <1>4 DEF selwatch_setup, selwatch_check, StartWalk
  <2>2. count' \in Nat /\ base' \in Nat /\ reported' = reported /\ short' = short
    BY <1>1, <1>4 DEF selwatch_setup, selwatch_check
  <2> QED
    BY <1>1, <1>2, <2>1, <2>2 DEF DaemonTypeOK, Ids
<1>5. CASE selwatch_get_lastid
  <2>1. base' \in Nat /\ count' = count /\ reported' = reported /\ short' = short
    BY <1>1, <1>5 DEF selwatch_get_lastid
  <2> QED
    BY <1>1, <1>2, <1>3, <1>5, <2>1 DEF DaemonTypeOK, Ids, selwatch_get_lastid
<1>6. CASE selwatch_read
  <2>1. PICK i \in Positions(next) :
            /\ reported' = IF IsNew(next)
                           THEN Append(reported, [event |-> sel[i].event, id |-> next])
                           ELSE reported
            /\ Advance(i)
    BY <1>6 DEF selwatch_read
  <2>2. sel[i].event \in Nat \ {0}
    BY <1>1, Answer
  <2>3. reported' \in Seq([event : Nat \ {0}, id : Ids])
    <3> DEFINE r == [event |-> sel[i].event, id |-> next]
    <3>1. r \in [event : Nat \ {0}, id : Ids]
      BY <1>1, <2>2
    <3>2. reported' = Append(reported, r) \/ reported' = reported
      BY <2>1
    <3> DEFINE R == [event : Nat \ {0}, id : Ids]
    <3>3. r \in R /\ reported \in Seq(R)
      BY <1>1, <3>1
    <3> HIDE DEF r, R
    <3>4. reported' \in Seq(R)
      BY <3>2, <3>3, AppendProperties
    <3> QED
      BY <3>4 DEF R
  <2>4. count' = count /\ base' = base /\ short' = short
    BY <1>6 DEF selwatch_read
  <2> QED
    BY <1>1, <1>2, <1>3, <2>1, <2>3, <2>4 DEF DaemonTypeOK, Ids
<1>7. CASE EntryNotRead
  BY <1>1, <1>2, <1>7 DEF EntryNotRead, DaemonTypeOK, Ids
<1> QED
  BY <1>2, <1>4, <1>5, <1>6, <1>7 DEF Daemon

(* What a command does to the log. *)
Removes ==
    /\ removals' = removals + 1
    /\ Clear \/ \E d \in 1 .. Len(sel) : Delete(d)

Leaves == LogSame /\ removals' = removals /\ faults' \in Nat /\ reserved' \in BOOLEAN

LEMMA CommandEffect ==
    ASSUME LogInv, Command
    PROVE  Leaves \/ Removes
<1>1. faults \in Nat /\ reserved \in BOOLEAN
  BY DEF LogInv, TypeOK, SelTypeOK
<1>2. CASE \E where, n, l, u : ipmi_sel_main(where, n, l, u)
  BY <1>1, <1>2 DEF ipmi_sel_main, Leaves, LogSame, selVars
<1>3. CASE savelist_info \/ savelist_skip \/ savelist_list
  BY <1>1, <1>3
  DEF savelist_info, savelist_skip, savelist_list, Fault, EntryFails, Leaves, LogSame, selVars
<1>4. CASE ipmi_sel_reserve
  <2>1. removals' = removals
    BY <1>4 DEF ipmi_sel_reserve
  <2>2. CASE reserved' = TRUE /\ UNCHANGED <<sel, nextId, logged, faults>>
    BY <1>1, <2>1, <2>2 DEF Leaves, LogSame
  <2>3. CASE Fault
    BY <1>1, <2>1, <2>3 DEF Fault, Leaves, LogSame
  <2> QED
    BY <1>4, <2>2, <2>3 DEF ipmi_sel_reserve
<1>5. CASE ipmi_sel_clear
  BY <1>1, <1>5 DEF ipmi_sel_clear, Fault, Leaves, LogSame, selVars, Removes
<1>6. CASE ipmi_sel_delete
  <2>1. CASE \E d \in Positions(LastArg) : Delete(d) /\ removals' = removals + 1
    BY <2>1 DEF Removes, Positions
  <2>2. CASE ids = <<>>
    BY <1>1, <1>6, <2>2 DEF ipmi_sel_delete, Leaves, LogSame, selVars
  <2>3. CASE ids # <<>> /\ UNCHANGED <<removals, selVars>>
    BY <1>1, <2>3 DEF Leaves, LogSame, selVars
  <2>4. CASE Fault /\ UNCHANGED removals
    BY <1>1, <2>4 DEF Fault, Leaves, LogSame
  <2> QED
    BY <1>6, <2>1, <2>2, <2>3, <2>4 DEF ipmi_sel_delete
<1> QED
  BY <1>2, <1>3, <1>4, <1>5, <1>6 DEF Command

LEMMA MainType ==
    ASSUME CmdTypeOK, NEW where \in {"info", "clear_reserve", "delete_reserve"},
           NEW n \in Counts \cup {0}, NEW l \in Seq(Nat), NEW u \in SUBSET Nat,
           ipmi_sel_main(where, n, l, u)
    PROVE  CmdTypeOK'
<1>1. /\ at' = where /\ arg' = n /\ ids' = l /\ undone' = u /\ commands' = commands + 1
      /\ rc' = 0 /\ shown' = <<>> /\ UNCHANGED <<next_id, skip, since, removals>>
  BY DEF ipmi_sel_main
<1>2. shown' \in Seq(Nat) /\ rc' \in {0, -1} /\ commands' \in Nat
  BY <1>1 DEF CmdTypeOK
<1> QED
  BY <1>1, <1>2 DEF CmdTypeOK

LEMMA CommandType ==
    ASSUME LogInv, Command
    PROVE  CmdTypeOK'
<1>1. CmdTypeOK /\ Len(sel) \in Nat /\ logged \in Nat /\ removals \in Nat
  BY Records DEF LogInv, TypeOK, CmdTypeOK
<1>2. ASSUME NEW id, NEW i \in Positions(id)
      PROVE  NextOf(i) \in 0 .. End /\ sel[i].event \in Nat
  BY <1>1, Answer, Constants
<1>3. ASSUME NEW n \in Counts, ipmi_sel_main("info", n, <<>>, {})  PROVE CmdTypeOK'
  <2>1. <<>> \in Seq(Nat) /\ {} \in SUBSET Nat /\ n \in Counts \cup {0}
    OBVIOUS
  <2> QED
    BY <1>1, <1>3, <2>1, MainType, Zenon
<1>4. CASE ipmi_sel_main("clear_reserve", 0, <<>>, {0})
  <2>1. <<>> \in Seq(Nat) /\ {0} \in SUBSET Nat /\ 0 \in Counts \cup {0}
    OBVIOUS
  <2> QED
    BY <1>1, <1>4, <2>1, MainType, Zenon
<1>5. ASSUME NEW l \in DeleteLists,
             ipmi_sel_main("delete_reserve", 0, l, {l[i] : i \in 1 .. Len(l)})
      PROVE  CmdTypeOK'
  <2>1. l \in Seq(Nat)
    BY Constants
  <2> DEFINE u == {l[i] : i \in 1 .. Len(l)}
  <2>2. u \in SUBSET Nat
    BY <2>1
  <2> HIDE DEF u
  <2>3. ipmi_sel_main("delete_reserve", 0, l, u)
    BY <1>5 DEF u
  <2> QED
    BY <1>1, <2>1, <2>2, <2>3, MainType
<1>6. CASE savelist_info
  <2>1. since' \in Nat /\ next_id' \in 0 .. End /\ skip' \in Nat
    <3>1. arg \in Int
      BY <1>1, Constants DEF CmdTypeOK
    <3>2. (arg < 0 /\ -arg <= Len(sel)) => Len(sel) + arg \in Nat
      BY <1>1, <3>1
    <3> QED
      BY <1>1, <1>6, <3>2, Constants DEF savelist_info, CmdTypeOK, Exit
  <2>2. at' \in {"idle", "skip"} /\ rc' \in {0, -1}
    BY <1>1, <1>6 DEF savelist_info, Exit, CmdTypeOK
  <2>3. UNCHANGED <<arg, ids, shown, undone, removals, commands>>
    BY <1>6 DEF savelist_info
  <2> QED
    BY <1>1, <2>1, <2>2, <2>3 DEF CmdTypeOK
<1>7. CASE savelist_skip
  <2>1. next_id' \in 0 .. End
    BY <1>1, <1>2, <1>7, Constants DEF savelist_skip, CmdTypeOK
  <2>2. skip' \in Nat /\ at' \in {"skip", "list"}
    <3>1. ~SkipDone => skip - 1 \in Nat
      BY <1>1 DEF SkipDone, CmdTypeOK
    <3> QED
      BY <1>1, <1>7, <3>1 DEF savelist_skip, CmdTypeOK
  <2>3. UNCHANGED <<arg, ids, shown, rc, undone, since, removals, commands>>
    BY <1>7 DEF savelist_skip
  <2> QED
    BY <1>1, <2>1, <2>2, <2>3 DEF CmdTypeOK
<1>8. CASE savelist_list
  <2>1. next_id' \in 0 .. End /\ shown' \in Seq(Nat)
    <3>1. next_id \in 0 .. End /\ shown \in Seq(Nat)
      BY <1>1 DEF CmdTypeOK
    <3>2. CASE next_id' = next_id /\ shown' = shown
      BY <3>1, <3>2
    <3>3. CASE \E i \in Positions(next_id) :
                 shown' = Append(shown, sel[i].event) /\ next_id' = NextOf(i)
      BY <1>2, <3>1, <3>3
    <3> QED
      BY <1>8, <3>2, <3>3 DEF savelist_list
  <2>2. at' \in {"idle", "list"} /\ rc' \in {0, -1}
    BY <1>1, <1>8 DEF savelist_list, Exit, CmdTypeOK
  <2>3. UNCHANGED <<arg, ids, skip, undone, since, removals, commands>>
    BY <1>8 DEF savelist_list
  <2> QED
    BY <1>1, <2>1, <2>2, <2>3 DEF CmdTypeOK
<1>9. CASE ipmi_sel_reserve
  <2>1. at' \in {"clear", "delete", "idle"} /\ rc' \in {0, -1}
    BY <1>1, <1>9 DEF ipmi_sel_reserve, Exit, CmdTypeOK
  <2> QED
    BY <1>1, <1>9, <2>1 DEF ipmi_sel_reserve, CmdTypeOK
<1>10. CASE ipmi_sel_clear
  <2>1. at' = "idle" /\ rc' \in {0, -1} /\ undone' \subseteq Nat /\ removals' \in Nat
    <3>1. undone \subseteq Nat
      BY <1>1 DEF CmdTypeOK
    <3>2. /\ at' = "idle" /\ rc' \in {0, -1} /\ undone' \in {undone, {}}
          /\ removals' \in {removals, removals + 1}
      BY <1>10 DEF ipmi_sel_clear, Exit
    <3> QED
      BY <1>1, <3>1, <3>2
  <2> QED
    BY <1>1, <1>10, <2>1 DEF ipmi_sel_clear, CmdTypeOK
<1>11. CASE ipmi_sel_delete
  <2>1. ids \in Seq(Nat)
    BY <1>1 DEF CmdTypeOK
  <2>2. ids' \in Seq(Nat)
    <3>1. ids' = ids \/ (ids # <<>> /\ ids' = SubSeq(ids, 1, Len(ids) - 1))
      BY <1>11 DEF ipmi_sel_delete
    <3>2. ids # <<>> => SubSeq(ids, 1, Len(ids) - 1) \in Seq(Nat)
      BY <2>1
    <3> QED
      BY <2>1, <3>1, <3>2
  <2>3. at' \in {"delete", "idle"} /\ rc' \in {0, -1} /\ undone' \subseteq Nat /\ removals' \in Nat
    <3>1. undone \subseteq Nat /\ rc \in {0, -1}
      BY <1>1 DEF CmdTypeOK
    <3>2. /\ at' \in {"delete", "idle"} /\ rc' \in {rc, -1}
          /\ undone' \in {undone, undone \ {LastArg}}
          /\ removals' \in {removals, removals + 1}
      BY <1>11 DEF ipmi_sel_delete
    <3> QED
      BY <1>1, <3>1, <3>2
  <2>4. UNCHANGED <<arg, next_id, skip, shown, since, commands>>
    BY <1>11 DEF ipmi_sel_delete
  <2> QED
    BY <1>1, <2>2, <2>3, <2>4 DEF CmdTypeOK
<1> QED
  BY <1>3, <1>4, <1>5, <1>6, <1>7, <1>8, <1>9, <1>10, <1>11 DEF Command

LEMMA LogNext ==
    ASSUME LogInv, Next
    PROVE  LogInv'
<1>1. SelTypeOK /\ DaemonTypeOK /\ CmdTypeOK
  BY DEF LogInv, TypeOK
<1>2. CASE Daemon /\ UNCHANGED cmdVars
  <2>1. CmdTypeOK'
    BY <1>1, <1>2 DEF CmdTypeOK, cmdVars
  <2> QED
    BY <1>2, <2>1, DaemonType, LogSameKeeps DEF LogInv, TypeOK
<1>3. ASSUME UNCHANGED daemonVars  PROVE DaemonTypeOK'
  BY <1>1, <1>3 DEF DaemonTypeOK, daemonVars
<1>4. CASE Command /\ UNCHANGED daemonVars
  <2>1. SelTypeOK' /\ LogSorted'
    BY <1>4, CommandEffect, LogSameKeeps, ClearKeeps, DeleteKeeps DEF Leaves, Removes
  <2> QED
    BY <1>3, <1>4, <2>1, CommandType DEF LogInv, TypeOK
<1>5. CASE (LogEvent \/ LoseReservation) /\ UNCHANGED <<daemonVars, cmdVars>>
  <2>1. CmdTypeOK'
    BY <1>1, <1>5 DEF CmdTypeOK, cmdVars
  <2>2. LoseReservation => LogSame /\ faults' \in Nat /\ reserved' \in BOOLEAN
    <3> SUFFICES ASSUME LoseReservation
                 PROVE  LogSame /\ faults' \in Nat /\ reserved' \in BOOLEAN
      OBVIOUS
    <3>1. faults' \in Nat
      BY <1>1 DEF LoseReservation, SelTypeOK
    <3>2. reserved' \in BOOLEAN
      BY Zenon DEF LoseReservation
    <3>3. LogSame
      BY DEF LoseReservation, LogSame
    <3> QED
      BY <3>1, <3>2, <3>3
  <2>3. SelTypeOK' /\ LogSorted'
    BY <1>5, <2>2, LogEventKeeps, LogSameKeeps
  <2> QED
    BY <1>3, <1>5, <2>1, <2>3 DEF LogInv, TypeOK
<1> QED
  BY <1>2, <1>4, <1>5 DEF Next

-----------------------------------------------------------------------------
(* The daemon reports a record once. *)

LEMMA OnePosition ==
    ASSUME LogInv, NEW id, NEW i \in Positions(id), NEW k \in Positions(id)
    PROVE  i = k
<1>1. i \in 1 .. Len(sel) /\ k \in 1 .. Len(sel) /\ Len(sel) \in Nat
  BY Records DEF Positions
<1>2. CASE id = 0
  BY <1>2 DEF Positions
<1>3. CASE id # 0
  <2>1. sel[i].id = id /\ sel[k].id = id
    BY <1>3 DEF Positions
  <2>2. sel[i].id \in Nat
    BY <1>1, Records
  <2>3. /\ i < k => sel[i].id < sel[k].id
        /\ k < i => sel[k].id < sel[i].id
    BY <1>1 DEF LogInv, LogSorted
  <2> QED
    BY <1>1, <2>1, <2>2, <2>3
<1> QED
  BY <1>2, <1>3

LEMMA ReportedType ==
    ASSUME LogInv
    PROVE  /\ reported \in Seq([event : Nat \ {0}, id : Ids]) /\ Len(reported) \in Nat
           /\ base \in Nat /\ short \in BOOLEAN /\ lastid \in Ids /\ next \in Ids /\ count \in Nat
           /\ \A k \in 1 .. Len(reported) : reported[k].event \in Nat
<1>1. /\ reported \in Seq([event : Nat \ {0}, id : Ids])
      /\ base \in Nat /\ short \in BOOLEAN /\ lastid \in Ids /\ next \in Ids /\ count \in Nat
  BY DaemonParts DEF LogInv, TypeOK
<1> DEFINE R == [event : Nat \ {0}, id : Ids]
<1>2. reported \in Seq(R) /\ \A r \in R : r.event \in Nat
  BY <1>1
<1> HIDE DEF R
<1>3. Len(reported) \in Nat /\ \A k \in 1 .. Len(reported) : reported[k] \in R
  BY <1>2
<1> QED
  BY <1>1, <1>2, <1>3

(* What happens to the log behind the daemon's back leaves newer records   *)
(* where there were newer ones.                                            *)
LEMMA NewerKept ==
    ASSUME LogInv, OnceInv, NEW id, UNCHANGED daemonVars,
           LogSame \/ LogEvent \/ Clear \/ \E d \in 1 .. Len(sel) : Delete(d)
    PROVE  (NewerBehind(id) => NewerBehind(id)') /\ (id # 0 /\ NewerAt(id) => NewerAt(id)')
<1>1. base' = base /\ reported' = reported
  BY DEF daemonVars
<1>2. Len(sel) \in Nat
  BY Records
<1>3. CASE LogSame
  BY <1>1, <1>3 DEF LogSame, NewerBehind, NewerAt, Positions, IsNewer
<1>4. CASE LogEvent
  <2> DEFINE n == Len(sel) + 1
  <2>1. /\ Len(sel') = n /\ \A i \in 1 .. Len(sel) : sel'[i] = sel[i]
        /\ sel'[n].event = logged + 1
    BY <1>4, LogEventKeeps
  <2>2. /\ sel'[n].event > base
        /\ \A k \in 1 .. Len(reported) : reported[k].event < sel'[n].event
    BY <2>1, Records, ReportedType DEF OnceInv
  <2>3. \A i \in Positions(id)' : i \in 1 .. n /\ (i \in 1 .. Len(sel) => i \in Positions(id))
    BY <2>1 DEF Positions
  <2>4. \A i \in 1 .. n : i \in 1 .. Len(sel) \/ i = n
    BY <1>2
  <2>5. ASSUME NewerBehind(id), NEW i \in Positions(id)', NEW j \in i + 1 .. n
        PROVE  /\ sel'[j].event > base
               /\ \A k \in 1 .. Len(reported) : reported[k].event < sel'[j].event
    <3>1. i \in 1 .. Len(sel) /\ i \in Positions(id) /\ j \in 1 .. n
      BY <1>2, <2>3, <2>5
    <3>2. CASE j \in 1 .. Len(sel)
      <4>1. j \in i + 1 .. Len(sel)
        BY <3>2
      <4> QED
        BY <2>1, <2>5, <3>1, <3>2, <4>1 DEF NewerBehind, IsNewer
    <3>3. CASE j = n
      BY <2>2, <3>3
    <3> QED
      BY <2>4, <3>1, <3>2, <3>3
  <2>6. NewerBehind(id) => NewerBehind(id)'
    BY <1>1, <2>1, <2>5 DEF NewerBehind, IsNewer
  <2>7. NewerAt(id) => NewerAt(id)'
    BY <1>1, <2>1, <2>2, <2>3, <2>4 DEF NewerAt, IsNewer
  <2> QED
    BY <2>6, <2>7
<1>5. CASE Clear
  <2>1. Len(sel') = 0
    BY <1>5 DEF Clear
  <2>2. Positions(id)' = {}
    BY <2>1 DEF Positions
  <2> QED
    BY <2>2 DEF NewerBehind, NewerAt
<1>6. ASSUME NEW d \in 1 .. Len(sel), Delete(d)
      PROVE  (NewerBehind(id) => NewerBehind(id)') /\ (id # 0 /\ NewerAt(id) => NewerAt(id)')
  <2> DEFINE K(i) == IF i < d THEN i ELSE i + 1
  <2>1. /\ Len(sel') = Len(sel) - 1
        /\ \A i \in 1 .. Len(sel') : K(i) \in 1 .. Len(sel) /\ sel'[i] = sel[K(i)]
    BY <1>6, Deleted
  <2>2. ASSUME NEW i \in 1 .. Len(sel'), NEW j \in 1 .. Len(sel'), i < j
        PROVE  K(i) < K(j) /\ K(j) # 1
    BY <1>6, <2>2
  <2>3. ASSUME NewerBehind(id), NEW i \in Positions(id)', NEW j \in i + 1 .. Len(sel')
        PROVE  IsNewer(sel[K(j)])
    <3>1. i \in 1 .. Len(sel') /\ j \in 1 .. Len(sel') /\ i < j
      BY <1>2, <2>1, <2>3 DEF Positions
    <3>2. CASE id = 0
      <4>1. 1 \in Positions(id) /\ K(j) \in 2 .. Len(sel)
        BY <1>2, <2>1, <2>2, <3>1, <3>2 DEF Positions
      <4> HIDE DEF K
      <4> QED
        BY <2>3, <4>1 DEF NewerBehind
    <3>3. CASE id # 0
      <4>1. K(i) \in Positions(id)
        BY <2>1, <2>3, <3>1, <3>3 DEF Positions
      <4>2. K(j) \in K(i) + 1 .. Len(sel)
        BY <1>2, <2>1, <2>2, <3>1
      <4> HIDE DEF K
      <4> QED
        BY <2>3, <4>1, <4>2 DEF NewerBehind
    <3> QED
      BY <3>2, <3>3
  <2> HIDE DEF K
  <2>4. ASSUME NEW j \in 1 .. Len(sel'), IsNewer(sel[K(j)])
        PROVE  IsNewer(sel[j])'
    BY <1>1, <2>1, <2>4 DEF IsNewer
  <2>5. ASSUME NewerBehind(id), NEW i \in Positions(id)', NEW j \in i + 1 .. Len(sel')
        PROVE  IsNewer(sel[j])'
    <3>1. j \in 1 .. Len(sel')
      BY <1>2, <2>1, <2>5 DEF Positions
    <3> QED
      BY <2>3, <2>4, <2>5, <3>1
  <2>6. NewerBehind(id) => NewerBehind(id)'
    BY <2>5 DEF NewerBehind
  <2>7. ASSUME id # 0, NewerAt(id), NEW i \in Positions(id)'
        PROVE  IsNewer(sel[i])'
    <3>1. i \in 1 .. Len(sel') /\ K(i) \in Positions(id)
      BY <2>1, <2>7 DEF Positions
    <3> QED
      BY <2>4, <2>7, <3>1 DEF NewerAt
  <2>8. id # 0 /\ NewerAt(id) => NewerAt(id)'
    BY <2>7 DEF NewerAt
  <2> QED
    BY <2>6, <2>8
<1> QED
  BY <1>3, <1>4, <1>5, <1>6

LEMMA OnceKept ==
    ASSUME LogInv, OnceInv, UNCHANGED daemonVars,
           LogSame \/ LogEvent \/ Clear \/ \E d \in 1 .. Len(sel) : Delete(d)
    PROVE  OnceInv'
<1>1. UNCHANGED <<pc, count, lastid, next, base, reported, short>>
  BY DEF daemonVars
<1>2. logged \in Nat /\ base \in Nat /\ \A k \in 1 .. Len(reported) : reported[k].event \in Nat
  BY Records, ReportedType
<1>3. logged' = logged \/ logged' = logged + 1
  BY DEF LogSame, LogEvent, Clear, Delete
<1>4. base' <= logged' /\ \A k \in 1 .. Len(reported') : reported'[k].event <= logged'
  BY <1>1, <1>2, <1>3 DEF OnceInv
<1>5. /\ pc' \in {"setup", "setup_walk"} => reported' = <<>>
      /\ pc' = "setup" => base' = 0 /\ lastid' = 0
      /\ ReportedOnce'
  BY <1>1 DEF OnceInv, ReportedOnce
<1>6. ASSUME ~short', pc' = "sleep"
      PROVE  NewerBehind(lastid)'
  <2>1. NewerBehind(lastid)
    BY <1>1, <1>6 DEF OnceInv
  <2>2. PICK c : c = lastid
    OBVIOUS
  <2>3. NewerBehind(c)'
    BY <2>1, <2>2, NewerKept
  <2>4. lastid' = c
    BY <1>1, <2>2
  <2> QED
    BY <2>3, <2>4 DEF NewerBehind, Positions
<1>7. ASSUME ~short', pc' = "read"
      PROVE  NewerBehind(next)' /\ (next' \notin {0, lastid'} => NewerAt(next)')
  <2>1. NewerBehind(next) /\ (next \notin {0, lastid} => NewerAt(next))
    BY <1>1, <1>7 DEF OnceInv
  <2>2. PICK c : c = next
    OBVIOUS
  <2>3. NewerBehind(c)' /\ (c \notin {0, lastid} => NewerAt(c)')
    BY <2>1, <2>2, NewerKept
  <2>4. next' = c
    BY <1>1, <2>2
  <2> QED
    BY <1>1, <2>3, <2>4 DEF NewerBehind, NewerAt, Positions
<1> QED
  BY <1>4, <1>5, <1>6, <1>7 DEF OnceInv

(* At the last record nothing is behind. *)
LEMMA NothingBehind ==
    ASSUME LogInv, NEW id, NEW i \in Positions(id), NextOf(i) = End
    PROVE  \A k \in Positions(id) : k = Len(sel)
<1>1. i = Len(sel)
  BY Answer
<1> QED
  BY <1>1, OnePosition

LEMMA OnceDaemon ==
    ASSUME LogInv, OnceInv, Daemon
    PROVE  OnceInv'
<1>1. LogSame
  BY DaemonType
<1>2. sel' = sel /\ logged' = logged /\ logged \in Nat /\ Len(sel) \in Nat /\ lastid \in Ids /\ next \in Ids
  BY <1>1, Records, ReportedType DEF LogSame
<1>3. \A id : Positions(id)' = Positions(id)
  BY <1>2 DEF Positions
<1>4. ASSUME NEW i \in Positions(next), Advance(i), NextOf(i) = End
      PROVE  pc' = "sleep" /\ NewerBehind(lastid)'
  <2>1. pc' = "sleep" /\ lastid' = next
    BY <1>4 DEF Advance
  <2>2. \A k \in Positions(next) : k = Len(sel)
    BY <1>4, NothingBehind
  <2>3. Positions(lastid)' = Positions(next)
    BY <1>2, <2>1 DEF Positions
  <2>4. \A k \in Positions(lastid)' : k + 1 .. Len(sel') = {}
    BY <1>2, <2>2, <2>3
  <2> QED
    BY <2>1, <2>4 DEF NewerBehind
<1>5. CASE selwatch_setup
  <2>1. /\ reported' = reported /\ short' = short /\ pc = "setup"
        /\ base' \in {logged, base} /\ pc' \in {"sleep", "setup_walk"}
        /\ reported = <<>> /\ base = 0 /\ lastid = 0 /\ base <= logged
    BY <1>5 DEF selwatch_setup, StartWalk, OnceInv
  <2>2. pc' = "sleep" => lastid' = 0 /\ (Len(sel) = 0 \/ base' = 0)
    BY <1>5, <2>1 DEF selwatch_setup, StartWalk
  <2>3. pc' = "sleep" => NewerBehind(lastid)'
    <3>1. CASE Len(sel) = 0
      <4>1. Positions(lastid)' = {}
        BY <1>2, <3>1 DEF Positions
      <4> QED
        BY <4>1 DEF NewerBehind
    <3>2. CASE base' = 0
      <4>1. \A i \in 1 .. Len(sel) : sel'[i].event > 0
        BY <1>2, Records
      <4>2. \A i \in Positions(lastid)' : \A j \in i + 1 .. Len(sel') : j \in 1 .. Len(sel)
        BY <1>2 DEF Positions
      <4>3. Len(reported') = 0
        BY <2>1
      <4> QED
        BY <3>2, <4>1, <4>2, <4>3 DEF NewerBehind, IsNewer
    <3> QED
      BY <2>2, <3>1, <3>2
  <2>4. ReportedOnce' /\ base' <= logged' /\ \A k \in 1 .. Len(reported') : reported'[k].event <= logged'
    <3>1. Len(reported') = 0
      BY <2>1
    <3> QED
      BY <1>2, <2>1, <3>1 DEF ReportedOnce
  <2> QED
    BY <2>1, <2>3, <2>4 DEF OnceInv
<1>6. CASE selwatch_check
  <2>1. /\ reported' = reported /\ short' = short /\ pc = "sleep" /\ base' = base
        /\ pc' \in {"sleep", "check_walk", "read"}
    BY <1>6 DEF selwatch_check, StartWalk
  <2>2. /\ pc' = "sleep" => (Len(sel) = 0 \/ lastid' = lastid)
        /\ pc' = "read" => next' = lastid /\ lastid' = lastid
    BY <1>6, <2>1 DEF selwatch_check, StartWalk
  <2>3. ASSUME ~short, Len(sel) = 0 \/ lastid' = lastid
        PROVE  NewerBehind(lastid)'
    <3>1. CASE Len(sel) = 0
      <4>1. Positions(lastid)' = {}
        BY <1>2, <3>1 DEF Positions
      <4> QED
        BY <4>1 DEF NewerBehind
    <3>2. CASE lastid' = lastid
      BY <1>2, <2>1, <2>3, <3>2 DEF OnceInv, NewerBehind, IsNewer, Positions
    <3> QED
      BY <2>3, <3>1, <3>2
  <2>4. ASSUME ~short, pc' = "read"
        PROVE  NewerBehind(next)' /\ next' = lastid'
    BY <1>2, <2>1, <2>2, <2>4 DEF OnceInv, NewerBehind, IsNewer, Positions
  <2>5. ReportedOnce' /\ base' <= logged' /\ \A k \in 1 .. Len(reported') : reported'[k].event <= logged'
    BY <1>2, <2>1 DEF OnceInv, ReportedOnce
  <2> QED
    BY <2>1, <2>2, <2>3, <2>4, <2>5 DEF OnceInv
<1>7. CASE selwatch_get_lastid
  <2>1. /\ Walking /\ reported' = reported /\ short' = short
        /\ base' = IF pc = "setup_walk" THEN logged ELSE base
    BY <1>7 DEF selwatch_get_lastid
  <2>2. PICK i \in Positions(next) : Advance(i)
    BY <1>7 DEF selwatch_get_lastid
  <2>3. pc' = pc \/ (pc' = "sleep" /\ NewerBehind(lastid)')
    BY <1>4, <2>2 DEF Advance
  <2>4. base' <= logged' /\ \A k \in 1 .. Len(reported') : reported'[k].event <= logged'
    BY <1>2, <2>1 DEF OnceInv
  <2>5. ReportedOnce'
    <3>1. CASE pc = "setup_walk"
      <4>1. Len(reported') = 0
        BY <2>1, <3>1 DEF OnceInv
      <4> QED
        BY <4>1 DEF ReportedOnce
    <3>2. CASE pc # "setup_walk"
      BY <2>1, <3>2 DEF OnceInv, ReportedOnce
    <3> QED
      BY <3>1, <3>2
  <2> QED
    BY <2>1, <2>3, <2>4, <2>5 DEF OnceInv, Walking
<1>9. CASE EntryNotRead
  <2>1. /\ short' = TRUE /\ pc' = "sleep" /\ reported' = reported
        /\ base' = IF pc = "setup_walk" THEN logged ELSE base
    BY <1>9 DEF EntryNotRead
  <2> QED
    BY <1>2, <2>1 DEF OnceInv, ReportedOnce
<1>8. CASE selwatch_read
  <2> DEFINE R == [event : Nat \ {0}, id : Ids]
  <2>1. /\ pc = "read" /\ base' = base /\ short' = short
    BY <1>8 DEF selwatch_read
  <2>2. PICK i \in Positions(next) :
            /\ reported' = IF IsNew(next)
                           THEN Append(reported, [event |-> sel[i].event, id |-> next])
                           ELSE reported
            /\ Advance(i)
    BY <1>8 DEF selwatch_read
  <2> DEFINE e == sel[i].event
             r == [event |-> e, id |-> next]
             n == Len(reported) + 1
  <2>3. i \in 1 .. Len(sel) /\ e \in Nat \ {0} /\ e <= logged
    BY <1>2, Answer
  <2>4. r \in R /\ r.event = e /\ r.id = next
    BY <1>2, <2>3
  <2>5. /\ reported \in Seq(R) /\ Len(reported) \in Nat /\ base \in Nat
        /\ \A k \in 1 .. Len(reported) : reported[k].event \in Nat
    BY ReportedType
  <2>6. reported' = IF IsNew(next) THEN Append(reported, r) ELSE reported
    BY <2>2
  <2>7. /\ pc' \in {"read", "sleep"}
        /\ pc' = "sleep" => NewerBehind(lastid)'
        /\ pc' = "read" => NextOf(i) # End /\ next' = NextOf(i) /\ lastid' = lastid
    <3>1. CASE NextOf(i) = End
      BY <1>4, <2>2, <3>1
    <3>2. CASE NextOf(i) # End
      BY <2>1, <2>2, <3>2 DEF Advance
    <3> QED
      BY <3>1, <3>2
  <2> HIDE DEF e, r, R
  <2>8. \/ reported' = reported
        \/ /\ IsNew(next) /\ Len(reported') = n /\ reported'[n] = r
           /\ \A k \in 1 .. Len(reported) : reported'[k] = reported[k]
    BY <2>4, <2>5, <2>6, AppendProperties
  <2>9. \A k \in 1 .. Len(reported') :
            (k \in 1 .. Len(reported) /\ reported'[k] = reported[k])
            \/ (k = n /\ reported'[k] = r /\ IsNew(next) /\ \A j \in 1 .. k - 1 : reported'[j] = reported[j])
    BY <2>5, <2>8
  <2>10. \A k \in 1 .. Len(reported') : reported'[k].event <= logged'
    BY <1>2, <2>3, <2>4, <2>9 DEF OnceInv
  <2>11. ASSUME ~short, IsNew(next), next # 0
         PROVE  e > base /\ \A k \in 1 .. Len(reported) : reported[k].event < e
    BY <2>1, <2>2, <2>11 DEF OnceInv, IsNew, NewerAt, IsNewer, e
  <2>12. ASSUME ~short, NEW k \in 1 .. Len(reported'), reported'[k].id # 0
         PROVE  reported'[k].event > base' /\ \A j \in 1 .. k - 1 : reported'[j].event < reported'[k].event
    <3>1. CASE k \in 1 .. Len(reported) /\ reported'[k] = reported[k]
      <4>1. \A j \in 1 .. k - 1 : j \in 1 .. Len(reported) /\ reported'[j] = reported[j]
        BY <2>5, <2>8, <3>1
      <4>2. reported[k].event > base /\ \A j \in 1 .. k - 1 : reported[j].event < reported[k].event
        BY <2>12, <3>1 DEF OnceInv, ReportedOnce
      <4> QED
        BY <2>1, <3>1, <4>1, <4>2
    <3>2. CASE /\ k = n /\ reported'[k] = r /\ IsNew(next)
               /\ \A j \in 1 .. k - 1 : reported'[j] = reported[j]
      <4>1. next # 0 /\ \A j \in 1 .. k - 1 : j \in 1 .. Len(reported)
        BY <2>4, <2>5, <2>12, <3>2
      <4> QED
        BY <2>1, <2>4, <2>11, <2>12, <3>2, <4>1
    <3> QED
      BY <2>9, <3>1, <3>2
  <2>13. ReportedOnce'
    BY <2>1, <2>12 DEF ReportedOnce
  <2>14. ASSUME ~short, NEW j \in i + 1 .. Len(sel)
         PROVE  IsNewer(sel[j])'
    <3>1. IsNewer(sel[j])
      BY <2>1, <2>2, <2>14 DEF OnceInv, NewerBehind
    <3>2. j \in 1 .. Len(sel) /\ i < j
      BY <1>2, <2>3
    <3>3. e < sel[j].event
      BY <2>3, <3>2 DEF LogInv, LogSorted, e
    <3> QED
      BY <1>2, <2>1, <2>4, <2>9, <3>1, <3>3 DEF IsNewer
  <2>15. ASSUME ~short, pc' = "read"
         PROVE  NewerBehind(next)' /\ NewerAt(next)'
    <3>1. /\ i < Len(sel) /\ i + 1 \in 1 .. Len(sel) /\ next' = sel[i + 1].id
          /\ NextOf(i) \in 1 .. End - 1 /\ next' = NextOf(i)
      BY <2>7, <2>15, Answer
    <3>2. next' # 0
      BY <3>1, Constants
    <3>3. PICK c : c = next'
      OBVIOUS
    <3>4. i + 1 \in Positions(c)
      BY <3>1, <3>2, <3>3 DEF Positions
    <3>5. \A k \in Positions(c) : k = i + 1
      BY <3>4, OnePosition
    <3>6. \A k \in Positions(next)' : k = i + 1
      BY <1>2, <3>3, <3>5 DEF Positions
    <3>7. \A j \in (i + 1) + 1 .. Len(sel') : j \in i + 1 .. Len(sel)
      BY <1>2, <2>3
    <3>8. i + 1 \in i + 1 .. Len(sel)
      BY <1>2, <2>3, <3>1
    <3>9. NewerBehind(next)'
      BY <2>14, <2>15, <3>6, <3>7 DEF NewerBehind
    <3>10. NewerAt(next)'
      BY <2>14, <2>15, <3>6, <3>8 DEF NewerAt
    <3> QED
      BY <3>9, <3>10
  <2>16. base' <= logged'
    BY <1>2, <2>1 DEF OnceInv
  <2> QED
    BY <2>1, <2>7, <2>10, <2>13, <2>15, <2>16 DEF OnceInv
<1> QED
  BY <1>5, <1>6, <1>7, <1>8, <1>9 DEF Daemon

(* Every step of another than the daemon is one of these for the log. *)
LEMMA OthersEffect ==
    ASSUME LogInv, Next
    PROVE  \/ Daemon /\ UNCHANGED cmdVars /\ LogSame
           \/ /\ UNCHANGED daemonVars
              /\ LogSame \/ LogEvent \/ Clear \/ \E d \in 1 .. Len(sel) : Delete(d)
BY CommandEffect, DaemonType DEF Next, Leaves, Removes, LogSame, LoseReservation

LEMMA OnceNext ==
    ASSUME LogInv, OnceInv, Next
    PROVE  OnceInv'
BY OthersEffect, OnceKept, OnceDaemon

-----------------------------------------------------------------------------
(* The daemon leaves no gap. *)

LEMMA Effect ==
    ASSUME LogInv, Next
    PROVE  \/ Daemon /\ UNCHANGED cmdVars /\ LogSame
           \/ Command /\ UNCHANGED daemonVars /\ Leaves
           \/ Command /\ UNCHANGED daemonVars /\ Removes
           \/ LogEvent /\ UNCHANGED <<daemonVars, cmdVars>>
           \/ LoseReservation /\ UNCHANGED <<daemonVars, cmdVars>> /\ LogSame
BY CommandEffect, DaemonType DEF Next, LogSame, LoseReservation

LEMMA RemovalsCount ==
    ASSUME LogInv, Next, removals' = 0
    PROVE  removals = 0 /\ (LogSame \/ LogEvent) /\ logged' \in {logged, logged + 1}
<1>1. removals \in Nat
  BY DEF LogInv, TypeOK, CmdTypeOK
<1> QED
  BY <1>1, Effect DEF Leaves, Removes, cmdVars, LogSame, LogEvent

LEMMA UnremovedNext ==
    ASSUME LogInv, Unremoved, Next
    PROVE  Unremoved'
<1> SUFFICES ASSUME removals' = 0
             PROVE  /\ Len(sel') = logged' /\ nextId' = logged' + 1
                    /\ \A i \in 1 .. Len(sel') : sel'[i].id = i /\ sel'[i].event = i
  BY DEF Unremoved
<1>1. /\ Len(sel) = logged /\ nextId = logged + 1 /\ logged \in Nat
      /\ \A i \in 1 .. Len(sel) : sel[i].id = i /\ sel[i].event = i
  BY RemovalsCount, Records DEF Unremoved
<1>2. CASE LogSame
  BY <1>1, <1>2 DEF LogSame
<1>3. CASE LogEvent
  <2>1. /\ logged' = logged + 1 /\ nextId' = nextId + 1
        /\ Len(sel') = Len(sel) + 1 /\ \A i \in 1 .. Len(sel) : sel'[i] = sel[i]
        /\ sel'[Len(sel) + 1].id = nextId /\ sel'[Len(sel) + 1].event = logged + 1
    BY <1>3, LogEventKeeps
  <2>2. \A i \in 1 .. Len(sel) + 1 : i \in 1 .. Len(sel) \/ i = Len(sel) + 1
    BY <1>1
  <2> QED
    BY <1>1, <2>1, <2>2
<1> QED
  BY <1>2, <1>3, RemovalsCount

(* Where nothing was removed, an id is a position and an event. *)
LEMMA Found ==
    ASSUME LogInv, Unremoved, removals = 0, NEW id \in Nat, NEW i \in Positions(id)
    PROVE  /\ i \in 1 .. logged /\ i = (IF id = 0 THEN 1 ELSE id) /\ sel[i].event = i
           /\ NextOf(i) = IF i = logged THEN End ELSE i + 1
<1>1. /\ Len(sel) = logged /\ logged \in Nat
      /\ \A k \in 1 .. Len(sel) : sel[k].id = k /\ sel[k].event = k
  BY Records DEF Unremoved
<1>2. i \in 1 .. Len(sel) /\ (id = 0 => i = 1) /\ (id # 0 => sel[i].id = id)
  BY Answer
<1>3. i # logged => i + 1 \in 1 .. Len(sel)
  BY <1>1, <1>2
<1> QED
  BY <1>1, <1>2, <1>3 DEF NextOf

LEMMA GapNext ==
    ASSUME LogInv, OnceInv, Unremoved, GapInv, Next
    PROVE  GapInv'
<1> SUFFICES ASSUME ~short', removals' = 0
             PROVE  /\ count' <= logged' /\ pc' # "check_walk"
                    /\ ReportedWithoutGap'
                    /\ (pc' \in {"sleep", "read"} /\ lastid' # 0) => AllReported(lastid)'
                    /\ (pc' = "read" /\ next' # 0) => AllReported(next - 1)'
  BY DEF GapInv
<1>1. removals = 0 /\ logged' \in {logged, logged + 1} /\ logged \in Nat
  BY RemovalsCount, Records
<1>2. ~short
  BY Effect DEF Daemon, selwatch_setup, selwatch_check, selwatch_get_lastid, selwatch_read,
                EntryNotRead, daemonVars
<1>3. /\ count <= logged /\ pc # "check_walk" /\ ReportedWithoutGap
      /\ (pc \in {"sleep", "read"} /\ lastid # 0) => AllReported(lastid)
      /\ (pc = "read" /\ next # 0) => AllReported(next - 1)
  BY <1>1, <1>2 DEF GapInv
<1>4. /\ Len(reported) \in Nat /\ base \in Nat /\ count \in Nat /\ lastid \in Nat /\ next \in Nat
      /\ \A k \in 1 .. Len(reported) : reported[k].event \in Nat
  BY ReportedType DEF Ids
<1>5. /\ Len(sel) = logged
      /\ \A i \in 1 .. Len(sel) : sel[i].id = i /\ sel[i].event = i
  BY <1>1 DEF Unremoved
<1>6. ASSUME reported' = reported, base' = base
      PROVE  ReportedWithoutGap' /\ \A n : AllReported(n) => AllReported(n)'
  BY <1>1, <1>2, <1>3, <1>6 DEF ReportedWithoutGap, AllReported, ReportedUpTo
<1>7. CASE UNCHANGED daemonVars
  <2>1. UNCHANGED <<pc, count, lastid, next, base, reported, short>>
    BY <1>7 DEF daemonVars
  <2>2. count' <= logged'
    BY <1>1, <1>3, <1>4, <2>1
  <2> QED
    BY <1>2, <1>3, <1>6, <2>1, <2>2 DEF AllReported, ReportedUpTo
<1>8. CASE Daemon /\ LogSame
  <2>1. sel' = sel /\ logged' = logged
    BY <1>8 DEF LogSame
  <2>2. ASSUME reported' = <<>>  PROVE ReportedWithoutGap'
    <3>1. Len(reported') = 0
      BY <2>2
    <3> QED
      BY <3>1 DEF ReportedWithoutGap
  <2>3. CASE selwatch_setup
    <3>1. /\ reported' = reported /\ reported = <<>> /\ pc' \in {"sleep", "setup_walk"} /\ count' \in {count, logged}
          /\ pc' = "sleep" => lastid' = 0
      BY <1>5, <2>3 DEF selwatch_setup, StartWalk, OnceInv
    <3> QED
      BY <1>1, <1>3, <2>1, <2>2, <3>1
  <2>4. CASE selwatch_check
    <3>1. ~(Len(sel) < count) /\ pc = "sleep"
      BY <1>1, <1>3, <1>4, <1>5, <2>4 DEF selwatch_check
    <3>2. /\ reported' = reported /\ base' = base /\ count' = logged
          /\ pc' \in {"sleep", "read"} /\ (lastid' = lastid \/ lastid' = 0)
          /\ pc' = "read" => next' = lastid /\ lastid' = lastid
      BY <1>5, <2>4, <3>1 DEF selwatch_check
    <3>3. AllReported(lastid) /\ lastid # 0 => AllReported(lastid - 1)
      BY <1>4 DEF AllReported
    <3>4. lastid' # 0 => lastid' = lastid /\ AllReported(lastid)
      BY <1>3, <3>1, <3>2
    <3>5. lastid' # 0 => AllReported(lastid)'
      BY <3>2, <3>4 DEF AllReported, ReportedUpTo
    <3>6. pc' = "read" /\ next' # 0 => AllReported(next - 1)'
      BY <3>2, <3>3, <3>4 DEF AllReported, ReportedUpTo
    <3> QED
      BY <1>1, <1>6, <2>1, <3>2, <3>5, <3>6
  <2>5. CASE selwatch_get_lastid
    <3>1. /\ pc = "setup_walk" /\ reported' = reported /\ base' = logged /\ count' = count
          /\ reported = <<>>
      BY <1>3, <2>5 DEF selwatch_get_lastid, Walking, OnceInv
    <3>2. PICK i \in Positions(next) : Advance(i)
      BY <2>5 DEF selwatch_get_lastid
    <3>3. i \in 1 .. logged /\ (next # 0 => i = next)
      BY <1>1, <1>4, Found
    <3>4. pc' = pc \/ (pc' = "sleep" /\ lastid' = next)
      BY <3>2 DEF Advance
    <3>5. pc' = "sleep" /\ lastid' # 0 => AllReported(lastid)'
      <4>1. ASSUME pc' = "sleep", lastid' # 0  PROVE base' + 1 .. lastid' = {}
        BY <1>1, <1>4, <3>1, <3>3, <3>4, <4>1
      <4> QED
        BY <4>1 DEF AllReported
    <3> QED
      BY <1>3, <2>1, <2>2, <3>1, <3>4, <3>5
  <2>6. CASE selwatch_read
    <3> DEFINE R == [event : Nat \ {0}, id : Ids]
               n == Len(reported) + 1
    <3>1. pc = "read" /\ base' = base /\ count' = count
      BY <2>6 DEF selwatch_read
    <3>2. PICK i \in Positions(next) :
              /\ reported' = IF IsNew(next)
                             THEN Append(reported, [event |-> sel[i].event, id |-> next])
                             ELSE reported
              /\ Advance(i)
      BY <2>6 DEF selwatch_read
    <3>3. /\ i \in 1 .. logged /\ i = (IF next = 0 THEN 1 ELSE next) /\ sel[i].event = i
          /\ NextOf(i) = IF i = logged THEN End ELSE i + 1
      BY <1>1, <1>4, Found
    <3> DEFINE r == [event |-> i, id |-> next]
    <3>4. reported' = IF IsNew(next) THEN Append(reported, r) ELSE reported
      BY <3>2, <3>3
    <3>5. r \in R /\ r.event = i /\ reported \in Seq(R)
      BY <1>1, <3>3, ReportedType
    <3> HIDE DEF r, R
    <3>6. \/ reported' = reported /\ ~IsNew(next)
          \/ /\ IsNew(next) /\ Len(reported') = n /\ reported'[n] = r
             /\ \A k \in 1 .. Len(reported) : reported'[k] = reported[k]
      BY <3>4, <3>5, AppendProperties
    <3>7. \A k \in 1 .. Len(reported) : ReportedUpTo(k)' = ReportedUpTo(k)
      <4>1. \A k \in 1 .. Len(reported) : \A j \in 1 .. k : reported'[j] = reported[j]
        BY <1>4, <3>6
      <4> QED
        BY <4>1 DEF ReportedUpTo
    <3>8. ReportedUpTo(Len(reported)) \subseteq ReportedUpTo(Len(reported))'
      <4>1. \A j \in 1 .. Len(reported) : j \in 1 .. Len(reported') /\ reported'[j] = reported[j]
        BY <1>4, <3>6
      <4> QED
        BY <4>1 DEF ReportedUpTo
    <3>9. AllReported(i) \/ (i \in ReportedUpTo(Len(reported))' /\ AllReported(i - 1))
      <4>1. CASE ~IsNew(next)
        <5>1. next = lastid /\ next # 0
          BY <4>1 DEF IsNew
        <5> QED
          BY <1>3, <3>1, <3>3, <5>1
      <4>2. CASE IsNew(next)
        <5>1. Len(reported') = n /\ reported'[n].event = i
          BY <3>5, <3>6, <4>2
        <5>2. n \in 1 .. n
          BY <1>4
        <5>3. i \in ReportedUpTo(Len(reported))'
          BY <5>1, <5>2 DEF ReportedUpTo
        <5>4. AllReported(i - 1)
          <6>1. CASE next = 0
            <7>1. base + 1 .. i - 1 = {}
              BY <1>4, <3>3, <6>1
            <7> QED
              BY <7>1 DEF AllReported
          <6>2. CASE next # 0
            BY <1>3, <3>1, <3>3, <6>2
          <6> QED
            BY <6>1, <6>2
        <5> QED
          BY <5>3, <5>4
      <4> QED
        BY <4>1, <4>2
    <3>10. base + 1 .. i \subseteq ReportedUpTo(Len(reported))'
      <4>1. base + 1 .. i \subseteq (base + 1 .. i - 1) \cup {i}
        BY <1>1, <1>4, <3>3
      <4> QED
        BY <3>8, <3>9, <4>1 DEF AllReported
    <3>11. ReportedWithoutGap'
      <4>1. ASSUME NEW k \in 1 .. Len(reported')
            PROVE  base' + 1 .. reported'[k].event \subseteq ReportedUpTo(k)'
        <5>1. CASE k \in 1 .. Len(reported)
          <6>1. reported'[k] = reported[k]
            BY <3>6, <5>1
          <6>2. base + 1 .. reported[k].event \subseteq ReportedUpTo(k)
            BY <1>1, <1>2, <1>3, <5>1 DEF ReportedWithoutGap
          <6> QED
            BY <3>1, <3>7, <5>1, <6>1, <6>2
        <5>2. CASE k \notin 1 .. Len(reported)
          <6>1. k = n /\ Len(reported') = n /\ reported'[k] = r
            BY <1>4, <3>6, <4>1, <5>2
          <6>2. ReportedUpTo(k)' = ReportedUpTo(Len(reported))'
            BY <6>1 DEF ReportedUpTo
          <6> QED
            BY <3>1, <3>5, <3>10, <6>1, <6>2
        <5> QED
          BY <5>1, <5>2
      <4> QED
        BY <4>1 DEF ReportedWithoutGap
    <3>12. pc' \in {"sleep", "read"} /\ (lastid' # 0 => AllReported(lastid)')
      <4>1. CASE NextOf(i) = End
        <5>1. pc' = "sleep" /\ lastid' = next
          BY <3>2, <4>1 DEF Advance
        <5>2. lastid' # 0 => lastid' = i
          BY <3>3, <5>1
        <5> QED
          BY <3>1, <3>10, <5>1, <5>2 DEF AllReported
      <4>2. CASE NextOf(i) # End
        <5>1. pc' = pc /\ lastid' = lastid
          BY <3>2, <4>2 DEF Advance
        <5>2. lastid # 0 => AllReported(lastid)
          BY <1>3, <3>1
        <5> QED
          BY <3>1, <3>8, <5>1, <5>2 DEF AllReported
      <4> QED
        BY <4>1, <4>2
    <3>13. pc' = "read" => AllReported(next - 1)'
      <4>1. pc' = "read" => NextOf(i) # End /\ next' = NextOf(i)
        BY <3>2 DEF Advance
      <4>2. pc' = "read" => next' - 1 = i
        BY <1>1, <3>3, <4>1
      <4> QED
        BY <3>1, <3>10, <4>2 DEF AllReported
    <3> QED
      BY <1>3, <2>1, <3>1, <3>11, <3>12, <3>13
  <2>7. CASE EntryNotRead
    BY <2>7 DEF EntryNotRead
  <2> QED
    BY <1>8, <2>3, <2>4, <2>5, <2>6, <2>7 DEF Daemon
<1> QED
  BY <1>7, <1>8, Effect

-----------------------------------------------------------------------------
(* "list last" shows the last records. *)

LEMMA CmdTypes ==
    ASSUME LogInv
    PROVE  /\ arg \in Int /\ since \in Nat /\ skip \in Nat /\ next_id \in Nat /\ shown \in Seq(Nat)
           /\ removals \in Nat /\ faults \in Nat /\ logged \in Nat /\ logged <= MaxEvents
           /\ Len(shown) \in Nat /\ Len(sel) \in Nat /\ Len(sel) <= logged /\ ids \in Seq(Nat)
           /\ rc \in {0, -1}
<1>1. /\ since \in Nat /\ skip \in Nat /\ shown \in Seq(Nat) /\ next_id \in 0 .. End
      /\ removals \in Nat /\ faults \in Nat /\ logged \in Nat /\ arg \in Counts \cup {0}
      /\ ids \in Seq(Nat) /\ rc \in {0, -1} /\ sel \in Seq(Record)
  BY DEF LogInv, TypeOK, CmdTypeOK, SelTypeOK
<1>2. arg \in Int /\ next_id \in Nat
  BY <1>1, Constants
<1> QED
  BY <1>1, <1>2 DEF LogInv, LogSorted

LEMMA BeforeType ==
    ASSUME LogInv, arg < 0, since > 0
    PROVE  Before \in Nat /\ Before < since
BY CmdTypes DEF Before

(* Where nothing was removed, the ids up to the number of events are found. *)
LEMMA CanBeFound ==
    ASSUME LogInv, Unremoved, removals = 0, NEW id \in Nat, id <= logged, logged > 0
    PROVE  Positions(id) # {}
<1>1. /\ Len(sel) = logged /\ logged \in Nat
      /\ \A k \in 1 .. Len(sel) : sel[k].id = k
  BY Records DEF Unremoved
<1>2. CASE id = 0
  <2>1. 1 \in Positions(id)
    BY <1>1, <1>2 DEF Positions
  <2> QED
    BY <2>1
<1>3. CASE id # 0
  <2>1. id \in Positions(id)
    BY <1>1, <1>3 DEF Positions
  <2> QED
    BY <2>1
<1> QED
  BY <1>2, <1>3

(* What the daemon and the BMC do leaves a listing as it was. *)
LEMMA ListKept ==
    ASSUME LogInv, ListInv, UNCHANGED cmdVars, logged' \in {logged, logged + 1},
           faults' \in Nat, faults' = 0 => faults = 0
    PROVE  ListInv'
<1>1. UNCHANGED <<at, arg, ids, next_id, skip, shown, rc, undone, since, removals, commands>>
  BY DEF cmdVars
<1>2. arg \in Int /\ since \in Nat /\ skip \in Nat /\ logged \in Nat /\ next_id \in Nat
  BY CmdTypes
<1>3. /\ at' \in {"info", "skip"} => shown' = <<>> /\ rc' = 0
      /\ at' \in {"clear_reserve", "clear", "delete_reserve", "delete"} => arg' = 0
      /\ since' <= logged' /\ (at' \in {"skip", "list"} => since' > 0)
  BY <1>1, <1>2 DEF ListInv
<1>4. ListedLast'
  BY <1>1 DEF ListInv, ListedLast
<1>5. Listing'
  <2> SUFFICES ASSUME arg < 0, removals = 0, faults = 0
               PROVE  /\ at = "skip" => /\ skip <= Before
                                        /\ next_id = IF skip = Before THEN 0 ELSE Before - skip + 1
                      /\ at = "list" =>
                           IF shown = <<>>
                           THEN next_id = First
                           ELSE LET m == shown[Len(shown)] IN
                                /\ shown[1] = Before + 1 /\ m \in Before + 1 .. logged'
                                /\ (next_id = m + 1 /\ m < logged') \/ (next_id = End /\ m >= since)
    BY <1>1 DEF Listing, Before, First
  <2>1. Listing
    BY DEF ListInv
  <2>2. CASE at = "list" /\ shown # <<>>
    <3>1. since > 0
      BY <2>2 DEF ListInv
    <3> DEFINE m == shown[Len(shown)]
    <3>2. /\ shown[1] = Before + 1 /\ m \in Before + 1 .. logged
          /\ (next_id = m + 1 /\ m < logged) \/ (next_id = End /\ m >= since)
      BY <2>1, <2>2 DEF Listing
    <3>3. Before \in Nat
      BY <3>1, BeforeType
    <3> HIDE DEF m
    <3>4. m \in Before + 1 .. logged' /\ (m < logged => m < logged')
      BY <1>2, <3>2, <3>3
    <3> QED
      BY <2>2, <3>2, <3>4 DEF m
  <2> QED
    BY <2>1, <2>2 DEF Listing
<1> QED
  BY <1>3, <1>4, <1>5 DEF ListInv

LEMMA ListCommand ==
    ASSUME LogInv, Unremoved, ListInv, Command
    PROVE  ListInv'
<1>1. /\ arg \in Int /\ since \in Nat /\ skip \in Nat /\ next_id \in Nat /\ shown \in Seq(Nat)
      /\ removals \in Nat /\ faults \in Nat /\ logged \in Nat /\ logged <= MaxEvents
      /\ Len(shown) \in Nat /\ Len(sel) \in Nat /\ Len(sel) <= logged
  BY CmdTypes
<1>2. logged' = logged
  BY CommandEffect DEF Leaves, Removes, LogSame, Clear, Delete
<1>3. since <= logged /\ Listing /\ ListedLast
  BY DEF ListInv
<1>4. ASSUME NEW where \in {"info", "clear_reserve", "delete_reserve"}, NEW n, NEW l, NEW u,
             ipmi_sel_main(where, n, l, u), where # "info" => n = 0
      PROVE  ListInv'
  <2>1. at' = where /\ arg' = n /\ rc' = 0 /\ shown' = <<>> /\ since' = since
    BY <1>4 DEF ipmi_sel_main
  <2>2. Listing'
    BY <2>1 DEF Listing
  <2>3. ListedLast'
    BY <2>1 DEF ListedLast
  <2>4. /\ at' \in {"info", "skip"} => shown' = <<>> /\ rc' = 0
        /\ at' \in {"clear_reserve", "clear", "delete_reserve", "delete"} => arg' = 0
        /\ since' <= logged' /\ (at' \in {"skip", "list"} => since' > 0)
    BY <1>2, <1>3, <1>4, <2>1
  <2> QED
    BY <2>2, <2>3, <2>4 DEF ListInv
<1>5. CASE savelist_info
  <2>1. /\ at = "info" /\ arg' = arg /\ shown' = shown /\ removals' = removals
        /\ shown = <<>> /\ rc = 0
    BY <1>5 DEF savelist_info, ListInv
  <2>2. CASE at' = "idle"
    <3>1. since' \in {since, logged}
      BY <1>5 DEF savelist_info
    <3>2. Listing' /\ ListedLast'
      BY <2>1, <2>2 DEF Listing, ListedLast
    <3>3. since' <= logged'
      BY <1>1, <1>2, <1>3, <3>1
    <3> QED
      BY <2>2, <3>2, <3>3 DEF ListInv
  <2>3. CASE at' # "idle"
    <3>1. /\ since' = logged /\ next_id' = 0 /\ Len(sel) # 0
          /\ skip' = (IF arg < 0 /\ -arg <= Len(sel) THEN Len(sel) + arg ELSE 0)
          /\ at' = "skip" /\ rc' = rc
      BY <1>5, <2>3 DEF savelist_info, Exit
    <3>2. ASSUME arg < 0, removals = 0  PROVE skip' = Before'
      <4>1. Len(sel) = logged
        BY <3>2 DEF Unremoved
      <4> QED
        BY <1>1, <2>1, <3>1, <3>2, <4>1 DEF Before
    <3>3. arg < 0 /\ since' > 0 => Before' \in Nat
      BY <1>1, <2>1, <3>1 DEF Before
    <3>4. since' > 0 /\ since' <= logged'
      BY <1>1, <1>2, <3>1
    <3>5. Listing'
      BY <2>1, <3>1, <3>2, <3>3, <3>4 DEF Listing
    <3>6. ListedLast'
      BY <3>1 DEF ListedLast
    <3> QED
      BY <2>1, <3>1, <3>4, <3>5, <3>6 DEF ListInv
  <2> QED
    BY <2>2, <2>3
<1>6. CASE savelist_skip
  <2>1. /\ at = "skip" /\ arg' = arg /\ shown' = shown /\ removals' = removals /\ rc' = rc
        /\ since' = since /\ shown = <<>> /\ rc = 0 /\ since > 0 /\ at' \in {"skip", "list"}
    BY <1>6 DEF savelist_skip, ListInv
  <2>2. ListedLast'
    BY <2>1 DEF ListedLast
  <2>3. ASSUME arg < 0, removals = 0, faults' = 0
        PROVE  /\ at' = "skip" => /\ skip' <= Before
                                  /\ next_id' = IF skip' = Before THEN 0 ELSE Before - skip' + 1
               /\ at' = "list" => next_id' = First
    <3>1. Before \in Nat /\ Before < since
      BY <2>1, <2>3, BeforeType
    <3>2. faults = 0
      BY <1>1, <1>6, <2>3 DEF savelist_skip, EntryFails, selVars
    <3>3. skip <= Before /\ next_id = IF skip = Before THEN 0 ELSE Before - skip + 1
      BY <1>3, <2>1, <2>3, <3>2 DEF Listing
    <3>4. next_id # End \/ skip = 0
      BY <1>1, <1>3, <3>1, <3>3, Constants
    <3>5. CASE SkipDone /\ at' = "list" /\ UNCHANGED <<next_id, skip>>
      <4>1. skip = 0
        BY <3>4, <3>5 DEF SkipDone
      <4> QED
        BY <3>1, <3>3, <3>5, <4>1 DEF First
    <3>6. ASSUME ~SkipDone, NEW i \in Positions(next_id), next_id' = NextOf(i), skip' = skip - 1
          PROVE  /\ skip' <= Before
                 /\ next_id' = IF skip' = Before THEN 0 ELSE Before - skip' + 1
      <4>1. skip > 0
        BY <1>1, <3>6 DEF SkipDone
      <4>2. /\ i \in 1 .. logged /\ i = (IF next_id = 0 THEN 1 ELSE next_id)
            /\ NextOf(i) = IF i = logged THEN End ELSE i + 1
        BY <1>1, <2>3, Found
      <4>3. i = Before - skip + 1
        BY <1>1, <3>1, <3>3, <4>1, <4>2
      <4>4. i # logged
        BY <1>1, <1>3, <3>1, <4>1, <4>3
      <4> QED
        BY <1>1, <3>1, <3>3, <3>6, <4>1, <4>2, <4>3, <4>4
    <3>7. ~SkipDone => Positions(next_id) # {}
      <4>1. ~SkipDone => next_id <= logged /\ logged > 0
        BY <1>1, <1>3, <2>1, <3>1, <3>3 DEF SkipDone
      <4> QED
        BY <1>1, <2>3, <4>1, CanBeFound
    <3>8. ~(EntryFails(next_id) /\ ~SkipDone)
      BY <1>1, <2>3, <3>7 DEF EntryFails
    <3> QED
      BY <1>6, <2>1, <3>5, <3>6, <3>8 DEF savelist_skip
  <2>4. Listing'
    BY <2>1, <2>3 DEF Listing, Before, First
  <2>5. since' <= logged' /\ since' > 0
    BY <1>2, <1>3, <2>1
  <2> QED
    BY <2>1, <2>2, <2>4, <2>5 DEF ListInv
<1>7. CASE savelist_list
  <2>1. /\ at = "list" /\ arg' = arg /\ removals' = removals
        /\ since' = since /\ since > 0 /\ at' \in {"idle", "list"}
    BY <1>7 DEF savelist_list, ListInv, Exit
  <2>2. since' <= logged' /\ since' > 0
    BY <1>2, <1>3, <2>1
  <2>3. CASE ~(arg < 0 /\ removals = 0 /\ faults' = 0)
    <3>1. Listing' /\ ListedLast'
      BY <2>1, <2>3 DEF Listing, ListedLast
    <3> QED
      BY <2>1, <2>2, <3>1 DEF ListInv
  <2>4. CASE arg < 0 /\ removals = 0 /\ faults' = 0
    <3> DEFINE m == shown[Len(shown)]
    <3>1. Before \in Nat /\ Before < since /\ Before' = Before
      BY <2>1, <2>4, BeforeType DEF Before
    <3>2. faults = 0
      BY <1>1, <1>7, <2>4 DEF savelist_list, EntryFails, selVars
    <3>3. /\ shown = <<>> => next_id = First
          /\ shown # <<>> => /\ shown[1] = Before + 1 /\ m \in Before + 1 .. logged
                             /\ (next_id = m + 1 /\ m < logged) \/ (next_id = End /\ m >= since)
      BY <1>3, <2>1, <2>4, <3>2 DEF Listing
    <3> HIDE DEF m
    <3>4. next_id # End => Positions(next_id) # {}
      <4>1. next_id # End => next_id <= logged /\ logged > 0
        BY <1>1, <1>3, <2>1, <3>1, <3>3 DEF First
      <4> QED
        BY <1>1, <2>4, <4>1, CanBeFound
    <3>5. ~(next_id # End /\ EntryFails(next_id))
      BY <1>1, <2>4, <3>2, <3>4 DEF EntryFails
    <3>6. CASE next_id = End /\ Exit(0) /\ UNCHANGED <<next_id, shown>>
      <4>1. at' = "idle" /\ shown' = shown
        BY <3>6 DEF Exit
      <4>2. Listing'
        BY <4>1 DEF Listing
      <4>3. shown # <<>> => m >= since
        BY <1>1, <3>3, <3>6, Constants
      <4>4. Before + 1 = IF -arg <= since THEN since + arg + 1 ELSE 1
        BY <1>1 DEF Before
      <4>5. ListedLast'
        BY <2>1, <3>3, <4>1, <4>3, <4>4 DEF ListedLast, m
      <4> QED
        BY <2>2, <4>1, <4>2, <4>5 DEF ListInv
    <3>7. CASE /\ next_id # End
               /\ \E i \in Positions(next_id) :
                    /\ shown' = Append(shown, sel[i].event)
                    /\ next_id' = NextOf(i)
               /\ IF Len(shown) + 1 = arg THEN Exit(0) ELSE UNCHANGED <<at, rc>>
      <4>1. at' = "list"
        BY <1>1, <2>1, <2>4, <3>7
      <4>2. PICK i \in Positions(next_id) :
                shown' = Append(shown, sel[i].event) /\ next_id' = NextOf(i)
        BY <3>7
      <4>3. /\ i \in 1 .. logged /\ i = (IF next_id = 0 THEN 1 ELSE next_id) /\ sel[i].event = i
            /\ NextOf(i) = IF i = logged THEN End ELSE i + 1
        BY <1>1, <2>4, Found
      <4>4. /\ shown' # <<>> /\ shown'[Len(shown')] = i
            /\ shown # <<>> => shown'[1] = shown[1]
            /\ shown = <<>> => shown'[1] = i
        BY <1>1, <4>2, <4>3
      <4>5. i \in Before + 1 .. logged /\ (shown = <<>> => i = Before + 1)
        <5>1. CASE shown = <<>>
          BY <1>1, <3>1, <3>3, <4>3, <5>1 DEF First
        <5>2. CASE shown # <<>>
          <6>1. m \in Nat /\ m >= Before + 1 /\ next_id = m + 1
            BY <1>1, <3>1, <3>3, <3>7, <5>2
          <6> QED
            BY <1>1, <3>1, <4>3, <5>2, <6>1
        <5> QED
          BY <5>1, <5>2
      <4>6. shown'[1] = Before + 1
        BY <3>3, <4>4, <4>5
      <4>7. (next_id' = i + 1 /\ i < logged) \/ (next_id' = End /\ i >= since)
        BY <1>1, <1>3, <4>2, <4>3
      <4>8. Listing'
        BY <1>2, <2>1, <3>1, <4>1, <4>4, <4>5, <4>6, <4>7 DEF Listing
      <4>9. ListedLast'
        BY <4>1 DEF ListedLast
      <4> QED
        BY <2>2, <4>1, <4>8, <4>9 DEF ListInv
    <3> QED
      BY <1>7, <3>5, <3>6, <3>7 DEF savelist_list
  <2> QED
    BY <2>3, <2>4
<1>8. CASE ipmi_sel_reserve \/ ipmi_sel_clear \/ ipmi_sel_delete
  <2>1. /\ at \in {"clear_reserve", "clear", "delete_reserve", "delete"} /\ arg' = arg /\ since' = since
        /\ at' \in {"clear", "delete", "idle"}
    BY <1>8 DEF ipmi_sel_reserve, ipmi_sel_clear, ipmi_sel_delete, Exit
  <2>2. arg' = 0
    BY <2>1 DEF ListInv
  <2>3. Listing' /\ ListedLast'
    BY <2>2 DEF Listing, ListedLast
  <2> QED
    BY <1>2, <1>3, <2>1, <2>2, <2>3 DEF ListInv
<1> QED
  BY <1>4, <1>5, <1>6, <1>7, <1>8 DEF Command

LEMMA ListNext ==
    ASSUME LogInv, Unremoved, ListInv, Next
    PROVE  ListInv'
<1>1. faults \in Nat /\ logged \in Nat
  BY CmdTypes
<1>2. ASSUME UNCHANGED cmdVars, Daemon \/ LogEvent \/ LoseReservation
      PROVE  ListInv'
  <2>1. logged' \in {logged, logged + 1} /\ faults' \in {faults, faults + 1}
    BY <1>2 DEF Daemon, selwatch_setup, selwatch_check, selwatch_get_lastid, selwatch_read,
                EntryNotRead, EntryFails, selVars, LogEvent, LoseReservation
  <2> QED
    BY <1>1, <1>2, <2>1, ListKept
<1> QED
  BY <1>2, ListCommand DEF Next

-----------------------------------------------------------------------------
(* "sel clear" and "sel delete" tell the truth. *)

LEMMA RemovedNext ==
    ASSUME LogInv, RemovedInv, Next
    PROVE  RemovedInv'
<1>1. CASE UNCHANGED cmdVars
  BY <1>1 DEF cmdVars, RemovedInv, RemovedWhatWasAsked
<1>2. ASSUME NEW n, NEW l, ipmi_sel_main("info", n, l, {})
      PROVE  RemovedInv'
  BY <1>2 DEF ipmi_sel_main, RemovedInv, RemovedWhatWasAsked
<1>3. CASE ipmi_sel_main("clear_reserve", 0, <<>>, {0})
  BY <1>3 DEF ipmi_sel_main, RemovedInv, RemovedWhatWasAsked
<1>4. ASSUME NEW l, ipmi_sel_main("delete_reserve", 0, l, {l[i] : i \in 1 .. Len(l)})
      PROVE  RemovedInv'
  <2>1. at' = "delete_reserve" /\ ids' = l /\ undone' = {l[i] : i \in 1 .. Len(l)}
    BY <1>4 DEF ipmi_sel_main
  <2> QED
    BY <2>1 DEF RemovedInv, RemovedWhatWasAsked
<1>5. CASE savelist_info \/ savelist_skip \/ savelist_list
  <2>1. /\ at \in {"info", "skip", "list"} /\ undone' = undone
        /\ at' \in {"skip", "list", "idle"}
    BY <1>5 DEF savelist_info, savelist_skip, savelist_list, Exit
  <2> QED
    BY <2>1 DEF RemovedInv, RemovedWhatWasAsked
<1>6. CASE ipmi_sel_reserve
  <2>1. UNCHANGED <<ids, undone>>
    BY <1>6 DEF ipmi_sel_reserve
  <2>2. CASE at' = (IF at = "clear_reserve" THEN "clear" ELSE "delete") /\ rc' = rc
    <3>1. at \in {"clear_reserve", "delete_reserve"}
      BY <1>6 DEF ipmi_sel_reserve
    <3> QED
      BY <2>1, <2>2, <3>1 DEF RemovedInv, RemovedWhatWasAsked
  <2>3. CASE Exit(-1)
    BY <2>3 DEF Exit, RemovedInv, RemovedWhatWasAsked
  <2> QED
    BY <1>6, <2>2, <2>3 DEF ipmi_sel_reserve
<1>7. CASE ipmi_sel_clear
  <2>1. at' = "idle" /\ (rc' = -1 \/ undone' = {})
    BY <1>7 DEF ipmi_sel_clear, Exit
  <2> QED
    BY <2>1 DEF RemovedInv, RemovedWhatWasAsked
<1>8. CASE ipmi_sel_delete
  <2>1. at = "delete" /\ ids \in Seq(Nat)
    BY <1>8, CmdTypes DEF ipmi_sel_delete
  <2>2. rc = 0 => undone \subseteq {ids[i] : i \in 1 .. Len(ids)}
    BY <2>1 DEF RemovedInv
  <2>3. CASE ids = <<>>
    <3>1. at' = "idle" /\ rc' = rc /\ undone' = undone
      BY <1>8, <2>3 DEF ipmi_sel_delete
    <3>2. rc = 0 => undone = {}
      <4>1. 1 .. Len(ids) = {}
        BY <2>3
      <4> QED
        BY <2>2, <4>1
    <3> QED
      BY <3>1, <3>2 DEF RemovedInv, RemovedWhatWasAsked
  <2>4. CASE ids # <<>>
    <3>1. /\ at' = "delete" /\ ids' = SubSeq(ids, 1, Len(ids) - 1)
          /\ rc' = -1 \/ (rc' = rc /\ undone' = undone \ {ids[Len(ids)]})
      BY <1>8, <2>1, <2>4 DEF ipmi_sel_delete, LastArg
    <3>2. Len(ids') = Len(ids) - 1 /\ \A i \in 1 .. Len(ids) - 1 : ids'[i] = ids[i]
      <4>1. Len(ids) \in Nat /\ Len(ids) # 0
        BY <2>1, <2>4, EmptySeq
      <4> DEFINE m == Len(ids) - 1
      <4>2. m \in Nat /\ m <= Len(ids)
        BY <4>1
      <4> HIDE DEF m
      <4>3. /\ Len(SubSeq(ids, 1, m)) = m
            /\ \A i \in 1 .. m : SubSeq(ids, 1, m)[i] = ids[i]
        BY <2>1, <4>1, <4>2
      <4> QED
        BY <3>1, <4>3 DEF m
    <3>3. ASSUME rc' = 0  PROVE undone' \subseteq {ids'[i] : i \in 1 .. Len(ids')}
      <4>1. rc' = rc /\ undone' = undone \ {ids[Len(ids)]}
        BY <3>1, <3>3
      <4>2. \A i \in 1 .. Len(ids) : i = Len(ids) \/ i \in 1 .. Len(ids) - 1
        BY <2>1
      <4>3. ASSUME NEW x \in undone'
            PROVE  \E i \in 1 .. Len(ids') : x = ids'[i]
        <5>1. PICK i \in 1 .. Len(ids) : x = ids[i]
          BY <2>2, <3>3, <4>1
        <5>2. i \in 1 .. Len(ids) - 1
          BY <4>1, <4>2, <5>1
        <5> QED
          BY <3>2, <5>1, <5>2
      <4> QED
        BY <4>3
    <3> QED
      BY <3>1, <3>3 DEF RemovedInv, RemovedWhatWasAsked
  <2> QED
    BY <2>3, <2>4
<1> QED
  BY <1>1, <1>2, <1>3, <1>4, <1>5, <1>6, <1>7, <1>8 DEF Next, Command

-----------------------------------------------------------------------------
(* The invariant. *)

LEMMA InvInit ==
    ASSUME Init
    PROVE  SelInv
<1>1. /\ logged \in 0 .. MaxEvents /\ nextId = logged + 1 /\ reserved = FALSE /\ faults = 0
      /\ sel = [i \in 1 .. logged |-> [id |-> i, event |-> i]]
  BY DEF Init, SelInit
<1>2. /\ pc = "setup" /\ count = 0 /\ lastid = 0 /\ next = 0 /\ base = 0
      /\ reported = <<>> /\ short = FALSE
  BY DEF Init, DaemonInit
<1>3. /\ at = "idle" /\ arg = 0 /\ ids = <<>> /\ next_id = 0 /\ skip = 0
      /\ shown = <<>> /\ rc = 0 /\ undone = {}
      /\ since = 0 /\ removals = 0 /\ commands = 0
  BY DEF Init, CmdInit
<1>4. logged \in Nat /\ logged <= MaxEvents
  BY <1>1, Constants
<1>5. /\ sel \in Seq(Record) /\ Len(sel) = logged
      /\ \A i \in 1 .. Len(sel) : sel[i].id = i /\ sel[i].event = i
  <2>1. \A i \in 1 .. logged : [id |-> i, event |-> i] \in Record
    BY <1>4 DEF Record
  <2>2. sel \in [1 .. logged -> Record]
    BY <1>1, <2>1
  <2>3. sel \in Seq(Record) /\ Len(sel) = logged
    BY <1>1, <1>4, <2>2
  <2> QED
    BY <1>1, <2>3
<1>6. SelTypeOK
  <2>1. reserved \in BOOLEAN
    BY <1>1, Zenon
  <2>2. nextId \in Nat \ {0} /\ faults \in Nat
    BY <1>1, <1>4
  <2> QED
    BY <1>4, <1>5, <2>1, <2>2 DEF SelTypeOK
<1>7. DaemonTypeOK
  <2>1. short \in BOOLEAN
    BY <1>2, Zenon
  <2>2. <<>> \in Seq([event : Nat \ {0}, id : Ids]) /\ 0 \in Ids /\ 0 \in Nat
    BY Constants DEF Ids
  <2> QED
    BY <1>2, <2>1, <2>2, DaemonParts
<1>8. CmdTypeOK
  <2>1. shown \in Seq(Nat) /\ ids \in Seq(Nat) /\ undone \subseteq Nat /\ 0 \in 0 .. End
    BY <1>3, Constants
  <2> QED
    BY <1>3, <2>1 DEF CmdTypeOK
<1>9. LogInv
  <2>1. LogSorted
    BY <1>1, <1>4, <1>5 DEF LogSorted
  <2> QED
    BY <1>6, <1>7, <1>8, <2>1 DEF LogInv, TypeOK
<1>10. Len(reported) = 0
  BY <1>2
<1>11. OnceInv
  BY <1>2, <1>4, <1>10 DEF OnceInv, ReportedOnce
<1>12. Unremoved
  BY <1>1, <1>5 DEF Unremoved
<1>13. GapInv
  BY <1>2, <1>4, <1>10 DEF GapInv, ReportedWithoutGap
<1>14. ListInv
  BY <1>3, <1>4 DEF ListInv, Listing, ListedLast
<1>15. RemovedInv
  BY <1>3 DEF RemovedInv, RemovedWhatWasAsked
<1> QED
  BY <1>9, <1>11, <1>12, <1>13, <1>14, <1>15 DEF SelInv

LEMMA InvNext ==
    ASSUME SelInv, [Next]_vars
    PROVE  SelInv'
<1>1. CASE Next
  BY <1>1, LogNext, OnceNext, UnremovedNext, GapNext, ListNext, RemovedNext DEF SelInv
<1>2. CASE UNCHANGED vars
  <2>1. UNCHANGED daemonVars /\ UNCHANGED cmdVars /\ UNCHANGED selVars
    BY <1>2 DEF vars
  <2>2. LogInv'
    BY <2>1 DEF SelInv, LogInv, TypeOK, SelTypeOK, DaemonTypeOK, CmdTypeOK, LogSorted, Record,
                selVars, daemonVars, cmdVars
  <2>3. OnceInv'
    <3>1. LogSame
      BY <2>1 DEF LogSame, selVars
    <3> QED
      BY <2>1, <3>1, OnceKept DEF SelInv
  <2>4. Unremoved' /\ GapInv'
    BY <2>1 DEF SelInv, Unremoved, GapInv, ReportedWithoutGap, AllReported, ReportedUpTo,
                selVars, daemonVars, cmdVars
  <2>5. ListInv'
    <3>1. logged' = logged /\ faults' = faults /\ faults \in Nat
      BY <2>1, CmdTypes DEF SelInv, selVars
    <3> QED
      BY <2>1, <3>1, ListKept DEF SelInv
  <2>6. RemovedInv'
    BY <2>1 DEF SelInv, RemovedInv, RemovedWhatWasAsked, cmdVars
  <2> QED
    BY <2>2, <2>3, <2>4, <2>5, <2>6 DEF SelInv
<1> QED
  BY <1>1, <1>2

LEMMA Invariant == Spec => []SelInv
BY InvInit, InvNext, PTL DEF Spec

-----------------------------------------------------------------------------
(* The theorems. *)

(* The variables of the log, of the event daemon and of the command keep    *)
(* their types: an id the daemon or a listing keeps is one of the log, 0 or *)
(* (only in a listing) 0xffff.                                              *)
THEOREM SelTypeCorrect == Spec => []TypeOK
<1>1. SelInv => TypeOK
  BY DEF SelInv, LogInv
<1> QED
  BY <1>1, Invariant, PTL

(* selwatch_check(), selwatch_read() and selwatch_get_lastid() report a     *)
(* record read under its own id once and in order, whatever is logged,      *)
(* deleted or cleared between two of their requests, as long as they get to *)
(* the end of their readings.                                               *)
THEOREM EventsReportedOnce == Spec => []ReportedOnce
<1>1. SelInv => ReportedOnce
  BY DEF SelInv, OnceInv
<1> QED
  BY <1>1, Invariant, PTL

(* selwatch_read() leaves no event out while nobody removes records and no  *)
(* request fails, although the count selwatch_check() compares is older     *)
(* than what was read.                                                      *)
THEOREM EventsReportedWithoutGap == Spec => []ReportedWithoutGap
<1>1. SelInv => ReportedWithoutGap
  <2>1. SelInv => GapInv
    BY DEF SelInv
  <2>2. GapInv => ReportedWithoutGap
    BY DEF GapInv, ReportedWithoutGap
  <2> QED
    BY <2>1, <2>2
<1> QED
  BY <1>1, Invariant, PTL

(* "sel list last <n>" shows the last n records, by the arithmetic of       *)
(* __ipmi_sel_savelist_entries() on the count and the ids it goes past.     *)
THEOREM LastRecordsListed == Spec => []ListedLast
<1>1. SelInv => ListedLast
  BY DEF SelInv, ListInv
<1> QED
  BY <1>1, Invariant, PTL

(* "sel clear" and "sel delete" exit with 0 only if all that was to go has  *)
(* gone, whatever happens to the reservation.                               *)
THEOREM RemovedAsReported == Spec => []RemovedWhatWasAsked
<1>1. SelInv => RemovedWhatWasAsked
  BY DEF SelInv, RemovedInv
<1> QED
  BY <1>1, Invariant, PTL

=============================================================================
