----------------------------- MODULE SdrReader -----------------------------
(***************************************************************************)
(* Lookups in the sensor data records, src/lib/ipmi_sdr.c: an iterator     *)
(* goes through the repository, the records read stay in a list, and a     *)
(* later lookup of the same run (of a shell, or of a command that looks up *)
(* many sensors) searches the list and then goes on where the iterator is. *)
(* A record is read by its header and then piece by piece, under a         *)
(* reservation that the BMC cancels when another console changes the       *)
(* repository or reserves it.                                              *)
(*                                                                         *)
(* The repository is external.  A record is known by its id and has        *)
(* generations: what it held after each change.  The bytes of a record are *)
(* modelled by the generation they are of.                                 *)
(***************************************************************************)
EXTENDS Integers, Sequences, FiniteSets

CONSTANTS
    Ids,         \* the ids of records, numbers above 0
    Lengths,     \* length of the records of each generation
    MaxRead,     \* bytes the largest response can carry
    Tries,       \* tries to read a header: 5
    MaxChanges,  \* bound: what other consoles do
    MaxLookups   \* bound: lookups of the run

ASSUME SdrReaderAssumption ==
    /\ Ids \subseteq Nat \ {0} /\ IsFiniteSet(Ids) /\ Ids # {}
    /\ Lengths \in Seq(Nat \ {0}) /\ Len(Lengths) > MaxChanges
    /\ MaxRead \in Nat \ {0} /\ Tries \in Nat \ {0} /\ MaxChanges \in Nat /\ MaxLookups \in Nat

VARIABLES
    repo,      \* generation of each record; Gone: deleted
    reserved,  \* the reservation the program has is in force
    changes,   \* what other consoles have done so far
    reader,    \* the lookup under way
    itr,       \* sdr_list_itr: the iterator, kept from lookup to lookup
    list,      \* sdr_list_head: the records read
    passed,    \* history: records that could not be read
    lookups    \* lookups begun

vars == <<repo, reserved, changes, reader, itr, list, passed, lookups>>

Gone  == 0
First == 0   \* as a record id, the first record
End   == -1  \* 0xffff
All   == -2  \* a lookup that wants every record

Generations == 1..Len(Lengths)

Present == {id \in Ids : repo[id] # Gone}

(* The records behind an id, and the next of them.                          *)
Behind(id) == {other \in Present : other > id}
NextOf(id) == IF Behind(id) = {} THEN End
              ELSE CHOOSE other \in Behind(id) : \A o \in Behind(id) : other <= o

Record == [id : Ids, gen : Generations, data : Seq(Generations), renewed : BOOLEAN]

TypeOK ==
    /\ repo \in [Ids -> Generations \cup {Gone}]
    /\ reserved \in BOOLEAN
    /\ changes \in 0..MaxChanges
    /\ reader \in [pc : {"idle", "header", "record"}, want : Ids \cup {All}, tries : 0..Tries,
                   record : Record]
    /\ itr \in [started : BOOLEAN, next : Ids \cup {First, End}, maxRead : 0..MaxRead]
    /\ list \in Seq(Record)
    /\ passed \subseteq Ids
    /\ lookups \in 0..MaxLookups

NoRecord == [id |-> CHOOSE id \in Ids : TRUE, gen |-> 1, data |-> <<>>, renewed |-> FALSE]

Init ==
    /\ repo = [id \in Ids |-> 1]
    /\ reserved = FALSE /\ changes = 0
    /\ reader = [pc |-> "idle", want |-> All, tries |-> 0, record |-> NoRecord]
    /\ itr = [started |-> FALSE, next |-> First, maxRead |-> 0]
    /\ list = <<>> /\ passed = {} /\ lookups = 0

-----------------------------------------------------------------------------
(* Other consoles. *)

Change ==
    /\ changes < MaxChanges /\ changes' = changes + 1
    /\ reserved' = FALSE
    /\ \/ UNCHANGED repo
       \/ \E id \in Present : repo' \in {[repo EXCEPT ![id] = @ + 1], [repo EXCEPT ![id] = Gone]}
    /\ UNCHANGED <<reader, itr, list, passed, lookups>>

-----------------------------------------------------------------------------
Return == reader' = [reader EXCEPT !.pc = "idle"]
Found(want) == \E i \in DOMAIN list : list[i].id = want

(* ipmi_sdr_find_sdr_bynumtype() and the like, ipmi_sdr_list_cache(): the   *)
(* iterator is started if there is none, and the list searched.             *)
ipmi_sdr_find_sdr ==
    /\ reader.pc = "idle" /\ lookups < MaxLookups /\ lookups' = lookups + 1
    /\ \E want \in Ids \cup {All} :
          reader' = [reader EXCEPT !.pc = IF Found(want) THEN "idle" ELSE "header",
                                   !.want = want, !.tries = 0]
    /\ \/ itr.started /\ UNCHANGED <<itr, reserved>>
       \/ itr' = [itr EXCEPT !.started = TRUE, !.next = First] /\ reserved' = TRUE /\ ~itr.started
    /\ UNCHANGED <<repo, changes, list, passed>>

(* ipmi_sdr_start() fails: so does the lookup.                              *)
ipmi_sdr_start_fails ==
    /\ reader.pc = "idle" /\ lookups < MaxLookups /\ lookups' = lookups + 1
    /\ ~itr.started
    /\ UNCHANGED <<repo, reserved, changes, reader, itr, list, passed>>

-----------------------------------------------------------------------------
(* The header: ipmi_sdr_get_next_header(), ipmi_sdr_get_header().           *)

AtHeader == reader.pc = "header" /\ itr.next # End

Asked == IF itr.next = First THEN NextOf(First) ELSE itr.next

(* Slip: what was read of the record before is not thrown away.             *)
GetHeaderKeepsData ==
    /\ AtHeader /\ Asked \in Present
    /\ itr' = [itr EXCEPT !.next = NextOf(Asked)]
    /\ reader' = [reader EXCEPT !.pc = "record", !.record.id = Asked, !.record.gen = repo[Asked]]
    /\ UNCHANGED <<repo, reserved, changes, list, passed, lookups>>

(* The BMC need not check the reservation where a record begins.            *)
GetHeader ==
    /\ AtHeader /\ Asked \in Present
    /\ itr' = [itr EXCEPT !.next = NextOf(Asked)]
    /\ reader' = [reader EXCEPT !.pc = "record",
                                !.record = [id |-> Asked, gen |-> repo[Asked], data |-> <<>>,
                                            renewed |-> FALSE]]
    /\ UNCHANGED <<repo, reserved, changes, list, passed, lookups>>

(* Slip: the iterator is moved on although there is no header.              *)
HeaderFailsAndMoves ==
    /\ reader' = [reader EXCEPT !.pc = "idle"]
    /\ itr' = [itr EXCEPT !.next = NextOf(itr.next)]

(* After so many tries the lookup ends, as at the end of the repository; the *)
(* iterator stays where it is.                                              *)
HeaderFails == Return /\ UNCHANGED itr

HeaderTried ==
    IF reader.tries + 1 = Tries
    THEN HeaderFails
    ELSE reader' = [reader EXCEPT !.tries = @ + 1] /\ UNCHANGED itr

(* No answer, or another completion code.                                   *)
HeaderUnread ==
    /\ AtHeader /\ HeaderTried
    /\ UNCHANGED <<repo, reserved, changes, list, passed, lookups>>

HeaderUnreserved ==
    /\ AtHeader /\ ~reserved
    /\ \/ reserved' = TRUE /\ HeaderTried
       \/ HeaderFails /\ UNCHANGED reserved
    /\ UNCHANGED <<repo, changes, list, passed, lookups>>

LastHeader ==
    /\ reader.pc = "header" /\ itr.next = End
    /\ Return
    /\ UNCHANGED <<repo, reserved, changes, itr, list, passed, lookups>>

-----------------------------------------------------------------------------
(* The rest of the record: ipmi_sdr_get_record().                           *)

Length == Lengths[reader.record.gen]
Read   == Len(reader.record.data)

AtPiece == reader.pc = "record" /\ Read < Length

(* Slip: it is set once only.                                               *)
ReadLengthOnce == IF itr.maxRead = 0 /\ list = <<>> THEN MaxRead ELSE itr.maxRead

(* sdr_max_read_len: static, set to the maximum when it is 0.               *)
ReadLength == IF itr.maxRead = 0 THEN MaxRead ELSE itr.maxRead
PieceCount == IF Length - Read < ReadLength THEN Length - Read ELSE ReadLength

Readable == reserved /\ reader.record.id \in Present
                     /\ Read + PieceCount <= Lengths[repo[reader.record.id]]

GetPiece ==
    /\ AtPiece /\ Readable
    /\ reader' = [reader EXCEPT !.record.data =
                    @ \o [i \in 1..PieceCount |-> repo[reader.record.id]]]
    /\ itr' = [itr EXCEPT !.maxRead = ReadLength]
    /\ UNCHANGED <<repo, reserved, changes, list, passed, lookups>>

(* The record is passed over.                                               *)
RecordFails ==
    /\ reader' = [reader EXCEPT !.pc = "header", !.tries = 0]
    /\ passed' = passed \cup {reader.record.id}

(* Slip: when nothing is left to shorten it begins again with the maximum.  *)
PieceTooLongStartsOver ==
    /\ itr' = [itr EXCEPT !.maxRead = IF PieceCount = 1 THEN MaxRead ELSE PieceCount - 1]
    /\ UNCHANGED <<reader, passed>>

(* No answer, or too many bytes: less is asked for, from now on.            *)
PieceTooLong ==
    /\ itr' = [itr EXCEPT !.maxRead = PieceCount - 1]
    /\ IF PieceCount > 1 THEN UNCHANGED <<reader, passed>> ELSE RecordFails

PieceUnread ==
    /\ AtPiece /\ PieceTooLong
    /\ UNCHANGED <<repo, reserved, changes, list, lookups>>

(* Any other completion code, or a short response.                          *)
PieceRefused ==
    /\ AtPiece /\ RecordFails
    /\ itr' = [itr EXCEPT !.maxRead = ReadLength]
    /\ UNCHANGED <<repo, reserved, changes, list, lookups>>

(* The lost reservation is renewed and the piece read again, with what has  *)
(* been read so far.                                                        *)
Renewed == reader' = [reader EXCEPT !.record.renewed = TRUE]

PieceUnreserved ==
    /\ AtPiece /\ ~reserved
    /\ itr' = [itr EXCEPT !.maxRead = ReadLength]
    /\ \/ reserved' = TRUE /\ Renewed /\ UNCHANGED passed
       \/ RecordFails /\ UNCHANGED reserved
    /\ UNCHANGED <<repo, changes, list, lookups>>

(* The record is put into the list, whatever was asked for.                 *)
RecordRead ==
    /\ reader.pc = "record" /\ Read >= Length
    /\ list' = Append(list, reader.record)
    /\ reader' = [reader EXCEPT !.pc = IF reader.record.id = reader.want
                                       THEN "idle" ELSE "header",
                                !.tries = 0]
    /\ UNCHANGED <<repo, reserved, changes, itr, passed, lookups>>

(* Its fields do not fit its length, or its type is of no interest.         *)
RecordInvalid ==
    /\ reader.pc = "record" /\ Read >= Length
    /\ RecordFails
    /\ UNCHANGED <<repo, reserved, changes, itr, list, lookups>>

ReaderStep ==
    \/ GetHeader \/ HeaderUnread \/ HeaderUnreserved \/ LastHeader
    \/ GetPiece \/ PieceUnread \/ PieceRefused \/ PieceUnreserved
    \/ RecordRead \/ RecordInvalid

Next == Change \/ ipmi_sdr_find_sdr \/ ipmi_sdr_start_fails \/ ReaderStep

Spec == Init /\ [][Next]_vars

(* The program runs, and every request is answered or times out.            *)
FairSpec == Spec /\ WF_vars(ReaderStep)

-----------------------------------------------------------------------------
(* Properties. *)

Whole(record) ==
    /\ Len(record.data) = Lengths[record.gen]
    /\ \A i \in DOMAIN record.data : record.data[i] = record.gen

(* A record of the list is one the repository held, header and body, unless *)
(* its reservation was renewed while it was read: then the beginning of one *)
(* generation and the rest of another may have been put together.           *)
RecordWhole == \A i \in DOMAIN list : Whole(list[i]) \/ list[i].renewed

(* When the iterator has reached the end, over however many lookups, every  *)
(* record nobody has touched is in the list once, or could not be read.     *)
WalkComplete ==
    (itr.next = End /\ reader.pc # "record") =>
        \A id \in {r \in Ids : repo[r] = 1} :
            Cardinality({i \in DOMAIN list : list[i].id = id}) = (IF id \in passed THEN 0 ELSE 1)

(* A lookup returns, though answers do not come, headers and records are    *)
(* refused, and reservations lost as often as others change the repository. *)
LookupEnds == [](reader.pc # "idle" => <>(reader.pc = "idle"))

=============================================================================
