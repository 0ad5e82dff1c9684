-------------------------- MODULE SdrReaderProofs --------------------------
(***************************************************************************)
(* Proofs about SdrReader, for every value of its constants: any number of *)
(* records of any length, of changes and of lookups.                       *)
(***************************************************************************)
EXTENDS SdrReader, TLAPS, FiniteSetTheorems, SequenceTheorems, WellFoundedInduction

-----------------------------------------------------------------------------
(* The inductive invariant, in three parts. *)

(* A record has no more generations than there were changes, so that all   *)
(* of them have a length.                                                  *)
GenerationsSoFar == \A id \in Ids : repo[id] <= changes + 1

TriesLeft == reader.pc = "header" => reader.tries < Tries

TypeInv == TypeOK /\ GenerationsSoFar /\ TriesLeft

(* What has been read of the record under way is of the generation of its  *)
(* header, and as long as the reservation holds the repository has not     *)
(* gone on to another.  A reservation that was lost before the header was  *)
(* read is renewed before anything else is.                                *)
UnderWayWhole ==
    reader.pc = "record" =>
        \/ reader.record.renewed
        \/ /\ Read <= Length
           /\ \A i \in 1..Read : reader.record.data[i] = reader.record.gen
           /\ reserved => repo[reader.record.id] = reader.record.gen

WholeInv == RecordWhole /\ UnderWayWhole

(* The records the iterator has gone past, the one under way included. *)
Walked(id) == itr.next = End \/ (itr.next # First /\ id < itr.next)

UnderWay(id) == reader.pc = "record" /\ reader.record.id = id

Never(id) == \A i \in DOMAIN list : list[i].id # id

Once(id) == \E i \in DOMAIN list : /\ list[i].id = id
                                   /\ \A j \in DOMAIN list : list[j].id = id => j = i

(* Where the iterator is: of every record nobody has touched, what the     *)
(* list has of it.                                                         *)
Accounted ==
    \A id \in Ids : repo[id] = 1 =>
        IF Walked(id) /\ ~UnderWay(id)
        THEN IF id \in passed THEN Never(id) ELSE Once(id)
        ELSE Never(id) /\ id \notin passed

NotStarted == ~itr.started => itr.next = First /\ reader.pc = "idle"

UnderWayWalked == reader.pc = "record" => Walked(reader.record.id)

WalkInv == Accounted /\ NotStarted /\ UnderWayWalked

SdrInv == TypeInv /\ WholeInv /\ WalkInv

-----------------------------------------------------------------------------
(* Constants, types, and the next record. *)

LEMMA Constants ==
    /\ Ids \subseteq Nat /\ 0 \notin Ids /\ Ids # {}
    /\ Lengths \in Seq(Nat \ {0}) /\ Len(Lengths) \in Nat /\ Len(Lengths) > MaxChanges
    /\ MaxRead \in Nat /\ MaxRead > 0 /\ Tries \in Nat /\ Tries > 0
    /\ MaxChanges \in Nat /\ MaxLookups \in Nat
BY SdrReaderAssumption

LEMMA LengthsPositive == \A g \in Generations : Lengths[g] \in Nat /\ Lengths[g] > 0
BY Constants DEF Generations

Readers == [pc : {"idle", "header", "record"}, want : Ids \cup {All}, tries : 0..Tries,
            record : Record]

Iterators == [started : BOOLEAN, next : Ids \cup {First, End}, maxRead : 0..MaxRead]

LEMMA TypeParts ==
    TypeOK <=> /\ repo \in [Ids -> Generations \cup {Gone}] /\ reserved \in BOOLEAN
               /\ changes \in 0..MaxChanges /\ reader \in Readers /\ itr \in Iterators
               /\ list \in Seq(Record) /\ passed \subseteq Ids /\ lookups \in 0..MaxLookups
BY DEF TypeOK, Readers, Iterators

(* A set of numbers has a least one. *)
LEMMA LeastOf ==
    ASSUME NEW T, T \subseteq Nat, T # {}
    PROVE  \E x \in T : \A y \in T : x <= y
<1>1. PICK x \in T : \A y \in T : ~(<<y, x>> \in OpToRel(<, Nat))
  BY NatLessThanWellFounded, WFMin
<1>2. \A y \in T : ~(y < x)
  BY <1>1 DEF OpToRel
<1> QED
  BY <1>2

(* There is no record between one and the next.                            *)
LEMMA NextRecord ==
    ASSUME TypeOK, NEW id \in Nat
    PROVE  /\ NextOf(id) \in Ids \cup {End}
           /\ NextOf(id) = End => \A other \in Present : other <= id
           /\ NextOf(id) # End => /\ NextOf(id) \in Present /\ id < NextOf(id)
                                  /\ \A other \in Present : other <= id \/ NextOf(id) <= other
<1>1. Present \subseteq Nat /\ Present \subseteq Ids
  BY Constants DEF Present
<1>2. CASE Behind(id) = {}
  <2>1. NextOf(id) = End
    BY <1>2 DEF NextOf
  <2> QED
    BY <1>1, <1>2, <2>1 DEF Behind
<1>3. CASE Behind(id) # {}
  <2>1. Behind(id) \subseteq Nat
    BY <1>1 DEF Behind
  <2>2. \E other \in Behind(id) : \A o \in Behind(id) : other <= o
    BY <1>3, <2>1, LeastOf
  <2>3. NextOf(id) \in Behind(id) /\ \A o \in Behind(id) : NextOf(id) <= o
    BY <1>3, <2>2, Zenon DEF NextOf
  <2>4. NextOf(id) \in Present /\ id < NextOf(id)
    BY <2>3 DEF Behind
  <2>5. NextOf(id) \in Nat /\ NextOf(id) \in Ids
    BY <1>1, <2>4
  <2>6. NextOf(id) # End
    BY <2>5 DEF End
  <2>7. \A other \in Present : other <= id \/ NextOf(id) <= other
    BY <1>1, <2>3 DEF Behind
  <2> QED
    BY <2>4, <2>5, <2>6, <2>7
<1> QED
  BY <1>2, <1>3

(* A piece has at least one byte, and no more than are left of the record. *)
LEMMA PieceType ==
    ASSUME TypeOK, AtPiece
    PROVE  /\ ReadLength \in 1..MaxRead /\ PieceCount \in 1..MaxRead
           /\ Read \in Nat /\ Length \in Nat /\ Read + PieceCount <= Length
<1>1. reader \in Readers /\ itr \in Iterators
  BY TypeParts
<1>2. ReadLength \in 1..MaxRead
  BY <1>1, Constants DEF Iterators, ReadLength
<1>3. reader.record \in Record
  BY <1>1 DEF Readers
<1>4. reader.record.gen \in Generations /\ reader.record.data \in Seq(Generations)
  BY <1>3 DEF Record
<1>5. Read \in Nat /\ Length \in Nat
  BY <1>4, LengthsPositive DEF Read, Length
<1>6. Read < Length
  BY DEF AtPiece
<1> QED
  BY <1>2, <1>5, <1>6, Constants DEF PieceCount

-----------------------------------------------------------------------------
(* What steps do, in the terms of the invariant. *)

(* A step outside of a record: a lookup begins or ends, or a header is     *)
(* asked for again.                                                        *)
Aside ==
    /\ reader.pc # "record" /\ reader'.pc # "record"
    /\ itr'.next = itr.next /\ (itr.started => itr'.started)
    /\ itr'.started \/ reader.pc # "idle" \/ reader'.pc = "idle"
    /\ repo' = repo /\ list' = list /\ passed' = passed

(* A step within a record. *)
Within ==
    /\ reader.pc = "record" /\ reader'.pc = "record"
    /\ reader'.record.id = reader.record.id /\ reader'.record.gen = reader.record.gen
    /\ itr'.next = itr.next /\ itr'.started = itr.started
    /\ repo' = repo /\ list' = list /\ passed' = passed

(* A record is passed over. *)
Passed ==
    /\ reader.pc = "record" /\ reader'.pc = "header"
    /\ itr'.next = itr.next /\ itr'.started = itr.started
    /\ repo' = repo /\ list' = list /\ passed' = passed \cup {reader.record.id}

LEMMA LookupAside ==
    ASSUME TypeInv, NotStarted, ipmi_sdr_find_sdr \/ ipmi_sdr_start_fails
    PROVE  TypeInv' /\ Aside
<1>1. /\ repo \in [Ids -> Generations \cup {Gone}] /\ reserved \in BOOLEAN
      /\ changes \in 0..MaxChanges /\ reader \in Readers /\ itr \in Iterators
      /\ list \in Seq(Record) /\ passed \subseteq Ids /\ lookups \in 0..MaxLookups
  BY TypeParts DEF TypeInv
<1>2. /\ reader.pc = "idle" /\ lookups' = lookups + 1 /\ lookups < MaxLookups
      /\ repo' = repo /\ changes' = changes /\ list' = list /\ passed' = passed
  BY DEF ipmi_sdr_find_sdr, ipmi_sdr_start_fails
<1>3. lookups' \in 0..MaxLookups
  BY <1>1, <1>2, Constants
<1>4. /\ itr' \in Iterators /\ reserved' \in BOOLEAN
      /\ itr'.next = itr.next /\ (itr.started => itr'.started)
      /\ itr'.started \/ reader' = reader
  <2>1. CASE itr' = itr /\ reserved' = reserved /\ (itr.started \/ reader' = reader)
    BY <1>1, <2>1
  <2>2. CASE itr' = [itr EXCEPT !.started = TRUE, !.next = First] /\ reserved' = TRUE
             /\ ~itr.started
    BY <1>1, <2>2 DEF Iterators, NotStarted
  <2> QED
    BY <2>1, <2>2 DEF ipmi_sdr_find_sdr, ipmi_sdr_start_fails
<1>5. reader' \in Readers /\ reader'.pc # "record" /\ reader'.tries \in 0..Tries
      /\ (reader'.pc = "header" => reader'.tries = 0)
  <2>1. CASE reader' = reader
    BY <1>1, <1>2, <2>1 DEF Readers
  <2>2. CASE ipmi_sdr_find_sdr
    <3>1. PICK want \in Ids \cup {All} :
            reader' = [reader EXCEPT !.pc = IF Found(want) THEN "idle" ELSE "header",
                                     !.want = want, !.tries = 0]
      BY <2>2 DEF ipmi_sdr_find_sdr
    <3> DEFINE p == IF Found(want) THEN "idle" ELSE "header"
               u == [reader EXCEPT !.pc = p]
    <3>2. p \in {"idle", "header"}
      OBVIOUS
    <3>3. reader' = [u EXCEPT !.want = want, !.tries = 0]
      BY <3>1
    <3> HIDE DEF p
    <3>4. u \in Readers /\ u.pc = p
      BY <1>1, <3>2 DEF Readers
    <3> HIDE DEF u
    <3> DEFINE v == [u EXCEPT !.want = want]
    <3>5. reader' = [v EXCEPT !.tries = 0] /\ v \in Readers /\ v.pc = p
      BY <3>3, <3>4 DEF Readers
    <3> HIDE DEF v
    <3>6. 0 \in 0..Tries
      BY Constants
    <3> QED
      BY <3>2, <3>5, <3>6 DEF Readers
  <2> QED
    BY <2>1, <2>2 DEF ipmi_sdr_start_fails
<1>6. TypeOK'
  BY <1>1, <1>2, <1>3, <1>4, <1>5 DEF TypeOK, Readers, Iterators
<1>7. GenerationsSoFar' /\ TriesLeft'
  BY <1>2, <1>5, Constants DEF TypeInv, GenerationsSoFar, TriesLeft
<1> QED
  BY <1>2, <1>4, <1>5, <1>6, <1>7 DEF TypeInv, Aside

LEMMA HeaderAside ==
    ASSUME TypeInv, HeaderUnread \/ HeaderUnreserved \/ LastHeader
    PROVE  TypeInv' /\ Aside
<1>1. /\ repo \in [Ids -> Generations \cup {Gone}] /\ reserved \in BOOLEAN
      /\ changes \in 0..MaxChanges /\ reader \in Readers /\ itr \in Iterators
      /\ list \in Seq(Record) /\ passed \subseteq Ids /\ lookups \in 0..MaxLookups
  BY TypeParts DEF TypeInv
<1>2. /\ reader.pc = "header" /\ repo' = repo /\ changes' = changes /\ list' = list
      /\ passed' = passed /\ lookups' = lookups
  BY DEF HeaderUnread, HeaderUnreserved, LastHeader, AtHeader
<1>3. reserved' \in BOOLEAN /\ itr' = itr /\ (Return \/ HeaderTried)
  BY <1>1 DEF HeaderUnread, HeaderUnreserved, LastHeader, HeaderFails, HeaderTried
<1>4. CASE Return
  <2>1. reader' \in Readers /\ reader'.pc = "idle"
    BY <1>1, <1>4 DEF Return, Readers
  <2>2. TypeOK'
    BY <1>1, <1>2, <1>3, <2>1 DEF TypeOK, Readers, Iterators
  <2> QED
    BY <1>2, <1>3, <2>1, <2>2 DEF TypeInv, GenerationsSoFar, TriesLeft, Aside
<1>5. CASE HeaderTried /\ ~Return
  <2> DEFINE n == reader.tries + 1
  <2>1. reader' = [reader EXCEPT !.tries = n] /\ n # Tries
    BY <1>5 DEF HeaderTried, HeaderFails
  <2>2. n \in 0..Tries /\ n < Tries
    BY <1>1, <1>2, <2>1, Constants DEF Readers, TypeInv, TriesLeft
  <2> HIDE DEF n
  <2>3. reader' \in Readers /\ reader'.pc = "header" /\ reader'.tries = n
    BY <1>1, <1>2, <2>1, <2>2 DEF Readers
  <2>4. TypeOK'
    BY <1>1, <1>2, <1>3, <2>3 DEF TypeOK, Readers, Iterators
  <2> QED
    BY <1>2, <1>3, <2>2, <2>3, <2>4 DEF TypeInv, GenerationsSoFar, TriesLeft, Aside
<1> QED
  BY <1>3, <1>4, <1>5

LEMMA ChangeType ==
    ASSUME TypeInv, Change
    PROVE  /\ TypeInv' /\ reserved' = FALSE
           /\ \A id \in Ids : repo'[id] = 1 => repo[id] = 1
<1>1. /\ repo \in [Ids -> Generations \cup {Gone}]
      /\ changes \in 0..MaxChanges /\ reader \in Readers /\ itr \in Iterators
      /\ list \in Seq(Record) /\ passed \subseteq Ids /\ lookups \in 0..MaxLookups
      /\ \A id \in Ids : repo[id] <= changes + 1
  BY TypeParts DEF TypeInv, GenerationsSoFar
<1>2. /\ changes < MaxChanges /\ changes' = changes + 1 /\ reserved' = FALSE
      /\ UNCHANGED <<reader, itr, list, passed, lookups>>
  BY DEF Change
<1>3. changes' \in 0..MaxChanges
  BY <1>1, <1>2, Constants
<1>4. /\ repo' \in [Ids -> Generations \cup {Gone}]
      /\ \A id \in Ids : repo'[id] <= changes' + 1 /\ (repo'[id] = 1 => repo[id] = 1)
  <2>a. changes \in Nat /\ \A id \in Ids : repo[id] \in Nat
    BY <1>1, Constants DEF Generations, Gone
  <2>1. CASE repo' = repo
    BY <1>1, <1>2, <2>a, <2>1
  <2>2. CASE \E id \in Present :
                repo' \in {[repo EXCEPT ![id] = @ + 1], [repo EXCEPT ![id] = Gone]}
    <3>1. PICK id \in Ids : repo[id] # Gone /\
                (repo' = [repo EXCEPT ![id] = repo[id] + 1] \/ repo' = [repo EXCEPT ![id] = Gone])
      BY <2>2 DEF Present
    <3>2. repo[id] \in Generations /\ repo[id] + 1 \in Generations /\ repo[id] + 1 # 1
      BY <1>1, <1>2, <3>1, Constants DEF Generations, Gone
    <3>3. repo[id] + 1 <= changes' + 1 /\ 0 <= changes' + 1
      BY <1>1, <1>2, <2>a
    <3>4. \A other \in Ids : repo[other] <= changes' + 1
      BY <1>1, <1>2, <2>a
    <3>5. CASE repo' = [repo EXCEPT ![id] = repo[id] + 1]
      <4>1. repo' \in [Ids -> Generations \cup {Gone}]
        BY <1>1, <3>2, <3>5
      <4> QED
        BY <1>1, <3>2, <3>3, <3>4, <3>5, <4>1
    <3>6. CASE repo' = [repo EXCEPT ![id] = Gone]
      <4>1. repo' \in [Ids -> Generations \cup {Gone}]
        BY <1>1, <3>6
      <4> QED
        BY <1>1, <3>3, <3>4, <3>6, <4>1 DEF Gone
    <3> QED
      BY <3>1, <3>5, <3>6
  <2> QED
    BY <2>1, <2>2 DEF Change
<1>5. TypeOK'
  BY <1>1, <1>2, <1>3, <1>4 DEF TypeOK, Readers, Iterators
<1> QED
  BY <1>2, <1>4, <1>5 DEF TypeInv, GenerationsSoFar, TriesLeft

LEMMA GetHeaderType ==
    ASSUME TypeInv, GetHeader
    PROVE  /\ TypeInv' /\ Asked \in Present /\ Asked \in Ids
           /\ reader.pc = "header" /\ reader'.pc = "record" /\ reader'.record.id = Asked
           /\ reader'.record.gen = repo[Asked] /\ reader'.record.data = <<>>
           /\ itr'.next = NextOf(Asked) /\ itr'.started = itr.started /\ itr.next # End
           /\ repo' = repo /\ list' = list /\ passed' = passed
<1>1. /\ repo \in [Ids -> Generations \cup {Gone}] /\ reserved \in BOOLEAN
      /\ changes \in 0..MaxChanges /\ reader \in Readers /\ itr \in Iterators
      /\ list \in Seq(Record) /\ passed \subseteq Ids /\ lookups \in 0..MaxLookups
  BY TypeParts DEF TypeInv
<1> DEFINE r == [id |-> Asked, gen |-> repo[Asked], data |-> <<>>, renewed |-> FALSE]
           n == NextOf(Asked)
<1>2. /\ reader.pc = "header" /\ itr.next # End /\ Asked \in Present
      /\ itr' = [itr EXCEPT !.next = n]
      /\ reader' = [reader EXCEPT !.pc = "record", !.record = r]
      /\ UNCHANGED <<repo, reserved, changes, list, passed, lookups>>
  BY DEF GetHeader, AtHeader
<1>3. Asked \in Ids /\ Asked \in Nat /\ repo[Asked] \in Generations
  BY <1>1, <1>2, Constants DEF Present
<1>4. n \in Ids \cup {End}
  BY <1>3, NextRecord DEF TypeInv
<1>5. r \in Record
  <2>1. <<>> \in Seq(Generations)
    OBVIOUS
  <2> QED
    BY <1>3, <2>1 DEF Record
<1>6. r.id = Asked /\ r.gen = repo[Asked] /\ r.data = <<>>
  OBVIOUS
<1> HIDE DEF r, n
<1>7. itr' \in Iterators /\ itr'.next = n /\ itr'.started = itr.started
  BY <1>1, <1>2, <1>4 DEF Iterators
<1>8. reader' \in Readers /\ reader'.pc = "record" /\ reader'.record = r
  BY <1>1, <1>2, <1>5 DEF Readers
<1>9. TypeOK'
  BY <1>1, <1>2, <1>7, <1>8 DEF TypeOK, Readers, Iterators
<1>10. TypeInv'
  BY <1>2, <1>8, <1>9 DEF TypeInv, GenerationsSoFar, TriesLeft
<1> QED
  BY <1>2, <1>3, <1>6, <1>7, <1>8, <1>10 DEF n

(* The length of a reading changes nothing else in the iterator.           *)
LEMMA MaxReadType ==
    ASSUME itr \in Iterators, NEW n \in 0..MaxRead, itr' = [itr EXCEPT !.maxRead = n]
    PROVE  itr' \in Iterators /\ itr'.next = itr.next /\ itr'.started = itr.started
BY DEF Iterators

LEMMA PassedType ==
    ASSUME TypeInv, reader.pc = "record", RecordFails, itr' \in Iterators,
           itr'.next = itr.next, itr'.started = itr.started, reserved' \in BOOLEAN,
           UNCHANGED <<repo, changes, list, lookups>>
    PROVE  TypeInv' /\ Passed
<1>1. /\ repo \in [Ids -> Generations \cup {Gone}]
      /\ changes \in 0..MaxChanges /\ reader \in Readers
      /\ list \in Seq(Record) /\ passed \subseteq Ids /\ lookups \in 0..MaxLookups
  BY TypeParts DEF TypeInv
<1>2. reader' \in Readers /\ reader'.pc = "header" /\ reader'.tries = 0
  <2> DEFINE u == [reader EXCEPT !.pc = "header"]
  <2>1. reader' = [u EXCEPT !.tries = 0]
    BY DEF RecordFails
  <2>2. u \in Readers /\ u.pc = "header"
    BY <1>1 DEF Readers
  <2>3. 0 \in 0..Tries
    BY Constants
  <2> HIDE DEF u
  <2> QED
    BY <2>1, <2>2, <2>3 DEF Readers
<1>3. passed' = passed \cup {reader.record.id} /\ passed' \subseteq Ids
  <2>1. reader.record \in Record
    BY <1>1 DEF Readers
  <2>2. reader.record.id \in Ids
    BY <2>1 DEF Record
  <2> QED
    BY <1>1, <2>2 DEF RecordFails
<1>4. TypeOK'
  BY <1>1, <1>2, <1>3 DEF TypeOK, Readers, Iterators
<1>5. TypeInv'
  BY <1>2, <1>4, Constants DEF TypeInv, GenerationsSoFar, TriesLeft
<1> QED
  BY <1>2, <1>3, <1>5 DEF Passed

LEMMA GetPieceType ==
    ASSUME TypeInv, GetPiece
    PROVE  /\ TypeInv' /\ Within /\ reserved /\ reserved' = reserved
           /\ reader'.record.renewed = reader.record.renewed
           /\ LET g == repo[reader.record.id]
                  b == [i \in 1..PieceCount |-> g]
              IN  g \in Generations /\ b \in Seq(Generations)
                  /\ reader'.record.data = reader.record.data \o b
<1>1. /\ repo \in [Ids -> Generations \cup {Gone}] /\ reserved \in BOOLEAN
      /\ changes \in 0..MaxChanges /\ reader \in Readers /\ itr \in Iterators
      /\ list \in Seq(Record) /\ passed \subseteq Ids /\ lookups \in 0..MaxLookups
  BY TypeParts DEF TypeInv
<1>2. AtPiece /\ Readable
  BY DEF GetPiece
<1>3. ReadLength \in 0..MaxRead /\ PieceCount \in Nat
  BY <1>2, PieceType DEF TypeInv
<1> DEFINE g == repo[reader.record.id]
           b == [i \in 1..PieceCount |-> g]
           d == reader.record.data \o b
           r == [reader.record EXCEPT !.data = d]
<1>4. reader.record \in Record
  BY <1>1 DEF Readers
<1>5. g \in Generations
  BY <1>1, <1>2 DEF Readable, Present
<1>6. b \in Seq(Generations)
  BY <1>3, <1>5
<1>7. reader' = [reader EXCEPT !.record = r]
  BY DEF GetPiece
<1>8. itr' = [itr EXCEPT !.maxRead = ReadLength]
      /\ UNCHANGED <<repo, reserved, changes, list, passed, lookups>>
  BY DEF GetPiece
<1> HIDE DEF b
<1>9. d \in Seq(Generations)
  <2>1. reader.record.data \in Seq(Generations)
    BY <1>4 DEF Record
  <2> QED
    BY <1>6, <2>1, ConcatProperties
<1> HIDE DEF d
<1>10. /\ r \in Record /\ r.data = d /\ r.id = reader.record.id /\ r.gen = reader.record.gen
       /\ r.renewed = reader.record.renewed
  BY <1>4, <1>9 DEF Record
<1> HIDE DEF r
<1>11. reader' \in Readers /\ reader'.pc = "record" /\ reader'.record = r
  BY <1>1, <1>2, <1>7, <1>10 DEF Readers, AtPiece
<1>12. itr' \in Iterators /\ itr'.next = itr.next /\ itr'.started = itr.started
  BY <1>1, <1>3, <1>8, MaxReadType
<1>13. TypeOK'
  BY <1>1, <1>8, <1>11, <1>12 DEF TypeOK, Readers, Iterators
<1>14. TypeInv'
  BY <1>8, <1>11, <1>13 DEF TypeInv, GenerationsSoFar, TriesLeft
<1>15. Within
  BY <1>2, <1>8, <1>10, <1>11, <1>12 DEF Within, AtPiece
<1> QED
  BY <1>2, <1>5, <1>6, <1>8, <1>10, <1>11, <1>14, <1>15 DEF b, d, Readable

(* A piece that is not read: it is tried again, shorter or under a new     *)
(* reservation, or the record is passed over.                              *)
LEMMA PieceFailsType ==
    ASSUME TypeInv, PieceUnread \/ PieceRefused \/ PieceUnreserved \/ RecordInvalid
    PROVE  /\ TypeInv'
           /\ \/ Within /\ reader' = reader /\ reserved' = reserved
              \/ Within /\ reader'.record.renewed
              \/ Passed
<1>1. /\ repo \in [Ids -> Generations \cup {Gone}] /\ reserved \in BOOLEAN
      /\ changes \in 0..MaxChanges /\ reader \in Readers /\ itr \in Iterators
      /\ list \in Seq(Record) /\ passed \subseteq Ids /\ lookups \in 0..MaxLookups
  BY TypeParts DEF TypeInv
<1>2. /\ reader.pc = "record" /\ UNCHANGED <<repo, changes, list, lookups>>
      /\ reserved' \in BOOLEAN
  BY <1>1 DEF PieceUnread, PieceRefused, PieceUnreserved, RecordInvalid, AtPiece
<1>3. itr' \in Iterators /\ itr'.next = itr.next /\ itr'.started = itr.started
  <2>1. CASE AtPiece
    <3>1. ReadLength \in 0..MaxRead /\ PieceCount - 1 \in 0..MaxRead
      BY <2>1, PieceType, Constants DEF TypeInv
    <3>2. \/ itr' = itr \/ itr' = [itr EXCEPT !.maxRead = ReadLength]
          \/ itr' = [itr EXCEPT !.maxRead = PieceCount - 1]
      BY DEF PieceUnread, PieceRefused, PieceUnreserved, RecordInvalid, PieceTooLong
    <3> QED
      BY <1>1, <3>1, <3>2, MaxReadType
  <2>2. CASE ~AtPiece
    BY <1>1, <2>2 DEF PieceUnread, PieceRefused, PieceUnreserved, RecordInvalid
  <2> QED
    BY <2>1, <2>2
<1>4. CASE RecordFails
  BY <1>2, <1>3, <1>4, PassedType
<1>5. CASE reader' = reader /\ passed' = passed /\ reserved' = reserved
  <2>1. TypeOK'
    BY <1>1, <1>2, <1>3, <1>5 DEF TypeOK, Readers, Iterators
  <2>2. TypeInv'
    BY <1>2, <1>5, <2>1 DEF TypeInv, GenerationsSoFar, TriesLeft
  <2> QED
    BY <1>2, <1>3, <1>5, <2>2 DEF Within
<1>6. CASE Renewed /\ passed' = passed
  <2> DEFINE r == [reader.record EXCEPT !.renewed = TRUE]
  <2>1. reader' = [reader EXCEPT !.record = r]
    BY <1>6 DEF Renewed
  <2>2. reader.record \in Record
    BY <1>1 DEF Readers
  <2>3. /\ r \in Record /\ r.id = reader.record.id /\ r.gen = reader.record.gen
        /\ r.renewed = TRUE
    BY <2>2 DEF Record
  <2> HIDE DEF r
  <2>4. reader' \in Readers /\ reader'.pc = "record" /\ reader'.record = r
    BY <1>1, <1>2, <2>1, <2>3 DEF Readers
  <2>5. TypeOK'
    BY <1>1, <1>2, <1>3, <1>6, <2>4 DEF TypeOK, Readers, Iterators
  <2>6. TypeInv'
    BY <1>2, <2>4, <2>5 DEF TypeInv, GenerationsSoFar, TriesLeft
  <2> QED
    BY <1>2, <1>3, <1>6, <2>3, <2>4, <2>6 DEF Within
<1> QED
  BY <1>4, <1>5, <1>6
  DEF PieceUnread, PieceTooLong, PieceRefused, PieceUnreserved, RecordInvalid

LEMMA RecordReadType ==
    ASSUME TypeInv, RecordRead
    PROVE  /\ TypeInv' /\ reader.pc = "record" /\ reader'.pc # "record" /\ Read >= Length
           /\ reader.record \in Record /\ list' = Append(list, reader.record)
           /\ UNCHANGED <<repo, itr, passed>>
<1>1. /\ repo \in [Ids -> Generations \cup {Gone}] /\ reserved \in BOOLEAN
      /\ changes \in 0..MaxChanges /\ reader \in Readers /\ itr \in Iterators
      /\ list \in Seq(Record) /\ passed \subseteq Ids /\ lookups \in 0..MaxLookups
  BY TypeParts DEF TypeInv
<1>2. /\ reader.pc = "record" /\ Read >= Length /\ list' = Append(list, reader.record)
      /\ UNCHANGED <<repo, reserved, changes, itr, passed, lookups>>
  BY DEF RecordRead
<1>3. reader.record \in Record
  BY <1>1 DEF Readers
<1>4. list' \in Seq(Record)
  BY <1>1, <1>2, <1>3
<1> DEFINE p == IF reader.record.id = reader.want THEN "idle" ELSE "header"
           u == [reader EXCEPT !.pc = p]
<1>5. p \in {"idle", "header"}
  OBVIOUS
<1>6. reader' = [u EXCEPT !.tries = 0]
  BY DEF RecordRead
<1> HIDE DEF p
<1>7. u \in Readers /\ u.pc = p
  BY <1>1, <1>5 DEF Readers
<1>8. 0 \in 0..Tries
  BY Constants
<1> HIDE DEF u
<1>9. reader' \in Readers /\ reader'.pc = p /\ reader'.tries = 0
  BY <1>6, <1>7, <1>8 DEF Readers
<1>10. TypeOK'
  BY <1>1, <1>2, <1>4, <1>9 DEF TypeOK, Readers, Iterators
<1>11. TypeInv'
  BY <1>2, <1>9, <1>10, Constants DEF TypeInv, GenerationsSoFar, TriesLeft
<1> QED
  BY <1>2, <1>3, <1>5, <1>9, <1>11

-----------------------------------------------------------------------------
(* Records are whole. *)

LEMMA WholeNext ==
    ASSUME TypeInv, WholeInv, NotStarted, Next
    PROVE  WholeInv'
<1>1. /\ repo \in [Ids -> Generations \cup {Gone}] /\ reader \in Readers
      /\ list \in Seq(Record) /\ reader.record \in Record
  BY TypeParts DEF TypeInv, Readers
<1>2. reader.record.gen \in Generations /\ reader.record.data \in Seq(Generations)
  BY <1>1 DEF Record
<1>3. Read \in Nat /\ Length \in Nat
  BY <1>2, LengthsPositive DEF Read, Length
<1>4. CASE Aside \/ Passed
  BY <1>4 DEF Aside, Passed, WholeInv, RecordWhole, UnderWayWhole
<1>5. CASE Change
  <2>1. reserved' = FALSE /\ reader' = reader /\ list' = list
    BY <1>5 DEF Change
  <2> QED
    BY <2>1 DEF WholeInv, RecordWhole, UnderWayWhole, Read, Length
<1>6. CASE GetHeader
  <2>1. /\ reader'.record.id = Asked /\ reader'.record.gen = repo[Asked]
        /\ reader'.record.data = <<>> /\ repo' = repo /\ list' = list /\ Asked \in Ids
        /\ Asked \in Present
    BY <1>6, GetHeaderType
  <2>2. repo[Asked] \in Generations
    BY <1>1, <2>1 DEF Present
  <2>3. Read' = 0 /\ Length' \in Nat
    BY <2>1, <2>2, LengthsPositive DEF Read, Length
  <2> QED
    BY <2>1, <2>3 DEF WholeInv, RecordWhole, UnderWayWhole
<1>7. CASE GetPiece
  <2> DEFINE g == repo[reader.record.id]
             b == [i \in 1..PieceCount |-> g]
             d == reader.record.data
  <2>1. /\ Within /\ reserved /\ reserved' = reserved
        /\ reader'.record.renewed = reader.record.renewed
        /\ b \in Seq(Generations) /\ reader'.record.data = d \o b
    BY <1>7, GetPieceType
  <2>2. /\ reader.pc = "record" /\ reader'.record.id = reader.record.id
        /\ reader'.record.gen = reader.record.gen /\ repo' = repo /\ list' = list
    BY <2>1 DEF Within
  <2>3. PieceCount \in Nat /\ Read + PieceCount <= Length
    BY <1>7, PieceType DEF TypeInv, GetPiece
  <2>4. CASE reader.record.renewed
    BY <2>1, <2>2, <2>4 DEF WholeInv, RecordWhole, UnderWayWhole
  <2>5. CASE ~reader.record.renewed
    <3>1. /\ \A i \in 1..Len(d) : d[i] = reader.record.gen
          /\ g = reader.record.gen
      BY <2>1, <2>2, <2>5 DEF WholeInv, UnderWayWhole, Read
    <3>2. Len(b) = PieceCount /\ \A i \in 1..PieceCount : b[i] = g
      BY <2>3
    <3> HIDE DEF b
    <3>3. d \in Seq(Generations)
      BY <1>2
    <3> HIDE DEF d
    <3>4. /\ Len(d \o b) = Len(d) + PieceCount
          /\ \A i \in 1..Len(d) + PieceCount :
                (d \o b)[i] = IF i <= Len(d) THEN d[i] ELSE b[i - Len(d)]
      BY <2>1, <3>2, <3>3, ConcatProperties
    <3>5. \A i \in 1..Len(d) + PieceCount : (d \o b)[i] = reader.record.gen
      <4> TAKE i \in 1..Len(d) + PieceCount
      <4>1. CASE i <= Len(d)
        BY <3>1, <3>4, <4>1
      <4>2. CASE ~(i <= Len(d))
        <5>1. i - Len(d) \in 1..PieceCount
          BY <2>3, <3>3, <4>2
        <5> QED
          BY <3>1, <3>2, <3>4, <4>2, <5>1
      <4> QED
        BY <4>1, <4>2
    <3>6. Read = Len(d) /\ Read' = Len(d \o b) /\ Length' = Length
      BY <2>1, <2>2 DEF Read, Length, d
    <3>7. Read' <= Length'
      BY <1>3, <2>3, <3>4, <3>6
    <3>8. \A i \in 1..Read' : reader'.record.data[i] = reader'.record.gen
      BY <2>1, <2>2, <3>4, <3>5, <3>6
    <3>9. repo'[reader'.record.id] = reader'.record.gen
      BY <2>2, <3>1
    <3> QED
      BY <2>2, <3>7, <3>8, <3>9 DEF WholeInv, RecordWhole, UnderWayWhole
  <2> QED
    BY <2>4, <2>5
<1>8. CASE Within /\ reader' = reader /\ reserved' = reserved
  BY <1>8 DEF Within, WholeInv, RecordWhole, UnderWayWhole, Read, Length
<1>9. CASE Within /\ reader'.record.renewed
  BY <1>9 DEF Within, WholeInv, RecordWhole, UnderWayWhole
<1>10. CASE RecordRead
  <2>1. /\ reader.pc = "record" /\ reader'.pc # "record" /\ Read >= Length
        /\ list' = Append(list, reader.record)
    BY <1>10, RecordReadType
  <2>2. Whole(reader.record) \/ reader.record.renewed
    <3>1. CASE ~reader.record.renewed
      <4>1. Read = Length /\ \A i \in 1..Read : reader.record.data[i] = reader.record.gen
        BY <1>3, <2>1, <3>1 DEF WholeInv, UnderWayWhole
      <4>2. DOMAIN reader.record.data = 1..Read
        BY <1>2 DEF Read
      <4> QED
        BY <4>1, <4>2 DEF Whole, Read, Length
    <3> QED
      BY <3>1
  <2>3. /\ DOMAIN list = 1..Len(list) /\ Len(list) \in Nat
        /\ DOMAIN list' = 1..Len(list) + 1
        /\ \A i \in 1..Len(list) : list'[i] = list[i]
        /\ list'[Len(list) + 1] = reader.record
    BY <1>1, <2>1, AppendProperties
  <2>4. \A i \in 1..Len(list) + 1 : Whole(list'[i]) \/ list'[i].renewed
    <3> TAKE i \in 1..Len(list) + 1
    <3>1. CASE i \in 1..Len(list)
      BY <2>3, <3>1 DEF WholeInv, RecordWhole
    <3>2. CASE i = Len(list) + 1
      BY <2>2, <2>3, <3>2
    <3>3. i \in 1..Len(list) \/ i = Len(list) + 1
      BY <2>3
    <3> QED
      BY <3>1, <3>2, <3>3
  <2>5. RecordWhole'
    BY <2>3, <2>4 DEF RecordWhole, Whole
  <2> QED
    BY <2>1, <2>5 DEF WholeInv, UnderWayWhole
<1> QED
  BY <1>4, <1>5, <1>6, <1>7, <1>8, <1>9, <1>10, LookupAside, HeaderAside, PieceFailsType
  DEF Next, ReaderStep

-----------------------------------------------------------------------------
(* The walk is complete. *)

LEMMA WalkNext ==
    ASSUME TypeInv, WalkInv, Next
    PROVE  WalkInv'
<1>1. /\ repo \in [Ids -> Generations \cup {Gone}] /\ reader \in Readers
      /\ itr \in Iterators /\ list \in Seq(Record) /\ reader.record \in Record /\ TypeOK
  BY TypeParts DEF TypeInv, Readers
<1>2. reader.record.id \in Ids /\ Ids \subseteq Nat
  BY <1>1, Constants DEF Record
<1>3. Accounted /\ NotStarted /\ UnderWayWalked
  BY DEF WalkInv
<1>4. ASSUME itr'.next = itr.next
      PROVE  \A id \in Ids : Walked(id)' <=> Walked(id)
  BY <1>4 DEF Walked
<1>5. CASE Aside
  BY <1>3, <1>4, <1>5
  DEF Aside, WalkInv, Accounted, NotStarted, UnderWayWalked, UnderWay, Never, Once
<1>6. CASE Within
  <2>1. \A id \in Ids : UnderWay(id)' <=> UnderWay(id)
    BY <1>6 DEF Within, UnderWay
  <2>2. \A id \in Ids : (Never(id)' <=> Never(id)) /\ (Once(id)' <=> Once(id))
    BY <1>6 DEF Within, Never, Once
  <2>3. itr'.next = itr.next /\ repo' = repo /\ passed' = passed
    BY <1>6 DEF Within
  <2>4. Accounted'
    BY <1>3, <1>4, <2>1, <2>2, <2>3 DEF Accounted
  <2>5. NotStarted' /\ UnderWayWalked'
    BY <1>3, <1>6 DEF Within, NotStarted, UnderWayWalked, Walked
  <2> QED
    BY <2>4, <2>5 DEF WalkInv
<1>7. CASE Change
  <2>1. UNCHANGED <<reader, itr, list, passed>>
        /\ \A id \in Ids : repo'[id] = 1 => repo[id] = 1
    BY <1>7, ChangeType DEF Change
  <2> QED
    BY <1>2, <1>3, <1>4, <2>1
    DEF WalkInv, Accounted, NotStarted, UnderWayWalked, UnderWay, Never, Once
<1>8. CASE Passed
  <2>1. \A id \in Ids : ~UnderWay(id)' /\ (UnderWay(id) <=> id = reader.record.id)
    BY <1>8 DEF UnderWay, Passed
  <2>2. \A id \in Ids : (Never(id)' <=> Never(id)) /\ (Once(id)' <=> Once(id))
    BY <1>8 DEF Never, Once, Passed
  <2>3. Walked(reader.record.id)
    BY <1>3, <1>8 DEF UnderWayWalked, Passed
  <2>4. passed' = passed \cup {reader.record.id} /\ repo' = repo
    BY <1>8 DEF Passed
  <2>5. Accounted'
    BY <1>2, <1>3, <1>4, <1>8, <2>1, <2>2, <2>3, <2>4 DEF Accounted, Passed
  <2> QED
    BY <1>3, <1>8, <2>5 DEF WalkInv, NotStarted, UnderWayWalked, Passed
<1>9. CASE GetHeader
  <2>1. /\ Asked \in Present /\ Asked \in Ids
        /\ reader.pc = "header" /\ reader'.pc = "record" /\ reader'.record.id = Asked
        /\ itr'.next = NextOf(Asked) /\ itr'.started = itr.started /\ itr.next # End
        /\ repo' = repo /\ list' = list /\ passed' = passed
    BY <1>9, GetHeaderType
  <2>2. /\ NextOf(Asked) \in Ids \cup {End}
        /\ NextOf(Asked) = End => \A other \in Present : other <= Asked
        /\ NextOf(Asked) # End =>
              /\ NextOf(Asked) \in Present /\ Asked < NextOf(Asked)
              /\ \A other \in Present : other <= Asked \/ NextOf(Asked) <= other
    BY <1>1, <1>2, <2>1, NextRecord
  <2>3. NextOf(Asked) # First
    BY <1>2, <2>2, Constants DEF First, End
  <2> DEFINE a == Asked
             n == NextOf(Asked)
  <2>4. \A id \in Present : Walked(id)' <=> id <= a
    <3> TAKE id \in Present
    <3>1. id \in Nat /\ a \in Nat
      BY <1>2, <2>1 DEF Present
    <3>2. CASE n = End
      BY <2>1, <2>2, <3>2 DEF Walked
    <3>3. CASE n # End
      <4>1. n \in Nat /\ a < n /\ (id <= a \/ n <= id)
        BY <1>2, <2>2, <3>3
      <4>2. Walked(id)' <=> id < n
        BY <2>1, <2>3, <3>3 DEF Walked
      <4> HIDE DEF a, n
      <4> QED
        BY <3>1, <4>1, <4>2
    <3> QED
      BY <3>2, <3>3
  <2>5. \A id \in Present : Walked(id) <=> id < Asked
    <3>1. CASE itr.next = First
      <4>1. Asked = NextOf(0)
        BY <3>1 DEF Asked, First
      <4>2. \A other \in Present : other <= 0 \/ Asked <= other
        <5>1. NextOf(0) # End
          BY <1>2, <2>1, <4>1 DEF End
        <5> QED
          BY <1>1, <4>1, <5>1, NextRecord
      <4> QED
        BY <1>2, <2>1, <3>1, <4>2, Constants DEF Walked, Present, First, End
    <3>2. CASE itr.next # First
      BY <1>2, <2>1, <3>2 DEF Asked, Walked, Present
    <3> QED
      BY <3>1, <3>2
  <2>6. \A id \in Ids : ~UnderWay(id) /\ (UnderWay(id)' <=> id = Asked)
    BY <2>1 DEF UnderWay
  <2>7. \A id \in Ids : (Never(id)' <=> Never(id)) /\ (Once(id)' <=> Once(id))
    BY <2>1 DEF Never, Once
  <2>8. \A id \in Ids : repo[id] = 1 => id \in Present
    BY DEF Present, Gone
  <2>9. \A id \in Ids : repo[id] = 1 =>
           ((Walked(id)' /\ ~UnderWay(id)') <=> (Walked(id) /\ ~UnderWay(id)))
    <3> TAKE id \in Ids
    <3> HAVE repo[id] = 1
    <3>1. id \in Nat /\ a \in Nat /\ id \in Present
      BY <1>2, <2>1, <2>8
    <3>2. /\ Walked(id)' <=> id <= a
          /\ Walked(id) <=> id < a
          /\ ~UnderWay(id) /\ (UnderWay(id)' <=> id = a)
      BY <2>4, <2>5, <2>6, <3>1
    <3> HIDE DEF a
    <3>3. (id <= a /\ id # a) <=> id < a
      BY <3>1
    <3> QED
      BY <3>2, <3>3
  <2>10. Accounted'
    BY <1>3, <2>1, <2>7, <2>9 DEF Accounted
  <2>11. NotStarted' /\ UnderWayWalked'
    <3>1. itr'.started
      BY <1>3, <2>1 DEF NotStarted
    <3>2. PICK id \in Present : id = Asked
      BY <2>1
    <3>3. Walked(id)'
      <4>1. id <= a
        BY <1>2, <2>1, <3>2
      <4> QED
        BY <2>4, <4>1
    <3>4. reader'.record.id = id
      BY <2>1, <3>2
    <3> QED
      BY <3>1, <3>3, <3>4 DEF NotStarted, UnderWayWalked, Walked
  <2> QED
    BY <2>10, <2>11 DEF WalkInv
<1>10. CASE RecordRead
  <2> DEFINE n == Len(list) + 1
  <2>a. PICK r \in Ids : r = reader.record.id
    BY <1>2
  <2>1. /\ reader.pc = "record" /\ reader'.pc # "record"
        /\ list' = Append(list, reader.record)
        /\ UNCHANGED <<repo, itr, passed>>
    BY <1>10, RecordReadType
  <2>2. /\ DOMAIN list = 1..Len(list) /\ Len(list) \in Nat
        /\ DOMAIN list' = 1..n
        /\ \A i \in 1..Len(list) : list'[i] = list[i]
        /\ list'[n] = reader.record
    BY <1>1, <2>1, AppendProperties
  <2>3. \A id \in Ids : id # r =>
            (Never(id)' <=> Never(id)) /\ (Once(id)' <=> Once(id))
    <3> TAKE id \in Ids
    <3> HAVE id # r
    <3>1. \A i \in 1..n : list'[i].id = id <=> (i \in 1..Len(list) /\ list[i].id = id)
      BY <2>a, <2>2
    <3>2. Never(id)' <=> Never(id)
      BY <2>2, <3>1 DEF Never
    <3>3. Once(id)' <=> Once(id)
      BY <2>2, <3>1 DEF Once
    <3> QED
      BY <3>2, <3>3
  <2>4. Never(r) => Once(r)'
    BY <2>a, <2>2 DEF Never, Once
  <2>5. \A id \in Ids : ~UnderWay(id)' /\ (UnderWay(id) <=> id = r)
    BY <2>a, <2>1 DEF UnderWay
  <2>6. Walked(r)
    BY <1>3, <2>a, <2>1 DEF UnderWayWalked
  <2>7. Accounted'
    BY <1>3, <1>4, <2>1, <2>3, <2>4, <2>5, <2>6 DEF Accounted
  <2> QED
    BY <1>3, <2>1, <2>7 DEF WalkInv, NotStarted, UnderWayWalked
<1> QED
  BY <1>3, <1>5, <1>6, <1>7, <1>8, <1>9, <1>10,
     LookupAside, HeaderAside, GetPieceType, PieceFailsType
  DEF Next, ReaderStep

-----------------------------------------------------------------------------
(* The theorems. *)

LEMMA SdrInit == Init => SdrInv
<1> SUFFICES ASSUME Init PROVE SdrInv
  OBVIOUS
<1>1. 1 \in Generations
  BY Constants DEF Generations
<1>2. NoRecord \in Record
  <2>1. <<>> \in Seq(Generations) /\ (CHOOSE id \in Ids : TRUE) \in Ids
    BY Constants
  <2> QED
    BY <1>1, <2>1 DEF NoRecord, Record
<1>3. reader \in Readers /\ reader.pc = "idle"
  BY <1>2, Constants DEF Init, Readers
<1>4. itr \in Iterators /\ itr.next = First
  BY Constants DEF Init, Iterators
<1>5. /\ repo \in [Ids -> Generations \cup {Gone}] /\ reserved \in BOOLEAN
      /\ changes \in 0..MaxChanges /\ list = <<>> /\ passed = {} /\ lookups \in 0..MaxLookups
      /\ \A id \in Ids : repo[id] = 1
  <2>1. repo \in [Ids -> Generations \cup {Gone}] /\ \A id \in Ids : repo[id] = 1
    BY <1>1 DEF Init
  <2>2. changes \in 0..MaxChanges /\ lookups \in 0..MaxLookups
    BY Constants DEF Init
  <2>3. reserved \in BOOLEAN /\ list = <<>> /\ passed = {}
    BY DEF Init
  <2> QED
    BY <2>1, <2>2, <2>3
<1>6. list \in Seq(Record) /\ DOMAIN list = {}
  BY <1>5
<1>7. TypeInv
  <2>1. TypeOK
    BY <1>3, <1>4, <1>5, <1>6, TypeParts
  <2>2. GenerationsSoFar
    BY <1>5 DEF GenerationsSoFar, Init
  <2> QED
    BY <1>3, <2>1, <2>2 DEF TypeInv, TriesLeft
<1>8. WholeInv
  BY <1>3, <1>6 DEF WholeInv, RecordWhole, UnderWayWhole
<1>9. WalkInv
  BY <1>3, <1>4, <1>5, <1>6
  DEF WalkInv, Accounted, NotStarted, UnderWayWalked, Walked, Never, First, End
<1> QED
  BY <1>7, <1>8, <1>9 DEF SdrInv

LEMMA SdrNext == SdrInv /\ [Next]_vars => SdrInv'
<1> SUFFICES ASSUME SdrInv, [Next]_vars PROVE SdrInv'
  OBVIOUS
<1>1. TypeInv /\ WholeInv /\ WalkInv /\ NotStarted
  BY DEF SdrInv, WalkInv
<1>2. CASE Next
  <2>1. TypeInv'
    BY <1>1, <1>2, LookupAside, HeaderAside, ChangeType, GetHeaderType, GetPieceType,
       PieceFailsType, RecordReadType
    DEF Next, ReaderStep
  <2> QED
    BY <1>1, <1>2, <2>1, WholeNext, WalkNext DEF SdrInv
<1>3. CASE UNCHANGED vars
  <2>1. TypeInv'
    BY <1>1, <1>3 DEF vars, TypeInv, TypeOK, GenerationsSoFar, TriesLeft
  <2>2. WholeInv'
    BY <1>1, <1>3 DEF vars, WholeInv, RecordWhole, UnderWayWhole, Read, Length
  <2>3. WalkInv'
    BY <1>1, <1>3 DEF vars, WalkInv, Accounted, NotStarted, UnderWayWalked, Walked, UnderWay,
                      Never, Once
  <2> QED
    BY <2>1, <2>2, <2>3 DEF SdrInv
<1> QED
  BY <1>2, <1>3

LEMMA SdrInvariant == Spec => []SdrInv
BY SdrInit, SdrNext, PTL DEF Spec

(* Of an untouched record the list has as many as is accounted for. *)
LEMMA WalkCounted == SdrInv => WalkComplete
<1> SUFFICES ASSUME SdrInv, itr.next = End, reader.pc # "record",
                    NEW id \in Ids, repo[id] = 1
             PROVE  Cardinality({i \in DOMAIN list : list[i].id = id})
                        = (IF id \in passed THEN 0 ELSE 1)
  BY DEF WalkComplete
<1> DEFINE S == {i \in DOMAIN list : list[i].id = id}
<1>1. IF id \in passed THEN Never(id) ELSE Once(id)
  BY DEF SdrInv, WalkInv, Accounted, Walked, UnderWay
<1>2. CASE id \in passed
  <2>1. S = {}
    BY <1>1, <1>2 DEF Never
  <2> QED
    BY <1>2, <2>1, FS_EmptySet
<1>3. CASE id \notin passed
  <2>1. PICK i : S = {i}
    BY <1>1, <1>3 DEF Once
  <2>2. Cardinality(S) = 1
    BY <2>1, FS_Singleton
  <2> QED
    BY <1>3, <2>2
<1> QED
  BY <1>2, <1>3

(* The variables of the reader keep their types: a piece is never empty or *)
(* longer than a response can be, though sdr_max_read_len is lowered at    *)
(* every failure and kept from record to record, and the tries for a       *)
(* header stay within their limit.                                         *)
THEOREM SdrTypeCorrect == Spec => []TypeOK
<1>1. SdrInv => TypeOK
  BY DEF SdrInv, TypeInv
<1> QED
  BY <1>1, SdrInvariant, PTL

(* A record of the list whose reservation was not renewed is one that the  *)
(* repository held, whoever else changes it meanwhile, and although its    *)
(* header is read without a reservation being checked.                     *)
THEOREM RecordsWhole == Spec => []RecordWhole
<1>1. SdrInv => RecordWhole
  BY DEF SdrInv, WholeInv
<1> QED
  BY <1>1, SdrInvariant, PTL

(* When the iterator is at the end, every record nobody has touched is in  *)
(* the list exactly once or was passed over, for any number of records,    *)
(* lookups and changes.                                                    *)
THEOREM WalksComplete == Spec => []WalkComplete
BY WalkCounted, SdrInvariant, PTL

=============================================================================
