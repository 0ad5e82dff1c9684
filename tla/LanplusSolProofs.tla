-------------------------- MODULE LanplusSolProofs --------------------------
(***************************************************************************)
(* Proofs about LanplusSol, for every value of its constants: any retry    *)
(* limit, any size of a packet, any number of packets under way.           *)
(***************************************************************************)
EXTENDS LanplusSol, TLAPS, SequenceTheorems

-----------------------------------------------------------------------------
(* The inductive invariant of what the BMC prints.  It is a stop-and-wait  *)
(* protocol in which a repetition may be longer than what it repeats.      *)

(* It is stated of a state b of the BMC and of l, what the console         *)
(* remembers.  The BMC waits for the acknowledgement of its last packet.   *)
Outstanding(b) == b.to > b.acked

(* A packet of what is outstanding. *)
IsCurrent(p, b) == Outstanding(b) /\ p.seq = b.seq

(* The last character the console has seen. *)
Seen(b, l) == IF Outstanding(b) /\ l.seq = b.seq THEN b.acked + l.count ELSE b.acked

(* The console has seen no more of a packet than the BMC has sent in it,   *)
(* and it remembers the BMC's last one if nothing is outstanding.          *)
Remembers(b, l) ==
    /\ b.acked <= b.to
    /\ l.seq = 0 => l.count = 0
    /\ b.seq = 0 => b.to = b.acked /\ l.seq # 1
    /\ (b.seq # 0 /\ ~Outstanding(b)) => l.seq = b.seq
    /\ (Outstanding(b) /\ l.seq = b.seq) => l.count <= b.to - b.acked

(* A packet on its way to the console: of what is outstanding and not      *)
(* shorter than what was seen of it, or a repetition of what was seen.     *)
OnItsWay(p, b, l) ==
    /\ p.seq = 0 => p.data = <<>>
    /\ p.seq # 0 => b.seq # 0
    /\ (p.seq # 0 /\ IsCurrent(p, b)) =>
          /\ Length(p) <= b.to - b.acked
          /\ p.data = Chars(b.acked, b.acked + Length(p))
          /\ l.seq = b.seq => l.count <= Length(p)
    /\ (p.seq # 0 /\ ~IsCurrent(p, b)) =>
          p.seq = l.seq /\ Length(p) = l.count /\ (Outstanding(b) => l.seq # b.seq)

(* The repetitions come first, and no packet is shorter than the one       *)
(* before it.                                                              *)
PacketsFor(q, b, l) ==
    /\ \A i \in 1 .. Len(q) : OnItsWay(q[i], b, l)
    /\ \A i, j \in 1 .. Len(q) :
         (i < j /\ q[i].seq # 0 /\ IsCurrent(q[i], b) /\ q[j].seq # 0) =>
            IsCurrent(q[j], b) /\ Length(q[i]) <= Length(q[j])

(* An acknowledgement on its way to the BMC, of no more than was seen. *)
AckOnItsWay(p, b, l) ==
    p.seq = 0 =>
       /\ b.seq # 0
       /\ (Outstanding(b) /\ p.ack = b.seq) => l.seq = b.seq /\ p.accepted <= l.count
       /\ ~Outstanding(b) => p.ack = b.seq

(* Those of the packet before come first. *)
AcksFor(q, b, l) ==
    /\ \A i \in 1 .. Len(q) : AckOnItsWay(q[i], b, l)
    /\ \A i, j \in 1 .. Len(q) :
         (i < j /\ q[i].seq = 0 /\ q[i].ack = b.seq /\ q[j].seq = 0) => q[j].ack = b.seq

(* The characters up to n are on the terminal once, or were dropped. *)
Printed(o, d, n) ==
    /\ \A i \in 1 .. Len(o) : o[i] <= n
    /\ Increasing(o)
    /\ 1 .. n \subseteq Elements(o) \cup d

OutputInv ==
    ~clash =>
       /\ Remembers(bmc, last)
       /\ PacketsFor(toCon, bmc, last)
       /\ AcksFor(toBmc, bmc, last)
       /\ Printed(out, dropped, Seen(bmc, last))

(* What is being sent is not a mere acknowledgement. *)
Sender == pc = "send" => snd.pkt.seq # 0

SolInv == TypeOK /\ Sender /\ OutputInv

-----------------------------------------------------------------------------
(* Constants, packets and channels. *)

LEMMA Constants ==
    /\ MaxSeq \in Nat /\ MaxSeq >= 2 /\ Retry \in Nat \ {0} /\ Limit \in Nat \ {0}
    /\ ToBmcCapacity \in Nat /\ ToConCapacity \in Nat
    /\ MaxFailures \in Nat /\ MaxPrinted \in Nat
BY RetryAssumption, LimitAssumption, CapacityAssumption, BoundsAssumption, MaxSeqAssumption

LEMMA PacketParts ==
    ASSUME NEW p \in Packet
    PROVE  /\ p.seq \in Seqs /\ p.data \in Seq(Nat) /\ p.ack \in Seqs /\ p.accepted \in Nat
           /\ p.nack \in BOOLEAN /\ Length(p) \in Nat /\ p.seq \in Nat /\ p.ack \in Nat
<1>1. /\ p.seq \in Seqs /\ p.data \in Seq(Nat) /\ p.ack \in Seqs /\ p.accepted \in Nat
      /\ p.nack \in BOOLEAN
  BY DEF Packet
<1> QED
  BY <1>1, Constants DEF Seqs, Length

LEMMA NoPacketType == NoPacket \in Packet
<1>1. <<>> \in Seq(Nat) /\ 0 \in Seqs
  BY Constants DEF Seqs
<1> QED
  BY <1>1 DEF NoPacket, Packet

LEMMA NotSendingType == NotSending \in Sending
<1>1. <<>> \in Seq(Nat) /\ 0 \in 0 .. Retry
  BY Constants
<1> QED
  BY <1>1, NoPacketType DEF NotSending, Sending

(* A packet that only acknowledges. *)
AckOf(p) == [NoPacket EXCEPT !.ack = p.seq, !.accepted = Length(p)]

LEMMA AckType ==
    ASSUME NEW p \in Packet
    PROVE  /\ AckOf(p) \in Packet /\ AckOf(p).seq = 0 /\ AckOf(p).ack = p.seq
           /\ AckOf(p).accepted = Length(p)
<1>1. p.seq \in Seqs /\ Length(p) \in Nat /\ <<>> \in Seq(Nat) /\ 0 \in Seqs
  BY PacketParts, Constants DEF Seqs
<1> QED
  BY <1>1 DEF AckOf, NoPacket, Packet

LEMMA NextSolSeqType ==
    ASSUME solSeq \in 1 .. MaxSeq + 1
    PROVE  NextSolSeq \in 1 .. MaxSeq /\ NextSolSeq \in Seqs /\ NextSolSeq # 0
BY Constants DEF NextSolSeq, Seqs

LEMMA DataPacketType ==
    ASSUME solSeq \in 1 .. MaxSeq + 1, NEW data \in Seq(Nat)
    PROVE  DataPacket(data) \in Packet /\ DataPacket(data).seq # 0
<1>1. NextSolSeq \in Seqs /\ NextSolSeq # 0 /\ 0 \in Seqs
  BY NextSolSeqType, Constants DEF Seqs
<1> HIDE DEF NextSolSeq
<1> QED
  BY <1>1 DEF DataPacket, NoPacket, Packet

(* Put() appends or loses. *)
LEMMA PutKeeps ==
    ASSUME NEW q \in Seq(Packet), NEW p \in Packet, NEW c \in Nat
    PROVE  /\ PutUpTo(q, p, c) \in Seq(Packet)
           /\ \/ PutUpTo(q, p, c) = q
              \/ /\ Len(PutUpTo(q, p, c)) = Len(q) + 1
                 /\ PutUpTo(q, p, c)[Len(q) + 1] = p
                 /\ \A i \in 1 .. Len(q) : PutUpTo(q, p, c)[i] = q[i]
BY AppendProperties DEF PutUpTo

LEMMA AckedType ==
    ASSUME NEW q \in Seq(Packet), NEW p \in Packet
    PROVE  Acked(q, p) \in Seq(Packet)
<1>1. Put(q, AckOf(p)) \in Seq(Packet)
  BY AckType, PutKeeps, Constants DEF Put
<1> QED
  BY <1>1 DEF Acked, AckOf

LEMMA NewCharsType ==
    ASSUME NEW p \in Packet, last \in [seq : Seqs, count : Nat]
    PROVE  NewChars(p) \in Seq(Nat) /\ NewLength(p) \in Int
<1>1. p.data \in Seq(Nat) /\ Length(p) = Len(p.data) /\ last.count \in Nat
  BY PacketParts DEF Length
<1>2. NewLength(p) \in Int /\ NewLength(p) <= Length(p)
  BY <1>1 DEF NewLength
<1> DEFINE a == Length(p) - NewLength(p) + 1
<1>3. a \in Nat \ {0} /\ Length(p) \in Nat
  BY <1>1, <1>2
<1> HIDE DEF a
<1>4. SubSeq(p.data, a, Length(p)) \in Seq(Nat)
  BY <1>1, <1>3
<1> QED
  BY <1>2, <1>4 DEF NewChars, a

LEMMA RememberedType ==
    ASSUME NEW p \in Packet, last \in [seq : Seqs, count : Nat]
    PROVE  Remembered(p) \in [seq : Seqs, count : Nat]
BY PacketParts DEF Remembered

LEMMA ElementsType ==
    ASSUME NEW s \in Seq(Nat)
    PROVE  Elements(s) \subseteq Nat
BY DEF Elements

LEMMA CharsType ==
    ASSUME NEW a \in Nat, NEW b \in Nat, a <= b
    PROVE  /\ Chars(a, b) \in Seq(Nat) /\ Len(Chars(a, b)) = b - a
           /\ \A i \in 1 .. b - a : Chars(a, b)[i] = a + i
<1>1. b - a \in Nat
  OBVIOUS
<1>2. Chars(a, b) \in [1 .. b - a -> Nat]
  BY DEF Chars
<1> QED
  BY <1>1, <1>2 DEF Chars

-----------------------------------------------------------------------------
(* Types. *)

LEMMA SendSolType ==
    ASSUME solSeq \in 1 .. MaxSeq + 1, NEW s \in Sending, NEW data \in Seq(Nat),
           NEW q \in Seq(Packet), NEW n \in 0 .. MaxSeq, SendSol(s, data, q, n)
    PROVE  /\ pc' = "send" /\ snd' \in Sending /\ solSeq' \in 1 .. MaxSeq + 1 /\ reused' \in BOOLEAN
           /\ unanswered' \in 0 .. MaxSeq
           /\ toBmc' \in Seq(Packet)
<1>1. DataPacket(data) \in Packet /\ NextSolSeq \in 1 .. MaxSeq
  BY DataPacketType, NextSolSeqType
<1>2. snd' \in Sending
  <2> DEFINE u == [s EXCEPT !.pkt = DataPacket(data)]
  <2>1. u \in Sending
    BY <1>1 DEF Sending
  <2>2. 0 \in 0 .. Retry
    BY Constants
  <2>3. snd' = [u EXCEPT !.tries = 0]
    BY DEF SendSol
  <2> HIDE DEF u
  <2> QED
    BY <2>1, <2>2, <2>3 DEF Sending
<1>3. toBmc' \in Seq(Packet)
  BY <1>1, PutKeeps, Constants DEF SendSol, Put
<1>4. solSeq' \in 1 .. MaxSeq + 1
  <2>1. solSeq' = NextSolSeq + 1
    BY DEF SendSol
  <2> QED
    BY <1>1, <2>1, Constants
<1>5. reused' \in BOOLEAN
  BY Zenon DEF SendSol
<1>6. unanswered' \in 0 .. MaxSeq
  BY Constants DEF SendSol
<1> QED
  BY <1>2, <1>3, <1>4, <1>5, <1>6 DEF SendSol

LEMMA SentType ==
    ASSUME TypeOK, NEW q \in Seq(Packet), Sent(q)
    PROVE  /\ pc' \in {"idle", "loop", "exit"} /\ snd' \in Sending
           /\ solSeq' \in 1 .. MaxSeq + 1 /\ reused' \in BOOLEAN /\ unanswered' \in 0 .. MaxSeq
           /\ toBmc' = q /\ failures' \in 0 .. MaxFailures
<1>1. pc' \in {"idle", "loop", "exit"} /\ toBmc' = q /\ snd' \in Sending
  BY NotSendingType DEF Sent, Ended
<1>2. /\ failures' \in 0 .. MaxFailures /\ solSeq' \in 1 .. MaxSeq + 1 /\ reused' \in BOOLEAN
      /\ unanswered' \in 0 .. MaxSeq
  BY Constants DEF Sent, Answered, TypeOK
<1> QED
  BY <1>1, <1>2

LEMMA KeepaliveFailedType ==
    ASSUME TypeOK, KeepaliveFailed
    PROVE  pc' \in {"exit", "loop"} /\ failures' \in 0 .. MaxFailures /\ snd' \in Sending
<1>1. failures' \in 0 .. MaxFailures
  BY Constants DEF KeepaliveFailed, TypeOK
<1> QED
  BY <1>1, NotSendingType DEF KeepaliveFailed

(* The packet the console receives. *)
LEMMA HeadType ==
    ASSUME TypeOK, toCon # <<>>
    PROVE  /\ Head(toCon) \in Packet /\ Tail(toCon) \in Seq(Packet)
           /\ Acked(toBmc, Head(toCon)) \in Seq(Packet)
           /\ NewChars(Head(toCon)) \in Seq(Nat)
           /\ Remembered(Head(toCon)) \in [seq : Seqs, count : Nat]
<1>1. toCon \in Seq(Packet) /\ toBmc \in Seq(Packet) /\ last \in [seq : Seqs, count : Nat]
  BY DEF TypeOK
<1>2. Head(toCon) \in Packet /\ Tail(toCon) \in Seq(Packet)
  BY <1>1
<1> QED
  BY <1>1, <1>2, AckedType, NewCharsType, RememberedType

LEMMA TypeParts ==
    TypeOK <=>
        /\ pc \in {"idle", "loop", "send", "keepalive", "exit"}
        /\ snd \in Sending
        /\ solSeq \in 1 .. MaxSeq + 1 /\ reused \in BOOLEAN /\ unanswered \in 0 .. MaxSeq
        /\ last \in [seq : Seqs, count : Nat]
        /\ failures \in 0 .. MaxFailures
        /\ owed \in Nat /\ typed \in Nat /\ out \in Seq(Nat)
        /\ bmc \in Bmc
        /\ toBmc \in Seq(Packet) /\ toCon \in Seq(Packet)
        /\ used \in [activations : Nat, extras : Nat]
        /\ dropped \subseteq Nat
        /\ presumed \in BOOLEAN /\ resent \in BOOLEAN /\ clash \in BOOLEAN
BY Zenon DEF TypeOK

ConTypes ==
    /\ pc \in {"idle", "loop", "send", "keepalive", "exit"} /\ snd \in Sending
    /\ solSeq \in 1 .. MaxSeq + 1 /\ reused \in BOOLEAN
    /\ unanswered \in 0 .. MaxSeq /\ last \in [seq : Seqs, count : Nat]
    /\ failures \in 0 .. MaxFailures
    /\ owed \in Nat /\ typed \in Nat /\ out \in Seq(Nat)

NetTypes == toBmc \in Seq(Packet) /\ toCon \in Seq(Packet)

HistTypes ==
    /\ used \in [activations : Nat, extras : Nat] /\ dropped \subseteq Nat
    /\ presumed \in BOOLEAN /\ resent \in BOOLEAN /\ clash \in BOOLEAN

LEMMA Types == TypeOK <=> ConTypes /\ bmc \in Bmc /\ NetTypes /\ HistTypes
BY TypeParts DEF ConTypes, NetTypes, HistTypes

LEMMA TypesLater ==
    ASSUME ConTypes', bmc' \in Bmc, NetTypes', HistTypes'
    PROVE  TypeOK'
BY Zenon DEF TypeOK, ConTypes, NetTypes, HistTypes

LEMMA MinType ==
    ASSUME NEW x \in Nat, NEW y \in Nat
    PROVE  Min({x, y}) \in Nat
<1>1. \E z \in {x, y} : \A w \in {x, y} : z =< w
  <2>1. CASE x <= y
    BY <2>1
  <2>2. CASE ~(x <= y)
    BY <2>2
  <2> QED
    BY <2>1, <2>2
<1>2. Min({x, y}) \in {x, y}
  BY <1>1 DEF Min
<1> QED
  BY <1>2

LEMMA BmcParts ==
    ASSUME NEW b \in Bmc
    PROVE  /\ b.seq \in Seqs /\ b.seq \in Nat /\ b.acked \in Nat /\ b.to \in Nat /\ b.inSeq \in Seqs
           /\ b.inAccepted \in Nat /\ b.inNack \in BOOLEAN /\ b.got \in Seq(Nat)
BY Constants DEF Bmc, Seqs

LEMMA NextBmcSeq ==
    ASSUME NEW s \in Seqs
    PROVE  /\ (s % MaxSeq) + 1 \in Seqs /\ (s % MaxSeq) + 1 # 0 /\ (s % MaxSeq) + 1 # s
           /\ s = 0 => (s % MaxSeq) + 1 = 1
<1>1. s \in Nat /\ s <= MaxSeq /\ MaxSeq \in Nat /\ MaxSeq >= 2
  BY Constants DEF Seqs
<1>2. s < MaxSeq => s % MaxSeq = s
  BY <1>1
<1>3. s = MaxSeq => s % MaxSeq = 0
  BY <1>1
<1> QED
  BY <1>1, <1>2, <1>3 DEF Seqs

(* What the BMC may send: the acknowledgement alone, or with characters. *)
BmcPrintsTo(b, a, to, seq, p) ==
    /\ to > b.acked /\ to >= b.to
    /\ seq = IF b.to = b.acked THEN (b.seq % MaxSeq) + 1 ELSE b.seq
    /\ bmc' = [b EXCEPT !.to = to, !.seq = seq]
    /\ p.seq = seq /\ p.data = Chars(b.acked, to) /\ p.ack = a.ack
    /\ toCon' = PutToCon(toCon, p)

LEMMA BmcSendsForm ==
    ASSUME NEW b \in Bmc, NEW a \in Packet, BmcSends(b, a)
    PROVE  \/ bmc' = b /\ toCon' = PutToCon(toCon, a)
           \/ \E to \in Nat, seq \in Seqs, p \in Packet : BmcPrintsTo(b, a, to, seq, p)
<1>1. CASE bmc' = b /\ toCon' = PutToCon(toCon, a)
  BY <1>1
<1>2. ASSUME NEW to \in b.acked + 1 .. Min({b.acked + Limit, MaxPrinted}), to >= b.to,
             LET new == b.to = b.acked
                 seq == IF new THEN (b.seq % MaxSeq) + 1 ELSE b.seq IN
             /\ bmc' = [b EXCEPT !.to = to, !.seq = seq]
             /\ toCon' = PutToCon(toCon, [a EXCEPT !.seq = seq, !.data = Chars(b.acked, to)])
      PROVE  \E t \in Nat, s \in Seqs, p \in Packet : BmcPrintsTo(b, a, t, s, p)
  <2> DEFINE seq == IF b.to = b.acked THEN (b.seq % MaxSeq) + 1 ELSE b.seq
             data == Chars(b.acked, to)
             q == [a EXCEPT !.seq = seq]
             p == [q EXCEPT !.data = data]
  <2>1. to \in Nat /\ to > b.acked /\ b.acked \in Nat
    <3>1. b.acked \in Nat /\ b.acked + Limit \in Nat /\ MaxPrinted \in Nat
      BY BmcParts, Constants
    <3>2. Min({b.acked + Limit, MaxPrinted}) \in Nat
      BY <3>1, MinType
    <3> QED
      BY <3>1, <3>2
  <2>2. seq \in Seqs
    BY NextBmcSeq, BmcParts
  <2>3. data \in Seq(Nat)
    <3>1. b.acked <= to
      BY <2>1
    <3> QED
      BY <2>1, <3>1, CharsType
  <2>4. /\ bmc' = [b EXCEPT !.to = to, !.seq = seq]
        /\ toCon' = PutToCon(toCon, [a EXCEPT !.seq = seq, !.data = data])
    BY <1>2
  <2>5. seq = IF b.to = b.acked THEN (b.seq % MaxSeq) + 1 ELSE b.seq
    OBVIOUS
  <2>6. data = Chars(b.acked, to)
    OBVIOUS
  <2> HIDE DEF seq, data
  <2>7. q \in Packet /\ q.seq = seq /\ q.ack = a.ack
    BY <2>2 DEF Packet
  <2>8. p = [a EXCEPT !.seq = seq, !.data = data]
    BY DEF Packet
  <2> HIDE DEF q
  <2>9. p \in Packet /\ p.seq = seq /\ p.data = data /\ p.ack = a.ack
    BY <2>3, <2>7 DEF Packet
  <2> HIDE DEF p
  <2>10. BmcPrintsTo(b, a, to, seq, p)
    BY <1>2, <2>1, <2>4, <2>5, <2>6, <2>8, <2>9 DEF BmcPrintsTo
  <2> QED
    BY <2>1, <2>2, <2>9, <2>10
<1> QED
  BY <1>1, <1>2 DEF BmcSends

LEMMA BmcSendsType ==
    ASSUME NEW b \in Bmc, NEW a \in Packet, toCon \in Seq(Packet), BmcSends(b, a)
    PROVE  bmc' \in Bmc /\ toCon' \in Seq(Packet)
<1>1. \A p \in Packet : PutToCon(toCon, p) \in Seq(Packet)
  BY PutKeeps, Constants DEF PutToCon
<1>2. ASSUME NEW to \in Nat, NEW seq \in Seqs, NEW p \in Packet, BmcPrintsTo(b, a, to, seq, p)
      PROVE  bmc' \in Bmc /\ toCon' \in Seq(Packet)
  <2> DEFINE u == [b EXCEPT !.to = to]
  <2>1. u \in Bmc
    BY DEF Bmc
  <2>2. bmc' = [u EXCEPT !.seq = seq]
    BY <1>2 DEF BmcPrintsTo
  <2> HIDE DEF u
  <2>3. bmc' \in Bmc
    BY <2>1, <2>2 DEF Bmc
  <2> QED
    BY <1>1, <1>2, <2>3 DEF BmcPrintsTo
<1> QED
  BY <1>1, <1>2, BmcSendsForm

(* What the console does with a packet it receives in                      *)
(* ipmi_lanplus_send_payload().                                            *)
LEMMA SendReceivesType ==
    ASSUME TypeOK, SendReceives
    PROVE  ConTypes' /\ NetTypes' /\ dropped' \subseteq Nat /\ presumed' \in BOOLEAN
<1> DEFINE p == Head(toCon)
           q == Acked(toBmc, p)
<1>1. ConTypes /\ NetTypes /\ HistTypes
  BY Types
<1>2. /\ toCon # <<>> /\ toCon' = Tail(toCon) /\ last' = Remembered(p) /\ owed' = owed /\ typed' = typed
      /\ PartialAck(p) \/ FullAck(p) \/ DataBeforeAck(p) \/ NeitherAckNorData(p)
  BY DEF SendReceives
<1>3. /\ p \in Packet /\ toCon' \in Seq(Packet) /\ q \in Seq(Packet) /\ NewChars(p) \in Seq(Nat)
      /\ last' \in [seq : Seqs, count : Nat]
  BY <1>2, HeadType
<1>4. out \o NewChars(p) \in Seq(Nat)
  BY <1>1, <1>3 DEF ConTypes
<1>5. dropped \cup Elements(NewChars(p)) \subseteq Nat
  BY <1>1, <1>3, ElementsType DEF HistTypes
<1> HIDE DEF p, q
<1>6. ASSUME PartialAck(p)
      PROVE  /\ pc' = "send" /\ snd' \in Sending
             /\ solSeq' \in 1 .. MaxSeq + 1 /\ reused' \in BOOLEAN
             /\ unanswered' \in 0 .. MaxSeq /\ toBmc' \in Seq(Packet)
             /\ failures' \in 0 .. MaxFailures /\ out' \in Seq(Nat)
             /\ dropped' \subseteq Nat /\ presumed' \in BOOLEAN
  <2> DEFINE rest == SubSeq(snd.pkt.data, p.accepted + 1, Length(snd.pkt))
             tail == SubSeq(snd.buf, Len(rest) + 1, Len(snd.buf))
             buf  == rest \o tail
  <2>1. /\ out' = out \o NewChars(p) /\ failures' = failures /\ dropped' = dropped /\ presumed' = presumed
        /\ SendSol([snd EXCEPT !.buf = buf], rest, q, Answered)
    BY <1>6 DEF PartialAck, q
  <2>2. snd \in Sending /\ snd.pkt \in Packet /\ snd.buf \in Seq(Nat)
    BY <1>1 DEF ConTypes, Sending
  <2>3. snd.pkt.data \in Seq(Nat) /\ Length(snd.pkt) = Len(snd.pkt.data) /\ p.accepted \in Nat
    BY <1>3, <2>2, PacketParts DEF Length
  <2>4. rest \in Seq(Nat)
    BY <2>3
  <2> HIDE DEF rest
  <2>5. tail \in Seq(Nat)
    BY <2>2, <2>4
  <2> HIDE DEF tail
  <2>6. buf \in Seq(Nat)
    BY <2>4, <2>5
  <2> HIDE DEF buf
  <2>7. [snd EXCEPT !.buf = buf] \in Sending
    BY <2>2, <2>6 DEF Sending
  <2>8. Answered \in 0 .. MaxSeq
    BY Constants DEF Answered
  <2>9. /\ pc' = "send" /\ snd' \in Sending
        /\ solSeq' \in 1 .. MaxSeq + 1 /\ reused' \in BOOLEAN
        /\ unanswered' \in 0 .. MaxSeq /\ toBmc' \in Seq(Packet)
    BY <1>1, <1>3, <2>1, <2>4, <2>7, <2>8, SendSolType DEF ConTypes
  <2> QED
    BY <1>1, <1>4, <2>1, <2>9 DEF ConTypes, HistTypes
<1>7. ASSUME Sent(q)
      PROVE  /\ pc' \in {"idle", "loop", "exit"} /\ snd' \in Sending
             /\ solSeq' \in 1 .. MaxSeq + 1 /\ reused' \in BOOLEAN
             /\ unanswered' \in 0 .. MaxSeq /\ toBmc' \in Seq(Packet)
             /\ failures' \in 0 .. MaxFailures
  BY <1>3, <1>7, SentType
<1>8. ASSUME FullAck(p)
      PROVE  /\ Sent(q) /\ out' \in Seq(Nat) /\ dropped' \subseteq Nat /\ presumed' \in BOOLEAN
  <2>1. Sent(q) /\ out' \in {out, out \o NewChars(p)}
        /\ dropped' \in {dropped, dropped \cup Elements(NewChars(p))}
    BY <1>8 DEF FullAck, q
  <2>2. presumed' \in BOOLEAN
    BY <1>8 DEF FullAck
  <2> QED
    BY <1>1, <1>4, <1>5, <2>1, <2>2 DEF ConTypes, HistTypes
<1>9. ASSUME DataBeforeAck(p)
      PROVE  /\ Sent(q) /\ out' \in Seq(Nat) /\ dropped' \subseteq Nat /\ presumed' \in BOOLEAN
  <2>1. Sent(q) /\ out' = out \o NewChars(p) /\ dropped' = dropped
    BY <1>9 DEF DataBeforeAck, q
  <2>2. presumed' \in BOOLEAN
    BY <1>9, Zenon DEF DataBeforeAck
  <2> QED
    BY <1>1, <1>4, <2>1, <2>2 DEF HistTypes
<1>10. ASSUME NeitherAckNorData(p)
       PROVE  /\ pc' \in {"idle", "loop", "send", "exit"} /\ snd' \in Sending
              /\ solSeq' \in 1 .. MaxSeq + 1 /\ reused' \in BOOLEAN
              /\ unanswered' \in 0 .. MaxSeq /\ toBmc' \in Seq(Packet)
              /\ failures' \in 0 .. MaxFailures /\ out' \in Seq(Nat)
              /\ dropped' \subseteq Nat /\ presumed' \in BOOLEAN
  <2>1. out' = out /\ dropped' = dropped
    BY <1>10 DEF NeitherAckNorData
  <2>2. CASE snd.tries + 1 < Retry
    <3>1. /\ snd' = [snd EXCEPT !.tries = @ + 1]
          /\ toBmc' \in {q, Put(q, snd.pkt)}
          /\ UNCHANGED <<pc, solSeq, reused, unanswered, failures, presumed>> /\ pc = "send"
      BY <1>10, <2>2 DEF NeitherAckNorData, q, SendReceives
    <3>2. snd \in Sending /\ snd.pkt \in Packet /\ snd.tries + 1 \in 0 .. Retry
      BY <1>1, <2>2, Constants DEF ConTypes, Sending
    <3>3. snd' \in Sending
      BY <3>1, <3>2 DEF Sending
    <3>4. toBmc' \in Seq(Packet)
      <4>1. Put(q, snd.pkt) \in Seq(Packet)
        BY <1>3, <3>2, PutKeeps, Constants DEF Put
      <4> QED
        BY <1>3, <3>1, <4>1
    <3> QED
      BY <1>1, <2>1, <3>1, <3>3, <3>4 DEF ConTypes, HistTypes
  <2>3. CASE ~(snd.tries + 1 < Retry)
    <3>1. Sent(q)
      BY <1>10, <2>3 DEF NeitherAckNorData, q
    <3>2. presumed' \in BOOLEAN
      <4>1. presumed' = TRUE
        BY <1>10, <2>3 DEF NeitherAckNorData
      <4> QED
        BY <4>1, Zenon
    <3> QED
      BY <1>1, <1>7, <2>1, <3>1, <3>2 DEF ConTypes, HistTypes
  <2> QED
    BY <2>2, <2>3
<1>11. ConTypes' /\ dropped' \subseteq Nat /\ presumed' \in BOOLEAN
  <2>1. owed' \in Nat /\ typed' \in Nat
    BY <1>1, <1>2 DEF ConTypes
  <2>2. /\ pc' \in {"idle", "loop", "send", "keepalive", "exit"} /\ snd' \in Sending
        /\ solSeq' \in 1 .. MaxSeq + 1 /\ reused' \in BOOLEAN /\ unanswered' \in 0 .. MaxSeq
        /\ failures' \in 0 .. MaxFailures /\ out' \in Seq(Nat)
    BY <1>2, <1>6, <1>7, <1>8, <1>9, <1>10
  <2>3. dropped' \subseteq Nat /\ presumed' \in BOOLEAN
    BY <1>2, <1>6, <1>8, <1>9, <1>10
  <2> QED
    BY <1>3, <2>1, <2>2, <2>3 DEF ConTypes
<1>12. NetTypes'
  BY <1>2, <1>3, <1>6, <1>7, <1>8, <1>9, <1>10 DEF NetTypes
<1> QED
  BY <1>11, <1>12

LEMMA SendTimeoutType ==
    ASSUME TypeOK, SendTimeout
    PROVE  ConTypes' /\ toBmc' \in Seq(Packet) /\ resent' \in BOOLEAN
<1>1. ConTypes /\ NetTypes /\ resent \in BOOLEAN
  BY Types DEF HistTypes
<1>2. UNCHANGED <<last, owed, typed, out>>
  BY DEF SendTimeout
<1>3. snd \in Sending /\ snd.buf \in Seq(Nat)
  BY <1>1 DEF ConTypes, Sending
<1>4. CASE /\ snd.attempt + 1 < Retry
           /\ SendSol([snd EXCEPT !.attempt = @ + 1], snd.buf, toBmc, unanswered)
           /\ resent' = TRUE /\ failures' = failures
  <2>1. snd.attempt + 1 \in 0 .. Retry
    BY <1>3, <1>4, Constants DEF Sending
  <2>2. [snd EXCEPT !.attempt = @ + 1] \in Sending
    BY <1>3, <2>1 DEF Sending
  <2>3. /\ pc' = "send" /\ snd' \in Sending
        /\ solSeq' \in 1 .. MaxSeq + 1 /\ reused' \in BOOLEAN
        /\ unanswered' \in 0 .. MaxSeq /\ toBmc' \in Seq(Packet)
    BY <1>1, <1>3, <1>4, <2>2, SendSolType DEF ConTypes, NetTypes
  <2>4. resent' \in BOOLEAN
    BY <1>4, Zenon
  <2> QED
    BY <1>1, <1>2, <1>4, <2>3, <2>4 DEF ConTypes
<1>5. CASE /\ pc' \in {"exit", "loop"} /\ snd' = NotSending
           /\ UNCHANGED <<solSeq, reused, unanswered, toBmc, resent, failures>>
  BY <1>1, <1>2, <1>5, NotSendingType DEF ConTypes, NetTypes
<1>6. CASE KeepaliveFailed /\ UNCHANGED <<solSeq, reused, unanswered, toBmc, resent>>
  BY <1>1, <1>2, <1>6, KeepaliveFailedType DEF ConTypes, NetTypes
<1> QED
  BY <1>4, <1>5, <1>6 DEF SendTimeout

LEMMA BmcReceivesType ==
    ASSUME TypeOK, BmcReceives
    PROVE  bmc' \in Bmc /\ NetTypes'
<1> DEFINE p == Head(toBmc)
<1>1. bmc \in Bmc /\ NetTypes
  BY Types
<1>2. toBmc # <<>> /\ toBmc' = Tail(toBmc)
  BY DEF BmcReceives
<1>3. p \in Packet /\ toBmc' \in Seq(Packet)
  BY <1>1, <1>2 DEF NetTypes
<1> HIDE DEF p
<1>4. ASSUME NEW k \in 0 .. Length(p), NEW n \in BOOLEAN, BmcAccepts(p, k, n)
      PROVE  bmc' \in Bmc /\ toCon' \in Seq(Packet)
  <2> DEFINE g == bmc.got \o SubSeq(p.data, 1, k)
             u == [bmc EXCEPT !.inSeq = p.seq]
             v == [u EXCEPT !.inAccepted = k]
             w == [v EXCEPT !.inNack = n]
             x == [w EXCEPT !.got = g]
             b == IF p.seq = bmc.inSeq THEN bmc ELSE x
             a == [NoPacket EXCEPT !.ack = p.seq, !.accepted = b.inAccepted, !.nack = b.inNack]
  <2>1. k \in Nat /\ k <= Len(p.data) /\ p.data \in Seq(Nat) /\ p.seq \in Seqs /\ bmc.got \in Seq(Nat)
    BY <1>1, <1>3, <1>4, PacketParts, BmcParts DEF Length
  <2>2. SubSeq(p.data, 1, k) \in Seq(Nat)
    BY <2>1
  <2>3. g \in Seq(Nat)
    BY <2>1, <2>2
  <2>4. n \in BOOLEAN
    BY <1>4
  <2>5. BmcSends(b, a)
    BY <1>1, <1>4 DEF BmcAccepts, Bmc
  <2> HIDE DEF g
  <2>6. u \in Bmc
    BY <1>1, <2>1 DEF Bmc
  <2> HIDE DEF u
  <2>7. v \in Bmc
    BY <2>1, <2>6 DEF Bmc
  <2> HIDE DEF v
  <2>8. w \in Bmc
    BY <2>4, <2>7 DEF Bmc
  <2> HIDE DEF w
  <2>9. x \in Bmc
    BY <2>3, <2>8 DEF Bmc
  <2> HIDE DEF x
  <2>10. b \in Bmc
    BY <1>1, <2>9
  <2> HIDE DEF b
  <2>11. a \in Packet
    <3>1. b.inAccepted \in Nat /\ b.inNack \in BOOLEAN
      BY <2>10, BmcParts
    <3> QED
      BY <2>1, <3>1, NoPacketType DEF Packet
  <2> HIDE DEF a
  <2> QED
    BY <1>1, <2>5, <2>10, <2>11, BmcSendsType DEF NetTypes
<1>5. CASE bmc' \in {bmc, [bmc EXCEPT !.acked = bmc.to]} /\ toCon' = toCon
  <2>1. [bmc EXCEPT !.acked = bmc.to] \in Bmc
    BY <1>1 DEF Bmc
  <2> QED
    BY <1>1, <1>3, <1>5, <2>1 DEF NetTypes
<1> QED
  BY <1>3, <1>4, <1>5 DEF BmcReceives, NetTypes, p

LEMMA TypeNext ==
    ASSUME TypeOK, Next
    PROVE  TypeOK'
<1>1. ConTypes /\ bmc \in Bmc /\ NetTypes /\ HistTypes
  BY Types
<1>2. used \in [activations : Nat, extras : Nat] /\ used.extras + 1 \in Nat /\ used.activations + 1 \in Nat
  BY <1>1 DEF HistTypes
<1>3. ASSUME conVars' = conVars  PROVE ConTypes'
  BY <1>1, <1>3 DEF conVars, ConTypes
<1>4. ASSUME histVars' = histVars  PROVE HistTypes'
  BY <1>1, <1>4 DEF histVars, HistTypes
<1>5. ASSUME netVars' = netVars  PROVE NetTypes'
  BY <1>1, <1>5 DEF netVars, NetTypes
<1>6. ASSUME used' = [used EXCEPT !.extras = @ + 1], UNCHANGED <<dropped, presumed, resent, clash>>
      PROVE  HistTypes'
  <2>1. used' \in [activations : Nat, extras : Nat]
    BY <1>2, <1>6
  <2> QED
    BY <1>1, <1>6, <2>1 DEF HistTypes
<1>7. CASE ipmi_sol_activate
  <2>1. ConTypes'
    <3>1. /\ pc' = "loop" /\ failures' = 0
          /\ UNCHANGED <<snd, solSeq, reused, unanswered, last, owed, typed, out>>
      BY <1>7 DEF ipmi_sol_activate
    <3>2. 0 \in 0 .. MaxFailures
      BY Constants
    <3> QED
      BY <1>1, <3>1, <3>2 DEF ConTypes
  <2>2. bmc' \in Bmc
    <3> DEFINE u == [bmc EXCEPT !.seq = 0]
               v == [u EXCEPT !.acked = bmc.to]
    <3>1. 0 \in Seqs /\ bmc.to \in Nat
      BY <1>1, BmcParts, Constants DEF Seqs
    <3>2. u \in Bmc
      BY <1>1, <3>1 DEF Bmc
    <3>3. bmc' = [v EXCEPT !.inSeq = 0]
      BY <1>7 DEF ipmi_sol_activate
    <3> HIDE DEF u
    <3>4. v \in Bmc
      BY <3>1, <3>2 DEF Bmc
    <3> HIDE DEF v
    <3> QED
      BY <3>1, <3>3, <3>4 DEF Bmc
  <2>3. NetTypes'
    <3>1. <<>> \in Seq(Packet)
      OBVIOUS
    <3> QED
      BY <1>7, <3>1 DEF ipmi_sol_activate, NetTypes
  <2>4. HistTypes'
    <3>1. /\ used' = [used EXCEPT !.activations = @ + 1]
          /\ dropped' = dropped \cup (bmc.acked + 1 .. bmc.to)
          /\ UNCHANGED <<presumed, resent>>
      BY <1>7 DEF ipmi_sol_activate
    <3>2. clash' \in BOOLEAN
      BY <1>7 DEF ipmi_sol_activate
    <3>3. used' \in [activations : Nat, extras : Nat]
      BY <1>2, <3>1
    <3>4. bmc.acked + 1 .. bmc.to \subseteq Nat
      BY <1>1, BmcParts
    <3> QED
      BY <1>1, <3>1, <3>2, <3>3, <3>4 DEF HistTypes
  <2> QED
    BY <2>1, <2>2, <2>3, <2>4, TypesLater
<1>8. CASE ipmi_sol_deactivate \/ LoopReceivesNull \/ SelectFails
  <2>1. /\ pc' \in {"idle", "exit"}
        /\ UNCHANGED <<snd, solSeq, reused, unanswered, last, failures, owed, typed, out>>
        /\ UNCHANGED <<bmc, netVars, histVars>>
    BY <1>8 DEF ipmi_sol_deactivate, LoopReceivesNull, SelectFails, Ended
  <2>2. ConTypes'
    BY <1>1, <2>1 DEF ConTypes
  <2> QED
    BY <1>1, <1>4, <1>5, <2>1, <2>2, TypesLater
<1>9. ASSUME NEW n \in 1 .. Limit + 1, NEW quit \in BOOLEAN, processSolUserInput(n, quit)
      PROVE  TypeOK'
  <2> DEFINE buf == Chars(typed, typed + n)
             u == [NotSending EXCEPT !.buf = buf]
             s == [u EXCEPT !.quit = quit]
  <2>1. /\ typed' = typed + n /\ SendSol(s, buf, toBmc, unanswered)
        /\ UNCHANGED <<last, failures, owed, out, bmc, toCon, histVars>>
    BY <1>9 DEF processSolUserInput
  <2> HIDE DEF s, u, buf
  <2>2. typed \in Nat /\ typed' = typed + n /\ n \in Nat
    BY <1>1, <2>1, Constants DEF ConTypes
  <2>3. typed \in Nat /\ typed' \in Nat /\ typed + n \in Nat /\ typed <= typed + n
    BY <2>2
  <2>4. buf \in Seq(Nat)
    BY <2>3, CharsType DEF buf
  <2>5. u \in Sending
    BY <2>4, NotSendingType DEF u, Sending
  <2>6. s \in Sending
    BY <2>5 DEF s, Sending
  <2>7. /\ pc' = "send" /\ snd' \in Sending
        /\ solSeq' \in 1 .. MaxSeq + 1 /\ reused' \in BOOLEAN
        /\ unanswered' \in 0 .. MaxSeq /\ toBmc' \in Seq(Packet)
    BY <1>1, <2>1, <2>4, <2>6, SendSolType DEF ConTypes, NetTypes
  <2>8. ConTypes' /\ NetTypes'
    BY <1>1, <2>1, <2>3, <2>7 DEF ConTypes, NetTypes
  <2> QED
    BY <1>1, <1>4, <2>1, <2>8, TypesLater
<1>10. ASSUME NEW kind \in {"break", "keepalive"}, SendEmpty(kind)
       PROVE  TypeOK'
  <2> DEFINE s == [NotSending EXCEPT !.kind = kind]
  <2>1. /\ used' = [used EXCEPT !.extras = @ + 1] /\ SendSol(s, <<>>, toBmc, unanswered)
        /\ UNCHANGED <<last, failures, owed, typed, out, bmc, toCon, dropped, presumed, resent, clash>>
    BY <1>10 DEF SendEmpty
  <2>2. s \in Sending
    BY NotSendingType DEF Sending
  <2>3. <<>> \in Seq(Nat)
    OBVIOUS
  <2> HIDE DEF s
  <2>4. /\ pc' = "send" /\ snd' \in Sending
        /\ solSeq' \in 1 .. MaxSeq + 1 /\ reused' \in BOOLEAN
        /\ unanswered' \in 0 .. MaxSeq /\ toBmc' \in Seq(Packet)
    BY <1>1, <2>1, <2>2, <2>3, SendSolType DEF ConTypes, NetTypes
  <2>5. ConTypes' /\ NetTypes'
    BY <1>1, <2>1, <2>4 DEF ConTypes, NetTypes
  <2> QED
    BY <1>1, <1>6, <2>1, <2>5, TypesLater
<1>11. CASE LoopReceives \/ KeepaliveReceives
  <2>1. /\ toCon # <<>> /\ toCon' = Tail(toCon) /\ toBmc' = Acked(toBmc, Head(toCon))
        /\ out' = out \o NewChars(Head(toCon)) /\ last' = Remembered(Head(toCon))
        /\ snd' \in {snd, [snd EXCEPT !.more = TRUE]}
        /\ UNCHANGED <<pc, solSeq, reused, unanswered, failures, owed, typed, bmc, histVars>>
    BY <1>11 DEF LoopReceives, KeepaliveReceives
  <2>2. /\ Tail(toCon) \in Seq(Packet) /\ Acked(toBmc, Head(toCon)) \in Seq(Packet)
        /\ NewChars(Head(toCon)) \in Seq(Nat)
        /\ Remembered(Head(toCon)) \in [seq : Seqs, count : Nat]
    BY <2>1, HeadType
  <2>3. snd' \in Sending
    <3>1. snd \in Sending
      BY <1>1 DEF ConTypes
    <3>2. [snd EXCEPT !.more = TRUE] \in Sending
      BY <3>1 DEF Sending
    <3> QED
      BY <2>1, <3>1, <3>2
  <2>4. out' \in Seq(Nat)
    BY <1>1, <2>1, <2>2 DEF ConTypes
  <2>5. ConTypes' /\ NetTypes'
    BY <1>1, <2>1, <2>2, <2>3, <2>4 DEF ConTypes, NetTypes
  <2> QED
    BY <1>1, <1>4, <2>1, <2>5, TypesLater
<1>12. CASE SendReceives
  <2>1. UNCHANGED <<bmc, used, resent, clash>>
    BY <1>12 DEF SendReceives
  <2> QED
    BY <1>1, <1>12, <2>1, SendReceivesType, TypesLater DEF HistTypes
<1>13. CASE SendTimeout
  <2>1. UNCHANGED <<bmc, toCon, used, dropped, presumed, clash>>
    BY <1>13 DEF SendTimeout
  <2> QED
    BY <1>1, <1>13, <2>1, SendTimeoutType, TypesLater DEF HistTypes, NetTypes
<1>14. CASE LateAnswer
  <2>1. /\ owed > 0 /\ owed' = owed - 1
        /\ UNCHANGED <<last, typed, out, bmc, toCon, used, dropped, resent, clash>>
    BY <1>14 DEF LateAnswer
  <2>2. owed' \in Nat
    BY <1>1, <2>1 DEF ConTypes
  <2>3. CASE UNCHANGED <<pc, snd, solSeq, reused, unanswered, failures, toBmc, presumed>>
    BY <1>1, <2>1, <2>2, <2>3, TypesLater DEF ConTypes, NetTypes, HistTypes
  <2>4. CASE presumed' = TRUE /\ Sent(toBmc)
    <3>1. presumed' \in BOOLEAN
      BY <2>4, Zenon
    <3>2. /\ pc' \in {"idle", "loop", "exit"} /\ snd' \in Sending
          /\ solSeq' \in 1 .. MaxSeq + 1 /\ reused' \in BOOLEAN /\ unanswered' \in 0 .. MaxSeq
          /\ toBmc' = toBmc /\ failures' \in 0 .. MaxFailures
      BY <1>1, <2>4, SentType DEF NetTypes
    <3>3. ConTypes' /\ NetTypes'
      BY <1>1, <2>1, <2>2, <3>2 DEF ConTypes, NetTypes
    <3> QED
      BY <1>1, <2>1, <3>1, <3>3, TypesLater DEF HistTypes
  <2> QED
    BY <1>14, <2>3, <2>4 DEF LateAnswer
<1>15. CASE ipmi_lanplus_keepalive
  <2>1. /\ used' = [used EXCEPT !.extras = @ + 1] /\ pc' = "keepalive"
        /\ UNCHANGED <<snd, solSeq, reused, unanswered, last, failures, owed, typed, out, bmc, netVars,
                       dropped, presumed, resent, clash>>
    BY <1>15 DEF ipmi_lanplus_keepalive
  <2>2. ConTypes'
    BY <1>1, <2>1 DEF ConTypes
  <2> QED
    BY <1>1, <1>5, <1>6, <2>1, <2>2, TypesLater
<1>16. CASE KeepaliveEnds
  <2>1. UNCHANGED <<solSeq, reused, unanswered, last, typed, out, bmc, netVars, histVars>>
    BY <1>16 DEF KeepaliveEnds
  <2>2. owed' \in Nat
    BY <1>1, <1>16 DEF KeepaliveEnds, ConTypes
  <2>3. pc' \in {"loop", "exit"} /\ snd' \in Sending /\ failures' \in 0 .. MaxFailures
    <3>1. CASE pc' = "loop" /\ snd' = NotSending /\ failures' = 0
      <4>1. 0 \in 0 .. MaxFailures
        BY Constants
      <4> QED
        BY <3>1, <4>1, NotSendingType
    <3>2. CASE KeepaliveFailed
      BY <3>2, KeepaliveFailedType
    <3> QED
      BY <1>16, <3>1, <3>2 DEF KeepaliveEnds
  <2>4. ConTypes'
    BY <1>1, <2>1, <2>2, <2>3 DEF ConTypes
  <2> QED
    BY <1>1, <1>4, <1>5, <2>1, <2>4, TypesLater
<1>17. CASE BmcPrints
  <2>1. BmcSends(bmc, NoPacket) /\ UNCHANGED <<conVars, toBmc, histVars>>
    BY <1>17 DEF BmcPrints
  <2>2. bmc' \in Bmc /\ NetTypes'
    BY <1>1, <2>1, NoPacketType, BmcSendsType DEF NetTypes
  <2> QED
    BY <1>3, <1>4, <2>1, <2>2, TypesLater
<1>18. CASE BmcReceives
  <2>1. UNCHANGED <<conVars, histVars>>
    BY <1>18 DEF BmcReceives
  <2> QED
    BY <1>3, <1>4, <1>18, <2>1, BmcReceivesType, TypesLater
<1>19. CASE Lose
  <2>1. UNCHANGED <<conVars, bmc, histVars>>
    BY <1>19 DEF Lose
  <2>2. NetTypes'
    <3>1. \A q \in Seq(Packet) : q # <<>> => Tail(q) \in Seq(Packet)
      OBVIOUS
    <3> QED
      BY <1>1, <1>19, <3>1 DEF Lose, NetTypes
  <2> QED
    BY <1>1, <1>3, <1>4, <2>1, <2>2, TypesLater
<1> QED
  BY <1>7, <1>8, <1>9, <1>10, <1>11, <1>12, <1>13, <1>14, <1>15, <1>16, <1>17, <1>18, <1>19 DEF Next

-----------------------------------------------------------------------------
(* What the BMC prints. *)

Lasts == [seq : Seqs, count : Nat]

LEMMA TailOf ==
    ASSUME NEW q \in Seq(Packet), q # <<>>
    PROVE  /\ Tail(q) \in Seq(Packet) /\ Len(Tail(q)) = Len(q) - 1 /\ Len(q) \in Nat \ {0}
           /\ \A i \in 1 .. Len(q) - 1 : Tail(q)[i] = q[i + 1] /\ i + 1 \in 1 .. Len(q)
           /\ Head(q) = q[1] /\ 1 \in 1 .. Len(q) /\ Head(q) \in Packet
BY EmptySeq, HeadTailProperties

LEMMA PacketsTail ==
    ASSUME NEW q \in Seq(Packet), q # <<>>, NEW b, NEW l, PacketsFor(q, b, l)
    PROVE  PacketsFor(Tail(q), b, l)
<1>1. /\ Len(Tail(q)) = Len(q) - 1 /\ Len(q) \in Nat
      /\ \A i \in 1 .. Len(q) - 1 : Tail(q)[i] = q[i + 1] /\ i + 1 \in 1 .. Len(q)
  BY TailOf
<1> QED
  BY <1>1 DEF PacketsFor

LEMMA AcksTail ==
    ASSUME NEW q \in Seq(Packet), q # <<>>, NEW b, NEW l, AcksFor(q, b, l)
    PROVE  AcksFor(Tail(q), b, l)
<1>1. /\ Len(Tail(q)) = Len(q) - 1 /\ Len(q) \in Nat
      /\ \A i \in 1 .. Len(q) - 1 : Tail(q)[i] = q[i + 1] /\ i + 1 \in 1 .. Len(q)
  BY TailOf
<1> QED
  BY <1>1 DEF AcksFor

LEMMA PutForm ==
    ASSUME NEW q \in Seq(Packet), NEW p \in Packet, NEW r, r = Put(q, p) \/ r = PutToCon(q, p)
    PROVE  \/ r = q
           \/ Len(r) = Len(q) + 1 /\ r[Len(q) + 1] = p /\ \A i \in 1 .. Len(q) : r[i] = q[i]
<1>1. r = Append(q, p) \/ r = q
  BY DEF Put, PutToCon, PutUpTo
<1>2. /\ Len(Append(q, p)) = Len(q) + 1 /\ Append(q, p)[Len(q) + 1] = p
      /\ \A i \in 1 .. Len(q) : Append(q, p)[i] = q[i]
  BY AppendProperties
<1> QED
  BY <1>1, <1>2

LEMMA AcksData ==
    ASSUME NEW q \in Seq(Packet), NEW d \in Packet, d.seq # 0, NEW b, NEW l, AcksFor(q, b, l)
    PROVE  AcksFor(Put(q, d), b, l)
<1> DEFINE r == Put(q, d)
           n == Len(q) + 1
<1>1. \/ r = q
      \/ Len(r) = n /\ r[n] = d /\ \A i \in 1 .. Len(q) : r[i] = q[i]
  BY PutKeeps, Constants DEF Put
<1>2. CASE r = q
  BY <1>2
<1>3. CASE Len(r) = n /\ r[n] = d /\ \A i \in 1 .. Len(q) : r[i] = q[i]
  <2> HIDE DEF r
  <2>1. \A i \in 1 .. n : i \in 1 .. Len(q) \/ i = n
    OBVIOUS
  <2>2. \A i \in 1 .. n : AckOnItsWay(r[i], b, l)
    BY <1>3, <2>1 DEF AcksFor, AckOnItsWay
  <2>3. \A i \in 1 .. n : r[i].seq = 0 => i \in 1 .. Len(q) /\ r[i] = q[i]
    BY <1>3, <2>1
  <2>4. AcksFor(r, b, l)
    BY <1>3, <2>2, <2>3 DEF AcksFor
  <2> QED
    BY <2>4 DEF r
<1> QED
  BY <1>1, <1>2, <1>3

(* The console receives the first packet on its way. *)
After(p, l) == IF p.seq # 0 THEN [seq |-> p.seq, count |-> Length(p)] ELSE l

LEMMA AfterParts ==
    ASSUME NEW p \in Packet, NEW l \in Lasts
    PROVE  /\ After(p, l) \in Lasts
           /\ p.seq # 0 => After(p, l).seq = p.seq /\ After(p, l).count = Length(p)
           /\ p.seq = 0 => After(p, l) = l
BY PacketParts DEF After, Lasts

(* A repetition of what was seen changes nothing. *)
LEMMA AfterRepetition ==
    ASSUME NEW p \in Packet, NEW l \in Lasts, p.seq = l.seq, Length(p) = l.count
    PROVE  After(p, l) = l
BY DEF After, Lasts

LEMMA ReceivedRemembers ==
    ASSUME NEW p \in Packet, NEW b \in Bmc, NEW l \in Lasts, Remembers(b, l), OnItsWay(p, b, l)
    PROVE  Remembers(b, After(p, l))
<1>1. CASE p.seq # 0 /\ IsCurrent(p, b)
  <2>1. After(p, l).seq = b.seq /\ After(p, l).count = Length(p) /\ b.seq # 0 /\ Outstanding(b)
    BY <1>1, AfterParts DEF IsCurrent
  <2>2. Length(p) <= b.to - b.acked
    BY <1>1 DEF OnItsWay
  <2> QED
    BY <2>1, <2>2 DEF Remembers
<1>2. CASE p.seq # 0 /\ ~IsCurrent(p, b)
  BY <1>2, AfterRepetition DEF OnItsWay
<1>3. CASE p.seq = 0
  BY <1>3, AfterParts
<1> QED
  BY <1>1, <1>2, <1>3

LEMMA ReceivedPackets ==
    ASSUME NEW q \in Seq(Packet), q # <<>>, NEW b \in Bmc, NEW l \in Lasts, PacketsFor(q, b, l)
    PROVE  PacketsFor(Tail(q), b, After(Head(q), l))
<1> DEFINE p == Head(q)
<1>1. /\ p \in Packet /\ p = q[1] /\ 1 \in 1 .. Len(q) /\ Len(q) \in Nat
      /\ Len(Tail(q)) = Len(q) - 1
      /\ \A i \in 1 .. Len(q) - 1 : Tail(q)[i] = q[i + 1] /\ i + 1 \in 1 .. Len(q)
  BY TailOf
<1>2. OnItsWay(p, b, l) /\ PacketsFor(Tail(q), b, l)
  BY <1>1, PacketsTail DEF PacketsFor
<1> HIDE DEF p
<1>3. CASE p.seq # 0 /\ IsCurrent(p, b)
  <2> DEFINE m == After(p, l)
  <2>1. m.seq = b.seq /\ m.count = Length(p)
    BY <1>1, <1>3, AfterParts DEF IsCurrent
  <2> HIDE DEF m
  <2>2. ASSUME NEW i \in 1 .. Len(Tail(q))
        PROVE  OnItsWay(Tail(q)[i], b, m)
    <3> DEFINE r == Tail(q)[i]
    <3>1. r = q[i + 1] /\ i + 1 \in 1 .. Len(q) /\ 1 < i + 1
      BY <1>1
    <3>2. OnItsWay(r, b, l)
      BY <1>2 DEF PacketsFor
    <3>3. r.seq # 0 => IsCurrent(r, b) /\ Length(p) <= Length(r)
      BY <1>1, <1>3, <3>1 DEF PacketsFor
    <3> HIDE DEF r
    <3>4. OnItsWay(r, b, m)
      BY <2>1, <3>2, <3>3 DEF OnItsWay
    <3> QED
      BY <3>4 DEF r
  <2>3. PacketsFor(Tail(q), b, m)
    BY <1>2, <2>2 DEF PacketsFor
  <2> QED
    BY <2>3 DEF m, p
<1>4. CASE p.seq # 0 /\ ~IsCurrent(p, b)
  <2>1. After(p, l) = l
    BY <1>1, <1>2, <1>4, AfterRepetition DEF OnItsWay
  <2> QED
    BY <1>2, <2>1 DEF p
<1>5. CASE p.seq = 0
  <2>1. After(p, l) = l
    BY <1>1, <1>5, AfterParts
  <2> QED
    BY <1>2, <2>1 DEF p
<1> QED
  BY <1>3, <1>4, <1>5

LEMMA ReceivedAcks ==
    ASSUME NEW q \in Seq(Packet), NEW p \in Packet, NEW b \in Bmc, NEW l \in Lasts,
           Remembers(b, l), OnItsWay(p, b, l), AcksFor(q, b, l)
    PROVE  AcksFor(Acked(q, p), b, After(p, l))
<1> DEFINE m == After(p, l)
           a == AckOf(p)
           r == Put(q, a)
           n == Len(q) + 1
<1>1. CASE p.seq = 0
  BY <1>1, AfterParts DEF Acked
<1>2. CASE p.seq # 0
  <2>1. Acked(q, p) = r
    BY <1>2 DEF Acked, AckOf
  <2>2. a \in Packet /\ a.seq = 0 /\ a.ack = p.seq /\ a.accepted = Length(p) /\ Length(p) \in Nat
    BY AckType, PacketParts
  <2>3. m.seq = p.seq /\ m.count = Length(p) /\ b.seq # 0
    BY <1>2, AfterParts DEF OnItsWay
  <2> HIDE DEF a, m
  <2>4. ASSUME NEW i \in 1 .. Len(q)
        PROVE  AckOnItsWay(q[i], b, m)
    <3>1. AckOnItsWay(q[i], b, l) /\ q[i] \in Packet
      BY DEF AcksFor
    <3>2. CASE IsCurrent(p, b)
      <4>1. l.seq = b.seq => l.count <= Length(p)
        BY <1>2, <3>2 DEF OnItsWay
      <4>2. m.seq = b.seq
        BY <2>3, <3>2 DEF IsCurrent
      <4>3. l.count \in Nat /\ q[i].accepted \in Nat
        BY <3>1, PacketParts DEF Lasts
      <4> QED
        BY <2>2, <2>3, <3>1, <4>1, <4>2, <4>3 DEF AckOnItsWay
    <3>3. CASE ~IsCurrent(p, b)
      <4>1. m = l
        BY <1>2, <3>3, AfterRepetition DEF OnItsWay, m
      <4> QED
        BY <3>1, <4>1
    <3> QED
      BY <3>2, <3>3
  <2>5. AckOnItsWay(a, b, m)
    <3>1. ~Outstanding(b) => p.seq = b.seq
      BY <1>2, <2>3 DEF OnItsWay, Remembers, IsCurrent
    <3>2. Length(p) <= m.count
      BY <2>2, <2>3
    <3> QED
      BY <2>2, <2>3, <3>1, <3>2 DEF AckOnItsWay
  <2>6. ASSUME NEW i \in 1 .. Len(q), q[i].seq = 0, q[i].ack = b.seq
        PROVE  a.ack = b.seq
    <3>1. AckOnItsWay(q[i], b, l)
      BY DEF AcksFor
    <3>2. l.seq = b.seq
      BY <2>6, <3>1 DEF AckOnItsWay, Remembers
    <3> QED
      BY <1>2, <2>2, <3>2 DEF OnItsWay, IsCurrent
  <2>7. \/ r = q
        \/ Len(r) = n /\ r[n] = a /\ \A i \in 1 .. Len(q) : r[i] = q[i]
    BY <2>2, PutForm
  <2> HIDE DEF r
  <2>8. CASE r = q
    BY <2>1, <2>4, <2>8 DEF AcksFor, m
  <2>9. CASE Len(r) = n /\ r[n] = a /\ \A i \in 1 .. Len(q) : r[i] = q[i]
    <3>1. \A i \in 1 .. n : i \in 1 .. Len(q) \/ i = n
      OBVIOUS
    <3>2. \A i \in 1 .. n : AckOnItsWay(r[i], b, m)
      BY <2>4, <2>5, <2>9, <3>1
    <3>3. ASSUME NEW i \in 1 .. n, NEW j \in 1 .. n, i < j, r[i].seq = 0, r[i].ack = b.seq, r[j].seq = 0
          PROVE  r[j].ack = b.seq
      <4>1. i \in 1 .. Len(q) /\ r[i] = q[i]
        BY <2>9, <3>1, <3>3
      <4>2. CASE j \in 1 .. Len(q)
        BY <2>9, <3>3, <4>1, <4>2 DEF AcksFor
      <4>3. CASE j = n
        BY <2>6, <2>9, <3>3, <4>1, <4>3
      <4> QED
        BY <3>1, <4>2, <4>3
    <3> QED
      BY <2>1, <2>9, <3>2, <3>3 DEF AcksFor, m
  <2> QED
    BY <2>7, <2>8, <2>9
<1> QED
  BY <1>1, <1>2

LEMMA CharsEmpty ==
    ASSUME NEW n \in Nat
    PROVE  Chars(n, n) = <<>>
BY DEF Chars

LEMMA SubChars ==
    ASSUME NEW a \in Nat, NEW k \in Nat, NEW c \in 0 .. k
    PROVE  SubSeq(Chars(a, a + k), c + 1, k) = Chars(a + c, a + k)
<1> DEFINE s == Chars(a, a + k)
           t == SubSeq(s, c + 1, k)
           u == Chars(a + c, a + k)
<1>1. /\ s \in Seq(Nat) /\ Len(s) = k /\ \A i \in 1 .. k : s[i] = a + i
  <2>1. a + k \in Nat /\ a <= a + k /\ (a + k) - a = k
    OBVIOUS
  <2> QED
    BY <2>1, CharsType
<1>2. /\ u \in Seq(Nat) /\ Len(u) = k - c /\ \A i \in 1 .. k - c : u[i] = (a + c) + i
  <2>1. a + k \in Nat /\ a + c \in Nat /\ a + c <= a + k /\ (a + k) - (a + c) = k - c
    OBVIOUS
  <2> QED
    BY <2>1, CharsType
<1> HIDE DEF s, u
<1>3. /\ t \in Seq(Nat) /\ Len(t) = k - c /\ \A i \in 1 .. k - c : t[i] = s[c + i]
  BY <1>1
<1> HIDE DEF t
<1>4. \A i \in 1 .. k - c : c + i \in 1 .. k /\ t[i] = u[i]
  BY <1>1, <1>2, <1>3
<1>5. t = u
  BY <1>2, <1>3, <1>4, SeqEqual
<1> QED
  BY <1>5 DEF t, s, u

(* check_sol_packet_for_new_data() leaves of a packet what is behind the   *)
(* last character seen.                                                    *)
LEMMA ReceivedChars ==
    ASSUME NEW p \in Packet, bmc \in Bmc, last \in Lasts, Remembers(bmc, last), OnItsWay(p, bmc, last),
           NEW n, n = Seen(bmc, last), NEW m, m = Seen(bmc, After(p, last))
    PROVE  /\ n \in Nat /\ m \in Nat /\ n <= m
           /\ NewChars(p) = Chars(n, m) /\ NewLength(p) = m - n
<1> DEFINE k == Length(p)
<1>1. /\ bmc.acked \in Nat /\ bmc.to \in Nat /\ last.count \in Nat /\ k \in Nat /\ p.data \in Seq(Nat)
      /\ Len(p.data) = k
  BY BmcParts, PacketParts DEF Lasts, Length
<1>2. n \in Nat
  BY <1>1 DEF Seen
<1>3. ASSUME After(p, last) = last, NewLength(p) = 0
      PROVE  /\ m \in Nat /\ n <= m
             /\ NewChars(p) = Chars(n, m) /\ NewLength(p) = m - n
  <2>1. m = n
    BY <1>3
  <2>2. NewChars(p) = SubSeq(p.data, k + 1, k)
    <3>1. (Length(p) - NewLength(p)) + 1 = k + 1
      BY <1>1, <1>3
    <3> QED
      BY <3>1 DEF NewChars
  <2>3. SubSeq(p.data, k + 1, k) = <<>>
    BY <1>1
  <2>4. NewChars(p) = Chars(n, m)
    BY <1>2, <2>1, <2>2, <2>3, CharsEmpty
  <2>5. NewLength(p) = m - n /\ n <= m /\ m \in Nat
    BY <1>2, <1>3, <2>1
  <2> QED
    BY <2>4, <2>5
<1>4. CASE p.seq # 0 /\ IsCurrent(p, bmc)
  <2> DEFINE a == bmc.acked
             c == IF last.seq = bmc.seq THEN last.count ELSE 0
  <2>1. /\ Outstanding(bmc) /\ p.seq = bmc.seq /\ After(p, last).seq = bmc.seq
        /\ After(p, last).count = k
    BY <1>4, AfterParts DEF IsCurrent
  <2>2. p.data = Chars(a, a + k) /\ c \in 0 .. k
    BY <1>1, <1>4 DEF OnItsWay
  <2>3. m = a + k /\ n = a + c
    BY <1>1, <2>1 DEF Seen
  <2>4. NewLength(p) = k - c
    BY <1>1, <2>1 DEF NewLength
  <2> HIDE DEF c
  <2>5. (k - NewLength(p)) + 1 = c + 1
    BY <1>1, <2>2, <2>4
  <2>6. NewChars(p) = SubSeq(Chars(a, a + k), c + 1, k)
    BY <2>2, <2>5 DEF NewChars
  <2>7. NewChars(p) = Chars(a + c, a + k)
    BY <1>1, <2>2, <2>6, SubChars
  <2> QED
    BY <1>1, <1>2, <2>2, <2>3, <2>4, <2>7
<1>5. CASE p.seq # 0 /\ ~IsCurrent(p, bmc)
  <2>1. After(p, last) = last /\ p.seq = last.seq /\ k = last.count
    BY <1>5, AfterRepetition DEF OnItsWay
  <2>2. NewLength(p) = 0
    BY <1>1, <2>1 DEF NewLength
  <2> QED
    BY <1>2, <1>3, <2>1, <2>2
<1>6. CASE p.seq = 0
  <2>1. After(p, last) = last /\ p.data = <<>>
    BY <1>6, AfterParts DEF OnItsWay
  <2>2. k = 0
    BY <2>1 DEF Length
  <2>3. NewLength(p) = 0
    BY <1>1, <1>6, <2>2 DEF NewLength, Remembers
  <2> QED
    BY <1>2, <1>3, <2>1, <2>3
<1> QED
  BY <1>4, <1>5, <1>6

LEMMA PrintedMore ==
    ASSUME NEW o \in Seq(Nat), NEW d, NEW n \in Nat, NEW m \in Nat, n <= m, Printed(o, d, n)
    PROVE  /\ Printed(o \o Chars(n, m), d, m)
           /\ Printed(o, d \cup Elements(Chars(n, m)), m)
<1> DEFINE c == Chars(n, m)
           t == o \o c
<1>1. c \in Seq(Nat) /\ Len(c) = m - n /\ \A i \in 1 .. m - n : c[i] = n + i
  BY CharsType
<1>2. n + 1 .. m \subseteq Elements(c)
  <2>1. \A x \in n + 1 .. m : x - n \in 1 .. m - n /\ n + (x - n) = x
    OBVIOUS
  <2>2. \A x \in n + 1 .. m : x - n \in 1 .. Len(c) /\ c[x - n] = x
    BY <1>1, <2>1
  <2> HIDE DEF c
  <2> QED
    BY <2>2 DEF Elements
<1>3. \A i \in 1 .. Len(o) : o[i] \in Nat /\ o[i] <= n
  BY DEF Printed
<1>4. 1 .. m \subseteq (1 .. n) \cup (n + 1 .. m)
  OBVIOUS
<1> HIDE DEF c
<1>5. /\ t \in Seq(Nat) /\ Len(t) = Len(o) + (m - n)
      /\ \A i \in 1 .. Len(t) : t[i] = IF i <= Len(o) THEN o[i] ELSE c[i - Len(o)]
  <2>1. /\ t \in Seq(Nat) /\ Len(t) = Len(o) + Len(c)
        /\ \A i \in 1 .. Len(o) + Len(c) : t[i] = IF i <= Len(o) THEN o[i] ELSE c[i - Len(o)]
    BY <1>1, ConcatProperties
  <2> QED
    BY <1>1, <2>1
<1>6. \A i \in 1 .. Len(t) : \/ i \in 1 .. Len(o) /\ t[i] = o[i]
                             \/ i > Len(o) /\ i - Len(o) \in 1 .. m - n /\ t[i] = n + (i - Len(o))
  BY <1>1, <1>5
<1> HIDE DEF t
<1>7. Printed(o, d \cup Elements(c), m)
  <2>1. \A i \in 1 .. Len(o) : o[i] <= m
    BY <1>3
  <2>2. 1 .. m \subseteq Elements(o) \cup (d \cup Elements(c))
    BY <1>2, <1>4 DEF Printed
  <2> QED
    BY <2>1, <2>2 DEF Printed
<1>8. \A i \in 1 .. Len(t) : t[i] <= m
  BY <1>3, <1>6
<1>9. Increasing(t)
  <2>1. ASSUME NEW i \in 1 .. Len(t), NEW j \in 1 .. Len(t), i < j
        PROVE  t[i] < t[j]
    <3>1. CASE i \in 1 .. Len(o) /\ j \in 1 .. Len(o)
      <4>1. t[i] = o[i] /\ t[j] = o[j]
        BY <1>6, <3>1
      <4> QED
        BY <2>1, <3>1, <4>1 DEF Printed, Increasing
    <3>2. CASE ~(i \in 1 .. Len(o) /\ j \in 1 .. Len(o))
      BY <1>3, <1>6, <2>1, <3>2
    <3> QED
      BY <3>1, <3>2
  <2> QED
    BY <2>1 DEF Increasing
<1>10. Elements(o) \subseteq Elements(t) /\ Elements(c) \subseteq Elements(t)
  <2>1. \A i \in 1 .. Len(o) : i \in 1 .. Len(t) /\ t[i] = o[i]
    BY <1>5
  <2>2. \A i \in 1 .. Len(c) : i + Len(o) \in 1 .. Len(t) /\ t[i + Len(o)] = c[i]
    <3>1. \A i \in 1 .. Len(c) : /\ i + Len(o) \in 1 .. Len(t) /\ ~(i + Len(o) <= Len(o))
                                  /\ (i + Len(o)) - Len(o) = i
      BY <1>1, <1>5
    <3> QED
      BY <1>5, <3>1
  <2> QED
    BY <2>1, <2>2 DEF Elements
<1>11. 1 .. m \subseteq Elements(t) \cup d
  BY <1>2, <1>4, <1>10 DEF Printed
<1>12. Printed(t, d, m)
  BY <1>8, <1>9, <1>11 DEF Printed
<1> QED
  BY <1>7, <1>12 DEF t, c

(* What the invariant says depends on what the BMC prints only. *)
LEMMA SameOutput ==
    ASSUME NEW b, NEW c, NEW l, c.seq = b.seq, c.acked = b.acked, c.to = b.to
    PROVE  /\ Remembers(b, l) => Remembers(c, l)
           /\ Seen(c, l) = Seen(b, l)
           /\ \A q : PacketsFor(q, b, l) => PacketsFor(q, c, l)
           /\ \A q : AcksFor(q, b, l) => AcksFor(q, c, l)
<1>1. Remembers(b, l) => Remembers(c, l)
  BY DEF Remembers, Outstanding
<1>2. Seen(c, l) = Seen(b, l)
  BY DEF Seen, Outstanding
<1>3. \A p : OnItsWay(p, b, l) => OnItsWay(p, c, l)
  BY DEF OnItsWay, IsCurrent, Outstanding
<1>4. \A p : AckOnItsWay(p, b, l) => AckOnItsWay(p, c, l)
  BY DEF AckOnItsWay, Outstanding
<1>5. \A p : IsCurrent(p, c) <=> IsCurrent(p, b)
  BY DEF IsCurrent, Outstanding
<1> QED
  BY <1>1, <1>2, <1>3, <1>4, <1>5 DEF PacketsFor, AcksFor

LEMMA PacketsPut ==
    ASSUME NEW q \in Seq(Packet), NEW p \in Packet, NEW b, NEW l,
           PacketsFor(q, b, l), OnItsWay(p, b, l),
           \A i \in 1 .. Len(q) : (q[i].seq # 0 /\ IsCurrent(q[i], b) /\ p.seq # 0) =>
                                     IsCurrent(p, b) /\ Length(q[i]) <= Length(p)
    PROVE  PacketsFor(PutToCon(q, p), b, l)
<1> DEFINE r == PutToCon(q, p)
           n == Len(q) + 1
<1>1. \/ r = q
      \/ Len(r) = n /\ r[n] = p /\ \A i \in 1 .. Len(q) : r[i] = q[i]
  BY PutForm
<1> HIDE DEF r
<1>2. CASE r = q
  BY <1>2 DEF r
<1>3. CASE Len(r) = n /\ r[n] = p /\ \A i \in 1 .. Len(q) : r[i] = q[i]
  <2>1. \A i \in 1 .. n : i \in 1 .. Len(q) \/ i = n
    OBVIOUS
  <2>2. \A i \in 1 .. n : OnItsWay(r[i], b, l)
    BY <1>3, <2>1 DEF PacketsFor
  <2>3. ASSUME NEW i \in 1 .. n, NEW j \in 1 .. n,
               i < j, r[i].seq # 0, IsCurrent(r[i], b), r[j].seq # 0
        PROVE  IsCurrent(r[j], b) /\ Length(r[i]) <= Length(r[j])
    <3>1. i \in 1 .. Len(q) /\ r[i] = q[i]
      BY <1>3, <2>1, <2>3
    <3>2. CASE j \in 1 .. Len(q)
      BY <1>3, <2>3, <3>1, <3>2 DEF PacketsFor
    <3>3. CASE j = n
      BY <1>3, <2>3, <3>1, <3>3
    <3> QED
      BY <2>1, <3>2, <3>3
  <2> QED
    BY <1>3, <2>2, <2>3 DEF PacketsFor, r
<1> QED
  BY <1>1, <1>2, <1>3

(* The BMC prints something new. *)
LEMMA NewPacketKeeps ==
    ASSUME NEW b \in Bmc, NEW c, NEW l \in Lasts, NEW q \in Seq(Packet), NEW r \in Seq(Packet),
           NEW p \in Packet,
           Remembers(b, l), PacketsFor(q, b, l), AcksFor(r, b, l),
           b.to = b.acked, c.to \in Nat, c.to > b.acked, c.acked = b.acked,
           c.seq = (b.seq % MaxSeq) + 1, p.seq = c.seq, p.data = Chars(b.acked, c.to)
    PROVE  /\ Remembers(c, l) /\ PacketsFor(PutToCon(q, p), c, l) /\ AcksFor(r, c, l)
           /\ Seen(c, l) = Seen(b, l)
<1>1. b.seq \in Seqs /\ b.acked \in Nat /\ b.to \in Nat /\ l.seq \in Seqs /\ l.count \in Nat
  BY BmcParts DEF Lasts
<1>2. c.seq # 0 /\ c.seq # b.seq /\ (b.seq = 0 => c.seq = 1)
  BY <1>1, NextBmcSeq
<1>3. ~Outstanding(b) /\ Outstanding(c)
  BY <1>1 DEF Outstanding
<1>4. l.seq # c.seq
  BY <1>2, <1>3 DEF Remembers
<1>5. Remembers(c, l)
  <2>1. c.acked <= c.to
    BY <1>1
  <2> QED
    BY <1>2, <1>3, <1>4, <2>1 DEF Remembers
<1>6. Seen(c, l) = Seen(b, l)
  BY <1>3, <1>4 DEF Seen
<1>7. ASSUME NEW i \in 1 .. Len(q)
      PROVE  OnItsWay(q[i], c, l) /\ (q[i].seq # 0 => ~IsCurrent(q[i], c))
  <2>1. OnItsWay(q[i], b, l)
    BY DEF PacketsFor
  <2>2. q[i].seq # 0 => q[i].seq = l.seq /\ Length(q[i]) = l.count
    BY <1>3, <2>1 DEF OnItsWay, IsCurrent
  <2>3. q[i].seq # 0 => ~IsCurrent(q[i], c)
    BY <1>4, <2>2 DEF IsCurrent
  <2> QED
    BY <1>2, <1>4, <2>1, <2>2, <2>3 DEF OnItsWay
<1>8. PacketsFor(q, c, l)
  BY <1>7 DEF PacketsFor
<1>9. OnItsWay(p, c, l)
  <2>1. Length(p) = c.to - c.acked
    <3>1. b.acked <= c.to
      BY <1>1
    <3> QED
      BY <1>1, <3>1, CharsType DEF Length
  <2>2. c.acked + Length(p) = c.to
    BY <1>1, <2>1
  <2>3. IsCurrent(p, c)
    BY <1>3 DEF IsCurrent
  <2>4. Length(p) <= c.to - c.acked
    BY <1>1, <2>1
  <2> QED
    BY <1>2, <1>4, <2>2, <2>3, <2>4 DEF OnItsWay
<1>10. PacketsFor(PutToCon(q, p), c, l)
  BY <1>7, <1>8, <1>9, PacketsPut
<1>11. AcksFor(r, c, l)
  <2>1. \A i \in 1 .. Len(r) : r[i].seq = 0 => r[i].ack = b.seq
    BY <1>3 DEF AcksFor, AckOnItsWay
  <2> QED
    BY <1>2, <1>3, <2>1 DEF AcksFor, AckOnItsWay
<1> QED
  BY <1>5, <1>6, <1>10, <1>11

(* The BMC repeats what is outstanding, perhaps with characters added. *)
LEMMA RepeatedPacketKeeps ==
    ASSUME NEW b \in Bmc, NEW c, NEW l \in Lasts, NEW q \in Seq(Packet), NEW r \in Seq(Packet),
           NEW p \in Packet,
           Remembers(b, l), PacketsFor(q, b, l), AcksFor(r, b, l),
           b.to # b.acked, c.to \in Nat, c.to >= b.to, c.acked = b.acked,
           c.seq = b.seq, p.seq = c.seq, p.data = Chars(b.acked, c.to)
    PROVE  /\ Remembers(c, l) /\ PacketsFor(PutToCon(q, p), c, l) /\ AcksFor(r, c, l)
           /\ Seen(c, l) = Seen(b, l)
<1>1. b.acked \in Nat /\ b.to \in Nat /\ l.count \in Nat
  BY BmcParts DEF Lasts
<1>2. Outstanding(b) /\ Outstanding(c) /\ b.seq # 0
  BY <1>1 DEF Outstanding, Remembers
<1>3. Remembers(c, l)
  <2>1. /\ c.acked <= c.to
        /\ l.seq = b.seq => l.count <= c.to - c.acked
    BY <1>1, <1>2 DEF Remembers
  <2> QED
    BY <1>2, <2>1 DEF Remembers
<1>4. Seen(c, l) = Seen(b, l)
  BY <1>2 DEF Seen
<1>5. \A x : IsCurrent(x, c) <=> IsCurrent(x, b)
  BY <1>2 DEF IsCurrent
<1>6. ASSUME NEW i \in 1 .. Len(q)
      PROVE  /\ OnItsWay(q[i], c, l)
             /\ (q[i].seq # 0 /\ IsCurrent(q[i], c)) => Length(q[i]) <= c.to - c.acked
  <2>1. OnItsWay(q[i], b, l) /\ q[i] \in Packet
    BY DEF PacketsFor
  <2>2. Length(q[i]) \in Nat
    BY <2>1, PacketParts
  <2>3. (q[i].seq # 0 /\ IsCurrent(q[i], c)) => Length(q[i]) <= c.to - c.acked
    BY <1>1, <1>5, <2>1, <2>2 DEF OnItsWay
  <2> QED
    BY <1>2, <1>5, <2>1, <2>3 DEF OnItsWay
<1>7. PacketsFor(q, c, l)
  BY <1>5, <1>6 DEF PacketsFor
<1>8. Length(p) = c.to - c.acked
  <2>1. b.acked <= c.to
    BY <1>1, <1>2 DEF Outstanding
  <2>2. Len(Chars(b.acked, c.to)) = c.to - b.acked
    BY <1>1, <2>1, CharsType
  <2> QED
    BY <2>2 DEF Length
<1>9. OnItsWay(p, c, l) /\ IsCurrent(p, c)
  <2>1. c.acked + Length(p) = c.to
    BY <1>1, <1>8
  <2>2. IsCurrent(p, c)
    BY <1>2 DEF IsCurrent
  <2>3. Length(p) <= c.to - c.acked /\ (l.seq = c.seq => l.count <= Length(p))
    BY <1>1, <1>2, <1>3, <1>8 DEF Remembers
  <2> QED
    BY <1>2, <2>1, <2>2, <2>3 DEF OnItsWay
<1>10. PacketsFor(PutToCon(q, p), c, l)
  BY <1>6, <1>7, <1>8, <1>9, PacketsPut
<1>11. AcksFor(r, c, l)
  BY <1>2 DEF AcksFor, AckOnItsWay
<1> QED
  BY <1>3, <1>4, <1>10, <1>11

(* All that was outstanding is acknowledged. *)
LEMMA AcknowledgedKeeps ==
    ASSUME NEW b \in Bmc, NEW c, NEW l \in Lasts, NEW q \in Seq(Packet), NEW r \in Seq(Packet),
           NEW p \in Packet,
           Remembers(b, l), PacketsFor(q, b, l), AcksFor(r, b, l),
           \A i \in 1 .. Len(r) : r[i].seq = 0 => r[i].ack = b.seq,
           p.seq = 0, AckOnItsWay(p, b, l), p.ack = b.seq, p.accepted = b.to - b.acked,
           c.acked = b.to, c.to = b.to, c.seq = b.seq
    PROVE  /\ Remembers(c, l) /\ PacketsFor(q, c, l) /\ AcksFor(r, c, l)
           /\ Seen(c, l) = Seen(b, l)
<1>1. b.acked \in Nat /\ b.to \in Nat /\ l.count \in Nat
  BY BmcParts DEF Lasts
<1>2. CASE ~Outstanding(b)
  <2>1. c.acked = b.acked
    BY <1>1, <1>2 DEF Outstanding, Remembers
  <2> QED
    BY <2>1, SameOutput
<1>3. CASE Outstanding(b)
  <2>1. l.seq = b.seq /\ l.count = b.to - b.acked /\ b.seq # 0
    <3>1. l.seq = b.seq /\ b.to - b.acked <= l.count /\ b.seq # 0
      BY <1>3 DEF AckOnItsWay
    <3> QED
      BY <1>1, <1>3, <3>1 DEF Remembers
  <2>2. ~Outstanding(c)
    BY <1>1 DEF Outstanding
  <2>3. Remembers(c, l)
    BY <1>1, <2>1, <2>2 DEF Remembers
  <2>4. Seen(c, l) = Seen(b, l)
    BY <1>1, <1>3, <2>1, <2>2 DEF Seen
  <2>5. ASSUME NEW i \in 1 .. Len(q)
        PROVE  OnItsWay(q[i], c, l)
    <3>1. OnItsWay(q[i], b, l) /\ q[i] \in Packet
      BY DEF PacketsFor
    <3>2. Length(q[i]) \in Nat
      BY <3>1, PacketParts
    <3>3. q[i].seq # 0 => IsCurrent(q[i], b)
      BY <1>3, <2>1, <3>1 DEF OnItsWay
    <3>4. q[i].seq # 0 => q[i].seq = l.seq /\ Length(q[i]) = l.count
      BY <1>1, <2>1, <3>1, <3>2, <3>3 DEF OnItsWay, IsCurrent
    <3> QED
      BY <2>1, <2>2, <3>1, <3>4 DEF OnItsWay, IsCurrent
  <2>6. PacketsFor(q, c, l)
    BY <2>2, <2>5 DEF PacketsFor, IsCurrent
  <2>7. AcksFor(r, c, l)
    BY <2>1, <2>2 DEF AcksFor, AckOnItsWay
  <2> QED
    BY <2>3, <2>4, <2>6, <2>7
<1> QED
  BY <1>2, <1>3

OutputParts ==
    /\ Remembers(bmc, last) /\ PacketsFor(toCon, bmc, last) /\ AcksFor(toBmc, bmc, last)
    /\ Printed(out, dropped, Seen(bmc, last))

(* The console receives a packet: it acknowledges it, perhaps sends one of *)
(* its own behind, and prints or drops what is new.                        *)
LEMMA ConsoleReceives ==
    ASSUME TypeOK, OutputParts, toCon # <<>>, toCon' = Tail(toCon), bmc' = bmc,
           last' = Remembered(Head(toCon)),
           \/ toBmc' = Acked(toBmc, Head(toCon))
           \/ \E d \in Packet : d.seq # 0 /\ toBmc' = Put(Acked(toBmc, Head(toCon)), d),
           \/ out' = out \o NewChars(Head(toCon)) /\ dropped' = dropped
           \/ out' = out /\ dropped' = dropped \cup Elements(NewChars(Head(toCon)))
           \/ out' = out /\ dropped' = dropped /\ NewLength(Head(toCon)) = 0
    PROVE  OutputParts'
<1> DEFINE p == Head(toCon)
           n == Seen(bmc, last)
           m == Seen(bmc, After(p, last))
<1>1. /\ bmc \in Bmc /\ last \in Lasts /\ toCon \in Seq(Packet) /\ toBmc \in Seq(Packet)
      /\ out \in Seq(Nat)
  BY DEF TypeOK, Lasts
<1>2. p \in Packet /\ p = toCon[1] /\ 1 \in 1 .. Len(toCon)
  BY <1>1, TailOf
<1>3. OnItsWay(p, bmc, last)
  BY <1>2 DEF OutputParts, PacketsFor
<1>4. last' = After(p, last)
  BY DEF Remembered, After
<1>5. Remembers(bmc, After(p, last))
  BY <1>1, <1>2, <1>3, ReceivedRemembers DEF OutputParts
<1>6. PacketsFor(Tail(toCon), bmc, After(p, last))
  BY <1>1, ReceivedPackets DEF OutputParts
<1>7. AcksFor(Acked(toBmc, p), bmc, After(p, last)) /\ Acked(toBmc, p) \in Seq(Packet)
  BY <1>1, <1>2, <1>3, ReceivedAcks, AckedType DEF OutputParts
<1>8. AcksFor(toBmc', bmc, After(p, last))
  <2>1. CASE toBmc' = Acked(toBmc, p)
    BY <1>7, <2>1
  <2>2. ASSUME NEW d \in Packet, d.seq # 0, toBmc' = Put(Acked(toBmc, p), d)
        PROVE  AcksFor(toBmc', bmc, After(p, last))
    BY <1>7, <2>2, AcksData
  <2> QED
    BY <2>1, <2>2
<1>9. /\ n \in Nat /\ m \in Nat /\ n <= m
      /\ NewChars(p) = Chars(n, m) /\ NewLength(p) = m - n
  BY <1>1, <1>2, <1>3, ReceivedChars DEF OutputParts
<1>10. Printed(out, dropped, n)
  BY DEF OutputParts
<1> HIDE DEF p, n, m
<1>11. Printed(out \o NewChars(p), dropped, m) /\ Printed(out, dropped \cup Elements(NewChars(p)), m)
  BY <1>1, <1>9, <1>10, PrintedMore
<1>12. NewLength(p) = 0 => Printed(out, dropped, m)
  <2>1. NewLength(p) = 0 => m = n
    BY <1>9
  <2> QED
    BY <1>10, <2>1
<1>13. Printed(out', dropped', m)
  BY <1>11, <1>12 DEF p
<1> QED
  BY <1>4, <1>5, <1>6, <1>8, <1>13 DEF OutputParts, p, m

(* The console sends, or does nothing that matters here. *)
LEMMA ConsoleSends ==
    ASSUME TypeOK, OutputParts, UNCHANGED <<bmc, last, toCon, out, dropped>>,
           toBmc' = toBmc \/ \E d \in Packet : d.seq # 0 /\ toBmc' = Put(toBmc, d)
    PROVE  OutputParts'
<1>1. toBmc \in Seq(Packet)
  BY DEF TypeOK
<1>2. AcksFor(toBmc', bmc, last)
  <2>1. ASSUME NEW d \in Packet, d.seq # 0, toBmc' = Put(toBmc, d)
        PROVE  AcksFor(toBmc', bmc, last)
    BY <1>1, <2>1, AcksData DEF OutputParts
  <2> QED
    BY <2>1 DEF OutputParts
<1> QED
  BY <1>2 DEF OutputParts

(* Packets are lost. *)
LEMMA LoseKeeps ==
    ASSUME TypeOK, OutputParts, UNCHANGED <<bmc, last, out, dropped>>,
           toBmc' = toBmc \/ (toBmc # <<>> /\ toBmc' = Tail(toBmc)),
           toCon' = toCon \/ (toCon # <<>> /\ toCon' = Tail(toCon))
    PROVE  OutputParts'
<1>1. toBmc \in Seq(Packet) /\ toCon \in Seq(Packet)
  BY DEF TypeOK
<1>2. AcksFor(toBmc', bmc, last) /\ PacketsFor(toCon', bmc, last)
  BY <1>1, AcksTail, PacketsTail DEF OutputParts
<1> QED
  BY <1>2 DEF OutputParts

(* The BMC sends, from a state that differs in what it was sent only. *)
LEMMA BmcSendsKeeps ==
    ASSUME TypeOK, OutputParts, NEW b \in Bmc, b.seq = bmc.seq, b.acked = bmc.acked, b.to = bmc.to,
           NEW a \in Packet, a.seq = 0, a.data = <<>>, BmcSends(b, a),
           UNCHANGED <<last, out, dropped>>,
           toBmc' = toBmc \/ (toBmc # <<>> /\ toBmc' = Tail(toBmc))
    PROVE  OutputParts'
<1>1. toBmc \in Seq(Packet) /\ toCon \in Seq(Packet) /\ last \in Lasts
  BY DEF TypeOK, Lasts
<1>2. toBmc' \in Seq(Packet) /\ AcksFor(toBmc', bmc, last)
  <2>1. CASE toBmc' = toBmc
    BY <1>1, <2>1 DEF OutputParts
  <2>2. CASE toBmc # <<>> /\ toBmc' = Tail(toBmc)
    <3>1. Tail(toBmc) \in Seq(Packet)
      BY <1>1, <2>2, TailOf
    <3>2. AcksFor(Tail(toBmc), bmc, last)
      BY <1>1, <2>2, AcksTail DEF OutputParts
    <3> QED
      BY <2>2, <3>1, <3>2
  <2> QED
    BY <2>1, <2>2
<1>3. /\ Remembers(b, last) /\ PacketsFor(toCon, b, last) /\ AcksFor(toBmc', b, last)
      /\ Seen(b, last) = Seen(bmc, last)
  BY <1>2, SameOutput DEF OutputParts
<1>4. Printed(out, dropped, Seen(b, last))
  BY <1>3 DEF OutputParts
<1>5. CASE bmc' = b /\ toCon' = PutToCon(toCon, a)
  <2>1. OnItsWay(a, b, last)
    BY DEF OnItsWay
  <2>2. PacketsFor(toCon', b, last)
    BY <1>1, <1>3, <1>5, <2>1, PacketsPut
  <2> QED
    BY <1>3, <1>4, <1>5, <2>2 DEF OutputParts
<1>6. ASSUME NEW to \in Nat, NEW seq \in Seqs, NEW p \in Packet, BmcPrintsTo(b, a, to, seq, p)
      PROVE  OutputParts'
  <2>1. PICK c : c = bmc'
    OBVIOUS
  <2>2. /\ to > b.acked /\ to >= b.to
        /\ seq = IF b.to = b.acked THEN (b.seq % MaxSeq) + 1 ELSE b.seq
        /\ c = [b EXCEPT !.to = to, !.seq = seq]
        /\ p.seq = seq /\ p.data = Chars(b.acked, to) /\ toCon' = PutToCon(toCon, p)
    BY <1>6, <2>1 DEF BmcPrintsTo
  <2>3. c.to = to /\ c.seq = seq /\ c.acked = b.acked
    BY <2>2 DEF Bmc
  <2>4. /\ Remembers(c, last) /\ PacketsFor(PutToCon(toCon, p), c, last) /\ AcksFor(toBmc', c, last)
        /\ Seen(c, last) = Seen(b, last)
    <3>1. /\ c.to \in Nat /\ c.to > b.acked /\ c.to >= b.to /\ c.acked = b.acked
          /\ p.seq = c.seq /\ p.data = Chars(b.acked, c.to)
      BY <2>2, <2>3
    <3>2. CASE b.to = b.acked
      <4>1. c.seq = (b.seq % MaxSeq) + 1
        BY <2>2, <2>3, <3>2
      <4> QED
        BY <1>1, <1>2, <1>3, <3>1, <3>2, <4>1, NewPacketKeeps
    <3>3. CASE b.to # b.acked
      <4>1. c.seq = b.seq
        BY <2>2, <2>3, <3>3
      <4> QED
        BY <1>1, <1>2, <1>3, <3>1, <3>3, <4>1, RepeatedPacketKeeps
    <3> QED
      BY <3>2, <3>3
  <2> QED
    BY <1>4, <2>1, <2>2, <2>4 DEF OutputParts
<1> QED
  BY <1>5, <1>6, BmcSendsForm

LEMMA BmcReceivesKeeps ==
    ASSUME TypeOK, OutputParts, BmcReceives
    PROVE  OutputParts'
<1> DEFINE p == Head(toBmc)
<1>1. /\ toBmc \in Seq(Packet) /\ toCon \in Seq(Packet) /\ last \in Lasts /\ bmc \in Bmc
  BY DEF TypeOK, Lasts
<1>2. /\ toBmc # <<>> /\ toBmc' = Tail(toBmc) /\ UNCHANGED <<last, out, dropped>>
  BY DEF BmcReceives, conVars, histVars
<1>3. /\ p \in Packet /\ p = toBmc[1] /\ 1 \in 1 .. Len(toBmc) /\ Len(toBmc) \in Nat
      /\ Tail(toBmc) \in Seq(Packet) /\ Len(Tail(toBmc)) = Len(toBmc) - 1
      /\ \A i \in 1 .. Len(toBmc) - 1 : Tail(toBmc)[i] = toBmc[i + 1] /\ i + 1 \in 1 .. Len(toBmc)
  BY <1>1, <1>2, TailOf
<1>4. ASSUME NEW k \in 0 .. Length(p), NEW n \in BOOLEAN, BmcAccepts(p, k, n)
      PROVE  OutputParts'
  <2> DEFINE g == bmc.got \o SubSeq(p.data, 1, k)
             u == [bmc EXCEPT !.inSeq = p.seq]
             v == [u EXCEPT !.inAccepted = k]
             w == [v EXCEPT !.inNack = n]
             x == [w EXCEPT !.got = g]
             b == IF p.seq = bmc.inSeq THEN bmc ELSE x
             a == [NoPacket EXCEPT !.ack = p.seq, !.accepted = b.inAccepted, !.nack = b.inNack]
  <2>1. k \in Nat /\ k <= Len(p.data) /\ p.data \in Seq(Nat) /\ p.seq \in Seqs /\ bmc.got \in Seq(Nat)
    BY <1>1, <1>3, <1>4, PacketParts, BmcParts DEF Length
  <2>2. SubSeq(p.data, 1, k) \in Seq(Nat)
    BY <2>1
  <2>3. g \in Seq(Nat)
    BY <2>1, <2>2
  <2>4. n \in BOOLEAN
    BY <1>4
  <2>5. BmcSends(b, a)
    BY <1>1, <1>4 DEF BmcAccepts, Bmc
  <2> HIDE DEF g
  <2>6. u \in Bmc /\ u.seq = bmc.seq /\ u.acked = bmc.acked /\ u.to = bmc.to
    BY <1>1, <2>1 DEF Bmc
  <2> HIDE DEF u
  <2>7. v \in Bmc /\ v.seq = bmc.seq /\ v.acked = bmc.acked /\ v.to = bmc.to
    BY <2>1, <2>6 DEF Bmc
  <2> HIDE DEF v
  <2>8. w \in Bmc /\ w.seq = bmc.seq /\ w.acked = bmc.acked /\ w.to = bmc.to
    BY <2>4, <2>7 DEF Bmc
  <2> HIDE DEF w
  <2>9. x \in Bmc /\ x.seq = bmc.seq /\ x.acked = bmc.acked /\ x.to = bmc.to
    BY <2>3, <2>8 DEF Bmc
  <2> HIDE DEF x
  <2>10. b \in Bmc /\ b.seq = bmc.seq /\ b.acked = bmc.acked /\ b.to = bmc.to
    BY <1>1, <2>9
  <2> HIDE DEF b
  <2>11. a \in Packet /\ a.seq = 0 /\ a.data = <<>>
    <3>1. b.inAccepted \in Nat /\ b.inNack \in BOOLEAN
      BY <2>10, BmcParts
    <3>2. a \in Packet
      BY <2>1, <3>1, NoPacketType DEF Packet
    <3>3. a.seq = 0 /\ a.data = <<>>
      BY DEF NoPacket
    <3> QED
      BY <3>2, <3>3
  <2> HIDE DEF a
  <2> QED
    BY <1>2, <2>5, <2>10, <2>11, BmcSendsKeeps
<1>5. CASE toCon' = toCon /\ bmc' = bmc
  BY <1>2, <1>5, LoseKeeps
<1>6. CASE /\ p.seq = 0 /\ toCon' = toCon /\ p.ack = bmc.seq /\ p.accepted = bmc.to - bmc.acked
           /\ bmc' = [bmc EXCEPT !.acked = bmc.to]
  <2>1. PICK c : c = bmc'
    OBVIOUS
  <2>2. c.acked = bmc.to /\ c.to = bmc.to /\ c.seq = bmc.seq
    BY <1>1, <1>6, <2>1 DEF Bmc
  <2>3. AckOnItsWay(p, bmc, last) /\ AcksFor(Tail(toBmc), bmc, last)
    BY <1>1, <1>2, <1>3, AcksTail DEF OutputParts, AcksFor
  <2>4. \A i \in 1 .. Len(Tail(toBmc)) : Tail(toBmc)[i].seq = 0 => Tail(toBmc)[i].ack = bmc.seq
    BY <1>3, <1>6 DEF OutputParts, AcksFor
  <2>5. /\ Remembers(c, last) /\ PacketsFor(toCon, c, last) /\ AcksFor(Tail(toBmc), c, last)
        /\ Seen(c, last) = Seen(bmc, last)
    <3>1. Remembers(bmc, last) /\ PacketsFor(toCon, bmc, last)
      BY DEF OutputParts
    <3> HIDE DEF p
    <3> QED
      BY <1>1, <1>3, <1>6, <2>2, <2>3, <2>4, <3>1, AcknowledgedKeeps
  <2> QED
    BY <1>2, <1>6, <2>1, <2>5 DEF OutputParts
<1> QED
  BY <1>4, <1>5, <1>6 DEF BmcReceives

(* The payload is activated: what was outstanding counts as dropped. *)
LEMMA ActivateKeeps ==
    ASSUME TypeOK, OutputParts, ipmi_sol_activate, ~clash'
    PROVE  OutputParts'
<1>1. bmc \in Bmc /\ last \in Lasts
  BY DEF TypeOK, Lasts
<1>2. bmc.acked \in Nat /\ bmc.to \in Nat /\ last.count \in Nat /\ bmc.acked <= bmc.to
  BY <1>1, BmcParts DEF Lasts, OutputParts, Remembers
<1>3. /\ bmc' = [bmc EXCEPT !.seq = 0, !.acked = bmc.to, !.inSeq = 0] /\ last' = last /\ out' = out
      /\ dropped' = dropped \cup (bmc.acked + 1 .. bmc.to) /\ toBmc' = <<>> /\ toCon' = <<>>
      /\ last.seq # 1
  BY DEF ipmi_sol_activate
<1>4. PICK c : c = bmc'
  OBVIOUS
<1>5. c.seq = 0 /\ c.acked = bmc.to /\ c.to = bmc.to
  BY <1>1, <1>3, <1>4 DEF Bmc
<1>6. ~Outstanding(c)
  BY <1>2, <1>5 DEF Outstanding
<1>7. Remembers(c, last)
  BY <1>2, <1>3, <1>5, <1>6 DEF OutputParts, Remembers
<1>8. Seen(c, last) = bmc.to
  BY <1>5, <1>6 DEF Seen
<1>9. Printed(out, dropped', bmc.to)
  <2> DEFINE n == Seen(bmc, last)
  <2>1. n \in Nat /\ bmc.acked <= n /\ n <= bmc.to
    BY <1>2 DEF Seen, OutputParts, Remembers
  <2>2. Printed(out, dropped, n)
    BY DEF OutputParts
  <2> HIDE DEF n
  <2>3. 1 .. bmc.to \subseteq (1 .. n) \cup (bmc.acked + 1 .. bmc.to)
    BY <1>2, <2>1
  <2>4. \A i \in 1 .. Len(out) : out[i] \in Nat
    BY DEF TypeOK
  <2>5. \A i \in 1 .. Len(out) : out[i] <= bmc.to
    BY <1>2, <2>1, <2>2, <2>4 DEF Printed
  <2>6. 1 .. bmc.to \subseteq Elements(out) \cup dropped'
    BY <1>3, <2>2, <2>3 DEF Printed
  <2> QED
    BY <2>2, <2>5, <2>6 DEF Printed
<1>10. PacketsFor(<<>>, c, last) /\ AcksFor(<<>>, c, last)
  <2>1. Len(<<>>) = 0
    OBVIOUS
  <2>2. 1 .. 0 = {}
    OBVIOUS
  <2> QED
    BY <2>1, <2>2 DEF PacketsFor, AcksFor
<1> QED
  BY <1>3, <1>4, <1>7, <1>8, <1>9, <1>10 DEF OutputParts

LEMMA SenderNext ==
    ASSUME TypeOK, Sender, Next
    PROVE  Sender'
<1>1. solSeq \in 1 .. MaxSeq + 1 /\ snd \in Sending
  BY DEF TypeOK
<1>2. snd.buf \in Seq(Nat) /\ snd.pkt \in Packet /\ <<>> \in Seq(Nat)
  BY <1>1 DEF Sending
<1>3. ASSUME NEW s \in Sending, NEW data \in Seq(Nat), NEW q, NEW n, SendSol(s, data, q, n)
      PROVE  Sender'
  <2> DEFINE u == [s EXCEPT !.pkt = DataPacket(data)]
  <2>1. DataPacket(data).seq # 0 /\ DataPacket(data) \in Packet
    BY <1>1, DataPacketType
  <2>2. u \in Sending /\ u.pkt = DataPacket(data)
    BY <2>1 DEF Sending
  <2>3. snd' = [u EXCEPT !.tries = 0]
    BY <1>3 DEF SendSol
  <2> HIDE DEF u
  <2>4. snd'.pkt = DataPacket(data)
    BY <2>2, <2>3 DEF Sending
  <2> QED
    BY <2>1, <2>4 DEF Sender
<1>4. ASSUME NEW q, Sent(q)
      PROVE  Sender'
  BY <1>4 DEF Sent, Ended, Sender
<1>5. CASE \/ ipmi_sol_activate \/ ipmi_sol_deactivate \/ LoopReceives \/ LoopReceivesNull \/ SelectFails
           \/ ipmi_lanplus_keepalive \/ KeepaliveReceives \/ KeepaliveEnds
  BY <1>5 DEF ipmi_sol_activate, ipmi_sol_deactivate, LoopReceives, LoopReceivesNull, SelectFails,
              ipmi_lanplus_keepalive, KeepaliveReceives, KeepaliveEnds, KeepaliveFailed, Ended, Sender
<1>6. CASE BmcPrints \/ BmcReceives \/ Lose
  BY <1>6 DEF BmcPrints, BmcReceives, Lose, conVars, Sender
<1>7. ASSUME NEW n \in 1 .. Limit + 1, NEW quit \in BOOLEAN, processSolUserInput(n, quit)
      PROVE  Sender'
  <2> DEFINE buf == Chars(typed, typed + n)
             u   == [NotSending EXCEPT !.buf = buf]
  <2>1. typed \in Nat /\ typed + n \in Nat /\ typed <= typed + n
    BY Constants DEF TypeOK
  <2>2. buf \in Seq(Nat)
    BY <2>1, CharsType
  <2>3. SendSol([u EXCEPT !.quit = quit], buf, toBmc, unanswered)
    BY <1>7 DEF processSolUserInput
  <2> HIDE DEF buf
  <2>4. u \in Sending
    BY <2>2, NotSendingType DEF Sending
  <2> HIDE DEF u
  <2>5. [u EXCEPT !.quit = quit] \in Sending
    BY <2>4 DEF Sending
  <2> QED
    BY <1>3, <2>2, <2>3, <2>5
<1>8. ASSUME NEW kind \in {"break", "keepalive"}, SendEmpty(kind)
      PROVE  Sender'
  <2>1. [NotSending EXCEPT !.kind = kind] \in Sending
    BY NotSendingType DEF Sending
  <2> QED
    BY <1>2, <1>3, <1>8, <2>1 DEF SendEmpty
<1>9. CASE SendReceives
  <2> DEFINE p == Head(toCon)
  <2>1. pc = "send" /\ toCon # <<>>
        /\ (PartialAck(p) \/ FullAck(p) \/ DataBeforeAck(p) \/ NeitherAckNorData(p))
    BY <1>9 DEF SendReceives
  <2>2. CASE PartialAck(p)
    <3> DEFINE rest == SubSeq(snd.pkt.data, p.accepted + 1, Length(snd.pkt))
               buf  == rest \o SubSeq(snd.buf, Len(rest) + 1, Len(snd.buf))
    <3>1. SendSol([snd EXCEPT !.buf = buf], rest, Acked(toBmc, p), Answered)
      BY <2>2 DEF PartialAck
    <3>2. p \in Packet
      BY <2>1, HeadType
    <3>3. snd.pkt.data \in Seq(Nat) /\ Length(snd.pkt) = Len(snd.pkt.data) /\ p.accepted \in Nat
      BY <1>2, <3>2, PacketParts DEF Length
    <3> HIDE DEF p
    <3>4. rest \in Seq(Nat)
      BY <3>3
    <3> HIDE DEF rest
    <3>5. SubSeq(snd.buf, Len(rest) + 1, Len(snd.buf)) \in Seq(Nat)
      BY <1>2, <3>4
    <3>6. buf \in Seq(Nat)
      BY <3>4, <3>5
    <3> HIDE DEF buf
    <3>7. [snd EXCEPT !.buf = buf] \in Sending
      BY <1>1, <3>6 DEF Sending
    <3> QED
      BY <1>3, <3>1, <3>4, <3>7
  <2>3. CASE FullAck(p) \/ DataBeforeAck(p)
    BY <1>4, <2>3 DEF FullAck, DataBeforeAck
  <2>4. CASE NeitherAckNorData(p)
    <3>1. Sent(Acked(toBmc, p)) \/ snd' = [snd EXCEPT !.tries = @ + 1]
      BY <2>4 DEF NeitherAckNorData
    <3>2. CASE snd' = [snd EXCEPT !.tries = @ + 1]
      BY <1>1, <2>1, <3>2 DEF Sender, Sending
    <3> QED
      BY <1>4, <3>1, <3>2
  <2> QED
    BY <2>1, <2>2, <2>3, <2>4
<1>10. CASE SendTimeout
  <2>1. \/ pc' # "send"
        \/ /\ snd.attempt + 1 < Retry
           /\ SendSol([snd EXCEPT !.attempt = @ + 1], snd.buf, toBmc, unanswered)
    BY <1>10 DEF SendTimeout, KeepaliveFailed
  <2>2. ASSUME snd.attempt + 1 < Retry
        PROVE  [snd EXCEPT !.attempt = @ + 1] \in Sending
    <3>1. snd.attempt + 1 \in 0 .. Retry
      BY <1>1, <2>2, Constants DEF Sending
    <3> QED
      BY <1>1, <3>1 DEF Sending
  <2> QED
    BY <1>2, <1>3, <2>1, <2>2 DEF Sender
<1>11. CASE LateAnswer
  <2>1. UNCHANGED <<pc, snd>> \/ Sent(toBmc)
    BY <1>11 DEF LateAnswer
  <2> QED
    BY <1>4, <2>1 DEF Sender
<1> QED
  BY <1>5, <1>6, <1>7, <1>8, <1>9, <1>10, <1>11 DEF Next

LEMMA OutputNext ==
    ASSUME TypeOK, Sender, OutputInv, Next
    PROVE  OutputInv'
<1> SUFFICES ASSUME ~clash'  PROVE OutputParts'
  BY DEF OutputInv, OutputParts
<1>1. ~clash
  BY DEF Next, ipmi_sol_activate, ipmi_sol_deactivate, processSolUserInput, SendEmpty, LoopReceives,
         LoopReceivesNull, SelectFails, SendReceives, SendTimeout, LateAnswer, ipmi_lanplus_keepalive,
         KeepaliveReceives, KeepaliveEnds, BmcPrints, BmcReceives, Lose, histVars
<1>2. OutputParts
  BY <1>1 DEF OutputInv, OutputParts
<1>3. solSeq \in 1 .. MaxSeq + 1 /\ snd \in Sending /\ toBmc \in Seq(Packet)
  BY DEF TypeOK
<1>4. ASSUME NEW s, NEW data \in Seq(Nat), NEW q, NEW n, SendSol(s, data, q, n)
      PROVE  \E d \in Packet : d.seq # 0 /\ toBmc' = Put(q, d)
  BY <1>3, <1>4, DataPacketType DEF SendSol
<1>5. snd.buf \in Seq(Nat) /\ snd.pkt \in Packet /\ <<>> \in Seq(Nat)
  BY <1>3 DEF Sending
<1>6. CASE ipmi_sol_activate
  BY <1>2, <1>6, ActivateKeeps
<1>7. CASE ipmi_sol_deactivate \/ LoopReceivesNull \/ SelectFails \/ ipmi_lanplus_keepalive \/ KeepaliveEnds
  <2>1. UNCHANGED <<bmc, last, toCon, out, dropped, toBmc>>
    BY <1>7 DEF ipmi_sol_deactivate, LoopReceivesNull, SelectFails, ipmi_lanplus_keepalive, KeepaliveEnds,
                netVars, histVars
  <2> QED
    BY <1>2, <2>1, ConsoleSends
<1>8. ASSUME NEW n \in 1 .. Limit + 1, NEW quit \in BOOLEAN, processSolUserInput(n, quit)
      PROVE  OutputParts'
  <2> DEFINE buf == Chars(typed, typed + n)
  <2>1. typed \in Nat /\ typed + n \in Nat /\ typed <= typed + n
    BY Constants DEF TypeOK
  <2>2. buf \in Seq(Nat)
    BY <2>1, CharsType
  <2>3. SendSol([NotSending EXCEPT !.buf = buf, !.quit = quit], buf, toBmc, unanswered)
    BY <1>8 DEF processSolUserInput
  <2>4. UNCHANGED <<bmc, last, toCon, out, dropped>>
    BY <1>8 DEF processSolUserInput, histVars
  <2> QED
    BY <1>2, <1>4, <2>2, <2>3, <2>4, ConsoleSends
<1>9. ASSUME NEW kind, SendEmpty(kind)
      PROVE  OutputParts'
  <2>1. /\ SendSol([NotSending EXCEPT !.kind = kind], <<>>, toBmc, unanswered)
        /\ UNCHANGED <<bmc, last, toCon, out, dropped>>
    BY <1>9 DEF SendEmpty
  <2> QED
    BY <1>2, <1>4, <1>5, <2>1, ConsoleSends
<1>10. CASE LoopReceives \/ KeepaliveReceives
  <2>1. /\ toCon # <<>> /\ toCon' = Tail(toCon) /\ bmc' = bmc /\ last' = Remembered(Head(toCon))
        /\ toBmc' = Acked(toBmc, Head(toCon))
        /\ out' = out \o NewChars(Head(toCon)) /\ dropped' = dropped
    BY <1>10 DEF LoopReceives, KeepaliveReceives, histVars
  <2> QED
    BY <1>2, <2>1, ConsoleReceives
<1>11. CASE SendReceives
  <2> DEFINE p == Head(toCon)
             q == Acked(toBmc, p)
  <2>1. /\ toCon # <<>> /\ toCon' = Tail(toCon) /\ bmc' = bmc /\ last' = Remembered(p)
        /\ PartialAck(p) \/ FullAck(p) \/ DataBeforeAck(p) \/ NeitherAckNorData(p)
    BY <1>11 DEF SendReceives
  <2>2. CASE PartialAck(p)
    <3> DEFINE rest == SubSeq(snd.pkt.data, p.accepted + 1, Length(snd.pkt))
               buf  == rest \o SubSeq(snd.buf, Len(rest) + 1, Len(snd.buf))
    <3>1. /\ out' = out \o NewChars(p) /\ dropped' = dropped
          /\ SendSol([snd EXCEPT !.buf = buf], rest, q, Answered)
      BY <2>2 DEF PartialAck
    <3>2. p \in Packet
      BY <2>1, HeadType
    <3>3. snd.pkt.data \in Seq(Nat) /\ Length(snd.pkt) = Len(snd.pkt.data) /\ p.accepted \in Nat
      BY <1>5, <3>2, PacketParts DEF Length
    <3> HIDE DEF p, q
    <3>4. rest \in Seq(Nat)
      BY <3>3
    <3> HIDE DEF rest, buf
    <3>5. \E d \in Packet : d.seq # 0 /\ toBmc' = Put(q, d)
      BY <1>4, <3>1, <3>4
    <3> QED
      BY <1>2, <2>1, <3>1, <3>5, ConsoleReceives DEF p, q
  <2>3. CASE FullAck(p)
    <3>1. /\ toBmc' = q
          /\ \/ out' = out \o NewChars(p) /\ dropped' = dropped
             \/ out' = out /\ dropped' = dropped \cup Elements(NewChars(p))
      BY <2>3 DEF FullAck, Sent
    <3> QED
      BY <1>2, <2>1, <3>1, ConsoleReceives
  <2>4. CASE DataBeforeAck(p)
    <3>1. toBmc' = q /\ out' = out \o NewChars(p) /\ dropped' = dropped
      BY <2>4 DEF DataBeforeAck, Sent
    <3> QED
      BY <1>2, <2>1, <3>1, ConsoleReceives
  <2>5. CASE NeitherAckNorData(p)
    <3>1. out' = out /\ dropped' = dropped /\ NewLength(p) = 0
      BY <2>5 DEF NeitherAckNorData
    <3>2. snd.pkt.seq # 0
      BY <1>11 DEF SendReceives, Sender
    <3>3. toBmc' = q \/ toBmc' = Put(q, snd.pkt)
      BY <2>5 DEF NeitherAckNorData, Sent
    <3> QED
      BY <1>2, <1>5, <2>1, <3>1, <3>2, <3>3, ConsoleReceives
  <2> QED
    BY <2>1, <2>2, <2>3, <2>4, <2>5
<1>12. CASE SendTimeout
  <2>1. UNCHANGED <<bmc, last, toCon, out, dropped>>
    BY <1>12 DEF SendTimeout
  <2>2. \/ toBmc' = toBmc
        \/ SendSol([snd EXCEPT !.attempt = @ + 1], snd.buf, toBmc, unanswered)
    BY <1>12 DEF SendTimeout
  <2> QED
    BY <1>2, <1>4, <1>5, <2>1, <2>2, ConsoleSends
<1>13. CASE LateAnswer
  <2>1. UNCHANGED <<bmc, last, toCon, out, dropped, toBmc>>
    BY <1>13 DEF LateAnswer, Sent
  <2> QED
    BY <1>2, <2>1, ConsoleSends
<1>14. CASE BmcPrints
  <2>1. BmcSends(bmc, NoPacket) /\ UNCHANGED <<last, out, dropped, toBmc>>
    BY <1>14 DEF BmcPrints, conVars, histVars
  <2>2. NoPacket.seq = 0 /\ NoPacket.data = <<>> /\ NoPacket \in Packet /\ bmc \in Bmc
    BY NoPacketType DEF NoPacket, TypeOK
  <2> QED
    BY <1>2, <2>1, <2>2, BmcSendsKeeps
<1>15. CASE BmcReceives
  BY <1>2, <1>15, BmcReceivesKeeps
<1>16. CASE Lose
  BY <1>2, <1>16, LoseKeeps DEF Lose, conVars, histVars
<1> QED
  BY <1>6, <1>7, <1>8, <1>9, <1>10, <1>11, <1>12, <1>13, <1>14, <1>15, <1>16 DEF Next

-----------------------------------------------------------------------------
LEMMA InvInit == Init => SolInv
<1> SUFFICES ASSUME Init  PROVE SolInv
  OBVIOUS
<1>1. 0 \in Seqs /\ 1 \in 1 .. MaxSeq + 1 /\ 0 \in 0 .. MaxFailures /\ 0 \in 0 .. MaxSeq
      /\ 0 \in Nat /\ <<>> \in Seq(Nat) /\ <<>> \in Seq(Packet)
  BY Constants DEF Seqs
<1>2. ConTypes
  BY <1>1, NotSendingType DEF Init, ConTypes
<1>3. bmc \in Bmc
  BY <1>1 DEF Init, Bmc
<1>4. NetTypes /\ HistTypes
  BY <1>1 DEF Init, NetTypes, HistTypes
<1>5. Sender
  BY DEF Init, Sender
<1>6. Remembers(bmc, last) /\ ~Outstanding(bmc) /\ bmc.acked = 0
  BY DEF Init, Remembers, Outstanding
<1>7. PacketsFor(toCon, bmc, last) /\ AcksFor(toBmc, bmc, last)
  BY DEF Init, PacketsFor, AcksFor
<1>8. Printed(out, dropped, Seen(bmc, last))
  <2>1. Seen(bmc, last) = 0
    BY <1>6 DEF Seen
  <2>2. out = <<>>
    BY DEF Init
  <2> QED
    BY <2>1, <2>2 DEF Printed, Increasing
<1> QED
  BY <1>2, <1>3, <1>4, <1>5, <1>6, <1>7, <1>8, Types DEF SolInv, OutputInv

LEMMA InvNext == SolInv /\ [Next]_vars => SolInv'
<1> SUFFICES ASSUME SolInv, [Next]_vars  PROVE SolInv'
  OBVIOUS
<1>1. CASE Next
  BY <1>1, TypeNext, SenderNext, OutputNext DEF SolInv
<1>2. CASE UNCHANGED vars
  BY <1>2 DEF SolInv, TypeOK, Sender, OutputInv, vars, conVars, netVars, histVars
<1> QED
  BY <1>1, <1>2

LEMMA Invariant == Spec => []SolInv
<1> QED
  BY InvInit, InvNext, PTL DEF Spec

-----------------------------------------------------------------------------
(* In every state the console's side, the packets under way and the BMC's  *)
(* side have the types of TypeOK; no sequence number set by                *)
(* set_sol_packet_sequence_number() leaves 1 .. MaxSeq.                    *)
THEOREM SolTypeCorrect == Spec => []TypeOK
<1>1. SolInv => TypeOK
  BY DEF SolInv
<1> QED
  BY <1>1, Invariant, PTL

(* check_sol_packet_for_new_data() never lets a character through twice or *)
(* out of order, however the BMC repeats its packets with characters added *)
(* and however packets and acknowledgements are lost or overtaken by       *)
(* retries, unless a second activation began with number 1 remembered.     *)
THEOREM OutputPrintedOnce == Spec => []OutputOnce
<1>1. SolInv => OutputOnce
  BY DEF SolInv, OutputInv, Printed, OutputOnce
<1> QED
  BY <1>1, Invariant, PTL

(* What the BMC was told is acknowledged, by ipmi_lanplus_recv_sol() or    *)
(* while ipmi_lanplus_send_payload() waits for its own acknowledgement,    *)
(* is on the terminal, except what came with the answer to a break, to a   *)
(* keepalive or to the last input of a session.                            *)
THEOREM OutputPrintedWhole == Spec => []OutputComplete
<1>1. SolInv => OutputComplete
  <2> SUFFICES ASSUME SolInv, ~clash  PROVE 1 .. bmc.acked \subseteq Elements(out) \cup dropped
    BY DEF OutputComplete
  <2>1. bmc \in Bmc /\ last \in [seq : Seqs, count : Nat]
        /\ 1 .. Seen(bmc, last) \subseteq Elements(out) \cup dropped
    BY DEF SolInv, TypeOK, OutputInv, Printed
  <2>2. bmc.acked \in Nat /\ last.count \in Nat
    BY <2>1 DEF Bmc
  <2>3. Seen(bmc, last) \in Nat /\ bmc.acked <= Seen(bmc, last)
    BY <2>2 DEF Seen
  <2>4. 1 .. bmc.acked \subseteq 1 .. Seen(bmc, last)
    BY <2>2, <2>3
  <2> QED
    BY <2>1, <2>4
<1> QED
  BY <1>1, Invariant, PTL

=============================================================================
