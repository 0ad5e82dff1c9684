----------------------- MODULE LanplusSolInputProofs ------------------------
(***************************************************************************)
(* Proofs about the input of a Serial over LAN session, for every value of *)
(* LanplusSol's constants: what processSolUserInput() hands to             *)
(* ipmi_lanplus_send_sol() reaches the BMC whole, and once.                *)
(***************************************************************************)
EXTENDS LanplusSolProofs

-----------------------------------------------------------------------------
(* The inductive invariant.  Its parts are stated of qb, the packets under *)
(* way to the BMC, qc, those under way to the console, b, the BMC's side,  *)
(* and p, the packet ipmi_lanplus_send_payload() waits for.                *)

(* What is being sent has the number taken last. *)
LastNumber == pc = "send" => snd.pkt.seq = solSeq - 1 /\ solSeq >= 2

(* Behind the packets of p's number there are none of another one. *)
Together(q, p) ==
    \A i \in 1 .. Len(q) : q[i].seq = p.seq =>
       q[i].data = p.data /\ \A j \in i .. Len(q) : q[j].seq \in {0, p.seq}

(* If p has been acknowledged there are none of another one at all. *)
Numbers(qb, qc, b, p) ==
    /\ Together(qb, p)
    /\ \A i \in 1 .. Len(qc) : qc[i].ack = p.seq =>
          /\ b.inSeq = p.seq /\ qc[i].accepted = b.inAccepted
          /\ \A j \in 1 .. Len(qb) : qb[j].seq \in {0, p.seq}
          /\ \A j \in i .. Len(qc) : qc[j].ack \in {0, p.seq}

NumbersInv == (~reused /\ pc = "send") => Numbers(toBmc, toCon, bmc, snd.pkt)

(* How many numbers ago n was taken, c being the last one. *)
Age(n, c) == IF n <= c THEN c - n ELSE c - n + MaxSeq

Ages(qb, qc, b, c, w) ==
    /\ \A i \in 1 .. Len(qb) : qb[i].seq # 0 => Age(qb[i].seq, c) <= w
    /\ \A i \in 1 .. Len(qc) : qc[i].ack # 0 => Age(qc[i].ack, c) <= w
    /\ b.inSeq # 0 => Age(b.inSeq, c) <= w

(* Every send ended acknowledged or was tried again, and no round of       *)
(* numbers went unanswered.                                                *)
Kept == ~presumed /\ unanswered < MaxSeq

AgesInv == Kept => ~reused /\ Ages(toBmc, toCon, bmc, solSeq - 1, unanswered)

(* Every character there is was typed. *)
UpTo(s, n) == \A i \in 1 .. Len(s) : s[i] \in 1 .. n

ValuesInv ==
    /\ UpTo(bmc.got, typed)
    /\ \A i \in 1 .. Len(toBmc) : toBmc[i].seq # 0 => UpTo(toBmc[i].data, typed)
    /\ pc = "send" => /\ UpTo(snd.buf, typed) /\ Elements(snd.pkt.data) \subseteq Elements(snd.buf)
                      /\ snd.kind # "input" => Elements(snd.buf) = {}

(* What was typed up to n has arrived or is in p; what the BMC accepted of *)
(* p has arrived.                                                          *)
Whole(b, p, n) ==
    /\ 1 .. n \subseteq Elements(b.got) \cup Elements(p.data)
    /\ b.inSeq = p.seq =>
          b.inAccepted <= Length(p) /\ \A i \in 1 .. b.inAccepted : p.data[i] \in Elements(b.got)

WholeInv ==
    Kept =>
       /\ pc \in {"idle", "loop", "keepalive"} => 1 .. typed \subseteq Elements(bmc.got)
       /\ pc = "send" => Whole(bmc, snd.pkt, typed)

(* The BMC will take the first j packets for repetitions. *)
Repeated(q, b, j) == \A i \in 1 .. j : q[i].seq \in {0, b.inSeq}

Below(s, t) == \A i \in 1 .. Len(s), j \in 1 .. Len(t) : s[i] < t[j]

(* Packets the BMC will not take for repetitions carry what it has not     *)
(* got, in order; those of one number stand together.                      *)
InOrder(q, b) ==
    /\ Increasing(b.got)
    /\ \A i \in 1 .. Len(q) : q[i].seq # 0 => Increasing(q[i].data)
    /\ \A i \in 1 .. Len(q) : (q[i].seq # 0 /\ ~Repeated(q, b, i)) => Below(b.got, q[i].data)
    /\ \A i, j \in 1 .. Len(q) :
          (i < j /\ q[i].seq # 0 /\ q[j].seq # 0 /\ q[i].seq # q[j].seq /\ ~Repeated(q, b, i)) =>
             Below(q[i].data, q[j].data)
    /\ \A i, j, k \in 1 .. Len(q) :
          (i < k /\ k < j /\ q[i].seq # 0 /\ q[i].seq = q[j].seq) => q[k].seq \in {0, q[i].seq}

(* This would stay so if p were sent again, and what the BMC has not       *)
(* accepted of p it has not got.                                           *)
MaySendAgain(q, b, p) ==
    /\ Increasing(p.data)
    /\ \A i \in 1 .. Len(q) :
          (q[i].seq \notin {0, p.seq} /\ ~Repeated(q, b, i)) => Below(q[i].data, p.data)
    /\ Below(b.got, p.data) \/ (Repeated(q, b, Len(q)) /\ b.inSeq = p.seq)
    /\ b.inSeq = p.seq =>
          \A i \in b.inAccepted + 1 .. Length(p), j \in 1 .. Len(b.got) : b.got[j] < p.data[i]

OnceInv ==
    (~resent /\ ~reused) =>
       InOrder(toBmc, bmc) /\ (pc = "send" => MaySendAgain(toBmc, bmc, snd.pkt))

InputInv == TypeOK /\ LastNumber /\ NumbersInv /\ AgesInv /\ ValuesInv /\ WholeInv /\ OnceInv

-----------------------------------------------------------------------------
(* What happens to a channel: r is q, longer by a packet or shorter by the *)
(* first one.                                                              *)

IsAppend(r, q, p) ==
    Len(r) = Len(q) + 1 /\ r[Len(q) + 1] = p /\ \A i \in 1 .. Len(q) : r[i] = q[i]

IsTail(r, q) ==
    /\ Len(q) \in Nat \ {0} /\ Len(r) = Len(q) - 1
    /\ \A i \in 1 .. Len(r) : r[i] = q[i + 1] /\ i + 1 \in 1 .. Len(q)

(* With p put in it, with an acknowledgement put in it, or with the first  *)
(* packet gone; or as it was.                                              *)
With(r, q, p) == r = q \/ IsAppend(r, q, p)
WithAck(r, q) == r = q \/ \E z \in Packet : z.seq = 0 /\ IsAppend(r, q, z)
Shorter(r, q) == r = q \/ IsTail(r, q)

(* What the BMC's side keeps about the input. *)
SameInput(b, c) == c.inSeq = b.inSeq /\ c.inAccepted = b.inAccepted /\ c.got = b.got

LEMMA PutWith ==
    ASSUME NEW q \in Seq(Packet), NEW p \in Packet, NEW r, r = Put(q, p) \/ r = PutToCon(q, p)
    PROVE  With(r, q, p)
BY PutForm DEF With, IsAppend

LEMMA AckedWith ==
    ASSUME NEW q \in Seq(Packet), NEW p \in Packet
    PROVE  WithAck(Acked(q, p), q)
<1>1. CASE p.seq = 0
  BY <1>1 DEF Acked, WithAck
<1>2. CASE p.seq # 0
  <2>1. Acked(q, p) = Put(q, AckOf(p))
    BY <1>2 DEF Acked, AckOf
  <2>2. AckOf(p) \in Packet /\ AckOf(p).seq = 0
    BY AckType
  <2>3. With(Acked(q, p), q, AckOf(p))
    BY <2>1, <2>2, PutWith
  <2> QED
    BY <2>2, <2>3 DEF With, WithAck
<1> QED
  BY <1>1, <1>2

LEMMA TailShorter ==
    ASSUME NEW q \in Seq(Packet), q # <<>>
    PROVE  IsTail(Tail(q), q) /\ Shorter(Tail(q), q)
BY TailOf DEF IsTail, Shorter

-----------------------------------------------------------------------------
(* The numbers of the packets under way. *)

LEMMA LenNat ==
    ASSUME NEW q \in Seq(Packet)
    PROVE  Len(q) \in Nat
OBVIOUS

LEMMA NumbersShorter ==
    ASSUME NEW qb \in Seq(Packet), NEW rb \in Seq(Packet), NEW qc \in Seq(Packet),
           NEW rc \in Seq(Packet), NEW b, NEW p, Shorter(rb, qb), Shorter(rc, qc),
           Numbers(qb, qc, b, p)
    PROVE  Numbers(rb, rc, b, p)
<1>1. Numbers(rb, qc, b, p)
  <2>1. CASE rb = qb
    BY <2>1
  <2>2. CASE IsTail(rb, qb)
    <3>1. ASSUME NEW i \in 1 .. Len(rb), rb[i].seq = p.seq
          PROVE  rb[i].data = p.data /\ \A j \in i .. Len(rb) : rb[j].seq \in {0, p.seq}
      <4>1. i + 1 \in 1 .. Len(qb) /\ qb[i + 1] = rb[i]
        BY <2>2 DEF IsTail
      <4>2. qb[i + 1].data = p.data /\ \A j \in i + 1 .. Len(qb) : qb[j].seq \in {0, p.seq}
        BY <3>1, <4>1 DEF Numbers, Together
      <4>3. ASSUME NEW j \in i .. Len(rb)
            PROVE  rb[j].seq \in {0, p.seq}
        <5>1. j \in 1 .. Len(rb) /\ j + 1 \in i + 1 .. Len(qb)
          BY <2>2, LenNat DEF IsTail
        <5> QED
          BY <2>2, <4>2, <5>1 DEF IsTail
      <4> QED
        BY <4>1, <4>2, <4>3
    <3>2. ASSUME NEW S, \A j \in 1 .. Len(qb) : qb[j].seq \in S
          PROVE  \A j \in 1 .. Len(rb) : rb[j].seq \in S
      BY <2>2, <3>2 DEF IsTail
    <3> QED
      BY <3>1, <3>2 DEF Numbers, Together
  <2> QED
    BY <2>1, <2>2 DEF Shorter
<1>2. CASE rc = qc
  BY <1>1, <1>2
<1>3. CASE IsTail(rc, qc)
  <2>1. ASSUME NEW i \in 1 .. Len(rc), rc[i].ack = p.seq
        PROVE  /\ b.inSeq = p.seq /\ rc[i].accepted = b.inAccepted
               /\ \A j \in 1 .. Len(rb) : rb[j].seq \in {0, p.seq}
               /\ \A j \in i .. Len(rc) : rc[j].ack \in {0, p.seq}
    <3>1. i + 1 \in 1 .. Len(qc) /\ qc[i + 1] = rc[i]
      BY <1>3 DEF IsTail
    <3>2. /\ b.inSeq = p.seq /\ qc[i + 1].accepted = b.inAccepted
          /\ \A j \in 1 .. Len(rb) : rb[j].seq \in {0, p.seq}
          /\ \A j \in i + 1 .. Len(qc) : qc[j].ack \in {0, p.seq}
      BY <1>1, <2>1, <3>1 DEF Numbers, Together
    <3>3. ASSUME NEW j \in i .. Len(rc)
          PROVE  rc[j].ack \in {0, p.seq}
      <4>1. j \in 1 .. Len(rc) /\ j + 1 \in i + 1 .. Len(qc)
        BY <1>3, LenNat DEF IsTail
      <4> QED
        BY <1>3, <3>2, <4>1 DEF IsTail
    <3> QED
      BY <3>1, <3>2, <3>3
  <2> QED
    BY <1>1, <2>1 DEF Numbers, Together
<1> QED
  BY <1>2, <1>3 DEF Shorter

(* A packet of the same number, or an acknowledgement, is put in. *)
LEMMA NumbersAppend ==
    ASSUME NEW qb \in Seq(Packet), NEW rb \in Seq(Packet), NEW qc, NEW b, NEW p, NEW z,
           IsAppend(rb, qb, z), z.seq = 0 \/ z = p, p.seq # 0, Numbers(qb, qc, b, p)
    PROVE  Numbers(rb, qc, b, p)
<1> DEFINE n == Len(qb)
<1>1. n \in Nat /\ Len(rb) = n + 1 /\ rb[n + 1] = z /\ \A i \in 1 .. n : rb[i] = qb[i]
  BY DEF IsAppend
<1>2. \A i \in 1 .. n + 1 : i \in 1 .. n \/ i = n + 1
  BY <1>1
<1>3. z.seq \in {0, p.seq}
  OBVIOUS
<1>4. ASSUME NEW i \in 1 .. Len(rb), rb[i].seq = p.seq
      PROVE  rb[i].data = p.data /\ \A j \in i .. Len(rb) : rb[j].seq \in {0, p.seq}
  <2>1. CASE i = n + 1
    <3>1. \A j \in i .. Len(rb) : j = n + 1
      BY <1>1, <2>1
    <3>2. z = p
      BY <1>1, <1>4, <2>1
    <3> QED
      BY <1>1, <2>1, <3>1, <3>2
  <2>2. CASE i \in 1 .. n
    <3>1. qb[i].data = p.data /\ \A j \in i .. n : qb[j].seq \in {0, p.seq}
      BY <1>1, <1>4, <2>2 DEF Numbers, Together
    <3>2. \A j \in i .. n + 1 : (j \in i .. n /\ j \in 1 .. n) \/ j = n + 1
      BY <1>1, <2>2
    <3> QED
      BY <1>1, <1>3, <2>2, <3>1, <3>2
  <2> QED
    BY <1>1, <1>2, <2>1, <2>2
<1>5. ASSUME \A j \in 1 .. n : qb[j].seq \in {0, p.seq}
      PROVE  \A j \in 1 .. Len(rb) : rb[j].seq \in {0, p.seq}
  BY <1>1, <1>2, <1>3, <1>5
<1> QED
  BY <1>4, <1>5 DEF Numbers, Together

(* The BMC sends a packet. *)
LEMMA NumbersAnswer ==
    ASSUME NEW qb, NEW qc \in Seq(Packet), NEW rc \in Seq(Packet), NEW b, NEW p, NEW z,
           With(rc, qc, z), Numbers(qb, qc, b, p), p.seq # 0,
           z.ack = p.seq => /\ b.inSeq = p.seq /\ z.accepted = b.inAccepted
                            /\ \A j \in 1 .. Len(qb) : qb[j].seq \in {0, p.seq},
           z.ack \in {0, p.seq} \/ \A i \in 1 .. Len(qc) : qc[i].ack # p.seq
    PROVE  Numbers(qb, rc, b, p)
<1>1. CASE rc = qc
  BY <1>1
<1>2. CASE IsAppend(rc, qc, z)
  <2> DEFINE n == Len(qc)
  <2>1. n \in Nat /\ Len(rc) = n + 1 /\ rc[n + 1] = z /\ \A i \in 1 .. n : rc[i] = qc[i]
    BY <1>2 DEF IsAppend
  <2>2. \A i \in 1 .. n + 1 : i \in 1 .. n \/ i = n + 1
    BY <2>1
  <2>3. ASSUME NEW i \in 1 .. Len(rc), rc[i].ack = p.seq
        PROVE  /\ b.inSeq = p.seq /\ rc[i].accepted = b.inAccepted
               /\ \A j \in 1 .. Len(qb) : qb[j].seq \in {0, p.seq}
               /\ \A j \in i .. Len(rc) : rc[j].ack \in {0, p.seq}
    <3>1. CASE i = n + 1
      <4>1. \A j \in i .. Len(rc) : j = n + 1
        BY <2>1, <3>1
      <4>2. z.ack = p.seq
        BY <2>1, <2>3, <3>1
      <4> QED
        BY <2>1, <3>1, <4>1, <4>2
    <3>2. CASE i \in 1 .. n
      <4>1. qc[i] = rc[i]
        BY <2>1, <3>2
      <4>2. /\ b.inSeq = p.seq /\ qc[i].accepted = b.inAccepted
            /\ \A j \in 1 .. Len(qb) : qb[j].seq \in {0, p.seq}
            /\ \A j \in i .. n : qc[j].ack \in {0, p.seq}
        BY <2>3, <3>2, <4>1 DEF Numbers, Together
      <4>3. z.ack \in {0, p.seq}
        BY <2>3, <3>2, <4>1
      <4>4. \A j \in i .. n + 1 : (j \in i .. n /\ j \in 1 .. n) \/ j = n + 1
        BY <2>1, <3>2
      <4>5. \A j \in i .. Len(rc) : rc[j].ack \in {0, p.seq}
        BY <2>1, <4>2, <4>3, <4>4
      <4> QED
        BY <4>1, <4>2, <4>5
    <3> QED
      BY <2>1, <2>2, <3>1, <3>2
  <2> QED
    BY <2>3 DEF Numbers, Together
<1> QED
  BY <1>1, <1>2 DEF With

(* The BMC has taken a packet, d being its state behind it. *)
Takes(b, d, p) ==
    \/ p.seq = b.inSeq /\ SameInput(b, d)
    \/ /\ p.seq # b.inSeq
       /\ d.inSeq = p.seq /\ d.inAccepted \in 0 .. Length(p)
       /\ d.got = b.got \o SubSeq(p.data, 1, d.inAccepted)

LEMMA NumbersTake ==
    ASSUME NEW qb \in Seq(Packet), NEW rb \in Seq(Packet), NEW qc \in Seq(Packet),
           NEW rc \in Seq(Packet), NEW b, NEW d, NEW p, NEW z,
           IsTail(rb, qb), qb[1].seq # 0, Takes(b, d, qb[1]), With(rc, qc, z),
           z.ack = qb[1].seq, z.accepted = d.inAccepted, p.seq # 0, Numbers(qb, qc, b, p)
    PROVE  Numbers(rb, rc, d, p)
<1>1. 1 \in 1 .. Len(qb) /\ Len(qb) \in Nat
  BY DEF IsTail
<1>2. Numbers(rb, qc, b, p)
  BY NumbersShorter DEF Shorter
<1>3. d.inSeq = qb[1].seq
  BY DEF Takes, SameInput
<1>4. Numbers(rb, qc, d, p)
  <2>1. CASE SameInput(b, d)
    BY <1>2, <2>1 DEF SameInput, Numbers
  <2>2. CASE qb[1].seq # b.inSeq
    <3>1. ASSUME NEW i \in 1 .. Len(qc), qc[i].ack = p.seq
          PROVE  FALSE
      BY <1>1, <2>2, <3>1 DEF Numbers, Together
    <3> QED
      BY <1>2, <3>1 DEF Numbers, Together
  <2> QED
    BY <2>1, <2>2 DEF Takes
<1>5. qb[1].seq = p.seq => \A j \in 1 .. Len(rb) : rb[j].seq \in {0, p.seq}
  <2> SUFFICES ASSUME qb[1].seq = p.seq, NEW j \in 1 .. Len(rb)
               PROVE  rb[j].seq \in {0, p.seq}
    OBVIOUS
  <2>1. j + 1 \in 1 .. Len(qb) /\ rb[j] = qb[j + 1]
    BY DEF IsTail
  <2> QED
    BY <1>1, <2>1 DEF Numbers, Together
<1>6. z.ack \in {0, p.seq} \/ \A i \in 1 .. Len(qc) : qc[i].ack # p.seq
  BY <1>1 DEF Numbers, Together
<1> QED
  BY <1>3, <1>4, <1>5, <1>6, NumbersAnswer

(* A packet with a number that is not under way is sent. *)
LEMMA NumbersNew ==
    ASSUME NEW qb \in Seq(Packet), NEW rb \in Seq(Packet), NEW qc \in Seq(Packet), NEW b, NEW p,
           With(rb, qb, p), p.seq # 0,
           \A i \in 1 .. Len(qb) : qb[i].seq # p.seq, \A i \in 1 .. Len(qc) : qc[i].ack # p.seq
    PROVE  Numbers(rb, qc, b, p)
<1>1. Numbers(qb, qc, b, p)
  BY DEF Numbers, Together
<1> QED
  BY <1>1, NumbersAppend DEF With

-----------------------------------------------------------------------------
(* Their ages. *)

(* The number behind c. *)
After1(c) == IF c + 1 > MaxSeq THEN 1 ELSE c + 1

LEMMA AgeNext ==
    ASSUME NEW n \in 1 .. MaxSeq, NEW c \in 0 .. MaxSeq, NEW w \in Nat, w + 1 < MaxSeq,
           Age(n, c) <= w
    PROVE  n # After1(c) /\ Age(n, After1(c)) <= w + 1
BY Constants DEF Age, After1

LEMMA AgeSame ==
    ASSUME NEW n \in 1 .. MaxSeq
    PROVE  Age(n, n) = 0
BY Constants DEF Age

LEMMA SeqParts ==
    ASSUME NEW n \in Seqs, n # 0
    PROVE  n \in 1 .. MaxSeq
BY Constants DEF Seqs

LEMMA AgesShorter ==
    ASSUME NEW qb \in Seq(Packet), NEW rb \in Seq(Packet), NEW qc \in Seq(Packet),
           NEW rc \in Seq(Packet), NEW b, NEW c, NEW w, Shorter(rb, qb), Shorter(rc, qc),
           Ages(qb, qc, b, c, w)
    PROVE  Ages(rb, rc, b, c, w)
<1>1. \A i \in 1 .. Len(rb) : rb[i].seq # 0 => Age(rb[i].seq, c) <= w
  BY DEF Shorter, IsTail, Ages
<1>2. \A i \in 1 .. Len(rc) : rc[i].ack # 0 => Age(rc[i].ack, c) <= w
  BY DEF Shorter, IsTail, Ages
<1> QED
  BY <1>1, <1>2 DEF Ages

LEMMA AgesAppend ==
    ASSUME NEW qb \in Seq(Packet), NEW rb \in Seq(Packet), NEW qc, NEW b, NEW c, NEW w, NEW z,
           IsAppend(rb, qb, z), z.seq # 0 => Age(z.seq, c) <= w, Ages(qb, qc, b, c, w)
    PROVE  Ages(rb, qc, b, c, w)
<1>1. \A i \in 1 .. Len(rb) : i \in 1 .. Len(qb) \/ i = Len(qb) + 1
  BY LenNat DEF IsAppend
<1>2. \A i \in 1 .. Len(rb) : rb[i].seq # 0 => Age(rb[i].seq, c) <= w
  BY <1>1 DEF IsAppend, Ages
<1> QED
  BY <1>2 DEF Ages

LEMMA AgesAnswer ==
    ASSUME NEW qb, NEW qc \in Seq(Packet), NEW rc \in Seq(Packet), NEW b, NEW c, NEW w, NEW z,
           With(rc, qc, z), z.ack # 0 => Age(z.ack, c) <= w, Ages(qb, qc, b, c, w)
    PROVE  Ages(qb, rc, b, c, w)
<1>1. CASE rc = qc
  BY <1>1
<1>2. CASE IsAppend(rc, qc, z)
  <2>1. \A i \in 1 .. Len(rc) : i \in 1 .. Len(qc) \/ i = Len(qc) + 1
    BY <1>2, LenNat DEF IsAppend
  <2>2. \A i \in 1 .. Len(rc) : rc[i].ack # 0 => Age(rc[i].ack, c) <= w
    BY <1>2, <2>1 DEF IsAppend, Ages
  <2> QED
    BY <2>2 DEF Ages
<1> QED
  BY <1>1, <1>2 DEF With

LEMMA AgesTake ==
    ASSUME NEW qb \in Seq(Packet), NEW rb \in Seq(Packet), NEW qc \in Seq(Packet),
           NEW rc \in Seq(Packet), NEW b, NEW d, NEW c, NEW w, NEW z,
           IsTail(rb, qb), qb[1].seq # 0, Takes(b, d, qb[1]), With(rc, qc, z),
           z.ack = qb[1].seq, Ages(qb, qc, b, c, w)
    PROVE  Ages(rb, rc, d, c, w)
<1>1. 1 \in 1 .. Len(qb) /\ d.inSeq = qb[1].seq
  BY DEF IsTail, Takes, SameInput
<1>2. Age(qb[1].seq, c) <= w
  BY <1>1 DEF Ages
<1>3. Ages(rb, qc, b, c, w)
  BY AgesShorter DEF Shorter
<1>4. Ages(rb, qc, d, c, w)
  BY <1>1, <1>2, <1>3 DEF Ages
<1> QED
  BY <1>2, <1>4, AgesAnswer

(* Another number is taken: none of it is under way, nor the BMC's last. *)
LEMMA AgesNew ==
    ASSUME NEW qb \in Seq(Packet), NEW rb \in Seq(Packet), NEW qc \in Seq(Packet), NEW b \in Bmc,
           NEW c \in 0 .. MaxSeq, NEW w \in Nat, w + 1 < MaxSeq, NEW p,
           With(rb, qb, p), p.seq = After1(c), Ages(qb, qc, b, c, w)
    PROVE  /\ Ages(rb, qc, b, After1(c), w + 1)
           /\ \A i \in 1 .. Len(qb) : qb[i].seq # p.seq
           /\ \A i \in 1 .. Len(qc) : qc[i].ack # p.seq
           /\ b.inSeq # p.seq
<1> DEFINE e == After1(c)
<1>1. e \in 1 .. MaxSeq
  BY Constants DEF After1
<1>2. ASSUME NEW n \in Seqs, n # 0 => Age(n, c) <= w
      PROVE  n # e /\ (n # 0 => Age(n, e) <= w + 1)
  BY <1>1, <1>2, AgeNext, SeqParts
<1>3. \A i \in 1 .. Len(qb) : qb[i] \in Packet /\ qb[i].seq \in Seqs
  BY PacketParts
<1>4. \A i \in 1 .. Len(qc) : qc[i] \in Packet /\ qc[i].ack \in Seqs
  BY PacketParts
<1>5. b.inSeq \in Seqs
  BY BmcParts
<1> HIDE DEF e
<1>6. /\ \A i \in 1 .. Len(qb) : qb[i].seq # e /\ (qb[i].seq # 0 => Age(qb[i].seq, e) <= w + 1)
      /\ \A i \in 1 .. Len(qc) : qc[i].ack # e /\ (qc[i].ack # 0 => Age(qc[i].ack, e) <= w + 1)
      /\ b.inSeq # e /\ (b.inSeq # 0 => Age(b.inSeq, e) <= w + 1)
  BY <1>2, <1>3, <1>4, <1>5 DEF Ages
<1>7. Ages(qb, qc, b, e, w + 1)
  BY <1>6 DEF Ages
<1>8. Age(e, e) <= w + 1
  BY <1>1, AgeSame
<1>9. Ages(rb, qc, b, e, w + 1)
  <2>1. p.seq = e
    BY DEF e
  <2> QED
    BY <1>7, <1>8, <2>1, AgesAppend DEF With
<1> QED
  BY <1>6, <1>9 DEF e

(* Once p is acknowledged its number is the only one. *)
LEMMA AgesAcknowledged ==
    ASSUME NEW qb \in Seq(Packet), NEW qc \in Seq(Packet), qc # <<>>, NEW b, NEW p,
           p.seq \in 1 .. MaxSeq, qc[1].ack = p.seq, Numbers(qb, qc, b, p), NEW w \in Nat
    PROVE  Ages(qb, qc, b, p.seq, w) /\ b.inSeq = p.seq /\ qc[1].accepted = b.inAccepted
<1>1. 1 \in 1 .. Len(qc) /\ Len(qc) \in Nat
  OBVIOUS
<1>2. /\ b.inSeq = p.seq /\ qc[1].accepted = b.inAccepted
      /\ \A j \in 1 .. Len(qb) : qb[j].seq \in {0, p.seq}
      /\ \A j \in 1 .. Len(qc) : qc[j].ack \in {0, p.seq}
  BY <1>1 DEF Numbers, Together
<1>3. Age(p.seq, p.seq) <= w
  BY AgeSame
<1> QED
  BY <1>2, <1>3 DEF Ages

-----------------------------------------------------------------------------
(* The order of their characters. *)

LEMMA RepeatedTail ==
    ASSUME NEW q \in Seq(Packet), NEW r \in Seq(Packet), IsTail(r, q), NEW b,
           NEW j \in 1 .. Len(r), Repeated(q, b, j + 1)
    PROVE  Repeated(r, b, j)
<1> SUFFICES ASSUME NEW i \in 1 .. j  PROVE r[i].seq \in {0, b.inSeq}
  BY DEF Repeated
<1>1. i \in 1 .. Len(r) /\ i + 1 \in 1 .. j + 1
  BY LenNat
<1> QED
  BY <1>1 DEF IsTail, Repeated

LEMMA RepeatedAllTail ==
    ASSUME NEW q \in Seq(Packet), NEW r \in Seq(Packet), IsTail(r, q), NEW b,
           Repeated(q, b, Len(q))
    PROVE  Repeated(r, b, Len(r))
<1> SUFFICES ASSUME NEW i \in 1 .. Len(r)  PROVE r[i].seq \in {0, b.inSeq}
  BY DEF Repeated
<1>1. i + 1 \in 1 .. Len(q) /\ r[i] = q[i + 1]
  BY DEF IsTail
<1> QED
  BY <1>1 DEF Repeated

LEMMA RepeatedAppend ==
    ASSUME NEW q \in Seq(Packet), NEW r \in Seq(Packet), NEW z, IsAppend(r, q, z), NEW b
    PROVE  /\ \A j \in 1 .. Len(q) : Repeated(r, b, j) <=> Repeated(q, b, j)
           /\ Repeated(q, b, Len(q)) /\ z.seq \in {0, b.inSeq} => Repeated(r, b, Len(r))
           /\ Repeated(r, b, Len(r)) => Repeated(q, b, Len(q))
<1>1. Len(q) \in Nat /\ Len(r) = Len(q) + 1 /\ \A i \in 1 .. Len(q) : r[i] = q[i]
  BY LenNat DEF IsAppend
<1>2. ASSUME NEW j \in 1 .. Len(q)
      PROVE  Repeated(r, b, j) <=> Repeated(q, b, j)
  <2>1. \A i \in 1 .. j : i \in 1 .. Len(q)
    BY <1>1
  <2> QED
    BY <1>1, <2>1 DEF Repeated
<1>3. \A i \in 1 .. Len(r) : i \in 1 .. Len(q) \/ i = Len(q) + 1
  BY <1>1
<1>4. \A i \in 1 .. Len(q) : i \in 1 .. Len(r)
  BY <1>1
<1> QED
  BY <1>1, <1>2, <1>3, <1>4 DEF Repeated, IsAppend

LEMMA OrderShorter ==
    ASSUME NEW q \in Seq(Packet), NEW r \in Seq(Packet), NEW b, Shorter(r, q), InOrder(q, b)
    PROVE  InOrder(r, b) /\ \A p : MaySendAgain(q, b, p) => MaySendAgain(r, b, p)
<1>1. CASE r = q
  BY <1>1
<1>2. CASE IsTail(r, q)
  <2>1. \A i \in 1 .. Len(r) : r[i] = q[i + 1] /\ i + 1 \in 1 .. Len(q) /\ i \in Nat
    BY <1>2 DEF IsTail
  <2>2. \A i \in 1 .. Len(r) : ~Repeated(r, b, i) => ~Repeated(q, b, i + 1)
    BY <1>2, RepeatedTail
  <2>3. \A i \in 1 .. Len(r) : r[i].seq # 0 => Increasing(r[i].data)
    BY <2>1 DEF InOrder
  <2>4. \A i \in 1 .. Len(r) : (r[i].seq # 0 /\ ~Repeated(r, b, i)) => Below(b.got, r[i].data)
    BY <2>1, <2>2 DEF InOrder
  <2>5. ASSUME NEW i \in 1 .. Len(r), NEW j \in 1 .. Len(r), i < j, r[i].seq # 0, r[j].seq # 0,
               r[i].seq # r[j].seq, ~Repeated(r, b, i)
        PROVE  Below(r[i].data, r[j].data)
    <3>1. i + 1 < j + 1
      BY <2>5
    <3>2. /\ i + 1 \in 1 .. Len(q) /\ j + 1 \in 1 .. Len(q)
          /\ r[i] = q[i + 1] /\ r[j] = q[j + 1]
      BY <2>1
    <3>3. ~Repeated(q, b, i + 1)
      BY <2>2, <2>5
    <3>4. q[i + 1].seq # 0 /\ q[j + 1].seq # 0 /\ q[i + 1].seq # q[j + 1].seq
      BY <2>5, <3>2
    <3>5. Below(q[i + 1].data, q[j + 1].data)
      <4> HIDE <2>1
      <4> QED
        BY <3>1, <3>2, <3>3, <3>4 DEF InOrder
    <3> QED
      BY <3>2, <3>5
  <2>6. ASSUME NEW i \in 1 .. Len(r), NEW j \in 1 .. Len(r), NEW k \in 1 .. Len(r), i < k, k < j,
               r[i].seq # 0, r[i].seq = r[j].seq
        PROVE  r[k].seq \in {0, r[i].seq}
    <3>1. i + 1 < k + 1 /\ k + 1 < j + 1
      BY <2>6
    <3>2. /\ i + 1 \in 1 .. Len(q) /\ j + 1 \in 1 .. Len(q) /\ k + 1 \in 1 .. Len(q)
          /\ r[i] = q[i + 1] /\ r[j] = q[j + 1] /\ r[k] = q[k + 1]
      BY <2>1
    <3>3. q[k + 1].seq \in {0, q[i + 1].seq}
      <4>1. q[i + 1].seq # 0 /\ q[i + 1].seq = q[j + 1].seq
        BY <2>6, <3>2
      <4> HIDE <2>1
      <4> QED
        BY <3>1, <3>2, <4>1 DEF InOrder
    <3> QED
      BY <3>2, <3>3
  <2>7. InOrder(r, b)
    BY <2>3, <2>4, <2>5, <2>6 DEF InOrder
  <2>8. ASSUME NEW p, MaySendAgain(q, b, p)
        PROVE  MaySendAgain(r, b, p)
    <3>1. \A i \in 1 .. Len(r) :
             (r[i].seq \notin {0, p.seq} /\ ~Repeated(r, b, i)) => Below(r[i].data, p.data)
      BY <2>1, <2>2, <2>8 DEF MaySendAgain
    <3>2. Below(b.got, p.data) \/ (Repeated(r, b, Len(r)) /\ b.inSeq = p.seq)
      BY <1>2, <2>8, RepeatedAllTail DEF MaySendAgain
    <3> QED
      BY <2>8, <3>1, <3>2 DEF MaySendAgain
  <2> QED
    BY <2>7, <2>8
<1> QED
  BY <1>1, <1>2 DEF Shorter

(* What may be put in behind the packets of q. *)
Fits(q, b, z) ==
    z.seq # 0 =>
       MaySendAgain(q, b, z) /\ Together(q, z)

LEMMA OrderAppend ==
    ASSUME NEW q \in Seq(Packet), NEW r \in Seq(Packet), NEW b, NEW z, IsAppend(r, q, z),
           Fits(q, b, z), InOrder(q, b)
    PROVE  InOrder(r, b)
<1> DEFINE n == Len(q)
<1>1. n \in Nat /\ Len(r) = n + 1 /\ r[n + 1] = z /\ \A i \in 1 .. n : r[i] = q[i]
  BY LenNat DEF IsAppend
<1>2. \A i \in 1 .. Len(r) : i \in 1 .. n \/ i = n + 1
  BY <1>1
<1>3. /\ \A j \in 1 .. n : Repeated(r, b, j) <=> Repeated(q, b, j)
      /\ Repeated(q, b, n) /\ z.seq \in {0, b.inSeq} => Repeated(r, b, n + 1)
  BY <1>1, RepeatedAppend
<1> HIDE DEF n
<1>4. \A i \in 1 .. Len(r) : r[i].seq # 0 => Increasing(r[i].data)
  BY <1>1, <1>2 DEF InOrder, Fits, MaySendAgain, n
<1>5. ASSUME NEW i \in 1 .. Len(r), r[i].seq # 0, ~Repeated(r, b, i)
      PROVE  Below(b.got, r[i].data)
  <2>1. CASE i \in 1 .. n
    BY <1>1, <1>3, <1>5, <2>1 DEF InOrder, n
  <2>2. CASE i = n + 1
    <3>1. z.seq # 0 /\ MaySendAgain(q, b, z)
      BY <1>1, <1>5, <2>2 DEF Fits
    <3>2. Below(b.got, z.data)
      BY <1>3, <1>5, <2>2, <3>1 DEF MaySendAgain, n
    <3> QED
      BY <1>1, <2>2, <3>2
  <2> QED
    BY <1>2, <2>1, <2>2
<1>6. ASSUME NEW i \in 1 .. Len(r), NEW j \in 1 .. Len(r), i < j, r[i].seq # 0, r[j].seq # 0,
             r[i].seq # r[j].seq, ~Repeated(r, b, i)
      PROVE  Below(r[i].data, r[j].data)
  <2>1. i \in 1 .. n
    BY <1>1, <1>6
  <2>2. CASE j \in 1 .. n
    BY <1>1, <1>3, <1>6, <2>1, <2>2 DEF InOrder, n
  <2>3. CASE j = n + 1
    <3>1. z.seq # 0 /\ MaySendAgain(q, b, z) /\ r[j] = z
      BY <1>1, <1>6, <2>3 DEF Fits
    <3>2. q[i].seq \notin {0, z.seq} /\ ~Repeated(q, b, i) /\ q[i] = r[i]
      BY <1>1, <1>3, <1>6, <2>1, <3>1
    <3> QED
      BY <2>1, <3>1, <3>2 DEF MaySendAgain, n
  <2> QED
    BY <1>2, <2>2, <2>3
<1>7. ASSUME NEW i \in 1 .. Len(r), NEW j \in 1 .. Len(r), NEW k \in 1 .. Len(r), i < k, k < j,
             r[i].seq # 0, r[i].seq = r[j].seq
      PROVE  r[k].seq \in {0, r[i].seq}
  <2>1. i \in 1 .. n /\ k \in 1 .. n /\ k \in i .. n
    BY <1>1, <1>7
  <2>2. CASE j \in 1 .. n
    BY <1>1, <1>7, <2>1, <2>2 DEF InOrder, n
  <2>3. CASE j = n + 1
    <3>1. z.seq # 0 /\ q[i].seq = z.seq
      BY <1>1, <1>7, <2>1, <2>3
    <3>2. \A m \in i .. n : q[m].seq \in {0, z.seq}
      BY <2>1, <3>1 DEF Fits, Together, n
    <3> QED
      BY <1>1, <2>1, <3>1, <3>2
  <2> QED
    BY <1>2, <2>2, <2>3
<1>8. Increasing(b.got)
  BY DEF InOrder
<1> QED
  BY <1>4, <1>5, <1>6, <1>7, <1>8 DEF InOrder

LEMMA AgainAppend ==
    ASSUME NEW q \in Seq(Packet), NEW r \in Seq(Packet), NEW b, NEW p, NEW z, IsAppend(r, q, z),
           z.seq = 0 \/ z = p, MaySendAgain(q, b, p)
    PROVE  MaySendAgain(r, b, p)
<1> DEFINE n == Len(q)
<1>1. n \in Nat /\ Len(r) = n + 1 /\ r[n + 1] = z /\ \A i \in 1 .. n : r[i] = q[i]
  BY LenNat DEF IsAppend
<1>2. \A i \in 1 .. Len(r) : i \in 1 .. n \/ i = n + 1
  BY <1>1
<1>3. /\ \A j \in 1 .. n : Repeated(r, b, j) <=> Repeated(q, b, j)
      /\ Repeated(q, b, n) /\ z.seq \in {0, b.inSeq} => Repeated(r, b, Len(r))
  BY RepeatedAppend
<1> HIDE DEF n
<1>4. ASSUME NEW i \in 1 .. Len(r), r[i].seq \notin {0, p.seq}, ~Repeated(r, b, i)
      PROVE  Below(r[i].data, p.data)
  <2>1. i \in 1 .. n
    BY <1>1, <1>2, <1>4
  <2> QED
    BY <1>1, <1>3, <1>4, <2>1 DEF MaySendAgain, n
<1>5. Below(b.got, p.data) \/ (Repeated(r, b, Len(r)) /\ b.inSeq = p.seq)
  BY <1>3 DEF MaySendAgain, n
<1> QED
  BY <1>4, <1>5 DEF MaySendAgain

LEMMA SubSeqPrefix ==
    ASSUME NEW s \in Seq(Nat), NEW k \in 0 .. Len(s)
    PROVE  /\ SubSeq(s, 1, k) \in Seq(Nat) /\ Len(SubSeq(s, 1, k)) = k
           /\ \A i \in 1 .. k : SubSeq(s, 1, k)[i] = s[i] /\ i \in 1 .. Len(s)
OBVIOUS

(* What the BMC has got behind it took p, if p is not a repetition. *)
LEMMA TakenParts ==
    ASSUME NEW b \in Bmc, NEW d \in Bmc, NEW p \in Packet, Takes(b, d, p), p.seq # b.inSeq
    PROVE  /\ d.inSeq = p.seq /\ d.inAccepted \in 0 .. Len(p.data)
           /\ Len(d.got) = Len(b.got) + d.inAccepted
           /\ \A i \in 1 .. Len(b.got) : d.got[i] = b.got[i]
           /\ \A i \in 1 .. d.inAccepted :
                 d.got[Len(b.got) + i] = p.data[i] /\ i \in 1 .. Len(p.data)
           /\ \A i \in 1 .. Len(d.got) :
                 \/ i \in 1 .. Len(b.got) /\ d.got[i] = b.got[i]
                 \/ \E j \in 1 .. d.inAccepted : i = Len(b.got) + j /\ d.got[i] = p.data[j]
<1> DEFINE k == d.inAccepted
           g == b.got
           s == SubSeq(p.data, 1, k)
<1>1. d.inSeq = p.seq /\ k \in 0 .. Len(p.data) /\ d.got = g \o s
  BY DEF Takes, Length
<1>2. p.data \in Seq(Nat) /\ g \in Seq(Nat) /\ Len(g) \in Nat /\ Len(p.data) \in Nat
  BY PacketParts, BmcParts
<1> HIDE DEF k, g
<1>3. /\ s \in Seq(Nat) /\ Len(s) = k
      /\ \A i \in 1 .. k : s[i] = p.data[i] /\ i \in 1 .. Len(p.data)
  BY <1>1, <1>2, SubSeqPrefix
<1> HIDE DEF s
<1>4. Len(d.got) = Len(g) + k /\ k \in Nat
  <2>1. Len(g \o s) = Len(g) + Len(s)
    BY <1>2, <1>3, ConcatProperties
  <2>2. k \in Nat
    BY <1>1, <1>2
  <2> QED
    BY <1>1, <1>3, <2>1, <2>2
<1>5. \A i \in 1 .. Len(g) : d.got[i] = g[i]
  BY <1>1, <1>2, <1>3
<1>6. \A i \in 1 .. k : d.got[Len(g) + i] = s[i]
  BY <1>1, <1>2, <1>3, <1>4
<1>7. ASSUME NEW i \in 1 .. Len(d.got)
      PROVE  \/ i \in 1 .. Len(g) /\ d.got[i] = g[i]
             \/ \E j \in 1 .. k : i = Len(g) + j /\ d.got[i] = p.data[j]
  <2>1. CASE i <= Len(g)
    BY <1>2, <1>5, <2>1
  <2>2. CASE ~(i <= Len(g))
    <3>1. i - Len(g) \in 1 .. k /\ i = Len(g) + (i - Len(g))
      BY <1>2, <1>4, <2>2
    <3> QED
      BY <1>3, <1>6, <3>1
  <2> QED
    BY <2>1, <2>2
<1>8. \A i \in 1 .. k : d.got[Len(g) + i] = p.data[i] /\ i \in 1 .. Len(p.data)
  BY <1>3, <1>6
<1>9. \A i \in 1 .. Len(d.got) :
         \/ i \in 1 .. Len(g) /\ d.got[i] = g[i]
         \/ \E j \in 1 .. k : i = Len(g) + j /\ d.got[i] = p.data[j]
  BY <1>7
<1> QED
  BY <1>1, <1>4, <1>5, <1>8, <1>9, Zenon DEF k, g

LEMMA TakenIncreasing ==
    ASSUME NEW b \in Bmc, NEW d \in Bmc, NEW p \in Packet, Takes(b, d, p), p.seq # b.inSeq,
           Increasing(b.got), Increasing(p.data), Below(b.got, p.data)
    PROVE  Increasing(d.got)
<1>1. Len(b.got) \in Nat
  BY BmcParts
<1> SUFFICES ASSUME NEW i \in 1 .. Len(d.got), NEW j \in 1 .. Len(d.got), i < j
             PROVE  d.got[i] < d.got[j]
  BY DEF Increasing
<1>2. CASE i \in 1 .. Len(b.got) /\ j \in 1 .. Len(b.got)
  BY <1>2, TakenParts DEF Increasing
<1>3. CASE i \in 1 .. Len(b.got) /\ j \notin 1 .. Len(b.got)
  <2>1. PICK m \in 1 .. d.inAccepted : j = Len(b.got) + m /\ d.got[j] = p.data[m]
    BY <1>3, TakenParts
  <2>2. m \in 1 .. Len(p.data) /\ d.got[i] = b.got[i]
    BY <1>3, TakenParts
  <2> QED
    BY <1>3, <2>1, <2>2 DEF Below
<1>4. CASE i \notin 1 .. Len(b.got)
  <2>1. PICK l \in 1 .. d.inAccepted : i = Len(b.got) + l /\ d.got[i] = p.data[l]
    BY <1>4, TakenParts
  <2>2. j \notin 1 .. Len(b.got)
    BY <1>1, <2>1, TakenParts
  <2>3. PICK m \in 1 .. d.inAccepted : j = Len(b.got) + m /\ d.got[j] = p.data[m]
    BY <2>2, TakenParts
  <2>4. l \in 1 .. Len(p.data) /\ m \in 1 .. Len(p.data)
    BY TakenParts
  <2>5. l < m
    BY <1>1, <2>1, <2>3
  <2> QED
    BY <2>1, <2>3, <2>4, <2>5 DEF Increasing
<1> QED
  BY <1>2, <1>3, <1>4

(* Everything above what the BMC had and above p is above what it has. *)
LEMMA TakenBelow ==
    ASSUME NEW b \in Bmc, NEW d \in Bmc, NEW p \in Packet, Takes(b, d, p), p.seq # b.inSeq,
           NEW t, Below(b.got, t), Below(p.data, t)
    PROVE  Below(d.got, t)
<1> SUFFICES ASSUME NEW i \in 1 .. Len(d.got), NEW j \in 1 .. Len(t)
             PROVE  d.got[i] < t[j]
  BY DEF Below
<1>1. CASE i \in 1 .. Len(b.got) /\ d.got[i] = b.got[i]
  BY <1>1 DEF Below
<1>2. ASSUME NEW m \in 1 .. d.inAccepted, d.got[i] = p.data[m]
      PROVE  d.got[i] < t[j]
  <2>1. m \in 1 .. Len(p.data)
    BY TakenParts
  <2> QED
    BY <1>2, <2>1 DEF Below
<1> QED
  BY <1>1, <1>2, TakenParts

LEMMA SameOrder ==
    ASSUME NEW q, NEW b, NEW d, SameInput(b, d)
    PROVE  /\ InOrder(q, b) => InOrder(q, d)
           /\ \A p : MaySendAgain(q, b, p) => MaySendAgain(q, d, p)
BY DEF SameInput, InOrder, MaySendAgain, Repeated

LEMMA OrderTake ==
    ASSUME NEW q \in Seq(Packet), NEW r \in Seq(Packet), NEW b \in Bmc, NEW d \in Bmc,
           IsTail(r, q), q[1].seq # 0, Takes(b, d, q[1]), InOrder(q, b)
    PROVE  /\ InOrder(r, d)
           /\ \A p : (Together(q, p) /\ MaySendAgain(q, b, p)) => MaySendAgain(r, d, p)
<1> DEFINE h == q[1]
<1>1. 1 \in 1 .. Len(q) /\ Len(q) \in Nat /\ h \in Packet
  BY DEF IsTail
<1>2. \A i \in 1 .. Len(r) : r[i] = q[i + 1] /\ i + 1 \in 1 .. Len(q) /\ i \in Nat /\ 1 < i + 1
  BY DEF IsTail
<1>3. InOrder(r, b) /\ \A p : MaySendAgain(q, b, p) => MaySendAgain(r, b, p)
  BY OrderShorter DEF Shorter
<1>4. CASE h.seq = b.inSeq
  <2>1. SameInput(b, d)
    BY <1>4 DEF Takes
  <2> QED
    BY <1>3, <2>1, SameOrder
<1>5. CASE h.seq # b.inSeq
  <2>1. \A i \in 1 .. Len(q) : ~Repeated(q, b, i)
    <3>1. \A i \in 1 .. Len(q) : 1 \in 1 .. i
      BY <1>1
    <3> QED
      BY <1>5, <3>1 DEF Repeated
  <2>2. Increasing(b.got) /\ Increasing(h.data) /\ Below(b.got, h.data)
    BY <1>1, <2>1 DEF InOrder
  <2>3. Increasing(d.got)
    BY <1>1, <1>5, <2>2, TakenIncreasing
  <2>4. d.inSeq = h.seq
    BY <1>5 DEF Takes
  <2>5. ASSUME NEW j \in 1 .. Len(r), r[j].seq # 0, ~Repeated(r, d, j)
        PROVE  Below(d.got, r[j].data)
    <3>1. q[j + 1].seq # h.seq
      <4> SUFFICES ASSUME q[j + 1].seq = h.seq  PROVE FALSE
        OBVIOUS
      <4>1. ASSUME NEW i \in 1 .. j
            PROVE  r[i].seq \in {0, h.seq}
        <5>1. i \in 1 .. Len(r) /\ i <= j
          BY LenNat
        <5>2. r[i] = q[i + 1] /\ i + 1 \in 1 .. Len(q) /\ j + 1 \in 1 .. Len(q) /\ 1 < i + 1
          BY <1>2, <5>1
        <5>3. CASE i = j
          BY <5>2, <5>3
        <5>4. CASE i < j
          <6>1. i + 1 < j + 1
            BY <5>4
          <6> QED
            BY <1>1, <5>2, <6>1 DEF InOrder
        <5> QED
          BY <5>1, <5>3, <5>4
      <4>2. Repeated(r, d, j)
        BY <2>4, <4>1 DEF Repeated
      <4> QED
        BY <2>5, <4>2
    <3>2. q[j + 1].seq # 0 /\ j + 1 \in 1 .. Len(q) /\ 1 < j + 1 /\ r[j] = q[j + 1]
      BY <1>2, <2>5
    <3>3. Below(h.data, q[j + 1].data)
      BY <1>1, <2>1, <3>1, <3>2 DEF InOrder
    <3>4. Below(b.got, q[j + 1].data)
      BY <2>1, <3>2 DEF InOrder
    <3> QED
      BY <1>1, <1>5, <3>2, <3>3, <3>4, TakenBelow
  <2>6. ASSUME NEW i \in 1 .. Len(r), NEW j \in 1 .. Len(r), i < j, r[i].seq # 0, r[j].seq # 0,
               r[i].seq # r[j].seq
        PROVE  Below(r[i].data, r[j].data)
    <3>1. /\ i + 1 < j + 1 /\ i + 1 \in 1 .. Len(q) /\ j + 1 \in 1 .. Len(q)
          /\ r[i] = q[i + 1] /\ r[j] = q[j + 1]
      BY <1>2, <2>6
    <3> QED
      BY <2>1, <2>6, <3>1 DEF InOrder
  <2>7. InOrder(r, d)
    BY <1>3, <2>3, <2>5, <2>6 DEF InOrder
  <2>8. ASSUME NEW p, Together(q, p), MaySendAgain(q, b, p)
        PROVE  MaySendAgain(r, d, p)
    <3>1. \A i \in 1 .. Len(r) :
             (r[i].seq \notin {0, p.seq} /\ ~Repeated(r, d, i)) => Below(r[i].data, p.data)
      BY <1>2, <2>1, <2>8 DEF MaySendAgain
    <3>2. CASE h.seq = p.seq
      <4>1. h.data = p.data /\ \A j \in 1 .. Len(q) : q[j].seq \in {0, p.seq}
        BY <1>1, <2>8, <3>2 DEF Together
      <4>2. Repeated(r, d, Len(r)) /\ d.inSeq = p.seq
        BY <1>2, <2>4, <3>2, <4>1 DEF Repeated
      <4>3. ASSUME NEW i \in d.inAccepted + 1 .. Length(p), NEW j \in 1 .. Len(d.got)
            PROVE  d.got[j] < p.data[i]
        <5>1. d.inAccepted \in 0 .. Len(h.data)
          BY <1>1, <1>5, TakenParts
        <5>2. i \in 1 .. Len(h.data) /\ i \in Nat
          BY <4>1, <5>1 DEF Length
        <5>3. CASE j \in 1 .. Len(b.got) /\ d.got[j] = b.got[j]
          BY <2>2, <4>1, <5>2, <5>3 DEF Below
        <5>4. ASSUME NEW m \in 1 .. d.inAccepted, d.got[j] = h.data[m]
              PROVE  d.got[j] < p.data[i]
          <6>1. m \in 1 .. Len(h.data) /\ m < i
            BY <5>1, <5>2
          <6> QED
            BY <2>2, <4>1, <5>2, <5>4, <6>1 DEF Increasing
        <5> QED
          BY <1>1, <1>5, <5>3, <5>4, TakenParts
      <4> QED
        BY <2>8, <3>1, <4>2, <4>3 DEF MaySendAgain
    <3>3. CASE h.seq # p.seq
      <4>1. Below(h.data, p.data)
        BY <1>1, <2>1, <2>8, <3>3 DEF MaySendAgain
      <4>2. ~Repeated(q, b, Len(q))
        BY <1>1, <2>1
      <4>3. Below(b.got, p.data)
        BY <2>8, <4>2 DEF MaySendAgain
      <4>4. Below(d.got, p.data)
        BY <1>1, <1>5, <4>1, <4>3, TakenBelow
      <4> QED
        BY <2>4, <2>8, <3>1, <3>3, <4>4 DEF MaySendAgain
    <3> QED
      BY <3>2, <3>3
  <2> QED
    BY <2>7, <2>8
<1> QED
  BY <1>4, <1>5

(* A packet with a number that is not under way, and with characters above *)
(* those that are under way or were got.                                   *)
LEMMA OrderNew ==
    ASSUME NEW q \in Seq(Packet), NEW r \in Seq(Packet), NEW b \in Bmc, NEW p \in Packet,
           With(r, q, p), InOrder(q, b), Increasing(p.data), Below(b.got, p.data),
           \A i \in 1 .. Len(q) : q[i].seq # p.seq,
           \A i \in 1 .. Len(q) :
              (q[i].seq # 0 /\ ~Repeated(q, b, i)) => Below(q[i].data, p.data)
    PROVE  InOrder(r, b) /\ MaySendAgain(r, b, p)
<1>1. ASSUME NEW i \in b.inAccepted + 1 .. Length(p), NEW j \in 1 .. Len(b.got)
      PROVE  b.got[j] < p.data[i]
  <2>1. i \in 1 .. Len(p.data)
    BY BmcParts, PacketParts DEF Length
  <2> QED
    BY <2>1 DEF Below
<1>2. MaySendAgain(q, b, p)
  BY <1>1 DEF MaySendAgain
<1>3. Fits(q, b, p)
  BY <1>2 DEF Fits, Together
<1> QED
  BY <1>2, <1>3, OrderAppend, AgainAppend DEF With

-----------------------------------------------------------------------------
(* What the characters are, and which have arrived. *)

Typed(q, b, n) ==
    /\ UpTo(b.got, n)
    /\ \A i \in 1 .. Len(q) : q[i].seq # 0 => UpTo(q[i].data, n)

LEMMA TypedShorter ==
    ASSUME NEW q \in Seq(Packet), NEW r \in Seq(Packet), NEW b, NEW n, Shorter(r, q), Typed(q, b, n)
    PROVE  Typed(r, b, n)
BY DEF Shorter, IsTail, Typed

LEMMA TypedAppend ==
    ASSUME NEW q \in Seq(Packet), NEW r \in Seq(Packet), NEW b, NEW n, NEW z, IsAppend(r, q, z),
           z.seq # 0 => UpTo(z.data, n), Typed(q, b, n)
    PROVE  Typed(r, b, n)
<1>1. \A i \in 1 .. Len(r) : i \in 1 .. Len(q) \/ i = Len(q) + 1
  BY LenNat DEF IsAppend
<1> QED
  BY <1>1 DEF IsAppend, Typed

LEMMA UpToMore ==
    ASSUME NEW s, NEW n \in Nat, NEW m \in Nat, n <= m, UpTo(s, n)
    PROVE  UpTo(s, m)
<1>1. \A x \in 1 .. n : x \in 1 .. m
  OBVIOUS
<1> QED
  BY <1>1 DEF UpTo

LEMMA TypedMore ==
    ASSUME NEW q, NEW b, NEW n \in Nat, NEW m \in Nat, n <= m, Typed(q, b, n)
    PROVE  Typed(q, b, m)
BY UpToMore DEF Typed

LEMMA TypedTake ==
    ASSUME NEW q \in Seq(Packet), NEW r \in Seq(Packet), NEW b \in Bmc, NEW d \in Bmc, NEW n,
           IsTail(r, q), q[1].seq # 0, Takes(b, d, q[1]), Typed(q, b, n)
    PROVE  Typed(r, d, n)
<1>1. Typed(r, b, n)
  BY TypedShorter DEF Shorter
<1>2. CASE SameInput(b, d)
  BY <1>1, <1>2 DEF SameInput, Typed
<1>3. CASE q[1].seq # b.inSeq
  <2> DEFINE h == q[1]
  <2>1. h \in Packet /\ Takes(b, d, h) /\ h.seq # b.inSeq
    BY <1>3 DEF IsTail
  <2>2. UpTo(h.data, n) /\ UpTo(b.got, n)
    BY DEF Typed, IsTail
  <2> HIDE DEF h
  <2>3. ASSUME NEW i \in 1 .. Len(d.got)
        PROVE  d.got[i] \in 1 .. n
    <3>1. CASE i \in 1 .. Len(b.got) /\ d.got[i] = b.got[i]
      BY <2>2, <3>1 DEF UpTo
    <3>2. ASSUME NEW m \in 1 .. d.inAccepted, d.got[i] = h.data[m]
          PROVE  d.got[i] \in 1 .. n
      <4>1. m \in 1 .. Len(h.data)
        BY <2>1, TakenParts
      <4> QED
        BY <2>2, <3>2, <4>1 DEF UpTo
    <3>3. \/ i \in 1 .. Len(b.got) /\ d.got[i] = b.got[i]
          \/ \E m \in 1 .. d.inAccepted : i = Len(b.got) + m /\ d.got[i] = h.data[m]
      BY <2>1, TakenParts
    <3> QED
      BY <3>1, <3>2, <3>3
  <2> QED
    BY <1>1, <2>3 DEF Typed, UpTo
<1> QED
  BY <1>2, <1>3 DEF Takes

LEMMA TakenKeeps ==
    ASSUME NEW b \in Bmc, NEW d \in Bmc, NEW h \in Packet, Takes(b, d, h)
    PROVE  Elements(b.got) \subseteq Elements(d.got)
<1>1. CASE SameInput(b, d)
  BY <1>1 DEF SameInput
<1>2. CASE h.seq # b.inSeq
  <2>1. Len(b.got) \in Nat /\ d.inAccepted \in Nat
    BY BmcParts
  <2>2. \A i \in 1 .. Len(b.got) : i \in 1 .. Len(d.got) /\ d.got[i] = b.got[i]
    BY <1>2, <2>1, TakenParts
  <2> QED
    BY <2>2 DEF Elements
<1> QED
  BY <1>1, <1>2 DEF Takes

LEMMA WholeTake ==
    ASSUME NEW b \in Bmc, NEW d \in Bmc, NEW h \in Packet, Takes(b, d, h), NEW p, NEW n,
           h.seq = p.seq => h.data = p.data, Whole(b, p, n)
    PROVE  Whole(d, p, n)
<1>1. Elements(b.got) \subseteq Elements(d.got)
  BY TakenKeeps
<1>2. CASE SameInput(b, d)
  BY <1>2 DEF SameInput, Whole
<1>3. CASE h.seq # b.inSeq
  <2>1. d.inSeq = h.seq
    BY <1>3 DEF Takes
  <2>2. ASSUME h.seq = p.seq
        PROVE  /\ d.inAccepted <= Length(p)
               /\ \A i \in 1 .. d.inAccepted : p.data[i] \in Elements(d.got)
    <3>1. /\ d.inAccepted \in 0 .. Len(h.data) /\ h.data = p.data
          /\ \A i \in 1 .. d.inAccepted : d.got[Len(b.got) + i] = h.data[i]
          /\ Len(d.got) = Len(b.got) + d.inAccepted
      BY <1>3, <2>2, TakenParts
    <3>2. Len(b.got) \in Nat
      BY BmcParts
    <3>3. \A i \in 1 .. d.inAccepted : Len(b.got) + i \in 1 .. Len(d.got)
      BY <3>1, <3>2
    <3>4. d.inAccepted <= Length(p)
      BY <3>1, PacketParts DEF Length
    <3> QED
      BY <3>1, <3>3, <3>4 DEF Elements
  <2>3. 1 .. n \subseteq Elements(d.got) \cup Elements(p.data)
    BY <1>1 DEF Whole
  <2> QED
    BY <2>1, <2>2, <2>3 DEF Whole
<1> QED
  BY <1>2, <1>3 DEF Takes

-----------------------------------------------------------------------------
(* What the steps of Next do to the input. *)

AtRest == {"idle", "loop", "keepalive"}

(* ipmi_lanplus_send_sol() takes a number, q being under way. *)
TakesNumber(q, n) ==
    /\ unanswered' = (IF n = MaxSeq THEN MaxSeq ELSE n + 1)
    /\ pc' = "send" /\ snd'.pkt.seq = NextSolSeq /\ solSeq' = NextSolSeq + 1
    /\ reused' = (reused \/ UnderWay(NextSolSeq, q))
    /\ With(toBmc', q, snd'.pkt)

(* Nothing is being sent. *)
Rests ==
    /\ pc \in AtRest /\ pc' \in AtRest \cup {"exit"}
    /\ UNCHANGED <<solSeq, reused, unanswered, typed, resent, presumed, bmc>>
    /\ Shorter(toCon', toCon) /\ WithAck(toBmc', toBmc)

Activates ==
    /\ pc = "idle" /\ pc' = "loop"
    /\ UNCHANGED <<solSeq, reused, unanswered, typed, resent, presumed>>
    /\ toBmc' = <<>> /\ toCon' = <<>> /\ bmc'.inSeq = 0 /\ bmc'.got = bmc.got

StartsInput ==
    /\ pc = "loop" /\ TakesNumber(toBmc, unanswered)
    /\ snd'.kind = "input" /\ snd'.buf = snd'.pkt.data
    /\ typed' \in Nat /\ typed' > typed /\ snd'.pkt.data = Chars(typed, typed')
    /\ UNCHANGED <<bmc, toCon, presumed, resent>>

StartsEmpty ==
    /\ pc = "loop" /\ TakesNumber(toBmc, unanswered)
    /\ snd'.kind # "input" /\ snd'.buf = <<>> /\ snd'.pkt.data = <<>>
    /\ UNCHANGED <<bmc, toCon, typed, presumed, resent>>

Retries ==
    /\ pc = "send" /\ TakesNumber(toBmc, unanswered)
    /\ snd.kind = "input" /\ snd'.kind = "input"
    /\ snd'.buf = snd.buf /\ snd'.pkt.data = snd.buf
    /\ resent' = TRUE
    /\ UNCHANGED <<bmc, toCon, typed, presumed>>

(* The first packet under way to the console acknowledges the one sent. *)
HeadAcks == toCon # <<>> /\ toCon[1].ack = snd.pkt.seq /\ IsTail(toCon', toCon)

SendsRest(q) ==
    /\ pc = "send" /\ HeadAcks /\ WithAck(q, toBmc) /\ TakesNumber(q, Answered)
    /\ toCon[1].accepted < Length(snd.pkt)
    /\ snd'.pkt.data = SubSeq(snd.pkt.data, toCon[1].accepted + 1, Length(snd.pkt))
    /\ snd'.buf = snd'.pkt.data \o SubSeq(snd.buf, Len(snd'.pkt.data) + 1, Len(snd.buf))
    /\ snd'.kind = snd.kind
    /\ UNCHANGED <<bmc, typed, presumed, resent>>

Acknowledged ==
    /\ pc = "send" /\ pc' \in AtRest \cup {"exit"} /\ HeadAcks /\ WithAck(toBmc', toBmc)
    /\ ~presumed' => ~presumed /\ ~(toCon[1].accepted < Length(snd.pkt))
    /\ unanswered' = Answered
    /\ UNCHANGED <<solSeq, reused, typed, resent, bmc>>

Presumes ==
    /\ pc = "send" /\ pc' \in AtRest \cup {"exit"} /\ presumed' = TRUE
    /\ Shorter(toCon', toCon) /\ WithAck(toBmc', toBmc)
    /\ unanswered' = Answered
    /\ UNCHANGED <<solSeq, reused, typed, resent, bmc>>

GivesUp ==
    /\ pc = "send" /\ pc' \in {"loop", "exit"} /\ (snd.kind = "input" => pc' = "exit")
    /\ UNCHANGED <<solSeq, reused, unanswered, typed, resent, presumed, bmc, toBmc, toCon>>

Waits(q) ==
    /\ pc = "send" /\ pc' = "send"
    /\ snd'.pkt = snd.pkt /\ snd'.buf = snd.buf /\ snd'.kind = snd.kind
    /\ Shorter(toCon', toCon) /\ WithAck(q, toBmc) /\ With(toBmc', q, snd.pkt)
    /\ UNCHANGED <<solSeq, reused, unanswered, typed, resent, presumed, bmc>>

Elsewhere == UNCHANGED <<pc, snd, solSeq, reused, unanswered, typed, resent, presumed>>

Delivers ==
    /\ Elsewhere /\ SameInput(bmc, bmc') /\ Shorter(toBmc', toBmc)
    /\ Shorter(toCon', toCon) \/ \E a \in Packet : a.ack = 0 /\ With(toCon', toCon, a)

BmcTakes(a) ==
    /\ Elsewhere /\ IsTail(toBmc', toBmc) /\ toBmc[1].seq # 0 /\ Takes(bmc, bmc', toBmc[1])
    /\ a.ack = toBmc[1].seq /\ a.accepted = bmc'.inAccepted /\ With(toCon', toCon, a)

Form ==
    \/ Rests \/ Activates \/ StartsInput \/ StartsEmpty \/ Retries
    \/ \E q \in Seq(Packet) : SendsRest(q) \/ Waits(q)
    \/ Acknowledged \/ Presumes \/ GivesUp \/ Delivers
    \/ \E a \in Packet : BmcTakes(a)

LEMMA SendSolForm ==
    ASSUME solSeq \in 1 .. MaxSeq + 1, NEW s \in Sending, NEW data \in Seq(Nat),
           NEW q \in Seq(Packet), NEW n, SendSol(s, data, q, n)
    PROVE  /\ TakesNumber(q, n) /\ snd'.pkt.data = data /\ snd'.buf = s.buf
           /\ snd'.kind = s.kind
<1> DEFINE u == [s EXCEPT !.pkt = DataPacket(data)]
<1>1. DataPacket(data) \in Packet
  BY DataPacketType
<1>2. DataPacket(data).seq = NextSolSeq /\ DataPacket(data).data = data
  BY DEF DataPacket, NoPacket
<1>3. u \in Sending /\ u.pkt = DataPacket(data) /\ u.buf = s.buf /\ u.kind = s.kind
  BY <1>1 DEF Sending
<1>4. snd' = [u EXCEPT !.tries = 0]
  BY DEF SendSol
<1> HIDE DEF u
<1>5. snd'.pkt = DataPacket(data) /\ snd'.buf = s.buf /\ snd'.kind = s.kind
  BY <1>3, <1>4 DEF Sending
<1>6. With(toBmc', q, snd'.pkt)
  BY <1>1, <1>5, PutWith DEF SendSol
<1> QED
  BY <1>2, <1>5, <1>6 DEF SendSol, TakesNumber

LEMMA ReceiveForm ==
    ASSUME TypeOK, SendReceives
    PROVE  Form
<1> DEFINE p == Head(toCon)
           q == Acked(toBmc, p)
<1>1. /\ pc = "send" /\ toCon # <<>> /\ toCon' = Tail(toCon)
      /\ PartialAck(p) \/ FullAck(p) \/ DataBeforeAck(p) \/ NeitherAckNorData(p)
      /\ UNCHANGED <<typed, bmc, resent>>
  BY DEF SendReceives
<1>2. /\ toCon \in Seq(Packet) /\ toBmc \in Seq(Packet) /\ snd \in Sending
      /\ solSeq \in 1 .. MaxSeq + 1
  BY DEF TypeOK
<1>3. p \in Packet /\ p = toCon[1] /\ q \in Seq(Packet) /\ WithAck(q, toBmc)
  BY <1>1, <1>2, TailOf, AckedType, AckedWith
<1>4. IsTail(toCon', toCon) /\ Shorter(toCon', toCon)
  BY <1>1, <1>2, TailShorter
<1>5. snd.pkt \in Packet /\ snd.buf \in Seq(Nat)
  BY <1>2 DEF Sending
<1>6. /\ snd.pkt.data \in Seq(Nat) /\ Length(snd.pkt) = Len(snd.pkt.data)
      /\ Length(snd.pkt) \in Nat /\ p.accepted \in Nat
  BY <1>3, <1>5, PacketParts DEF Length
<1> HIDE DEF p, q
<1>7. ASSUME NEW r, Sent(r)
      PROVE  /\ pc' \in AtRest \cup {"exit"} /\ toBmc' = r /\ unanswered' = Answered
             /\ UNCHANGED <<solSeq, reused>>
  BY <1>7 DEF Sent, Ended, AtRest
<1>8. CASE PartialAck(p)
  <2> DEFINE rest == SubSeq(snd.pkt.data, p.accepted + 1, Length(snd.pkt))
             tail == SubSeq(snd.buf, Len(rest) + 1, Len(snd.buf))
             s    == [snd EXCEPT !.buf = rest \o tail]
  <2>1. Resend(p) > 0 /\ SendSol(s, rest, q, Answered) /\ presumed' = presumed
    BY <1>8 DEF PartialAck, q
  <2>2. p.ack = snd.pkt.seq /\ p.accepted < Length(snd.pkt)
    BY <2>1 DEF Resend, Acks
  <2>3. rest \in Seq(Nat) /\ rest = SubSeq(snd.pkt.data, toCon[1].accepted + 1, Length(snd.pkt))
    <3>1. rest \in Seq(Nat)
      BY <1>6
    <3> QED
      BY <1>3, <3>1
  <2> HIDE DEF rest
  <2>4. tail \in Seq(Nat) /\ tail = SubSeq(snd.buf, Len(rest) + 1, Len(snd.buf))
    BY <1>5, <2>3
  <2> HIDE DEF tail
  <2>5. s \in Sending /\ s.buf = rest \o tail /\ s.kind = snd.kind
    <3>1. rest \o tail \in Seq(Nat)
      BY <2>3, <2>4
    <3> QED
      BY <1>2, <3>1 DEF Sending
  <2> HIDE DEF s
  <2>6. /\ TakesNumber(q, Answered) /\ snd'.pkt.data = rest /\ snd'.buf = s.buf
        /\ snd'.kind = s.kind
    BY <1>2, <1>3, <2>1, <2>3, <2>5, SendSolForm
  <2>7. SendsRest(q)
    BY <1>1, <1>3, <1>4, <2>1, <2>2, <2>3, <2>4, <2>5, <2>6 DEF SendsRest, HeadAcks
  <2> QED
    BY <1>3, <2>7 DEF Form
<1>9. CASE FullAck(p)
  <2>1. Acks(p) /\ Sent(q) /\ presumed' = (presumed \/ Resend(p) > 0)
    BY <1>9 DEF FullAck, q
  <2>2. p.accepted < Length(snd.pkt) => Resend(p) > 0
    BY <1>6, <2>1 DEF Resend
  <2>3. ~presumed' => ~presumed /\ ~(p.accepted < Length(snd.pkt))
    BY <2>1, <2>2
  <2>4. HeadAcks
    BY <1>1, <1>3, <1>4, <2>1 DEF HeadAcks, Acks
  <2>5. /\ pc' \in AtRest \cup {"exit"} /\ WithAck(toBmc', toBmc) /\ unanswered' = Answered
        /\ UNCHANGED <<solSeq, reused>>
    BY <1>3, <1>7, <2>1
  <2>6. Acknowledged
    BY <1>1, <1>3, <2>3, <2>4, <2>5, Zenon DEF Acknowledged
  <2> QED
    BY <2>6 DEF Form
<1>10. ASSUME presumed' = TRUE, Sent(q)
       PROVE  Form
  <2>1. Presumes
    BY <1>1, <1>3, <1>4, <1>7, <1>10 DEF Presumes
  <2> QED
    BY <2>1 DEF Form
<1>11. CASE DataBeforeAck(p)
  BY <1>10, <1>11 DEF DataBeforeAck, q
<1>12. CASE NeitherAckNorData(p)
  <2>1. CASE snd.tries + 1 < Retry
    <3>1. /\ snd' = [snd EXCEPT !.tries = @ + 1]
          /\ toBmc' = q \/ toBmc' = Put(q, snd.pkt)
          /\ UNCHANGED <<pc, solSeq, reused, unanswered, presumed>>
      BY <1>12, <2>1 DEF NeitherAckNorData, q
    <3>2. snd'.pkt = snd.pkt /\ snd'.buf = snd.buf /\ snd'.kind = snd.kind
      BY <1>2, <3>1 DEF Sending
    <3>3. With(toBmc', q, snd.pkt)
      BY <1>3, <1>5, <3>1, PutWith DEF With
    <3>4. Waits(q)
      BY <1>1, <1>3, <1>4, <3>1, <3>2, <3>3 DEF Waits
    <3> QED
      BY <1>3, <3>4 DEF Form
  <2>2. CASE ~(snd.tries + 1 < Retry)
    BY <1>10, <1>12, <2>2 DEF NeitherAckNorData, q
  <2> QED
    BY <2>1, <2>2
<1> QED
  BY <1>1, <1>8, <1>9, <1>11, <1>12

LEMMA TimeoutForm ==
    ASSUME TypeOK, SendTimeout
    PROVE  Form
<1>1. /\ pc = "send" /\ UNCHANGED <<typed, bmc, toCon, presumed>>
  BY DEF SendTimeout
<1>2. toBmc \in Seq(Packet) /\ snd \in Sending /\ solSeq \in 1 .. MaxSeq + 1
  BY DEF TypeOK
<1>3. CASE /\ snd.kind = "input" /\ snd.attempt + 1 < Retry
           /\ SendSol([snd EXCEPT !.attempt = @ + 1], snd.buf, toBmc, unanswered) /\ resent' = TRUE
  <2> DEFINE s == [snd EXCEPT !.attempt = @ + 1]
  <2>1. snd.attempt + 1 \in 0 .. Retry
    BY <1>2, <1>3, Constants DEF Sending
  <2>2. /\ s \in Sending /\ s.kind = "input" /\ s.buf = snd.buf
        /\ snd.buf \in Seq(Nat) /\ SendSol(s, snd.buf, toBmc, unanswered)
    BY <1>2, <1>3, <2>1 DEF Sending
  <2> HIDE DEF s
  <2>3. /\ TakesNumber(toBmc, unanswered) /\ snd'.pkt.data = snd.buf /\ snd'.buf = s.buf
        /\ snd'.kind = s.kind
    BY <1>2, <2>2, SendSolForm
  <2>4. Retries
    BY <1>1, <1>3, <2>2, <2>3 DEF Retries
  <2> QED
    BY <2>4 DEF Form
<1>4. CASE /\ pc' \in {"loop", "exit"} /\ (snd.kind = "input" => pc' = "exit")
           /\ UNCHANGED <<solSeq, reused, unanswered, toBmc, resent>>
  <2>1. GivesUp
    BY <1>1, <1>4 DEF GivesUp
  <2> QED
    BY <2>1 DEF Form
<1> QED
  BY <1>3, <1>4 DEF SendTimeout, KeepaliveFailed

(* A packet the BMC sends carries the acknowledgement a and leaves what it *)
(* keeps about the input alone.                                            *)
LEMMA BmcSendsAnswer ==
    ASSUME NEW b \in Bmc, NEW a \in Packet, toCon \in Seq(Packet), BmcSends(b, a)
    PROVE  /\ SameInput(b, bmc')
           /\ \E z \in Packet : z.ack = a.ack /\ z.accepted = a.accepted /\ With(toCon', toCon, z)
<1>1. CASE bmc' = b /\ toCon' = PutToCon(toCon, a)
  <2>1. With(toCon', toCon, a)
    BY <1>1, PutWith
  <2> QED
    BY <1>1, <2>1 DEF SameInput
<1>2. ASSUME NEW to \in b.acked + 1 .. Min({b.acked + Limit, MaxPrinted}),
             LET new == b.to = b.acked
                 seq == IF new THEN (b.seq % MaxSeq) + 1 ELSE b.seq IN
             /\ bmc' = [b EXCEPT !.to = to, !.seq = seq]
             /\ toCon' = PutToCon(toCon, [a EXCEPT !.seq = seq, !.data = Chars(b.acked, to)])
      PROVE  /\ SameInput(b, bmc')
             /\ \E z \in Packet :
                   z.ack = a.ack /\ z.accepted = a.accepted /\ With(toCon', toCon, z)
  <2> DEFINE seq  == IF b.to = b.acked THEN (b.seq % MaxSeq) + 1 ELSE b.seq
             data == Chars(b.acked, to)
             u    == [b EXCEPT !.to = to]
             q    == [a EXCEPT !.seq = seq]
             z    == [q EXCEPT !.data = data]
  <2>1. seq \in Seqs
    BY NextBmcSeq, BmcParts
  <2>2. data \in Seq(Nat) /\ to \in Nat
    <3>1. b.acked \in Nat /\ b.acked + Limit \in Nat /\ MaxPrinted \in Nat
      BY BmcParts, Constants
    <3>2. Min({b.acked + Limit, MaxPrinted}) \in Nat
      BY <3>1, MinType
    <3>3. to \in Nat /\ b.acked <= to
      BY <3>1, <3>2
    <3> QED
      BY <3>1, <3>3, CharsType
  <2>3. bmc' = [b EXCEPT !.to = to, !.seq = seq]
    BY <1>2
  <2>4. toCon' = PutToCon(toCon, [a EXCEPT !.seq = seq, !.data = data])
    BY <1>2
  <2> HIDE DEF seq, data
  <2>5. /\ u \in Bmc /\ u.inSeq = b.inSeq /\ u.inAccepted = b.inAccepted /\ u.got = b.got
        /\ bmc' = [u EXCEPT !.seq = seq]
    BY <2>2, <2>3 DEF Bmc
  <2> HIDE DEF u
  <2>6. SameInput(b, bmc')
    BY <2>5 DEF Bmc, SameInput
  <2>7. /\ q \in Packet /\ q.ack = a.ack /\ q.accepted = a.accepted
        /\ z = [a EXCEPT !.seq = seq, !.data = data]
    BY <2>1 DEF Packet
  <2> HIDE DEF q
  <2>8. z \in Packet /\ z.ack = a.ack /\ z.accepted = a.accepted
    BY <2>2, <2>7 DEF Packet
  <2> HIDE DEF z
  <2>9. With(toCon', toCon, z)
    BY <2>4, <2>7, <2>8, PutWith
  <2> QED
    BY <2>6, <2>8, <2>9
<1> QED
  BY <1>1, <1>2 DEF BmcSends

LEMMA BmcForm ==
    ASSUME TypeOK, BmcPrints \/ BmcReceives \/ Lose
    PROVE  Form
<1>1. toCon \in Seq(Packet) /\ toBmc \in Seq(Packet) /\ bmc \in Bmc
  BY DEF TypeOK
<1>2. Elsewhere
  BY DEF BmcPrints, BmcReceives, Lose, conVars, histVars, Elsewhere
<1>3. CASE BmcPrints
  <2>1. BmcSends(bmc, NoPacket) /\ toBmc' = toBmc
    BY <1>3 DEF BmcPrints
  <2>2. NoPacket \in Packet /\ NoPacket.ack = 0
    BY NoPacketType DEF NoPacket
  <2>3. /\ SameInput(bmc, bmc')
        /\ \E z \in Packet : z.ack = NoPacket.ack /\ With(toCon', toCon, z)
    BY <1>1, <2>1, <2>2, BmcSendsAnswer
  <2>4. Delivers
    BY <1>2, <2>1, <2>2, <2>3 DEF Delivers, Shorter
  <2> QED
    BY <2>4 DEF Form
<1>4. CASE Lose
  <2>1. bmc' = bmc /\ Shorter(toBmc', toBmc) /\ Shorter(toCon', toCon)
    BY <1>1, <1>4, TailShorter DEF Lose, Shorter
  <2>2. Delivers
    BY <1>2, <2>1 DEF Delivers, SameInput
  <2> QED
    BY <2>2 DEF Form
<1>5. CASE BmcReceives
  <2> DEFINE p == Head(toBmc)
  <2>1. toBmc # <<>> /\ toBmc' = Tail(toBmc)
    BY <1>5 DEF BmcReceives
  <2>2. p \in Packet /\ p = toBmc[1] /\ IsTail(toBmc', toBmc)
    BY <1>1, <2>1, TailOf, TailShorter
  <2> HIDE DEF p
  <2>3. CASE p.seq = 0
    <3>1. bmc' \in {bmc, [bmc EXCEPT !.acked = bmc.to]} /\ toCon' = toCon
      BY <1>5, <2>3 DEF BmcReceives, p
    <3>2. SameInput(bmc, bmc')
      BY <1>1, <3>1 DEF Bmc, SameInput
    <3>3. Delivers
      BY <1>2, <2>2, <3>1, <3>2 DEF Delivers, Shorter
    <3> QED
      BY <3>3 DEF Form
  <2>4. ASSUME p.seq # 0, NEW k \in 0 .. Length(p), NEW n \in BOOLEAN,
               BmcAccepts(p, k, n)
        PROVE  Form
    <3> DEFINE g == bmc.got \o SubSeq(p.data, 1, k)
               u == [bmc EXCEPT !.inSeq = p.seq]
               v == [u EXCEPT !.inAccepted = k]
               w == [v EXCEPT !.inNack = n]
               x == [w EXCEPT !.got = g]
               b == IF p.seq = bmc.inSeq THEN bmc ELSE x
               a == [NoPacket EXCEPT !.ack = p.seq, !.accepted = b.inAccepted, !.nack = b.inNack]
    <3>1. /\ k \in Nat /\ k <= Len(p.data) /\ p.data \in Seq(Nat) /\ p.seq \in Seqs
          /\ bmc.got \in Seq(Nat)
      BY <1>1, <2>2, <2>4, PacketParts, BmcParts DEF Length
    <3>2. g \in Seq(Nat)
      BY <3>1
    <3>3. n \in BOOLEAN
      BY <2>4
    <3>4. BmcSends(b, a)
      BY <1>1, <2>4 DEF BmcAccepts, Bmc
    <3>5. g = bmc.got \o SubSeq(p.data, 1, k)
      OBVIOUS
    <3> HIDE DEF g
    <3>6. u \in Bmc /\ u.inSeq = p.seq
      BY <1>1, <3>1 DEF Bmc
    <3> HIDE DEF u
    <3>7. v \in Bmc /\ v.inSeq = p.seq /\ v.inAccepted = k
      BY <3>1, <3>6 DEF Bmc
    <3> HIDE DEF v
    <3>8. w \in Bmc /\ w.inSeq = p.seq /\ w.inAccepted = k
      BY <3>3, <3>7 DEF Bmc
    <3> HIDE DEF w
    <3>9. x \in Bmc /\ x.inSeq = p.seq /\ x.inAccepted = k /\ x.got = g
      BY <3>2, <3>8 DEF Bmc
    <3> HIDE DEF x
    <3>10. b \in Bmc /\ Takes(bmc, b, p)
      BY <1>1, <2>4, <3>5, <3>9 DEF Takes, SameInput
    <3> HIDE DEF b
    <3>11. a \in Packet /\ a.ack = p.seq /\ a.accepted = b.inAccepted
      <4>1. b.inAccepted \in Nat /\ b.inNack \in BOOLEAN
        BY <3>10, BmcParts
      <4> QED
        BY <3>1, <4>1, NoPacketType DEF Packet, NoPacket
    <3> HIDE DEF a
    <3>12. SameInput(b, bmc')
      BY <1>1, <3>4, <3>10, <3>11, BmcSendsAnswer
    <3>13. PICK z \in Packet : z.ack = a.ack /\ z.accepted = a.accepted /\ With(toCon', toCon, z)
      BY <1>1, <3>4, <3>10, <3>11, BmcSendsAnswer
    <3>14. Takes(bmc, bmc', p) /\ z.accepted = bmc'.inAccepted
      BY <3>10, <3>11, <3>12, <3>13 DEF Takes, SameInput
    <3>15. BmcTakes(z)
      BY <1>2, <2>2, <2>4, <3>11, <3>13, <3>14 DEF BmcTakes
    <3> QED
      BY <3>13, <3>15 DEF Form
  <2> QED
    BY <1>5, <2>3, <2>4 DEF BmcReceives, p
<1> QED
  BY <1>3, <1>4, <1>5

LEMMA NextForm ==
    ASSUME TypeOK, Next
    PROVE  Form
<1>1. /\ toCon \in Seq(Packet) /\ toBmc \in Seq(Packet) /\ bmc \in Bmc /\ typed \in Nat
      /\ solSeq \in 1 .. MaxSeq + 1
  BY DEF TypeOK
<1>3. Shorter(toCon, toCon) /\ WithAck(toBmc, toBmc)
  BY DEF Shorter, WithAck
<1>5. CASE ipmi_sol_activate
  <2>1. /\ pc = "idle" /\ pc' = "loop" /\ toBmc' = <<>> /\ toCon' = <<>>
        /\ UNCHANGED <<solSeq, reused, unanswered, typed, resent, presumed>>
    BY <1>5 DEF ipmi_sol_activate
  <2>2. bmc'.inSeq = 0 /\ bmc'.got = bmc.got
    BY <1>1, <1>5 DEF ipmi_sol_activate, Bmc
  <2>3. Activates
    BY <2>1, <2>2 DEF Activates
  <2> QED
    BY <2>3 DEF Form
<1>6. CASE ipmi_sol_deactivate \/ LoopReceivesNull \/ SelectFails \/ KeepaliveEnds
  <2>1. Rests
    BY <1>3, <1>6 DEF ipmi_sol_deactivate, LoopReceivesNull, SelectFails, KeepaliveEnds,
                      KeepaliveFailed, Ended, AtRest, netVars, histVars, Rests
  <2> QED
    BY <2>1 DEF Form
<1>7. CASE LoopReceives \/ KeepaliveReceives
  <2>1. /\ toCon # <<>> /\ toCon' = Tail(toCon) /\ toBmc' = Acked(toBmc, Head(toCon))
        /\ pc \in {"loop", "keepalive"}
        /\ UNCHANGED <<pc, solSeq, reused, unanswered, typed, bmc, resent, presumed>>
    BY <1>7 DEF LoopReceives, KeepaliveReceives, histVars
  <2>2. Shorter(toCon', toCon) /\ WithAck(toBmc', toBmc)
    BY <1>1, <2>1, TailOf, TailShorter, AckedWith
  <2>3. Rests
    BY <2>1, <2>2 DEF Rests, AtRest
  <2> QED
    BY <2>3 DEF Form
<1>8. CASE LateAnswer
  <2>1. UNCHANGED <<typed, bmc, toCon, resent>>
    BY <1>8 DEF LateAnswer
  <2>2. CASE pc = "loop" /\ UNCHANGED <<pc, solSeq, reused, unanswered, toBmc, presumed>>
    <3>1. Rests
      BY <1>3, <2>1, <2>2 DEF Rests, AtRest
    <3> QED
      BY <3>1 DEF Form
  <2>3. CASE pc = "send" /\ presumed' = TRUE /\ Sent(toBmc)
    <3>1. Presumes
      BY <1>3, <2>1, <2>3 DEF Sent, Ended, AtRest, Presumes
    <3> QED
      BY <3>1 DEF Form
  <2> QED
    BY <1>8, <2>2, <2>3 DEF LateAnswer
<1>9. CASE ipmi_lanplus_keepalive
  <2>1. /\ pc = "loop" /\ pc' = "keepalive"
        /\ UNCHANGED <<solSeq, reused, unanswered, typed, resent, presumed, bmc, toBmc, toCon>>
    BY <1>9 DEF ipmi_lanplus_keepalive, netVars
  <2>2. Rests
    BY <1>3, <2>1 DEF Rests, AtRest
  <2> QED
    BY <2>2 DEF Form
<1>10. ASSUME NEW n \in 1 .. Limit + 1, NEW quit \in BOOLEAN, processSolUserInput(n, quit)
       PROVE  Form
  <2> DEFINE buf == Chars(typed, typed + n)
             u == [NotSending EXCEPT !.buf = buf]
             s == [u EXCEPT !.quit = quit]
  <2>1. /\ pc = "loop" /\ typed' = typed + n /\ SendSol(s, buf, toBmc, unanswered)
        /\ UNCHANGED <<bmc, toCon, presumed, resent>>
    BY <1>10 DEF processSolUserInput, histVars
  <2>2. typed' \in Nat /\ typed + n \in Nat /\ typed <= typed + n /\ typed' > typed
    BY <1>1, <2>1, Constants
  <2>3. buf \in Seq(Nat)
    BY <1>1, <2>2, CharsType
  <2>4. buf = Chars(typed, typed')
    BY <2>1
  <2> HIDE DEF buf
  <2>5. u \in Sending /\ u.buf = buf /\ u.kind = "input"
    BY <2>3, NotSendingType DEF Sending, NotSending
  <2> HIDE DEF u
  <2>6. s \in Sending /\ s.buf = buf /\ s.kind = "input"
    BY <2>5 DEF Sending
  <2> HIDE DEF s
  <2>7. /\ TakesNumber(toBmc, unanswered) /\ snd'.pkt.data = buf /\ snd'.buf = s.buf
        /\ snd'.kind = s.kind
    BY <1>1, <2>1, <2>3, <2>6, SendSolForm
  <2>8. StartsInput
    BY <2>1, <2>2, <2>4, <2>6, <2>7 DEF StartsInput
  <2> QED
    BY <2>8 DEF Form
<1>11. ASSUME NEW kind \in {"break", "keepalive"}, SendEmpty(kind)
       PROVE  Form
  <2> DEFINE s == [NotSending EXCEPT !.kind = kind]
  <2>1. /\ pc = "loop" /\ SendSol(s, <<>>, toBmc, unanswered)
        /\ UNCHANGED <<bmc, toCon, typed, presumed, resent>>
    BY <1>11 DEF SendEmpty
  <2>2. s \in Sending /\ s.buf = <<>> /\ s.kind # "input"
    BY NotSendingType DEF Sending, NotSending
  <2>3. <<>> \in Seq(Nat)
    OBVIOUS
  <2> HIDE DEF s
  <2>4. /\ TakesNumber(toBmc, unanswered) /\ snd'.pkt.data = <<>> /\ snd'.buf = s.buf
        /\ snd'.kind = s.kind
    BY <1>1, <2>1, <2>2, <2>3, SendSolForm
  <2>5. StartsEmpty
    BY <2>1, <2>2, <2>4 DEF StartsEmpty
  <2> QED
    BY <2>5 DEF Form
<1>12. CASE SendReceives
  BY <1>12, ReceiveForm
<1>13. CASE SendTimeout
  BY <1>13, TimeoutForm
<1>14. CASE BmcPrints \/ BmcReceives \/ Lose
  BY <1>14, BmcForm
<1> QED
  BY <1>5, <1>6, <1>7, <1>8, <1>9, <1>10, <1>11, <1>12, <1>13, <1>14 DEF Next

-----------------------------------------------------------------------------
(* Every part of the invariant is kept. *)

LEMMA InputTypes ==
    ASSUME TypeOK
    PROVE  /\ toBmc \in Seq(Packet) /\ toCon \in Seq(Packet) /\ bmc \in Bmc /\ typed \in Nat
           /\ solSeq \in 1 .. MaxSeq + 1 /\ solSeq - 1 \in 0 .. MaxSeq
           /\ snd \in Sending /\ snd.pkt \in Packet /\ snd.buf \in Seq(Nat)
           /\ unanswered \in 0 .. MaxSeq
<1>1. /\ toBmc \in Seq(Packet) /\ toCon \in Seq(Packet) /\ bmc \in Bmc /\ typed \in Nat
      /\ solSeq \in 1 .. MaxSeq + 1 /\ snd \in Sending /\ unanswered \in 0 .. MaxSeq
  BY DEF TypeOK
<1>2. snd.pkt \in Packet /\ snd.buf \in Seq(Nat)
  BY <1>1 DEF Sending
<1>3. solSeq - 1 \in 0 .. MaxSeq
  BY <1>1, Constants
<1> QED
  BY <1>1, <1>2, <1>3, Constants

LEMMA InputTypesLater ==
    ASSUME TypeOK'
    PROVE  /\ toBmc' \in Seq(Packet) /\ toCon' \in Seq(Packet) /\ bmc' \in Bmc /\ typed' \in Nat
           /\ solSeq' \in 1 .. MaxSeq + 1
           /\ snd' \in Sending /\ snd'.pkt \in Packet /\ snd'.buf \in Seq(Nat)
           /\ unanswered' \in 0 .. MaxSeq
<1>1. /\ toBmc' \in Seq(Packet) /\ toCon' \in Seq(Packet) /\ bmc' \in Bmc /\ typed' \in Nat
      /\ solSeq' \in 1 .. MaxSeq + 1 /\ snd' \in Sending /\ unanswered' \in 0 .. MaxSeq
  BY DEF TypeOK
<1>2. snd'.pkt \in Packet /\ snd'.buf \in Seq(Nat)
  BY <1>1 DEF Sending
<1> QED
  BY <1>1, <1>2, Constants

LEMMA LastNumberNext ==
    ASSUME TypeOK, TypeOK', LastNumber, Form
    PROVE  LastNumber'
<1>1. solSeq \in 1 .. MaxSeq + 1
  BY InputTypes
<1>2. ASSUME NEW q, NEW n, TakesNumber(q, n)
      PROVE  snd'.pkt.seq = solSeq' - 1 /\ solSeq' >= 2
  <2>1. NextSolSeq \in 1 .. MaxSeq
    BY <1>1, NextSolSeqType
  <2>2. snd'.pkt.seq = NextSolSeq /\ solSeq' = NextSolSeq + 1
    BY <1>2 DEF TakesNumber
  <2> QED
    BY <2>1, <2>2, Constants
<1>3. CASE Rests \/ Activates
  BY <1>1, <1>3 DEF Rests, Activates, AtRest, LastNumber
<1>4. CASE StartsInput
  BY <1>1, <1>2, <1>4, Constants DEF StartsInput, LastNumber
<1>5. CASE StartsEmpty
  BY <1>1, <1>2, <1>5, Constants DEF StartsEmpty, LastNumber
<1>6. CASE Retries
  BY <1>1, <1>2, <1>6 DEF Retries, LastNumber
<1>7. ASSUME NEW q \in Seq(Packet), SendsRest(q)
      PROVE  LastNumber'
  BY <1>1, <1>2, <1>7 DEF SendsRest, LastNumber
<1>8. ASSUME NEW q \in Seq(Packet), Waits(q)
      PROVE  LastNumber'
  BY <1>8 DEF Waits, LastNumber
<1>9. CASE Acknowledged \/ Presumes \/ GivesUp
  BY <1>1, <1>9 DEF Acknowledged, Presumes, GivesUp, AtRest, LastNumber
<1>10. CASE Elsewhere
  BY <1>10 DEF Elsewhere, LastNumber
<1> QED
  BY <1>3, <1>4, <1>5, <1>6, <1>7, <1>8, <1>9, <1>10 DEF Form, Delivers, BmcTakes

(* A number that is not under way is taken. *)
LEMMA NumberTaken ==
    ASSUME TypeOK, TypeOK', NEW q \in Seq(Packet), NEW n, TakesNumber(q, n),
           Shorter(toCon', toCon), ~reused'
    PROVE  /\ ~reused /\ snd'.pkt.seq # 0
           /\ \A i \in 1 .. Len(q) : q[i].seq # snd'.pkt.seq
           /\ Numbers(toBmc', toCon', bmc', snd'.pkt)
<1>1. NextSolSeq # 0 /\ snd'.pkt.seq = NextSolSeq
  BY InputTypes, NextSolSeqType DEF TakesNumber
<1>2. ~reused /\ ~UnderWay(NextSolSeq, q)
  BY DEF TakesNumber
<1>3. /\ \A i \in 1 .. Len(q) : q[i].seq # snd'.pkt.seq
      /\ \A i \in 1 .. Len(toCon) : toCon[i].ack # snd'.pkt.seq
  BY <1>1, <1>2 DEF UnderWay
<1>4. \A i \in 1 .. Len(toCon') : toCon'[i].ack # snd'.pkt.seq
  BY <1>3 DEF Shorter, IsTail
<1>5. With(toBmc', q, snd'.pkt)
  BY DEF TakesNumber
<1>6. toBmc' \in Seq(Packet) /\ toCon' \in Seq(Packet)
  BY InputTypesLater
<1> QED
  BY <1>1, <1>2, <1>3, <1>4, <1>5, <1>6, NumbersNew

LEMMA NumbersNext ==
    ASSUME TypeOK, TypeOK', LastNumber, NumbersInv, Form
    PROVE  NumbersInv'
<1> SUFFICES ASSUME ~reused', pc' = "send"
             PROVE  Numbers(toBmc', toCon', bmc', snd'.pkt)
  BY DEF NumbersInv
<1>1. /\ toBmc \in Seq(Packet) /\ toCon \in Seq(Packet) /\ toBmc' \in Seq(Packet)
      /\ toCon' \in Seq(Packet) /\ solSeq \in 1 .. MaxSeq + 1
  BY InputTypes, InputTypesLater
<1>2. pc = "send" => snd.pkt.seq # 0
  BY <1>1 DEF LastNumber
<1>3. Shorter(toCon, toCon)
  BY DEF Shorter
<1>4. CASE StartsInput \/ StartsEmpty \/ Retries
  <2>1. TakesNumber(toBmc, unanswered) /\ toCon' = toCon
    BY <1>4 DEF StartsInput, StartsEmpty, Retries
  <2> QED
    BY <1>1, <1>3, <2>1, NumberTaken
<1>5. ASSUME NEW q \in Seq(Packet), SendsRest(q)
      PROVE  Numbers(toBmc', toCon', bmc', snd'.pkt)
  <2>1. TakesNumber(q, Answered) /\ Shorter(toCon', toCon)
    BY <1>5 DEF SendsRest, HeadAcks, Shorter
  <2> QED
    BY <2>1, NumberTaken
<1>6. ASSUME NEW q \in Seq(Packet), Waits(q)
      PROVE  Numbers(toBmc', toCon', bmc', snd'.pkt)
  <2>1. Numbers(toBmc, toCon, bmc, snd.pkt) /\ snd.pkt.seq # 0
    BY <1>2, <1>6 DEF Waits, NumbersInv
  <2>2. Numbers(q, toCon, bmc, snd.pkt)
    BY <1>1, <1>6, <2>1, NumbersAppend DEF Waits, WithAck
  <2>3. Numbers(toBmc', toCon, bmc, snd.pkt)
    BY <1>1, <1>6, <2>1, <2>2, NumbersAppend DEF Waits, With
  <2>4. Shorter(toBmc', toBmc') /\ Shorter(toCon', toCon) /\ bmc' = bmc /\ snd'.pkt = snd.pkt
    BY <1>6 DEF Waits, Shorter
  <2> QED
    BY <1>1, <2>3, <2>4, NumbersShorter
<1>7. CASE Delivers
  <2>1. /\ Numbers(toBmc, toCon, bmc, snd.pkt) /\ snd.pkt.seq # 0 /\ snd' = snd
        /\ SameInput(bmc, bmc') /\ Shorter(toBmc', toBmc)
    BY <1>2, <1>7 DEF Delivers, Elsewhere, NumbersInv
  <2>2. Numbers(toBmc', toCon, bmc, snd.pkt)
    BY <1>1, <1>3, <2>1, NumbersShorter
  <2>3. Numbers(toBmc', toCon', bmc, snd.pkt)
    <3>1. CASE Shorter(toCon', toCon)
      BY <1>1, <2>1, <3>1, NumbersShorter
    <3>2. ASSUME NEW a \in Packet, a.ack = 0, With(toCon', toCon, a)
          PROVE  Numbers(toBmc', toCon', bmc, snd.pkt)
      BY <1>1, <2>1, <2>2, <3>2, NumbersAnswer
    <3> QED
      BY <1>7, <3>1, <3>2 DEF Delivers
  <2> QED
    BY <2>1, <2>3 DEF SameInput, Numbers
<1>8. ASSUME NEW a \in Packet, BmcTakes(a)
      PROVE  Numbers(toBmc', toCon', bmc', snd'.pkt)
  <2>1. Numbers(toBmc, toCon, bmc, snd.pkt) /\ snd.pkt.seq # 0 /\ snd' = snd
    BY <1>2, <1>8 DEF BmcTakes, Elsewhere, NumbersInv
  <2> QED
    BY <1>1, <1>8, <2>1, NumbersTake DEF BmcTakes
<1>9. CASE Rests \/ Activates \/ Acknowledged \/ Presumes \/ GivesUp
  BY <1>9 DEF Rests, Activates, Acknowledged, Presumes, GivesUp, AtRest
<1> QED
  BY <1>4, <1>5, <1>6, <1>7, <1>8, <1>9 DEF Form

(* An exception once met stays. *)
LEMMA KeptBefore ==
    ASSUME TypeOK, Form, Kept'
    PROVE  Kept
<1>1. unanswered \in 0 .. MaxSeq /\ MaxSeq \in Nat
  BY InputTypes, Constants
<1>2. presumed' = presumed \/ presumed' = TRUE \/ Acknowledged
  BY DEF Form, Rests, Activates, StartsInput, StartsEmpty, Retries, SendsRest, Presumes, GivesUp,
         Waits, Delivers, BmcTakes, Elsewhere
<1>3. ~presumed
  BY <1>2 DEF Kept, Acknowledged
<1>4. unanswered = MaxSeq => unanswered' = MaxSeq
  BY DEF Form, Rests, Activates, StartsInput, StartsEmpty, Retries, SendsRest, Acknowledged,
         Presumes, GivesUp, Waits, Delivers, BmcTakes, Elsewhere, TakesNumber, Answered
<1> QED
  BY <1>1, <1>3, <1>4 DEF Kept

(* Nothing young enough has the next number. *)
LEMMA AgesNumber ==
    ASSUME TypeOK, TypeOK', NEW q \in Seq(Packet), NEW n, TakesNumber(q, n), bmc' = bmc,
           Shorter(toCon', toCon), NEW w \in Nat, w + 1 < MaxSeq, ~reused,
           Ages(q, toCon, bmc, solSeq - 1, w)
    PROVE  /\ ~reused' /\ bmc.inSeq # snd'.pkt.seq
           /\ Ages(toBmc', toCon', bmc', solSeq' - 1, w + 1)
<1> DEFINE c == solSeq - 1
<1>1. c \in 0 .. MaxSeq /\ toCon \in Seq(Packet) /\ bmc \in Bmc /\ solSeq \in 1 .. MaxSeq + 1
  BY InputTypes
<1>2. NextSolSeq = After1(c) /\ NextSolSeq \in Nat
  BY <1>1, Constants DEF NextSolSeq, After1
<1>3. /\ snd'.pkt.seq = NextSolSeq /\ solSeq' = NextSolSeq + 1
      /\ reused' = (reused \/ UnderWay(NextSolSeq, q)) /\ With(toBmc', q, snd'.pkt)
  BY DEF TakesNumber
<1>4. solSeq' - 1 = After1(c)
  BY <1>2, <1>3
<1>5. toBmc' \in Seq(Packet) /\ toCon' \in Seq(Packet)
  BY InputTypesLater
<1> HIDE DEF c
<1>6. Ages(q, toCon, bmc, c, w)
  BY DEF c
<1>7. /\ Ages(toBmc', toCon, bmc, After1(c), w + 1)
      /\ \A i \in 1 .. Len(q) : q[i].seq # snd'.pkt.seq
      /\ \A i \in 1 .. Len(toCon) : toCon[i].ack # snd'.pkt.seq
      /\ bmc.inSeq # snd'.pkt.seq
  <2>1. snd'.pkt.seq = After1(c)
    BY <1>2, <1>3
  <2> QED
    BY <1>1, <1>3, <1>5, <1>6, <2>1, AgesNew
<1>8. ~UnderWay(NextSolSeq, q)
  BY <1>3, <1>7 DEF UnderWay
<1>9. Ages(toBmc', toCon', bmc, After1(c), w + 1)
  <2>1. Shorter(toBmc', toBmc')
    BY DEF Shorter
  <2> QED
    BY <1>1, <1>5, <1>7, <2>1, AgesShorter
<1> QED
  BY <1>3, <1>4, <1>7, <1>8, <1>9

(* The number taken, the state of the BMC and the ages behind a step that  *)
(* sends something new.                                                    *)
AgesTaken ==
    /\ ~reused' /\ bmc.inSeq # snd'.pkt.seq
    /\ Ages(toBmc', toCon', bmc', solSeq' - 1, unanswered')

LEMMA AgesStart ==
    ASSUME TypeOK, TypeOK', AgesInv, Kept, Kept', StartsInput \/ StartsEmpty \/ Retries
    PROVE  AgesTaken
<1>1. TakesNumber(toBmc, unanswered) /\ toCon' = toCon /\ bmc' = bmc
  BY DEF StartsInput, StartsEmpty, Retries
<1>2. ~reused /\ Ages(toBmc, toCon, bmc, solSeq - 1, unanswered)
  BY DEF AgesInv
<1>3. unanswered \in Nat /\ unanswered' = unanswered + 1 /\ unanswered + 1 < MaxSeq
  BY <1>1, InputTypes, Constants DEF TakesNumber, Kept
<1>4. toBmc \in Seq(Packet) /\ Shorter(toCon', toCon)
  BY <1>1, InputTypes DEF Shorter
<1>5. /\ ~reused' /\ bmc.inSeq # snd'.pkt.seq
      /\ Ages(toBmc', toCon', bmc', solSeq' - 1, unanswered + 1)
  BY <1>1, <1>2, <1>3, <1>4, AgesNumber
<1> QED
  BY <1>3, <1>5 DEF AgesTaken

LEMMA AgesRest ==
    ASSUME TypeOK, TypeOK', LastNumber, NumbersInv, AgesInv, Kept, Kept',
           NEW q \in Seq(Packet), SendsRest(q)
    PROVE  AgesTaken
<1>1. /\ pc = "send" /\ HeadAcks /\ WithAck(q, toBmc) /\ TakesNumber(q, Answered) /\ bmc' = bmc
  BY DEF SendsRest
<1>2. ~reused /\ Numbers(toBmc, toCon, bmc, snd.pkt)
  BY <1>1 DEF AgesInv, NumbersInv
<1>3. /\ toBmc \in Seq(Packet) /\ toCon \in Seq(Packet) /\ snd.pkt \in Packet
      /\ solSeq \in 1 .. MaxSeq + 1
  BY InputTypes
<1>4. snd.pkt.seq = solSeq - 1 /\ solSeq - 1 \in 1 .. MaxSeq
  BY <1>1, <1>3, Constants DEF LastNumber
<1>5. Answered = 0 /\ unanswered' = 0 + 1 /\ 0 + 1 < MaxSeq /\ 0 \in Nat
  BY <1>1, InputTypes, Constants DEF TakesNumber, Answered, Kept
<1>6. Ages(toBmc, toCon, bmc, snd.pkt.seq, 0)
  BY <1>1, <1>2, <1>3, <1>4, AgesAcknowledged DEF HeadAcks
<1>7. Ages(q, toCon, bmc, solSeq - 1, 0)
  BY <1>1, <1>3, <1>4, <1>6, AgesAppend DEF WithAck
<1>8. Shorter(toCon', toCon)
  BY <1>1 DEF HeadAcks, Shorter
<1>9. /\ ~reused' /\ bmc.inSeq # snd'.pkt.seq
      /\ Ages(toBmc', toCon', bmc', solSeq' - 1, 0 + 1)
  BY <1>1, <1>2, <1>5, <1>7, <1>8, AgesNumber
<1> QED
  BY <1>5, <1>9 DEF AgesTaken

LEMMA AgesNextStep ==
    ASSUME TypeOK, TypeOK', LastNumber, NumbersInv, AgesInv, Form
    PROVE  AgesInv'
<1> SUFFICES ASSUME Kept'
             PROVE  ~reused' /\ Ages(toBmc', toCon', bmc', solSeq' - 1, unanswered')
  BY DEF AgesInv
<1>1. /\ toBmc \in Seq(Packet) /\ toCon \in Seq(Packet) /\ bmc \in Bmc /\ solSeq - 1 \in 0 .. MaxSeq
      /\ solSeq \in 1 .. MaxSeq + 1 /\ unanswered \in Nat
  BY InputTypes, Constants
<1>2. toBmc' \in Seq(Packet) /\ toCon' \in Seq(Packet) /\ bmc' \in Bmc
  BY InputTypesLater
<1>3. Kept /\ ~reused /\ Ages(toBmc, toCon, bmc, solSeq - 1, unanswered)
  BY KeptBefore DEF AgesInv
<1>4. Shorter(toBmc', toBmc') /\ Shorter(toCon', toCon')
  BY DEF Shorter
<1>5. CASE StartsInput \/ StartsEmpty \/ Retries
  BY <1>3, <1>5, AgesStart DEF AgesTaken
<1>6. ASSUME NEW q \in Seq(Packet), SendsRest(q)
      PROVE  ~reused' /\ Ages(toBmc', toCon', bmc', solSeq' - 1, unanswered')
  BY <1>3, <1>6, AgesRest DEF AgesTaken
<1>7. ASSUME NEW r \in Seq(Packet), WithAck(r, toBmc), NEW w,
             Ages(toBmc, toCon, bmc, solSeq - 1, w)
      PROVE  Ages(r, toCon, bmc, solSeq - 1, w)
  BY <1>1, <1>7, AgesAppend DEF WithAck
<1>8. CASE Rests
  <2>1. /\ UNCHANGED <<solSeq, reused, unanswered, bmc>>
        /\ Shorter(toCon', toCon) /\ WithAck(toBmc', toBmc)
    BY <1>8 DEF Rests
  <2>2. Ages(toBmc', toCon, bmc, solSeq - 1, unanswered)
    BY <1>2, <1>3, <1>7, <2>1
  <2>3. Ages(toBmc', toCon', bmc, solSeq - 1, unanswered)
    BY <1>1, <1>2, <1>4, <2>1, <2>2, AgesShorter
  <2> QED
    BY <1>3, <2>1, <2>3
<1>9. CASE Activates
  <2>1. UNCHANGED <<solSeq, reused>> /\ toBmc' = <<>> /\ toCon' = <<>> /\ bmc'.inSeq = 0
    BY <1>9 DEF Activates
  <2>2. Len(<<>>) = 0 /\ 1 .. 0 = {}
    OBVIOUS
  <2> QED
    BY <1>3, <2>1, <2>2 DEF Ages
<1>10. ASSUME NEW q \in Seq(Packet), Waits(q)
       PROVE  ~reused' /\ Ages(toBmc', toCon', bmc', solSeq' - 1, unanswered')
  <2>1. /\ UNCHANGED <<solSeq, reused, unanswered, bmc>> /\ pc = "send"
        /\ Shorter(toCon', toCon) /\ WithAck(q, toBmc) /\ With(toBmc', q, snd.pkt)
    BY <1>10 DEF Waits
  <2>2. Ages(q, toCon, bmc, solSeq - 1, unanswered)
    BY <1>3, <1>7, <2>1
  <2>3. snd.pkt.seq = solSeq - 1 /\ solSeq - 1 \in 1 .. MaxSeq
    BY <1>1, <2>1, Constants DEF LastNumber
  <2>4. Age(snd.pkt.seq, solSeq - 1) <= unanswered
    BY <1>1, <2>3, AgeSame
  <2>5. Ages(toBmc', toCon, bmc, solSeq - 1, unanswered)
    BY <1>1, <1>2, <2>1, <2>2, <2>4, AgesAppend DEF With
  <2>6. Ages(toBmc', toCon', bmc, solSeq - 1, unanswered)
    BY <1>1, <1>2, <1>4, <2>1, <2>5, AgesShorter
  <2> QED
    BY <1>3, <2>1, <2>6
<1>11. CASE Acknowledged
  <2>1. /\ UNCHANGED <<solSeq, reused, bmc>> /\ pc = "send" /\ HeadAcks
        /\ WithAck(toBmc', toBmc) /\ unanswered' = Answered
    BY <1>11 DEF Acknowledged
  <2>2. Numbers(toBmc, toCon, bmc, snd.pkt)
    BY <1>3, <2>1 DEF NumbersInv
  <2>3. snd.pkt.seq = solSeq - 1 /\ solSeq - 1 \in 1 .. MaxSeq
    BY <1>1, <2>1, Constants DEF LastNumber
  <2>4. unanswered' = 0 /\ 0 \in Nat
    BY <1>1, <1>3, <2>1, Constants DEF Answered, Kept
  <2>5. Ages(toBmc, toCon, bmc, solSeq - 1, 0)
    BY <1>1, <2>1, <2>2, <2>3, <2>4, AgesAcknowledged DEF HeadAcks
  <2>6. Ages(toBmc', toCon, bmc, solSeq - 1, 0)
    BY <1>2, <1>7, <2>1, <2>5
  <2>7. Shorter(toCon', toCon)
    BY <2>1 DEF HeadAcks, Shorter
  <2>8. Ages(toBmc', toCon', bmc, solSeq - 1, 0)
    BY <1>1, <1>2, <1>4, <2>6, <2>7, AgesShorter
  <2> QED
    BY <1>3, <2>1, <2>4, <2>8
<1>12. CASE Presumes
  BY <1>12 DEF Presumes, Kept
<1>13. CASE GivesUp
  BY <1>3, <1>13 DEF GivesUp
<1>14. CASE Delivers
  <2>1. /\ UNCHANGED <<solSeq, reused, unanswered>> /\ SameInput(bmc, bmc')
        /\ Shorter(toBmc', toBmc)
    BY <1>14 DEF Delivers, Elsewhere
  <2>2. Ages(toBmc', toCon', bmc, solSeq - 1, unanswered)
    <3>1. CASE Shorter(toCon', toCon)
      BY <1>1, <1>2, <1>3, <2>1, <3>1, AgesShorter
    <3>2. ASSUME NEW a \in Packet, a.ack = 0, With(toCon', toCon, a)
          PROVE  Ages(toBmc', toCon', bmc, solSeq - 1, unanswered)
      <4>1. Shorter(toCon, toCon)
        BY DEF Shorter
      <4>2. Ages(toBmc', toCon, bmc, solSeq - 1, unanswered)
        BY <1>1, <1>2, <1>3, <2>1, <4>1, AgesShorter
      <4> QED
        BY <1>1, <1>2, <3>2, <4>2, AgesAnswer
    <3> QED
      BY <1>14, <3>1, <3>2 DEF Delivers
  <2> QED
    BY <1>3, <2>1, <2>2 DEF SameInput, Ages
<1>15. ASSUME NEW a \in Packet, BmcTakes(a)
       PROVE  ~reused' /\ Ages(toBmc', toCon', bmc', solSeq' - 1, unanswered')
  <2>1. /\ UNCHANGED <<solSeq, reused, unanswered>>
        /\ IsTail(toBmc', toBmc) /\ toBmc[1].seq # 0 /\ Takes(bmc, bmc', toBmc[1])
        /\ a.ack = toBmc[1].seq /\ With(toCon', toCon, a)
    BY <1>15 DEF BmcTakes, Elsewhere
  <2>2. Ages(toBmc', toCon', bmc', solSeq - 1, unanswered)
    BY <1>1, <1>2, <1>3, <2>1, AgesTake
  <2> QED
    BY <1>3, <2>1, <2>2
<1> QED
  BY <1>5, <1>6, <1>8, <1>9, <1>10, <1>11, <1>12, <1>13, <1>14, <1>15 DEF Form

(* What is left of a sequence behind its first m elements. *)
IsRest(t, s, m) ==
    /\ t \in Seq(Nat) /\ Len(t) \in Nat /\ Elements(t) \subseteq Elements(s)
    /\ \A i \in 1 .. Len(t) : t[i] = s[m + i] /\ m + i \in m + 1 .. Len(s)
    /\ m <= Len(s) => Len(t) = Len(s) - m

LEMMA RestOf ==
    ASSUME NEW s \in Seq(Nat), NEW m \in Nat
    PROVE  IsRest(SubSeq(s, m + 1, Len(s)), s, m)
<1> DEFINE t == SubSeq(s, m + 1, Len(s))
<1>1. Len(s) \in Nat
  OBVIOUS
<1>2. t \in Seq(Nat)
  <2>1. \A i \in m + 1 .. Len(s) : i \in 1 .. Len(s)
    BY <1>1
  <2> QED
    BY <1>1, <2>1
<1>3. Len(t) = IF m + 1 <= Len(s) THEN Len(s) - m ELSE 0
  BY <1>1
<1>4. \A i \in 1 .. Len(t) : t[i] = s[m + i] /\ m + i \in m + 1 .. Len(s)
  BY <1>1, <1>3
<1>5. \A i \in 1 .. Len(t) : m + i \in 1 .. Len(s)
  BY <1>1, <1>4
<1>6. Elements(t) \subseteq Elements(s)
  BY <1>4, <1>5 DEF Elements
<1>7. m <= Len(s) => Len(t) = Len(s) - m
  BY <1>1, <1>3
<1>8. Len(t) \in Nat
  BY <1>2
<1> HIDE DEF t
<1>9. IsRest(t, s, m)
  BY <1>2, <1>4, <1>6, <1>7, <1>8 DEF IsRest
<1> QED
  BY <1>9, Zenon DEF t

LEMMA ConcatElements ==
    ASSUME NEW s \in Seq(Nat), NEW t \in Seq(Nat)
    PROVE  Elements(s \o t) \subseteq Elements(s) \cup Elements(t)
<1>1. Len(s) \in Nat /\ Len(t) \in Nat /\ Len(s \o t) = Len(s) + Len(t)
  BY ConcatProperties
<1> SUFFICES ASSUME NEW i \in 1 .. Len(s \o t)
             PROVE  (s \o t)[i] \in Elements(s) \cup Elements(t)
  BY DEF Elements
<1>2. CASE i <= Len(s)
  <2>1. i \in 1 .. Len(s) /\ (s \o t)[i] = s[i]
    BY <1>1, <1>2
  <2> QED
    BY <2>1 DEF Elements
<1>3. CASE ~(i <= Len(s))
  <2>1. i - Len(s) \in 1 .. Len(t) /\ (s \o t)[i] = t[i - Len(s)]
    BY <1>1, <1>3
  <2> QED
    BY <2>1 DEF Elements
<1> QED
  BY <1>2, <1>3

LEMMA UpToElements ==
    ASSUME NEW s, NEW n
    PROVE  UpTo(s, n) <=> Elements(s) \subseteq 1 .. n
BY DEF UpTo, Elements

(* What the user types is new. *)
LEMMA NewInput ==
    ASSUME NEW n \in Nat, NEW m \in Nat, n < m
    PROVE  /\ UpTo(Chars(n, m), m) /\ Increasing(Chars(n, m))
           /\ 1 .. m \subseteq 1 .. n \cup Elements(Chars(n, m))
           /\ \A s : UpTo(s, n) => Below(s, Chars(n, m))
<1> DEFINE c == Chars(n, m)
<1>1. Len(c) = m - n /\ \A i \in 1 .. m - n : c[i] = n + i
  BY CharsType
<1> HIDE DEF c
<1>2. UpTo(c, m) /\ Increasing(c)
  BY <1>1 DEF UpTo, Increasing
<1>3. ASSUME NEW x \in 1 .. m, x \notin 1 .. n
      PROVE  x \in Elements(c)
  <2>1. x - n \in 1 .. m - n /\ n + (x - n) = x
    BY <1>3
  <2>2. c[x - n] = x
    BY <1>1, <2>1
  <2> QED
    BY <1>1, <2>1, <2>2 DEF Elements
<1>4. ASSUME NEW s, UpTo(s, n), NEW i \in 1 .. Len(s), NEW j \in 1 .. Len(c)
      PROVE  s[i] < c[j]
  <2>1. s[i] \in 1 .. n /\ c[j] = n + j /\ j \in 1 .. m - n
    BY <1>1, <1>4 DEF UpTo
  <2> QED
    BY <2>1
<1>5. \A s : UpTo(s, n) => Below(s, c)
  BY <1>4 DEF Below
<1> QED
  BY <1>2, <1>3, <1>5 DEF c

(* What is left of the packet d, and of the caller's buffer, behind an     *)
(* acknowledgement of a characters.                                        *)
IsLeft(rest, buf, d, a, old) ==
    /\ rest \in Seq(Nat) /\ Len(rest) = Len(d) - a
    /\ \A i \in 1 .. Len(rest) : rest[i] = d[a + i] /\ a + i \in a + 1 .. Len(d)
    /\ Elements(rest) \subseteq Elements(d) /\ Elements(rest) \subseteq Elements(buf)
    /\ Elements(buf) \subseteq Elements(d) \cup Elements(old)

LEMMA RestBuffer ==
    ASSUME NEW d \in Seq(Nat), NEW a \in Nat, a < Len(d), NEW old \in Seq(Nat),
           NEW rest, rest = SubSeq(d, a + 1, Len(d)),
           NEW buf, buf = rest \o SubSeq(old, Len(rest) + 1, Len(old))
    PROVE  IsLeft(rest, buf, d, a, old)
<1> DEFINE tail == SubSeq(old, Len(rest) + 1, Len(old))
<1>1. IsRest(rest, d, a)
  BY RestOf, Zenon
<1>2. a <= Len(d)
  OBVIOUS
<1>3. IsRest(tail, old, Len(rest)) /\ buf = rest \o tail
  BY <1>1, RestOf, Zenon DEF IsRest
<1> HIDE DEF tail
<1>4. Elements(buf) \subseteq Elements(rest) \cup Elements(tail)
  BY <1>1, <1>3, ConcatElements DEF IsRest
<1>5. Elements(rest) \subseteq Elements(buf)
  <2>1. Len(rest \o tail) = Len(rest) + Len(tail) /\ Len(tail) \in Nat
    BY <1>1, <1>3, ConcatProperties DEF IsRest
  <2>2. \A i \in 1 .. Len(rest) : i \in 1 .. Len(rest \o tail)
    BY <1>1, <2>1 DEF IsRest
  <2>3. \A i \in 1 .. Len(rest) : (rest \o tail)[i] = rest[i]
    BY <1>1, <1>3 DEF IsRest
  <2> QED
    BY <1>3, <2>2, <2>3 DEF Elements
<1> QED
  BY <1>1, <1>2, <1>3, <1>4, <1>5 DEF IsRest, IsLeft

LEMMA RestParts ==
    ASSUME TypeOK, NEW q, SendsRest(q), NEW a, a = toCon[1].accepted
    PROVE  /\ a \in Nat /\ a < Len(snd.pkt.data) /\ Length(snd.pkt) = Len(snd.pkt.data)
           /\ IsLeft(snd'.pkt.data, snd'.buf, snd.pkt.data, a, snd.buf)
<1>1. Length(snd.pkt) = Len(snd.pkt.data)
  BY DEF Length
<1>2. /\ toCon # <<>> /\ a < Len(snd.pkt.data)
      /\ snd'.pkt.data = SubSeq(snd.pkt.data, a + 1, Len(snd.pkt.data))
      /\ snd'.buf = snd'.pkt.data \o SubSeq(snd.buf, Len(snd'.pkt.data) + 1, Len(snd.buf))
  BY <1>1, Zenon DEF SendsRest, HeadAcks
<1>3. toCon[1] \in Packet
  BY <1>2, InputTypes, TailOf
<1>4. a \in Nat /\ snd.pkt.data \in Seq(Nat) /\ snd.buf \in Seq(Nat)
  BY <1>3, InputTypes, PacketParts
<1>5. IsLeft(snd'.pkt.data, snd'.buf, snd.pkt.data, a, snd.buf)
  BY <1>2, <1>4, RestBuffer, Zenon
<1> QED
  BY <1>1, <1>2, <1>4, <1>5

LEMMA ValuesNext ==
    ASSUME TypeOK, TypeOK', ValuesInv, Form
    PROVE  ValuesInv'
<1> DEFINE Sends(s, n) == /\ UpTo(s.buf, n) /\ Elements(s.pkt.data) \subseteq Elements(s.buf)
                          /\ s.kind # "input" => Elements(s.buf) = {}
<1>1. /\ toBmc \in Seq(Packet) /\ bmc \in Bmc /\ typed \in Nat
      /\ toBmc' \in Seq(Packet) /\ bmc' \in Bmc
  BY InputTypes, InputTypesLater
<1>2. Typed(toBmc, bmc, typed) /\ (pc = "send" => Sends(snd, typed))
  BY DEF ValuesInv, Typed
<1>3. ASSUME Typed(toBmc', bmc', typed'), pc' = "send" => Sends(snd', typed')
      PROVE  ValuesInv'
  BY <1>3 DEF ValuesInv, Typed
<1>4. ASSUME NEW s, NEW n, Sends(s, n)
      PROVE  UpTo(s.pkt.data, n)
  BY <1>4, UpToElements
<1> HIDE DEF Sends
<1>5. ASSUME NEW r \in Seq(Packet), WithAck(r, toBmc)
      PROVE  Typed(r, bmc, typed)
  BY <1>1, <1>2, <1>5, TypedAppend DEF WithAck
<1>6. ASSUME NEW q \in Seq(Packet), NEW n, TakesNumber(q, n), bmc' = bmc, Typed(q, bmc, typed'),
             Sends(snd', typed')
      PROVE  ValuesInv'
  <2>1. With(toBmc', q, snd'.pkt) /\ UpTo(snd'.pkt.data, typed')
    BY <1>4, <1>6 DEF TakesNumber
  <2>2. Typed(toBmc', bmc', typed')
    BY <1>1, <1>6, <2>1, TypedAppend DEF With
  <2> QED
    BY <1>3, <1>6, <2>2
<1>7. Elements(<<>>) = {}
  BY DEF Elements
<1>8. CASE Rests \/ Acknowledged \/ Presumes
  <2>1. bmc' = bmc /\ typed' = typed /\ WithAck(toBmc', toBmc) /\ pc' # "send"
    BY <1>8 DEF Rests, Acknowledged, Presumes, AtRest
  <2> QED
    BY <1>1, <1>3, <1>5, <2>1
<1>9. CASE Activates
  <2>1. toBmc' = <<>> /\ bmc'.got = bmc.got /\ typed' = typed /\ pc' # "send" /\ Len(<<>>) = 0
    BY <1>9 DEF Activates
  <2>2. Typed(toBmc', bmc', typed')
    BY <1>2, <2>1 DEF Typed
  <2> QED
    BY <1>3, <2>1, <2>2
<1>10. CASE StartsInput
  <2>1. /\ TakesNumber(toBmc, unanswered) /\ bmc' = bmc /\ typed' \in Nat /\ typed < typed'
        /\ snd'.kind = "input" /\ snd'.buf = snd'.pkt.data /\ snd'.pkt.data = Chars(typed, typed')
    BY <1>1, <1>10 DEF StartsInput
  <2>2. Typed(toBmc, bmc, typed')
    BY <1>1, <1>2, <2>1, TypedMore
  <2>3. UpTo(Chars(typed, typed'), typed')
    BY <1>1, <2>1, NewInput
  <2>4. Sends(snd', typed')
    BY <2>1, <2>3 DEF Sends
  <2> QED
    BY <1>1, <1>6, <2>1, <2>2, <2>4
<1>11. CASE StartsEmpty
  <2>1. /\ TakesNumber(toBmc, unanswered) /\ bmc' = bmc /\ typed' = typed
        /\ snd'.buf = <<>> /\ snd'.pkt.data = <<>>
    BY <1>11 DEF StartsEmpty
  <2>2. Sends(snd', typed')
    BY <1>7, <2>1, UpToElements DEF Sends
  <2> QED
    BY <1>1, <1>2, <1>6, <2>1, <2>2
<1>12. CASE Retries
  <2>1. /\ TakesNumber(toBmc, unanswered) /\ bmc' = bmc /\ typed' = typed /\ pc = "send"
        /\ snd'.kind = "input" /\ snd'.buf = snd.buf /\ snd'.pkt.data = snd.buf
    BY <1>12 DEF Retries
  <2>2. Sends(snd', typed')
    BY <1>2, <2>1 DEF Sends
  <2> QED
    BY <1>1, <1>2, <1>6, <2>1, <2>2
<1>13. ASSUME NEW q \in Seq(Packet), SendsRest(q)
       PROVE  ValuesInv'
  <2>1. /\ TakesNumber(q, Answered) /\ WithAck(q, toBmc) /\ bmc' = bmc /\ typed' = typed /\ pc = "send"
        /\ snd'.kind = snd.kind
    BY <1>13 DEF SendsRest
  <2>2. /\ Elements(snd'.pkt.data) \subseteq Elements(snd'.buf)
        /\ Elements(snd'.buf) \subseteq Elements(snd.pkt.data) \cup Elements(snd.buf)
    BY <1>13, RestParts DEF IsLeft
  <2>3. Elements(snd'.buf) \subseteq Elements(snd.buf)
    BY <1>2, <2>1, <2>2 DEF Sends
  <2>4. UpTo(snd'.buf, typed)
    BY <1>2, <2>1, <2>3, UpToElements DEF Sends
  <2>5. Sends(snd', typed')
    BY <1>2, <2>1, <2>2, <2>3, <2>4 DEF Sends
  <2> QED
    BY <1>5, <1>6, <2>1, <2>5
<1>14. ASSUME NEW q \in Seq(Packet), Waits(q)
       PROVE  ValuesInv'
  <2>1. /\ pc = "send" /\ WithAck(q, toBmc) /\ With(toBmc', q, snd.pkt) /\ bmc' = bmc
        /\ snd'.pkt = snd.pkt /\ snd'.buf = snd.buf /\ snd'.kind = snd.kind /\ typed' = typed
    BY <1>14 DEF Waits
  <2>2. Typed(q, bmc, typed) /\ UpTo(snd.pkt.data, typed)
    BY <1>2, <1>4, <1>5, <2>1
  <2>3. Typed(toBmc', bmc, typed)
    BY <1>1, <2>1, <2>2, TypedAppend DEF With
  <2>4. Sends(snd', typed')
    BY <1>2, <2>1 DEF Sends
  <2> QED
    BY <1>3, <2>1, <2>3, <2>4
<1>15. CASE GivesUp
  <2>1. UNCHANGED <<bmc, toBmc, typed>> /\ pc' # "send"
    BY <1>15 DEF GivesUp
  <2> QED
    BY <1>2, <1>3, <2>1
<1>16. CASE Delivers
  <2>1. UNCHANGED <<pc, snd, typed>> /\ SameInput(bmc, bmc') /\ Shorter(toBmc', toBmc)
    BY <1>16 DEF Delivers, Elsewhere
  <2>2. Typed(toBmc', bmc, typed)
    BY <1>1, <1>2, <2>1, TypedShorter
  <2>3. Typed(toBmc', bmc', typed')
    BY <2>1, <2>2 DEF SameInput, Typed
  <2> QED
    BY <1>2, <1>3, <2>1, <2>3
<1>17. ASSUME NEW a \in Packet, BmcTakes(a)
       PROVE  ValuesInv'
  <2>1. /\ UNCHANGED <<pc, snd, typed>> /\ IsTail(toBmc', toBmc) /\ toBmc[1].seq # 0
        /\ Takes(bmc, bmc', toBmc[1])
    BY <1>17 DEF BmcTakes, Elsewhere
  <2>2. Typed(toBmc', bmc', typed')
    BY <1>1, <1>2, <2>1, TypedTake
  <2> QED
    BY <1>2, <1>3, <2>1, <2>2
<1> QED
  BY <1>8, <1>9, <1>10, <1>11, <1>12, <1>13, <1>14, <1>15, <1>16, <1>17 DEF Form

(* What an acknowledgement of the packet sent tells. *)
LEMMA AckParts ==
    ASSUME TypeOK, LastNumber, NumbersInv, ~reused, pc = "send", HeadAcks
    PROVE  /\ bmc.inSeq = snd.pkt.seq /\ toCon[1].accepted = bmc.inAccepted /\ snd.pkt.seq # 0
           /\ \A j \in 1 .. Len(toBmc) : toBmc[j].seq \in {0, snd.pkt.seq}
<1>1. Numbers(toBmc, toCon, bmc, snd.pkt)
  BY DEF NumbersInv
<1>2. 1 \in 1 .. Len(toCon) /\ toCon[1].ack = snd.pkt.seq
  BY InputTypes, TailOf DEF HeadAcks
<1>3. snd.pkt.seq # 0
  BY InputTypes DEF LastNumber
<1> QED
  BY <1>1, <1>2, <1>3 DEF Numbers

LEMMA WholeNext ==
    ASSUME TypeOK, TypeOK', LastNumber, NumbersInv, AgesInv, ValuesInv, WholeInv, Form
    PROVE  WholeInv'
<1> SUFFICES ASSUME Kept'
             PROVE  /\ pc' \in AtRest => 1 .. typed' \subseteq Elements(bmc'.got)
                    /\ pc' = "send" => Whole(bmc', snd'.pkt, typed')
  BY DEF WholeInv, AtRest
<1>1. /\ toBmc \in Seq(Packet) /\ bmc \in Bmc /\ bmc' \in Bmc /\ typed \in Nat
      /\ snd.pkt \in Packet
  BY InputTypes, InputTypesLater
<1>0. Kept
  BY KeptBefore
<1>2. ASSUME pc \in AtRest
      PROVE  1 .. typed \subseteq Elements(bmc.got)
  BY <1>0, <1>2 DEF WholeInv, AtRest
<1>3. ASSUME pc = "send"
      PROVE  /\ Whole(bmc, snd.pkt, typed) /\ ~reused /\ Numbers(toBmc, toCon, bmc, snd.pkt)
             /\ Elements(snd.pkt.data) \subseteq Elements(snd.buf)
  BY <1>0, <1>3 DEF WholeInv, AgesInv, NumbersInv, ValuesInv
<1>4. ASSUME AgesTaken, pc' = "send", bmc' = bmc,
             1 .. typed' \subseteq Elements(bmc.got) \cup Elements(snd'.pkt.data)
      PROVE  Whole(bmc', snd'.pkt, typed') /\ pc' \notin AtRest
  BY <1>4 DEF AgesTaken, Whole, AtRest
<1>5. CASE Rests \/ Activates
  <2>1. pc \in AtRest /\ pc' # "send" /\ bmc'.got = bmc.got /\ UNCHANGED <<typed, presumed>>
    BY <1>5 DEF Rests, Activates, AtRest
  <2> QED
    BY <1>2, <2>1
<1>6. CASE StartsInput
  <2>1. /\ pc \in AtRest /\ pc' = "send" /\ bmc' = bmc /\ presumed' = presumed
        /\ typed' \in Nat /\ typed < typed' /\ snd'.pkt.data = Chars(typed, typed')
    BY <1>1, <1>6 DEF StartsInput, TakesNumber, AtRest
  <2>2. AgesTaken
    BY <1>0, <1>6, AgesStart
  <2>3. 1 .. typed' \subseteq 1 .. typed \cup Elements(snd'.pkt.data)
    BY <1>1, <2>1, NewInput
  <2> QED
    BY <1>2, <1>4, <2>1, <2>2, <2>3
<1>7. CASE StartsEmpty
  <2>1. pc \in AtRest /\ pc' = "send" /\ bmc' = bmc /\ UNCHANGED <<presumed, typed>>
    BY <1>7 DEF StartsEmpty, TakesNumber, AtRest
  <2>2. AgesTaken
    BY <1>0, <1>7, AgesStart
  <2> QED
    BY <1>2, <1>4, <2>1, <2>2
<1>8. CASE Retries
  <2>1. /\ pc = "send" /\ pc' = "send" /\ bmc' = bmc /\ UNCHANGED <<presumed, typed>>
        /\ snd'.pkt.data = snd.buf
    BY <1>8 DEF Retries, TakesNumber
  <2>2. AgesTaken
    BY <1>0, <1>8, AgesStart
  <2>3. 1 .. typed \subseteq Elements(bmc.got) \cup Elements(snd'.pkt.data)
    BY <1>3, <2>1 DEF Whole
  <2> QED
    BY <1>4, <2>1, <2>2, <2>3
<1>9. ASSUME NEW q \in Seq(Packet), SendsRest(q)
      PROVE  Whole(bmc', snd'.pkt, typed') /\ pc' \notin AtRest
  <2> DEFINE a == toCon[1].accepted
             d == snd.pkt.data
             rest == snd'.pkt.data
  <2>1. pc = "send" /\ HeadAcks /\ pc' = "send" /\ bmc' = bmc /\ UNCHANGED <<presumed, typed>>
    BY <1>9 DEF SendsRest, TakesNumber
  <2>2. AgesTaken
    BY <1>0, <1>9, AgesRest
  <2>3. Whole(bmc, snd.pkt, typed) /\ bmc.inSeq = snd.pkt.seq /\ a = bmc.inAccepted
    BY <1>3, <2>1, AckParts
  <2>4. /\ a \in Nat /\ a < Len(d) /\ d \in Seq(Nat)
        /\ Len(rest) = Len(d) - a /\ \A i \in 1 .. Len(rest) : rest[i] = d[a + i]
    BY <1>1, <1>9, RestParts, PacketParts DEF IsLeft
  <2>5. \A i \in 1 .. a : d[i] \in Elements(bmc.got)
    BY <2>3 DEF Whole
  <2> HIDE DEF a, d, rest
  <2>6. ASSUME NEW i \in 1 .. Len(d)
        PROVE  d[i] \in Elements(bmc.got) \cup Elements(rest)
    <3>1. CASE i <= a
      BY <2>4, <2>5, <3>1
    <3>2. CASE ~(i <= a)
      <4>1. i - a \in 1 .. Len(rest) /\ a + (i - a) = i
        BY <2>4, <3>2
      <4>2. rest[i - a] = d[i]
        BY <2>4, <4>1
      <4> QED
        BY <4>1, <4>2 DEF Elements
    <3> QED
      BY <3>1, <3>2
  <2>7. Elements(d) \subseteq Elements(bmc.got) \cup Elements(rest)
    BY <2>6 DEF Elements
  <2>8. 1 .. typed' \subseteq Elements(bmc.got) \cup Elements(snd'.pkt.data)
    BY <2>1, <2>3, <2>7 DEF Whole, d, rest
  <2> QED
    BY <1>4, <2>1, <2>2, <2>8
<1>10. CASE Acknowledged
  <2> DEFINE d == snd.pkt.data
  <2>1. /\ pc = "send" /\ HeadAcks /\ pc' # "send" /\ UNCHANGED <<bmc, typed>>
        /\ ~(toCon[1].accepted < Length(snd.pkt))
    BY <1>10 DEF Acknowledged, AtRest, Kept
  <2>2. /\ Whole(bmc, snd.pkt, typed) /\ bmc.inSeq = snd.pkt.seq
        /\ toCon[1].accepted = bmc.inAccepted
    BY <1>3, <2>1, AckParts
  <2>3. bmc.inAccepted \in Nat /\ Length(snd.pkt) \in Nat /\ Length(snd.pkt) = Len(d)
    BY <1>1, BmcParts, PacketParts DEF Length
  <2>4. /\ bmc.inAccepted <= Length(snd.pkt)
        /\ \A i \in 1 .. bmc.inAccepted : d[i] \in Elements(bmc.got)
    BY <2>2 DEF Whole
  <2>5. bmc.inAccepted = Len(d)
    BY <2>1, <2>2, <2>3, <2>4
  <2>6. Elements(d) \subseteq Elements(bmc.got)
    BY <2>4, <2>5 DEF Elements
  <2> QED
    BY <2>1, <2>2, <2>6 DEF Whole
<1>11. CASE Presumes
  BY <1>11 DEF Presumes, Kept
<1>12. CASE GivesUp
  <2>1. /\ pc = "send" /\ pc' # "send" /\ UNCHANGED <<bmc, typed, presumed>>
        /\ pc' \in AtRest => snd.kind # "input"
    BY <1>12 DEF GivesUp, AtRest
  <2>2. pc' \in AtRest => Elements(snd.pkt.data) = {}
    BY <2>1 DEF ValuesInv
  <2> QED
    BY <1>3, <2>1, <2>2 DEF Whole
<1>13. ASSUME NEW q \in Seq(Packet), Waits(q)
       PROVE  Whole(bmc', snd'.pkt, typed') /\ pc' \notin AtRest
  BY <1>3, <1>13 DEF Waits, AtRest
<1>14. CASE Delivers
  <2>1. UNCHANGED <<pc, snd, typed, presumed>> /\ SameInput(bmc, bmc')
    BY <1>14 DEF Delivers, Elsewhere
  <2> QED
    BY <1>2, <1>3, <2>1 DEF SameInput, Whole
<1>15. ASSUME NEW a \in Packet, BmcTakes(a)
       PROVE  /\ pc' \in AtRest => 1 .. typed' \subseteq Elements(bmc'.got)
              /\ pc' = "send" => Whole(bmc', snd'.pkt, typed')
  <2> DEFINE h == toBmc[1]
  <2>1. /\ UNCHANGED <<pc, snd, typed, presumed>> /\ IsTail(toBmc', toBmc)
        /\ Takes(bmc, bmc', h)
    BY <1>15 DEF BmcTakes, Elsewhere
  <2>2. h \in Packet /\ 1 \in 1 .. Len(toBmc)
    BY <1>1, <2>1 DEF IsTail
  <2>3. ASSUME pc = "send"
        PROVE  h.seq = snd.pkt.seq => h.data = snd.pkt.data
    BY <1>3, <2>1, <2>2, <2>3 DEF Numbers, Together
  <2> HIDE DEF h
  <2>4. ASSUME pc = "send"
        PROVE  Whole(bmc', snd.pkt, typed)
    BY <1>1, <1>3, <2>1, <2>2, <2>3, <2>4, WholeTake
  <2>5. Elements(bmc.got) \subseteq Elements(bmc'.got)
    BY <1>1, <2>1, <2>2, TakenKeeps
  <2> QED
    BY <1>2, <2>1, <2>4, <2>5
<1> QED
  BY <1>5, <1>6, <1>7, <1>8, <1>9, <1>10, <1>11, <1>12, <1>13, <1>14, <1>15 DEF Form

LEMMA OnceNext ==
    ASSUME TypeOK, TypeOK', LastNumber, NumbersInv, ValuesInv, OnceInv, Form
    PROVE  OnceInv'
<1> SUFFICES ASSUME ~resent', ~reused'
             PROVE  InOrder(toBmc', bmc') /\ (pc' = "send" => MaySendAgain(toBmc', bmc', snd'.pkt))
  BY DEF OnceInv
<1>1. /\ toBmc \in Seq(Packet) /\ toCon \in Seq(Packet) /\ bmc \in Bmc /\ typed \in Nat
      /\ snd.pkt \in Packet /\ solSeq \in 1 .. MaxSeq + 1
  BY InputTypes
<1>2. toBmc' \in Seq(Packet) /\ bmc' \in Bmc /\ snd'.pkt \in Packet
  BY InputTypesLater
<1>3. ASSUME ~resent, ~reused
      PROVE  /\ InOrder(toBmc, bmc)
             /\ pc = "send" => /\ MaySendAgain(toBmc, bmc, snd.pkt) /\ snd.pkt.seq # 0
                               /\ Numbers(toBmc, toCon, bmc, snd.pkt)
  BY <1>1, <1>3 DEF OnceInv, NumbersInv, LastNumber
<1>4. ASSUME NEW q \in Seq(Packet), WithAck(q, toBmc), ~resent, ~reused
      PROVE  /\ InOrder(q, bmc)
             /\ pc = "send" => MaySendAgain(q, bmc, snd.pkt) /\ Together(q, snd.pkt)
  <2>1. CASE q = toBmc
    BY <1>3, <1>4, <2>1 DEF Numbers
  <2>2. ASSUME NEW z \in Packet, z.seq = 0, IsAppend(q, toBmc, z)
        PROVE  /\ InOrder(q, bmc)
               /\ pc = "send" => MaySendAgain(q, bmc, snd.pkt) /\ Together(q, snd.pkt)
    <3>1. InOrder(toBmc, bmc)
      BY <1>3, <1>4
    <3>2. Fits(toBmc, bmc, z)
      BY <2>2 DEF Fits
    <3>3. InOrder(q, bmc)
      BY <1>1, <2>2, <3>1, <3>2, OrderAppend
    <3>4. ASSUME pc = "send"
          PROVE  MaySendAgain(q, bmc, snd.pkt) /\ Together(q, snd.pkt)
      <4>1. /\ MaySendAgain(toBmc, bmc, snd.pkt) /\ snd.pkt.seq # 0
            /\ Numbers(toBmc, toCon, bmc, snd.pkt)
        BY <1>3, <1>4, <3>4
      <4>2. MaySendAgain(q, bmc, snd.pkt)
        BY <1>1, <2>2, <4>1, AgainAppend
      <4>3. Numbers(q, toCon, bmc, snd.pkt)
        BY <1>1, <2>2, <4>1, NumbersAppend
      <4> QED
        BY <4>2, <4>3 DEF Numbers
    <3> QED
      BY <3>3, <3>4
  <2> QED
    BY <1>4, <2>1, <2>2 DEF WithAck
<1>5. ASSUME NEW q \in Seq(Packet), InOrder(q, bmc), NEW n, TakesNumber(q, n), Shorter(toCon', toCon),
             bmc' = bmc, Increasing(snd'.pkt.data), Below(bmc.got, snd'.pkt.data),
             \A i \in 1 .. Len(q) :
                (q[i].seq # 0 /\ ~Repeated(q, bmc, i)) => Below(q[i].data, snd'.pkt.data)
      PROVE  InOrder(toBmc', bmc') /\ MaySendAgain(toBmc', bmc', snd'.pkt)
  <2>1. \A i \in 1 .. Len(q) : q[i].seq # snd'.pkt.seq
    BY <1>5, NumberTaken
  <2>2. With(toBmc', q, snd'.pkt)
    BY <1>5 DEF TakesNumber
  <2>3. InOrder(toBmc', bmc) /\ MaySendAgain(toBmc', bmc, snd'.pkt)
    BY <1>1, <1>2, <1>5, <2>1, <2>2, OrderNew
  <2> QED
    BY <1>5, <2>3
<1>6. CASE Rests \/ Acknowledged \/ Presumes
  <2>1. ~resent /\ ~reused /\ bmc' = bmc /\ WithAck(toBmc', toBmc) /\ pc' # "send"
    BY <1>6 DEF Rests, Acknowledged, Presumes, AtRest
  <2> QED
    BY <1>2, <1>4, <2>1
<1>7. CASE Activates
  <2>1. ~resent /\ ~reused /\ bmc'.got = bmc.got /\ toBmc' = <<>> /\ Len(<<>>) = 0 /\ pc' # "send"
    BY <1>7 DEF Activates
  <2>2. Increasing(bmc.got)
    BY <1>3, <2>1 DEF InOrder
  <2>3. 1 .. 0 = {}
    OBVIOUS
  <2>4. InOrder(toBmc', bmc')
    BY <2>1, <2>2, <2>3 DEF InOrder
  <2> QED
    BY <2>1, <2>4
<1>8. CASE StartsInput
  <2> DEFINE c == Chars(typed, typed')
  <2>1. /\ TakesNumber(toBmc, unanswered) /\ UNCHANGED <<bmc, toCon, resent>>
        /\ typed' \in Nat /\ typed < typed' /\ snd'.pkt.data = c
    BY <1>1, <1>8 DEF StartsInput
  <2>2. ~resent /\ ~reused /\ Shorter(toCon', toCon)
    BY <2>1 DEF TakesNumber, Shorter
  <2>3. Increasing(c) /\ \A s : UpTo(s, typed) => Below(s, c)
    BY <1>1, <2>1, NewInput
  <2> HIDE DEF c
  <2>4. Below(bmc.got, c) /\ \A i \in 1 .. Len(toBmc) : toBmc[i].seq # 0 => Below(toBmc[i].data, c)
    BY <2>3 DEF ValuesInv
  <2> QED
    BY <1>1, <1>3, <1>5, <2>1, <2>2, <2>3, <2>4
<1>9. CASE StartsEmpty
  <2>1. TakesNumber(toBmc, unanswered) /\ UNCHANGED <<bmc, toCon, resent>> /\ snd'.pkt.data = <<>>
    BY <1>9 DEF StartsEmpty
  <2>2. ~resent /\ ~reused /\ Shorter(toCon', toCon)
    BY <2>1 DEF TakesNumber, Shorter
  <2>3. Increasing(<<>>) /\ \A s : Below(s, <<>>)
    BY DEF Increasing, Below
  <2> QED
    BY <1>1, <1>3, <1>5, <2>1, <2>2, <2>3
<1>10. CASE Retries
  BY <1>10 DEF Retries
<1>11. ASSUME NEW q \in Seq(Packet), SendsRest(q)
       PROVE  InOrder(toBmc', bmc') /\ MaySendAgain(toBmc', bmc', snd'.pkt)
  <2> DEFINE a == toCon[1].accepted
             d == snd.pkt.data
             rest == snd'.pkt.data
  <2>1. /\ pc = "send" /\ HeadAcks /\ WithAck(q, toBmc) /\ TakesNumber(q, Answered)
        /\ bmc' = bmc /\ resent' = resent
    BY <1>11 DEF SendsRest
  <2>2. ~resent /\ ~reused /\ Shorter(toCon', toCon)
    BY <2>1 DEF TakesNumber, HeadAcks, Shorter
  <2>3. InOrder(q, bmc) /\ MaySendAgain(q, bmc, snd.pkt)
    BY <1>4, <2>1, <2>2
  <2>4. /\ bmc.inSeq = snd.pkt.seq /\ a = bmc.inAccepted
        /\ \A j \in 1 .. Len(toBmc) : toBmc[j].seq \in {0, bmc.inSeq}
    BY <2>1, <2>2, AckParts
  <2>5. \A j \in 1 .. Len(q) : q[j].seq \in {0, bmc.inSeq}
    <3>1. CASE q = toBmc
      BY <2>4, <3>1
    <3>2. ASSUME NEW z \in Packet, z.seq = 0, IsAppend(q, toBmc, z)
          PROVE  \A j \in 1 .. Len(q) : q[j].seq \in {0, bmc.inSeq}
      <4>1. \A j \in 1 .. Len(q) : j \in 1 .. Len(toBmc) \/ j = Len(toBmc) + 1
        BY <1>1, <3>2, LenNat DEF IsAppend
      <4> QED
        BY <2>4, <3>2, <4>1 DEF IsAppend
    <3> QED
      BY <2>1, <3>1, <3>2 DEF WithAck
  <2>6. \A i \in 1 .. Len(q) : Repeated(q, bmc, i)
    <3>1. Len(q) \in Nat
      OBVIOUS
    <3>2. \A i \in 1 .. Len(q) : \A j \in 1 .. i : j \in 1 .. Len(q)
      BY <3>1
    <3> QED
      BY <2>5, <3>2 DEF Repeated
  <2>7. /\ a \in Nat /\ Length(snd.pkt) = Len(d) /\ Len(d) \in Nat /\ Len(rest) \in Nat
        /\ \A i \in 1 .. Len(rest) : rest[i] = d[a + i] /\ a + i \in a + 1 .. Len(d)
    BY <1>1, <1>2, <1>11, RestParts, PacketParts DEF IsLeft, Length
  <2>8. /\ Increasing(d)
        /\ \A i \in a + 1 .. Len(d), j \in 1 .. Len(bmc.got) : bmc.got[j] < d[i]
    BY <2>3, <2>4, <2>7 DEF MaySendAgain
  <2> HIDE DEF a, d, rest
  <2>9. Below(bmc.got, rest)
    BY <2>7, <2>8 DEF Below
  <2>10. Increasing(rest)
    <3> SUFFICES ASSUME NEW i \in 1 .. Len(rest), NEW j \in 1 .. Len(rest), i < j
                 PROVE  rest[i] < rest[j]
      BY DEF Increasing
    <3>1. a + i \in 1 .. Len(d) /\ a + j \in 1 .. Len(d) /\ a + i < a + j
      BY <2>7
    <3> QED
      BY <2>7, <2>8, <3>1 DEF Increasing
  <2> QED
    BY <1>5, <2>1, <2>2, <2>3, <2>6, <2>9, <2>10 DEF rest
<1>12. ASSUME NEW q \in Seq(Packet), Waits(q)
       PROVE  InOrder(toBmc', bmc') /\ MaySendAgain(toBmc', bmc', snd'.pkt)
  <2>1. /\ pc = "send" /\ WithAck(q, toBmc) /\ With(toBmc', q, snd.pkt) /\ ~resent /\ ~reused
        /\ bmc' = bmc /\ snd'.pkt = snd.pkt
    BY <1>12 DEF Waits
  <2>2. InOrder(q, bmc) /\ MaySendAgain(q, bmc, snd.pkt) /\ Fits(q, bmc, snd.pkt)
    BY <1>4, <2>1 DEF Fits
  <2>3. InOrder(toBmc', bmc) /\ MaySendAgain(toBmc', bmc, snd.pkt)
    BY <1>1, <1>2, <2>1, <2>2, OrderAppend, AgainAppend DEF With
  <2> QED
    BY <2>1, <2>3
<1>13. CASE GivesUp
  BY <1>3, <1>13 DEF GivesUp
<1>14. CASE Delivers
  <2>1. /\ UNCHANGED <<pc, snd>> /\ ~resent /\ ~reused /\ SameInput(bmc, bmc')
        /\ Shorter(toBmc', toBmc)
    BY <1>14 DEF Delivers, Elsewhere
  <2>2. InOrder(toBmc', bmc) /\ (pc = "send" => MaySendAgain(toBmc', bmc, snd.pkt))
    BY <1>1, <1>2, <1>3, <2>1, OrderShorter
  <2> QED
    BY <2>1, <2>2, SameOrder
<1>15. ASSUME NEW a \in Packet, BmcTakes(a)
       PROVE  InOrder(toBmc', bmc') /\ (pc' = "send" => MaySendAgain(toBmc', bmc', snd'.pkt))
  <2>1. /\ UNCHANGED <<pc, snd>> /\ ~resent /\ ~reused /\ IsTail(toBmc', toBmc)
        /\ toBmc[1].seq # 0 /\ Takes(bmc, bmc', toBmc[1])
    BY <1>15 DEF BmcTakes, Elsewhere
  <2>2. /\ InOrder(toBmc, bmc)
        /\ pc = "send" => MaySendAgain(toBmc, bmc, snd.pkt) /\ Together(toBmc, snd.pkt)
    BY <1>3, <2>1 DEF Numbers
  <2> QED
    BY <1>1, <1>2, <2>1, <2>2, OrderTake
<1> QED
  BY <1>6, <1>7, <1>8, <1>9, <1>10, <1>11, <1>12, <1>13, <1>14, <1>15 DEF Form

-----------------------------------------------------------------------------
LEMMA InputInit == Init => InputInv
<1> SUFFICES ASSUME Init  PROVE InputInv
  OBVIOUS
<1>1. TypeOK
  BY InvInit DEF SolInv
<1>2. /\ pc = "idle" /\ typed = 0 /\ reused = FALSE /\ resent = FALSE
      /\ toBmc = <<>> /\ toCon = <<>> /\ bmc.inSeq = 0 /\ bmc.got = <<>> /\ Len(<<>>) = 0
  BY DEF Init
<1>3. 1 .. 0 = {}
  OBVIOUS
<1>4. LastNumber /\ NumbersInv
  BY <1>2 DEF LastNumber, NumbersInv
<1>5. AgesInv
  BY <1>2, <1>3 DEF AgesInv, Ages
<1>6. ValuesInv
  BY <1>2, <1>3 DEF ValuesInv, UpTo
<1>7. WholeInv
  BY <1>2, <1>3 DEF WholeInv
<1>8. OnceInv
  BY <1>2, <1>3 DEF OnceInv, InOrder, Increasing
<1> QED
  BY <1>1, <1>4, <1>5, <1>6, <1>7, <1>8 DEF InputInv

LEMMA InputNext == InputInv /\ [Next]_vars => InputInv'
<1> SUFFICES ASSUME InputInv, [Next]_vars  PROVE InputInv'
  OBVIOUS
<1>1. CASE Next
  <2>1. TypeOK' /\ Form
    BY <1>1, TypeNext, NextForm DEF InputInv
  <2>2. LastNumber'
    BY <2>1, LastNumberNext DEF InputInv
  <2>3. NumbersInv' /\ ValuesInv'
    BY <2>1, NumbersNext, ValuesNext DEF InputInv
  <2>4. AgesInv' /\ WholeInv'
    BY <2>1, AgesNextStep, WholeNext DEF InputInv
  <2>5. OnceInv'
    BY <2>1, OnceNext DEF InputInv
  <2> QED
    BY <2>1, <2>2, <2>3, <2>4, <2>5 DEF InputInv
<1>2. CASE UNCHANGED vars
  BY <1>2 DEF InputInv, TypeOK, LastNumber, NumbersInv, AgesInv, Kept, ValuesInv, WholeInv, OnceInv,
              vars, conVars, netVars, histVars
<1> QED
  BY <1>1, <1>2

LEMMA InputInvariant == Spec => []InputInv
<1> QED
  BY InputInit, InputNext, PTL DEF Spec

(* While every send ended with the acknowledgement of all its characters   *)
(* and fewer than MaxSeq in a row went unanswered,                         *)
(* set_sol_packet_sequence_number() gives out no number of which a packet  *)
(* or an acknowledgement is under way; so what processSolUserInput() sent  *)
(* without a retry of its own is at the BMC whole, in order and once.      *)
InputExact ==
    (~presumed /\ unanswered < MaxSeq /\ ~resent) =>
       /\ Increasing(bmc.got)
       /\ pc \in {"loop", "keepalive"} => Elements(bmc.got) = 1 .. typed

LEMMA InputParts ==
    ASSUME InputInv
    PROVE  InputOnce /\ InputComplete /\ InputExact
<1>1. InputOnce
  BY DEF InputInv, OnceInv, InOrder, InputOnce
<1>2. Elements(bmc.got) \subseteq 1 .. typed
  BY UpToElements DEF InputInv, ValuesInv
<1>3. InputComplete
  BY <1>2 DEF InputInv, WholeInv, Kept, InputComplete
<1>4. Kept => ~reused
  BY DEF InputInv, AgesInv
<1> QED
  BY <1>1, <1>3, <1>4 DEF Kept, InputOnce, InputComplete, InputExact

(* However packets and acknowledgements are lost, however often            *)
(* ipmi_lanplus_send_payload() sends a packet again, and whatever part of  *)
(* it the BMC accepts (is_sol_partial_ack()), no character of the input    *)
(* reaches the BMC twice or out of order, unless processSolUserInput()     *)
(* itself sent it again or a number came round too early.                  *)
THEOREM InputSentOnce == Spec => []InputOnce
<1> QED
  BY InputInvariant, InputParts, PTL

(* Where every send ended with the acknowledgement of all its characters,  *)
(* be it in parts or at a later attempt, and fewer sends in a row than     *)
(* there are numbers went unanswered, the BMC has, when                    *)
(* ipmi_sol_red_pill() waits for the next input, all that                  *)
(* processSolUserInput() has read, and nothing else. The session may be as *)
(* long as it likes and hold any number of breaks and keepalives.          *)
THEOREM InputSentWhole == Spec => []InputComplete
<1> QED
  BY InputInvariant, InputParts, PTL

(* Where in addition processSolUserInput() never had to try again, that is *)
(* also in order and once: every answer proves that nothing older is under *)
(* way, so that no number set by set_sol_packet_sequence_number() can be   *)
(* taken for that of an old packet before a round of them has gone         *)
(* unanswered.                                                             *)
THEOREM InputSentExactly == Spec => []InputExact
<1> QED
  BY InputInvariant, InputParts, PTL

=============================================================================
