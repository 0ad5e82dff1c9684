------------------------ MODULE LanplusRequestProofs ------------------------
(* Proofs about LanplusRequest, for every value of its constants. *)
EXTENDS LanplusRequest, TLAPS, WellFoundedInduction

-----------------------------------------------------------------------------
(* Lemmas about the request list. *)

(* ipmi_req_lookup_entry() returns one of the entries that match: a non-empty part *)
(* of the list has a first element.                                         *)
LEMMA FirstIsOne ==
    ASSUME NEW S \in SUBSET Entry, S # {}
    PROVE  First(S) \in S
<1> DEFINE N == {e.n : e \in S}
<1>1. N \subseteq Nat /\ N # {}
  BY DEF Entry
<1> HIDE DEF N
<1>2. \E x \in N : \A y \in N : ~ (<<y, x>> \in OpToRel(<, Nat))
  BY <1>1, WFMin, NatLessThanWellFounded
<1>a. OpToRel(<, Nat) = {ss \in Nat \X Nat : ss[1] < ss[2]}
  BY Zenon DEF OpToRel
<1>b. \A x, y \in Nat : y < x => <<y, x>> \in {ss \in Nat \X Nat : ss[1] < ss[2]}
  OBVIOUS
<1>c. \A x, y \in Nat : y < x => <<y, x>> \in OpToRel(<, Nat)
  BY <1>a, <1>b, Zenon
<1>3. PICK x \in N : \A y \in N : x <= y
  <2>1. PICK x \in N : \A y \in N : ~ (<<y, x>> \in OpToRel(<, Nat))
    BY <1>2, Zenon
  <2>2. \A y \in N : ~ (y < x)
    BY <2>1, <1>1, <1>c, Zenon
  <2>3. x \in N
    BY <2>1, Zenon
  <2>4. \A y \in N : x <= y
    BY <2>2, <2>3, <1>1
  <2> QED
    BY <2>3, <2>4, Zenon
<1>4. \E e \in S : \A f \in S : e.n <= f.n
  BY <1>3 DEF N
<1> QED
  BY <1>4 DEF First

(* ipmi_req_remove_entry() takes away at most one entry and adds none. *)
LEMMA RemoveShrinks ==
    ASSUME NEW es, NEW seq, NEW cmd
    PROVE  ipmi_req_remove_entry(es, seq, cmd) \subseteq es
BY DEF ipmi_req_remove_entry

(* Crossing one bridge leaves an entry an entry. *)
LEMMA LowerType ==
    ASSUME NEW e \in Entry, e.level # 0
    PROVE  [e EXCEPT !.level = e.level - 1,
                     !.cmd = IF e.level = 1 THEN e.target ELSE e.cmd] \in Entry
<1> DEFINE c == IF e.level = 1 THEN e.target ELSE e.cmd
<1>1. e.level - 1 \in Bridges
  BY DEF Entry, Bridges
<1>2. c \in Cmds \cup {SendMessage}
  BY DEF Entry
<1> HIDE DEF c
<1>3. [e EXCEPT !.level = e.level - 1, !.cmd = c] \in Entry
  BY <1>1, <1>2 DEF Entry
<1> QED
  BY <1>3 DEF c

(* One pass of ipmi_lan_poll_single()'s loop keeps the list a list of entries, and    *)
(* asks for another pass only if the payload goes on.                       *)
LEMMA ReadMessageType ==
    ASSUME NEW es \in SUBSET Entry, NEW seq, NEW m \in Message, NEW rest
    PROVE  /\ ReadMessage(es, seq, m, rest).es \in SUBSET Entry
           /\ ReadMessage(es, seq, m, rest).m = m
           /\ ReadMessage(es, seq, m, rest).out \in {"again", "got", "next"}
<1> DEFINE M == Matches(es, seq, m.cmd)
           e == First(M)
           lower == [e EXCEPT !.level = e.level - 1,
                              !.cmd = IF e.level = 1 THEN e.target ELSE e.cmd]
           es1 == (es \ {e}) \cup {lower}
<1>1. CASE M = {}
  BY <1>1 DEF ReadMessage
<1>2. CASE M # {} /\ (e.level = 0 \/ m.cc # 0)
  BY <1>2, RemoveShrinks DEF ReadMessage
<1>3. CASE M # {} /\ e.level # 0 /\ m.cc = 0
  <2>1. e \in Entry
    BY <1>3, FirstIsOne DEF Matches
  <2>2. lower \in Entry
    BY <1>3, <2>1, LowerType
  <2>3. ipmi_req_remove_entry(es1, seq, m.cmd) \in SUBSET Entry
    BY <2>2, RemoveShrinks
  <2> QED
    BY <1>3, <2>2, <2>3 DEF ReadMessage
<1> QED
  BY <1>1, <1>2, <1>3

LEMMA ReadMessageNext ==
    ASSUME NEW es, NEW seq, NEW m, NEW rest
    PROVE  ReadMessage(es, seq, m, rest).out = "next" => rest > 0
BY DEF ReadMessage

(* The messages of a datagram. *)
LEMMA AnswerShape ==
    ASSUME NEW r \in Request, NEW ms \in Answers(r)
    PROVE  \/ \E m \in Message : ms = <<m>>
           \/ \E m1, m2 \in Message : ms = <<m1, m2>>
           \/ \E m1, m2, m3 \in Message : ms = <<m1, m2, m3>>
<1> DEFINE Of(c) == [cmd : {c}, cc : CompletionCodes]
           W == [cmd |-> SendMessage, cc |-> 0]
<1>1. W \in Message
  BY DEF Message, CompletionCodes
<1>2. \A m \in Of(r.cmd) : m \in Message
  BY DEF Message, Request
<1>3. \A m \in Of(SendMessage) : m \in Message
  BY DEF Message
<1>4. \/ \E m \in Of(r.cmd) : ms = <<m>>
      \/ \E m \in Of(SendMessage) : ms = <<m>>
      \/ \E m \in Of(r.cmd) : ms = <<W, m>>
      \/ \E m \in Of(SendMessage) : ms = <<W, m>>
      \/ \E m \in Of(r.cmd) : ms = <<W, W, m>>
  BY DEF Answers
<1> QED
  BY <1>1, <1>2, <1>3, <1>4

LEMMA AnswerParts ==
    ASSUME NEW r \in Request, NEW ms \in Answers(r)
    PROVE  /\ ms[1] \in Message
           /\ Len(ms) - 1 \in Int /\ Len(ms) - 2 \in Int /\ Len(ms) - 3 \in Int
           /\ Len(ms) - 1 > 0 => ms[2] \in Message
           /\ Len(ms) - 2 > 0 => ms[3] \in Message
<1>1. CASE \E m \in Message : ms = <<m>>
  BY <1>1
<1>2. CASE \E m1, m2 \in Message : ms = <<m1, m2>>
  BY <1>2
<1>3. CASE \E m1, m2, m3 \in Message : ms = <<m1, m2, m3>>
  BY <1>3
<1> QED
  BY <1>1, <1>2, <1>3, AnswerShape, Zenon

(* What ipmi_lan_poll_single() makes of a datagram, by the number of its messages. *)
LEMMA PollSingleType ==
    ASSUME NEW es \in SUBSET Entry, NEW r \in Request, NEW ms \in Answers(r)
    PROVE  /\ ipmi_lan_poll_single(es, r.seq, ms).es \in SUBSET Entry
           /\ ipmi_lan_poll_single(es, r.seq, ms).m \in Message
<1> DEFINE q == r.seq
           m1 == ms[1]
           m2 == ms[2]
           m3 == ms[3]
           k1 == Len(ms) - 1
           k2 == Len(ms) - 2
           k3 == Len(ms) - 3
<1>1. /\ m1 \in Message
      /\ k1 > 0 => m2 \in Message
      /\ k2 > 0 => m3 \in Message
  BY AnswerParts
<1> DEFINE r1 == ReadMessage(es, q, m1, k1)
           r2 == ReadMessage(r1.es, q, m2, k2)
           r3 == ReadMessage(r2.es, q, m3, k3)
<1>2. ipmi_lan_poll_single(es, r.seq, ms) =
          CASE r1.out # "next" -> r1
            [] r1.out = "next" /\ r2.out # "next" -> r2
            [] OTHER -> r3
  BY DEF ipmi_lan_poll_single
<1>n. (r1.out = "next" => k1 > 0) /\ (r2.out = "next" => k2 > 0)
  BY ReadMessageNext
<1> HIDE DEF q, m1, m2, m3, k1, k2, k3
<1>3. r1.es \in SUBSET Entry /\ r1.m = m1
  <2>1. r1.es \in SUBSET Entry
    BY <1>1, ReadMessageType, Zenon
  <2>2. r1.m = m1
    BY DEF ReadMessage
  <2> QED
    BY <2>1, <2>2
<1>4. r1.out = "next" =>
          r2.es \in SUBSET Entry /\ r2.m = m2
  <2> HIDE DEF r1
  <2> SUFFICES ASSUME r1.out = "next"
               PROVE  r2.es \in SUBSET Entry /\ r2.m = m2
    OBVIOUS
  <2>1. r1.es \in SUBSET Entry /\ m2 \in Message
    BY <1>1, <1>n, <1>3
  <2>2. r2.es \in SUBSET Entry
    BY <2>1, ReadMessageType, Zenon
  <2>3. r2.m = m2
    BY DEF ReadMessage
  <2> QED
    BY <2>2, <2>3
<1>5. (r1.out = "next" /\ r2.out = "next") => r3.es \in SUBSET Entry /\ r3.m = m3
  <2> HIDE DEF r1, r2
  <2> SUFFICES ASSUME r1.out = "next", r2.out = "next"
               PROVE  r3.es \in SUBSET Entry /\ r3.m = m3
    OBVIOUS
  <2>1. r2.es \in SUBSET Entry /\ m3 \in Message
    BY <1>1, <1>n, <1>4
  <2>2. r3.es \in SUBSET Entry
    BY <2>1, ReadMessageType, Zenon
  <2>3. r3.m = m3
    BY DEF ReadMessage
  <2> QED
    BY <2>2, <2>3
<1> HIDE DEF r1, r2, r3
<1>6. CASE r1.out # "next"
  BY <1>1, <1>2, <1>3, <1>6
<1>7. CASE r1.out = "next" /\ r2.out # "next"
  BY <1>1, <1>n, <1>2, <1>4, <1>7
<1>8. CASE r1.out = "next" /\ r2.out = "next"
  BY <1>1, <1>n, <1>2, <1>5, <1>8
<1> QED
  BY <1>6, <1>7, <1>8

-----------------------------------------------------------------------------
(* What reading a response with rq_seq seq leaves and hands up (r) then.    *)
Answered(r, seq, n, i, q, c) ==
    /\ Awaits(r.es, n, i, q, c)
    /\ r.out = "got" => /\ r.es = {}
                        /\ seq = q
                        /\ r.m.cc = 0 => r.m.cmd = c.cmd

(* One pass over such a list leaves such a list.  What it hands up answers  *)
(* rq_seq q, and is the target's answer unless it is an error.              *)
LEMMA ReadMessageAwaits ==
    ASSUME NEW es \in SUBSET Entry, NEW seq, NEW m \in Message, NEW rest,
           NEW n, NEW i, NEW q, NEW c, c.cmd \in Cmds, Awaits(es, n, i, q, c)
    PROVE  Answered(ReadMessage(es, seq, m, rest), seq, n, i, q, c)
<1> USE DEF Answered
<1> DEFINE M == Matches(es, seq, m.cmd)
           e == First(M)
           d == IF e.level = 1 THEN e.target ELSE e.cmd
           lower == [e EXCEPT !.level = e.level - 1, !.cmd = d]
           es1 == (es \ {e}) \cup {lower}
<1>1. CASE M = {}
  BY <1>1 DEF ReadMessage
<1>2. CASE M # {}
  <2>1. e \in M /\ e \in es /\ e \in Entry /\ e.seq = seq /\ e.cmd = m.cmd
    BY <1>2, FirstIsOne DEF Matches
  <2> HIDE DEF e
  <2>2. es = {e}
    BY <2>1 DEF Awaits
  <2>3. CASE e.level = 0 \/ m.cc # 0
    <3>1. ReadMessage(es, seq, m, rest) =
              [out |-> "got", es |-> ipmi_req_remove_entry(es, seq, m.cmd), m |-> m]
      BY <1>2, <2>3 DEF ReadMessage, e
    <3>2. ipmi_req_remove_entry(es, seq, m.cmd) = es \ {e}
      BY <1>2 DEF ipmi_req_remove_entry, e
    <3> QED
      BY <2>1, <2>2, <2>3, <3>1, <3>2 DEF Awaits
  <2>4. CASE e.level # 0 /\ m.cc = 0
    <3>1. /\ lower.n = e.n /\ lower.id = e.id /\ lower.seq = e.seq
          /\ lower.target = e.target /\ lower.level = e.level - 1 /\ lower.cmd = d
      BY <2>1 DEF Entry
    <3> HIDE DEF lower
    <3>2. e.level \in Bridges /\ e.cmd = SendMessage /\ e.target = c.cmd
      BY <2>1, <2>4 DEF Awaits, Entry
    <3>3. /\ lower.level = 0 => lower.cmd = c.cmd
          /\ lower.level # 0 => lower.cmd = SendMessage
      BY <3>1, <3>2 DEF Bridges
    <3>4. Awaits({lower}, n, i, q, c)
      BY <2>1, <3>1, <3>2, <3>3 DEF Awaits
    <3>5. es1 = {lower}
      BY <2>2
    <3>6. Awaits(ipmi_req_remove_entry(es1, seq, m.cmd), n, i, q, c)
      BY <3>4, <3>5, RemoveShrinks DEF Awaits
    <3>7. ReadMessage(es, seq, m, rest) =
              IF rest > 0
              THEN [out |-> "next", es |-> ipmi_req_remove_entry(es1, seq, m.cmd), m |-> m]
              ELSE [out |-> "again", es |-> es1, m |-> m]
      BY <1>2, <2>4 DEF ReadMessage, e, lower
    <3> QED
      BY <3>4, <3>5, <3>6, <3>7
  <2> QED
    BY <2>3, <2>4
<1> QED
  BY <1>1, <1>2

(* The same for a whole datagram. *)
LEMMA PollSingleAwaits ==
    ASSUME NEW es \in SUBSET Entry, NEW r \in Request, NEW ms \in Answers(r),
           NEW n, NEW i, NEW q, NEW c, c.cmd \in Cmds, Awaits(es, n, i, q, c)
    PROVE  Answered(ipmi_lan_poll_single(es, r.seq, ms), r.seq, n, i, q, c)
<1> DEFINE s == r.seq
           m1 == ms[1]
           m2 == ms[2]
           m3 == ms[3]
           k1 == Len(ms) - 1
           k2 == Len(ms) - 2
           k3 == Len(ms) - 3
<1>1. /\ m1 \in Message
      /\ k1 > 0 => m2 \in Message
      /\ k2 > 0 => m3 \in Message
  BY AnswerParts
<1> DEFINE r1 == ReadMessage(es, s, m1, k1)
           r2 == ReadMessage(r1.es, s, m2, k2)
           r3 == ReadMessage(r2.es, s, m3, k3)
<1>2. ipmi_lan_poll_single(es, r.seq, ms) =
          CASE r1.out # "next" -> r1
            [] r1.out = "next" /\ r2.out # "next" -> r2
            [] OTHER -> r3
  BY DEF ipmi_lan_poll_single
<1>n. (r1.out = "next" => k1 > 0) /\ (r2.out = "next" => k2 > 0)
  BY ReadMessageNext
<1> HIDE DEF s, m1, m2, m3, k1, k2, k3
<1>3. r1.es \in SUBSET Entry
  BY <1>1, ReadMessageType, Zenon
<1>4. Answered(r1, s, n, i, q, c)
  BY <1>1, ReadMessageAwaits, Zenon
<1>5. ASSUME r1.out = "next"
      PROVE  r2.es \in SUBSET Entry /\ Answered(r2, s, n, i, q, c)
  <2> HIDE DEF r1
  <2>1. r1.es \in SUBSET Entry /\ m2 \in Message /\ Awaits(r1.es, n, i, q, c)
    BY <1>1, <1>n, <1>3, <1>4, <1>5 DEF Answered
  <2>2. r2.es \in SUBSET Entry
    BY <2>1, ReadMessageType, Zenon
  <2>3. Answered(r2, s, n, i, q, c)
    BY <2>1, ReadMessageAwaits, Zenon
  <2> QED
    BY <2>2, <2>3
<1>6. ASSUME r1.out = "next", r2.out = "next"
      PROVE  Answered(r3, s, n, i, q, c)
  <2> HIDE DEF r1, r2
  <2>1. r2.es \in SUBSET Entry /\ m3 \in Message /\ Awaits(r2.es, n, i, q, c)
    BY <1>1, <1>n, <1>5, <1>6 DEF Answered
  <2> QED
    BY <2>1, ReadMessageAwaits, Zenon
<1> HIDE DEF r1, r2, r3
<1>7. Answered(ipmi_lan_poll_single(es, r.seq, ms), s, n, i, q, c)
  BY <1>2, <1>4, <1>5, <1>6
<1> QED
  BY <1>7 DEF s

-----------------------------------------------------------------------------
(* Sequence numbers. *)

(* rq_seq stays within its bounds. *)
LEMMA NextSeqType ==
    ASSUME NEW q \in 0 .. SeqMod - 1
    PROVE  NextSeq(q) \in 0 .. SeqMod - 1
BY SeqModAssumption DEF NextSeq

(* The request of a call is an entry. *)
LEMMA NewEntryType ==
    ASSUME NEW n \in Nat, NEW i \in Nat, NEW q \in 0 .. SeqMod - 1,
           NEW c \in [cmd : Cmds, bridge : Bridges]
    PROVE  NewEntry(n, i, q, c) \in Entry
<1>1. c.cmd \in Cmds /\ c.bridge \in Bridges
  OBVIOUS
<1> QED
  BY <1>1 DEF NewEntry, Entry

-----------------------------------------------------------------------------
(* A transmission. *)

(* It keeps the types. *)
LEMMA TransmitType ==
    ASSUME TypeOK, saved' \in Nat, NEW i \in Nat, NEW q \in 0 .. SeqMod - 1,
           NEW c \in [cmd : Cmds, bridge : Bridges], Transmit(i, c, q)
    PROVE  /\ pc' \in {"idle", "poll"}
           /\ tx' \in Nat /\ entries' \subseteq Entry
           /\ currSeq' \in 0 .. SeqMod - 1
           /\ timeout' \in Nat /\ ccode' \in CompletionCodes
           /\ left' \in BOOLEAN
           /\ result' \in Result /\ reqs' \subseteq Request
<1>1. tx' \in Nat /\ currSeq' \in 0 .. SeqMod - 1 /\ ccode' \in CompletionCodes
  BY DEF Transmit, TypeOK
<1>2. entries' \subseteq Entry
  BY NewEntryType DEF Transmit, TypeOK
<1>3. NullResult(i) \in Result
  BY DEF NullResult, Result, CompletionCodes
<1>4. [id |-> i, seq |-> q, cmd |-> c.cmd, bridge |-> c.bridge] \in Request
  BY DEF Request
<1>5. pc' \in {"idle", "poll"} /\ timeout' \in Nat
  BY DEF Transmit, Return, TypeOK
<1>6. left' \in BOOLEAN
  BY DEF Transmit, Return, TypeOK
<1>7. result' \in Result
  BY <1>3 DEF Transmit, Return, TypeOK
<1>8. reqs' \subseteq Request
  BY <1>4 DEF Transmit, TypeOK
<1> QED
  BY <1>1, <1>2, <1>5, <1>6, <1>7, <1>8

(* One that leaves nothing behind goes on to poll. *)
LEMMA TransmitClean ==
    ASSUME TypeOK, noanswer' \in BOOLEAN, NEW i, NEW q, NEW c, Transmit(i, c, q), ~left'
    PROVE  /\ ~left
           /\ pc' = "poll"
           /\ tx' = tx + 1 /\ currSeq' = q
           /\ entries' = entries \cup {NewEntry(tx + 1, i, q, c)}
           /\ timeout' = timeout /\ result' = result
           /\ reqs' = {r \in reqs : i - r.id < SeqMod}
                      \cup {[id |-> i, seq |-> q, cmd |-> c.cmd, bridge |-> c.bridge]}
<1>1. entries' # {}
  BY DEF Transmit
<1>2. pc' = "poll" /\ ~noanswer' /\ left' = left
  BY <1>1 DEF Transmit, Return, TypeOK
<1> QED
  BY <1>2 DEF Transmit, Return

(* The list then holds the new entry only. *)
LEMMA TransmitAwaits ==
    ASSUME NEW n, NEW i, NEW q, NEW c
    PROVE  Awaits({} \cup {NewEntry(n, i, q, c)}, n, i, q, c)
BY DEF Awaits, NewEntry

-----------------------------------------------------------------------------
(* Type correctness.  tries is counted up to Retry at most, because a call  *)
(* under way has tries left.                                                *)
TypeInv == TypeOK /\ (pc # "idle" => tries < Retry)

LEMMA SendType ==
    ASSUME TypeInv, NEW c \in [cmd : Cmds, bridge : Bridges],
           ipmi_lanplus_send_ipmi_cmd(c) \/ ipmi_mc_reset(c)
    PROVE  TypeInv'
<1>1. /\ id' = id + 1 /\ call' = c /\ tries' = 0 /\ saved' = timeout
      /\ noanswer' \in BOOLEAN
      /\ Transmit(id + 1, c, NextSeq(currSeq))
  BY DEF TypeInv, TypeOK, ipmi_lanplus_send_ipmi_cmd, ipmi_mc_reset
<1>2. TypeOK /\ id + 1 \in Nat /\ saved' \in Nat /\ NextSeq(currSeq) \in 0 .. SeqMod - 1
  BY <1>1, NextSeqType DEF TypeInv, TypeOK
<1>3. /\ pc' \in {"idle", "poll"}
      /\ tx' \in Nat /\ entries' \subseteq Entry
      /\ currSeq' \in 0 .. SeqMod - 1
      /\ timeout' \in Nat /\ ccode' \in CompletionCodes
      /\ left' \in BOOLEAN
      /\ result' \in Result /\ reqs' \subseteq Request
  BY <1>1, <1>2, TransmitType
<1> QED
  BY <1>1, <1>2, <1>3, RetryAssumption DEF TypeInv, TypeOK

LEMMA RetransmitType ==
    ASSUME TypeInv, Retransmit
    PROVE  TypeInv'
<1>1. /\ pc = "xmit" /\ UNCHANGED <<id, call, tries, saved, noanswer>>
      /\ Transmit(id, call, currSeq)
  BY DEF Retransmit
<1>2. /\ TypeOK /\ id \in Nat /\ saved' \in Nat /\ currSeq \in 0 .. SeqMod - 1
      /\ call \in [cmd : Cmds, bridge : Bridges]
  BY <1>1 DEF TypeInv, TypeOK
<1>3. /\ pc' \in {"idle", "poll"}
      /\ tx' \in Nat /\ entries' \subseteq Entry
      /\ currSeq' \in 0 .. SeqMod - 1
      /\ timeout' \in Nat /\ ccode' \in CompletionCodes
      /\ left' \in BOOLEAN
      /\ result' \in Result /\ reqs' \subseteq Request
  BY <1>1, <1>2, TransmitType
<1> QED
  BY <1>1, <1>2, <1>3 DEF TypeInv, TypeOK

LEMMA AfterNullType ==
    ASSUME TypeInv, NEW elapsed \in BOOLEAN, pc = "poll", AfterNull(elapsed), UNCHANGED ccode
    PROVE  TypeInv'
<1>1. entries' \subseteq entries
  BY DEF AfterNull
<1>2. tries' = tries + 1 /\ tries' \in 0 .. Retry
  BY RetryAssumption DEF AfterNull, TypeInv, TypeOK
<1>3. NullResult(id) \in Result
  BY DEF NullResult, Result, CompletionCodes, TypeInv, TypeOK
<1>4. UNCHANGED <<id, call, tx, currSeq, saved, noanswer, reqs>>
  BY DEF AfterNull
<1>5. CASE tries + 1 < Retry
  <2>1. pc' \in {"xmit", "poll"} /\ timeout' \in {timeout, timeout + 1}
        /\ result' = result /\ left' = left
    BY <1>5 DEF AfterNull
  <2> QED
    BY <1>1, <1>2, <1>4, <1>5, <2>1 DEF TypeInv, TypeOK
<1>6. CASE ~(tries + 1 < Retry)
  <2>1. pc' = "idle" /\ timeout' = saved /\ result' = NullResult(id)
    BY <1>6 DEF AfterNull, Return
  <2>2. left' \in BOOLEAN
    BY <1>6 DEF AfterNull, Return, TypeInv, TypeOK
  <2> QED
    BY <1>1, <1>2, <1>3, <1>4, <2>1, <2>2 DEF TypeInv, TypeOK
<1> QED
  BY <1>5, <1>6

LEMMA ReceiveType ==
    ASSUME TypeInv, NEW r \in reqs, NEW ms \in Answers(r), ReceiveIpmi(r, ms)
    PROVE  TypeInv'
<1> DEFINE p == ipmi_lan_poll_single(entries, r.seq, ms)
<1>1. r \in Request /\ entries \in SUBSET Entry
  BY DEF TypeInv, TypeOK
<1>2. p.es \in SUBSET Entry /\ p.m \in Message
  BY <1>1, PollSingleType
<1>3. /\ pc = "poll" /\ entries' = p.es /\ ccode' = p.m.cc
      /\ IF p.out = "got" /\ p.m.cc # DuplicateRequest
         THEN /\ Return([kind |-> "ipmi", id |-> r.id, cmd |-> p.m.cmd, cc |-> p.m.cc])
              /\ timeout' = saved
         ELSE UNCHANGED <<pc, result, left, timeout>>
      /\ UNCHANGED <<id, call, tx, currSeq, tries, saved, noanswer, reqs>>
  BY DEF ReceiveIpmi
<1> HIDE DEF p
<1>4. [kind |-> "ipmi", id |-> r.id, cmd |-> p.m.cmd, cc |-> p.m.cc] \in Result
  BY <1>1, <1>2 DEF Request, Message, Result
<1>5. ccode' \in CompletionCodes
  BY <1>2, <1>3 DEF Message
<1>6. CASE p.out = "got" /\ p.m.cc # DuplicateRequest
  <2>1. /\ pc' = "idle" /\ timeout' = saved
        /\ result' = [kind |-> "ipmi", id |-> r.id, cmd |-> p.m.cmd, cc |-> p.m.cc]
    BY <1>3, <1>6 DEF Return
  <2>2. left' \in BOOLEAN
    BY <1>3, <1>6 DEF Return, TypeInv, TypeOK
  <2> QED
    BY <1>2, <1>3, <1>4, <1>5, <2>1, <2>2 DEF TypeInv, TypeOK
<1>7. CASE ~(p.out = "got" /\ p.m.cc # DuplicateRequest)
  <2>1. UNCHANGED <<pc, result, left, timeout>>
    BY <1>3, <1>7
  <2> QED
    BY <1>2, <1>3, <1>5, <2>1 DEF TypeInv, TypeOK
<1> QED
  BY <1>6, <1>7

LEMMA SolType ==
    ASSUME TypeInv, ReceiveSol
    PROVE  TypeInv'
<1>1. [kind |-> "sol", id |-> id, cmd |-> SendMessage, cc |-> ccode] \in Result
  BY DEF TypeInv, TypeOK, Result
<1>2. left' \in BOOLEAN
  BY DEF TypeInv, TypeOK, ReceiveSol, Return
<1> QED
  BY <1>1, <1>2 DEF TypeInv, TypeOK, ReceiveSol, Return

LEMMA TypeStep ==
    ASSUME TypeInv, [Next]_vars
    PROVE  TypeInv'
<1>1. ASSUME NEW c \in [cmd : Cmds, bridge : Bridges], ipmi_lanplus_send_ipmi_cmd(c) PROVE TypeInv'
  BY <1>1, SendType
<1>2. ASSUME NEW c \in [cmd : Cmds, bridge : {0}], ipmi_mc_reset(c) PROVE TypeInv'
  <2>1. c \in [cmd : Cmds, bridge : Bridges]
    BY DEF Bridges
  <2> QED
    BY <1>2, <2>1, SendType
<1>3. CASE Retransmit
  BY <1>3, RetransmitType
<1>4. CASE PollTimeout
  BY <1>4, AfterNullType DEF PollTimeout
<1>5. CASE InvalidAuthCode
  <2>1. PICK elapsed \in BOOLEAN : AfterNull(elapsed)
    BY <1>5 DEF InvalidAuthCode
  <2> QED
    BY <1>5, <2>1, AfterNullType DEF InvalidAuthCode
<1>6. ASSUME NEW r \in reqs, NEW ms \in Answers(r), ReceiveIpmi(r, ms) PROVE TypeInv'
  BY <1>6, ReceiveType
<1>7. CASE ReceiveSol
  BY <1>7, SolType
<1>8. CASE UNCHANGED vars
  BY <1>8 DEF vars, TypeInv, TypeOK
<1> QED
  BY <1>1, <1>2, <1>3, <1>4, <1>5, <1>6, <1>7, <1>8 DEF Next

LEMMA TypeInit ==
    ASSUME Init
    PROVE  TypeInv
<1>1. /\ result \in Result
      /\ call \in [cmd : Cmds, bridge : Bridges]
  BY DEF Init, Result, CompletionCodes, Bridges
<1>2. noanswer \in BOOLEAN /\ left \in BOOLEAN
  BY Zenon DEF Init
<1>3. /\ pc = "idle" /\ id \in Nat /\ tx \in Nat /\ tries \in 0 .. Retry
      /\ currSeq \in 0 .. SeqMod - 1 /\ timeout \in Nat /\ saved \in Nat
      /\ ccode \in CompletionCodes
      /\ entries \subseteq Entry /\ reqs \subseteq Request
  BY SeqModAssumption, RetryAssumption, TimeoutAssumption DEF Init, CompletionCodes
<1> QED
  BY <1>1, <1>2, <1>3 DEF TypeInv, TypeOK

(* The variables keep their types: rq_seq its bound, tries its limit, and   *)
(* the list and the answerable requests their fields, whatever datagrams    *)
(* arrive.                                                                  *)
THEOREM TypeCorrect == Spec => []TypeOK
<1>1. TypeInv => TypeOK
  BY DEF TypeInv
<1>2. Init => TypeInv
  BY TypeInit
<1>3. TypeInv /\ [Next]_vars => TypeInv'
  BY TypeStep
<1> QED
  BY <1>1, <1>2, <1>3, PTL DEF Spec

-----------------------------------------------------------------------------
(* The invariant: until some call leaves an entry behind. *)
Clean == ListClean /\ Window /\ ResultOK /\ TimeOK

(* Within SeqMod calls no rq_seq is used for two. *)
LEMMA SeqBackDistinct ==
    ASSUME NEW q \in 0 .. SeqMod - 1, NEW d \in Nat, d < SeqMod, SeqBack(q, d) = q
    PROVE  d = 0
BY SeqModAssumption DEF SeqBack

(* A new call shifts the window by one. *)
LEMMA SeqBackShift ==
    ASSUME NEW q \in 0 .. SeqMod - 1, NEW d \in Nat, d + 1 < SeqMod
    PROVE  SeqBack(NextSeq(q), d + 1) = SeqBack(q, d)
BY SeqModAssumption DEF SeqBack, NextSeq

LEMMA SeqBackZero ==
    ASSUME NEW q \in 0 .. SeqMod - 1
    PROVE  SeqBack(q, 0) = q
BY SeqModAssumption DEF SeqBack

LEMMA SendClean ==
    ASSUME RequestInvariant, NEW c \in [cmd : Cmds, bridge : Bridges],
           ipmi_lanplus_send_ipmi_cmd(c) \/ ipmi_mc_reset(c), ~left'
    PROVE  Clean'
<1>1. /\ pc = "idle" /\ id' = id + 1 /\ call' = c /\ tries' = 0 /\ saved' = timeout
      /\ noanswer' \in BOOLEAN
      /\ Transmit(id + 1, c, NextSeq(currSeq))
  BY DEF RequestInvariant, TypeOK, ipmi_lanplus_send_ipmi_cmd, ipmi_mc_reset
<1>2. TypeOK /\ id \in Nat /\ reqs \subseteq Request /\ currSeq \in 0 .. SeqMod - 1
  BY DEF RequestInvariant, TypeOK
<1> DEFINE q == NextSeq(currSeq)
           i == id + 1
           new == [id |-> i, seq |-> q, cmd |-> c.cmd, bridge |-> c.bridge]
<1>q. q \in 0 .. SeqMod - 1 /\ i = id + 1
  BY <1>2, NextSeqType
<1>t. Transmit(i, c, q) /\ id' = i
  BY <1>1
<1> HIDE DEF q, i
<1>3. /\ ~left
      /\ pc' = "poll" /\ tx' = tx + 1 /\ currSeq' = q
      /\ entries' = entries \cup {NewEntry(tx + 1, i, q, c)}
      /\ timeout' = timeout
      /\ reqs' = {r \in reqs : i - r.id < SeqMod} \cup {new}
  BY <1>1, <1>2, <1>t, TransmitClean
<1>4. ListClean /\ Window /\ TimeOK
  BY <1>3 DEF RequestInvariant
<1>5. ListClean'
  <2>1. entries' = {} \cup {NewEntry(tx + 1, i, q, c)}
    BY <1>1, <1>3, <1>4 DEF ListClean
  <2>2. Awaits(entries', tx + 1, i, q, c)
    BY <2>1, TransmitAwaits
  <2> QED
    BY <1>1, <1>t, <1>3, <2>2 DEF ListClean
<1>6. Window'
  <2> SUFFICES ASSUME NEW r \in reqs'
               PROVE  r.id <= i /\ i - r.id < SeqMod /\ r.seq = SeqBack(q, i - r.id)
    BY <1>t, <1>3 DEF Window
  <2>1. CASE r = new
    <3>1. r.id = i /\ r.seq = q
      BY <2>1
    <3>2. i - r.id = 0 /\ i \in Nat
      BY <1>2, <1>q, <3>1
    <3> QED
      BY <1>q, <3>1, <3>2, SeqBackZero, SeqModAssumption
  <2>2. CASE r \in reqs /\ i - r.id < SeqMod
    <3>1. r.id <= id /\ r.seq = SeqBack(currSeq, id - r.id) /\ r.id \in Nat
      BY <1>2, <1>4, <2>2 DEF Window, Request
    <3> DEFINE d == id - r.id
    <3>2. d \in Nat /\ d + 1 < SeqMod /\ i - r.id = d + 1 /\ r.id <= i
      BY <1>q, <1>2, <2>2, <3>1
    <3>3. r.seq = SeqBack(currSeq, d)
      BY <3>1
    <3> HIDE DEF d
    <3>4. SeqBack(q, d + 1) = SeqBack(currSeq, d)
      BY <1>2, <3>2, SeqBackShift DEF q
    <3> QED
      BY <2>2, <3>2, <3>3, <3>4
  <2> QED
    BY <1>3, <2>1, <2>2
<1>7. ResultOK'
  BY <1>3 DEF ResultOK
<1>8. TimeOK'
  BY <1>1, <1>2, <1>3, <1>4, TimeoutAssumption DEF TimeOK, TypeOK
<1> QED
  BY <1>5, <1>6, <1>7, <1>8 DEF Clean

LEMMA RetransmitClean ==
    ASSUME RequestInvariant, Retransmit, ~left'
    PROVE  Clean'
<1>1. /\ pc = "xmit" /\ UNCHANGED <<id, call, tries, saved, noanswer>>
      /\ Transmit(id, call, currSeq)
  BY DEF Retransmit
<1>2. /\ TypeOK /\ id \in Nat /\ reqs \subseteq Request /\ currSeq \in 0 .. SeqMod - 1
      /\ noanswer' \in BOOLEAN
  BY <1>1 DEF RequestInvariant, TypeOK
<1> DEFINE new == [id |-> id, seq |-> currSeq, cmd |-> call.cmd, bridge |-> call.bridge]
<1>3. /\ ~left
      /\ pc' = "poll" /\ tx' = tx + 1 /\ currSeq' = currSeq
      /\ entries' = entries \cup {NewEntry(tx + 1, id, currSeq, call)}
      /\ timeout' = timeout
      /\ reqs' = {r \in reqs : id - r.id < SeqMod} \cup {new}
  BY <1>1, <1>2, TransmitClean
<1>4. ListClean /\ Window /\ TimeOK
  BY <1>3 DEF RequestInvariant
<1>5. ListClean'
  <2>1. entries' = {} \cup {NewEntry(tx + 1, id, currSeq, call)}
    BY <1>1, <1>3, <1>4 DEF ListClean
  <2>2. Awaits(entries', tx + 1, id, currSeq, call)
    BY <2>1, TransmitAwaits
  <2> QED
    BY <1>1, <1>3, <2>2 DEF ListClean
<1>6. Window'
  <2> SUFFICES ASSUME NEW r \in reqs'
               PROVE  r.id <= id /\ id - r.id < SeqMod /\ r.seq = SeqBack(currSeq, id - r.id)
    BY <1>1, <1>3 DEF Window
  <2>1. CASE r = new
    <3>1. r.id = id /\ r.seq = currSeq /\ id - r.id = 0
      BY <1>2, <2>1
    <3> QED
      BY <1>2, <3>1, SeqBackZero, SeqModAssumption
  <2>2. CASE r \in reqs
    BY <1>4, <2>2 DEF Window
  <2> QED
    BY <1>3, <2>1, <2>2
<1>7. ResultOK'
  BY <1>3 DEF ResultOK
<1>8. TimeOK'
  BY <1>1, <1>3, <1>4 DEF TimeOK
<1> QED
  BY <1>5, <1>6, <1>7, <1>8 DEF Clean

(* After a null answer the list is empty. *)
LEMMA NullEmpties ==
    ASSUME ListClean, TypeOK, NEW elapsed, AfterNull(elapsed)
    PROVE  entries' = {}
<1>1. CASE entries = {}
  BY <1>1 DEF AfterNull
<1>2. CASE entries # {}
  <2>1. PICK e \in entries : entries = {e} /\ e.n = tx
    BY <1>2 DEF ListClean, Awaits
  <2>2. EntryTaken \subseteq {e}
    <3>1. Matches(entries, e.seq, e.cmd) = {e}
      BY <2>1 DEF Matches
    <3>2. First({e}) = e
      BY <2>1, FirstIsOne DEF TypeOK
    <3>3. {f \in entries : f.n = tx} = {e}
      BY <2>1
    <3> QED
      BY <3>1, <3>2, <3>3 DEF EntryTaken
  <2> QED
    BY <2>1, <2>2 DEF AfterNull
<1> QED
  BY <1>1, <1>2

LEMMA AfterNullClean ==
    ASSUME RequestInvariant, NEW elapsed \in BOOLEAN, pc = "poll", AfterNull(elapsed), ~left'
    PROVE  Clean'
<1>1. /\ UNCHANGED <<id, call, tx, currSeq, saved, noanswer, reqs>>
      /\ tries' = tries + 1
  BY DEF AfterNull
<1>2. TypeOK /\ ~left
  BY DEF RequestInvariant, TypeOK, AfterNull, Return
<1>3. ListClean /\ Window /\ TimeOK
  BY <1>2 DEF RequestInvariant
<1>4. entries' = {}
  BY <1>2, <1>3, NullEmpties
<1>5. ListClean'
  BY <1>4 DEF ListClean, Awaits
<1>6. Window'
  BY <1>1, <1>3 DEF Window
<1>7. ResultOK' /\ TimeOK'
  <2>1. saved = BaseTimeout /\ timeout \in Nat /\ tries \in Nat /\ timeout <= BaseTimeout + tries
    BY <1>2, <1>3 DEF TimeOK, TypeOK
  <2>2. CASE tries + 1 < Retry
    <3>1. pc' \in {"xmit", "poll"} /\ timeout' \in {timeout, timeout + 1}
      BY <2>2 DEF AfterNull
    <3> QED
      BY <1>1, <2>1, <3>1, TimeoutAssumption DEF ResultOK, TimeOK
  <2>3. CASE ~(tries + 1 < Retry)
    <3>1. pc' = "idle" /\ timeout' = saved /\ result'.kind = "null"
      BY <2>3 DEF AfterNull, Return, NullResult
    <3> QED
      BY <1>1, <2>1, <3>1, TimeoutAssumption DEF ResultOK, TimeOK
  <2> QED
    BY <2>2, <2>3
<1> QED
  BY <1>5, <1>6, <1>7 DEF Clean

LEMMA ReceiveClean ==
    ASSUME RequestInvariant, NEW r \in reqs, NEW ms \in Answers(r), ReceiveIpmi(r, ms), ~left'
    PROVE  Clean'
<1> DEFINE p == ipmi_lan_poll_single(entries, r.seq, ms)
<1>1. /\ pc = "poll" /\ entries' = p.es
      /\ IF p.out = "got" /\ p.m.cc # DuplicateRequest
         THEN /\ Return([kind |-> "ipmi", id |-> r.id, cmd |-> p.m.cmd, cc |-> p.m.cc])
              /\ timeout' = saved
         ELSE UNCHANGED <<pc, result, left, timeout>>
      /\ UNCHANGED <<id, call, tx, currSeq, tries, saved, noanswer, reqs>>
  BY DEF ReceiveIpmi
<1>2. /\ TypeOK /\ r \in Request /\ entries \in SUBSET Entry /\ call.cmd \in Cmds
      /\ id \in Nat /\ currSeq \in 0 .. SeqMod - 1 /\ r.id \in Nat
  BY DEF RequestInvariant, TypeOK, Request
<1>3. ~left
  BY <1>1, <1>2 DEF Return, TypeOK
<1>4. ListClean /\ Window /\ TimeOK
  BY <1>3 DEF RequestInvariant
<1>5. Answered(p, r.seq, tx, id, currSeq, call)
  <2>1. Awaits(entries, tx, id, currSeq, call)
    BY <1>4 DEF ListClean
  <2> QED
    BY <1>2, <2>1, PollSingleAwaits, Zenon
<1> HIDE DEF p
<1>6. Window'
  BY <1>1, <1>4 DEF Window
<1>7. CASE p.out = "got" /\ p.m.cc # DuplicateRequest
  <2>1. /\ pc' = "idle" /\ timeout' = saved
        /\ result' = [kind |-> "ipmi", id |-> r.id, cmd |-> p.m.cmd, cc |-> p.m.cc]
    BY <1>1, <1>7 DEF Return
  <2>2. p.es = {} /\ r.seq = currSeq /\ (p.m.cc = 0 => p.m.cmd = call.cmd)
    BY <1>5, <1>7 DEF Answered
  <2>3. r.id = id
    <3> DEFINE d == id - r.id
    <3>1. d \in Nat /\ d < SeqMod
      BY <1>2, <1>4 DEF Window
    <3>2. SeqBack(currSeq, d) = currSeq
      BY <1>4, <2>2 DEF Window
    <3>3. d = 0
      <4> HIDE DEF d
      <4> QED
        BY <1>2, <3>1, <3>2, SeqBackDistinct
    <3> QED
      BY <1>2, <3>3
  <2>4. ListClean'
    BY <1>1, <2>2 DEF ListClean, Awaits
  <2>5. ResultOK'
    BY <1>1, <2>1, <2>2, <2>3 DEF ResultOK
  <2>6. TimeOK'
    BY <1>1, <1>2, <1>4, <2>1, TimeoutAssumption DEF TimeOK, TypeOK
  <2> QED
    BY <1>6, <2>4, <2>5, <2>6 DEF Clean
<1>8. CASE ~(p.out = "got" /\ p.m.cc # DuplicateRequest)
  <2>1. UNCHANGED <<pc, result, timeout>>
    BY <1>1, <1>8
  <2>2. ListClean'
    BY <1>1, <1>5, <2>1 DEF ListClean, Answered
  <2>3. ResultOK' /\ TimeOK'
    BY <1>1, <1>4, <2>1 DEF ResultOK, TimeOK
  <2> QED
    BY <1>6, <2>2, <2>3 DEF Clean
<1> QED
  BY <1>7, <1>8

LEMMA SolClean ==
    ASSUME RequestInvariant, ReceiveSol, ~left'
    PROVE  Clean'
<1>1. /\ pc = "poll" /\ pc' = "idle" /\ entries' = entries /\ entries' = {} /\ ~left
      /\ result'.kind = "sol" /\ timeout' = saved
      /\ UNCHANGED <<id, call, tx, currSeq, tries, saved, reqs>>
  BY DEF ReceiveSol, Return, RequestInvariant, TypeOK
<1>2. Window /\ TimeOK /\ TypeOK
  BY <1>1 DEF RequestInvariant
<1>3. ListClean'
  BY <1>1 DEF ListClean, Awaits
<1>4. Window'
  BY <1>1, <1>2 DEF Window
<1>5. ResultOK'
  BY <1>1 DEF ResultOK
<1>6. TimeOK'
  BY <1>1, <1>2, TimeoutAssumption DEF TimeOK, TypeOK
<1> QED
  BY <1>3, <1>4, <1>5, <1>6 DEF Clean

LEMMA CleanStep ==
    ASSUME RequestInvariant, [Next]_vars, ~left'
    PROVE  Clean'
<1>1. ASSUME NEW c \in [cmd : Cmds, bridge : Bridges], ipmi_lanplus_send_ipmi_cmd(c) PROVE Clean'
  BY <1>1, SendClean
<1>2. ASSUME NEW c \in [cmd : Cmds, bridge : {0}], ipmi_mc_reset(c) PROVE Clean'
  <2>1. c \in [cmd : Cmds, bridge : Bridges]
    BY DEF Bridges
  <2> QED
    BY <1>2, <2>1, SendClean
<1>3. CASE Retransmit
  BY <1>3, RetransmitClean
<1>4. CASE PollTimeout
  BY <1>4, AfterNullClean DEF PollTimeout
<1>5. CASE InvalidAuthCode
  <2>1. PICK elapsed \in BOOLEAN : AfterNull(elapsed)
    BY <1>5 DEF InvalidAuthCode
  <2> QED
    BY <1>5, <2>1, AfterNullClean DEF InvalidAuthCode
<1>6. ASSUME NEW r \in reqs, NEW ms \in Answers(r), ReceiveIpmi(r, ms) PROVE Clean'
  BY <1>6, ReceiveClean
<1>7. CASE ReceiveSol
  BY <1>7, SolClean
<1>8. CASE UNCHANGED vars
  BY <1>8 DEF vars, RequestInvariant, Clean, ListClean, Awaits, Window, ResultOK, TimeOK
<1> QED
  BY <1>1, <1>2, <1>3, <1>4, <1>5, <1>6, <1>7, <1>8 DEF Next

(* The invariant of a call: until some call has left an entry behind, the   *)
(* list holds at most the request being waited for, and no request that can *)
(* still be answered shares its rq_seq.                                     *)
THEOREM Invariance == Spec => []RequestInvariant
<1>1. RequestInvariant <=> TypeInv /\ (~left => Clean)
  BY DEF RequestInvariant, TypeInv, Clean
<1>2. Init => RequestInvariant
  <2> SUFFICES ASSUME Init PROVE RequestInvariant
    OBVIOUS
  <2>1. TypeInv
    BY TypeInit
  <2>2. ListClean /\ Window
    BY DEF Init, ListClean, Awaits, Window
  <2>3. ResultOK /\ TimeOK
    BY TimeoutAssumption DEF Init, ResultOK, TimeOK
  <2> QED
    BY <1>1, <2>1, <2>2, <2>3 DEF Clean
<1>3. RequestInvariant /\ [Next]_vars => RequestInvariant'
  <2> SUFFICES ASSUME RequestInvariant, [Next]_vars PROVE RequestInvariant'
    OBVIOUS
  <2>1. TypeInv'
    BY <1>1, TypeStep
  <2>2. ~left' => Clean'
    BY CleanStep
  <2> QED
    BY <2>1, <2>2 DEF RequestInvariant, TypeInv, Clean
<1> QED
  BY <1>2, <1>3, PTL DEF Spec

(* Until then a call returns the answer to itself or none ...               *)
THEOREM ResponsesMatch == Spec => []ResponseMatches
<1>1. RequestInvariant => ResponseMatches
  BY DEF RequestInvariant, ResultOK, ResponseMatches
<1> QED
  BY <1>1, Invariance, PTL

(* ... a bridged call with completion code 0 the answer of the target ...   *)
THEOREM BridgedAnswersAreTargets == Spec => []BridgedAnswerIsTargets
<1>1. RequestInvariant => BridgedAnswerIsTargets
  BY DEF RequestInvariant, ResultOK, BridgedAnswerIsTargets
<1> QED
  BY <1>1, Invariance, PTL

(* ... and session->timeout is back at its value when it returns.            *)
THEOREM TimeoutsRestored == Spec => []TimeoutRestored
<1>1. RequestInvariant => TimeoutRestored
  BY DEF RequestInvariant, TimeOK, TimeoutRestored
<1> QED
  BY <1>1, Invariance, PTL

-----------------------------------------------------------------------------
(* Nothing is ever left behind unless send(2) fails, a cold reset is issued *)
(* or SOL packets arrive.                                                   *)
Quiet == ~left /\ ~noanswer

LEMMA QuietStep ==
    ASSUME Faults \subseteq {"bad_auth"}, RequestInvariant, Quiet, [Next]_vars
    PROVE  Quiet'
<1>0. TypeOK /\ ListClean /\ noanswer = FALSE /\ left = FALSE
  BY DEF RequestInvariant, Quiet, TypeOK
<1>1. ASSUME NEW c, ipmi_lanplus_send_ipmi_cmd(c) PROVE Quiet'
  BY <1>0, <1>1 DEF ipmi_lanplus_send_ipmi_cmd, Transmit, Quiet
<1>2. ASSUME NEW c, ipmi_mc_reset(c) PROVE Quiet'
  BY <1>2 DEF ipmi_mc_reset
<1>3. CASE Retransmit
  BY <1>0, <1>3 DEF Retransmit, Transmit, Quiet
<1>4. ASSUME NEW elapsed, AfterNull(elapsed) PROVE Quiet'
  <2>1. entries' = {}
    BY <1>0, <1>4, NullEmpties
  <2> QED
    BY <1>0, <1>4, <2>1 DEF AfterNull, Return, Quiet
<1>5. ASSUME NEW r \in reqs, NEW ms \in Answers(r), ReceiveIpmi(r, ms) PROVE Quiet'
  <2> DEFINE p == ipmi_lan_poll_single(entries, r.seq, ms)
  <2>1. /\ r \in Request /\ entries \in SUBSET Entry /\ call.cmd \in Cmds
        /\ Awaits(entries, tx, id, currSeq, call)
    BY <1>0 DEF TypeOK, ListClean
  <2>2. Answered(p, r.seq, tx, id, currSeq, call)
    BY <2>1, PollSingleAwaits, Zenon
  <2>3. /\ entries' = p.es /\ noanswer' = noanswer
        /\ IF p.out = "got" /\ p.m.cc # DuplicateRequest
           THEN left' = (left \/ entries' # {})
           ELSE left' = left
    BY <1>5 DEF ReceiveIpmi, Return
  <2> HIDE DEF p
  <2> QED
    BY <1>0, <2>2, <2>3 DEF Answered, Quiet
<1>6. CASE ReceiveSol
  BY <1>6 DEF ReceiveSol
<1>7. CASE UNCHANGED vars
  BY <1>7 DEF vars, Quiet
<1> QED
  BY <1>1, <1>2, <1>3, <1>4, <1>5, <1>6, <1>7 DEF Next, PollTimeout, InvalidAuthCode

LEMMA RpcStep ==
    ASSUME Faults \subseteq {"bad_auth"}, RequestInvariant, RequestInvariant',
           Quiet, Quiet', [Next]_vars
    PROVE  [Rpc!Next]_(Rpc!rpcVars)
<1> DEFINE Answer == IF result.kind = "ipmi" THEN result.id ELSE 0
           Stutter == (pc' # "idle" <=> pc # "idle") /\ id' = id /\ Answer' = Answer
           Calls == pc = "idle" /\ pc' # "idle" /\ id' = id + 1 /\ Answer' = Answer
           Returns == pc # "idle" /\ pc' = "idle" /\ id' = id /\ Answer' \in {id, 0}
<1> SUFFICES Stutter \/ Calls \/ Returns
  <2>1. Stutter => UNCHANGED Rpc!rpcVars
    BY DEF Rpc!rpcVars
  <2>2. Calls => Rpc!Call
    BY DEF Rpc!Call
  <2>3. Returns => Rpc!Return
    BY DEF Rpc!Return
  <2> QED
    BY <2>1, <2>2, <2>3 DEF Rpc!Next
<1>0. TypeOK /\ noanswer' \in BOOLEAN /\ ~left' /\ ResultOK'
  BY DEF RequestInvariant, Quiet, TypeOK
<1>1. ASSUME NEW c, ipmi_lanplus_send_ipmi_cmd(c) PROVE Calls
  <2>1. pc = "idle" /\ id' = id + 1 /\ Transmit(id + 1, c, NextSeq(currSeq))
    BY <1>1 DEF ipmi_lanplus_send_ipmi_cmd
  <2>2. pc' = "poll" /\ result' = result
    BY <1>0, <2>1, TransmitClean
  <2> QED
    BY <2>1, <2>2
<1>2. ASSUME NEW c, ipmi_mc_reset(c) PROVE FALSE
  BY <1>2 DEF ipmi_mc_reset
<1>3. CASE Retransmit
  <2>1. pc = "xmit" /\ id' = id /\ Transmit(id, call, currSeq)
    BY <1>3 DEF Retransmit
  <2>2. pc' = "poll" /\ result' = result
    BY <1>0, <2>1, TransmitClean
  <2> QED
    BY <2>1, <2>2
<1>4. ASSUME NEW elapsed, pc = "poll", AfterNull(elapsed) PROVE Stutter \/ Returns
  <2>1. CASE tries + 1 < Retry
    BY <1>4, <2>1 DEF AfterNull
  <2>2. CASE ~(tries + 1 < Retry)
    BY <1>4, <2>2 DEF AfterNull, Return, NullResult
  <2> QED
    BY <2>1, <2>2
<1>5. ASSUME NEW r, NEW ms, ReceiveIpmi(r, ms) PROVE Stutter \/ Returns
  <2> DEFINE p == ipmi_lan_poll_single(entries, r.seq, ms)
  <2>1. pc = "poll" /\ id' = id
    BY <1>5 DEF ReceiveIpmi
  <2>2. CASE p.out = "got" /\ p.m.cc # DuplicateRequest
    <3>1. pc' = "idle" /\ result'.kind = "ipmi"
      BY <1>5, <2>2 DEF ReceiveIpmi, Return
    <3> QED
      BY <1>0, <2>1, <3>1 DEF ResultOK
  <2>3. CASE ~(p.out = "got" /\ p.m.cc # DuplicateRequest)
    <3>1. pc' = pc /\ result' = result
      BY <1>5, <2>3 DEF ReceiveIpmi
    <3> QED
      BY <2>1, <3>1
  <2> QED
    BY <2>2, <2>3
<1>6. CASE ReceiveSol
  BY <1>6 DEF ReceiveSol
<1>7. CASE UNCHANGED vars
  BY <1>7 DEF vars
<1> HIDE DEF Stutter, Calls, Returns
<1> QED
  BY <1>1, <1>2, <1>3, <1>4, <1>5, <1>6, <1>7 DEF Next, PollTimeout, InvalidAuthCode

(* Where nothing can leave an entry behind, ipmi_lanplus_send_payload() implements the    *)
(* safety part of the one-call-one-answer service IpmiRpc describes, for    *)
(* any number of commands, tries and sequence numbers.                      *)
THEOREM ImplementsRpc ==
    ASSUME Faults \subseteq {"bad_auth"}
    PROVE  Spec => Rpc!Safety
<1>1. Init => Rpc!Init
  BY DEF Init, Rpc!Init
<1>2. Init => Quiet
  BY DEF Init, Quiet
<1>3. RequestInvariant /\ Quiet /\ [Next]_vars => Quiet'
  BY QuietStep
<1>4. RequestInvariant /\ RequestInvariant' /\ Quiet /\ Quiet' /\ [Next]_vars
        => [Rpc!Next]_(Rpc!rpcVars)
  BY RpcStep
<1> QED
  BY <1>1, <1>2, <1>3, <1>4, Invariance, PTL DEF Spec, Rpc!Safety
=============================================================================
