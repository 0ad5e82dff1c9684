----------------------------- MODULE LanplusSol -----------------------------
(***************************************************************************)
(* Serial over LAN: ipmi_lanplus_send_sol() and ipmi_lanplus_recv_sol()    *)
(* with the SOL branch of ipmi_lanplus_send_payload()                      *)
(* (src/src/plugins/lanplus/lanplus.c), and the session loop of "sol       *)
(* activate" on top of them (src/lib/ipmi_sol.c).                          *)
(*                                                                         *)
(* The characters of either direction are numbered 1, 2, 3, ...; a packet  *)
(* carries some of them. The console is single threaded, an action runs    *)
(* from one reception (or from select(2)) to the next. The BMC is          *)
(* external: it keeps one packet outstanding, repeats it until all of it   *)
(* is acknowledged, perhaps with characters added, and answers a repeated  *)
(* packet of the console as it did the first time. The network loses and   *)
(* delays packets but keeps their order.                                   *)
(***************************************************************************)
EXTENDS Integers, Sequences, FiniteSetsExt

CONSTANTS
    MaxSeq,          \* SOL sequence numbers are 1 .. MaxSeq; 15 in the code
    Retry,           \* ssn_params.retry
    Limit,           \* characters in a read (max_inbound_payload_size - 4)
    MaxFailures,     \* keepalive failures tolerated in a row; 6 in the code
    ToBmcCapacity,   \* bound on the packets under way to the BMC
    ToConCapacity,   \* bound on the packets under way to the console
    MaxTyped,        \* bound on the characters the user types
    MaxPrinted,      \* bound on the characters the BMC prints
    MaxExtras,       \* bound on breaks and keepalives
    MaxActivations   \* bound on activations of the payload

ASSUME RetryAssumption    == Retry \in Nat \ {0}
ASSUME LimitAssumption    == Limit \in Nat \ {0}
ASSUME CapacityAssumption == ToBmcCapacity \in Nat \ {0} /\ ToConCapacity \in Nat \ {0}
ASSUME BoundsAssumption   ==
    /\ MaxFailures \in Nat /\ MaxTyped \in Nat /\ MaxPrinted \in Nat
    /\ MaxExtras \in Nat /\ MaxActivations \in Nat

ASSUME MaxSeqAssumption == MaxSeq \in Nat /\ MaxSeq >= 2

VARIABLES
    pc,        \* "idle": not activated; "loop": at select(2) in
               \* ipmi_sol_red_pill();
               \* "send": in ipmi_lanplus_send_sol(); "keepalive": in
               \* ipmi_lanplus_keepalive();
               \* "exit": the program has ended
    snd,       \* the packet being sent and the loops around it, see Sending
    solSeq,    \* sol_data.sequence_number
    reused,    \* history: a number was taken with a packet or an
               \* acknowledgement of it still under way
    unanswered,\* history: numbers taken since a send was last answered;
               \* once it is MaxSeq, a full round, it stays so
    last,      \* last_received_sequence_number and _byte_count
    failures,  \* retrySol: keepalive failures in a row
    owed,      \* keepalives given up with their request still listed
    typed,     \* characters read from the user so far
    out,       \* characters written to the terminal
    bmc,       \* the BMC's side, see Bmc
    toBmc,     \* packets under way to the BMC
    toCon,     \* packets under way to the console
    used,      \* activations, breaks and keepalives so far
    dropped,   \* history: characters acknowledged and thrown away
    presumed,  \* history: a send was taken for done without its full ACK
    resent,    \* history: input was sent again under a new number
    clash      \* history: activated with the number of an old packet kept

conVars  == <<pc, snd, solSeq, reused, unanswered, last, failures, owed, typed, out>>
histVars == <<used, dropped, presumed, resent, clash>>
netVars  == <<toBmc, toCon>>
vars     == <<conVars, bmc, netVars, histVars>>

-----------------------------------------------------------------------------
Seqs   == 0 .. MaxSeq     \* 0: the packet only acknowledges

(* nack stands for is_nack or transfer_unavailable, or, with the intelplus *)
(* option, for an acknowledgement that accepts nothing.                    *)
Packet == [seq : Seqs, data : Seq(Nat), ack : Seqs, accepted : Nat, nack : BOOLEAN]

Length(p) == Len(p.data)

(* kind is the caller of ipmi_lanplus_send_sol(); buf the data of its      *)
(* v2_payload, quit: the input held the escape that terminates (retval = 1 *)
(* in processSolUserInput()); attempt its loop, tries that of              *)
(* ipmi_lanplus_send_payload().                                            *)
Sending == [kind : {"input", "break", "keepalive"}, pkt : Packet, buf : Seq(Nat),
            quit : BOOLEAN, attempt : 0 .. Retry, tries : 0 .. Retry, more : BOOLEAN]

Bmc == [seq : Seqs, acked : Nat, to : Nat,         \* what it prints
        inSeq : Seqs, inAccepted : Nat, inNack : BOOLEAN,
        got : Seq(Nat)]                            \* what it was sent

NoPacket == [seq |-> 0, data |-> <<>>, ack |-> 0, accepted |-> 0, nack |-> FALSE]

NotSending == [kind |-> "input", pkt |-> NoPacket, buf |-> <<>>, quit |-> FALSE,
               attempt |-> 0, tries |-> 0, more |-> FALSE]

(* What the types of the variables are. *)
TypeOK ==
    /\ pc \in {"idle", "loop", "send", "keepalive", "exit"}
    /\ snd \in Sending
    /\ solSeq \in 1 .. MaxSeq + 1 /\ reused \in BOOLEAN
    /\ unanswered \in 0 .. MaxSeq
    /\ last \in [seq : Seqs, count : Nat]
    /\ failures \in 0 .. MaxFailures
    /\ owed \in Nat /\ typed \in Nat /\ out \in Seq(Nat)
    /\ bmc \in Bmc
    /\ toBmc \in Seq(Packet) /\ toCon \in Seq(Packet)
    /\ used \in [activations : Nat, extras : Nat]
    /\ dropped \subseteq Nat
    /\ {presumed, resent, clash} \subseteq BOOLEAN

Init ==
    /\ pc = "idle" /\ snd = NotSending
    /\ solSeq = 1 /\ reused = FALSE /\ unanswered = 0
    /\ last = [seq |-> 0, count |-> 0]
    /\ failures = 0 /\ owed = 0
    /\ typed = 0 /\ out = <<>>
    /\ bmc = [seq |-> 0, acked |-> 0, to |-> 0,
              inSeq |-> 0, inAccepted |-> 0, inNack |-> FALSE, got |-> <<>>]
    /\ toBmc = <<>> /\ toCon = <<>>
    /\ used = [activations |-> 0, extras |-> 0]
    /\ dropped = {} /\ presumed = FALSE /\ resent = FALSE /\ clash = FALSE

-----------------------------------------------------------------------------
(* Packets and channels. What does not fit under way is lost. *)

PutUpTo(q, p, capacity) == IF Len(q) < capacity THEN Append(q, p) ELSE q
Put(q, p)               == PutUpTo(q, p, ToBmcCapacity)
PutToCon(q, p)          == PutUpTo(q, p, ToConCapacity)

Elements(s)     == {s[i] : i \in 1 .. Len(s)}
Chars(from, to) == [i \in 1 .. to - from |-> from + i]

(* A slip: the number wraps one too late. *)
NextSolSeqLateWrap == IF solSeq > MaxSeq + 1 THEN 1 ELSE solSeq

(* set_sol_packet_sequence_number() *)
NextSolSeq == IF solSeq > MaxSeq THEN 1 ELSE solSeq

(* A packet with the number n, or an acknowledgement of one, is under way. *)
UnderWay(n, q) ==
    \/ \E i \in 1 .. Len(q) : q[i].seq = n
    \/ \E i \in 1 .. Len(toCon) : toCon[i].ack = n

DataPacket(data) == [NoPacket EXCEPT !.seq = NextSolSeq, !.data = data]

(* ack_sol_packet(): the packet is acknowledged whole, and before anything *)
(* is taken off it as a repetition.                                        *)
Acked(q, p) ==
    IF p.seq = 0
    THEN q
    ELSE Put(q, [NoPacket EXCEPT !.ack = p.seq, !.accepted = Length(p)])

(* A slip: repetitions are not recognised. *)
NewLengthAlwaysAll(p) == Length(p)

(* A slip: the new bytes of a packet are counted from the old packet. *)
NewLengthAlwaysLess(p) == Length(p) - last.count

(* check_sol_packet_for_new_data(): rsp.data_len behind it, negative where *)
(* the repetition is shorter; the data are the last so many bytes.         *)
NewLength(p) == IF p.seq = last.seq THEN Length(p) - last.count ELSE Length(p)

NewChars(p) == SubSeq(p.data, Length(p) - NewLength(p) + 1, Length(p))

Remembered(p) == IF p.seq # 0 THEN [seq |-> p.seq, count |-> Length(p)] ELSE last

-----------------------------------------------------------------------------
(* An answer begins the count of unanswered numbers anew, unless it has     *)
(* come to a whole round.                                                  *)
Answered == IF unanswered = MaxSeq THEN MaxSeq ELSE 0

(* ipmi_lanplus_send_sol() for a new packet; q is what is under way to the *)
(* BMC already, n the numbers that have gone unanswered.                   *)
SendSol(s, data, q, n) ==
    /\ pc' = "send"
    /\ solSeq' = NextSolSeq + 1
    /\ unanswered' = IF n = MaxSeq THEN MaxSeq ELSE n + 1
    /\ reused' = (reused \/ UnderWay(NextSolSeq, q))
    /\ snd' = [s EXCEPT !.pkt = DataPacket(data), !.tries = 0]
    /\ toBmc' = Put(q, DataPacket(data))

(* ipmi_sol_red_pill() is left: the program goes on only if the last       *)
(* keepalive was answered (keepAliveRet).                                  *)
Ended == IF failures > 0 THEN "exit" ELSE "idle"

(* ipmi_lanplus_send_sol() returned a response, whatever it says: the      *)
(* caller goes on.                                                         *)
Sent(q) ==
    /\ pc' = IF snd.quit THEN Ended ELSE "loop"
    /\ failures' = IF snd.kind = "keepalive" THEN 0 ELSE failures
    /\ snd' = NotSending
    /\ toBmc' = q
    /\ unanswered' = Answered
    /\ UNCHANGED <<solSeq, reused>>

(* A keepalive failed, in ipmi_sol_red_pill(). *)
KeepaliveFailed ==
    /\ pc' = IF failures = MaxFailures THEN "exit" ELSE "loop"
    /\ failures' = IF failures = MaxFailures THEN failures ELSE failures + 1
    /\ snd' = NotSending

-----------------------------------------------------------------------------
(* ipmi_sol_red_pill() *)

(* The payload is activated. The two statics of                            *)
(* check_sol_packet_for_new_data() are not reset; the BMC starts at 1      *)
(* again.                                                                  *)
ipmi_sol_activate ==
    /\ pc = "idle" /\ used.activations < MaxActivations
    /\ pc' = "loop"
    /\ failures' = 0
    /\ used' = [used EXCEPT !.activations = @ + 1]
    /\ clash' = (clash \/ last.seq = 1)
    /\ bmc' = [bmc EXCEPT !.seq = 0, !.acked = bmc.to, !.inSeq = 0]
    /\ dropped' = dropped \cup (bmc.acked + 1 .. bmc.to)
    /\ toBmc' = <<>> /\ toCon' = <<>>
    /\ UNCHANGED <<snd, solSeq, reused, unanswered, last, owed, typed, out, presumed, resent>>

(* End of input, or an escape with nothing else in the read. *)
ipmi_sol_deactivate ==
    /\ pc = "loop"
    /\ pc' = Ended
    /\ UNCHANGED <<snd, solSeq, reused, unanswered, last, failures, owed, typed, out, bmc, netVars,
                   histVars>>

(* A whole read goes into one packet, with the escape character an earlier *)
(* read ended in.                                                          *)
processSolUserInput(n, quit) ==
    LET buf == Chars(typed, typed + n) IN
    /\ pc = "loop" /\ typed + n <= MaxTyped
    /\ typed' = typed + n
    /\ SendSol([NotSending EXCEPT !.buf = buf, !.quit = quit], buf, toBmc, unanswered)
    /\ UNCHANGED <<last, failures, owed, out, bmc, toCon, histVars>>

(* sendBreak(), or ipmi_sol_keepalive_using_sol(): an empty packet. *)
SendEmpty(kind) ==
    /\ pc = "loop" /\ used.extras < MaxExtras
    /\ used' = [used EXCEPT !.extras = @ + 1]
    /\ SendSol([NotSending EXCEPT !.kind = kind], <<>>, toBmc, unanswered)
    /\ UNCHANGED <<last, failures, owed, typed, out, bmc, toCon, dropped, presumed, resent, clash>>

(* ipmi_lanplus_recv_sol() and output(). *)
LoopReceives ==
    /\ pc = "loop" /\ toCon # <<>>
    /\ toCon' = Tail(toCon)
    /\ toBmc' = Acked(toBmc, Head(toCon))
    /\ out' = out \o NewChars(Head(toCon))
    /\ last' = Remembered(Head(toCon))
    /\ UNCHANGED <<pc, snd, solSeq, reused, unanswered, failures, owed, typed, bmc, histVars>>

(* select(2) failed: ipmi_sol_red_pill() returns at once, the payload is   *)
(* not deactivated.                                                        *)
SelectFails ==
    /\ pc = "loop"
    /\ pc' = "idle"
    /\ UNCHANGED <<snd, solSeq, reused, unanswered, last, failures, owed, typed, out, bmc, netVars,
                   histVars>>

(* The datagram was not acceptable and ipmi_lanplus_recv_sol() returns     *)
(* null.                                                                   *)
LoopReceivesNull ==
    /\ pc = "loop"
    /\ pc' = "exit"
    /\ UNCHANGED <<snd, solSeq, reused, unanswered, last, failures, owed, typed, out, bmc, netVars,
                   histVars>>

(* The answer to a keepalive given up earlier: not a SOL packet, so        *)
(* output() ignores it and ipmi_lanplus_send_payload() ends its wait with  *)
(* it.                                                                     *)
LateAnswer ==
    /\ owed > 0 /\ owed' = owed - 1
    /\ \/ /\ pc = "loop"
          /\ UNCHANGED <<pc, snd, solSeq, reused, unanswered, failures, toBmc, presumed>>
       \/ /\ pc = "send"
          /\ presumed' = TRUE
          /\ Sent(toBmc)
    /\ UNCHANGED <<last, typed, out, bmc, toCon, used, dropped, resent, clash>>

-----------------------------------------------------------------------------
(* ipmi_lanplus_send_payload() waits for the acknowledgement of snd.pkt. *)

Acks(p)   == p.ack = snd.pkt.seq
Resend(p) == IF Acks(p) /\ p.accepted < Length(snd.pkt) THEN Length(snd.pkt) - p.accepted ELSE 0

(* Two slips: all of it is sent again, or nothing. *)
PartialAckResendsAll(p) ==
    /\ Resend(p) > 0 /\ ~p.nack
    /\ out' = out \o NewChars(p)
    /\ SendSol(snd, snd.pkt.data, Acked(toBmc, p), Answered)
    /\ UNCHANGED <<failures, dropped, presumed>>

PartialAckForgotten(p) ==
    /\ Resend(p) > 0 /\ ~p.nack
    /\ out' = out \o NewChars(p)
    /\ Sent(Acked(toBmc, p))
    /\ UNCHANGED <<dropped, presumed>>

(* is_sol_partial_ack(): only the rest is sent again, under a new number.  *)
(* It is moved to the front of the caller's buffer.                        *)
PartialAck(p) ==
    LET rest == SubSeq(snd.pkt.data, p.accepted + 1, Length(snd.pkt))
        buf  == rest \o SubSeq(snd.buf, Len(rest) + 1, Len(snd.buf)) IN
    /\ Resend(p) > 0 /\ ~p.nack
    /\ out' = out \o NewChars(p)
    /\ SendSol([snd EXCEPT !.buf = buf], rest, Acked(toBmc, p), Answered)
    /\ UNCHANGED <<failures, dropped, presumed>>

(* The response is the caller's. processSolUserInput() prints what came    *)
(* with it unless it terminates; a break and a keepalive do not look at    *)
(* it.                                                                     *)
FullAck(p) ==
    LET prints == snd.kind = "input" /\ ~snd.quit /\ p.seq # 0 IN
    /\ Acks(p) /\ (Resend(p) = 0 \/ p.nack)
    /\ out' = IF prints THEN out \o NewChars(p) ELSE out
    /\ dropped' = IF prints THEN dropped ELSE dropped \cup Elements(NewChars(p))
    /\ presumed' = (presumed \/ Resend(p) > 0)
    /\ Sent(Acked(toBmc, p))

(* "Still waiting for our ACK, but we have more data from the BMC": the    *)
(* data are printed and the wait is over.                                  *)
DataBeforeAck(p) ==
    /\ ~Acks(p) /\ NewLength(p) # 0
    /\ out' = out \o NewChars(p)
    /\ presumed' = TRUE
    /\ Sent(Acked(toBmc, p))
    /\ UNCHANGED dropped

(* Neither: a try is used up, and the packet sent again if it is time. *)
NeitherAckNorData(p) ==
    /\ ~Acks(p) /\ NewLength(p) = 0
    /\ IF snd.tries + 1 < Retry
       THEN /\ snd' = [snd EXCEPT !.tries = @ + 1]
            /\ \/ toBmc' = Acked(toBmc, p)
               \/ toBmc' = Put(Acked(toBmc, p), snd.pkt)
            /\ UNCHANGED <<pc, solSeq, reused, unanswered, failures, presumed>>
       ELSE /\ presumed' = TRUE
            /\ Sent(Acked(toBmc, p))
    /\ UNCHANGED <<out, dropped>>

SendReceives ==
    LET p == Head(toCon) IN
    /\ pc = "send" /\ toCon # <<>>
    /\ toCon' = Tail(toCon)
    /\ last' = Remembered(p)
    /\ PartialAck(p) \/ FullAck(p) \/ DataBeforeAck(p) \/ NeitherAckNorData(p)
    /\ UNCHANGED <<owed, typed, bmc, used, resent, clash>>

(* A slip: the attempts are not counted. *)
SendTimeoutUncounted ==
    /\ pc = "send"
    /\ IF snd.kind = "input"
       THEN SendSol(snd, snd.buf, toBmc, unanswered) /\ resent' = TRUE /\ UNCHANGED failures
       ELSE KeepaliveFailed /\ UNCHANGED <<solSeq, reused, unanswered, toBmc, resent>>
    /\ UNCHANGED <<last, owed, typed, out, bmc, toCon, used, dropped, presumed, clash>>

(* ipmi_lanplus_send_sol() returned null: nothing came, or send(2) failed. *)
(* processSolUserInput() calls ipmi_lanplus_send_sol() again, which takes  *)
(* a new number, with as many characters as the first time.                *)
SendTimeout ==
    /\ pc = "send"
    /\ \/ /\ snd.kind = "input"
          /\ IF snd.attempt + 1 < Retry
             THEN /\ SendSol([snd EXCEPT !.attempt = @ + 1], snd.buf, toBmc, unanswered)
                  /\ resent' = TRUE
             ELSE /\ pc' = "exit"
                  /\ snd' = NotSending
                  /\ UNCHANGED <<solSeq, reused, unanswered, toBmc, resent>>
          /\ UNCHANGED failures
       \/ /\ snd.kind = "break"
          /\ pc' = "loop"
          /\ snd' = NotSending
          /\ UNCHANGED <<solSeq, reused, unanswered, toBmc, failures, resent>>
       \/ /\ snd.kind = "keepalive"
          /\ KeepaliveFailed
          /\ UNCHANGED <<solSeq, reused, unanswered, toBmc, resent>>
    /\ UNCHANGED <<last, owed, typed, out, bmc, toCon, used, dropped, presumed, clash>>

-----------------------------------------------------------------------------
(* ipmi_lanplus_keepalive(): Get Device ID, with SOL packets received in   *)
(* its place. snd.more: one was, and ipmi_lan_poll_recv() is called        *)
(* directly.                                                               *)

ipmi_lanplus_keepalive ==
    /\ pc = "loop" /\ used.extras < MaxExtras
    /\ used' = [used EXCEPT !.extras = @ + 1]
    /\ pc' = "keepalive"
    /\ UNCHANGED <<snd, solSeq, reused, unanswered, last, failures, owed, typed, out, bmc, netVars,
                   dropped, presumed, resent, clash>>

KeepaliveReceives ==
    /\ pc = "keepalive" /\ toCon # <<>>
    /\ toCon' = Tail(toCon)
    /\ toBmc' = Acked(toBmc, Head(toCon))
    /\ last' = Remembered(Head(toCon))
    /\ out' = out \o NewChars(Head(toCon))
    /\ snd' = [snd EXCEPT !.more = TRUE]
    /\ UNCHANGED <<pc, solSeq, reused, unanswered, failures, owed, typed, bmc, histVars>>

(* The answer comes, with a good or a bad completion code, or nothing      *)
(* does.                                                                   *)
KeepaliveEnds ==
    /\ pc = "keepalive"
    /\ \/ /\ pc' = "loop" /\ snd' = NotSending /\ failures' = 0
          /\ UNCHANGED owed
       \/ /\ KeepaliveFailed
          /\ UNCHANGED owed
       \/ /\ snd.more
          /\ pc' = "loop" /\ snd' = NotSending /\ failures' = 0
          /\ owed' = owed + 1
    /\ UNCHANGED <<solSeq, reused, unanswered, last, typed, out, bmc, netVars, histVars>>

-----------------------------------------------------------------------------
(* External: the BMC and the network. *)

Active == pc \in {"loop", "send", "keepalive"}

(* The BMC sends a packet with the acknowledgement a (NoPacket: none). It  *)
(* only acknowledges, or prints: what is outstanding again, perhaps with   *)
(* characters added, or new characters.                                    *)
BmcSends(b, a) ==
    \/ /\ a # NoPacket
       /\ bmc' = b
       /\ toCon' = PutToCon(toCon, a)
    \/ \E to \in b.acked + 1 .. Min({b.acked + Limit, MaxPrinted}) :
       LET new == b.to = b.acked
           seq == IF new THEN (b.seq % MaxSeq) + 1 ELSE b.seq IN
       /\ to >= b.to
       /\ bmc' = [b EXCEPT !.to = to, !.seq = seq]
       /\ toCon' = PutToCon(toCon, [a EXCEPT !.seq = seq, !.data = Chars(b.acked, to)])

BmcPrints ==
    /\ Active
    /\ BmcSends(bmc, NoPacket)
    /\ UNCHANGED <<conVars, toBmc, histVars>>

(* A new packet is accepted in whole or in part, perhaps none of it, with  *)
(* or without a NACK; a repeated one is answered as before.                *)
BmcAccepts(p, k, nack) ==
    LET b == IF p.seq = bmc.inSeq
             THEN bmc
             ELSE [bmc EXCEPT !.inSeq = p.seq, !.inAccepted = k,
                              !.inNack = nack,
                              !.got = @ \o SubSeq(p.data, 1, k)] IN
    BmcSends(b, [NoPacket EXCEPT !.ack = p.seq, !.accepted = b.inAccepted, !.nack = b.inNack])

BmcReceives ==
    LET p == Head(toBmc) IN
    /\ Active /\ toBmc # <<>>
    /\ toBmc' = Tail(toBmc)
    /\ \/ /\ p.seq # 0
          /\ \E k \in 0 .. Length(p), nack \in BOOLEAN :
                (nack => k < Length(p)) /\ BmcAccepts(p, k, nack)
       \/ /\ p.seq = 0
          /\ bmc' = IF p.ack = bmc.seq /\ p.accepted = bmc.to - bmc.acked
                    THEN [bmc EXCEPT !.acked = bmc.to]
                    ELSE bmc
          /\ UNCHANGED toCon
    /\ UNCHANGED <<conVars, histVars>>

Lose ==
    /\ Active
    /\ \/ toBmc # <<>> /\ toBmc' = Tail(toBmc) /\ UNCHANGED toCon
       \/ toCon # <<>> /\ toCon' = Tail(toCon) /\ UNCHANGED toBmc
    /\ UNCHANGED <<conVars, bmc, histVars>>

-----------------------------------------------------------------------------
Next ==
    \/ ipmi_sol_activate \/ ipmi_sol_deactivate
    \/ \E n \in 1 .. Limit + 1, quit \in BOOLEAN : processSolUserInput(n, quit)
    \/ \E kind \in {"break", "keepalive"} : SendEmpty(kind)
    \/ LoopReceives \/ LoopReceivesNull \/ SelectFails
    \/ SendReceives \/ SendTimeout
    \/ LateAnswer
    \/ ipmi_lanplus_keepalive \/ KeepaliveReceives \/ KeepaliveEnds
    \/ BmcPrints \/ BmcReceives \/ Lose

Spec == Init /\ [][Next]_vars

(* A wait of ipmi_lanplus_send_payload() ends, by a packet or by the       *)
(* timeout of select(2).                                                   *)
FairSpec == Spec /\ WF_vars(SendReceives \/ SendTimeout)

-----------------------------------------------------------------------------
(* The properties. *)

Increasing(s) == \A i, j \in 1 .. Len(s) : i < j => s[i] < s[j]

(* However often the BMC repeats a packet, with or without characters      *)
(* added, no character is printed twice or out of order, unless the        *)
(* payload was activated with an old packet's number still remembered.     *)
OutputOnce == ~clash => Increasing(out)

(* What ipmi_lanplus_recv_sol() has acknowledged has been printed. A       *)
(* character can only be lost where its packet acknowledges a break, a     *)
(* keepalive or the last input of a session.                               *)
OutputComplete == ~clash => 1 .. bmc.acked \subseteq Elements(out) \cup dropped

(* Where every send ended with the acknowledgement of all its characters,  *)
(* or was tried again, the BMC has all the input processSolUserInput() has *)
(* gone past, unless as many sends in a row as there are numbers went      *)
(* unanswered: the BMC then takes a new packet for the repetition of an    *)
(* old one.                                                                *)
InputComplete ==
    (~presumed /\ unanswered < MaxSeq /\ pc \in {"loop", "keepalive"}) =>
       Elements(bmc.got) = 1 .. typed

(* Input reaches the BMC twice only where processSolUserInput() sent it    *)
(* again for want of an answer: not through the retries of                 *)
(* ipmi_lanplus_send_payload(), nor through partial acknowledgements. The  *)
(* exception is a number that comes round while a packet or an             *)
(* acknowledgement from its last use is still under way: it cannot be told *)
(* from a new one.                                                         *)
InputOnce == (~resent /\ ~reused) => Increasing(bmc.got)

(* An acknowledgement without a NACK that accepts nothing. *)
NothingAccepted ==
    /\ SendReceives
    /\ PartialAck(Head(toCon)) /\ Head(toCon).accepted = 0

(* processSolUserInput(), sendBreak() and the keepalives return, however   *)
(* long the BMC goes on sending and accepting in part, unless it for ever  *)
(* acknowledges without accepting a character: the loop of                 *)
(* ipmi_lanplus_send_sol() counts nothing.                                 *)
SendReturns ==
    \/ []<><<NothingAccepted>>_vars
    \/ (pc = "send") ~> (pc # "send")

=============================================================================
