--------------------------- MODULE LanplusRequest ---------------------------
(***************************************************************************)
(* One IPMI command over an RMCP+ session: ipmi_lanplus_send_payload() for *)
(* an IPMI payload, the list of outstanding requests it keeps, and         *)
(* ipmi_lan_poll_single(), which decides what a received datagram is worth *)
(* (src/src/plugins/lanplus/lanplus.c).                                    *)
(*                                                                         *)
(* The console is single threaded: between two receptions nothing else     *)
(* happens, so an action runs from one reception (or from the caller) to   *)
(* the next. The BMC and the network are external. They may deliver, at    *)
(* any reception, any answer to any request transmitted during the last    *)
(* SeqMod calls: late, repeated, out of order, or never.                   *)
(***************************************************************************)
EXTENDS Integers, Sequences

CONSTANTS
    Cmds,         \* commands the callers issue (msg.cmd of a request)
    SendMessage,  \* 0x34, the command that wraps a bridged request
    SeqMod,       \* rq_seq runs through 0 .. SeqMod-1; 64 in the code
    Retry,        \* ssn_params.retry; lan_retry = 4 in the code
    BaseTimeout,  \* ssn_params.timeout in seconds; lan_timeout = 1
    Faults,       \* what may happen besides loss and delay, see FaultKinds
    MaxCalls      \* bound on the number of calls

FaultKinds == {"send_fails",  \* send(2) reports an error
               "sol",         \* a SOL payload is active: its packets arrive
               "cold_reset",  \* the caller issues an MC cold reset
               "bad_auth"}    \* a packet with a wrong authcode arrives

ASSUME CmdsAssumption    == SendMessage \notin Cmds
ASSUME SeqModAssumption  == SeqMod \in Nat \ {0}
ASSUME RetryAssumption   == Retry \in Nat \ {0}
ASSUME TimeoutAssumption == BaseTimeout \in Nat \ {0}
ASSUME BoundAssumption   == MaxCalls \in Nat
ASSUME FaultsAssumption  == Faults \subseteq FaultKinds

VARIABLES
    pc,        \* "idle": no call; "xmit": at the top of the retry loop with
               \* xmit set; "poll": inside ipmi_lan_poll_recv()
    id,        \* number of the current (or last) call
    call,      \* its request: command and number of bridges to cross
    entries,   \* ipmi_req_entries; n is the position in the list
    tx,        \* requests built so far; the one with n = tx is `entry`
    currSeq,   \* curr_seq
    tries,     \* try
    timeout,   \* session->timeout
    saved,     \* saved_timeout
    ccode,     \* rsp->ccode, a static: it outlives the packet it came in
    noanswer,  \* intf->noanswer
    result,    \* what the last call returned
    reqs,      \* requests transmitted and still answerable
    left       \* history: some call returned and left an entry in the list

vars == <<pc, id, call, entries, tx, currSeq, tries, timeout, saved, ccode,
          noanswer, result, reqs, left>>

-----------------------------------------------------------------------------
DuplicateRequest == 207                    \* completion code 0xcf
CompletionCodes  == {0, DuplicateRequest, 195}
Bridges          == 0 .. 2

Entry   == [n : Nat, id : Nat, seq : 0 .. SeqMod - 1,
            cmd : Cmds \cup {SendMessage}, target : Cmds, level : Bridges]
Request == [id : Nat, seq : 0 .. SeqMod - 1, cmd : Cmds, bridge : Bridges]
Message == [cmd : Cmds \cup {SendMessage}, cc : CompletionCodes]
Result  == [kind : {"null", "ipmi", "sol"}, id : Nat,
            cmd : Cmds \cup {SendMessage}, cc : CompletionCodes]

(* What the types of the variables are. *)
TypeOK ==
    /\ pc \in {"idle", "xmit", "poll"}
    /\ id \in Nat /\ tx \in Nat
    /\ call \in [cmd : Cmds, bridge : Bridges]
    /\ entries \subseteq Entry
    /\ currSeq \in 0 .. SeqMod - 1
    /\ tries \in 0 .. Retry
    /\ timeout \in Nat /\ saved \in Nat
    /\ ccode \in CompletionCodes
    /\ noanswer \in BOOLEAN /\ left \in BOOLEAN
    /\ result \in Result
    /\ reqs \subseteq Request

Init ==
    /\ pc = "idle" /\ id = 0 /\ tx = 0 /\ tries = 0
    /\ call \in [cmd : Cmds, bridge : {0}]
    /\ entries = {} /\ reqs = {}
    /\ currSeq = 0
    /\ timeout = BaseTimeout /\ saved = BaseTimeout
    /\ ccode = 0
    /\ noanswer = FALSE /\ left = FALSE
    /\ result = [kind |-> "null", id |-> 0, cmd |-> SendMessage, cc |-> 0]

-----------------------------------------------------------------------------
(* The request list. *)

(* A slip: responses are matched by command alone. *)
MatchesByCommand(es, seq, cmd) == {e \in es : e.cmd = cmd}

Matches(es, seq, cmd) == {e \in es : e.seq = seq /\ e.cmd = cmd}

First(es) == CHOOSE e \in es : \A f \in es : e.n <= f.n

(* ipmi_req_lookup_entry() is First(Matches(...)) where there is a match. *)
ipmi_req_remove_entry(es, seq, cmd) ==
    IF Matches(es, seq, cmd) = {}
    THEN es
    ELSE es \ {First(Matches(es, seq, cmd))}

(* ipmi_req_add_entry(), with the bridging fields                          *)
(* ipmi_lanplus_build_v2x_ipmi_cmd() fills in.                             *)
NewEntry(n, i, seq, c) ==
    [n |-> n, id |-> i, seq |-> seq,
     cmd |-> IF c.bridge = 0 THEN c.cmd ELSE SendMessage,
     target |-> c.cmd, level |-> c.bridge]

(* Two slips: the sequence number sticks, or wraps one too late. *)
NextSeqStuck(seq) == seq

NextSeqLateWrap(seq) == IF seq + 1 > SeqMod THEN 0 ELSE seq + 1

NextSeq(seq) == IF seq + 1 >= SeqMod THEN 0 ELSE seq + 1

-----------------------------------------------------------------------------
(* What a datagram holding IPMI responses does to the list: one pass of    *)
(* ipmi_lan_poll_single()'s loop per message. `rest` is the number of      *)
(* messages behind it in the payload (payload_size > 8 if there is one):   *)
(* the answer of a bridged request may be embedded in the Send Message     *)
(* response.                                                               *)

(* A slip: the acknowledgement of a bridge is not told from an answer. *)
ReadMessageUnbridged(es, seq, m, rest) ==
    IF Matches(es, seq, m.cmd) = {}
    THEN [out |-> "again", es |-> es, m |-> m]
    ELSE [out |-> "got", es |-> ipmi_req_remove_entry(es, seq, m.cmd), m |-> m]

ReadMessage(es, seq, m, rest) ==
    IF Matches(es, seq, m.cmd) = {}
    THEN [out |-> "again", es |-> es, m |-> m]
    ELSE LET e == First(Matches(es, seq, m.cmd)) IN
         IF e.level = 0 \/ m.cc # 0
         THEN [out |-> "got", es |-> ipmi_req_remove_entry(es, seq, m.cmd), m |-> m]
         ELSE LET lower == [e EXCEPT !.level = e.level - 1,
                                     !.cmd = IF e.level = 1 THEN e.target ELSE e.cmd]
                  es1   == (es \ {e}) \cup {lower} IN
              IF rest > 0
              THEN [out |-> "next", es |-> ipmi_req_remove_entry(es1, seq, m.cmd), m |-> m]
              ELSE [out |-> "again", es |-> es1, m |-> m]

(* A datagram holds at most three messages: two bridges and the target. *)
ipmi_lan_poll_single(es, seq, ms) ==
    LET r1 == ReadMessage(es, seq, ms[1], Len(ms) - 1)
        r2 == ReadMessage(r1.es, seq, ms[2], Len(ms) - 2)
        r3 == ReadMessage(r2.es, seq, ms[3], Len(ms) - 3)
    IN  CASE r1.out # "next" -> r1
          [] r1.out = "next" /\ r2.out # "next" -> r2
          [] OTHER -> r3

(* External: the datagrams a BMC may send for request r. A bridged request *)
(* is acknowledged by one Send Message response per bridge; the target's   *)
(* answer follows in a datagram of its own or is embedded in the response. *)
Answers(r) ==
    LET Of(c)  == [cmd : {c}, cc : CompletionCodes]
        Wrap   == [cmd |-> SendMessage, cc |-> 0]
        Target == {<<m>> : m \in Of(r.cmd)}
        Ack    == {<<m>> : m \in Of(SendMessage)}
        One    == {<<Wrap, m>> : m \in Of(r.cmd)}
        Two    == {<<Wrap, m>> : m \in Of(SendMessage)}
                  \cup {<<Wrap, Wrap, m>> : m \in Of(r.cmd)}
    IN  Target \cup (IF r.bridge > 0 THEN Ack \cup One ELSE {})
               \cup (IF r.bridge > 1 THEN Two ELSE {})

-----------------------------------------------------------------------------
(* ipmi_lanplus_send_payload() returns to its caller. A failed send(2)     *)
(* returns from the middle of the loop, before session->timeout is         *)
(* restored.                                                               *)
Return(r) ==
    /\ pc' = "idle"
    /\ result' = r
    /\ left' = (left \/ entries' # {})

NullResult(i) == [kind |-> "null", id |-> i, cmd |-> SendMessage, cc |-> 0]

(* ipmi_lanplus_build_v2x_ipmi_cmd() and ipmi_lan_send_packet() for the    *)
(* i-th call with rq_seq seq.                                              *)
Transmit(i, c, seq) ==
    /\ tx' = tx + 1
    /\ currSeq' = seq
    /\ entries' = entries \cup {NewEntry(tx + 1, i, seq, c)}
    /\ UNCHANGED <<ccode>>
    /\ \/ /\ "send_fails" \in Faults
          /\ Return(NullResult(i))
          /\ UNCHANGED <<timeout, reqs>>
       \/ /\ noanswer'
          /\ Return(NullResult(i))
          /\ timeout' = saved'
          /\ UNCHANGED reqs
       \/ /\ ~noanswer'
          /\ pc' = "poll"
          /\ reqs' = {r \in reqs : i - r.id < SeqMod}
                     \cup {[id |-> i, seq |-> seq, cmd |-> c.cmd, bridge |-> c.bridge]}
          /\ UNCHANGED <<timeout, result, left>>

(* ipmi_lanplus_send_ipmi_cmd(): the call and its first transmission. *)
ipmi_lanplus_send_ipmi_cmd(c) ==
    /\ pc = "idle" /\ id < MaxCalls
    /\ id' = id + 1
    /\ call' = c
    /\ tries' = 0
    /\ saved' = timeout
    /\ UNCHANGED noanswer
    /\ Transmit(id + 1, c, NextSeq(currSeq))

(* ipmi_mc_reset(BMC_COLD_RESET): noanswer is set for this command, and    *)
(* stays.                                                                  *)
ipmi_mc_reset(c) ==
    /\ "cold_reset" \in Faults
    /\ pc = "idle" /\ id < MaxCalls
    /\ id' = id + 1
    /\ call' = c
    /\ tries' = 0
    /\ saved' = timeout
    /\ noanswer' = TRUE
    /\ Transmit(id + 1, c, NextSeq(currSeq))

(* The loop comes round with xmit set: the same rq_seq goes out again. *)
Retransmit ==
    /\ pc = "xmit"
    /\ UNCHANGED <<id, call, tries, saved, noanswer>>
    /\ Transmit(id, call, currSeq)

-----------------------------------------------------------------------------
(* ipmi_lan_poll_recv() returned null. `entry` is taken off the list by    *)
(* its rq_seq and cmd; once ipmi_lan_poll_single() has freed it these two  *)
(* are read from freed memory and may name any entry, or none.             *)
EntryTaken ==
    LET mine == {e \in entries : e.n = tx} IN
    IF mine # {}
    THEN {First(Matches(entries, e.seq, e.cmd)) : e \in mine}
    ELSE entries

(* Two slips: session->timeout is not restored, or the tries not counted. *)
AfterNullKeepsTimeout(elapsed) ==
    /\ entries' = {e \in entries : e.n # tx}
    /\ tries' = tries + 1
    /\ timeout' = timeout + 1
    /\ IF tries + 1 < Retry
       THEN pc' = "xmit" /\ UNCHANGED <<result, left>>
       ELSE Return(NullResult(id))
    /\ UNCHANGED <<id, call, tx, currSeq, saved, noanswer, reqs>>

AfterNullUncounted(elapsed) ==
    /\ entries' = {e \in entries : e.n # tx}
    /\ pc' = "poll"
    /\ UNCHANGED <<id, call, tx, currSeq, saved, noanswer, reqs, result, left, timeout, tries>>

AfterNull(elapsed) ==
    /\ \/ \E e \in EntryTaken : entries' = entries \ {e}
       \/ /\ \A e \in entries : e.n # tx
          /\ entries' = entries
    /\ tries' = tries + 1
    /\ IF tries + 1 < Retry
       THEN /\ pc' = IF elapsed THEN "xmit" ELSE "poll"
            /\ timeout' = IF elapsed THEN timeout + 1 ELSE timeout
            /\ UNCHANGED <<result, left>>
       ELSE /\ Return(NullResult(id))
            /\ timeout' = saved
    /\ UNCHANGED <<id, call, tx, currSeq, saved, noanswer, reqs>>

(* select(2) waited for the whole timeout and nothing came. *)
PollTimeout ==
    /\ pc = "poll"
    /\ AfterNull(TRUE)
    /\ UNCHANGED ccode

(* A packet that lanplus_has_valid_auth_code() rejects ends                *)
(* ipmi_lan_poll_recv() as a timeout would, whatever time has passed.      *)
InvalidAuthCode ==
    /\ "bad_auth" \in Faults
    /\ pc = "poll"
    /\ \E elapsed \in BOOLEAN : AfterNull(elapsed)
    /\ UNCHANGED ccode

(* A datagram with IPMI responses. read_ipmi_response() stores the         *)
(* completion code before the list is searched. Duplicate Request makes    *)
(* ipmi_lanplus_send_payload() poll again.                                 *)
ReceiveIpmi(r, ms) ==
    LET p == ipmi_lan_poll_single(entries, r.seq, ms) IN
    /\ pc = "poll"
    /\ entries' = p.es
    /\ ccode' = p.m.cc
    /\ IF p.out = "got" /\ p.m.cc # DuplicateRequest
       THEN /\ Return([kind |-> "ipmi", id |-> r.id, cmd |-> p.m.cmd, cc |-> p.m.cc])
            /\ timeout' = saved
       ELSE UNCHANGED <<pc, result, left, timeout>>
    /\ UNCHANGED <<id, call, tx, currSeq, tries, saved, noanswer, reqs>>

(* A SOL packet: ipmi_lan_poll_single() hands it up as the response        *)
(* whatever is being waited for; the Duplicate Request test reads the      *)
(* ccode of an older one.                                                  *)
ReceiveSol ==
    /\ "sol" \in Faults
    /\ pc = "poll"
    /\ ccode # DuplicateRequest
    /\ UNCHANGED entries
    /\ Return([kind |-> "sol", id |-> id, cmd |-> SendMessage, cc |-> ccode])
    /\ timeout' = saved
    /\ UNCHANGED <<id, call, tx, currSeq, tries, saved, ccode, noanswer, reqs>>

Next ==
    \/ \E c \in [cmd : Cmds, bridge : Bridges] : ipmi_lanplus_send_ipmi_cmd(c)
    \/ \E c \in [cmd : Cmds, bridge : {0}] : ipmi_mc_reset(c)
    \/ Retransmit
    \/ PollTimeout
    \/ InvalidAuthCode
    \/ \E r \in reqs : \E ms \in Answers(r) : ReceiveIpmi(r, ms)
    \/ ReceiveSol

Spec == Init /\ [][Next]_vars

(* select(2) always comes back, and the console always takes its next      *)
(* step.                                                                   *)
Fairness == WF_vars(Retransmit) /\ WF_vars(PollTimeout)

FairSpec == Spec /\ Fairness

-----------------------------------------------------------------------------
(* The properties. *)

(* rq_seq and cmd are all that ipmi_lan_poll_single() compares. As long as *)
(* no earlier call left its entry behind, and no datagram outlives SeqMod  *)
(* calls, the IPMI response a call returns answers that very call: late    *)
(* and repeated answers to earlier calls are not taken for it.             *)
ResponseMatches ==
    (pc = "idle" /\ result.kind = "ipmi" /\ ~left) => result.id = id

(* A bridged call never presents the Send Message acknowledgement of a     *)
(* bridge as the target's answer: what it returns with completion code 0   *)
(* is the target's response (bridging_level and target_cmd of the entry).  *)
BridgedAnswerIsTargets ==
    (pc = "idle" /\ result.kind = "ipmi" /\ result.cc = 0 /\ ~left)
        => result.cmd = call.cmd

(* session->timeout grows by at most a second per try within a call and is *)
(* back at its configured value between calls, until a call has left its   *)
(* entry behind: where a failed send does, the seconds stay too.           *)
TimeoutRestored ==
    ~left => /\ pc = "idle" => timeout = BaseTimeout
             /\ timeout <= BaseTimeout + tries

(* Every call returns, however many answers are lost, late or repeated. *)
CallReturns == (pc # "idle") ~> (pc = "idle")

(* Where nothing can leave an entry behind, ipmi_lanplus_send_payload()    *)
(* implements the one-call-one-answer service its callers assume.          *)
Rpc == INSTANCE IpmiRpc WITH
    NoAnswer <- 0,
    busy     <- pc # "idle",
    id       <- id,
    answer   <- IF result.kind = "ipmi" THEN result.id ELSE 0

RpcSpec == Rpc!Spec

-----------------------------------------------------------------------------
(* The inductive invariant behind these properties. *)

(* The list while call i with rq_seq q and request c is under way and no   *)
(* earlier call has left anything: at most one entry, for that request.    *)
Awaits(es, n, i, q, c) ==
    /\ \A e \in es : /\ e.n = n /\ e.id = i /\ e.seq = q /\ e.target = c.cmd
                     /\ e.level = 0 => e.cmd = c.cmd
                     /\ e.level # 0 => e.cmd = SendMessage
    /\ \A e, f \in es : e = f

ListClean ==
    /\ pc # "poll" => entries = {}
    /\ Awaits(entries, tx, id, currSeq, call)

(* The rq_seq used d calls before q. *)
SeqBack(q, d) == IF d <= q THEN q - d ELSE q - d + SeqMod

(* The answerable requests are those of the last SeqMod calls. *)
Window ==
    \A r \in reqs : r.id <= id /\ id - r.id < SeqMod /\ r.seq = SeqBack(currSeq, id - r.id)

ResultOK ==
    (pc = "idle" /\ result.kind = "ipmi") =>
        result.id = id /\ (result.cc = 0 => result.cmd = call.cmd)

TimeOK ==
    /\ pc = "idle" => timeout = BaseTimeout
    /\ pc # "idle" => saved = BaseTimeout
    /\ timeout <= BaseTimeout + tries

(* Until a call leaves an entry behind, the list holds the current request *)
(* only, and no request that can still be answered shares its rq_seq.      *)
RequestInvariant ==
    /\ TypeOK
    /\ pc # "idle" => tries < Retry
    /\ ~left => ListClean /\ Window /\ ResultOK /\ TimeOK

-----------------------------------------------------------------------------
(* What a comment of the code says and the code does not do. *)

(* "Ignore and keep polling." (the comment on Duplicate Request): while    *)
(* ipmi_lanplus_send_payload() polls, the request it polls for can still   *)
(* be matched.                                                             *)
AwaitedRequestListed == pc = "poll" => \E e \in entries : e.n = tx

=============================================================================
