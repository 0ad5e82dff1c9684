--------------------------- MODULE LanplusSession ---------------------------
(***************************************************************************)
(* Opening and closing an RMCP+ session: ipmi_lanplus_open() with its      *)
(* retry loop around ipmi_lanplus_open_session(), ipmi_lanplus_rakp1() and *)
(* ipmi_lanplus_rakp3(), and ipmi_lanplus_close()                          *)
(* (src/src/plugins/lanplus/lanplus.c), with the key exchange of           *)
(* src/src/plugins/lanplus/lanplus_crypt.c.                                *)
(*                                                                         *)
(* msgs holds every datagram ever sent. A datagram may be received any     *)
(* number of times, in any order, at any later time, or never: all message *)
(* tags are 0, so an answer to an earlier attempt looks like an answer to  *)
(* the current one. What ipmi_lan_poll_single() discards (a handshake      *)
(* message the session state does not call for) is no step here.           *)
(*                                                                         *)
(* A keyed hash is the tuple of its key and its inputs. The session id of  *)
(* the console, the GUID, the role and the user name are the same in every *)
(* hash of a run and are left out. The BMC is external.                    *)
(***************************************************************************)
EXTENDS Integers

CONSTANTS
    Keys,       \* user passwords (authcode_set) and BMC keys (kg)
    NoKey,      \* kg[0] = 0: no BMC key is configured
    LanRetry,   \* lan_retry, 4 in the code
    MaxOpens,   \* bound on calls of ipmi_lanplus_open()
    MaxIds,     \* bound on the sessions the BMC allocates
    MaxRands    \* bound on the random numbers the BMC draws

ASSUME KeysAssumption   == NoKey \notin Keys
ASSUME BoundsAssumption ==
    LanRetry \in Nat /\ MaxOpens \in Nat /\ MaxIds \in Nat /\ MaxRands \in Nat

VARIABLES
    pc,        \* where ipmi_lanplus_open() is, see PCs
    retry,     \* the loop variable of ipmi_lanplus_open()
    state,     \* session.v2_data.session_state; "none": intf->session is null
    abort,     \* intf->abort
    v2,        \* the rest of session.v2_data
    suite,     \* ssn_params.cipher_suite_id, as its authentication algorithm
    stale,     \* rsp->ccode is 0xcf, left there by a pre-session command
    opens,     \* calls of ipmi_lanplus_open() so far
    reopen,    \* HpmfwupgSendCmd() closed the interface: "due": it has yet
               \* to reopen it, "tried": it has tried; "send": a later
               \* command opens it; "no": it did not
    drawn,     \* random numbers the console has drawn
    console,   \* the password and the BMC key given to the console
    bmc,       \* the ones the BMC has
    sessions,  \* the BMC's sessions by id
    bdrawn,    \* random numbers the BMC has drawn
    msgs       \* the datagrams sent so far

consoleVars == <<pc, retry, state, abort, v2, suite, stale, opens, reopen, drawn>>
bmcVars     == <<sessions, bdrawn>>
vars        == <<consoleVars, console, bmc, bmcVars, msgs>>

-----------------------------------------------------------------------------
PCs == {"closed",      \* intf->opened = 0
        "suite",       \* the BMC supports RMCP+; a cipher suite is settled
        "try",         \* at the head of the retry loop
        "wait_open",   \* ipmi_lanplus_open_session() waits for its response
        "wait_rakp2",  \* ipmi_lanplus_rakp1() waits
        "wait_rakp4",  \* ipmi_lanplus_rakp3() waits
        "loop_done",   \* behind the loop: "SESSION OPENED SUCCESSFULLY"
        "ready",       \* ipmi_lanplus_open() has returned the descriptor
        "crashed"}     \* session->timeout through a null session

States == {"none", "presession", "open_session_sent", "open_session_received",
           "rakp_1_sent", "rakp_2_received", "rakp_3_sent", "active"}

Algs   == {"none", "hmac"}     \* IPMI_AUTH_RAKP_NONE and the HMACs
Suites == Algs \cup {"reserved"}  \* reserved: no suite given, look it up
Config == [key : Keys, kg : Keys \cup {NoKey}]

(* IPMI_RAKP_STATUS values: success, and any error *)
NoErrors == 0
Error    == 1

(* The hashes. Without an authentication algorithm there is none. *)
NoMac == <<>>
HMac(alg, mac) == IF alg = "none" THEN NoMac ELSE mac

SikKey(conf) == IF conf.kg # NoKey THEN conf.kg ELSE conf.key

Rakp2Mac(alg, conf, id, rm, rc) == HMac(alg, <<"rakp2", conf.key, id, rm, rc>>)
Rakp3Mac(alg, conf, rc)         == HMac(alg, <<"rakp3", conf.key, rc>>)
Sik(alg, conf, rm, rc)          == HMac(alg, <<"sik", SikKey(conf), rm, rc>>)
Rakp4Mac(alg, sik, rm, id)      == HMac(alg, <<"rakp4", sik, rm, id>>)

(* A slip: any RAKP 4 hash will do. *)
rakp4AnyHmac(v, mac) == v.auth = "none" \/ mac # NoMac

(* lanplus_rakp2_hmac_matches() and lanplus_rakp4_hmac_matches(): with     *)
(* RAKP-none everything matches.                                           *)
lanplus_rakp2_hmac_matches(v, mac) ==
    v.auth = "none" \/ mac = Rakp2Mac(v.auth, console, v.bmc_id, v.console_rand, v.bmc_rand)

lanplus_rakp4_hmac_matches(v, mac) ==
    v.auth = "none" \/ mac = Rakp4Mac(v.auth, v.sik, v.console_rand, v.bmc_id)

Ids         == 1 .. MaxIds
FreeSession == [st |-> "free", auth |-> "none", console_rand |-> 0, bmc_rand |-> 0]

NewV2 == [bmc_id |-> 0, auth |-> "none", console_rand |-> 0, bmc_rand |-> 0,
          rakp2_return_code |-> NoErrors, sik |-> NoMac]

Init ==
    /\ pc = "closed" /\ retry = 0 /\ state = "none" /\ abort = FALSE
    /\ v2 = NewV2
    /\ suite \in Suites
    /\ stale = FALSE
    /\ opens = 0 /\ reopen = "no" /\ drawn = 0
    /\ console \in Config /\ bmc \in Config
    /\ sessions = [i \in Ids |-> FreeSession] /\ bdrawn = 0
    /\ msgs = {}

-----------------------------------------------------------------------------
(* A slip: the session is freed before Close Session is thought of. *)
CloseSessionForgotten(st, ab, id) == {}

(* ipmi_lanplus_close(): Close Session goes out only for an active session *)
(* that nobody has given up on; the session is freed in any case.          *)
ipmi_close_session_cmd(st, ab, id) ==
    IF ~ab /\ st = "active" THEN {[t |-> "close", id |-> id]} ELSE {}

Close(st, ab) ==
    /\ pc' = "closed"
    /\ state' = "none"
    /\ abort' = ab
    /\ msgs' = msgs \cup ipmi_close_session_cmd(st, ab, v2.bmc_id)

(* ipmi_lanplus_open() up to the answered Get Channel Authentication       *)
(* Capabilities, for the caller `by`. Where that fails, the interface is   *)
(* closed again and nothing has changed.                                   *)
StartOpen(by) ==
    /\ pc = "closed" /\ opens < MaxOpens
    /\ opens' = opens + 1
    /\ reopen' = by
    /\ pc' = "suite" /\ retry' = 0
    /\ state' = "presession"
    /\ abort' = TRUE
    /\ v2' = NewV2
    /\ stale' = FALSE
    /\ UNCHANGED <<suite, drawn, console, bmc, bmcVars, msgs>>

(* Called by ipmi_main(), and by HpmfwupgSendCmd() until it succeeds. *)
ipmi_lanplus_open ==
    \/ opens = 0 /\ StartOpen("no")
    \/ reopen \in {"due", "tried"} /\ StartOpen("tried")

(* ipmi_lanplus_send_payload() on a closed interface, for a command after  *)
(* HpmfwupgSendCmd() could not reopen it: it opens the interface, having   *)
(* read intf->session before. "due": the reopening failed at its start.    *)
SendOnClosed == reopen \in {"due", "tried", "send"} /\ StartOpen("send")

(* ipmi_find_best_cipher_suite() settles on suite 17 or 3, both with an    *)
(* HMAC, also if Get Channel Cipher Suites fails. It fails as well when    *)
(* the BMC's only answer is Duplicate Request; that code then stays in     *)
(* recv_rsp.                                                               *)
ipmi_find_best_cipher_suite ==
    /\ pc = "suite"
    /\ pc' = "try"
    /\ suite' = IF suite = "reserved" THEN "hmac" ELSE suite
    /\ stale' \in IF suite = "reserved" THEN BOOLEAN ELSE {FALSE}
    /\ UNCHANGED <<retry, state, abort, v2, opens, reopen, drawn, console,
                   bmc, bmcVars, msgs>>

(* ipmi_lanplus_open_session() up to the reception. *)
ipmi_lanplus_open_session ==
    /\ pc = "try" /\ retry < LanRetry
    /\ state' = "open_session_sent"
    /\ msgs' = msgs \cup {[t |-> "open_request", auth |-> suite]}
    /\ pc' = "wait_open"
    /\ UNCHANGED <<retry, abort, v2, suite, stale, opens, reopen, drawn, console, bmc, bmcVars>>

(* The loop gives up: four attempts have timed out. *)
TriesExhausted ==
    /\ pc = "try" /\ retry >= LanRetry
    /\ pc' = "loop_done"
    /\ UNCHANGED <<retry, state, abort, v2, suite, stale, opens, reopen, drawn, console,
                   bmc, bmcVars, msgs>>

(* A late answer to one of the commands before the handshake. No entry     *)
(* matches it, but read_ipmi_response() has stored its completion code.    *)
LateIpmiResponse(duplicate) ==
    /\ pc \in {"wait_open", "wait_rakp2", "wait_rakp4"}
    /\ stale' = duplicate
    /\ UNCHANGED <<pc, retry, state, abort, v2, suite, opens, reopen, drawn, console,
                   bmc, bmcVars, msgs>>

(* A response counts unless ipmi_lanplus_send_payload() takes it for a     *)
(* duplicate.                                                              *)
Receives(at) == pc = at /\ ~stale

(* External: the BMC may refuse any request with a status of its own. *)
Refusals ==
    {[t |-> "open_response", status |-> Error, id |-> 0, auth |-> "none"],
     [t |-> "rakp_2", status |-> Error, bmc_rand |-> 0, mac |-> NoMac],
     [t |-> "rakp_4", status |-> Error, mac |-> NoMac]}

(* ipmi_lanplus_open_session() from the reception, and                     *)
(* ipmi_lanplus_rakp1() up to its own.                                     *)
RecvOpenResponse(m) ==
    /\ Receives("wait_open") /\ m.t = "open_response"
    /\ IF m.status # NoErrors
       THEN /\ Close(state, abort)
            /\ UNCHANGED <<v2, drawn>>
       ELSE IF m.auth # suite
       THEN /\ v2' = [v2 EXCEPT !.bmc_id = m.id, !.auth = m.auth]
            /\ Close("open_session_received", abort)
            /\ UNCHANGED drawn
       ELSE /\ v2' = [v2 EXCEPT !.bmc_id = m.id, !.auth = m.auth, !.console_rand = drawn + 1]
            /\ drawn' = drawn + 1
            /\ msgs' = msgs \cup {[t |-> "rakp_1", id |-> m.id, console_rand |-> drawn + 1]}
            /\ state' = "rakp_1_sent"
            /\ pc' = "wait_rakp2"
            /\ UNCHANGED abort
    /\ UNCHANGED <<retry, suite, stale, opens, reopen, console, bmc, bmcVars>>

(* ipmi_lanplus_rakp1() from the reception, and ipmi_lanplus_rakp3() up to *)
(* its own.                                                                *)
RecvRakp2(m) ==
    LET v == [v2 EXCEPT !.bmc_rand = m.bmc_rand]
        w == [v EXCEPT !.rakp2_return_code = NoErrors,
                       !.sik = Sik(v.auth, console, v.console_rand, v.bmc_rand)]
    IN
    /\ Receives("wait_rakp2") /\ m.t = "rakp_2"
    /\ IF m.status # NoErrors
       THEN /\ Close("rakp_2_received", abort)
            /\ UNCHANGED v2
       ELSE IF ~lanplus_rakp2_hmac_matches(v, m.mac)
       THEN /\ v2' = [v EXCEPT !.rakp2_return_code = Error]
            /\ Close("rakp_2_received", abort)
       ELSE /\ v2' = w
            /\ msgs' = msgs \cup {[t |-> "rakp_3", id |-> w.bmc_id,
                                   status |-> w.rakp2_return_code,
                                   mac |-> Rakp3Mac(w.auth, console, w.bmc_rand)]}
            /\ state' = "rakp_3_sent"
            /\ pc' = "wait_rakp4"
            /\ UNCHANGED abort
    /\ UNCHANGED <<retry, suite, stale, opens, reopen, drawn, console, bmc, bmcVars>>

(* ipmi_lanplus_rakp3() from the reception. *)
RecvRakp4(m) ==
    /\ Receives("wait_rakp4") /\ m.t = "rakp_4"
    /\ IF m.status # NoErrors \/ ~lanplus_rakp4_hmac_matches(v2, m.mac)
       THEN Close(state, abort)
       ELSE /\ state' = "active"
            /\ abort' = FALSE
            /\ pc' = "loop_done"
            /\ UNCHANGED msgs
    /\ UNCHANGED <<retry, v2, suite, stale, opens, reopen, drawn, console, bmc, bmcVars>>

(* Two slips: the attempts are not counted, or counted down. *)
TimeoutUncounted ==
    /\ pc \in {"wait_open", "wait_rakp2", "wait_rakp4"}
    /\ pc' = "try"
    /\ state' = "presession"
    /\ UNCHANGED <<retry, abort, v2, suite, stale, opens, reopen, drawn, console,
                   bmc, bmcVars, msgs>>

TimeoutCountedDown ==
    /\ pc \in {"wait_open", "wait_rakp2", "wait_rakp4"}
    /\ pc' = "try"
    /\ retry' = retry - 1
    /\ state' = "presession"
    /\ UNCHANGED <<abort, v2, suite, stale, opens, reopen, drawn, console,
                   bmc, bmcVars, msgs>>

(* ipmi_lanplus_send_payload() returned null for a handshake message: the  *)
(* next attempt.                                                           *)
Timeout ==
    /\ pc \in {"wait_open", "wait_rakp2", "wait_rakp4"}
    /\ pc' = "try"
    /\ retry' = retry + 1
    /\ state' = IF retry + 1 < LanRetry THEN "presession" ELSE state
    /\ UNCHANGED <<abort, v2, suite, stale, opens, reopen, drawn, console,
                   bmc, bmcVars, msgs>>

(* ipmi_lanplus_open() behind the loop. ipmi_set_session_privlvl_cmd() is  *)
(* skipped at user level and below; above, the BMC may answer it on an     *)
(* active session, or the open fails.                                      *)
BmcHolds(id) == id \in Ids /\ sessions[id].st = "active"

ipmi_set_session_privlvl(needed) ==
    /\ pc = "loop_done"
    /\ \/ /\ needed => state = "active" /\ BmcHolds(v2.bmc_id)
          /\ pc' = IF reopen = "send" THEN "crashed" ELSE "ready"
          /\ abort' = FALSE
          /\ UNCHANGED <<state, msgs>>
       \/ /\ needed
          /\ Close(state, FALSE)
    /\ UNCHANGED <<retry, v2, suite, stale, opens, reopen, drawn, console, bmc, bmcVars>>

(* The interface is closed by its user: at exit, or by HpmfwupgSendCmd()   *)
(* which sets abort because the controller is expected to have gone.       *)
ipmi_lanplus_close(giveUp) ==
    /\ pc = "ready"
    /\ Close(state, giveUp)
    /\ reopen' = IF giveUp THEN "due" ELSE "no"
    /\ UNCHANGED <<retry, v2, suite, stale, opens, drawn, console, bmc, bmcVars>>

-----------------------------------------------------------------------------
(* External: the BMC. It answers any request it has received, once or more *)
(* often; it may end a session at any time.                                *)

(* A new session, with the algorithm asked for or one of the BMC's own. *)
BmcOpen(m, i, alg) ==
    /\ m.t = "open_request"
    /\ sessions[i].st = "free" /\ \A j \in Ids : j < i => sessions[j].st # "free"
    /\ sessions' = [sessions EXCEPT ![i] = [FreeSession EXCEPT !.st = "open", !.auth = alg]]
    /\ msgs' = msgs \cup {[t |-> "open_response", status |-> NoErrors, id |-> i, auth |-> alg]}
    /\ UNCHANGED <<consoleVars, console, bmc, bdrawn>>

BmcRakp1(m) ==
    LET s == sessions[m.id] IN
    /\ m.t = "rakp_1" /\ m.id \in Ids
    /\ s.st \in {"open", "rakp2"} /\ bdrawn < MaxRands
    /\ bdrawn' = bdrawn + 1
    /\ sessions' = [sessions EXCEPT ![m.id] =
          [s EXCEPT !.st = "rakp2", !.console_rand = m.console_rand, !.bmc_rand = bdrawn + 1]]
    /\ msgs' = msgs \cup {[t |-> "rakp_2", status |-> NoErrors, bmc_rand |-> bdrawn + 1,
                           mac |-> Rakp2Mac(s.auth, bmc, m.id, m.console_rand, bdrawn + 1)]}
    /\ UNCHANGED <<consoleVars, console, bmc>>

SessionSik(s) == Sik(s.auth, bmc, s.console_rand, s.bmc_rand)

BmcRakp3(m) ==
    LET s == sessions[m.id] IN
    /\ m.t = "rakp_3" /\ m.id \in Ids
    /\ s.st = "rakp2"
    /\ m.status = NoErrors /\ m.mac = Rakp3Mac(s.auth, bmc, s.bmc_rand)
    /\ sessions' = [sessions EXCEPT ![m.id].st = "active"]
    /\ msgs' = msgs \cup {[t |-> "rakp_4", status |-> NoErrors,
                           mac |-> Rakp4Mac(s.auth, SessionSik(s), s.console_rand, m.id)]}
    /\ UNCHANGED <<consoleVars, console, bmc, bdrawn>>

(* Close Session, or the BMC's own time limit. *)
BmcEnds(i) ==
    /\ sessions[i].st \in {"open", "rakp2", "active"}
    /\ sessions' = [sessions EXCEPT ![i].st = IF @ = "active" THEN "closed" ELSE "expired"]
    /\ UNCHANGED <<consoleVars, console, bmc, bdrawn, msgs>>

-----------------------------------------------------------------------------
ConsoleStep ==
    \/ ipmi_find_best_cipher_suite
    \/ ipmi_lanplus_open_session
    \/ TriesExhausted
    \/ \E m \in msgs \cup Refusals : RecvOpenResponse(m)
    \/ \E m \in msgs \cup Refusals : RecvRakp2(m)
    \/ \E m \in msgs \cup Refusals : RecvRakp4(m)
    \/ Timeout
    \/ \E needed \in BOOLEAN : ipmi_set_session_privlvl(needed)

UserStep ==
    \/ ipmi_lanplus_open
    \/ \E giveUp \in BOOLEAN : ipmi_lanplus_close(giveUp)
    \/ SendOnClosed

BmcStep ==
    \/ \E m \in msgs : \E i \in Ids : \E alg \in Algs : BmcOpen(m, i, alg)
    \/ \E m \in msgs : BmcRakp1(m)
    \/ \E m \in msgs : BmcRakp3(m)
    \/ \E i \in Ids : BmcEnds(i)
    \/ \E duplicate \in BOOLEAN : LateIpmiResponse(duplicate)

Next == ConsoleStep \/ UserStep \/ BmcStep

Spec == Init /\ [][Next]_vars

(* The console runs, and each of its waits is bounded by select(2). *)
FairSpec == Spec /\ WF_vars(ConsoleStep)

-----------------------------------------------------------------------------
(* The properties. *)

SessionStates == {"free", "open", "rakp2", "active", "closed", "expired"}

(* What the types of the variables are (the hashes apart). *)
TypeOK ==
    /\ pc \in PCs /\ retry \in Nat
    /\ state \in States /\ abort \in BOOLEAN /\ stale \in BOOLEAN
    /\ suite \in Suites
    /\ v2.bmc_id \in Nat /\ v2.auth \in Algs
    /\ v2.console_rand \in Nat /\ v2.bmc_rand \in Nat
    /\ opens \in Nat /\ reopen \in {"no", "due", "tried", "send"} /\ drawn \in Nat /\ bdrawn \in Nat
    /\ console \in Config /\ bmc \in Config
    /\ sessions \in [Ids -> [st : SessionStates, auth : Algs, console_rand : Nat, bmc_rand : Nat]]

Activated(i) == sessions[i].st \in {"active", "closed"}

(* Agreement. A session the console holds active under an HMAC suite is    *)
(* one the BMC has activated, under the id and the algorithm the console   *)
(* uses, and both derived the same session integrity key, whatever answers *)
(* of earlier attempts arrived in between.                                 *)
ActiveAgreement ==
    (state = "active" /\ suite = "hmac") =>
        /\ v2.bmc_id \in Ids /\ Activated(v2.bmc_id)
        /\ sessions[v2.bmc_id].auth = v2.auth
        /\ v2.sik = SessionSik(sessions[v2.bmc_id])

(* Mutual authentication. Under an HMAC suite a session becomes active     *)
(* only between a console and a BMC that share the password, and the BMC   *)
(* key where one of them has it.                                           *)
MutualAuthentication ==
    (state = "active" /\ suite = "hmac") =>
        console.key = bmc.key /\ SikKey(console) = SikKey(bmc)

(* A session the console held active is not dropped silently: Close        *)
(* Session goes out when the console lets go of it, unless it was told to  *)
(* give up.                                                                *)
ClosesWhatItOpened ==
    [][(state = "active" /\ state' # "active" /\ ~abort')
          => [t |-> "close", id |-> v2.bmc_id] \in msgs']_vars

(* ipmi_lanplus_open() comes back, whatever the BMC answers or does not    *)
(* answer.                                                                 *)
OpenReturns == (pc = "suite") ~> (pc \in {"ready", "closed", "crashed"})

(* "IPMIv2 / RMCP+ SESSION OPENED SUCCESSFULLY" (logged behind the loop):  *)
(* an interface that ipmi_lanplus_open() reports open has an active        *)
(* session.                                                                *)
OpenedMeansActive == pc = "ready" => state = "active"

=============================================================================
