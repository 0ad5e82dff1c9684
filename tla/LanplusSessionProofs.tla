------------------------ MODULE LanplusSessionProofs ------------------------
(***************************************************************************)
(* Proofs about LanplusSession, for every value of its constants: any      *)
(* number of attempts, openings, sessions of the BMC and random numbers,   *)
(* any passwords and BMC keys.                                             *)
(***************************************************************************)
EXTENDS LanplusSession, TLAPS

USE DEF NoErrors, Error

-----------------------------------------------------------------------------
(* The inductive invariant. *)

Siks == {NoMac} \cup ({"sik"} \X (Keys \cup {NoKey}) \X Nat \X Nat)

(* The types, with the whole of v2 as a record. *)
V2Data == [bmc_id : Nat, auth : Algs, console_rand : Nat, bmc_rand : Nat,
           rakp2_return_code : {NoErrors, Error}, sik : Siks]

V2OK == v2 \in V2Data

(* A session can be active only behind the retry loop: not while an        *)
(* attempt is under way, nor after the interface was closed.               *)
ActiveBehindLoop == state = "active" => pc \in {"loop_done", "ready", "crashed"}

(* From RAKP 1 on, the algorithm is the one that was asked for.            *)
SuiteAgreed == (pc \in {"wait_rakp2", "wait_rakp4"} \/ state = "active") => v2.auth = suite

(* From RAKP 3 on, the BMC has proved that it knows the password, and the  *)
(* session integrity key is the one derived from the two random numbers.   *)
Rakp2Checked ==
    (pc = "wait_rakp4" \/ state = "active") =>
        /\ v2.sik = Sik(v2.auth, console, v2.console_rand, v2.bmc_rand)
        /\ v2.auth = "hmac" => console.key = bmc.key

(* The hashes of the datagrams ever sent are hashes of the BMC's own keys; *)
(* that of a RAKP 4 speaks of a session the BMC has activated.             *)
Rakp2Sound(m) == m.mac = NoMac \/ m.mac[2] = bmc.key

Rakp4Sound(m) ==
    m.mac = NoMac \/
    \E i \in Ids : /\ Activated(i) /\ sessions[i].auth = "hmac"
                   /\ m.mac = <<"rakp4", SessionSik(sessions[i]), sessions[i].console_rand, i>>

MessageSound(m) ==
    /\ m.t = "open_response" => m.id \in Nat /\ m.auth \in Algs
    /\ m.t = "rakp_1" => m.console_rand \in Nat
    /\ m.t = "rakp_2" => m.bmc_rand \in Nat /\ Rakp2Sound(m)
    /\ m.t = "rakp_4" => Rakp4Sound(m)

MessagesSound == \A m \in msgs : MessageSound(m)

(* The types alone, with what they rest on. *)
TypeInv == TypeOK /\ V2OK /\ MessagesSound

SessionInv ==
    /\ TypeInv
    /\ ActiveBehindLoop /\ SuiteAgreed /\ Rakp2Checked
    /\ ActiveAgreement

-----------------------------------------------------------------------------
(* Lemmas about the hashes. *)

(* Two hashes are the same only if their keys and inputs are.              *)
LEMMA HashesDiffer ==
    /\ \A a, b, c, d : NoMac # <<a, b, c, d>>
    /\ \A a, b, c, d, e : NoMac # <<a, b, c, d, e>>
BY DEF NoMac

LEMMA SikType ==
    ASSUME NEW conf \in Config, NEW alg \in Algs, NEW rm \in Nat, NEW rc \in Nat
    PROVE  Sik(alg, conf, rm, rc) \in Siks
<1>1. SikKey(conf) \in Keys \cup {NoKey}
  BY DEF SikKey, Config
<1> QED
  BY <1>1 DEF Sik, Siks, HMac

(* Refused requests are of no consequence to the hashes. *)
LEMMA RefusalsFail ==
    ASSUME NEW m \in Refusals
    PROVE  m.status # NoErrors
BY DEF Refusals

-----------------------------------------------------------------------------
(* Lemmas about steps. *)

(* What the BMC has activated stays as it is, also when it is closed.      *)
SessionsKept ==
    \A i \in Ids : Activated(i) => /\ Activated(i)'
                                   /\ sessions'[i].auth = sessions[i].auth
                                   /\ sessions'[i].console_rand = sessions[i].console_rand
                                   /\ sessions'[i].bmc_rand = sessions[i].bmc_rand

LEMMA SikKept ==
    ASSUME SessionsKept, bmc' = bmc, NEW i \in Ids, Activated(i)
    PROVE  SessionSik(sessions[i])' = SessionSik(sessions[i])
BY DEF SessionsKept, SessionSik, Sik, SikKey, HMac

LEMMA MessagesKept ==
    ASSUME MessagesSound, SessionsKept, bmc' = bmc, NEW m \in msgs
    PROVE  MessageSound(m)'
<1>1. MessageSound(m)
  BY DEF MessagesSound
<1>2. Rakp2Sound(m) => Rakp2Sound(m)'
  BY DEF Rakp2Sound, NoMac
<1>3. Rakp4Sound(m) => Rakp4Sound(m)'
  BY SikKept DEF SessionsKept, Rakp4Sound, NoMac
<1> QED
  BY <1>1, <1>2, <1>3 DEF MessageSound, Algs

LEMMA ConsoleStepKeepsSessions ==
    ASSUME UNCHANGED <<bmc, bmcVars>>
    PROVE  SessionsKept
BY DEF SessionsKept, Activated, bmcVars

LEMMA BmcStepKeepsSessions ==
    ASSUME TypeOK, BmcStep
    PROVE  SessionsKept
<1>1. ASSUME NEW m \in msgs, NEW i \in Ids, NEW alg \in Algs, BmcOpen(m, i, alg)
      PROVE  SessionsKept
  BY <1>1 DEF BmcOpen, SessionsKept, Activated, TypeOK
<1>2. ASSUME NEW m \in msgs, BmcRakp1(m) PROVE SessionsKept
  BY <1>2 DEF BmcRakp1, SessionsKept, Activated, TypeOK
<1>3. ASSUME NEW m \in msgs, BmcRakp3(m) PROVE SessionsKept
  BY <1>3 DEF BmcRakp3, SessionsKept, Activated, TypeOK
<1>4. ASSUME NEW i \in Ids, BmcEnds(i) PROVE SessionsKept
  BY <1>4 DEF BmcEnds, SessionsKept, Activated, TypeOK
<1>5. ASSUME NEW duplicate \in BOOLEAN, LateIpmiResponse(duplicate) PROVE SessionsKept
  BY <1>5, ConsoleStepKeepsSessions DEF LateIpmiResponse
<1> QED
  BY <1>1, <1>2, <1>3, <1>4, <1>5 DEF BmcStep

(* The console's messages carry no hash that is looked at. *)
LEMMA ConsoleMessagesSound ==
    ASSUME MessagesSound, UNCHANGED <<bmc, bmcVars>>,
           \A m \in msgs' \ msgs : \/ m.t \in {"open_request", "rakp_3", "close"}
                                   \/ m.t = "rakp_1" /\ m.console_rand \in Nat
    PROVE  MessagesSound'
<1>1. SessionsKept
  BY ConsoleStepKeepsSessions
<1>2. ASSUME NEW m \in msgs' \ msgs PROVE MessageSound(m)'
  BY <1>2 DEF MessageSound
<1> QED
  BY <1>1, <1>2, MessagesKept DEF MessagesSound

(* While the BMC acts, the agreement about an active session stands. *)
LEMMA AgreementKept ==
    ASSUME ActiveAgreement, SessionsKept, UNCHANGED <<state, suite, v2, bmc>>
    PROVE  ActiveAgreement'
<1> SUFFICES ASSUME (state = "active" /\ suite = "hmac")'
             PROVE  /\ (v2.bmc_id \in Ids)' /\ Activated(v2.bmc_id)'
                    /\ (sessions[v2.bmc_id].auth = v2.auth)'
                    /\ (v2.sik = SessionSik(sessions[v2.bmc_id]))'
  BY DEF ActiveAgreement
<1>1. /\ v2.bmc_id \in Ids /\ Activated(v2.bmc_id)
      /\ sessions[v2.bmc_id].auth = v2.auth
      /\ v2.sik = SessionSik(sessions[v2.bmc_id])
  BY DEF ActiveAgreement
<1>2. SessionSik(sessions[v2.bmc_id])' = SessionSik(sessions[v2.bmc_id])
  BY <1>1, SikKept
<1> QED
  BY <1>1, <1>2 DEF SessionsKept, Ids

(* Where the session is not active any more, or not yet, nothing is        *)
(* claimed about it.                                                       *)
LEMMA NothingClaimed ==
    ASSUME state' # "active", pc' \notin {"wait_rakp2", "wait_rakp4"}
    PROVE  (ActiveBehindLoop /\ SuiteAgreed /\ Rakp2Checked /\ ActiveAgreement)'
BY DEF ActiveBehindLoop, SuiteAgreed, Rakp2Checked, ActiveAgreement

(* A step that leaves the session alone. *)
LEMMA SessionLeft ==
    ASSUME SessionInv, UNCHANGED <<state, suite, v2, console, bmc>>, SessionsKept,
           pc' = pc
    PROVE  (ActiveBehindLoop /\ SuiteAgreed /\ Rakp2Checked /\ ActiveAgreement)'
<1>1. ActiveAgreement'
  BY AgreementKept DEF SessionInv
<1>2. ActiveBehindLoop' /\ SuiteAgreed'
  BY DEF SessionInv, ActiveBehindLoop, SuiteAgreed
<1>3. Rakp2Checked'
  BY DEF SessionInv, Rakp2Checked, Sik, SikKey, HMac, NoMac
<1> QED
  BY <1>1, <1>2, <1>3

-----------------------------------------------------------------------------
(* Type correctness and the soundness of the datagrams. *)

LEMMA NewV2OK == v2 = NewV2 => V2OK
<1>1. NoMac \in Siks
  BY DEF Siks
<1> QED
  BY <1>1 DEF V2OK, V2Data, NewV2, Algs

LEMMA TypeInit == Init => TypeInv
<1> SUFFICES ASSUME Init PROVE TypeInv
  OBVIOUS
<1>1. V2OK
  BY NewV2OK DEF Init
<1>2. v2.bmc_id \in Nat /\ v2.auth \in Algs /\ v2.console_rand \in Nat /\ v2.bmc_rand \in Nat
  BY <1>1 DEF V2OK, V2Data
<1>3. sessions \in [Ids -> [st : SessionStates, auth : Algs, console_rand : Nat, bmc_rand : Nat]]
  BY DEF Init, FreeSession, Algs, SessionStates
<1>4. TypeOK
  BY <1>2, <1>3 DEF Init, TypeOK, PCs, States, Suites, Algs
<1> QED
  BY <1>1, <1>4 DEF Init, TypeInv, MessagesSound

LEMMA TypeNext == TypeInv /\ [Next]_vars => TypeInv'
<1> SUFFICES ASSUME TypeInv, [Next]_vars PROVE TypeInv'
  OBVIOUS
<1> USE BoundsAssumption DEF TypeInv
<1>1. ASSUME NEW by \in {"no", "tried", "send"}, StartOpen(by) PROVE TypeInv'
  <2>1. MessagesSound'
    BY <1>1, ConsoleMessagesSound DEF StartOpen
  <2>2. V2OK'
    <3>1. NoMac \in Siks
      BY DEF Siks
    <3> QED
      BY <1>1, <3>1 DEF StartOpen, V2OK, V2Data, NewV2, Algs
  <2>3. (v2.bmc_id \in Nat /\ v2.auth \in Algs /\ v2.console_rand \in Nat /\ v2.bmc_rand \in Nat)'
    BY <2>2 DEF V2OK, V2Data
  <2>4. TypeOK'
    <3>1. pc' \in PCs /\ retry' \in Nat /\ state' \in States /\ abort' \in BOOLEAN
      BY <1>1 DEF StartOpen, PCs, States
    <3>2. opens' \in Nat
      BY <1>1 DEF StartOpen, TypeOK
    <3>3. reopen' \in {"no", "due", "tried", "send"}
      BY <1>1, Zenon DEF StartOpen
    <3>4. stale' \in BOOLEAN
      BY <1>1 DEF StartOpen
    <3> QED
      BY <1>1, <2>3, <3>1, <3>2, <3>3, <3>4 DEF StartOpen, TypeOK, bmcVars
  <2> QED
    BY <2>1, <2>2, <2>4
<1>2. CASE ipmi_find_best_cipher_suite
  <2>1. MessagesSound'
    BY <1>2, ConsoleMessagesSound DEF ipmi_find_best_cipher_suite
  <2>2. TypeOK' /\ V2OK'
    BY <1>2 DEF ipmi_find_best_cipher_suite, TypeOK, V2OK, V2Data, bmcVars, PCs, Suites, Algs
  <2> QED
    BY <2>1, <2>2
<1>3. CASE ipmi_lanplus_open_session
  <2>1. MessagesSound'
    BY <1>3, ConsoleMessagesSound DEF ipmi_lanplus_open_session
  <2>2. TypeOK' /\ V2OK'
    BY <1>3 DEF ipmi_lanplus_open_session, TypeOK, V2OK, V2Data, bmcVars, PCs, States
  <2> QED
    BY <2>1, <2>2
<1>4. CASE TriesExhausted
  <2>1. MessagesSound'
    BY <1>4, ConsoleMessagesSound DEF TriesExhausted
  <2>2. TypeOK' /\ V2OK'
    BY <1>4 DEF TriesExhausted, TypeOK, V2OK, V2Data, bmcVars, PCs
  <2> QED
    BY <2>1, <2>2
<1>5. ASSUME NEW m \in msgs \cup Refusals, RecvOpenResponse(m) PROVE TypeInv'
  <2>1. m.status = NoErrors => m.id \in Nat /\ m.auth \in Algs
    BY <1>5, RefusalsFail DEF RecvOpenResponse, MessagesSound, MessageSound
  <2>2. drawn \in Nat /\ drawn + 1 \in Nat
    BY DEF TypeOK
  <2>3. MessagesSound'
    BY <1>5, <2>2, ConsoleMessagesSound DEF RecvOpenResponse, Close, ipmi_close_session_cmd
  <2>4. V2OK'
    <3>1. CASE m.status # NoErrors
      BY <1>5, <3>1 DEF RecvOpenResponse, V2OK
    <3>2. CASE m.status = NoErrors
      <4>1. [v2 EXCEPT !.bmc_id = m.id, !.auth = m.auth] \in V2Data
        BY <2>1, <3>2 DEF V2OK, V2Data
      <4>2. [v2 EXCEPT !.bmc_id = m.id, !.auth = m.auth, !.console_rand = drawn + 1] \in V2Data
        <5> DEFINE v == [v2 EXCEPT !.bmc_id = m.id, !.auth = m.auth]
        <5>1. v \in V2Data
          BY <4>1
        <5> HIDE DEF v
        <5>2. [v EXCEPT !.console_rand = drawn + 1] \in V2Data
          BY <2>2, <5>1 DEF V2Data
        <5> QED
          BY <5>2 DEF v
      <4> QED
        BY <1>5, <3>2, <4>1, <4>2 DEF RecvOpenResponse, V2OK
    <3> QED
      BY <3>1, <3>2
  <2>5. TypeOK'
    BY <1>5, <2>2, <2>4 DEF RecvOpenResponse, Receives, Close, TypeOK, V2OK, V2Data, bmcVars, PCs,
                            States
  <2> QED
    BY <2>3, <2>4, <2>5
<1>6. ASSUME NEW m \in msgs \cup Refusals, RecvRakp2(m) PROVE TypeInv'
  <2>1. m.status = NoErrors => m.bmc_rand \in Nat
    BY <1>6, RefusalsFail DEF RecvRakp2, MessagesSound, MessageSound
  <2>2. m.status = NoErrors => Sik(v2.auth, console, v2.console_rand, m.bmc_rand) \in Siks
    BY <2>1, SikType DEF TypeOK, V2OK, V2Data
  <2>3. MessagesSound'
    BY <1>6, ConsoleMessagesSound DEF RecvRakp2, Close, ipmi_close_session_cmd
  <2>4. TypeOK' /\ V2OK'
    BY <1>6, <2>1, <2>2 DEF RecvRakp2, Receives, Close, TypeOK, V2OK, V2Data, bmcVars, PCs, States
  <2> QED
    BY <2>3, <2>4
<1>7. ASSUME NEW m \in msgs \cup Refusals, RecvRakp4(m) PROVE TypeInv'
  <2>1. MessagesSound'
    BY <1>7, ConsoleMessagesSound DEF RecvRakp4, Close, ipmi_close_session_cmd
  <2>2. TypeOK' /\ V2OK'
    BY <1>7 DEF RecvRakp4, Receives, Close, TypeOK, V2OK, V2Data, bmcVars, PCs, States
  <2> QED
    BY <2>1, <2>2
<1>8. CASE Timeout
  <2>1. MessagesSound'
    BY <1>8, ConsoleMessagesSound DEF Timeout
  <2>2. TypeOK' /\ V2OK'
    BY <1>8 DEF Timeout, TypeOK, V2OK, V2Data, bmcVars, PCs, States
  <2> QED
    BY <2>1, <2>2
<1>9. ASSUME NEW needed \in BOOLEAN, ipmi_set_session_privlvl(needed) PROVE TypeInv'
  <2>1. MessagesSound'
    BY <1>9, ConsoleMessagesSound DEF ipmi_set_session_privlvl, Close, ipmi_close_session_cmd
  <2>2. TypeOK' /\ V2OK'
    BY <1>9 DEF ipmi_set_session_privlvl, Close, TypeOK, V2OK, V2Data, bmcVars, PCs, States
  <2> QED
    BY <2>1, <2>2
<1>10. ASSUME NEW giveUp \in BOOLEAN, ipmi_lanplus_close(giveUp) PROVE TypeInv'
  <2>1. MessagesSound'
    BY <1>10, ConsoleMessagesSound DEF ipmi_lanplus_close, Close, ipmi_close_session_cmd
  <2>2. TypeOK' /\ V2OK'
    BY <1>10 DEF ipmi_lanplus_close, Close, TypeOK, V2OK, V2Data, bmcVars, PCs, States
  <2> QED
    BY <2>1, <2>2
<1>11. ASSUME NEW m \in msgs, NEW i \in Ids, NEW alg \in Algs, BmcOpen(m, i, alg)
       PROVE  TypeInv'
  <2>1. SessionsKept
    BY <1>11, BmcStepKeepsSessions DEF BmcStep
  <2>2. ASSUME NEW n \in msgs' \ msgs PROVE MessageSound(n)'
    BY <1>11, <2>2 DEF BmcOpen, MessageSound, Ids
  <2>3. MessagesSound'
    BY <1>11, <2>1, <2>2, MessagesKept DEF BmcOpen, MessagesSound
  <2>4. TypeOK' /\ V2OK'
    BY <1>11 DEF BmcOpen, FreeSession, TypeOK, V2OK, V2Data, consoleVars, SessionStates
  <2> QED
    BY <2>3, <2>4
<1>12. ASSUME NEW m \in msgs, BmcRakp1(m) PROVE TypeInv'
  <2>1. m.id \in Ids /\ m.console_rand \in Nat /\ bdrawn \in Nat
    BY <1>12 DEF BmcRakp1, MessagesSound, MessageSound, TypeOK
  <2>2. SessionsKept
    BY <1>12, BmcStepKeepsSessions DEF BmcStep
  <2>3. ASSUME NEW n \in msgs' \ msgs PROVE MessageSound(n)'
    BY <1>12, <2>1, <2>3 DEF BmcRakp1, MessageSound, Rakp2Sound, Rakp2Mac, HMac, NoMac
  <2>4. MessagesSound'
    BY <1>12, <2>2, <2>3, MessagesKept DEF BmcRakp1, MessagesSound
  <2>5. sessions' \in [Ids -> [st : SessionStates, auth : Algs, console_rand : Nat, bmc_rand : Nat]]
    <3>1. [sessions[m.id] EXCEPT !.st = "rakp2", !.console_rand = m.console_rand,
                                 !.bmc_rand = bdrawn + 1]
            \in [st : SessionStates, auth : Algs, console_rand : Nat, bmc_rand : Nat]
      <4> DEFINE Session == [st : SessionStates, auth : Algs, console_rand : Nat, bmc_rand : Nat]
                 s == sessions[m.id]
                 n == bdrawn + 1
      <4>1. s \in Session /\ "rakp2" \in SessionStates /\ n \in Nat
        BY <2>1 DEF TypeOK, SessionStates
      <4> HIDE DEF s, n
      <4>2. [s EXCEPT !.st = "rakp2", !.console_rand = m.console_rand] \in Session
        BY <2>1, <4>1
      <4> DEFINE t == [s EXCEPT !.st = "rakp2", !.console_rand = m.console_rand]
      <4>3. t \in Session
        BY <4>2
      <4> HIDE DEF t
      <4>4. [t EXCEPT !.bmc_rand = n] \in Session
        BY <4>1, <4>3
      <4> QED
        BY <4>4 DEF t, s, n
    <3> QED
      BY <1>12, <2>1, <3>1 DEF BmcRakp1, TypeOK
  <2>6. TypeOK' /\ V2OK'
    BY <1>12, <2>1, <2>5 DEF BmcRakp1, TypeOK, V2OK, consoleVars
  <2> QED
    BY <2>4, <2>6
<1>13. ASSUME NEW m \in msgs, BmcRakp3(m) PROVE TypeInv'
  <2> DEFINE s == sessions[m.id]
  <2>1. m.id \in Ids
    BY <1>13 DEF BmcRakp3
  <2>2. SessionsKept
    BY <1>13, BmcStepKeepsSessions DEF BmcStep
  <2>3. ASSUME NEW n \in msgs' \ msgs PROVE Rakp4Sound(n)'
    <3>1. n.mac = Rakp4Mac(s.auth, SessionSik(s), s.console_rand, m.id)
      BY <1>13, <2>3 DEF BmcRakp3
    <3>2. CASE s.auth = "none"
      BY <3>1, <3>2 DEF Rakp4Mac, HMac, Rakp4Sound, NoMac
    <3>3. CASE s.auth = "hmac"
      <4>1. /\ sessions'[m.id].auth = "hmac" /\ sessions'[m.id].st = "active"
            /\ sessions'[m.id].console_rand = s.console_rand
            /\ sessions'[m.id].bmc_rand = s.bmc_rand
        BY <1>13, <2>1, <3>3 DEF BmcRakp3, TypeOK
      <4>2. SessionSik(sessions[m.id])' = SessionSik(s)
        BY <1>13, <4>1, <3>3 DEF BmcRakp3, SessionSik, Sik, SikKey, HMac
      <4>3. n.mac = <<"rakp4", SessionSik(s), s.console_rand, m.id>>
        BY <3>1, <3>3 DEF Rakp4Mac, HMac
      <4> QED
        BY <2>1, <4>1, <4>2, <4>3 DEF Rakp4Sound, Activated, Ids
    <3> QED
      BY <2>1, <3>2, <3>3 DEF TypeOK, Algs
  <2>4. ASSUME NEW n \in msgs' \ msgs PROVE MessageSound(n)'
    <3>1. n.t = "rakp_4"
      BY <1>13, <2>4 DEF BmcRakp3
    <3> QED
      BY <3>1, <2>3, <2>4 DEF MessageSound
  <2>5. MessagesSound'
    BY <1>13, <2>2, <2>4, MessagesKept DEF BmcRakp3, MessagesSound
  <2>6. TypeOK' /\ V2OK'
    BY <1>13, <2>1 DEF BmcRakp3, TypeOK, V2OK, V2Data, consoleVars, SessionStates
  <2> QED
    BY <2>5, <2>6
<1>14. ASSUME NEW i \in Ids, BmcEnds(i) PROVE TypeInv'
  <2>1. SessionsKept
    BY <1>14, BmcStepKeepsSessions DEF BmcStep
  <2>2. MessagesSound'
    BY <1>14, <2>1, MessagesKept DEF BmcEnds, MessagesSound
  <2>3. TypeOK' /\ V2OK'
    BY <1>14 DEF BmcEnds, TypeOK, V2OK, V2Data, consoleVars, SessionStates
  <2> QED
    BY <2>2, <2>3
<1>15. ASSUME NEW duplicate \in BOOLEAN, LateIpmiResponse(duplicate) PROVE TypeInv'
  <2>1. MessagesSound'
    BY <1>15, ConsoleMessagesSound DEF LateIpmiResponse
  <2>2. TypeOK' /\ V2OK'
    BY <1>15 DEF LateIpmiResponse, TypeOK, V2OK, V2Data, bmcVars
  <2> QED
    BY <2>1, <2>2
<1>16. CASE UNCHANGED vars
  <2>1. MessagesSound'
    BY <1>16, ConsoleMessagesSound DEF vars
  <2>2. TypeOK' /\ V2OK'
    BY <1>16 DEF vars, consoleVars, bmcVars, TypeOK, V2OK, V2Data
  <2> QED
    BY <2>1, <2>2
<1> QED
  BY <1>1, <1>2, <1>3, <1>4, <1>5, <1>6, <1>7, <1>8, <1>9, <1>10, <1>11, <1>12, <1>13, <1>14,
     <1>15, <1>16
  DEF Next, ConsoleStep, UserStep, BmcStep, ipmi_lanplus_open, SendOnClosed

(* The variables of the session keep their types, and every hash the BMC   *)
(* sends is a hash of its own keys.                                        *)
THEOREM SessionTypeCorrect == Spec => []TypeOK
<1>1. TypeInv => TypeOK
  BY DEF TypeInv
<1> QED
  BY TypeInit, TypeNext, <1>1, PTL DEF Spec

-----------------------------------------------------------------------------
(* Agreement. *)

LEMMA InvInit == Init => SessionInv
BY TypeInit DEF Init, SessionInv, ActiveBehindLoop, SuiteAgreed, Rakp2Checked, ActiveAgreement

(* What Close() leaves behind. *)
LEMMA CloseClaimsNothing ==
    ASSUME NEW st, NEW ab, Close(st, ab)
    PROVE  (ActiveBehindLoop /\ SuiteAgreed /\ Rakp2Checked /\ ActiveAgreement)'
BY NothingClaimed DEF Close

(* A RAKP 2 whose hash matches comes from a BMC with the same password.    *)
LEMMA Rakp2Proves ==
    ASSUME SessionInv, NEW m \in msgs \cup Refusals, m.t = "rakp_2", m.status = NoErrors,
           NEW v, v.auth = "hmac", lanplus_rakp2_hmac_matches(v, m.mac)
    PROVE  console.key = bmc.key
<1>1. m.mac = <<"rakp2", console.key, v.bmc_id, v.console_rand, v.bmc_rand>>
  BY DEF lanplus_rakp2_hmac_matches, Rakp2Mac, HMac
<1>2. m.mac # NoMac /\ m.mac[2] = console.key
  BY <1>1, HashesDiffer
<1>3. m \in msgs
  BY RefusalsFail
<1>4. Rakp2Sound(m)
  BY <1>3 DEF SessionInv, TypeInv, MessagesSound, MessageSound
<1> QED
  BY <1>2, <1>4 DEF Rakp2Sound

(* A RAKP 4 whose hash matches comes from the session the console means,   *)
(* which the BMC has activated with the same key.                          *)
LEMMA Rakp4Proves ==
    ASSUME SessionInv, NEW m \in msgs \cup Refusals, m.t = "rakp_4", m.status = NoErrors,
           v2.auth = "hmac", lanplus_rakp4_hmac_matches(v2, m.mac)
    PROVE  /\ v2.bmc_id \in Ids /\ Activated(v2.bmc_id)
           /\ sessions[v2.bmc_id].auth = v2.auth
           /\ v2.sik = SessionSik(sessions[v2.bmc_id])
<1>1. m.mac = <<"rakp4", v2.sik, v2.console_rand, v2.bmc_id>>
  BY DEF lanplus_rakp4_hmac_matches, Rakp4Mac, HMac
<1>2. m.mac # NoMac
  BY <1>1, HashesDiffer
<1>3. m \in msgs
  BY RefusalsFail
<1>4. Rakp4Sound(m)
  BY <1>3 DEF SessionInv, TypeInv, MessagesSound, MessageSound
<1>5. PICK i \in Ids : /\ Activated(i) /\ sessions[i].auth = "hmac"
                       /\ m.mac = <<"rakp4", SessionSik(sessions[i]), sessions[i].console_rand, i>>
  BY <1>2, <1>4 DEF Rakp4Sound
<1>6. i = v2.bmc_id /\ v2.sik = SessionSik(sessions[i])
  BY <1>1, <1>5
<1> QED
  BY <1>5, <1>6

LEMMA InvNext == SessionInv /\ [Next]_vars => SessionInv'
<1> SUFFICES ASSUME SessionInv, [Next]_vars
             PROVE  (ActiveBehindLoop /\ SuiteAgreed /\ Rakp2Checked /\ ActiveAgreement)'
  BY TypeNext DEF SessionInv
<1> DEFINE Goal == (ActiveBehindLoop /\ SuiteAgreed /\ Rakp2Checked /\ ActiveAgreement)'
<1>0. ActiveBehindLoop
  BY DEF SessionInv
<1>1. ASSUME NEW by, StartOpen(by) PROVE Goal
  BY <1>1, NothingClaimed DEF StartOpen
<1>2. CASE ipmi_find_best_cipher_suite
  BY <1>0, <1>2, NothingClaimed DEF ipmi_find_best_cipher_suite, ActiveBehindLoop
<1>3. CASE ipmi_lanplus_open_session
  BY <1>3, NothingClaimed DEF ipmi_lanplus_open_session
<1>4. CASE TriesExhausted
  BY <1>0, <1>4, NothingClaimed DEF TriesExhausted, ActiveBehindLoop
<1>5. ASSUME NEW m \in msgs \cup Refusals, RecvOpenResponse(m) PROVE Goal
  <2>1. CASE m.status # NoErrors \/ m.auth # suite
    BY <1>5, <2>1, CloseClaimsNothing DEF RecvOpenResponse
  <2>2. CASE m.status = NoErrors /\ m.auth = suite
    <3>1. pc' = "wait_rakp2" /\ state' = "rakp_1_sent" /\ suite' = suite
      BY <1>5, <2>2 DEF RecvOpenResponse
    <3>2. v2' = [v2 EXCEPT !.bmc_id = m.id, !.auth = m.auth, !.console_rand = drawn + 1]
      BY <1>5, <2>2 DEF RecvOpenResponse
    <3>3. v2'.auth = suite
      BY <2>2, <3>2 DEF SessionInv, TypeInv, V2OK, V2Data
    <3> QED
      BY <3>1, <3>3 DEF ActiveBehindLoop, SuiteAgreed, Rakp2Checked, ActiveAgreement
  <2> QED
    BY <2>1, <2>2
<1>6. ASSUME NEW m \in msgs \cup Refusals, RecvRakp2(m) PROVE Goal
  <2> DEFINE v == [v2 EXCEPT !.bmc_rand = m.bmc_rand]
             w == [v EXCEPT !.rakp2_return_code = NoErrors,
                            !.sik = Sik(v.auth, console, v.console_rand, v.bmc_rand)]
  <2>1. CASE m.status # NoErrors \/ ~lanplus_rakp2_hmac_matches(v, m.mac)
    BY <1>6, <2>1, CloseClaimsNothing DEF RecvRakp2
  <2>2. CASE m.status = NoErrors /\ lanplus_rakp2_hmac_matches(v, m.mac)
    <3>1. pc = "wait_rakp2" /\ m.t = "rakp_2" /\ pc' = "wait_rakp4" /\ state' = "rakp_3_sent"
      BY <1>6, <2>2 DEF RecvRakp2, Receives
    <3>2. v2' = w /\ suite' = suite /\ console' = console /\ bmc' = bmc
      BY <1>6, <2>2 DEF RecvRakp2
    <3>3. v2.auth = suite
      BY <3>1 DEF SessionInv, SuiteAgreed
    <3>4. /\ v.auth = v2.auth /\ v.console_rand = v2.console_rand
          /\ w.auth = v.auth /\ w.console_rand = v.console_rand /\ w.bmc_rand = v.bmc_rand
          /\ w.sik = Sik(v.auth, console, v.console_rand, v.bmc_rand)
      BY DEF SessionInv, TypeInv, V2OK, V2Data
    <3>5. v.auth = "hmac" => console.key = bmc.key
      BY <2>2, <3>1, Rakp2Proves
    <3> HIDE DEF v, w
    <3>6. v2'.sik = Sik(v2'.auth, console', v2'.console_rand, v2'.bmc_rand)
      BY <3>2, <3>4
    <3>7. SuiteAgreed' /\ Rakp2Checked'
      BY <3>1, <3>2, <3>3, <3>4, <3>5, <3>6 DEF SuiteAgreed, Rakp2Checked, Sik, SikKey, HMac, NoMac
    <3> QED
      BY <3>1, <3>7 DEF ActiveBehindLoop, ActiveAgreement
  <2> QED
    BY <2>1, <2>2
<1>7. ASSUME NEW m \in msgs \cup Refusals, RecvRakp4(m) PROVE Goal
  <2>1. CASE m.status # NoErrors \/ ~lanplus_rakp4_hmac_matches(v2, m.mac)
    BY <1>7, <2>1, CloseClaimsNothing DEF RecvRakp4
  <2>2. CASE m.status = NoErrors /\ lanplus_rakp4_hmac_matches(v2, m.mac)
    <3>1. pc = "wait_rakp4" /\ m.t = "rakp_4" /\ pc' = "loop_done" /\ state' = "active"
      BY <1>7, <2>2 DEF RecvRakp4, Receives
    <3>2. UNCHANGED <<v2, suite, console, bmc, sessions>>
      BY <1>7 DEF RecvRakp4, bmcVars
    <3>3. v2.auth = suite /\ v2.sik = Sik(v2.auth, console, v2.console_rand, v2.bmc_rand)
          /\ (v2.auth = "hmac" => console.key = bmc.key)
      BY <3>1 DEF SessionInv, SuiteAgreed, Rakp2Checked
    <3>4. ActiveBehindLoop' /\ SuiteAgreed'
      BY <3>1, <3>2, <3>3 DEF ActiveBehindLoop, SuiteAgreed
    <3>5. Rakp2Checked'
      BY <3>1, <3>2, <3>3 DEF Rakp2Checked, Sik, SikKey, HMac, NoMac
    <3>6. suite = "hmac" => /\ v2.bmc_id \in Ids /\ Activated(v2.bmc_id)
                            /\ sessions[v2.bmc_id].auth = v2.auth
                            /\ v2.sik = SessionSik(sessions[v2.bmc_id])
      BY <2>2, <3>1, <3>3, Rakp4Proves
    <3>7. ActiveAgreement'
      BY <3>1, <3>2, <3>6 DEF ActiveAgreement, Activated, SessionSik, Sik, SikKey, HMac, NoMac, Ids
    <3> QED
      BY <3>4, <3>5, <3>7
  <2> QED
    BY <2>1, <2>2
<1>8. CASE Timeout
  BY <1>0, <1>8, NothingClaimed DEF Timeout, ActiveBehindLoop
<1>9. ASSUME NEW needed \in BOOLEAN, ipmi_set_session_privlvl(needed) PROVE Goal
  <2>1. CASE pc' = "closed"
    BY <1>9, <2>1, CloseClaimsNothing DEF ipmi_set_session_privlvl
  <2>2. CASE pc' # "closed"
    <3>1. /\ pc' \in {"ready", "crashed"} /\ UNCHANGED <<state, v2, suite, console, bmc, bmcVars>>
      BY <1>9, <2>2 DEF ipmi_set_session_privlvl, Close
    <3>2. ActiveAgreement'
      BY <3>1, AgreementKept, ConsoleStepKeepsSessions DEF SessionInv
    <3>3. ActiveBehindLoop' /\ SuiteAgreed'
      BY <3>1 DEF SessionInv, ActiveBehindLoop, SuiteAgreed
    <3>4. Rakp2Checked'
      BY <3>1 DEF SessionInv, Rakp2Checked, Sik, SikKey, HMac, NoMac
    <3> QED
      BY <3>2, <3>3, <3>4
  <2> QED
    BY <2>1, <2>2
<1>10. ASSUME NEW giveUp \in BOOLEAN, ipmi_lanplus_close(giveUp) PROVE Goal
  BY <1>10, CloseClaimsNothing DEF ipmi_lanplus_close
<1>11. CASE BmcStep
  <2>1. SessionsKept
    BY <1>11, BmcStepKeepsSessions DEF SessionInv, TypeInv
  <2>2. UNCHANGED <<pc, state, suite, v2, console, bmc>>
    BY <1>11 DEF BmcStep, BmcOpen, BmcRakp1, BmcRakp3, BmcEnds, LateIpmiResponse, consoleVars
  <2> QED
    BY <2>1, <2>2, SessionLeft
<1>12. CASE UNCHANGED vars
  BY <1>12, SessionLeft, ConsoleStepKeepsSessions DEF vars, consoleVars
<1> QED
  BY <1>1, <1>2, <1>3, <1>4, <1>5, <1>6, <1>7, <1>8, <1>9, <1>10, <1>11, <1>12
  DEF Next, ConsoleStep, UserStep, ipmi_lanplus_open, SendOnClosed

LEMMA SessionInvariance == Spec => []SessionInv
BY InvInit, InvNext, PTL DEF Spec

(* Whatever answers of earlier attempts arrive, and however often: a       *)
(* session the console holds active under an HMAC suite is one the BMC has *)
(* activated, with the same algorithm and the same integrity key.          *)
THEOREM SessionsAgree == Spec => []ActiveAgreement
<1>1. SessionInv => ActiveAgreement
  BY DEF SessionInv
<1> QED
  BY SessionInvariance, <1>1, PTL

(* Such a session is only ever established between a console and a BMC     *)
(* that share the password and the key of the BMC.                         *)
THEOREM SessionsAuthenticated == Spec => []MutualAuthentication
<1>1. SessionInv => MutualAuthentication
  <2> SUFFICES ASSUME SessionInv, state = "active", suite = "hmac"
               PROVE  console.key = bmc.key /\ SikKey(console) = SikKey(bmc)
    BY DEF MutualAuthentication
  <2>1. v2.auth = "hmac" /\ console.key = bmc.key
    BY DEF SessionInv, SuiteAgreed, Rakp2Checked
  <2> DEFINE s == sessions[v2.bmc_id]
  <2>2. v2.sik = <<"sik", SikKey(console), v2.console_rand, v2.bmc_rand>>
    BY <2>1 DEF SessionInv, Rakp2Checked, Sik, HMac
  <2>3. v2.sik = <<"sik", SikKey(bmc), s.console_rand, s.bmc_rand>>
    BY <2>1 DEF SessionInv, ActiveAgreement, SessionSik, Sik, HMac
  <2> QED
    BY <2>1, <2>2, <2>3
<1> QED
  BY SessionInvariance, <1>1, PTL

(* An active session is let go of only with a Close Session, unless the    *)
(* program has given up on the BMC.                                        *)
THEOREM ActiveSessionsClosed == Spec => ClosesWhatItOpened
<1> DEFINE Closes == (state = "active" /\ state' # "active" /\ ~abort')
                        => [t |-> "close", id |-> v2.bmc_id] \in msgs'
<1>1. SessionInv /\ [Next]_vars => [Closes]_vars
  <2> SUFFICES ASSUME SessionInv, Next, state = "active", state' # "active", ~abort'
               PROVE  [t |-> "close", id |-> v2.bmc_id] \in msgs'
    OBVIOUS
  <2>1. pc \in {"loop_done", "ready", "crashed"}
    BY DEF SessionInv, ActiveBehindLoop
  <2>2. CASE ConsoleStep
    <3>1. PICK needed \in BOOLEAN : ipmi_set_session_privlvl(needed)
      BY <2>1, <2>2 DEF ConsoleStep, ipmi_find_best_cipher_suite, ipmi_lanplus_open_session,
                       TriesExhausted, RecvOpenResponse, RecvRakp2, RecvRakp4, Receives, Timeout
    <3>2. Close(state, FALSE)
      BY <3>1 DEF ipmi_set_session_privlvl
    <3> QED
      BY <3>2 DEF Close, ipmi_close_session_cmd
  <2>3. CASE UserStep
    <3>1. PICK giveUp \in BOOLEAN : ipmi_lanplus_close(giveUp)
      BY <2>1, <2>3 DEF UserStep, ipmi_lanplus_open, SendOnClosed, StartOpen
    <3>2. Close(state, giveUp) /\ abort' = giveUp
      BY <3>1 DEF ipmi_lanplus_close, Close
    <3> QED
      BY <3>2 DEF Close, ipmi_close_session_cmd
  <2>4. CASE BmcStep
    BY <2>4 DEF BmcStep, BmcOpen, BmcRakp1, BmcRakp3, BmcEnds, LateIpmiResponse, consoleVars
  <2> QED
    BY <2>2, <2>3, <2>4 DEF Next
<1> QED
  BY SessionInvariance, <1>1, PTL DEF Spec, ClosesWhatItOpened

=============================================================================
