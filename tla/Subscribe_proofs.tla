-------------------------- MODULE Subscribe_proofs --------------------------
(***************************************************************************)
(* What TLAPS proves about Subscribe, for every set of status codes and    *)
(* every bound.                                                            *)
(***************************************************************************)
EXTENDS Subscribe, Endpoint_proofs

-----------------------------------------------------------------------------
(* The inductive invariant.                                                *)

\* Transactions follow one another: each but the last was challenged.
ChainInv ==
    /\ \A i \in Tsx : i > sent => status[i] = 0
    /\ \A i \in Tsx : i < sent => status[i] \in Challenge

\* Every message printed comes with the flag.
StopInv ==
    /\ Concluded => loopStop
    /\ timedOut => loopStop
    /\ gaveUp => loopStop

\* The second challenge counted is the last of its batch but for those the same
\* call of handle_events still delivers.
CountInv ==
    /\ authTries > 1 => gaveUp
    /\ pc = "setup" => authTries = 0
    /\ pc = "poll" => authTries <= batch + 1

ChallengesHeard == {r \in heard : r.code \in Challenge}

\* Over TCP the challenges of the first request count for one.
TcpInv ==
    (proto = "tcp" /\ \A r \in ChallengesHeard : r.tsx = 1)
        => authTries = IF ChallengesHeard = {} THEN 0 ELSE 1

IInv ==
    /\ EndpointInv
    /\ TypeOK
    /\ ChainInv
    /\ StopInv
    /\ CountInv
    /\ TcpInv
    /\ TimeoutIsTrue
    /\ FailureIsEarnedOverTcp

-----------------------------------------------------------------------------

\* The command starts in the invariant.
LEMMA InitIInv == Init => IInv
<1> SUFFICES ASSUME Init PROVE IInv OBVIOUS
<1> USE BatchMaxAssumption DEF Init
<1>1. EndpointInv BY EndpointInitInv DEF Commands
<1>2. TypeOK
  <2>1. authTries \in 0..BatchMax + 1 /\ evsub \in {"sent"} OBVIOUS
  <2>2. gaveUp \in BOOLEAN /\ timedOut \in BOOLEAN BY Zenon
  <2> QED BY <1>1, <2>1, <2>2 DEF TypeOK, EndpointInv
<1>3. ChainInv BY DEF ChainInv, EndpointInit, Tsx
<1>4. StopInv BY DEF StopInv, Concluded
<1>5. CountInv BY DEF CountInv, EndpointInit
<1>6. TcpInv BY DEF TcpInv, ChallengesHeard, EndpointInit
<1>7. TimeoutIsTrue /\ FailureIsEarnedOverTcp BY DEF TimeoutIsTrue, FailureIsEarnedOverTcp
<1> QED BY <1>1, <1>2, <1>3, <1>4, <1>5, <1>6, <1>7 DEF IInv

\* The subscription at the end of a transaction, which is the last one.
LEMMA UsageEndsKeeps ==
    ASSUME IInv, NEW i \in Tsx, NEW code \in Status \ {0}, Pending(i), UsageEnds(i, code)
    PROVE  /\ ChainInv'
           /\ TimeoutIsTrue'
           /\ timedOut' \in BOOLEAN /\ loopStop' \in BOOLEAN
           /\ evsub' \in {"sent", "accepted", "pending", "active", "terminated"}
           /\ (Concluded' \/ timedOut' \/ loopStop) => loopStop'
           /\ loopStop' => loopStop \/ Concluded' \/ timedOut'
           /\ sent' \in 0..MaxTsx /\ sent' >= sent
           /\ status' \in [Tsx -> Status]
<1> USE MaxTsxAssumption DEF IInv, ChainInv, TimeoutIsTrue, StopInv, TypeOK, EndpointTypeOK,
                             Tsx, Concluded, Stops
<1> DEFINE stopped == loopStop \/ TimesOut(code)
<1>1. i = sent /\ status[i] = 0 /\ code # 0 BY DEF Pending, Challenge
<1>2. ~timedOut BY <1>1 DEF Timeout
<1>3. status' = [status EXCEPT ![i] = code] /\ status' \in [Tsx -> Status]
  BY DEF UsageEnds, EndTsx
<1>4. timedOut' = (timedOut \/ TimesOut(code)) /\ timedOut' \in BOOLEAN
      /\ stopped \in BOOLEAN
  BY Zenon DEF UsageEnds, TimesOut
<1>5. TimesOut(code) <=> code = Timeout BY DEF TimesOut
<1>6. CASE /\ code \in Challenge /\ sent < MaxTsx /\ sent' = sent + 1
           /\ loopStop' = stopped /\ UNCHANGED evsub
  <2>1. code # Timeout BY <1>6 DEF Challenge, Timeout
  <2> QED BY <1>1, <1>2, <1>3, <1>4, <1>5, <1>6, <2>1
<1>7. CASE evsub' = "accepted" /\ loopStop' = stopped /\ UNCHANGED sent /\ evsub = "sent"
  BY <1>1, <1>2, <1>3, <1>4, <1>5, <1>7
<1>8. CASE loopStop' = stopped /\ UNCHANGED <<evsub, sent>>
  BY <1>1, <1>2, <1>3, <1>4, <1>5, <1>8
<1>9. CASE evsub' = "terminated" /\ loopStop' = TRUE /\ UNCHANGED sent
  BY <1>1, <1>2, <1>3, <1>4, <1>5, <1>9
<1>10. ASSUME OnEvsubState("accepted", stopped) PROVE evsub' = "accepted" /\ loopStop' = stopped
  BY <1>10, <1>4, Zenon DEF OnEvsubState
<1>11. ASSUME OnEvsubState("terminated", stopped) PROVE evsub' = "terminated" /\ loopStop' = TRUE
  BY <1>11 DEF OnEvsubState
<1> QED BY <1>6, <1>7, <1>8, <1>9, <1>10, <1>11 DEF UsageEnds

\* What a step of main or of the server may change of the command's invariant.
LEMMA EndpointStepKeeps ==
    ASSUME IInv, [EndpointNext]_endpoint, UNCHANGED own
    PROVE  IInv' /\ loopStop' = loopStop
<1> USE BatchMaxAssumption
<1>1. EndpointInv' BY EndpointNextInv DEF IInv
<1>2. /\ UNCHANGED <<loopStop, status, heard, authTries, gaveUp, evsub, timedOut>>
      /\ sent' = sent \/ (pc = "setup" /\ sent = 0 /\ sent' = 1)
  BY EndpointNextFrame DEF IInv, own
<1>3. UNCHANGED <<cmd, proto>>
  BY DEF EndpointNext, SetupStep, SetupFails, SendRequest, LoopTest, PollReturns,
         UasRespond, Terminated, endpoint, program, config
<1>4. TypeOK' BY <1>1, <1>2 DEF IInv, TypeOK, EndpointInv
<1>5. ChainInv' BY <1>2 DEF IInv, ChainInv, Tsx
<1>6. StopInv' BY <1>2 DEF IInv, StopInv, Concluded
<1>7. CountInv'
  <2>1. CASE LoopTest
    <3>1. pc' = "poll" => authTries <= 1
      BY <2>1 DEF LoopTest, IInv, StopInv, CountInv, TypeOK
    <3>2. batch' = 0 /\ pc' # "setup" BY <2>1 DEF LoopTest
    <3> QED BY <1>2, <3>1, <3>2 DEF IInv, CountInv, TypeOK
  <2>2. CASE SetupStep \/ SetupFails \/ SendRequest \/ PollReturns
    BY <1>2, <2>2 DEF SetupStep, SetupFails, SendRequest, PollReturns, IInv, CountInv
  <2>3. CASE UNCHANGED <<pc, batch>> BY <1>2, <2>3 DEF IInv, CountInv
  <2>4. ASSUME NEW r \in Response, UasRespond(r) PROVE UNCHANGED <<pc, batch>>
    BY <2>4 DEF UasRespond, program
  <2>5. CASE UNCHANGED endpoint BY <2>3, <2>5 DEF endpoint
  <2> QED BY <2>1, <2>2, <2>3, <2>4, <2>5 DEF EndpointNext, Terminated
<1>8. TcpInv' BY <1>2, <1>3 DEF IInv, TcpInv, ChallengesHeard
<1>9. TimeoutIsTrue' BY <1>2 DEF IInv, TimeoutIsTrue, StopInv, EndpointInv, ControlInv
<1>10. FailureIsEarnedOverTcp' BY <1>2, <1>3 DEF IInv, FailureIsEarnedOverTcp
<1> QED BY <1>1, <1>2, <1>4, <1>5, <1>6, <1>7, <1>8, <1>9, <1>10 DEF IInv

\* A response, consumed by the module or passed on.
LEMMA DeliverKeeps ==
    ASSUME IInv, NEW r \in Response, Deliver(r)
    PROVE  IInv' /\ (loopStop' => loopStop \/ Concluded' \/ timedOut' \/ gaveUp')
<1> USE BatchMaxAssumption, MaxTsxAssumption
<1>1. /\ Callback /\ r \in net /\ heard' = heard \cup {r} /\ UNCHANGED <<cmd, proto, pc>>
      /\ pc = "poll" /\ batch < BatchMax /\ batch' = batch + 1
      /\ proto = "tcp" => r \notin heard
      /\ authTries' = IF r.code \in Challenge THEN authTries + 1 ELSE authTries
  BY DEF Deliver, Arrive, Callback, config
<1>2. heard \subseteq heard' /\ heard' \subseteq net
  BY <1>1 DEF IInv, TypeOK, EndpointTypeOK
<1>3. r.tsx \in Tsx /\ r.code \in Status \ {0} /\ r = [tsx |-> r.tsx, code |-> r.code]
  BY CodesAssumption DEF Response, Status
<1>4. authTries' \in 0..BatchMax + 1 /\ authTries' <= batch' + 1 /\ authTries' >= authTries
  BY <1>1 DEF IInv, TypeOK, EndpointTypeOK, CountInv
<1>5. CASE r.code \in Challenge /\ GivesUp(authTries')
  <2>1. gaveUp' = TRUE /\ loopStop' = TRUE /\ UNCHANGED <<sent, status, evsub, timedOut>>
    BY <1>5 DEF Deliver, GiveUp, tsxs
  <2>2. gaveUp' \in BOOLEAN /\ loopStop' \in BOOLEAN BY <2>1, Zenon
  <2>3. EndpointInv' BY <1>1, <1>2, <2>1, <2>2, CallbackInv DEF IInv, TypeOK, EndpointTypeOK
  <2>4. TypeOK' BY <1>4, <2>1, <2>2, <2>3 DEF IInv, TypeOK, EndpointInv
  <2>5. ChainInv' /\ TimeoutIsTrue' BY <2>1 DEF IInv, ChainInv, TimeoutIsTrue
  <2>6. StopInv' /\ CountInv' BY <1>1, <1>4, <2>1 DEF StopInv, CountInv
  <2>7. ASSUME proto = "tcp" PROVE \E q \in ChallengesHeard' : q.tsx >= 2
    <3>1. SUFFICES ASSUME \A q \in ChallengesHeard' : ~(q.tsx >= 2) PROVE FALSE OBVIOUS
    <3>2. \A q \in ChallengesHeard' : q.tsx = 1 /\ q = [tsx |-> 1, code |-> q.code]
      BY <1>2, <3>1 DEF ChallengesHeard, IInv, TypeOK, EndpointTypeOK, Response, Tsx
    <3>3. r \in ChallengesHeard' BY <1>1, <1>5 DEF ChallengesHeard
    <3>4. \A q \in ChallengesHeard : q \in ChallengesHeard' /\ q = r
      <4> SUFFICES ASSUME NEW q \in ChallengesHeard PROVE q \in ChallengesHeard' /\ q = r
        OBVIOUS
      <4>1. q \in ChallengesHeard' BY <1>2 DEF ChallengesHeard
      <4>2. q \in net /\ IsFinal(q.code) /\ IsFinal(r.code)
        BY <1>5 DEF ChallengesHeard, IInv, TypeOK, EndpointTypeOK, IsFinal, Challenge
      <4>3. q.code = r.code BY <1>1, <3>2, <3>3, <4>1, <4>2 DEF IInv, EndpointInv, NetInv
      <4> QED BY <3>2, <3>3, <4>1, <4>3
    <3>5. ChallengesHeard = {} BY <1>1, <2>7, <3>4 DEF ChallengesHeard
    <3>6. authTries = 0 BY <2>7, <3>5 DEF IInv, TcpInv
    <3> QED BY <1>1, <1>5, <3>6 DEF GivesUp
  <2>8. TcpInv' BY <1>1, <2>7 DEF TcpInv
  <2>9. FailureIsEarnedOverTcp' BY <1>1, <2>7 DEF FailureIsEarnedOverTcp, ChallengesHeard
  <2> QED BY <2>1, <2>3, <2>4, <2>5, <2>6, <2>8, <2>9 DEF IInv
<1>6. CASE ~(r.code \in Challenge /\ GivesUp(authTries'))
  <2>1. PassOn(r) /\ gaveUp' = gaveUp BY <1>6 DEF Deliver, PassOn
  <2>2. /\ ChainInv' /\ TimeoutIsTrue'
        /\ timedOut' \in BOOLEAN /\ loopStop' \in BOOLEAN
        /\ evsub' \in {"sent", "accepted", "pending", "active", "terminated"}
        /\ (Concluded' \/ timedOut' \/ loopStop) => loopStop'
        /\ loopStop' => loopStop \/ Concluded' \/ timedOut'
        /\ sent' \in 0..MaxTsx /\ sent' >= sent
        /\ status' \in [Tsx -> Status]
    <3>1. CASE EndsTsx(r)
      <4>1. UsageEnds(r.tsx, r.code) /\ Pending(r.tsx) BY <2>1, <3>1 DEF PassOn, EndsTsx
      <4> QED BY <1>3, <4>1, UsageEndsKeeps
    <3>2. CASE ~EndsTsx(r)
      <4>1. UNCHANGED <<loopStop, sent, status, evsub, timedOut>>
        BY <2>1, <3>2 DEF PassOn, tsxs
      <4> QED BY <4>1 DEF IInv, ChainInv, TimeoutIsTrue, StopInv, TypeOK, EndpointTypeOK, Concluded
    <3> QED BY <3>1, <3>2
  <2>3. EndpointInv' BY <1>1, <1>2, <2>2, CallbackInv DEF IInv
  <2>4. TypeOK' BY <1>4, <2>1, <2>2, <2>3 DEF IInv, TypeOK, EndpointInv
  <2>5. StopInv' BY <2>1, <2>2 DEF IInv, StopInv
  <2>6. CountInv'
    <3>1. authTries' > 1 => gaveUp'
      BY <1>1, <1>6, <2>1 DEF GivesUp, IInv, CountInv, TypeOK
    <3> QED BY <1>1, <1>4, <3>1 DEF CountInv
  <2>7. TcpInv'
    <3>1. CASE r.code \notin Challenge
      <4>1. ChallengesHeard' = ChallengesHeard BY <1>1, <3>1 DEF ChallengesHeard
      <4> QED BY <1>1, <3>1, <4>1 DEF IInv, TcpInv
    <3>2. CASE r.code \in Challenge
      <4>1. authTries' = 1 BY <1>1, <1>4, <1>6, <3>2 DEF GivesUp, IInv, TypeOK
      <4>2. ChallengesHeard' # {} BY <1>1, <3>2 DEF ChallengesHeard
      <4> QED BY <4>1, <4>2 DEF TcpInv
    <3> QED BY <3>1, <3>2
  <2>8. FailureIsEarnedOverTcp' BY <1>1, <2>1 DEF IInv, FailureIsEarnedOverTcp
  <2> QED BY <2>2, <2>3, <2>4, <2>5, <2>6, <2>7, <2>8 DEF IInv
<1> QED BY <1>5, <1>6

\* A timeout or a transport error.
LEMMA LocalEndKeeps ==
    ASSUME IInv, NEW i \in Tsx, TsxTimeout(i) \/ TransportFails(i)
    PROVE  IInv' /\ (loopStop' => loopStop \/ Concluded' \/ timedOut')
<1> USE BatchMaxAssumption
<1>1. PICK code \in {Timeout, TransportError} : LocalEnd(i, code)
  BY DEF TsxTimeout, TransportFails
<1>2. /\ Callback /\ Pending(i) /\ UsageEnds(i, code) /\ UNCHANGED <<cmd, proto, pc>>
      /\ batch' = batch + 1
      /\ UNCHANGED <<authTries, gaveUp, heard>>
  BY <1>1 DEF LocalEnd, Callback, config
<1>3. code \in Status \ {0} BY DEF Timeout, TransportError, Status
<1>4. /\ ChainInv' /\ TimeoutIsTrue'
      /\ timedOut' \in BOOLEAN /\ loopStop' \in BOOLEAN
      /\ evsub' \in {"sent", "accepted", "pending", "active", "terminated"}
      /\ (Concluded' \/ timedOut' \/ loopStop) => loopStop'
      /\ loopStop' => loopStop \/ Concluded' \/ timedOut'
      /\ sent' \in 0..MaxTsx /\ sent' >= sent
      /\ status' \in [Tsx -> Status]
  BY <1>2, <1>3, UsageEndsKeeps
<1>5. EndpointInv' BY <1>2, <1>4, CallbackInv DEF IInv, TypeOK, EndpointTypeOK
<1>6. TypeOK' BY <1>2, <1>4, <1>5 DEF IInv, TypeOK, EndpointInv
<1>7. StopInv' BY <1>2, <1>4 DEF IInv, StopInv
<1>8. CountInv' BY <1>2 DEF IInv, CountInv, TypeOK, EndpointTypeOK
<1>9. TcpInv' /\ FailureIsEarnedOverTcp'
  BY <1>2 DEF IInv, TcpInv, FailureIsEarnedOverTcp, ChallengesHeard
<1> QED BY <1>4, <1>5, <1>6, <1>7, <1>8, <1>9 DEF IInv

\* A NOTIFY.
LEMMA RxNotifyKeeps ==
    ASSUME IInv, NEW state \in {"pending", "active", "terminated"}, RxNotify(state)
    PROVE  IInv' /\ (loopStop' => loopStop \/ Concluded')
<1> USE BatchMaxAssumption
<1>1. /\ Callback /\ UNCHANGED <<cmd, proto, pc>> /\ batch' = batch + 1
      /\ UNCHANGED <<sent, status, heard, authTries, gaveUp, timedOut>>
      /\ evsub' = state
  BY DEF RxNotify, OnEvsubState, Callback, config, tsxs
<1>2. /\ loopStop' \in BOOLEAN
      /\ loopStop' <=> (loopStop \/ Concluded')
  BY <1>1 DEF RxNotify, OnEvsubState, Concluded, Stops, IInv, TypeOK, EndpointTypeOK
<1>3. EndpointInv' BY <1>1, <1>2, CallbackInv DEF IInv, TypeOK, EndpointTypeOK
<1>4. TypeOK' BY <1>1, <1>3 DEF IInv, TypeOK, EndpointInv
<1>5. ChainInv' /\ TimeoutIsTrue' BY <1>1 DEF IInv, ChainInv, TimeoutIsTrue
<1>6. StopInv' BY <1>1, <1>2 DEF IInv, StopInv
<1>7. CountInv' BY <1>1 DEF IInv, CountInv, TypeOK, EndpointTypeOK
<1>8. TcpInv' /\ FailureIsEarnedOverTcp'
  BY <1>1 DEF IInv, TcpInv, FailureIsEarnedOverTcp, ChallengesHeard
<1> QED BY <1>2, <1>3, <1>4, <1>5, <1>6, <1>7, <1>8 DEF IInv

\* Every step of the command keeps the invariant, and raises the flag for a reason.
LEMMA NextIInv ==
    ASSUME IInv, [Next]_vars
    PROVE  IInv' /\ (loopStop' => loopStop \/ Concluded' \/ timedOut' \/ gaveUp')
<1>1. CASE EndpointNext /\ UNCHANGED own BY <1>1, EndpointStepKeeps
<1>2. ASSUME NEW r \in Response, Deliver(r)
      PROVE  IInv' /\ (loopStop' => loopStop \/ Concluded' \/ timedOut' \/ gaveUp')
  BY <1>2, DeliverKeeps
<1>3. ASSUME NEW i \in Tsx, TsxTimeout(i) \/ TransportFails(i)
      PROVE  IInv' /\ (loopStop' => loopStop \/ Concluded' \/ timedOut' \/ gaveUp')
  BY <1>3, LocalEndKeeps
<1>4. ASSUME NEW state \in {"pending", "active", "terminated"}, RxNotify(state)
      PROVE  IInv' /\ (loopStop' => loopStop \/ Concluded' \/ timedOut' \/ gaveUp')
  BY <1>4, RxNotifyKeeps
<1>5. CASE UNCHANGED vars BY <1>5, EndpointStepKeeps DEF vars
<1> QED BY <1>1, <1>2, <1>3, <1>4, <1>5 DEF Next

\* The invariant holds in every reachable state.
LEMMA SpecIInv == Spec => []IInv
<1> QED BY InitIInv, NextIInv, PTL DEF Spec

-----------------------------------------------------------------------------
(* The properties.                                                         *)

\* Every variable keeps its type; the counter, unsigned short in the code, stays
\* below the number of callbacks of one handle_events plus one.
THEOREM TypeCorrect == Spec => []TypeOK
<1> QED BY SpecIInv, PTL DEF IInv

\* The timeout printed is that of the last SUBSCRIBE sent (on_tsx_state).
THEOREM TimeoutIsReal == Spec => []TimeoutIsTrue
<1> QED BY SpecIInv, PTL DEF IInv

\* Over TCP the authentication is declared failed only after the request with
\* credentials was challenged (on_rx_response).
THEOREM FailureIsJustified == Spec => []FailureIsEarnedOverTcp
<1> QED BY SpecIInv, PTL DEF IInv

\* Nothing but an outcome, a timeout or a refusal asks the loop to stop.
THEOREM StopIsJustified == Spec => StopHasOutcome
<1>1. IInv /\ [Next]_vars => [loopStop' /\ ~loopStop => Concluded' \/ timedOut' \/ gaveUp']_vars
  BY NextIInv
<1> QED BY <1>1, SpecIInv, PTL DEF Spec, StopHasOutcome

=============================================================================
