--------------------------- MODULE Request_proofs ---------------------------
(***************************************************************************)
(* What TLAPS proves about Request, for every set of status codes and      *)
(* every bound.                                                            *)
(***************************************************************************)
EXTENDS Request, Endpoint_proofs

-----------------------------------------------------------------------------
(* The inductive invariant.                                                *)

\* The challenges are counted by transaction, never by message.
AuthInv ==
    /\ sent <= 2
    /\ \A i \in Tsx : i > sent => status[i] = 0
    /\ sent = 2 => status[1] \in Challenge
    /\ authTries = (IF status[1] \in Challenge THEN 1 ELSE 0)
                   + (IF status[2] \in Challenge THEN 1 ELSE 0)
    /\ gaveUp <=> authTries = 2
    /\ \A i \in Tsx : status[i] \in Challenge => [tsx |-> i, code |-> status[i]] \in heard

IInv ==
    /\ EndpointInv
    /\ TypeOK
    /\ AuthInv
    /\ StopMeansAnswer

-----------------------------------------------------------------------------

\* The command starts in the invariant.
LEMMA InitIInv == Init => IInv
<1> SUFFICES ASSUME Init PROVE IInv OBVIOUS
<1> USE MaxTsxAssumption DEF Init
<1>1. EndpointInv BY EndpointInitInv DEF Commands
<1>2. TypeOK
  <2>1. authTries \in 0..MaxTsx OBVIOUS
  <2>2. gaveUp \in BOOLEAN BY Zenon
  <2> QED BY <1>1, <2>1, <2>2 DEF TypeOK, EndpointInv
<1>3. AuthInv BY DEF AuthInv, EndpointInit, Tsx, Challenge
<1>4. StopMeansAnswer BY DEF StopMeansAnswer, Answers, EndpointInit
<1> QED BY <1>1, <1>2, <1>3, <1>4 DEF IInv

\* send_cb, called for an open transaction with its final status.
LEMMA SendCbKeeps ==
    ASSUME IInv, NEW i \in Tsx, NEW code \in Status \ {0},
           NEW stopped \in BOOLEAN, Pending(i), SendCb(i, code, stopped),
           heard \subseteq heard',
           code \in Challenge => [tsx |-> i, code |-> code] \in heard'
    PROVE  /\ AuthInv'
           /\ authTries' \in 0..MaxTsx /\ gaveUp' \in BOOLEAN
           /\ sent' \in 0..MaxTsx /\ sent' >= sent
           /\ status' \in [Tsx -> Status]
           /\ loopStop' \in BOOLEAN
           /\ loopStop' <=> (stopped \/ (gaveUp' /\ ~gaveUp))
           /\ gaveUp => gaveUp'
<1> USE MaxTsxAssumption DEF IInv, AuthInv, TypeOK, EndpointTypeOK, Tsx, Challenge
<1>1. 1 \in Tsx /\ 2 \in Tsx OBVIOUS
<1>2. i \in 1..2 /\ i <= sent /\ status[i] = 0 /\ code # 0 BY DEF Pending
<1>3. status' = [status EXCEPT ![i] = code] BY DEF SendCb, EndTsx
<1>4. status' \in [Tsx -> Status] BY <1>3
<1>5. CASE code \notin Challenge
  <2>1. UNCHANGED <<authTries, gaveUp, sent>> /\ loopStop' = stopped BY <1>5 DEF SendCb
  <2> QED BY <1>1, <1>2, <1>3, <1>4, <1>5, <2>1
<1>6. CASE code \in Challenge
  <2>1. authTries' = authTries + 1 BY <1>6 DEF SendCb
  <2>2. CASE GivesUp(authTries + 1)
    <3>1. gaveUp' = TRUE /\ loopStop' = TRUE /\ sent' = sent BY <1>6, <2>2 DEF SendCb, GiveUp
    <3>2. authTries = 1 /\ i = 2 /\ sent = 2 /\ ~gaveUp BY <1>1, <1>2, <2>2 DEF GivesUp
    <3> QED BY <1>1, <1>2, <1>3, <1>4, <1>6, <2>1, <3>1, <3>2
  <2>3. CASE ~GivesUp(authTries + 1)
    <3>1. sent' \in {sent, sent + 1} \cap 0..MaxTsx /\ loopStop' = stopped /\ gaveUp' = gaveUp
      BY <1>6, <2>3 DEF SendCb, Resend
    <3>2. authTries = 0 /\ i = 1 /\ sent = 1 /\ ~gaveUp BY <1>1, <1>2, <2>3 DEF GivesUp
    <3> QED BY <1>1, <1>2, <1>3, <1>4, <1>6, <2>1, <3>1, <3>2
  <2> QED BY <2>2, <2>3
<1> QED BY <1>5, <1>6

\* Every step of the command keeps the invariant.
LEMMA NextIInv == IInv /\ [Next]_vars => IInv'
<1> SUFFICES ASSUME IInv, [Next]_vars PROVE IInv' OBVIOUS
<1> USE MaxTsxAssumption
<1>1. ASSUME [EndpointNext]_endpoint, UNCHANGED own PROVE IInv'
  <2>1. EndpointInv' BY <1>1, EndpointNextInv DEF IInv
  <2>2. /\ UNCHANGED <<loopStop, status, heard, authTries, gaveUp>>
        /\ sent' = sent \/ (sent = 0 /\ sent' = 1)
    BY <1>1, EndpointNextFrame DEF IInv, own
  <2>3. TypeOK' BY <2>1, <2>2 DEF IInv, TypeOK, EndpointInv
  <2>4. AuthInv' BY <2>2 DEF IInv, AuthInv, Tsx
  <2>5. StopMeansAnswer' BY <2>2 DEF IInv, StopMeansAnswer, Answers
  <2> QED BY <2>1, <2>3, <2>4, <2>5 DEF IInv
<1>2. ASSUME NEW r \in Response, Deliver(r) PROVE IInv'
  <2> DEFINE stopped == loopStop \/ (Registered /\ OnRxResponse(r.code))
  <2>1. Callback /\ r \in net /\ heard' = heard \cup {r} /\ pc = "poll"
    BY <1>2 DEF Deliver, Arrive, Callback
  <2>2. Registered BY <2>1, LoopIsRegistered DEF IInv
  <2>3. stopped \in BOOLEAN /\ (stopped <=> (loopStop \/ r.code \notin Challenge))
    BY <2>2 DEF OnRxResponse, IInv, TypeOK, EndpointTypeOK
  <2>4. Answers' = IF r.code \in Challenge THEN Answers ELSE Answers \cup {r}
    BY <2>1 DEF Answers
  <2>5. stopped <=> (Answers' # {} \/ gaveUp)
    BY <2>3, <2>4 DEF IInv, StopMeansAnswer
  <2>6. heard \subseteq heard' /\ heard' \subseteq net
    BY <2>1 DEF IInv, TypeOK, EndpointTypeOK
  <2>7. /\ AuthInv'
        /\ authTries' \in 0..MaxTsx /\ gaveUp' \in BOOLEAN
        /\ sent' \in 0..MaxTsx /\ sent' >= sent
        /\ status' \in [Tsx -> Status]
        /\ loopStop' \in BOOLEAN
        /\ loopStop' <=> (stopped \/ (gaveUp' /\ ~gaveUp))
        /\ gaveUp => gaveUp'
    <3> HIDE DEF stopped
    <3>1. CASE EndsTsx(r)
      <4>1. Pending(r.tsx) /\ SendCb(r.tsx, r.code, stopped)
        BY <1>2, <3>1 DEF Deliver, EndsTsx, stopped
      <4>2. r.tsx \in Tsx /\ r.code \in Status \ {0} /\ r = [tsx |-> r.tsx, code |-> r.code]
        BY <1>2, CodesAssumption DEF Response, Status
      <4> QED BY <2>1, <2>3, <2>6, <4>1, <4>2, SendCbKeeps
    <3>2. CASE ~EndsTsx(r)
      <4>1. loopStop' = stopped /\ UNCHANGED <<authTries, gaveUp, sent, status>>
        BY <1>2, <3>2 DEF Deliver, tsxs, own, stopped
      <4> QED BY <2>3, <2>6, <4>1 DEF IInv, AuthInv, TypeOK, EndpointTypeOK
    <3> QED BY <3>1, <3>2
  <2>8. EndpointInv' BY <2>1, <2>6, <2>7, CallbackInv DEF IInv
  <2>9. TypeOK' BY <2>7, <2>8 DEF TypeOK, EndpointInv
  <2>10. StopMeansAnswer' BY <2>5, <2>7 DEF StopMeansAnswer
  <2> QED BY <2>7, <2>8, <2>9, <2>10 DEF IInv
<1>3. ASSUME NEW i \in Tsx, TsxTimeout(i) \/ TransportFails(i) PROVE IInv'
  <2>1. PICK code \in {Timeout, TransportError} : LocalEnd(i, code)
    BY <1>3 DEF TsxTimeout, TransportFails
  <2>2. Callback /\ Pending(i) /\ SendCb(i, code, loopStop) /\ heard' = heard
    BY <2>1 DEF LocalEnd
  <2>3. code \notin Challenge /\ code \in Status \ {0}
    BY DEF Timeout, TransportError, Challenge, Status
  <2>4. /\ AuthInv'
        /\ authTries' \in 0..MaxTsx /\ gaveUp' \in BOOLEAN
        /\ sent' \in 0..MaxTsx /\ sent' >= sent
        /\ status' \in [Tsx -> Status]
        /\ loopStop' \in BOOLEAN
        /\ loopStop' <=> (loopStop \/ (gaveUp' /\ ~gaveUp))
        /\ gaveUp => gaveUp'
    BY <2>2, <2>3, SendCbKeeps DEF IInv, TypeOK, EndpointTypeOK
  <2>5. EndpointInv' BY <2>2, <2>4, CallbackInv DEF IInv, TypeOK, EndpointTypeOK
  <2>6. TypeOK' BY <2>4, <2>5 DEF TypeOK, EndpointInv
  <2>7. StopMeansAnswer' BY <2>2, <2>4 DEF IInv, StopMeansAnswer, Answers
  <2> QED BY <2>4, <2>5, <2>6, <2>7 DEF IInv
<1> QED BY <1>1, <1>2, <1>3 DEF Next, vars

\* The invariant holds in every reachable state.
LEMMA SpecIInv == Spec => []IInv
<1> QED BY InitIInv, NextIInv, PTL DEF Spec

-----------------------------------------------------------------------------
(* The properties.                                                         *)

\* Every variable keeps its type, for every set of codes and every bound.
THEOREM TypeCorrect == Spec => []TypeOK
<1> QED BY SpecIInv, PTL DEF IInv

\* The main loop is asked to stop exactly when something other than a challenge
\* was heard or the authentication was declared failed (sippak_loop_cancel in
\* on_rx_response and send_cb).
THEOREM StopIsJustified == Spec => []StopMeansAnswer
<1> QED BY SpecIInv, PTL DEF IInv

\* "Authentication failed" is printed only after two transactions were
\* challenged, whatever is lost, duplicated or reordered (send_cb).
THEOREM FailureIsEarned == Spec => []FailureNeedsTwoChallenges
<1>1. IInv => FailureNeedsTwoChallenges
  <2> SUFFICES ASSUME IInv, gaveUp PROVE FailureNeedsTwoChallenges
    BY DEF FailureNeedsTwoChallenges
  <2>1. 1 \in Tsx /\ 2 \in Tsx BY MaxTsxAssumption DEF Tsx
  <2>2. authTries = 2 BY DEF IInv, AuthInv
  <2>3. status[1] \in Challenge /\ status[2] \in Challenge BY <2>2 DEF IInv, AuthInv
  <2>4. sent = 2
    BY <2>1, <2>3 DEF IInv, AuthInv, TypeOK, EndpointTypeOK, Challenge
  <2> QED BY <2>3, <2>4 DEF FailureNeedsTwoChallenges
<1> QED BY <1>1, SpecIInv, PTL

\* A sippak that sent credentials does not return before it heard about that
\* request, unless a provisional response arrived (main loop and on_rx_response).
THEOREM RetryWaits == Spec => []RetryIsAwaited
<1>1. IInv => RetryIsAwaited
  <2> SUFFICES ASSUME IInv, pc = "exited", sent = 2, \A r \in heard : IsFinal(r.code)
               PROVE  \E r \in heard : r.tsx = 2
    BY DEF RetryIsAwaited
  <2> USE DEF IInv, EndpointInv, EndpointTypeOK
  <2>1. 1 \in Tsx /\ 2 \in Tsx BY MaxTsxAssumption DEF Tsx
  <2>2. CASE gaveUp
    <3>1. status[2] \in Challenge BY <2>2 DEF AuthInv
    <3> QED BY <2>1, <3>1 DEF AuthInv
  <2>3. CASE ~gaveUp
    <3>1. PICK r \in heard : r.code \notin Challenge
      BY <2>3 DEF ControlInv, StopMeansAnswer, Answers
    <3>2. r \in net /\ r.tsx \in 1..2 BY <3>1 DEF NetInv, Response, Tsx
    <3>3. r.tsx # 1
      <4>1. SUFFICES ASSUME r.tsx = 1 PROVE FALSE OBVIOUS
      <4>2. status[1] \in Challenge /\ [tsx |-> 1, code |-> status[1]] \in heard
        BY <2>1 DEF AuthInv
      <4>3. r.code = status[1] BY <3>1, <3>2, <4>1, <4>2 DEF NetInv
      <4> QED BY <3>1, <4>2, <4>3
    <3> QED BY <3>1, <3>2, <3>3
  <2> QED BY <2>2, <2>3
<1> QED BY <1>1, SpecIInv, PTL

\* What a call of send_cb may start: nothing, or the one repetition.
LEMMA SendCbRetries ==
    ASSUME IInv, NEW i \in Tsx, NEW code, NEW stopped,
           Pending(i), SendCb(i, code, stopped), sent' # sent
    PROVE  sent = 1 /\ sent' = 2 /\ status'[1] \in Challenge
<1> USE MaxTsxAssumption
<1>1. code \in Challenge BY DEF SendCb
<1>2. ~GivesUp(authTries + 1) BY <1>1 DEF SendCb, GiveUp
<1>3. sent' = sent + 1 BY <1>1, <1>2 DEF SendCb, Resend
<1>4. i = 1 /\ sent = 1
  BY <1>2 DEF Pending, GivesUp, IInv, AuthInv, TypeOK, EndpointTypeOK, Tsx, Challenge
<1>5. status' = [status EXCEPT ![i] = code] BY DEF SendCb, EndTsx
<1>6. status \in [Tsx -> Status] BY DEF IInv, TypeOK, EndpointTypeOK
<1> QED BY <1>1, <1>3, <1>4, <1>5, <1>6

\* At most one repetition, and only as the answer to a challenge (send_cb).
THEOREM OneRetry == Spec => OnlyChallengeStartsRetry
<1> DEFINE A == sent' # sent =>
                  \/ pc = "setup" /\ sent' = 1
                  \/ sent = 1 /\ sent' = 2 /\ status'[1] \in Challenge
<1>1. IInv /\ [Next]_vars => [A]_vars
  <2> SUFFICES ASSUME IInv, Next, sent' # sent PROVE A OBVIOUS
  <2>1. CASE EndpointNext BY <2>1, EndpointNextFrame DEF IInv
  <2>2. ASSUME NEW r \in Response, Deliver(r) PROVE A
    <3>1. Pending(r.tsx) /\ \E stopped : SendCb(r.tsx, r.code, stopped)
      BY <2>2 DEF Deliver, EndsTsx, tsxs
    <3>2. r.tsx \in Tsx BY <2>2 DEF Response
    <3> QED BY <3>1, <3>2, SendCbRetries
  <2>3. ASSUME NEW i \in Tsx, NEW code, LocalEnd(i, code) PROVE A
    <3>1. Pending(i) /\ SendCb(i, code, loopStop) BY <2>3 DEF LocalEnd
    <3> QED BY <3>1, SendCbRetries
  <2> QED BY <2>1, <2>2, <2>3 DEF Next, TsxTimeout, TransportFails
<1>2. Spec => [][A]_vars BY <1>1, SpecIInv, PTL DEF Spec
<1> QED BY <1>2 DEF OnlyChallengeStartsRetry

-----------------------------------------------------------------------------
(* Refinement.                                                             *)

\* PING, NOTIFY, MESSAGE and REFER keep the promise of OneShot: every step is one
\* of its steps or changes nothing it shows.
THEOREM RequestIsOneShot == Spec => ImplementsOneShot
<1> USE DEF Abstract!Next, Abstract!vars, Abstract!SetupFails, Abstract!Send, Abstract!Retry,
            Abstract!Answer, Abstract!AuthFails, Abstract!Quit
<1>1. Init => Abstract!Init
  BY Zenon DEF Init, EndpointInit, Abstract!Init, phase, said, Answers
<1>2. IInv /\ IInv' /\ [Next]_vars => [Abstract!Next]_Abstract!vars
  <2> SUFFICES ASSUME IInv, IInv', [Next]_vars PROVE [Abstract!Next]_Abstract!vars
    OBVIOUS
  <2>1. CASE EndpointNext /\ UNCHANGED own
    <3>1. CASE SetupStep
      BY <2>1, <3>1 DEF SetupStep, tsxs, own, phase, said, Answers
    <3>2. CASE SetupFails
      BY <2>1, <3>2 DEF SetupFails, tsxs, own, phase, said, Answers
    <3>3. CASE SendRequest
      BY <2>1, <3>3 DEF SendRequest, own, phase, said, Answers
    <3>4. CASE LoopTest
      <4>1. UNCHANGED <<said, sent>> /\ phase = "waiting"
        BY <2>1, <3>4 DEF LoopTest, tsxs, own, said, Answers, phase
      <4>2. CASE loopStop
        <5>1. phase' = "ended" BY <3>4, <4>2 DEF LoopTest, phase
        <5>2. said # {} BY <4>2 DEF IInv, StopMeansAnswer, said
        <5> QED BY <4>1, <5>1, <5>2
      <4>3. CASE ~loopStop
        <5>1. phase' = "waiting" BY <3>4, <4>3 DEF LoopTest, phase
        <5> QED BY <4>1, <5>1
      <4> QED BY <4>2, <4>3
    <3>5. CASE PollReturns
      BY <2>1, <3>5 DEF PollReturns, tsxs, own, phase, said, Answers
    <3>6. CASE Terminated
      BY <2>1, <3>6 DEF Terminated, endpoint, own, phase, said, Answers
    <3>7. ASSUME NEW r \in Response, UasRespond(r) PROVE [Abstract!Next]_Abstract!vars
      BY <2>1, <3>7 DEF UasRespond, program, tsxs, own, phase, said, Answers
    <3> QED BY <2>1, <3>1, <3>2, <3>3, <3>4, <3>5, <3>6, <3>7 DEF EndpointNext
  <2>2. ASSUME NEW r \in Response, Deliver(r) PROVE [Abstract!Next]_Abstract!vars
    <3>1. pc = "poll" /\ pc' = pc /\ heard' = heard \cup {r}
      BY <2>2 DEF Deliver, Arrive, Callback
    <3>2. phase = "waiting" /\ phase' = "waiting" BY <3>1 DEF phase
    <3>3. CASE r.code \notin Challenge
      <4>1. UNCHANGED <<sent, gaveUp>> BY <2>2, <3>3 DEF Deliver, SendCb, tsxs, own
      <4>2. Answers' # {} BY <3>1, <3>3 DEF Answers
      <4>3. said' = said \cup {"answered"} BY <4>1, <4>2 DEF said
      <4> QED BY <3>2, <4>1, <4>3
    <3>4. CASE r.code \in Challenge
      <4>1. Answers' = Answers BY <3>1, <3>4 DEF Answers
      <4>2. CASE sent' = sent
        <5>1. CASE gaveUp' = gaveUp BY <3>2, <4>1, <4>2, <5>1 DEF said
        <5>2. CASE gaveUp' # gaveUp
          <6>1. gaveUp' = TRUE BY <2>2, <5>2 DEF Deliver, SendCb, GiveUp, Resend, own
          <6>2. said' = said \cup {"authFailed"} BY <4>1, <6>1 DEF said
          <6>3. sent = 2
            <7>1. 1 \in Tsx /\ 2 \in Tsx BY MaxTsxAssumption DEF Tsx
            <7>2. authTries' = 2 BY <6>1 DEF IInv, AuthInv
            <7>3. status'[1] \in Challenge /\ status'[2] \in Challenge
              BY <7>2 DEF IInv, AuthInv
            <7> QED BY <4>2, <7>1, <7>3 DEF IInv, AuthInv, TypeOK, EndpointTypeOK, Challenge
          <6> QED BY <3>2, <4>2, <6>2, <6>3
        <5> QED BY <5>1, <5>2
      <4>3. CASE sent' # sent
        <5>1. Pending(r.tsx) /\ \E stopped : SendCb(r.tsx, r.code, stopped)
          BY <2>2, <4>3 DEF Deliver, EndsTsx, tsxs
        <5>2. sent = 1 /\ sent' = 2 BY <2>2, <4>3, <5>1, SendCbRetries DEF Response
        <5>3. gaveUp' = gaveUp BY <4>3, <5>1 DEF SendCb, GiveUp, Resend
        <5>4. said' = said BY <4>1, <5>3 DEF said
        <5> QED BY <3>2, <5>2, <5>4
      <4> QED BY <4>2, <4>3
    <3> QED BY <3>3, <3>4
  <2>3. ASSUME NEW i \in Tsx, TsxTimeout(i) \/ TransportFails(i)
        PROVE  [Abstract!Next]_Abstract!vars
    <3>1. UNCHANGED <<pc, heard, sent, gaveUp>>
      BY <2>3 DEF TsxTimeout, TransportFails, LocalEnd, Callback, SendCb, Challenge,
                  Timeout, TransportError
    <3> QED BY <3>1 DEF phase, said, Answers
  <2>4. CASE UNCHANGED vars
    BY <2>4 DEF vars, endpoint, own, phase, said, Answers
  <2> QED BY <2>1, <2>2, <2>3, <2>4 DEF Next
<1>3. Abstract!Init /\ [][Abstract!Next]_Abstract!vars => Abstract!Spec
  BY DEF Abstract!Spec
<1> QED BY <1>1, <1>2, <1>3, SpecIInv, PTL DEF Spec, ImplementsOneShot, Abstract!Spec

=============================================================================
