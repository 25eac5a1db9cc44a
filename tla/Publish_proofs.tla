--------------------------- MODULE Publish_proofs ---------------------------
(***************************************************************************)
(* What TLAPS proves about Publish, for every set of status codes, every   *)
(* bound and every width of the counter.                                   *)
(***************************************************************************)
EXTENDS Publish, Endpoint_proofs

-----------------------------------------------------------------------------
(* The inductive invariant.                                                *)

\* Transactions follow one another: each but the last was challenged, and the
\* challenge came from the network.
ChainInv ==
    /\ \A i \in Tsx : i > sent => status[i] = 0
    /\ \A i \in Tsx : i < sent => status[i] \in Challenge
    /\ \A i \in Tsx : status[i] \in Challenge => [tsx |-> i, code |-> status[i]] \in heard

\* The end of the last transaction was reported: any other end starts the next one.
EndedInv == \A i \in Tsx : i = sent /\ status[i] # 0 => reported # 0

\* As long as only final answers to the first request were heard, there is at
\* most one over TCP, and it was counted once.
CountInv ==
    (proto = "tcp" /\ \A r \in heard : IsFinal(r.code) /\ r.tsx = 1)
        => authTries = IF heard = {} THEN 0 ELSE 1

IInv ==
    /\ EndpointInv
    /\ TypeOK
    /\ ChainInv
    /\ CountInv
    /\ StopMeansVerdict
    /\ ReportIsLatest
    /\ EndedInv
    /\ AnswerIsHeeded
    /\ FailureIsEarnedOverTcp

-----------------------------------------------------------------------------

\* The command starts in the invariant.
LEMMA InitIInv == Init => IInv
<1> SUFFICES ASSUME Init PROVE IInv OBVIOUS
<1> USE TriesRangeAssumption DEF Init
<1>1. EndpointInv BY EndpointInitInv DEF Commands
<1>2. TypeOK
  <2>1. authTries \in 0..TriesRange - 1 OBVIOUS
  <2>2. gaveUp \in BOOLEAN BY Zenon
  <2>3. reported \in Status BY DEF Status
  <2> QED BY <1>1, <2>1, <2>2, <2>3 DEF TypeOK, EndpointInv
<1>3. ChainInv BY DEF ChainInv, EndpointInit, Tsx, Challenge
<1>4. CountInv BY DEF CountInv, EndpointInit
<1>5. StopMeansVerdict BY DEF StopMeansVerdict, EndpointInit
<1>6. ReportIsLatest /\ FailureIsEarnedOverTcp BY DEF ReportIsLatest, FailureIsEarnedOverTcp
<1>7. EndedInv BY DEF EndedInv, EndpointInit
<1>8. AnswerIsHeeded BY DEF AnswerIsHeeded, EndpointInit
<1> QED BY <1>1, <1>2, <1>3, <1>4, <1>5, <1>6, <1>7, <1>8 DEF IInv

\* The publish client at the end of a transaction, which is the last one.
LEMMA ClientEndsKeeps ==
    ASSUME IInv, NEW i \in Tsx, NEW code \in Status \ {0},
           Pending(i), ClientEnds(i, code),
           heard \subseteq heard',
           code \in Challenge => [tsx |-> i, code |-> code] \in heard'
    PROVE  /\ ChainInv'
           /\ ReportIsLatest'
           /\ EndedInv'
           /\ reported' # 0 \/ sent' = sent + 1
           /\ loopStop => loopStop'
           /\ reported' \in Status /\ loopStop' \in BOOLEAN
           /\ loopStop' <=> (reported' # 0 \/ gaveUp)
           /\ sent' \in 0..MaxTsx /\ sent' >= sent
           /\ sent' = sent \/ sent' = sent + 1
           /\ status' \in [Tsx -> Status]
<1> USE MaxTsxAssumption DEF IInv, ChainInv, ReportIsLatest, EndedInv, StopMeansVerdict,
                             TypeOK, EndpointTypeOK, Tsx, Challenge
<1>1. i = sent /\ status[i] = 0 /\ code # 0 BY DEF Pending
<1>2. reported = 0 BY <1>1
<1>3. status' = [status EXCEPT ![i] = code] /\ status' \in [Tsx -> Status]
  BY DEF ClientEnds, EndTsx
<1>4. CASE PublishCb(code)
  <2>1. reported' = code /\ loopStop' = TRUE /\ sent' = sent BY <1>4 DEF PublishCb
  <2> QED BY <1>1, <1>3, <2>1
<1>5. CASE code \in Challenge /\ sent < MaxTsx /\ sent' = sent + 1 /\ UNCHANGED <<reported, loopStop>>
  BY <1>1, <1>2, <1>3, <1>5
<1> QED BY <1>4, <1>5 DEF ClientEnds

\* Over TCP a final answer to the first request that was not heard before is
\* the first response of all, provisional ones apart.
LEMMA FirstAnswer ==
    ASSUME IInv, NEW r \in net, r \notin heard, r.tsx = 1, IsFinal(r.code),
           \A q \in heard : IsFinal(q.code)
    PROVE  heard = {}
<1> USE MaxTsxAssumption DEF IInv, EndpointInv, EndpointTypeOK
<1>1. 1 \in Tsx /\ r = [tsx |-> 1, code |-> r.code] BY DEF Tsx, Response
<1>2. \A q \in heard : q.tsx # 1
  <2> SUFFICES ASSUME NEW q \in heard, q.tsx = 1 PROVE FALSE OBVIOUS
  <2>1. q = [tsx |-> 1, code |-> q.code] BY DEF Response
  <2>2. q.code = r.code BY DEF NetInv
  <2> QED BY <1>1, <2>1, <2>2
<1>3. status[1] \notin Challenge BY <1>1, <1>2 DEF ChainInv
<1>4. sent <= 1 BY <1>1, <1>3 DEF ChainInv, Tsx
<1>5. \A q \in heard : q.tsx \in Tsx /\ q.tsx <= sent BY DEF NetInv, Response
<1> QED BY <1>2, <1>4, <1>5 DEF Tsx

\* Every step of the command keeps the invariant.
LEMMA NextIInv == IInv /\ [Next]_vars => IInv'
<1> SUFFICES ASSUME IInv, [Next]_vars PROVE IInv' OBVIOUS
<1> USE MaxTsxAssumption, TriesRangeAssumption
<1>1. ASSUME [EndpointNext]_endpoint, UNCHANGED own PROVE IInv'
  <2>1. EndpointInv' BY <1>1, EndpointNextInv DEF IInv
  <2>2. /\ UNCHANGED <<loopStop, status, heard, authTries, gaveUp, reported>>
        /\ sent' = sent \/ (sent = 0 /\ sent' = 1)
    BY <1>1, EndpointNextFrame DEF IInv, own
  <2>3. proto' = proto
    BY <1>1 DEF EndpointNext, SetupStep, SetupFails, SendRequest, LoopTest, PollReturns,
                UasRespond, Terminated, endpoint, program, config
  <2>4. TypeOK' BY <2>1, <2>2 DEF IInv, TypeOK, EndpointInv
  <2>5. ChainInv' BY <2>2 DEF IInv, ChainInv, Tsx
  <2>6. CountInv' BY <2>2, <2>3 DEF IInv, CountInv
  <2>7. StopMeansVerdict' BY <2>2 DEF IInv, StopMeansVerdict
  <2>8. ReportIsLatest'
    <3>1. CASE sent' = sent BY <2>2, <3>1 DEF IInv, ReportIsLatest
    <3>2. CASE sent = 0 /\ sent' = 1
      <4>1. pc = "setup" BY <3>2, <1>1, EndpointNextFrame DEF IInv
      <4>2. ~loopStop BY <4>1 DEF IInv, EndpointInv, ControlInv
      <4> QED BY <2>2, <4>2 DEF IInv, ReportIsLatest, StopMeansVerdict
    <3> QED BY <2>2, <3>1, <3>2
  <2>9. FailureIsEarnedOverTcp'
    BY <2>2, <2>3 DEF IInv, FailureIsEarnedOverTcp, CredentialsRefused
  <2>10. EndedInv'
    BY <2>2 DEF IInv, EndedInv, ChainInv, TypeOK, EndpointTypeOK, Tsx
  <2>11. AnswerIsHeeded'
    BY <2>2 DEF IInv, AnswerIsHeeded, EndpointInv, NetInv, TypeOK, EndpointTypeOK, Response, Tsx
  <2> QED BY <2>1, <2>4, <2>5, <2>6, <2>7, <2>8, <2>9, <2>10, <2>11 DEF IInv
<1>2. ASSUME NEW r \in Response, Deliver(r) PROVE IInv'
  <2>1. /\ Callback /\ r \in net /\ heard' = heard \cup {r} /\ proto' = proto
        /\ proto = "tcp" => r \notin heard
        /\ authTries' = (authTries + 1) % TriesRange
    BY <1>2 DEF Deliver, Arrive, Callback, config
  <2>2. heard \subseteq heard' /\ heard' \subseteq net /\ authTries' \in 0..TriesRange - 1
    BY <2>1 DEF IInv, TypeOK, EndpointTypeOK
  <2>3. r.tsx \in Tsx /\ r.code \in Status \ {0} /\ r = [tsx |-> r.tsx, code |-> r.code]
    BY CodesAssumption DEF Response, Status
  <2>4. /\ ChainInv' /\ ReportIsLatest' /\ EndedInv'
        /\ EndsTsx(r) => loopStop' \/ sent' = sent + 1
        /\ sent' = sent \/ sent' = sent + 1
        /\ loopStop => loopStop'
        /\ reported' \in Status /\ loopStop' \in BOOLEAN /\ gaveUp' \in BOOLEAN
        /\ loopStop' <=> (reported' # 0 \/ gaveUp')
        /\ sent' \in 0..MaxTsx /\ sent' >= sent
        /\ status' \in [Tsx -> Status]
        /\ gaveUp' => gaveUp \/ Refuses(authTries', r.code)
    <3>1. CASE Refuses(authTries', r.code)
      <4>1. gaveUp' = TRUE /\ loopStop' = TRUE /\ UNCHANGED <<reported, sent, status>>
        BY <1>2, <3>1 DEF Deliver, GiveUp, tsxs
      <4>2. gaveUp' \in BOOLEAN /\ loopStop' \in BOOLEAN BY <4>1, Zenon
      <4>3. loopStop' /\ gaveUp' /\ (loopStop' <=> (reported' # 0 \/ gaveUp')) BY <4>1, Zenon
      <4> QED BY <2>2, <3>1, <4>1, <4>2, <4>3
          DEF IInv, ChainInv, ReportIsLatest, EndedInv, TypeOK, EndpointTypeOK
    <3>2. CASE ~Refuses(authTries', r.code) /\ EndsTsx(r)
      <4>1. ClientEnds(r.tsx, r.code) /\ Pending(r.tsx) /\ gaveUp' = gaveUp
        BY <1>2, <3>2 DEF Deliver, EndsTsx
      <4>2. r \in heard' BY <2>1
      <4> QED BY <2>2, <2>3, <4>1, <4>2, ClientEndsKeeps DEF IInv, TypeOK
    <3>3. CASE ~Refuses(authTries', r.code) /\ ~EndsTsx(r)
      <4>1. UNCHANGED <<gaveUp, loopStop, reported, sent, status>>
        BY <1>2, <3>3 DEF Deliver, tsxs
      <4> QED BY <2>2, <3>3, <4>1
          DEF IInv, ChainInv, ReportIsLatest, EndedInv, StopMeansVerdict, TypeOK, EndpointTypeOK
    <3> QED BY <3>1, <3>2, <3>3
  <2>5. EndpointInv' BY <2>1, <2>2, <2>4, CallbackInv DEF IInv
  <2>6. TypeOK' BY <2>2, <2>4, <2>5 DEF TypeOK, EndpointInv
  <2>7. ASSUME proto = "tcp", IsFinal(r.code), r.tsx = 1, \A q \in heard : IsFinal(q.code)
        PROVE  authTries' = 1
    <3>1. heard = {} BY <2>1, <2>7, FirstAnswer
    <3>2. authTries = 0 BY <2>7, <3>1 DEF IInv, CountInv
    <3> QED BY <2>1, <3>2
  <2>8. CountInv' BY <2>1, <2>7 DEF CountInv
  <2>9. FailureIsEarnedOverTcp'
    <3> SUFFICES ASSUME gaveUp', proto = "tcp", \A q \in heard' : IsFinal(q.code)
                 PROVE  CredentialsRefused'
      BY <2>1 DEF FailureIsEarnedOverTcp
    <3>1. CASE gaveUp
      <4>1. CredentialsRefused BY <2>1, <3>1 DEF IInv, FailureIsEarnedOverTcp
      <4>2. sent \in Nat /\ sent' \in Nat /\ sent' >= sent
        BY <2>4 DEF IInv, TypeOK, EndpointTypeOK
      <4> QED BY <2>1, <4>1, <4>2 DEF CredentialsRefused
    <3>2. CASE ~gaveUp
      <4>1. r.code \in Challenge /\ authTries' > 1 BY <2>4, <3>2 DEF Refuses
      <4>2. r.tsx # 1 BY <2>1, <2>7, <4>1
      <4>3. r.tsx >= 2 /\ r.tsx <= sent
        BY <2>1, <2>3, <4>2 DEF Tsx, IInv, EndpointInv, NetInv
      <4>4. sent' >= 2
        BY <2>3, <2>4, <4>3 DEF IInv, TypeOK, EndpointTypeOK, Tsx
      <4> QED BY <2>1, <4>1, <4>3, <4>4 DEF CredentialsRefused
    <3> QED BY <3>1, <3>2
  <2>10. StopMeansVerdict' BY <2>4 DEF StopMeansVerdict
  <2>11. AnswerIsHeeded'
    <3> SUFFICES ASSUME NEW q \in heard', q.tsx = sent', IsFinal(q.code) PROVE loopStop'
      BY DEF AnswerIsHeeded
    <3>1. sent' = sent
      <4>1. q.tsx \in Tsx /\ q.tsx <= sent BY <2>1, <2>2 DEF IInv, EndpointInv, EndpointTypeOK, NetInv, Response
      <4> QED BY <2>4, <4>1 DEF IInv, TypeOK, EndpointTypeOK, Tsx
    <3>2. CASE q \in heard BY <2>4, <3>1, <3>2 DEF IInv, AnswerIsHeeded
    <3>3. CASE q = r
      <4>1. sent \in Nat BY DEF IInv, TypeOK, EndpointTypeOK
      <4>2. CASE EndsTsx(r) BY <2>4, <3>1, <4>1, <4>2
      <4>3. CASE ~EndsTsx(r)
        <5>1. status[sent] # 0 BY <2>3, <3>1, <3>3, <4>1, <4>3 DEF EndsTsx, Pending
        <5>2. loopStop BY <2>3, <3>1, <3>3, <5>1 DEF IInv, EndedInv, StopMeansVerdict
        <5> QED BY <2>4, <5>2
      <4> QED BY <4>2, <4>3
    <3> QED BY <2>1, <3>2, <3>3
  <2> QED BY <2>4, <2>5, <2>6, <2>8, <2>9, <2>10, <2>11 DEF IInv
<1>3. ASSUME NEW i \in Tsx, TsxTimeout(i) \/ TransportFails(i) PROVE IInv'
  <2>1. PICK code \in {Timeout, TransportError} : LocalEnd(i, code)
    BY <1>3 DEF TsxTimeout, TransportFails
  <2>2. /\ Callback /\ Pending(i) /\ ClientEnds(i, code) /\ proto' = proto
        /\ UNCHANGED <<authTries, gaveUp, heard>>
    BY <2>1 DEF LocalEnd, Callback, config
  <2>3. code \notin Challenge /\ code \in Status \ {0}
    BY DEF Timeout, TransportError, Challenge, Status
  <2>4. /\ ChainInv' /\ ReportIsLatest' /\ EndedInv'
        /\ reported' # 0 \/ sent' = sent + 1
        /\ sent' = sent \/ sent' = sent + 1
        /\ reported' \in Status /\ loopStop' \in BOOLEAN
        /\ loopStop' <=> (reported' # 0 \/ gaveUp)
        /\ sent' \in 0..MaxTsx /\ sent' >= sent
        /\ status' \in [Tsx -> Status]
    BY <2>2, <2>3, ClientEndsKeeps
  <2>5. EndpointInv' BY <2>2, <2>4, CallbackInv DEF IInv, TypeOK, EndpointTypeOK
  <2>6. TypeOK' BY <2>2, <2>4, <2>5 DEF IInv, TypeOK, EndpointInv
  <2>7. CountInv' BY <2>2 DEF IInv, CountInv
  <2>8. StopMeansVerdict' BY <2>2, <2>4 DEF StopMeansVerdict
  <2>9. FailureIsEarnedOverTcp'
    BY <2>2, <2>4 DEF IInv, FailureIsEarnedOverTcp, CredentialsRefused, TypeOK, EndpointTypeOK
  <2>10. AnswerIsHeeded'
    <3> SUFFICES ASSUME NEW q \in heard, q.tsx = sent' PROVE loopStop'
      BY <2>2 DEF AnswerIsHeeded
    <3>1. q.tsx \in Tsx /\ q.tsx <= sent /\ sent \in Nat
      BY DEF IInv, TypeOK, EndpointTypeOK, EndpointInv, NetInv, Response
    <3>2. sent' # sent + 1 BY <3>1 DEF Tsx
    <3> QED BY <2>4, <3>2
  <2> QED BY <2>4, <2>5, <2>6, <2>7, <2>8, <2>9, <2>10 DEF IInv
<1> QED BY <1>1, <1>2, <1>3 DEF Next, vars

\* The invariant holds in every reachable state.
LEMMA SpecIInv == Spec => []IInv
<1> QED BY InitIInv, NextIInv, PTL DEF Spec

-----------------------------------------------------------------------------
(* The properties.                                                         *)

\* Every variable keeps its type, the counter its width.
THEOREM TypeCorrect == Spec => []TypeOK
<1> QED BY SpecIInv, PTL DEF IInv

\* The main loop is asked to stop exactly when publish_cb was given a status or
\* on_rx_response declared the authentication failed.
THEOREM StopIsJustified == Spec => []StopMeansVerdict
<1> QED BY SpecIInv, PTL DEF IInv

\* publish_cb reports the status of the last PUBLISH sent, whatever late copies
\* of earlier answers arrive.
THEOREM ReportIsTrue == Spec => []ReportIsLatest
<1> QED BY SpecIInv, PTL DEF IInv

\* No final answer to the last PUBLISH is lost between mod_publish and the publish
\* client, whatever the counter of responses has come to, for every width of it:
\* once one was heard the main loop is asked to stop.
THEOREM AnswersAreHeeded == Spec => []AnswerIsHeeded
<1> QED BY SpecIInv, PTL DEF IInv

\* Over TCP and without provisional responses, the first challenge is never
\* taken for a refusal (on_rx_response).
THEOREM FailureIsJustified == Spec => []FailureIsEarnedOverTcp
<1> QED BY SpecIInv, PTL DEF IInv

=============================================================================
