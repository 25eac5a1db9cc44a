--------------------------- MODULE Invite_proofs ---------------------------
(***************************************************************************)
(* What TLAPS proves about Invite, for every set of status codes and every *)
(* bound.                                                                  *)
(***************************************************************************)
EXTENDS Invite, Endpoint_proofs

-----------------------------------------------------------------------------
(* The inductive invariant.                                                *)

IsInvite(i) == method[i] = "INVITE"

HungUp == remoteBye \/ \E j \in Tsx : method[j] = "BYE"

\* A status was made up at the end of its transaction, or came from the network.
StatusInv ==
    \A i \in Tsx :
        /\ method[i] = "none" => status[i] = 0
        /\ \/ status[i] \in {0, Timeout, TransportError}
           \/ \E r \in heard : r.tsx = i /\ r.code = status[i] /\ IsFinal(r.code)

PlausibleInv == \A r \in net : Plausible(r)

\* One INVITE at a time, and none once the call stands or is over.
OpenInv ==
    \A i \in Tsx : IsInvite(i) /\ status[i] = 0 =>
        /\ inv \in {"calling", "early"}
        /\ \A j \in Tsx : IsInvite(j) /\ status[j] = 0 => j = i

\* An INVITE that failed for good ended the call.
FailInv ==
    \A i \in Tsx : IsInvite(i) /\ status[i] \notin Success \cup Challenge \cup {0} =>
        inv = "disconnected"

\* One that was answered made it stand, until one side hung up.
SuccessInv ==
    \A i \in Tsx : IsInvite(i) /\ status[i] \in Success =>
        /\ i \in acked
        /\ inv \in {"confirmed", "disconnected"}
        /\ inv = "disconnected" => HungUp

ByeInv == \A i \in Tsx : method[i] = "BYE" => inv \in {"confirmed", "disconnected"}

CallInv == OpenInv /\ FailInv /\ SuccessInv /\ ByeInv

IInv ==
    /\ EndpointInv
    /\ TypeOK
    /\ StatusInv
    /\ PlausibleInv
    /\ CallInv
    /\ StopMeansOver

-----------------------------------------------------------------------------
(* Transactions.                                                           *)

Method == {"INVITE", "CANCEL", "BYE"}

\* At most one transaction is started, in the first free place.
Starts(m) ==
    \/ UNCHANGED <<sent, method>>
    \/ /\ sent < MaxTsx
       /\ sent' = sent + 1
       /\ method' = [method EXCEPT ![sent + 1] = m]

LEMMA TsxFacts ==
    ASSUME IInv
    PROVE  /\ sent \in 0..MaxTsx /\ MaxTsx \in Nat
           /\ status \in [Tsx -> Status]
           /\ method \in [Tsx -> Method \cup {"none"}]
           /\ \A i \in Tsx : i \in Nat /\ i >= 1
           /\ \A i \in Tsx : method[i] = "none" <=> i > sent
           /\ heard \subseteq net /\ net \subseteq Response
           /\ inv \in {"null", "calling", "early", "confirmed", "disconnected"}
BY MaxTsxAssumption DEF IInv, TypeOK, EndpointTypeOK, Tsx, Method

\* What a transaction that was there carries stays, and what is new is m.
LEMMA StartsFacts ==
    ASSUME IInv, NEW m \in Method, Starts(m)
    PROVE  /\ sent' \in 0..MaxTsx /\ sent' >= sent
           /\ method' \in [Tsx -> Method \cup {"none"}]
           /\ \A i \in Tsx : method'[i] = "none" <=> i > sent'
           /\ \A i \in Tsx : method[i] # "none" => method'[i] = method[i]
           /\ \A i \in Tsx : method'[i] # method[i] =>
                  method[i] = "none" /\ method'[i] = m /\ i = sent + 1
<1>1. CASE UNCHANGED <<sent, method>> BY <1>1, TsxFacts
<1>2. CASE ~UNCHANGED <<sent, method>>
  <2>1. sent < MaxTsx /\ sent' = sent + 1 /\ method' = [method EXCEPT ![sent + 1] = m]
    BY <1>2 DEF Starts
  <2>2. sent + 1 \in Tsx BY <2>1, TsxFacts DEF Tsx
  <2>3. method[sent + 1] = "none" BY <2>1, <2>2, TsxFacts
  <2>4. m # "none" BY DEF Method
  <2> QED BY <2>1, <2>2, <2>3, <2>4, TsxFacts
<1> QED BY <1>1, <1>2

\* The parts of the invariant that only need to know what kinds of things change.
LEMMA FrameKept ==
    ASSUME IInv, Callback, NEW m \in Method, Starts(m),
           heard' \subseteq net, loopStop' \in BOOLEAN,
           inv' \in {"null", "calling", "early", "confirmed", "disconnected"},
           status' \in [Tsx -> Status], acked' \subseteq Tsx,
           earlyCancel' = earlyCancel, remoteBye' \in BOOLEAN
    PROVE  EndpointInv' /\ TypeOK' /\ PlausibleInv'
<1>1. EndpointInv' BY StartsFacts, CallbackInv DEF IInv
<1>2. TypeOK'
  <2>1. earlyCancel' \in BOOLEAN BY Zenon DEF IInv, TypeOK
  <2>2. method' \in [Tsx -> {"none", "INVITE", "CANCEL", "BYE"}] BY StartsFacts DEF Method
  <2>3. \A i \in Tsx : method'[i] = "none" <=> i > sent' BY StartsFacts
  <2> QED BY <1>1, <2>1, <2>2, <2>3 DEF TypeOK, EndpointInv
<1>3. PlausibleInv'
  <2>1. net' = net BY DEF Callback
  <2> SUFFICES ASSUME NEW r \in net PROVE Plausible(r)' BY <2>1 DEF PlausibleInv
  <2>2. Plausible(r) BY DEF IInv, PlausibleInv
  <2>3. r.tsx \in Tsx BY TsxFacts DEF Response
  <2>4. method[r.tsx] # "none" BY <2>2 DEF Plausible
  <2>5. method'[r.tsx] = method[r.tsx] BY <2>3, <2>4, StartsFacts
  <2> QED BY <2>2, <2>5 DEF Plausible
<1> QED BY <1>1, <1>2, <1>3

\* A transaction that ends keeps the statuses accounted for.
LEMMA StatusKept ==
    ASSUME IInv, NEW m \in Method, Starts(m), heard \subseteq heard',
           NEW i \in Tsx, NEW code, method[i] # "none",
           status' = [status EXCEPT ![i] = code],
           \/ code \in {Timeout, TransportError}
           \/ \E r \in heard' : r.tsx = i /\ r.code = code /\ IsFinal(r.code)
    PROVE  StatusInv'
<1> SUFFICES ASSUME NEW j \in Tsx
             PROVE  /\ method'[j] = "none" => status'[j] = 0
                    /\ \/ status'[j] \in {0, Timeout, TransportError}
                       \/ \E r \in heard' : r.tsx = j /\ r.code = status'[j] /\ IsFinal(r.code)
  BY DEF StatusInv
<1>1. CASE j = i BY <1>1, TsxFacts, StartsFacts
<1>2. CASE j # i
  <2>1. status'[j] = status[j] BY <1>2, TsxFacts
  <2>2. method'[j] = "none" => method[j] = "none" BY StartsFacts
  <2> QED BY <2>1, <2>2 DEF IInv, StatusInv
<1> QED BY <1>1, <1>2

-----------------------------------------------------------------------------
(* What each kind of step does to the call.                                *)

\* Nothing happens to the call.
LEMMA IgnoredKeeps ==
    ASSUME IInv, UNCHANGED <<sent, method, inv, remoteBye>>,
           acked \subseteq acked',
           \A i \in Tsx : status'[i] # status[i] =>
               ~IsInvite(i) \/ (status'[i] \notin Success \cup Challenge \cup {0} /\ inv = "disconnected")
    PROVE  CallInv'
<1>1. OpenInv'
  <2>1. \A i \in Tsx : IsInvite(i) /\ status'[i] = 0 => status[i] = 0 OBVIOUS
  <2> QED BY <2>1 DEF IInv, CallInv, OpenInv, IsInvite
<1>2. FailInv' BY DEF IInv, CallInv, FailInv, IsInvite
<1>3. SuccessInv'
  <2>1. \A i \in Tsx : IsInvite(i) /\ status'[i] \in Success => status[i] \in Success OBVIOUS
  <2> QED BY <2>1 DEF IInv, CallInv, SuccessInv, IsInvite, HungUp
<1>4. ByeInv' BY DEF IInv, CallInv, ByeInv
<1> QED BY <1>1, <1>2, <1>3, <1>4 DEF CallInv

\* The call is over: its INVITE failed, or it stood and one side hung up.
LEMMA OverKeeps ==
    ASSUME IInv, UNCHANGED <<sent, method>>,
           acked \subseteq acked', inv' = "disconnected",
           remoteBye => remoteBye',
           \A i \in Tsx : IsInvite(i) => status'[i] # 0,
           \A i \in Tsx : status'[i] # status[i] => ~IsInvite(i) \/ status'[i] \notin Success,
           (\E i \in Tsx : IsInvite(i) /\ status[i] \in Success) => HungUp'
    PROVE  CallInv'
<1>1. OpenInv' BY DEF OpenInv, IsInvite
<1>2. FailInv' BY DEF FailInv
<1>3. SuccessInv'
  <2>1. \A i \in Tsx : IsInvite(i) /\ status'[i] \in Success => status[i] \in Success OBVIOUS
  <2>2. \A i \in Tsx : IsInvite(i) /\ status[i] \in Success => i \in acked
    BY DEF IInv, CallInv, SuccessInv
  <2> QED BY <2>1, <2>2 DEF SuccessInv, IsInvite
<1>4. ByeInv' BY DEF ByeInv
<1> QED BY <1>1, <1>2, <1>3, <1>4 DEF CallInv

\* While an INVITE is open none failed or succeeded, and there is no BYE.
LEMMA OpenFacts ==
    ASSUME IInv, NEW i \in Tsx, IsInvite(i), status[i] = 0
    PROVE  /\ inv \in {"calling", "early"}
           /\ \A j \in Tsx : IsInvite(j) => j = i \/ status[j] \in Challenge
           /\ \A j \in Tsx : method[j] # "BYE"
<1>1. inv \in {"calling", "early"} /\ \A j \in Tsx : IsInvite(j) /\ status[j] = 0 => j = i
  BY DEF IInv, CallInv, OpenInv
<1>2. \A j \in Tsx : IsInvite(j) => status[j] \notin Success
  BY <1>1 DEF IInv, CallInv, SuccessInv
<1>3. \A j \in Tsx : IsInvite(j) => status[j] \in Success \cup Challenge \cup {0}
  BY <1>1 DEF IInv, CallInv, FailInv
<1>4. \A j \in Tsx : method[j] # "BYE" BY <1>1 DEF IInv, CallInv, ByeInv
<1> QED BY <1>1, <1>2, <1>3, <1>4

\* The INVITE rings; a CANCEL is sent if one was asked for.
LEMMA EarlyKeeps ==
    ASSUME IInv, NEW i \in Tsx, IsInvite(i), status[i] = 0,
           inv' = "early", Starts("CANCEL"), UNCHANGED <<status, remoteBye>>
    PROVE  CallInv'
<1>1. \A j \in Tsx : IsInvite(j) => j = i \/ status[j] \in Challenge
  BY OpenFacts
<1>2. \A j \in Tsx : method[j] # "BYE" BY OpenFacts
<1>3. \A j \in Tsx : method'[j] = method[j] \/ method'[j] = "CANCEL"
  BY StartsFacts DEF Method
<1>4. \A j \in Tsx : IsInvite(j)' => IsInvite(j) BY <1>3 DEF IsInvite
<1>5. 0 \notin Challenge /\ \A c \in Challenge : c \notin Success BY DEF Challenge, Success
<1>6. OpenInv' BY <1>1, <1>4, <1>5 DEF OpenInv
<1>7. FailInv' BY <1>1, <1>4 DEF FailInv
<1>8. SuccessInv'
  <2>1. 0 \notin Success BY DEF Success
  <2> QED BY <1>1, <1>4, <1>5, <2>1 DEF SuccessInv
<1>9. ByeInv' BY <1>2, <1>3 DEF ByeInv
<1> QED BY <1>6, <1>7, <1>8, <1>9 DEF CallInv

\* The INVITE is answered; a BYE may be sent.
LEMMA ConfirmedKeeps ==
    ASSUME IInv, NEW i \in Tsx, IsInvite(i), status[i] = 0,
           NEW code \in Success, status' = [status EXCEPT ![i] = code],
           i \in acked', inv' = "confirmed", Starts("BYE"), UNCHANGED remoteBye
    PROVE  CallInv'
<1>1. \A j \in Tsx : IsInvite(j) => j = i \/ status[j] \in Challenge
  BY OpenFacts
<1>3. \A j \in Tsx : IsInvite(j)' => IsInvite(j)
  BY StartsFacts DEF IsInvite, Method
<1>4. \A j \in Tsx : status'[j] = IF j = i THEN code ELSE status[j] BY TsxFacts
<1>5. /\ 0 \notin Challenge /\ \A c \in Challenge : c \notin Success
      /\ code # 0
  BY DEF Challenge, Success
<1>6. OpenInv' BY <1>1, <1>3, <1>4, <1>5 DEF OpenInv
<1>7. FailInv' BY <1>1, <1>3, <1>4 DEF FailInv
<1>8. SuccessInv' BY <1>1, <1>3, <1>4, <1>5 DEF SuccessInv
<1>9. ByeInv' BY DEF ByeInv
<1> QED BY <1>6, <1>7, <1>8, <1>9 DEF CallInv

\* A challenged INVITE is sent again.
LEMMA InviteRepeats ==
    ASSUME IInv, NEW i \in Tsx, IsInvite(i), status[i] = 0,
           NEW code \in Challenge, status' = [status EXCEPT ![i] = code],
           inv' = "calling", Starts("INVITE"), UNCHANGED remoteBye
    PROVE  CallInv'
<1>1. \A j \in Tsx : IsInvite(j) => j = i \/ status[j] \in Challenge BY OpenFacts
<1>2. \A j \in Tsx : method[j] # "BYE" BY OpenFacts
<1>3. \A j \in Tsx : IsInvite(j)' =>
          IsInvite(j) \/ (method[j] = "none" /\ j = sent + 1)
  BY StartsFacts DEF IsInvite, Method
<1>4. \A j \in Tsx : status'[j] = IF j = i THEN code ELSE status[j] BY TsxFacts
<1>5. /\ 0 \notin Challenge /\ \A c \in Challenge : c \notin Success
      /\ 0 \notin Success
  BY DEF Challenge, Success
<1>6. \A j \in Tsx : method[j] = "none" => status[j] = 0 BY DEF IInv, StatusInv
<1>7. \A j \in Tsx : IsInvite(j)' => status'[j] \in Challenge \/ (status'[j] = 0 /\ j = sent + 1)
  <2> SUFFICES ASSUME NEW j \in Tsx, IsInvite(j)'
               PROVE  status'[j] \in Challenge \/ (status'[j] = 0 /\ j = sent + 1)
    OBVIOUS
  <2>1. CASE IsInvite(j) BY <1>1, <1>4, <2>1
  <2>2. CASE ~IsInvite(j)
    <3>1. method[j] = "none" /\ j = sent + 1 /\ j # i BY <1>3, <2>2
    <3> QED BY <1>4, <1>6, <3>1
  <2> QED BY <2>1, <2>2
<1>8. OpenInv'
  <2>1. \A j \in Tsx : IsInvite(j)' /\ status'[j] = 0 => j = sent + 1 BY <1>5, <1>7
  <2> QED BY <2>1 DEF OpenInv
<1>9. FailInv' BY <1>7 DEF FailInv
<1>10. SuccessInv' BY <1>5, <1>7 DEF SuccessInv
<1>11. ByeInv' BY <1>2, StartsFacts DEF ByeInv, Method
<1> QED BY <1>8, <1>9, <1>10, <1>11 DEF CallInv

\* A challenged BYE is sent again.
LEMMA ByeRepeats ==
    ASSUME IInv, NEW i \in Tsx, method[i] = "BYE",
           NEW code, status' = [status EXCEPT ![i] = code],
           acked \subseteq acked', Starts("BYE"), UNCHANGED <<inv, remoteBye>>
    PROVE  CallInv'
<1>1. \A j \in Tsx : IsInvite(j)' => IsInvite(j) /\ status'[j] = status[j]
  <2> SUFFICES ASSUME NEW j \in Tsx, IsInvite(j)' PROVE IsInvite(j) /\ status'[j] = status[j]
    OBVIOUS
  <2>1. IsInvite(j) BY StartsFacts DEF IsInvite, Method
  <2>2. j # i BY <2>1 DEF IsInvite
  <2> QED BY <2>1, <2>2, TsxFacts
<1>2. OpenInv' BY <1>1 DEF IInv, CallInv, OpenInv
<1>3. FailInv' BY <1>1 DEF IInv, CallInv, FailInv
<1>4. SuccessInv'
  <2>1. HungUp => HungUp' BY StartsFacts DEF HungUp, Method
  <2> QED BY <1>1, <2>1 DEF IInv, CallInv, SuccessInv
<1>5. ByeInv'
  <2>1. inv \in {"confirmed", "disconnected"} BY DEF IInv, CallInv, ByeInv
  <2> QED BY <2>1 DEF ByeInv
<1> QED BY <1>2, <1>3, <1>4, <1>5 DEF CallInv

-----------------------------------------------------------------------------
(* The actions.                                                            *)

States == {"null", "calling", "early", "confirmed", "disconnected"}

\* Every part of the invariant, for a callback whose effect on the call is known.
LEMMA CallbackKeeps ==
    ASSUME IInv, Callback, NEW m \in Method, Starts(m),
           heard' \subseteq net, loopStop' \in BOOLEAN, inv' \in States,
           status' \in [Tsx -> Status], acked' \subseteq Tsx,
           earlyCancel' = earlyCancel, remoteBye' \in BOOLEAN,
           StatusInv', CallInv', StopMeansOver'
    PROVE  IInv'
<1>1. EndpointInv' /\ TypeOK' /\ PlausibleInv' BY FrameKept DEF States
<1> QED BY <1>1, Zenon DEF IInv

\* A transaction ends: with a response, or with a status made up for it.
LEMMA EndKeeps ==
    ASSUME IInv, Callback, NEW i \in Tsx, Pending(i), NEW code \in Status,
           NEW stopped, CallEnds(i, code, stopped),
           heard \subseteq heard', heard' \subseteq net,
           \/ code \in {Timeout, TransportError}
           \/ \E r \in heard' : r.tsx = i /\ r.code = code /\ IsFinal(r.code),
           stopped = (loopStop \/ code = 487), code = 487 => IsInvite(i),
           acked \subseteq acked', acked' \subseteq Tsx,
           IsInvite(i) /\ code \in Success => i \in acked',
           UNCHANGED <<earlyCancel, remoteBye>>
    PROVE  IInv'
<1>1. status[i] = 0 /\ method[i] \in Method BY TsxFacts DEF Pending
<1>2. status' = [status EXCEPT ![i] = code] BY DEF CallEnds, EndTsx
<1>3. status' \in [Tsx -> Status] /\ \A j \in Tsx : status'[j] = IF j = i THEN code ELSE status[j]
  BY <1>2, TsxFacts
<1>4. code # 0 BY TsxFacts DEF Timeout, TransportError, IsFinal
<1>5. remoteBye' \in BOOLEAN BY Zenon DEF IInv, TypeOK
<1>6. \A m \in Method : Starts(m) => StatusInv'
  <2> SUFFICES ASSUME NEW m \in Method, Starts(m) PROVE StatusInv' OBVIOUS
  <2>1. method[i] # "none" BY <1>1 DEF Method
  <2> QED BY <1>2, <2>1, StatusKept
<1>7. \A m \in Method : Start(m) => Starts(m) BY DEF Start, Starts
<1>8. UNCHANGED <<sent, method>> => Starts("INVITE") BY DEF Starts
<1>9. inv = "disconnected" <=> loopStop BY DEF IInv, StopMeansOver
<1>10. loopStop \in BOOLEAN BY Zenon DEF IInv, TypeOK, EndpointTypeOK
<1>11. \E m \in Method :
           Starts(m) /\ inv' \in States /\ loopStop' \in BOOLEAN /\ CallInv' /\ StopMeansOver'
  <2>1. CASE inv = "disconnected"
    <3>1. Ignored(stopped) BY <2>1, Zenon DEF CallEnds
    <3>2. loopStop' = TRUE BY <1>9, <2>1, <3>1, Zenon DEF Ignored
    <3>3. UNCHANGED <<sent, method, inv>> BY <3>1 DEF Ignored
    <3>4. ~IsInvite(i) BY <1>1, <2>1, OpenFacts
    <3>5. CallInv' BY <1>3, <3>3, <3>4, IgnoredKeeps
    <3>6. Starts("INVITE") BY <1>8, <3>3
    <3>7. StopMeansOver' BY <2>1, <3>2, <3>3, Zenon DEF StopMeansOver
    <3>8. inv' \in States BY <2>1, <3>3 DEF States
    <3> QED BY <3>2, <3>5, <3>6, <3>7, <3>8, Zenon DEF Method
  <2> SUFFICES ASSUME inv # "disconnected"
               PROVE  \E m \in Method : Starts(m) /\ inv' \in States /\ loopStop' \in BOOLEAN
                                           /\ CallInv' /\ StopMeansOver'
    BY <2>1
  <2>2. loopStop = FALSE BY <1>9, <1>10, Zenon
  <2>3. stopped = (code = 487) BY <2>2, Zenon
  <2>4. CASE method[i] = "INVITE" /\ code \in Success /\ Confirmed(stopped)
    <3>1. code # 487 BY <2>4 DEF Success
    <3>2. loopStop' = FALSE BY <2>3, <2>4, <3>1, Zenon DEF Confirmed
    <3>3. inv' = "confirmed" /\ Starts("BYE") BY <1>7, <2>4 DEF Confirmed, Method
    <3>4. CallInv' BY <1>1, <1>2, <2>4, <3>3, ConfirmedKeeps DEF IsInvite
    <3>5. StopMeansOver' BY <3>2, <3>3, Zenon DEF StopMeansOver
    <3>6. inv' \in States BY <3>3 DEF States
    <3> QED BY <3>2, <3>3, <3>4, <3>5, <3>6, Zenon DEF Method
  <2>5. CASE method[i] = "INVITE" /\ code \in Challenge /\ Repeats(i, stopped)
    <3>1. code # 487 BY <2>5 DEF Challenge
    <3>2. loopStop' = FALSE BY <2>3, <2>5, <3>1, Zenon DEF Repeats
    <3>3. inv' = "calling" /\ Starts("INVITE") BY <2>5 DEF Repeats, Starts
    <3>4. CallInv' BY <1>1, <1>2, <2>5, <3>3, InviteRepeats DEF IsInvite
    <3>5. StopMeansOver' BY <3>2, <3>3, Zenon DEF StopMeansOver
    <3>6. inv' \in States BY <3>3 DEF States
    <3> QED BY <3>2, <3>3, <3>4, <3>5, <3>6, Zenon DEF Method
  <2>6. CASE method[i] = "INVITE" /\ code \notin Success /\ Disconnected(stopped)
    <3>1. loopStop' = TRUE /\ inv' = "disconnected" /\ UNCHANGED <<sent, method>>
      BY <2>6, Zenon DEF Disconnected
    <3>2. \A j \in Tsx : IsInvite(j) => j = i \/ status[j] \in Challenge
      BY <1>1, <2>6, OpenFacts DEF IsInvite
    <3>3. 0 \notin Challenge /\ 0 \notin Success /\ \A c \in Challenge : c \notin Success
      BY DEF Challenge, Success
    <3>4. \A j \in Tsx : IsInvite(j) => status'[j] # 0 BY <1>3, <1>4, <3>2, <3>3
    <3>5. \A j \in Tsx : IsInvite(j) => status[j] \notin Success BY <1>1, <3>2, <3>3
    <3>6. CallInv' BY <1>3, <2>6, <3>1, <3>4, <3>5, OverKeeps
    <3>7. StopMeansOver' BY <3>1, Zenon DEF StopMeansOver
    <3>8. Starts("INVITE") /\ inv' \in States BY <1>8, <3>1 DEF States
    <3> QED BY <3>1, <3>6, <3>7, <3>8, Zenon DEF Method
  <2>7. CASE method[i] = "CANCEL" /\ Ignored(stopped)
    <3>1. code # 487 BY <2>7 DEF IsInvite
    <3>2. loopStop' = FALSE BY <2>3, <2>7, <3>1, Zenon DEF Ignored
    <3>3. UNCHANGED <<sent, method, inv>> BY <2>7 DEF Ignored
    <3>4. CallInv' BY <1>3, <2>7, <3>3, IgnoredKeeps DEF IsInvite
    <3>5. Starts("INVITE") BY <1>8, <3>3
    <3>6. StopMeansOver' BY <3>2, <3>3, Zenon DEF StopMeansOver
    <3>7. inv' \in States BY <3>3, TsxFacts DEF States
    <3> QED BY <3>2, <3>4, <3>5, <3>6, <3>7, Zenon DEF Method
  <2>8. CASE method[i] = "BYE" /\ Repeats(i, stopped)
    <3>1. code # 487 BY <2>8 DEF IsInvite
    <3>2. loopStop' = FALSE BY <2>3, <2>8, <3>1, Zenon DEF Repeats
    <3>3. inv' = inv /\ Starts("BYE") BY <2>8 DEF Repeats, Starts
    <3>4. CallInv' BY <1>2, <2>8, <3>3, ByeRepeats
    <3>5. StopMeansOver' BY <3>2, <3>3, Zenon DEF StopMeansOver
    <3>6. inv' \in States BY <3>3, TsxFacts DEF States
    <3> QED BY <3>2, <3>3, <3>4, <3>5, <3>6, Zenon DEF Method
  <2>9. CASE method[i] = "BYE" /\ Disconnected(stopped)
    <3>1. loopStop' = TRUE /\ inv' = "disconnected" /\ UNCHANGED <<sent, method>>
      BY <2>9, Zenon DEF Disconnected
    <3>2. \A j \in Tsx : IsInvite(j) => status[j] # 0 BY <2>9, OpenFacts
    <3>3. \A j \in Tsx : IsInvite(j) => j # i BY <2>9 DEF IsInvite
    <3>4. HungUp' BY <2>9, <3>1 DEF HungUp
    <3>5. CallInv' BY <1>3, <3>1, <3>2, <3>3, <3>4, OverKeeps
    <3>6. StopMeansOver' BY <3>1, Zenon DEF StopMeansOver
    <3>7. Starts("INVITE") /\ inv' \in States BY <1>8, <3>1 DEF States
    <3>8. "INVITE" \in Method /\ loopStop' \in BOOLEAN BY <3>1, Zenon DEF Method
    <3> QED BY <3>5, <3>6, <3>7, <3>8
  <2>10. \/ method[i] = "INVITE" /\ InviteEnds(i, code, stopped)
         \/ method[i] = "CANCEL" /\ CancelEnds(stopped)
         \/ method[i] = "BYE" /\ ByeEnds(i, code, stopped)
    BY Zenon DEF CallEnds
  <2>11. CASE method[i] = "INVITE" /\ InviteEnds(i, code, stopped)
    BY <2>4, <2>5, <2>6, <2>11, Zenon DEF InviteEnds
  <2>12. CASE method[i] = "CANCEL" /\ CancelEnds(stopped)
    BY <2>7, <2>12, Zenon DEF CancelEnds
  <2>13. CASE method[i] = "BYE" /\ ByeEnds(i, code, stopped)
    <3>1. CASE Disconnected(stopped) BY <2>9, <2>13, <3>1, Zenon
    <3>2. CASE Repeats(i, stopped) BY <2>8, <2>13, <3>2, Zenon
    <3> QED BY <2>13, <3>1, <3>2, Zenon DEF ByeEnds
  <2> QED BY <2>10, <2>11, <2>12, <2>13, Zenon
<1> QED
  <2>1. PICK m \in Method :
            Starts(m) /\ inv' \in States /\ loopStop' \in BOOLEAN /\ CallInv' /\ StopMeansOver'
    BY <1>11
  <2>2. StatusInv' BY <1>6, <2>1
  <2> QED BY <1>3, <1>5, <2>1, <2>2, CallbackKeeps

\* A 487 heard again is for a call that is already over.
LEMMA LateCancelled ==
    ASSUME IInv, NEW r \in net, r.code = 487, ~Pending(r.tsx)
    PROVE  inv = "disconnected"
<1> DEFINE i == r.tsx
<1>1. i \in Tsx /\ i <= sent BY TsxFacts DEF IInv, EndpointInv, NetInv, Response
<1>2. IsInvite(i) BY DEF IInv, PlausibleInv, Plausible, IsInvite, IsFinal
<1>3. status[i] # 0 BY <1>1 DEF Pending
<1>4. status[i] \in {Timeout, TransportError, 487}
  <2>1. CASE status[i] \in {0, Timeout, TransportError} BY <1>3, <2>1
  <2>2. CASE \E q \in heard : q.tsx = i /\ q.code = status[i] /\ IsFinal(q.code)
    <3>1. PICK q \in net : q.tsx = i /\ q.code = status[i] /\ IsFinal(q.code)
      BY <2>2, TsxFacts
    <3>2. IsFinal(r.code) BY DEF IsFinal
    <3> QED BY <3>1, <3>2 DEF IInv, EndpointInv, NetInv
  <2> QED BY <1>1, <2>1, <2>2 DEF IInv, StatusInv
<1>5. status[i] \notin Success \cup Challenge \cup {0}
  BY <1>4 DEF Timeout, TransportError, Success, Challenge
<1> QED BY <1>1, <1>2, <1>5 DEF IInv, CallInv, FailInv

LEMMA DeliverKeeps == ASSUME IInv, NEW r \in Response, Deliver(r) PROVE IInv'
<1> DEFINE i == r.tsx
           stopped == loopStop \/ r.code = 487
<1>1. r \in net /\ Callback /\ heard' = heard \cup {r} BY DEF Deliver, Arrive
<1>2. i \in Tsx /\ r.code \in Status BY DEF Response, Status
<1>3. Plausible(r) BY <1>1 DEF IInv, PlausibleInv
<1>4. r.code = 487 => IsInvite(i) BY <1>3 DEF Plausible, IsInvite, IsFinal
<1>5. heard \subseteq heard' /\ heard' \subseteq net BY <1>1, TsxFacts
<1>6. /\ acked \subseteq acked' /\ acked' \subseteq Tsx
      /\ IsInvite(i) /\ r.code \in Success => i \in acked'
  <2>1. acked \subseteq Tsx BY DEF IInv, TypeOK
  <2>2. Acks(r) BY DEF Deliver
  <2> QED BY <1>2, <2>1, <2>2 DEF Acks, IsInvite
<1>7. UNCHANGED <<earlyCancel, remoteBye>> BY DEF Deliver
<1>8. CASE EndsTsx(r)
  <2>1. CallEnds(i, r.code, stopped) BY <1>8, Zenon DEF Deliver, Releases
  <2>2. Pending(i) /\ IsFinal(r.code) BY <1>8 DEF EndsTsx
  <2>3. \E q \in heard' : q.tsx = i /\ q.code = r.code /\ IsFinal(q.code) BY <1>1, <2>2
  <2> HIDE DEF i
  <2> QED BY <1>1, <1>2, <1>4, <1>5, <1>6, <1>7, <2>1, <2>2, <2>3, EndKeeps
<1>9. CASE ~EndsTsx(r)
  <2>1. Progress(r, stopped) BY <1>9, Zenon DEF Deliver, Releases
  <2>2. UNCHANGED status BY <2>1 DEF Progress
  <2>3. loopStop \in BOOLEAN BY Zenon DEF IInv, TypeOK, EndpointTypeOK
  <2>4. remoteBye' \in BOOLEAN BY <1>7, Zenon DEF IInv, TypeOK
  <2>5. stopped = loopStop
    <3>1. CASE r.code = 487
      <4>1. ~Pending(r.tsx) BY <1>9, <3>1 DEF EndsTsx, IsFinal
      <4>2. inv = "disconnected" BY <1>1, <3>1, <4>1, LateCancelled
      <4>3. loopStop = TRUE BY <2>3, <4>2, Zenon DEF IInv, StopMeansOver
      <4> QED BY <3>1, <4>3, Zenon
    <3>2. CASE r.code # 487 BY <2>3, <3>2, Zenon
    <3> QED BY <3>1, <3>2
  <2>6. \A m \in Method : Starts(m) => StatusInv'
    <3> SUFFICES ASSUME NEW m \in Method, Starts(m) PROVE StatusInv' OBVIOUS
    <3>1. \A j \in Tsx : method'[j] = "none" => method[j] = "none" BY StartsFacts
    <3> QED BY <1>5, <2>2, <3>1 DEF IInv, StatusInv
  <2>7. CASE Early(stopped) /\ Pending(i) /\ method[i] = "INVITE" /\ inv # "disconnected"
    <3>1. inv' = "early" BY <2>7 DEF Early
    <3>2. Starts("CANCEL") BY <2>7 DEF Early, Start, Starts
    <3>3. CallInv'
      BY <1>1, <1>2, <1>5, <1>7, <2>2, <2>7, <3>1, <3>2, EarlyKeeps DEF Pending, IsInvite
    <3>4. loopStop' = loopStop BY <2>5, <2>7, Zenon DEF Early
    <3>5. StopMeansOver'
      <4>1. loopStop = FALSE BY <2>3, <2>7, Zenon DEF IInv, StopMeansOver
      <4> QED BY <3>1, <3>4, <4>1, Zenon DEF StopMeansOver
    <3>6. loopStop' \in BOOLEAN BY <2>3, <3>4, Zenon
    <3>7. inv' \in States /\ "CANCEL" \in Method BY <3>1 DEF States, Method
    <3>8. status' \in [Tsx -> Status] BY <2>2, TsxFacts
    <3>9. StatusInv' BY <2>6, <3>2, <3>7
    <3> QED
      BY <1>1, <1>5, <1>6, <1>7, <2>4, <3>2, <3>3, <3>5, <3>6, <3>7, <3>8, <3>9, CallbackKeeps
  <2>8. CASE Ignored(stopped)
    <3>1. UNCHANGED <<sent, method, inv>> BY <2>8 DEF Ignored
    <3>2. CallInv' BY <1>5, <1>6, <1>7, <2>2, <3>1, IgnoredKeeps
    <3>3. loopStop' = loopStop BY <2>5, <2>8, Zenon DEF Ignored
    <3>4. StopMeansOver' BY <3>1, <3>3, Zenon DEF IInv, StopMeansOver
    <3>5. loopStop' \in BOOLEAN BY <2>3, <3>3, Zenon
    <3>6. inv' \in States /\ "CANCEL" \in Method BY <3>1, TsxFacts DEF States, Method
    <3>7. Starts("CANCEL") BY <3>1 DEF Starts
    <3>8. status' \in [Tsx -> Status] BY <2>2, TsxFacts
    <3>9. StatusInv' BY <2>6, <3>6, <3>7
    <3> QED
      BY <1>1, <1>5, <1>6, <1>7, <2>4, <3>2, <3>4, <3>5, <3>6, <3>7, <3>8, <3>9, CallbackKeeps
  <2> QED BY <2>1, <2>7, <2>8, Zenon DEF Progress
<1> QED BY <1>8, <1>9

LEMMA LocalEndKeeps ==
    ASSUME IInv, NEW i \in Tsx, NEW code \in {Timeout, TransportError}, LocalEnd(i, code)
    PROVE  IInv'
<1>1. code \in Status /\ code # 487 BY DEF Status, Timeout, TransportError
<1>2. Callback /\ Pending(i) /\ CallEnds(i, code, loopStop) BY DEF LocalEnd
<1>3. UNCHANGED <<heard, earlyCancel, acked, remoteBye>> BY DEF LocalEnd
<1>4. loopStop = (loopStop \/ code = 487)
  <2>1. loopStop \in BOOLEAN BY Zenon DEF IInv, TypeOK, EndpointTypeOK
  <2> QED BY <1>1, <2>1, Zenon
<1>5. acked \subseteq Tsx BY DEF IInv, TypeOK
<1>6. code \notin Success BY DEF Success, Timeout, TransportError
<1> QED BY <1>1, <1>2, <1>3, <1>4, <1>5, <1>6, EndKeeps, TsxFacts

LEMMA RxByeKeeps == ASSUME IInv, RxBye PROVE IInv'
<1>1. Callback /\ inv = "confirmed" BY DEF RxBye
<1>2. UNCHANGED <<status, heard, earlyCancel, acked, sent, method>> BY DEF RxBye, Disconnected
<1>3. remoteBye' = TRUE /\ loopStop' = TRUE /\ inv' = "disconnected"
  BY Zenon DEF RxBye, Disconnected
<1>4. \A i \in Tsx : IsInvite(i) => status[i] # 0
  BY <1>1 DEF IInv, CallInv, OpenInv
<1>5. HungUp' BY <1>3, Zenon DEF HungUp
<1>6. CallInv' BY <1>2, <1>3, <1>4, <1>5, OverKeeps
<1>7. StopMeansOver' BY <1>3, Zenon DEF StopMeansOver
<1>8. Starts("BYE") /\ "BYE" \in Method BY <1>2 DEF Starts, Method
<1>9. StatusInv' BY <1>2 DEF IInv, StatusInv
<1>10. loopStop' \in BOOLEAN /\ remoteBye' \in BOOLEAN BY <1>3, Zenon
<1>11. acked' \subseteq Tsx /\ heard' \subseteq net /\ status' \in [Tsx -> Status]
  BY <1>2, TsxFacts DEF IInv, TypeOK
<1>12. inv' \in States BY <1>3 DEF States
<1> QED BY <1>1, <1>2, <1>6, <1>7, <1>8, <1>9, <1>10, <1>11, <1>12, CallbackKeeps

LEMMA MainKeeps == ASSUME IInv, Main PROVE IInv'
<1>1. EndpointInv /\ [EndpointNext]_endpoint BY DEF IInv, Main
<1>2. EndpointInv' BY <1>1, EndpointNextInv
<1>3. UNCHANGED <<loopStop, status, heard>> BY <1>1, EndpointNextFrame
<1>4. UNCHANGED <<earlyCancel, acked, remoteBye>> /\ \A r \in net' : r \in net \/ Plausible(r)
  BY DEF Main
<1>5. /\ earlyCancel' \in BOOLEAN /\ remoteBye' \in BOOLEAN
      /\ acked' \subseteq Tsx
  <2>1. earlyCancel' \in BOOLEAN /\ remoteBye' \in BOOLEAN BY <1>4, Zenon DEF IInv, TypeOK
  <2>2. acked' \subseteq Tsx BY <1>4 DEF IInv, TypeOK
  <2> QED BY <2>1, <2>2, Zenon
<1>6. \A r \in net' : Plausible(r) BY <1>4 DEF IInv, PlausibleInv
<1>7. CASE sent' # sent
  <2>1. pc = "setup" /\ sent = 0 /\ sent' = 1 BY <1>1, <1>7, EndpointNextFrame
  <2>2. inv' = "calling" /\ method' = [method EXCEPT ![1] = "INVITE"] BY <1>7 DEF Main
  <2>3. \A i \in Tsx : method[i] = "none" /\ status[i] = 0
    BY <2>1, TsxFacts DEF IInv, StatusInv
  <2>4. 1 \in Tsx BY MaxTsxAssumption DEF Tsx
  <2>5. \A i \in Tsx : method'[i] = IF i = 1 THEN "INVITE" ELSE "none"
    BY <2>2, <2>3, TsxFacts
  <2>6. net' = {}
    <3>1. \A r \in net' : r.tsx \in Tsx
      BY <1>2 DEF EndpointInv, EndpointTypeOK, Response
    <3> QED BY <1>6, <2>3, <3>1 DEF Plausible
  <2>7. TypeOK'
    <3>1. method' \in [Tsx -> {"none", "INVITE", "CANCEL", "BYE"}] BY <2>2, TsxFacts DEF Method
    <3>2. \A i \in Tsx : method'[i] = "none" <=> i > sent' BY <2>1, <2>5, TsxFacts
    <3> QED BY <1>2, <1>5, <2>2, <3>1, <3>2 DEF TypeOK, EndpointInv
  <2>8. StatusInv' BY <1>3, <2>3 DEF StatusInv
  <2>9. PlausibleInv' BY <2>6 DEF PlausibleInv
  <2>10. CallInv'
    <3>1. OpenInv' BY <2>2, <2>5 DEF OpenInv, IsInvite
    <3>2. FailInv' BY <1>3, <2>3 DEF FailInv
    <3>3. SuccessInv' BY <1>3, <2>3 DEF SuccessInv, Success
    <3>4. ByeInv' BY <2>5 DEF ByeInv
    <3> QED BY <3>1, <3>2, <3>3, <3>4 DEF CallInv
  <2>11. StopMeansOver'
    <3>1. loopStop' = FALSE
      <4>1. loopStop \in BOOLEAN BY Zenon DEF IInv, TypeOK, EndpointTypeOK
      <4> QED BY <1>1, <1>3, <2>1, <4>1, Zenon DEF EndpointInv, ControlInv
    <3> QED BY <2>2, <3>1, Zenon DEF StopMeansOver
  <2> QED BY <1>2, <2>7, <2>8, <2>9, <2>10, <2>11, Zenon DEF IInv
<1>8. CASE sent' = sent
  <2>1. UNCHANGED <<sent, inv, method>> BY <1>8 DEF Main
  <2>2. TypeOK' BY <1>2, <1>5, <2>1, TsxFacts DEF TypeOK, EndpointInv, Method
  <2>3. StatusInv' BY <1>3, <2>1 DEF IInv, StatusInv
  <2>4. PlausibleInv' BY <1>6, <2>1 DEF PlausibleInv, Plausible
  <2>5. CallInv' BY <1>3, <1>4, <2>1, IgnoredKeeps
  <2>6. StopMeansOver' BY <1>3, <2>1, Zenon DEF IInv, StopMeansOver
  <2> QED BY <1>2, <2>2, <2>3, <2>4, <2>5, <2>6, Zenon DEF IInv
<1> QED BY <1>7, <1>8

-----------------------------------------------------------------------------

LEMMA InitIInv == Init => IInv
<1> SUFFICES ASSUME Init PROVE IInv OBVIOUS
<1>1. cmd = "invite" /\ EndpointInit BY DEF Init
<1>2. EndpointInv BY <1>1, EndpointInitInv DEF Commands
<1>3. /\ loopStop = FALSE /\ sent = 0 /\ net = {} /\ heard = {}
      /\ status = [i \in Tsx |-> 0]
  BY <1>1 DEF EndpointInit
<1>4. inv = "null" /\ method = [i \in Tsx |-> "none"] /\ acked = {} BY DEF Init
<1>5. TypeOK
  <2>1. earlyCancel \in BOOLEAN /\ remoteBye \in BOOLEAN BY Zenon DEF Init
  <2>2. \A i \in Tsx : method[i] = "none" <=> i > sent BY <1>3, <1>4 DEF Tsx
  <2> QED BY <1>2, <1>4, <2>1, <2>2 DEF TypeOK, EndpointInv
<1>6. StatusInv BY <1>3 DEF StatusInv
<1>7. PlausibleInv BY <1>3 DEF PlausibleInv
<1>8. CallInv
  <2>1. \A i \in Tsx : method[i] = "none" BY <1>4
  <2> QED BY <2>1 DEF CallInv, OpenInv, FailInv, SuccessInv, ByeInv, IsInvite
<1>9. StopMeansOver BY <1>3, <1>4, Zenon DEF StopMeansOver
<1> QED BY <1>2, <1>5, <1>6, <1>7, <1>8, <1>9, Zenon DEF IInv

LEMMA NextIInv == IInv /\ [Next]_vars => IInv'
<1> SUFFICES ASSUME IInv, [Next]_vars PROVE IInv' OBVIOUS
<1>1. CASE Main BY <1>1, MainKeeps
<1>2. ASSUME NEW r \in Response, Deliver(r) PROVE IInv' BY <1>2, DeliverKeeps
<1>3. ASSUME NEW i \in Tsx, TsxTimeout(i) PROVE IInv' BY <1>3, LocalEndKeeps DEF TsxTimeout
<1>4. ASSUME NEW i \in Tsx, TransportFails(i) PROVE IInv'
  BY <1>4, LocalEndKeeps DEF TransportFails
<1>5. CASE RxBye BY <1>5, RxByeKeeps
<1>6. CASE UNCHANGED vars
  <2>1. UNCHANGED endpoint /\ UNCHANGED own BY <1>6 DEF vars
  <2>2. EndpointInv' BY <2>1, EndpointNextInv DEF IInv
  <2>3. UNCHANGED <<sent, loopStop, status, net, heard>> BY <2>1 DEF endpoint
  <2>4. UNCHANGED <<earlyCancel, inv, method, acked, remoteBye>> BY <2>1 DEF own
  <2>5. TypeOK' BY <2>2, <2>3, <2>4, Zenon DEF IInv, TypeOK, EndpointInv
  <2>6. StatusInv' BY <2>3, <2>4 DEF IInv, StatusInv
  <2>7. PlausibleInv' BY <2>3, <2>4 DEF IInv, PlausibleInv, Plausible
  <2>8. CallInv' BY <2>3, <2>4, IgnoredKeeps
  <2>9. StopMeansOver' BY <2>3, <2>4, Zenon DEF IInv, StopMeansOver
  <2> QED BY <2>2, <2>5, <2>6, <2>7, <2>8, <2>9, Zenon DEF IInv
<1> QED BY <1>1, <1>2, <1>3, <1>4, <1>5, <1>6 DEF Next

THEOREM Inductive == Spec => []IInv
BY InitIInv, NextIInv, PTL DEF Spec

\* Every variable of a call keeps its type, and what a transaction carries is known
\* from its start.
THEOREM TypeCorrect == Spec => []TypeOK
<1>1. IInv => TypeOK BY DEF IInv
<1> QED BY <1>1, Inductive, PTL

\* main.c leaves its loop exactly for a call that is over: the 487 that mod_invite
\* sees in front of the transaction layer is never one of a call that stands.
THEOREM StopIsOver == Spec => []StopMeansOver
<1>1. IInv => StopMeansOver BY DEF IInv
<1> QED BY <1>1, Inductive, PTL

\* An answered call was acknowledged and hung up before sippak returns.
THEOREM AnsweredIsClosed == Spec => []AnsweredCallIsClosed
<1>1. IInv => AnsweredCallIsClosed
  <2> SUFFICES ASSUME IInv, pc = "exited", NEW i \in Sent("INVITE"), status[i] \in Success
               PROVE  /\ \E k \in acked : method[k] = "INVITE" /\ status[k] \in Success
                      /\ Sent("BYE") # {} \/ remoteBye
    BY DEF AnsweredCallIsClosed, Answered
  <2>1. i \in Tsx /\ IsInvite(i) /\ sent # 0
    BY TsxFacts DEF Sent, IsInvite, Tsx
  <2>2. inv = "disconnected"
    <3>1. loopStop BY <2>1, Zenon DEF IInv, EndpointInv, ControlInv
    <3> QED BY <3>1, Zenon DEF IInv, StopMeansOver
  <2>3. i \in acked /\ HungUp BY <2>1, <2>2 DEF IInv, CallInv, SuccessInv
  <2>4. Sent("BYE") # {} \/ remoteBye
    <3>1. CASE remoteBye BY <3>1
    <3>2. ASSUME NEW j \in Tsx, method[j] = "BYE" PROVE j \in Sent("BYE")
      BY <3>2, TsxFacts DEF Sent, Tsx
    <3> QED BY <2>3, <3>1, <3>2 DEF HungUp
  <2> QED BY <2>1, <2>3, <2>4 DEF IsInvite
<1> QED BY <1>1, Inductive, PTL

=============================================================================
