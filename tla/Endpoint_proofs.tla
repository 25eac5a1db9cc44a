-------------------------- MODULE Endpoint_proofs --------------------------
(***************************************************************************)
(* The inductive invariant of the main loop, the network and the server,   *)
(* which the proofs about every command start from.                        *)
(***************************************************************************)
EXTENDS Endpoint, TLAPS

\* Where the program is: the setup is complete in the loop, nothing was sent
\* before, and only a raised flag leaves the loop.
ControlInv ==
    /\ pc = "setup" => sent = 0 /\ ~loopStop
    /\ pc \in {"test", "poll"} => step = Len(Setup(cmd)) /\ sent >= 1
    /\ pc = "exited" => sent = 0 \/ loopStop

\* A server answers only what was sent, with one final code per transaction.
NetInv ==
    /\ \A r \in net : r.tsx <= sent
    /\ \A r, q \in net : r.tsx = q.tsx /\ IsFinal(r.code) /\ IsFinal(q.code) => r.code = q.code

EndpointInv == EndpointTypeOK /\ ControlInv /\ NetInv

\* The request is sent by the last step of every setup, and no other.
LEMMA SendComesLast ==
    ASSUME NEW c \in Commands, NEW k \in 1..Len(Setup(c))
    PROVE  Setup(c)[k] = "send" <=> k = Len(Setup(c))
<1>1. CASE c = "ping" BY <1>1 DEF Setup, SetupPing
<1>2. CASE c = "notify" BY <1>2 DEF Setup, SetupNotify
<1>3. CASE c = "message" BY <1>3 DEF Setup, SetupMessage
<1>4. CASE c = "refer" BY <1>4 DEF Setup, SetupRefer
<1>5. CASE c = "publish" BY <1>5 DEF Setup, SetupPublish
<1>6. CASE c = "subscribe" BY <1>6 DEF Setup, SetupSubscribe
<1>7. CASE c = "register" BY <1>7 DEF Setup, SetupRegister
<1>8. CASE c = "invite" BY <1>8 DEF Setup, SetupInvite
<1> QED BY <1>1, <1>2, <1>3, <1>4, <1>5, <1>6, <1>7, <1>8 DEF Commands

\* Every command registers its module before it sends.
LEMMA ModuleComesFirst ==
    ASSUME NEW c \in Commands
    PROVE  \E k \in 1..Len(Setup(c)) : Setup(c)[k] = "module"
<1>1. CASE c = "ping" BY <1>1 DEF Setup, SetupPing
<1>2. CASE c = "notify" BY <1>2 DEF Setup, SetupNotify
<1>3. CASE c = "message" BY <1>3 DEF Setup, SetupMessage
<1>4. CASE c = "refer" BY <1>4 DEF Setup, SetupRefer
<1>5. CASE c = "publish" BY <1>5 DEF Setup, SetupPublish
<1>6. CASE c = "subscribe" BY <1>6 DEF Setup, SetupSubscribe
<1>7. CASE c = "register" BY <1>7 DEF Setup, SetupRegister
<1>8. CASE c = "invite" BY <1>8 DEF Setup, SetupInvite
<1> QED BY <1>1, <1>2, <1>3, <1>4, <1>5, <1>6, <1>7, <1>8 DEF Commands

\* No setup is empty.
LEMMA SetupStarts == ASSUME NEW c \in Commands PROVE Len(Setup(c)) \in Nat \ {0}
<1>1. CASE c = "ping" BY <1>1 DEF Setup, SetupPing
<1>2. CASE c = "notify" BY <1>2 DEF Setup, SetupNotify
<1>3. CASE c = "message" BY <1>3 DEF Setup, SetupMessage
<1>4. CASE c = "refer" BY <1>4 DEF Setup, SetupRefer
<1>5. CASE c = "publish" BY <1>5 DEF Setup, SetupPublish
<1>6. CASE c = "subscribe" BY <1>6 DEF Setup, SetupSubscribe
<1>7. CASE c = "register" BY <1>7 DEF Setup, SetupRegister
<1>8. CASE c = "invite" BY <1>8 DEF Setup, SetupInvite
<1> QED BY <1>1, <1>2, <1>3, <1>4, <1>5, <1>6, <1>7, <1>8 DEF Commands

-----------------------------------------------------------------------------

\* main starts in the invariant.
LEMMA EndpointInitInv == cmd \in Commands /\ EndpointInit => EndpointInv
<1> SUFFICES ASSUME cmd \in Commands, EndpointInit PROVE EndpointInv OBVIOUS
<1> USE MaxTsxAssumption, BatchMaxAssumption DEF EndpointInit
<1>1. EndpointTypeOK
  <2>1. status \in [Tsx -> Status] BY DEF Status
  <2>2. batch \in 0..BatchMax /\ sent \in 0..MaxTsx OBVIOUS
  <2>3. step \in 1..Len(Setup(cmd)) BY SetupStarts
  <2>4. loopStop \in BOOLEAN BY Zenon
  <2>5. net \subseteq Response /\ heard \subseteq net OBVIOUS
  <2> QED BY <2>1, <2>2, <2>3, <2>4, <2>5, Zenon DEF EndpointTypeOK
<1>2. ControlInv BY DEF ControlInv
<1>3. NetInv BY DEF NetInv
<1> QED BY <1>1, <1>2, <1>3 DEF EndpointInv

\* The steps of main and of the server keep the invariant.
LEMMA EndpointNextInv == EndpointInv /\ [EndpointNext]_endpoint => EndpointInv'
<1> SUFFICES ASSUME EndpointInv, [EndpointNext]_endpoint PROVE EndpointInv' OBVIOUS
<1> USE MaxTsxAssumption, BatchMaxAssumption DEF EndpointInv, EndpointTypeOK, config
<1>1. CASE SetupStep
  <2>1. step < Len(Setup(cmd)) /\ Len(Setup(cmd)) \in Nat
    BY <1>1, SendComesLast, SetupStarts DEF SetupStep
  <2>2. step' \in 1..Len(Setup(cmd)) BY <1>1, <2>1 DEF SetupStep
  <2> QED BY <1>1, <2>2 DEF SetupStep, ControlInv, NetInv, tsxs
<1>2. CASE SetupFails
  BY <1>2 DEF SetupFails, ControlInv, NetInv, tsxs
<1>3. CASE SendRequest
  <2>1. step = Len(Setup(cmd)) BY <1>3, SendComesLast DEF SendRequest
  <2>2. sent = 0 /\ net = {} BY <1>3 DEF SendRequest, ControlInv, NetInv, Response, Tsx
  <2> QED BY <1>3, <2>1, <2>2 DEF SendRequest, ControlInv, NetInv
<1>4. CASE LoopTest BY <1>4 DEF LoopTest, ControlInv, NetInv, tsxs
<1>5. CASE PollReturns BY <1>5 DEF PollReturns, ControlInv, NetInv, tsxs
<1>6. ASSUME NEW r \in Response, UasRespond(r) PROVE EndpointInv'
  <2>1. net' = net \cup {r} /\ UNCHANGED <<cmd, proto, pc, step, loopStop, batch, sent, status, heard>>
    BY <1>6 DEF UasRespond, program, config, tsxs
  <2>2. NetInv' BY <1>6, <2>1 DEF UasRespond, NetInv
  <2> QED BY <1>6, <2>1, <2>2 DEF ControlInv
<1>7. CASE UNCHANGED endpoint BY <1>7 DEF endpoint, config, ControlInv, NetInv
<1> QED BY <1>1, <1>2, <1>3, <1>4, <1>5, <1>6, <1>7 DEF EndpointNext, Terminated

\* What the steps of main and of the server leave alone.
LEMMA EndpointNextFrame ==
    ASSUME EndpointInv, [EndpointNext]_endpoint
    PROVE  /\ UNCHANGED <<loopStop, status, heard>>
           /\ sent' = sent \/ (pc = "setup" /\ sent = 0 /\ sent' = 1)
<1>1. CASE SendRequest BY <1>1 DEF SendRequest, EndpointInv, ControlInv
<1>2. CASE SetupStep \/ SetupFails \/ LoopTest \/ PollReturns \/ Terminated
  BY <1>2 DEF SetupStep, SetupFails, LoopTest, PollReturns, Terminated, tsxs, config, endpoint
<1>3. ASSUME NEW r \in Response, UasRespond(r)
      PROVE  UNCHANGED <<loopStop, status, heard, sent>>
  BY <1>3 DEF UasRespond, program, config, tsxs
<1> QED BY <1>1, <1>2, <1>3 DEF EndpointNext, config, endpoint

\* A callback keeps it if it starts only transactions there is room for and
\* records statuses.
LEMMA CallbackInv ==
    ASSUME EndpointInv, Callback,
           heard' \subseteq net,
           loopStop' \in BOOLEAN,
           sent' \in 0..MaxTsx, sent' >= sent,
           status' \in [Tsx -> Status]
    PROVE  EndpointInv'
<1> USE MaxTsxAssumption, BatchMaxAssumption DEF EndpointInv, EndpointTypeOK, Callback, config
<1>1. ControlInv' BY DEF ControlInv
<1>2. NetInv' BY DEF NetInv, Response, Tsx
<1> QED BY <1>1, <1>2

\* In the loop the command's module is registered.
LEMMA LoopIsRegistered == EndpointInv /\ pc \in {"test", "poll"} => Registered
BY ModuleComesFirst DEF EndpointInv, EndpointTypeOK, ControlInv, Registered

=============================================================================
