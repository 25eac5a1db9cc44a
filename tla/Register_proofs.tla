-------------------------- MODULE Register_proofs --------------------------
(***************************************************************************)
(* What TLAPS proves about Register, for every set of status codes, every  *)
(* --expires and every bound.                                              *)
(***************************************************************************)
EXTENDS Register, Endpoint_proofs

-----------------------------------------------------------------------------
(* The inductive invariant.                                                *)

\* Transactions follow one another: each but the last has ended.
ChainInv ==
    /\ \A i \in Tsx : i > sent => status[i] = 0
    /\ \A i \in Tsx : i < sent => status[i] # 0

\* What was sent and what is said come from the same flags.
FlagsInv ==
    /\ request = IF sent = 0 THEN NoRequest ELSE RegisterRequest
    /\ said \in {"nothing", "authFailed", "response", RegSuccess}
    /\ said # "nothing" => sent # 0

IInv ==
    /\ EndpointInv
    /\ TypeOK
    /\ ChainInv
    /\ FlagsInv

-----------------------------------------------------------------------------

\* A REGISTER is never the empty request.
LEMMA RequestIsMade ==
    ASSUME flags \subseteq Flag, expires \in ExpiresValues
    PROVE  /\ RegisterRequest # NoRequest
           /\ RegisterRequest \in [contact : {"unset", "none", "own", "*"},
                                   expires : ExpiresValues \cup {0}]
BY DEF RegisterRequest, NoRequest, Contact

\* The messages of print_reg_success are among those of reg_callback.
LEMMA SuccessIsSaid == RegSuccess \in {"cancelledAll", "unregistered", "listed", "registered"}
BY DEF RegSuccess

\* The command starts in the invariant.
LEMMA InitIInv == Init => IInv
<1> SUFFICES ASSUME Init PROVE IInv OBVIOUS
<1> USE DEF Init
<1>1. EndpointInv BY EndpointInitInv DEF Commands
<1>2. TypeOK
  <2>1. request \in [contact : {"unset", "none", "own", "*"}, expires : ExpiresValues \cup {0}]
    BY DEF NoRequest
  <2>2. reported \in Status BY DEF Status
  <2>3. request = NoRequest /\ sent = 0 BY DEF EndpointInit
  <2> QED BY <1>1, <2>1, <2>2, <2>3 DEF TypeOK, EndpointInv
<1>3. ChainInv BY MaxTsxAssumption DEF ChainInv, EndpointInit, Tsx
<1>4. FlagsInv BY DEF FlagsInv, EndpointInit
<1> QED BY <1>1, <1>2, <1>3, <1>4 DEF IInv

\* The registration client at the end of a transaction, which is the last one.
LEMMA ClientEndsKeeps ==
    ASSUME IInv, Callback, NEW i \in Tsx, NEW code \in Status \ {0},
           Pending(i), ClientEnds(i, code),
           heard' \subseteq net
    PROVE  IInv'
<1> USE MaxTsxAssumption DEF IInv, TypeOK, EndpointTypeOK, Tsx
<1>1. i = sent /\ status[i] = 0 /\ sent >= 1 BY DEF Pending, ChainInv
<1>2. status' = [status EXCEPT ![i] = code] /\ status' \in [Tsx -> Status]
  BY DEF ClientEnds, EndTsx
<1>3. UNCHANGED <<flags, expires, request>> BY DEF ClientEnds, RegCallback, own
<1>4. /\ sent' \in {sent, sent + 1} /\ sent' \in 0..MaxTsx
      /\ (reported' = reported /\ loopStop' = loopStop /\ said' = said)
         \/ ( /\ sent' = sent /\ reported' = code /\ loopStop' = TRUE
              /\ said' \in {"authFailed", "response", RegSuccess} )
  BY <1>1 DEF ClientEnds, RegCallback, own
<1>5. EndpointInv'
  <2>1. loopStop' \in BOOLEAN BY <1>4, Zenon
  <2> QED BY <1>2, <1>4, <2>1, CallbackInv
<1>6. ChainInv' BY <1>1, <1>2, <1>4 DEF ChainInv
<1>7. FlagsInv'
  BY <1>1, <1>3, <1>4 DEF FlagsInv, RegisterRequest, RegSuccess, Contact
<1>8. TypeOK'
  <2>1. request' = NoRequest <=> sent' = 0 BY <1>1, <1>3, <1>4
  <2>2. said' \in {"nothing", "cancelledAll", "unregistered", "listed", "registered",
                   "authFailed", "response"}
    BY <1>4, SuccessIsSaid
  <2>3. reported' \in Status BY <1>4 DEF Status
  <2> QED BY <1>3, <1>5, <2>1, <2>2, <2>3 DEF EndpointInv
<1> QED BY <1>5, <1>6, <1>7, <1>8

\* Every step of the command keeps the invariant.
LEMMA NextIInv == IInv /\ [Next]_vars => IInv'
<1> SUFFICES ASSUME IInv, [Next]_vars PROVE IInv' OBVIOUS
<1> USE MaxTsxAssumption
<1>1. ASSUME [EndpointNext]_endpoint, UNCHANGED <<flags, expires, reported, said>>,
             request' = IF sent' # sent THEN RegisterRequest ELSE request
      PROVE  IInv'
  <2>1. EndpointInv' BY <1>1, EndpointNextInv DEF IInv
  <2>2. /\ UNCHANGED <<loopStop, status, heard>>
        /\ sent' = sent \/ (pc = "setup" /\ sent = 0 /\ sent' = 1)
    BY <1>1, EndpointNextFrame DEF IInv
  <2>3. FlagsInv' BY <1>1, <2>2 DEF IInv, FlagsInv, RegisterRequest, RegSuccess, Contact
  <2>4. TypeOK' BY <1>1, <2>1, <2>2, RequestIsMade DEF IInv, TypeOK, EndpointInv
  <2>5. ChainInv' BY <2>2 DEF IInv, ChainInv, Tsx
  <2> QED BY <2>1, <2>3, <2>4, <2>5 DEF IInv
<1>2. ASSUME NEW r \in Response, Deliver(r) PROVE IInv'
  <2>1. Callback /\ r \in net /\ heard' = heard \cup {r} BY <1>2 DEF Deliver, Arrive
  <2>2. heard' \subseteq net BY <2>1 DEF IInv, TypeOK, EndpointTypeOK
  <2>3. r.tsx \in Tsx /\ r.code \in Status \ {0} BY CodesAssumption DEF Response, Status
  <2>4. CASE EndsTsx(r)
    BY <1>2, <2>1, <2>2, <2>3, <2>4, ClientEndsKeeps DEF Deliver, EndsTsx
  <2>5. CASE ~EndsTsx(r)
    <3>1. UNCHANGED <<flags, expires, request, reported, said, loopStop, sent, status>>
      BY <1>2, <2>5 DEF Deliver, own, tsxs
    <3>2. EndpointInv'
      BY <2>1, <2>2, <3>1, CallbackInv DEF IInv, TypeOK, EndpointTypeOK
    <3> QED BY <3>1, <3>2
        DEF IInv, TypeOK, EndpointInv, ChainInv, FlagsInv,
            RegisterRequest, RegSuccess, Contact
  <2> QED BY <2>4, <2>5
<1>3. ASSUME NEW i \in Tsx, TsxTimeout(i) \/ TransportFails(i) PROVE IInv'
  <2>1. PICK code \in {Timeout, TransportError} : LocalEnd(i, code)
    BY <1>3 DEF TsxTimeout, TransportFails
  <2>2. code \in Status \ {0} BY DEF Timeout, TransportError, Status
  <2>3. heard' \subseteq net BY <2>1 DEF LocalEnd, IInv, TypeOK, EndpointTypeOK
  <2> QED BY <2>1, <2>2, <2>3, ClientEndsKeeps DEF LocalEnd
<1>4. CASE MakeRequest BY <1>1, <1>4 DEF MakeRequest
<1>5. CASE UNCHANGED vars BY <1>1, <1>5 DEF vars, own, endpoint
<1> QED BY <1>2, <1>3, <1>4, <1>5 DEF Next

\* The invariant holds in every reachable state.
LEMMA SpecIInv == Spec => []IInv
<1> QED BY InitIInv, NextIInv, PTL DEF Spec

-----------------------------------------------------------------------------
(* The properties.                                                         *)

\* Every variable keeps its type, and there is a request from its sending on.
THEOREM TypeCorrect == Spec => []TypeOK
<1> QED BY SpecIInv, PTL DEF IInv

\* What print_reg_success says was done is what the request asked for, for every
\* combination of --clist, --cancel and --cancel-all and every --expires above 0;
\* of 0 it claims nothing for a registration.
THEOREM MessageIsTrue == Spec => []SaidIsTrue
<1>1. IInv => SaidIsTrue
  <2> SUFFICES ASSUME IInv PROVE SaidIsTrue OBVIOUS
  <2>1. said # "nothing" => request = RegisterRequest
    BY DEF IInv, FlagsInv
  <2> QED BY <2>1 DEF IInv, FlagsInv, RegSuccess, RegisterRequest, Contact, SaidIsTrue
<1> QED BY <1>1, SpecIInv, PTL

=============================================================================
