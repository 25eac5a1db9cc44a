------------------------------ MODULE Register ------------------------------
(***************************************************************************)
(* REGISTER.  Three flags of the command line choose between registering a *)
(* contact, removing it, removing all contacts and listing them.  They are *)
(* read twice: when the request is made, and when the answer is explained. *)
(* The request, its repetition with credentials and its timeout belong to  *)
(* pjsip's registration client, which reports one status to reg_callback.  *)
(***************************************************************************)
EXTENDS Endpoint

CONSTANT ExpiresValues   \* the values of --expires

ASSUME ExpiresValuesAssumption == ExpiresValues \subseteq Nat

VARIABLES
    flags,      \* is_clist, cancel, cancel_all_reg
    expires,    \* app.cfg.expires
    request,    \* the Contact and Expires headers of the REGISTER
    reported,   \* the status reg_callback was called with, 0 before
    said        \* which of its messages reg_callback printed

own  == <<flags, expires, request, reported, said>>
vars == <<endpoint, own>>

Flag == {"clist", "cancel", "cancelAll"}
NoRequest == [contact |-> "unset", expires |-> 0]

Init ==
    /\ cmd = "register"
    /\ EndpointInit
    /\ flags \in SUBSET Flag
    /\ expires \in ExpiresValues
    /\ request = NoRequest
    /\ reported = 0
    /\ said = "nothing"

\* The contacts pjsip_regc_init is given.
Contact == IF "clist" \in flags THEN "none" ELSE "own"

\* Mutant: looks at --cancel first.
MutRegisterRequest ==
    CASE "cancel" \in flags    -> [contact |-> Contact, expires |-> 0]
      [] "cancelAll" \in flags -> [contact |-> "*", expires |-> 0]
      [] OTHER                 -> [contact |-> Contact, expires |-> expires]

\* What pjsip_regc_unregister_all, _unregister and _register put in the request.
RegisterRequest ==
    IF "cancelAll" \in flags THEN [contact |-> "*", expires |-> 0]
    ELSE IF "cancel" \in flags THEN [contact |-> Contact, expires |-> 0]
    ELSE [contact |-> Contact, expires |-> expires]

\* The request is made between the setup of the client and its sending.
MakeRequest ==
    /\ EndpointNext
    /\ request' = IF sent' # sent THEN RegisterRequest ELSE request
    /\ UNCHANGED <<flags, expires, reported, said>>

\* print_reg_success
RegSuccess ==
    IF "cancelAll" \in flags THEN "cancelledAll"
    ELSE IF "cancel" \in flags THEN "unregistered"
    ELSE IF "clist" \in flags THEN "listed"
    ELSE "registered"

\* Mutant: waits for a better answer after a failed authentication.
MutRegCallback(code) ==
    /\ reported' = code
    /\ said' = IF code = 200 THEN RegSuccess ELSE IF code = 401 THEN "authFailed" ELSE "response"
    /\ loopStop' = (loopStop \/ code # 401)
    /\ UNCHANGED <<sent, flags, expires, request>>

\* A 407 is printed like any other response.
RegCallback(code) ==
    /\ reported' = code
    /\ said' = IF code = 200 THEN RegSuccess ELSE IF code = 401 THEN "authFailed" ELSE "response"
    /\ loopStop' = TRUE
    /\ UNCHANGED <<sent, flags, expires, request>>

\* The registration client answers a challenge with credentials while it has
\* some to offer, and reports anything else (pjsip, external).
ClientEnds(i, code) ==
    /\ EndTsx(i, code)
    /\ \/ RegCallback(code)
       \/ /\ code \in Challenge
          /\ sent < MaxTsx
          /\ sent' = sent + 1
          /\ UNCHANGED <<own, loopStop>>

\* mod_register has no on_rx_response of its own.
Deliver(r) ==
    /\ Arrive(r)
    /\ IF EndsTsx(r)
       THEN ClientEnds(r.tsx, r.code)
       ELSE UNCHANGED <<own, loopStop, tsxs>>

LocalEnd(i, code) ==
    /\ Callback
    /\ Pending(i)
    /\ ClientEnds(i, code)
    /\ UNCHANGED heard

TsxTimeout(i) == LocalEnd(i, Timeout)
TransportFails(i) == LocalEnd(i, TransportError)

Next ==
    \/ MakeRequest
    \/ \E r \in Response : Deliver(r)
    \/ \E i \in Tsx : TsxTimeout(i) \/ TransportFails(i)

Spec == Init /\ [][Next]_vars

\* handle_events also runs the timers that have expired.
Timers == \A i \in Tsx : SF_vars(TsxTimeout(i))

FairSpec == Spec /\ LoopFairness /\ Timers

-----------------------------------------------------------------------------
(* Properties.                                                             *)

\* Types; the request exists as soon as something was sent.
TypeOK ==
    /\ EndpointTypeOK
    /\ flags \subseteq Flag
    /\ expires \in ExpiresValues
    /\ request \in [contact : {"unset", "none", "own", "*"}, expires : ExpiresValues \cup {0}]
    /\ request = NoRequest <=> sent = 0
    /\ reported \in Status
    /\ said \in {"nothing", "cancelledAll", "unregistered", "listed", "registered",
                 "authFailed", "response"}

\* A success is explained by what the request on the wire asked for, whatever flags
\* are combined: they are read in the same order when the request is made and when
\* its answer comes.  With --clist there is no contact for --cancel to remove.  With
\* --expires 0 the last line would not hold: register.c does not check the value,
\* which usage.c wants above 0, and says "registered" of a request that removes the
\* contact.
SaidIsTrue ==
    /\ said = "cancelledAll" => request = [contact |-> "*", expires |-> 0]
    /\ said = "unregistered" =>
           request.expires = 0 /\ (request.contact = "own" \/ "clist" \in flags)
    /\ said = "listed" => request.contact = "none"
    /\ said = "registered" /\ expires > 0 =>
           request = [contact |-> "own", expires |-> expires] /\ request.expires > 0

\* A REGISTER always ends, answered or not.
RegisterEnds == (pc = "test") ~> (pc = "exited")

=============================================================================
