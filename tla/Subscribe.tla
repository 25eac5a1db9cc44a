----------------------------- MODULE Subscribe -----------------------------
(***************************************************************************)
(* SUBSCRIBE.  pjsip keeps the dialog and the subscription (evsub): it     *)
(* answers the challenges and receives the NOTIFY requests.  mod_subscribe *)
(* counts challenges in front of the transaction layer, and three          *)
(* callbacks of the subscription decide when sippak has seen enough.       *)
(***************************************************************************)
EXTENDS Endpoint

VARIABLES
    authTries,  \* auth_tries
    gaveUp,     \* "Authentication failed" was printed
    evsub,      \* state of the subscription (pjsip_evsub_get_state)
    timedOut    \* "Response timeout" was printed

own  == <<authTries, gaveUp, evsub, timedOut>>
vars == <<endpoint, own>>

Init ==
    /\ cmd = "subscribe"
    /\ EndpointInit
    /\ authTries = 0
    /\ gaveUp = FALSE
    /\ evsub = "sent"
    /\ timedOut = FALSE

-----------------------------------------------------------------------------
(* Callbacks of the subscription.                                          *)

\* Mutant: waits for an active subscription, whatever else happens to it.
MutStops(state) == state = "active"

\* Mutant: a subscription that is still pending releases the loop as well.
MutStopsPending(state) == state \in {"pending", "active", "terminated"}

\* on_evsub_state releases the loop in these states; a pending subscription goes on.
Stops(state) == state \in {"active", "terminated"}

OnEvsubState(state, stopped) ==
    /\ evsub' = state
    /\ loopStop' = (stopped \/ Stops(state))

\* Mutant: any failure is reported as a timeout.
MutTimesOut(code) == code \in {Timeout, TransportError}

\* on_tsx_state prints its message and stops for this status only.
TimesOut(code) == code = Timeout

\* The subscription after the end of its SUBSCRIBE: a challenge is answered while
\* there are credentials to offer, a success accepts it unless a NOTIFY was faster,
\* anything else terminates it (pjsip, external).
UsageEnds(i, code) ==
    /\ EndTsx(i, code)
    /\ timedOut' = (timedOut \/ TimesOut(code))
    /\ LET stopped == loopStop \/ TimesOut(code)
       IN  \/ /\ code \in Challenge
              /\ sent < MaxTsx
              /\ sent' = sent + 1
              /\ loopStop' = stopped
              /\ UNCHANGED evsub
           \/ /\ code \in 200..299
              /\ IF evsub = "sent"
                 THEN OnEvsubState("accepted", stopped)
                 ELSE loopStop' = stopped /\ UNCHANGED evsub
              /\ UNCHANGED sent
           \/ /\ code \notin 200..299
              /\ OnEvsubState("terminated", stopped)
              /\ UNCHANGED sent

\* A NOTIFY, possibly ahead of the answer to the SUBSCRIBE.
RxNotify(state) ==
    /\ Callback
    /\ evsub \notin {"terminated", state}
    /\ OnEvsubState(state, loopStop)
    /\ UNCHANGED <<tsxs, heard, authTries, gaveUp, timedOut>>

-----------------------------------------------------------------------------
(* The module in front of the transaction layer.                           *)

\* Mutant: off by one, the first challenge is already the last.
MutGivesUp(tries) == tries >= 1

GivesUp(tries) == tries > 1

\* Mutant: gives up without releasing the loop.
MutGiveUp ==
    /\ gaveUp' = TRUE
    /\ UNCHANGED <<loopStop, tsxs, evsub, timedOut>>

\* The challenge is consumed: the dialog never sees it.
GiveUp ==
    /\ gaveUp' = TRUE
    /\ loopStop' = TRUE
    /\ UNCHANGED <<tsxs, evsub, timedOut>>

\* The response goes on to the transaction layer.
PassOn(r) ==
    /\ IF EndsTsx(r)
       THEN UsageEnds(r.tsx, r.code)
       ELSE UNCHANGED <<loopStop, tsxs, evsub, timedOut>>
    /\ UNCHANGED gaveUp

\* on_rx_response counts every copy of every challenge.
Deliver(r) ==
    /\ Arrive(r)
    /\ authTries' = IF r.code \in Challenge THEN authTries + 1 ELSE authTries
    /\ IF r.code \in Challenge /\ GivesUp(authTries') THEN GiveUp ELSE PassOn(r)

LocalEnd(i, code) ==
    /\ Callback
    /\ Pending(i)
    /\ UsageEnds(i, code)
    /\ UNCHANGED <<authTries, gaveUp, heard>>

TsxTimeout(i) == LocalEnd(i, Timeout)
TransportFails(i) == LocalEnd(i, TransportError)

Next ==
    \/ EndpointNext /\ UNCHANGED own
    \/ \E r \in Response : Deliver(r)
    \/ \E i \in Tsx : TsxTimeout(i) \/ TransportFails(i)
    \/ \E state \in {"pending", "active", "terminated"} : RxNotify(state)

Spec == Init /\ [][Next]_vars

\* handle_events also runs the timers that have expired.
Timers == \A i \in Tsx : SF_vars(TsxTimeout(i))

FairSpec == Spec /\ LoopFairness /\ Timers

-----------------------------------------------------------------------------
(* Properties.                                                             *)

\* Types; once the second challenge is counted the loop ends with its batch, so
\* the counter, an unsigned short in the code, cannot go round.
TypeOK ==
    /\ EndpointTypeOK
    /\ authTries \in 0..BatchMax + 1
    /\ gaveUp \in BOOLEAN
    /\ evsub \in {"sent", "accepted", "pending", "active", "terminated"}
    /\ timedOut \in BOOLEAN

Concluded == evsub \in {"active", "terminated"}

\* A subscription that is merely accepted or pending is left only for a reason:
\* a step that raises the flag makes the subscription active or terminated, or
\* says that the server did not answer or refused the credentials.
StopHasOutcome ==
    [][loopStop' /\ ~loopStop => Concluded' \/ timedOut' \/ gaveUp']_vars

\* "Response timeout" is about the last SUBSCRIBE sent: it is never printed for a
\* request that was repeated with credentials, nor for one that got another answer.
\* (A server that answers 408 of its own accord has it printed as well.)
TimeoutIsTrue == timedOut => status[sent] = Timeout

\* Over TCP no challenge is seen twice: the authentication is declared failed only
\* after two transactions were challenged.
FailureIsEarnedOverTcp ==
    (gaveUp /\ proto = "tcp") => \E r \in heard : r.tsx >= 2 /\ r.code \in Challenge

\* A SUBSCRIBE ends, answered or not, unless the server accepts it and leaves it
\* pending or without NOTIFY.
SubscribeEnds == (pc = "test") ~> (pc = "exited" \/ evsub \in {"accepted", "pending"})

=============================================================================
