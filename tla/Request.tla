------------------------------ MODULE Request ------------------------------
(***************************************************************************)
(* The commands that send one out-of-dialog request and watch for its      *)
(* answer themselves: PING (OPTIONS), NOTIFY, MESSAGE and REFER.  The four *)
(* source files hold the same on_rx_response and the same send_cb; they    *)
(* differ in the order of their setup.                                     *)
(***************************************************************************)
EXTENDS Endpoint

VARIABLES
    authTries,  \* auth_tries
    gaveUp      \* "Authentication failed" was printed

own  == <<authTries, gaveUp>>
vars == <<endpoint, own>>

Init ==
    /\ cmd \in {"ping", "notify", "message", "refer"}
    /\ EndpointInit
    /\ authTries = 0
    /\ gaveUp = FALSE

-----------------------------------------------------------------------------
(* The callbacks.  Both may raise the loop flag, so each is given whether  *)
(* it is raised already.                                                   *)

\* Mutant: only 401 is taken for a challenge.
MutOnRxResponse401(code) == code # 401

\* Mutant: only a success releases the loop.
MutOnRxResponse2xx(code) == code \in 200..299

\* on_rx_response calls sippak_loop_cancel for every code but a challenge.
OnRxResponse(code) == code \notin Challenge

\* Mutant: off by one, the first challenge is already the last.
MutGivesUpEarly(tries) == tries >= 1

\* Mutant: off by one, the third challenge is the last.
MutGivesUpLate(tries) == tries > 2

\* The second challenge is the last.
GivesUp(tries) == tries > 1

\* Mutant: gives up without releasing the loop.
MutGiveUp(stopped) ==
    /\ gaveUp' = TRUE
    /\ loopStop' = stopped
    /\ UNCHANGED sent

GiveUp(stopped) ==
    /\ gaveUp' = TRUE
    /\ loopStop' = TRUE
    /\ UNCHANGED sent

\* Mutant: does not wait for the answer to the repeated request.
MutResend(stopped) ==
    /\ sent' \in {sent, sent + 1} \cap 0..MaxTsx
    /\ loopStop' = TRUE
    /\ UNCHANGED gaveUp

\* pjsip may fail to set up the credentials, to rebuild the request or to send
\* it; send_cb then returns with nothing sent and nothing else done.
Resend(stopped) ==
    /\ sent' \in {sent, sent + 1} \cap 0..MaxTsx
    /\ loopStop' = stopped
    /\ UNCHANGED gaveUp

\* send_cb for transaction i, which ended with `code`: only a challenge matters.
SendCb(i, code, stopped) ==
    /\ EndTsx(i, code)
    /\ IF code \in Challenge
       THEN /\ authTries' = authTries + 1
            /\ IF GivesUp(authTries + 1) THEN GiveUp(stopped) ELSE Resend(stopped)
       ELSE /\ loopStop' = stopped
            /\ UNCHANGED <<authTries, gaveUp, sent>>

\* on_rx_response sees the response first, send_cb only the end of a transaction.
Deliver(r) ==
    /\ Arrive(r)
    /\ LET stopped == loopStop \/ (Registered /\ OnRxResponse(r.code))
       IN  IF EndsTsx(r)
           THEN SendCb(r.tsx, r.code, stopped)
           ELSE /\ loopStop' = stopped
                /\ UNCHANGED <<own, tsxs>>

\* The transaction layer gives up (timer F) or the transport fails: send_cb is
\* called with a status made up locally, and no response to go with it.
LocalEnd(i, code) ==
    /\ Callback
    /\ Pending(i)
    /\ SendCb(i, code, loopStop)
    /\ UNCHANGED heard

TsxTimeout(i) == LocalEnd(i, Timeout)
TransportFails(i) == LocalEnd(i, TransportError)

Next ==
    \/ EndpointNext /\ UNCHANGED own
    \/ \E r \in Response : Deliver(r)
    \/ \E i \in Tsx : TsxTimeout(i) \/ TransportFails(i)

Spec == Init /\ [][Next]_vars

\* A transaction left open times out (timer F), whatever else arrives.
Timers == \A i \in Tsx : SF_vars(TsxTimeout(i))

FairSpec == Spec /\ LoopFairness /\ Timers

-----------------------------------------------------------------------------
(* Properties.                                                             *)

\* The types of the variables, and at most one count for each transaction.
TypeOK ==
    /\ EndpointTypeOK
    /\ authTries \in 0..MaxTsx
    /\ gaveUp \in BOOLEAN

Answers == {r \in heard : r.code \notin Challenge}

\* The loop flag means what the user may conclude from a sippak that returns:
\* it is up exactly when something other than a challenge was heard, or when
\* the authentication was declared failed.  Challenges, their retransmissions
\* and late copies never raise it, and no answer fails to.
StopMeansAnswer == loopStop <=> (Answers # {} \/ gaveUp)

\* "Authentication failed" is about the credentials: it is printed only after
\* the plain request and the one with credentials were both challenged, each in
\* its own transaction, however often the first challenge is retransmitted.
FailureNeedsTwoChallenges ==
    gaveUp => sent = 2 /\ status[1] \in Challenge /\ status[2] \in Challenge

\* The retry is waited for: a sippak that sent credentials returns only when it
\* heard about that second request, unless a provisional response, which
\* on_rx_response does not tell from an answer, released the loop before.
RetryIsAwaited ==
    (pc = "exited" /\ sent = 2 /\ \A r \in heard : IsFinal(r.code))
        => \E r \in heard : r.tsx = 2

\* No server can make sippak send more than the request and one repetition of
\* it, and the repetition answers a challenge: nothing else starts a second
\* transaction, and no step starts one when two were started.
OnlyChallengeStartsRetry ==
    [][sent' # sent =>
          \/ pc = "setup" /\ sent' = 1
          \/ sent = 1 /\ sent' = 2 /\ status'[1] \in Challenge]_vars

\* Once something other than a challenge was heard, sippak returns to its shell.
AnsweredRunEnds == (Answers # {}) ~> (pc = "exited")

\* Once the request with credentials was refused, sippak returns as well.
RefusedRunEnds == (status[2] \in Challenge) ~> (pc = "exited")

\* The challenge of the plain request was not followed by a second request: send_cb
\* could not set up, rebuild or send it, and returned.
RetryFailed == sent = 1 /\ status[1] \in Challenge

\* A sippak that waits can wait forever for two reasons only: its transaction ended
\* without a response, of which send_cb makes nothing, or the request with credentials
\* could not be sent.  Challenges, their copies and provisional responses, in whatever
\* order they meet the timers, keep no other waiting.
RequestEnds ==
    (pc = "test") ~> \/ pc = "exited"
                     \/ RetryFailed
                     \/ \E i \in Tsx : status[i] \in {Timeout, TransportError}

\* tests/acceptance/test.ping_retrans.pl: a PING nobody answers times out and
\* the command returns.
TimedOutRunEnds == (\E i \in Tsx : status[i] = Timeout) ~> (pc = "exited")

\* What the user was told.
said == (IF Answers # {} THEN {"answered"} ELSE {})
            \cup (IF gaveUp THEN {"authFailed"} ELSE {})

Abstract == INSTANCE OneShot WITH requests <- sent

\* PING, NOTIFY, MESSAGE and REFER are one-shot commands.
ImplementsOneShot == Abstract!Spec

=============================================================================
