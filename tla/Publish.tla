------------------------------ MODULE Publish ------------------------------
(***************************************************************************)
(* PUBLISH.  The request, its repetition with credentials and its timeout  *)
(* belong to pjsip's publish client, which reports one final status to     *)
(* publish_cb.  mod_publish stands in front of the transaction layer and   *)
(* counts the responses it sees, each copy and each kind of them.          *)
(***************************************************************************)
EXTENDS Endpoint

CONSTANT TriesRange   \* auth_tries is an unsigned short: 2^16 values

ASSUME TriesRangeAssumption == TriesRange \in Nat /\ TriesRange >= 3

VARIABLES
    authTries,  \* auth_tries
    gaveUp,     \* "Authentication failed" was printed
    reported    \* the status publish_cb was called with, 0 before

own  == <<authTries, gaveUp, reported>>
vars == <<endpoint, own>>

Init ==
    /\ cmd = "publish"
    /\ EndpointInit
    /\ authTries = 0
    /\ gaveUp = FALSE
    /\ reported = 0

\* Mutant: releases the loop on a success only.
MutPublishCb(code) ==
    /\ reported' = code
    /\ loopStop' = (loopStop \/ code \in 200..299)
    /\ UNCHANGED sent

PublishCb(code) ==
    /\ reported' = code
    /\ loopStop' = TRUE
    /\ UNCHANGED sent

\* The publish client answers a challenge with credentials, while it has some
\* to offer, and reports anything else (pjsip, external).
ClientEnds(i, code) ==
    /\ EndTsx(i, code)
    /\ \/ PublishCb(code)
       \/ /\ code \in Challenge
          /\ sent < MaxTsx
          /\ sent' = sent + 1
          /\ UNCHANGED <<reported, loopStop>>

\* Mutant: off by one, the first challenge already counts as a refusal.
MutRefuses(tries, code) == code \in Challenge /\ tries >= 1

\* What on_rx_response takes for refused credentials.
Refuses(tries, code) == code \in Challenge /\ tries > 1

\* Mutant: gives up without releasing the loop.
MutGiveUp ==
    /\ gaveUp' = TRUE
    /\ UNCHANGED <<loopStop, reported, tsxs>>

\* The response is consumed: nothing behind mod_publish sees it.
GiveUp ==
    /\ gaveUp' = TRUE
    /\ loopStop' = TRUE
    /\ UNCHANGED <<reported, tsxs>>

\* Mutant: every copy of a final response goes to the publish client.
MutDeliver(r) ==
    /\ Arrive(r)
    /\ authTries' = (authTries + 1) % TriesRange
    /\ IF Refuses(authTries', r.code)
       THEN GiveUp
       ELSE /\ IF IsFinal(r.code)
               THEN ClientEnds(r.tsx, r.code)
               ELSE UNCHANGED <<loopStop, reported, tsxs>>
            /\ UNCHANGED gaveUp

\* Mutant: every challenge is consumed, also the first.
MutDeliverChallenge(r) ==
    /\ Arrive(r)
    /\ authTries' = (authTries + 1) % TriesRange
    /\ IF Refuses(authTries', r.code)
       THEN GiveUp
       ELSE /\ IF EndsTsx(r) /\ r.code \notin Challenge
               THEN ClientEnds(r.tsx, r.code)
               ELSE UNCHANGED <<loopStop, reported, tsxs>>
            /\ UNCHANGED gaveUp

\* on_rx_response counts the response, then consumes it or lets it pass.
Deliver(r) ==
    /\ Arrive(r)
    /\ authTries' = (authTries + 1) % TriesRange
    /\ IF Refuses(authTries', r.code)
       THEN GiveUp
       ELSE /\ IF EndsTsx(r)
               THEN ClientEnds(r.tsx, r.code)
               ELSE UNCHANGED <<loopStop, reported, tsxs>>
            /\ UNCHANGED gaveUp

LocalEnd(i, code) ==
    /\ Callback
    /\ Pending(i)
    /\ ClientEnds(i, code)
    /\ UNCHANGED <<authTries, gaveUp, heard>>

TsxTimeout(i) == LocalEnd(i, Timeout)
TransportFails(i) == LocalEnd(i, TransportError)

Next ==
    \/ EndpointNext /\ UNCHANGED own
    \/ \E r \in Response : Deliver(r)
    \/ \E i \in Tsx : TsxTimeout(i) \/ TransportFails(i)

Spec == Init /\ [][Next]_vars

\* handle_events also runs the timers that have expired: a transaction that gets
\* no answer does end.
Timers == \A i \in Tsx : SF_vars(TsxTimeout(i))

FairSpec == Spec /\ LoopFairness /\ Timers

-----------------------------------------------------------------------------
(* Properties.                                                             *)

TypeOK ==
    /\ EndpointTypeOK
    /\ authTries \in 0..TriesRange - 1
    /\ gaveUp \in BOOLEAN
    /\ reported \in Status

\* The loop is stopped by a verdict, and by nothing else: either publish_cb was
\* given a final status or the authentication was declared failed.
StopMeansVerdict == loopStop <=> (reported # 0 \/ gaveUp)

\* The status reported is the one the last request ended with: a late answer to
\* the first request never passes for the answer to the second.
ReportIsLatest == reported # 0 => reported = status[sent]

\* Whatever auth_tries has come to, counted from 0 once more after 2^16 responses
\* included, on_rx_response keeps no final answer from both ends: once one to the
\* last request was heard, either publish_cb or the module itself released the loop.
AnswerIsHeeded == \A r \in heard : r.tsx = sent /\ IsFinal(r.code) => loopStop

CredentialsRefused == sent >= 2 /\ \E r \in heard : r.tsx >= 2 /\ r.code \in Challenge

\* Over TCP, from a server that sends no provisional response, counting
\* responses amounts to counting challenges: the authentication is declared
\* failed only after the request with credentials was challenged.
FailureIsEarnedOverTcp ==
    (gaveUp /\ proto = "tcp" /\ \A r \in heard : IsFinal(r.code)) => CredentialsRefused

\* A PUBLISH always ends, answered or not.
PublishEnds == (pc = "test") ~> (pc = "exited")

\* tests/acceptance/test.publish_auth.pl: after the challenge the request is sent
\* with credentials, and only when that is challenged too comes the message that
\* the authentication failed (unless the publish client ended without credentials).
FailureIsEarned == (gaveUp /\ reported = 0) => CredentialsRefused

=============================================================================
