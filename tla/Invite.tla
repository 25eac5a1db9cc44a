------------------------------- MODULE Invite -------------------------------
(***************************************************************************)
(* INVITE.  pjsip keeps the call (inv): it answers the challenges, sends   *)
(* the ACK of a success and calls call_on_state_changed at each change of  *)
(* state, which cancels an early call if --cancel was given and hangs up a *)
(* confirmed one.  mod_invite, in front of the transaction layer, watches  *)
(* for the 487 of a cancelled INVITE.                                      *)
(*                                                                         *)
(* INVITE, its repetition with credentials, CANCEL and BYE are all client  *)
(* transactions: method tells them apart.                                  *)
(***************************************************************************)
EXTENDS Endpoint

VARIABLES
    earlyCancel,    \* early_cancel
    inv,            \* inv->state, lower case; "connecting" is passed through at once
    method,         \* what each transaction sent carries
    acked,          \* INVITE transactions whose final response the call acknowledged
    remoteBye       \* the other side hung up

own  == <<earlyCancel, inv, method, acked, remoteBye>>
vars == <<endpoint, own>>

Init ==
    /\ cmd = "invite"
    /\ EndpointInit
    /\ earlyCancel \in BOOLEAN
    /\ inv = "null"
    /\ method = [i \in Tsx |-> "none"]
    /\ acked = {}
    /\ remoteBye = FALSE

Success == 200..299

Sent(m) == {i \in 1..sent : method[i] = m}
Rang(i) == \E r \in heard : r.tsx = i /\ ~IsFinal(r.code)

-----------------------------------------------------------------------------
(* call_on_state_changed.                                                  *)

\* pjsip makes and sends a request of the call, or fails to (the transaction layer
\* refuses a CANCEL while one is pending); sippak looks no further.
Start(m) ==
    \/ UNCHANGED <<sent, method>>
    \/ /\ sent < MaxTsx
       /\ m = "CANCEL" => \A i \in Sent("CANCEL") : ~Pending(i)
       /\ sent' = sent + 1
       /\ method' = [method EXCEPT ![sent + 1] = m]

\* Mutant: leaves it to on_rx_response to release the loop.
MutDisconnected(stopped) ==
    /\ inv' = "disconnected"
    /\ loopStop' = stopped
    /\ UNCHANGED <<sent, method>>

Disconnected(stopped) ==
    /\ inv' = "disconnected"
    /\ loopStop' = TRUE
    /\ UNCHANGED <<sent, method>>

Early(stopped) ==
    /\ inv' = "early"
    /\ loopStop' = stopped
    /\ IF earlyCancel THEN Start("CANCEL") ELSE UNCHANGED <<sent, method>>

\* Mutant: an answered call is taken for a completed one.
MutConfirmed(stopped) ==
    /\ inv' = "confirmed"
    /\ loopStop' = TRUE
    /\ UNCHANGED <<sent, method>>

Confirmed(stopped) ==
    /\ inv' = "confirmed"
    /\ loopStop' = stopped
    /\ Start("BYE")

\* No message and no change of the call's state.
Ignored(stopped) ==
    /\ loopStop' = stopped
    /\ UNCHANGED <<sent, method, inv>>

-----------------------------------------------------------------------------
(* The call (pjsip, external).                                             *)

\* A challenge is answered with credentials, while there are some to offer.
Repeats(i, stopped) ==
    /\ sent < MaxTsx
    /\ sent' = sent + 1
    /\ method' = [method EXCEPT ![sent + 1] = method[i]]
    /\ loopStop' = stopped
    /\ inv' = IF method[i] = "INVITE" THEN "calling" ELSE inv

\* The end of an INVITE: answered, challenged, or refused.  A cancelled INVITE is
\* not repeated.
InviteEnds(i, code, stopped) ==
    \/ code \in Success /\ Confirmed(stopped)
    \/ code \in Challenge /\ Sent("CANCEL") = {} /\ Repeats(i, stopped)
    \/ code \notin Success /\ Disconnected(stopped)

\* Assumed: however a CANCEL ends, the call's end is that of its INVITE, to come
\* (RFC 3261 9.1).
CancelEnds(stopped) == Ignored(stopped)

ByeEnds(i, code, stopped) ==
    \/ code \in Challenge /\ Repeats(i, stopped)
    \/ Disconnected(stopped)

\* Nothing happens to a call that is over.
CallEnds(i, code, stopped) ==
    /\ EndTsx(i, code)
    /\ IF inv = "disconnected"
       THEN Ignored(stopped)
       ELSE \/ method[i] = "INVITE" /\ InviteEnds(i, code, stopped)
            \/ method[i] = "CANCEL" /\ CancelEnds(stopped)
            \/ method[i] = "BYE" /\ ByeEnds(i, code, stopped)

\* A provisional response with a tag makes the call early, again and again; 100
\* has no tag.
Progress(r, stopped) ==
    /\ UNCHANGED status
    /\ IF r.code # 100 /\ Pending(r.tsx) /\ method[r.tsx] = "INVITE" /\ inv # "disconnected"
       THEN Early(stopped)
       ELSE Ignored(stopped)

-----------------------------------------------------------------------------
(* mod_invite and the callbacks of the transaction layer.                  *)

\* Mutant: any final response ends the wait.
MutReleases(code) == IsFinal(code)

\* on_rx_response releases the loop for this status.
Releases(code) == code = 487

\* on_rx_response acknowledges a 487, whichever copy it is, or fails to make the
\* ACK; the call acknowledges a success.
Acks(r) ==
    IF r.code \in Success /\ method[r.tsx] = "INVITE"
    THEN acked' = acked \cup {r.tsx}
    ELSE \/ UNCHANGED acked
         \/ Releases(r.code) /\ acked' = acked \cup {r.tsx}

Deliver(r) ==
    /\ Arrive(r)
    /\ Acks(r)
    /\ LET stopped == loopStop \/ Releases(r.code)
       IN  IF EndsTsx(r) THEN CallEnds(r.tsx, r.code, stopped)
           ELSE Progress(r, stopped)
    /\ UNCHANGED <<earlyCancel, remoteBye>>

LocalEnd(i, code) ==
    /\ Callback
    /\ Pending(i)
    /\ CallEnds(i, code, loopStop)
    /\ UNCHANGED <<heard, earlyCancel, acked, remoteBye>>

\* An INVITE that rang waits for ever, until a CANCEL gives it 64*T1 to end.
TsxTimeout(i) ==
    /\ Pending(i)
    /\ (method[i] = "INVITE" /\ Rang(i)) => Sent("CANCEL") # {}
    /\ LocalEnd(i, Timeout)

TransportFails(i) == LocalEnd(i, TransportError)

\* The other side hangs up.
RxBye ==
    /\ Callback
    /\ inv = "confirmed"
    /\ remoteBye' = TRUE
    /\ Disconnected(loopStop)
    /\ UNCHANGED <<status, heard, earlyCancel, acked>>

\* What a server may answer: 487 and provisional responses to an INVITE only, no
\* challenge to a CANCEL.
Plausible(r) ==
    \/ method[r.tsx] = "INVITE"
    \/ method[r.tsx] = "CANCEL" /\ r.code \notin Challenge \cup {487} /\ IsFinal(r.code)
    \/ method[r.tsx] = "BYE" /\ r.code # 487 /\ IsFinal(r.code)

\* Sending the INVITE starts the call.
Main ==
    /\ EndpointNext
    /\ IF sent' # sent
       THEN inv' = "calling" /\ method' = [method EXCEPT ![1] = "INVITE"]
       ELSE UNCHANGED <<inv, method>>
    /\ \A r \in net' \ net : Plausible(r)
    /\ UNCHANGED <<earlyCancel, acked, remoteBye>>

Next ==
    \/ Main
    \/ \E r \in Response : Deliver(r)
    \/ \E i \in Tsx : TsxTimeout(i) \/ TransportFails(i)
    \/ RxBye

Spec == Init /\ [][Next]_vars

\* handle_events also runs the timers that have expired.
Timers == \A i \in Tsx : SF_vars(TsxTimeout(i))

FairSpec == Spec /\ LoopFairness /\ Timers

-----------------------------------------------------------------------------
(* Properties.                                                             *)

TypeOK ==
    /\ EndpointTypeOK
    /\ earlyCancel \in BOOLEAN
    /\ inv \in {"null", "calling", "early", "confirmed", "disconnected"}
    /\ method \in [Tsx -> {"none", "INVITE", "CANCEL", "BYE"}]
    /\ \A i \in Tsx : method[i] = "none" <=> i > sent
    /\ acked \subseteq Tsx
    /\ remoteBye \in BOOLEAN

\* The loop is released exactly when the call is over: the 487 that mod_invite
\* sees in front of the transaction layer never releases it while the call stands,
\* and the end of the call always does.
StopMeansOver == loopStop <=> inv = "disconnected"

Answered == \E i \in Sent("INVITE") : status[i] \in Success

\* sippak leaves no call standing: when it returns, an answered INVITE, one that
\* crossed its CANCEL included, was acknowledged and hung up by one side.
AnsweredCallIsClosed ==
    (pc = "exited" /\ Answered) =>
        /\ \E i \in acked : method[i] = "INVITE" /\ status[i] \in Success
        /\ Sent("BYE") # {} \/ remoteBye

Ringing == \E i \in Sent("INVITE") : Pending(i) /\ Rang(i)

\* A call always ends, unless it is left ringing, or the BYE could not be sent and
\* the other side does not hang up either.
InviteTerminates ==
    (pc = "test") ~> \/ pc = "exited"
                     \/ Ringing /\ Sent("CANCEL") = {}
                     \/ inv = "confirmed" /\ Sent("BYE") = {}

=============================================================================
