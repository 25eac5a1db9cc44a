------------------------------ MODULE Endpoint ------------------------------
(***************************************************************************)
(* What the commands of sippak share: the setup and main loop of main.c    *)
(* and, below them, pjsip's transaction layer, the network and a server.   *)
(*                                                                         *)
(* sippak is single threaded.  The main loop tests a flag, then calls      *)
(* pjsip_endpt_handle_events, which runs any number of callbacks (here at  *)
(* most BatchMax) before the flag is tested again.  A response first meets *)
(* the command's on_rx_response, which sees every copy of every response,  *)
(* then the transaction layer, which reports the end of each transaction   *)
(* once, with its final status.                                            *)
(*                                                                         *)
(* The module of a command EXTENDS this one, adds the command's own state  *)
(* and says what its callbacks do.                                         *)
(***************************************************************************)
EXTENDS Naturals, Sequences

CONSTANTS
    Codes,      \* the status codes a server may answer with
    MaxTsx,     \* bound: how many transactions the model has room for
    BatchMax    \* bound: callbacks run by one call of handle_events

ASSUME CodesAssumption == Codes \subseteq 100..699
ASSUME MaxTsxAssumption == MaxTsx \in Nat /\ MaxTsx >= 2
ASSUME BatchMaxAssumption == BatchMax \in Nat /\ BatchMax >= 1

VARIABLES
    cmd,        \* app.cfg.cmd
    proto,      \* app.cfg.proto: "udp" or "tcp"
    pc,         \* "setup", "test" and "poll" (main loop), "exited"
    step,       \* index into Setup(cmd)
    loopStop,   \* sippak_loop_stop
    batch,      \* callbacks run in the current handle_events
    sent,       \* client transactions started: 1..sent
    status,     \* tsx->status_code once final, 0 before (transaction layer)
    net,        \* responses a server has sent; any may arrive, any number of times
    heard       \* responses that reached the endpoint at least once

config   == <<cmd, proto>>
program  == <<config, pc, step, loopStop, batch>>
tsxs     == <<sent, status>>
endpoint == <<config, pc, step, loopStop, batch, sent, status, net, heard>>

Tsx == 1..MaxTsx
Response == [tsx : Tsx, code : Codes]

\* Statuses the transaction layer makes up when there is no response.
Timeout == 408
TransportError == 503
Status == {0, Timeout, TransportError} \cup Codes

Challenge == {401, 407}
IsFinal(c) == c >= 200

-----------------------------------------------------------------------------
(* The fallible steps of each sippak_cmd_* function, in order.  Each one   *)
(* that fails makes the function, and then main, return; "module" is       *)
(* pjsip_endpt_register_module, "send" puts the request on the wire.       *)

SetupPing    == <<"transport", "create", "tsx_layer", "module", "send">>
SetupNotify  == <<"transport", "create", "tsx_layer", "module", "send">>
SetupMessage == <<"transport", "create", "tsx_layer", "module", "send">>
SetupRefer   == <<"transport", "tsx_layer", "module", "create", "send">>

SetupPublish ==
    <<"expires", "transport", "create_client", "init_client", "credentials",
      "create", "body", "tsx_layer", "module", "send">>

SetupSubscribe ==
    <<"transport", "ua_layer", "dialog", "credentials", "evsub", "package", "module",
      "create_usage", "create", "tsx_layer", "send">>

SetupRegister ==
    <<"transport", "tsx_layer", "module", "create_client", "init_client", "credentials",
      "create", "send">>

SetupInvite ==
    <<"transport", "tsx_layer", "ua_layer", "100rel", "inv_usage", "module", "dialog",
      "credentials", "sdp", "session", "create", "send">>

Setup(c) ==
    CASE c = "ping"      -> SetupPing
      [] c = "notify"    -> SetupNotify
      [] c = "message"   -> SetupMessage
      [] c = "refer"     -> SetupRefer
      [] c = "publish"   -> SetupPublish
      [] c = "subscribe" -> SetupSubscribe
      [] c = "register"  -> SetupRegister
      [] c = "invite"    -> SetupInvite

Commands ==
    {"ping", "notify", "message", "refer", "publish", "subscribe", "register", "invite"}

Registered == \E k \in 1..step : Setup(cmd)[k] = "module"

EndpointInit ==
    /\ proto \in {"udp", "tcp"}
    /\ pc = "setup"
    /\ step = 1
    /\ loopStop = FALSE
    /\ batch = 0
    /\ sent = 0
    /\ status = [i \in Tsx |-> 0]
    /\ net = {}
    /\ heard = {}

\* Mutant: goes on after the request was sent.
MutSetupStep ==
    /\ pc = "setup"
    /\ step' = step + 1
    /\ UNCHANGED <<config, pc, loopStop, batch, tsxs, net, heard>>

SetupStep ==
    /\ pc = "setup"
    /\ Setup(cmd)[step] # "send"
    /\ step' = step + 1
    /\ UNCHANGED <<config, pc, loopStop, batch, tsxs, net, heard>>

SetupFails ==
    /\ pc = "setup"
    /\ pc' = "exited"
    /\ UNCHANGED <<config, step, loopStop, batch, tsxs, net, heard>>

SendRequest ==
    /\ pc = "setup"
    /\ Setup(cmd)[step] = "send"
    /\ pc' = "test"
    /\ sent' = 1
    /\ UNCHANGED <<config, step, loopStop, batch, status, net, heard>>

-----------------------------------------------------------------------------
(* The main loop.                                                          *)

LoopTest ==
    /\ pc = "test"
    /\ pc' = IF loopStop THEN "exited" ELSE "poll"
    /\ batch' = 0
    /\ UNCHANGED <<config, step, loopStop, tsxs, net, heard>>

\* handle_events returns: nothing more to do, or its 500 ms are over.
PollReturns ==
    /\ pc = "poll"
    /\ pc' = "test"
    /\ UNCHANGED <<config, step, loopStop, batch, tsxs, net, heard>>

\* handle_events always returns after 500 ms and the loop always comes back to
\* its test: nothing else is assumed, of the network or of the timers.
LoopFairness == WF_endpoint(LoopTest) /\ WF_endpoint(PollReturns)

-----------------------------------------------------------------------------
(* The server: any number of provisional responses to a transaction, and   *)
(* one final response, retransmitted at will (RFC 3261 17.2.2).            *)

UasRespond(r) ==
    /\ r \notin net
    /\ r.tsx <= sent
    /\ IsFinal(r.code) => \A q \in net : q.tsx = r.tsx => ~IsFinal(q.code)
    /\ net' = net \cup {r}
    /\ UNCHANGED <<program, tsxs, heard>>

\* The process is gone; only the network goes on.
Terminated ==
    /\ pc = "exited"
    /\ UNCHANGED endpoint

EndpointNext ==
    \/ SetupStep \/ SetupFails \/ SendRequest
    \/ LoopTest \/ PollReturns
    \/ \E r \in Response : UasRespond(r)
    \/ Terminated

-----------------------------------------------------------------------------
(* Parts of the actions of the commands.                                   *)

\* handle_events runs one more callback.
Callback ==
    /\ pc = "poll"
    /\ batch < BatchMax
    /\ batch' = batch + 1
    /\ UNCHANGED <<config, pc, step, net>>

\* A response arrives: over TCP once, over UDP perhaps not for the first time.
Arrive(r) ==
    /\ Callback
    /\ r \in net
    /\ proto = "tcp" => r \notin heard
    /\ heard' = heard \cup {r}

Pending(i) == i <= sent /\ status[i] = 0

\* The response ends its transaction; the transaction layer absorbs any other.
EndsTsx(r) == Pending(r.tsx) /\ IsFinal(r.code)

EndTsx(i, code) == status' = [status EXCEPT ![i] = code]

-----------------------------------------------------------------------------

EndpointTypeOK ==
    /\ cmd \in Commands
    /\ proto \in {"udp", "tcp"}
    /\ pc \in {"setup", "test", "poll", "exited"}
    /\ step \in 1..Len(Setup(cmd))
    /\ loopStop \in BOOLEAN
    /\ batch \in 0..BatchMax
    /\ sent \in 0..MaxTsx
    /\ status \in [Tsx -> Status]
    /\ net \subseteq Response
    /\ heard \subseteq net

\* The phase a user sees.
phase == CASE pc = "setup" -> "setup"
           [] pc = "exited" -> "ended"
           [] OTHER -> "waiting"

=============================================================================
