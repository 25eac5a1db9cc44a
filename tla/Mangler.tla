------------------------------- MODULE Mangler -------------------------------
(***************************************************************************)
(* The headers of the messages of a run.  mod_sip_mangler sees every       *)
(* request each time it is transmitted, repetitions and the ACKs that      *)
(* pjsip makes by itself included, and adds the User-Agent header and the  *)
(* custom headers it does not find.  The headers of a message are a        *)
(* circular, doubly linked list; a User-Agent header is made for each      *)
(* message, but the node of a custom header is made once, by the command   *)
(* line, and linked into one message after another.                        *)
(***************************************************************************)
EXTENDS Naturals, Sequences, FiniteSets

CONSTANTS
    HeaderName,     \* names of headers
    MaxCustom,      \* the most custom headers there may be
    CustomLists,    \* the names that the options -H may give, in order
    MaxMsg          \* bound: requests made in a run

ASSUME MaxCustomAssumption == MaxCustom \in Nat
ASSUME HeaderNameAssumption == {"Contact", "User-Agent", "Authorization"} \subseteq HeaderName
ASSUME CustomListsAssumption ==
    \A s \in CustomLists : s \in Seq(HeaderName) /\ Len(s) <= MaxCustom
ASSUME MaxMsgAssumption == MaxMsg \in Nat \ {0}

VARIABLES
    custom,     \* app.cfg.hdrs: the names of the custom headers
    ua,         \* app.cfg.user_agent was given
    cancel,     \* app.cfg.cancel
    kind,       \* the method of each message made, "none" before
    answer,     \* what came back last for each message
    retried,    \* messages repeated with credentials
    heap,       \* next and prev of every node
    wire,       \* the names in each message as it was printed, in order
    todo,       \* what the callback in progress has still to do
    lost        \* the message whose list was walked without an end, or 0

config  == <<custom, ua, cancel>>
mangler == <<config, kind, answer, retried, heap, wire, todo, lost>>

Msg == 1..MaxMsg
made == Cardinality({m \in Msg : kind[m] # "none"})

\* A message has a root, pjsip's own headers (one node for all of them), and room for
\* the headers made for it; the custom headers belong to no message.
Node == ({"root", "own", "agent", "auth"} \X Msg) \cup ({"custom"} \X (1..MaxCustom))
Root(m) == <<"root", m>>
Roots   == {Root(m) : m \in Msg}

\* Only a request that starts something has a Contact of its own.
NamesOf(node) ==
    CASE node[1] = "own"    -> IF kind[node[2]] \in {"INVITE", "OTHER"} THEN {"Contact"} ELSE {}
      [] node[1] = "agent"  -> {"User-Agent"}
      [] node[1] = "auth"   -> {"Authorization"}
      [] node[1] = "custom" -> {custom[node[2]]}
      [] OTHER              -> {}

-----------------------------------------------------------------------------
(* Lists.                                                                  *)

\* pj_list_push_back: in front of the root, without a look at the list that the
\* node was in.
PushBack(h, m, node) ==
    LET last == h.prev[Root(m)]
        succ == h.next[last]
    IN  [next |-> [h.next EXCEPT ![node] = succ, ![last] = node],
         prev |-> [h.prev EXCEPT ![node] = last, ![succ] = node]]

\* A walk that does not end in as many steps as there are nodes never does.
Steps == 4 * MaxMsg + MaxCustom

\* The nodes met on the way from the root.
Walk(h, m) ==
    LET at[k \in 0..Steps] == IF k = 0 THEN Root(m) ELSE h.next[at[k - 1]]
    IN  at

First(ks) == CHOOSE k \in ks : \A j \in ks : k <= j

\* pjsip_msg_find_hdr_by_name.  A walk that comes to the root of another message
\* reads a header that is not there, and does not come back to its own.
Find(h, m, name) ==
    LET at   == Walk(h, m)
        hits == {k \in 1..Steps : at[k] \in Roots \/ name \in NamesOf(at[k])}
        hit  == at[First(hits)]
    IN  CASE hits # {} /\ hit \notin Roots -> "found"
          [] hits # {} /\ hit = Root(m) -> "absent"
          [] OTHER -> "lost"

\* The walk comes back to its root.
Closed(h, m) ==
    LET at   == Walk(h, m)
        ends == {k \in 1..Steps : at[k] \in Roots}
    IN  ends # {} /\ at[First(ends)] = Root(m)

\* The names of a closed list, in order.
Names(h, m) ==
    LET at  == Walk(h, m)
        end == First({k \in 1..Steps : at[k] \in Roots})
    IN  [k \in 1..(end - 1) |-> NamesOf(at[k])]

-----------------------------------------------------------------------------
(* sippak_add_sip_headers.                                                 *)

\* Mutant: adds a header without looking for it.
MutAddHeader(s, m, node, name, given) ==
    IF s.lost \/ ~given THEN s ELSE [s EXCEPT !.heap = PushBack(s.heap, m, node)]

\* Looks for a header and adds it if it is absent and given.
AddHeader(s, m, node, name, given) ==
    LET there == Find(s.heap, m, name)
    IN  IF s.lost \/ there = "lost" THEN [s EXCEPT !.lost = TRUE]
        ELSE IF there = "absent" /\ given THEN [s EXCEPT !.heap = PushBack(s.heap, m, node)]
        ELSE s

AddAgent(m) ==
    AddHeader([heap |-> heap, lost |-> FALSE], m, <<"agent", m>>, "User-Agent", ua)

AddCustom(s, m, i) == AddHeader(s, m, <<"custom", i>>, custom[i], TRUE)

\* What there is after each of the custom headers.
AddAllCustom(start, m) ==
    LET after[i \in 0..Len(custom)] ==
            IF i = 0 THEN start ELSE AddCustom(after[i - 1], m, i)
    IN  after

\* Mutant: gives up the custom headers when the message has a User-Agent.
MutAddSipHeaders(m) ==
    IF Find(heap, m, "User-Agent") = "found" \/ ua THEN AddAgent(m)
    ELSE AddAllCustom(AddAgent(m), m)[Len(custom)]

AddSipHeaders(m) == AddAllCustom(AddAgent(m), m)[Len(custom)]

-----------------------------------------------------------------------------
(* What a callback does, one thing after the other.                        *)

Make(k) == [op |-> "make", kind |-> k, msg |-> 0]
Send(m) == [op |-> "send", kind |-> "none", msg |-> m]
Auth(m) == [op |-> "auth", kind |-> "none", msg |-> m]

ManglerInit ==
    /\ custom \in CustomLists
    /\ ua \in BOOLEAN
    /\ cancel \in BOOLEAN
    /\ kind = [m \in Msg |-> "none"]
    /\ answer = [m \in Msg |-> "none"]
    /\ retried = {}
    /\ heap = [next |-> [n \in Node |-> n], prev |-> [n \in Node |-> n]]
    /\ wire = [m \in Msg |-> <<>>]
    /\ \E k \in {"INVITE", "OTHER"} : todo = <<Make(k)>>
    /\ lost = 0

Do(op) ==
    /\ lost = 0
    /\ todo # <<>>
    /\ Head(todo).op = op

MakeMessage ==
    /\ Do("make")
    /\ LET m == made + 1
       IN  /\ kind' = [kind EXCEPT ![m] = Head(todo).kind]
           /\ heap' = PushBack(heap, m, <<"own", m>>)
           /\ todo' = <<Send(m)>> \o Tail(todo)
    /\ UNCHANGED <<config, answer, retried, wire, lost>>

\* on_tx_request; what was printed before is not printed again.
Transmit ==
    /\ Do("send")
    /\ LET m == Head(todo).msg
           s == AddSipHeaders(m)
       IN  IF s.lost \/ (wire[m] = <<>> /\ ~Closed(s.heap, m))
           THEN lost' = m /\ UNCHANGED <<heap, wire>>
           ELSE /\ heap' = s.heap
                /\ wire' = [wire EXCEPT ![m] = IF @ = <<>> THEN Names(s.heap, m) ELSE @]
                /\ UNCHANGED lost
    /\ todo' = Tail(todo)
    /\ UNCHANGED <<config, kind, answer, retried>>

\* pjsip_auth_clt_reinit_req looks through all headers for credentials of its own type,
\* adds new ones and has the message printed again.
Reinit ==
    /\ Do("auth")
    /\ LET m == Head(todo).msg
       IN  IF ~Closed(heap, m)
           THEN lost' = m /\ UNCHANGED <<heap, wire>>
           ELSE /\ heap' = PushBack(heap, m, <<"auth", m>>)
                /\ wire' = [wire EXCEPT ![m] = <<>>]
                /\ UNCHANGED lost
    /\ todo' = Tail(todo)
    /\ UNCHANGED <<config, kind, answer, retried>>

-----------------------------------------------------------------------------
(* What makes sippak, or pjsip for it, send something.                     *)

Makes(work) == {k \in DOMAIN work : work[k].op = "make"}

\* An event, once all the work for the one before is done.
Event(work) ==
    /\ lost = 0
    /\ todo = <<>>
    /\ made + Cardinality(Makes(work)) <= MaxMsg
    /\ todo' = work
    /\ UNCHANGED <<config, kind, heap, wire, lost>>

Open(m) == kind[m] \notin {"none", "ACK"} /\ answer[m] \in {"none", "ringing"}
Cancelled == \E m \in Msg : kind[m] = "CANCEL"

Answers(m, a) == answer' = [answer EXCEPT ![m] = a]

\* A timer expires, or the final answer to an INVITE comes again and is acknowledged
\* with the ACK it had.
Retransmit(m) ==
    /\ \/ kind[m] = "ACK"
       \/ Open(m) /\ (kind[m] = "INVITE" => answer[m] = "none")
    /\ Event(<<Send(m)>>)
    /\ UNCHANGED <<answer, retried>>

\* The transaction layer acknowledges the challenge before the INVITE is repeated.
Challenge(m) ==
    /\ Open(m)
    /\ kind[m] # "CANCEL"
    /\ m \notin retried
    /\ ~Cancelled
    /\ Event((IF kind[m] = "INVITE" THEN <<Make("ACK")>> ELSE <<>>) \o <<Auth(m), Send(m)>>)
    /\ Answers(m, "none")
    /\ retried' = retried \cup {m}

\* Mutant: updates a ringing call instead of ending it.
MutRing(m) ==
    /\ Open(m)
    /\ kind[m] = "INVITE"
    /\ Answers(m, "ringing")
    /\ Event(IF cancel /\ ~Cancelled THEN <<Make("UPDATE")>> ELSE <<>>)
    /\ UNCHANGED retried

\* call_on_state_changed cancels an early call.
Ring(m) ==
    /\ Open(m)
    /\ kind[m] = "INVITE"
    /\ Answers(m, "ringing")
    /\ Event(IF cancel /\ ~Cancelled THEN <<Make("CANCEL")>> ELSE <<>>)
    /\ UNCHANGED retried

Succeed(m) ==
    /\ Open(m)
    /\ Answers(m, "success")
    /\ Event(IF kind[m] = "INVITE" THEN <<Make("ACK"), Make("BYE")>> ELSE <<>>)
    /\ UNCHANGED retried

\* mod_invite acknowledges the end of a cancelled INVITE, and so does the transaction
\* layer.
Refuse(m) ==
    /\ Open(m)
    /\ Answers(m, "refusal")
    /\ \/ kind[m] = "INVITE" /\ Cancelled /\ Event(<<Make("ACK"), Make("ACK")>>)
       \/ Event(IF kind[m] = "INVITE" THEN <<Make("ACK")>> ELSE <<>>)
    /\ UNCHANGED retried

ManglerNext ==
    \/ MakeMessage \/ Transmit \/ Reinit
    \/ \E m \in Msg : Retransmit(m) \/ Challenge(m) \/ Ring(m) \/ Succeed(m) \/ Refuse(m)

ManglerSpec == ManglerInit /\ [][ManglerNext]_mangler

-----------------------------------------------------------------------------
(* Properties.                                                             *)

ManglerTypeOK ==
    /\ custom \in CustomLists
    /\ ua \in BOOLEAN /\ cancel \in BOOLEAN
    /\ kind \in [Msg -> {"none", "INVITE", "ACK", "CANCEL", "BYE", "OTHER"}]
    /\ answer \in [Msg -> {"none", "ringing", "success", "refusal"}]
    /\ retried \subseteq Msg
    /\ heap \in [next : [Node -> Node], prev : [Node -> Node]]
    /\ wire \in [Msg -> Seq(SUBSET HeaderName)]
    /\ \A m \in Msg : wire[m] # <<>> => kind[m] # "none"
    /\ lost \in 0..made

Count(names, name) == Cardinality({k \in DOMAIN names : name \in names[k]})

\* Whatever is put on the wire, the ACKs of pjsip and requests repeated with
\* credentials included, has each custom header exactly once, even if the user
\* gives one twice or one that the message has anyway, and one User-Agent.  Only
\* credentials that pjsip adds do not take the place of a header of the user's.
WireCarriesHeaders ==
    \A m \in Msg : wire[m] # <<>> =>
        /\ \A i \in DOMAIN custom :
               /\ Count(wire[m], custom[i]) >= 1
               /\ custom[i] # "Authorization" => Count(wire[m], custom[i]) = 1
        /\ ua => Count(wire[m], "User-Agent") = 1

\* Sharing the nodes does harm only to a message that is handled again after a newer
\* one took a custom header from it: never to the newest message, and so to none of
\* a command that sends a single request.
LossNeedsNewerMessage ==
    lost # 0 =>
        \E m \in (lost + 1)..made, i \in DOMAIN custom :
            \E k \in DOMAIN wire[m] : custom[i] \in wire[m][k]

\* usage.c: of --header, "Add custom header to request.  Multiple custom headers (up
\* to 12) can be added": no list of headers loses its end.
HeadersCanBeAdded == lost = 0

=============================================================================
