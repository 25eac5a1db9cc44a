--------------------------- MODULE Headers_proofs ---------------------------
(***************************************************************************)
(* What TLAPS proves about Options, for all limits and any number of       *)
(* options in any order, and about Mangler, for any custom headers and any *)
(* number of messages: what the command line accepts, and what becomes of  *)
(* the headers that it gives.                                              *)
(***************************************************************************)
EXTENDS Options, Mangler, FiniteSetTheorems, SequenceTheorems, WellFoundedInduction, TLAPS

-----------------------------------------------------------------------------
(* Options.  The inductive invariant.                                      *)

\* One header too many is kept, and it overwrites the count of proxies, which
\* then lets no other proxy in.
CountInv ==
    /\ hdrCnt <= MaxHeaders => proxyCnt = Len(proxies)
    /\ hdrCnt > MaxHeaders => proxyCnt = Garbage

\* The first proxy kept is a loose route.
LooseInv == proxies # <<>> => Head(proxies)

ListInv == CountInv /\ LooseInv

\* What the kind of event and of document come from: the option of that name,
\* or --mwi once the options are over.
KindInv ==
    /\ event = "none" => presEv \in {"unknown", "mwi"}
    /\ event \in {"mwi", "message-summary"} => presEv = "mwi"
    /\ ctypeE = "pidf" => ctypeMedia = "pidf+xml"
    /\ ctypeE = "xpidf" => ctypeMedia = "xpidf+xml"
    /\ event = "none" /\ presEv = "mwi" => isMwi
    /\ (pc \in {"ready", "made"} /\ isMwi) =>
           presEv = "mwi" /\ ctypeE = "mwi" /\ ctypeMedia = "simple-message-summary"

\* The message comes from the final values.
RequestInv ==
    pc = "made" => /\ cmd = "notify" => request = NotifyRequest
                   /\ cmd = "subscribe" => request = SubscribeRequest

IInv == TypeOK /\ ListInv /\ KindInv /\ RequestInv

-----------------------------------------------------------------------------

\* sippak_init sets up the invariant.
LEMMA InitIInv == Init => IInv
<1> SUFFICES ASSUME Init PROVE IInv OBVIOUS
<1> USE LimitsAssumption DEF Init
<1>1. proxies \in Seq(BOOLEAN) /\ Len(proxies) = 0 BY EmptySeq
<1>2. isMwi \in BOOLEAN /\ expires \in BOOLEAN BY Zenon
<1>3. TypeOK BY <1>1, <1>2 DEF TypeOK, Commands, NoRequest
<1>4. ListInv
  <2>1. hdrCnt <= MaxHeaders /\ ~(hdrCnt > MaxHeaders) /\ proxyCnt = Len(proxies) BY <1>1
  <2>2. CountInv BY <2>1 DEF CountInv
  <2>3. LooseInv BY DEF LooseInv
  <2> QED BY <2>2, <2>3 DEF ListInv
<1>5. KindInv BY DEF KindInv
<1>6. RequestInv BY DEF RequestInv
<1> QED BY <1>3, <1>4, <1>5, <1>6 DEF IInv

\* A step of the parser that leaves the lists alone keeps their invariant.
LEMMA ListsKept == ASSUME IInv, UNCHANGED lists PROVE ListInv'
BY DEF IInv, ListInv, CountInv, LooseInv, lists

\* An option that says nothing of events and documents keeps theirs; it leaves
\* the parser parsing or ends it without a request.
LEMMA KindsKept ==
    ASSUME IInv, UNCHANGED kinds, pc' \notin {"ready", "made"}
    PROVE  KindInv' /\ RequestInv'
BY DEF IInv, KindInv, RequestInv, kinds

\* The kinds a command makes a message of have their types.
LEMMA MessageTypes ==
    ASSUME TypeOK
    PROVE  /\ NotifyRequest.event \in Events \cup {"none"}
           /\ PublishRequest.event \in Events \cup {"none"}
           /\ SubscribeRequest.event \in Events \cup {"none"}
           /\ MessageRequest.event \in Events \cup {"none"}
           /\ NoRequest.event \in Events \cup {"none"}
<1> USE DEF TypeOK, Events, NoRequest
<1>1. NotifyEvent \in Events \cup {"none"} BY DEF NotifyEvent, NotifyKind
<1>2. NotifyRequest.event = NotifyEvent BY DEF NotifyRequest
<1>3. PublishRequest.event \in Events \cup {"none"} BY DEF PublishRequest
<1>4. SubscribeRequest.event \in Events \cup {"none"} BY DEF SubscribeRequest
<1>5. MessageRequest.event \in Events \cup {"none"} BY DEF MessageRequest
<1> QED BY <1>1, <1>2, <1>3, <1>4, <1>5

\* Every step keeps the invariant.
LEMMA NextIInv == IInv /\ [Next]_vars => IInv'
<1> SUFFICES ASSUME IInv, [Next]_vars PROVE IInv' OBVIOUS
<1> USE LimitsAssumption, GarbageAssumption
<1>1. ASSUME NEW e \in Events, SetEvent(e) PROVE IInv'
  <2>1. pc = "parsing" /\ pc' = "parsing" /\ presEv' = EventKind(e) /\ event' = e
    BY <1>1 DEF SetEvent, Option
  <2>2. TypeOK' BY <1>1 DEF SetEvent, Option, EventKind, IInv, TypeOK, lists
  <2>3. ListInv' BY <1>1, ListsKept DEF SetEvent
  <2>4. KindInv' BY <1>1, <2>1 DEF SetEvent, EventKind, Events, IInv, KindInv
  <2> QED BY <2>1, <2>2, <2>3, <2>4 DEF IInv, RequestInv
<1>2. ASSUME NEW t \in Types, SetContentType(t) PROVE IInv'
  <2>1. pc = "parsing" /\ pc' = "parsing" BY <1>2 DEF SetContentType, Option
  <2>2. TypeOK' BY <1>2 DEF SetContentType, Option, IInv, TypeOK, lists
  <2>3. ListInv' BY <1>2, ListsKept DEF SetContentType
  <2>4. KindInv' BY <1>2, <2>1 DEF SetContentType, IInv, KindInv
  <2> QED BY <2>1, <2>2, <2>3, <2>4 DEF IInv, RequestInv
<1>3. CASE SetMwiList
  <2>1. pc = "parsing" /\ pc' = "parsing" /\ isMwi' = TRUE BY <1>3 DEF SetMwiList, Option
  <2>2. isMwi' \in BOOLEAN BY <2>1, Zenon
  <2>3. TypeOK' BY <1>3, <2>2 DEF SetMwiList, Option, IInv, TypeOK, lists
  <2>4. ListInv' BY <1>3, ListsKept DEF SetMwiList
  <2>5. KindInv' BY <1>3, <2>1 DEF SetMwiList, IInv, KindInv
  <2> QED BY <2>1, <2>3, <2>4, <2>5 DEF IInv, RequestInv
<1>4. CASE SetExpires \/ Inform \/ \E which \in {"to", "body"} : SetText(which)
  <2>1. /\ UNCHANGED <<lists, kinds>> /\ pc = "parsing"
        /\ pc' \in {"parsing", "informed", "rejected"}
    BY <1>4 DEF SetExpires, Inform, SetText, Option
  <2>2. args' \in 0..MaxArgs /\ UNCHANGED <<cmd, request>>
    BY <1>4 DEF SetExpires, Inform, SetText, Option, IInv, TypeOK
  <2>3. expires' \in BOOLEAN /\ has' \subseteq {"to", "body"}
    BY <1>4 DEF SetExpires, Inform, SetText, IInv, TypeOK
  <2>4. TypeOK' BY <2>1, <2>2, <2>3 DEF IInv, TypeOK, lists, kinds
  <2> QED BY <2>1, <2>4, ListsKept, KindsKept DEF IInv
<1>5. CASE AddCustomHeader
  <2>1. UNCHANGED kinds /\ pc' \in {"parsing", "rejected"} /\ UNCHANGED proxies
    BY <1>5 DEF AddCustomHeader, Option, lists
  <2>2. UNCHANGED lists \/ ( /\ hdrCnt <= MaxHeaders /\ hdrCnt' = hdrCnt + 1
                             /\ proxyCnt' = IF hdrCnt = MaxHeaders THEN Garbage ELSE proxyCnt )
    BY <1>5 DEF AddCustomHeader
  <2>3. {hdrCnt', proxyCnt'} \subseteq Nat
    BY <2>2 DEF IInv, TypeOK, lists
  <2>4. TypeOK'
    BY <1>5, <2>1, <2>3 DEF AddCustomHeader, Option, IInv, TypeOK, kinds
  <2>5. ListInv'
    <3>1. hdrCnt \in Nat BY DEF IInv, TypeOK
    <3>2. CASE UNCHANGED lists BY <3>2, ListsKept
    <3>3. CASE /\ hdrCnt <= MaxHeaders /\ hdrCnt' = hdrCnt + 1
               /\ proxyCnt' = IF hdrCnt = MaxHeaders THEN Garbage ELSE proxyCnt
      <4>1. LooseInv' BY <2>1 DEF IInv, ListInv, LooseInv
      <4>2. CountInv BY DEF IInv, ListInv
      <4>3. CountInv' BY <2>1, <3>1, <3>3, <4>2 DEF CountInv
      <4> QED BY <4>1, <4>3 DEF ListInv
    <3> QED BY <2>2, <3>2, <3>3
  <2> QED BY <2>1, <2>4, <2>5, KindsKept DEF IInv
<1>6. ASSUME NEW lr \in BOOLEAN, AddProxy(lr) PROVE IInv'
  <2>1. UNCHANGED <<kinds, hdrCnt>> /\ pc = "parsing" /\ pc' \in {"parsing", "overrun"}
    BY <1>6 DEF AddProxy, PastTheArray, Option
  <2>2. CASE UNCHANGED <<proxyCnt, proxies>>
    <3>1. TypeOK' BY <1>6, <2>1, <2>2 DEF AddProxy, Option, IInv, TypeOK, kinds
    <3> QED BY <2>1, <2>2, <3>1, ListsKept, KindsKept DEF IInv, lists
  <2>3. CASE /\ proxyCnt <= MaxProxies /\ proxyCnt' = proxyCnt + 1
             /\ proxies' = Append(proxies, lr \/ proxyCnt = 0)
    <3> DEFINE new == lr \/ proxyCnt = 0
    <3>1. new \in BOOLEAN /\ proxies \in Seq(BOOLEAN) BY Zenon DEF IInv, TypeOK
    <3>2. hdrCnt <= MaxHeaders /\ proxyCnt = Len(proxies)
      <4>1. hdrCnt \in Nat BY DEF IInv, TypeOK
      <4>2. CountInv BY DEF IInv, ListInv
      <4> QED BY <2>3, <4>1, <4>2 DEF CountInv
    <3>3. proxies' \in Seq(BOOLEAN) /\ Len(proxies') = Len(proxies) + 1
      BY <2>3, <3>1, AppendProperties
    <3>4. TypeOK' BY <1>6, <2>1, <2>3, <3>2, <3>3 DEF AddProxy, Option, IInv, TypeOK, kinds
    <3>5. Head(proxies')
      <4>1. CASE proxies = <<>>
        <5>1. proxyCnt = 0 BY <3>2, <4>1
        <5>2. new BY <5>1
        <5>3. proxies'[1] = new
          <6>1. Len(proxies) = 0 BY <4>1
          <6>2. proxies'[Len(proxies) + 1] = new BY <2>3, <3>1, AppendProperties
          <6> QED BY <6>1, <6>2
        <5>4. Head(proxies') = proxies'[1] BY <3>3
        <5> QED BY <5>2, <5>3, <5>4
      <4>2. CASE proxies # <<>>
        <5>1. Head(proxies') = Head(proxies) BY <2>3, <3>1, <4>2, AppendProperties
        <5> QED BY <4>2, <5>1 DEF IInv, ListInv, LooseInv
      <4> QED BY <4>1, <4>2
    <3>6. hdrCnt' <= MaxHeaders /\ proxyCnt' = Len(proxies') BY <2>1, <2>3, <3>2, <3>3
    <3>7. ~(hdrCnt' > MaxHeaders) BY <2>1, <3>6 DEF IInv, TypeOK
    <3>8. CountInv' BY <3>6, <3>7 DEF CountInv
    <3>9. LooseInv' BY <3>5 DEF LooseInv
    <3>10. ListInv' BY <3>8, <3>9 DEF ListInv
    <3> QED BY <2>1, <3>4, <3>10, KindsKept DEF IInv
  <2> QED BY <1>6, <2>2, <2>3 DEF AddProxy
<1>7. ASSUME NEW c \in Commands, Finish(c) PROVE IInv'
  <2>1. pc = "parsing" /\ cmd' \in Commands /\ UNCHANGED <<args, lists, expires, has, request>>
    BY <1>7 DEF Finish
  <2>2. ListInv' BY <2>1, ListsKept
  <2>3. CASE pc' = "rejected" /\ UNCHANGED kinds
    <3>1. TypeOK' BY <2>1, <2>3 DEF IInv, TypeOK, lists, kinds
    <3> QED BY <2>2, <2>3, <3>1, KindsKept DEF IInv
  <2>4. CASE pc' = "ready" /\ PostParse
    <3>1. TypeOK' BY <2>1, <2>4 DEF PostParse, IInv, TypeOK, lists
    <3>2. KindInv' BY <2>4 DEF PostParse, IInv, KindInv
    <3> QED BY <2>2, <2>4, <3>1, <3>2 DEF IInv, RequestInv
  <2> QED BY <1>7, <2>3, <2>4 DEF Finish
<1>8. CASE MakeRequest
  <2>1. pc = "ready" /\ UNCHANGED <<args, cmd, lists, kinds, expires, has>>
    BY <1>8 DEF MakeRequest
  <2>2. pc' \in {"rejected", "made"} BY <1>8 DEF MakeRequest
  <2>3. KindInv' BY <2>1, <2>2 DEF IInv, KindInv, kinds
  <2>4. request' \in {request, NotifyRequest, PublishRequest, SubscribeRequest,
                      MessageRequest, NoRequest}
    BY <1>8 DEF MakeRequest
  <2>5. request'.event \in Events \cup {"none"} BY <2>4, MessageTypes DEF IInv, TypeOK
  <2>6. /\ request' # NoRequest => pc' = "made"
        /\ pc' = "made" /\ cmd = "publish" => expires
    BY <1>8, <2>1 DEF MakeRequest, IInv, TypeOK
  <2>7. TypeOK' BY <2>1, <2>2, <2>5, <2>6 DEF IInv, TypeOK, lists, kinds
  <2>8. /\ (pc' = "made" /\ cmd = "notify") => request' = NotifyRequest
        /\ (pc' = "made" /\ cmd = "subscribe") => request' = SubscribeRequest
    BY <1>8 DEF MakeRequest
  <2>9. NotifyRequest' = NotifyRequest /\ SubscribeRequest' = SubscribeRequest
    BY <2>1 DEF NotifyRequest, NotifyEvent, NotifyKind, SubscribeRequest, NoRequest, kinds
  <2>10. RequestInv' BY <2>1, <2>8, <2>9 DEF RequestInv
  <2> QED BY <2>1, <2>3, <2>7, <2>10, ListsKept DEF IInv
<1>9. CASE UNCHANGED vars
  <2>1. TypeOK' BY <1>9 DEF vars, lists, kinds, IInv, TypeOK
  <2>2. ListInv' BY <1>9, ListsKept DEF vars
  <2>3. KindInv' BY <1>9 DEF vars, kinds, IInv, KindInv
  <2>4. NotifyRequest' = NotifyRequest /\ SubscribeRequest' = SubscribeRequest
    BY <1>9 DEF vars, kinds, NotifyRequest, NotifyEvent, NotifyKind, SubscribeRequest, NoRequest
  <2>5. RequestInv' BY <1>9, <2>4 DEF vars, IInv, RequestInv
  <2> QED BY <2>1, <2>2, <2>3, <2>5 DEF IInv
<1> QED BY <1>1, <1>2, <1>3, <1>4, <1>5, <1>6, <1>7, <1>8, <1>9 DEF Next

\* The invariant holds in every reachable state.
LEMMA SpecIInv == Spec => []IInv
<1> QED BY InitIInv, NextIInv, PTL DEF Spec

-----------------------------------------------------------------------------
(* The properties.                                                         *)

\* Every variable keeps its type, only a command makes a message, and no PUBLISH is
\* made without an expiry (sippak_cmd_publish), whatever the limits and the options.
THEOREM TypeCorrect == Spec => []TypeOK
<1> QED BY SpecIInv, PTL DEF IInv

\* The count of proxies is that of the proxies kept and the first is a loose
\* route, unless a header too many was given (add_proxy).
THEOREM RouteIsCounted == Spec => []RouteIsSound
<1>1. IInv => RouteIsSound BY DEF IInv, ListInv, CountInv, LooseInv, RouteIsSound
<1> QED BY <1>1, SpecIInv, PTL

\* A NOTIFY with a document names its event (add_event_hdr, add_body_msg).
THEOREM NotifyAgrees == Spec => []NotifyIsCoherent
<1>1. IInv => NotifyIsCoherent
  <2> SUFFICES ASSUME IInv, pc = "made", cmd = "notify" PROVE NotifyIsCoherent
    BY DEF NotifyIsCoherent
  <2>1. request = NotifyRequest BY DEF IInv, RequestInv
  <2>2. request.event = NotifyEvent
    BY <2>1 DEF NotifyRequest
  <2>3. request.type = IF ctypeE = "unknown" THEN "none" ELSE ctypeMedia
    BY <2>1 DEF NotifyRequest
  <2>4. request.body = IF isMwi THEN "mwi" ELSE IF ctypeE \in {"pidf", "xpidf"} THEN ctypeE ELSE "none"
    BY <2>1 DEF NotifyRequest
  <2>5. CASE isMwi
    BY <2>2, <2>3, <2>4, <2>5 DEF NotifyIsCoherent, NotifyEvent, NotifyKind, IInv, KindInv, TypeOK
  <2>6. CASE ~isMwi
    BY <2>2, <2>3, <2>4, <2>6 DEF NotifyIsCoherent, NotifyEvent, NotifyKind, IInv, KindInv, TypeOK
  <2> QED BY <2>5, <2>6
<1> QED BY <1>1, SpecIInv, PTL

\* NOTIFY and SUBSCRIBE understand the alias (set_event).
THEOREM AliasWorks == Spec => []AliasIsUnderstood
<1>1. IInv => AliasIsUnderstood
  <2> SUFFICES ASSUME IInv, pc = "made", event \in {"mwi", "message-summary"},
                      cmd \in {"notify", "subscribe"}
               PROVE  request.event = "message-summary"
    BY DEF AliasIsUnderstood
  <2>1. presEv = "mwi" BY DEF IInv, KindInv
  <2>2. CASE cmd = "notify"
    BY <2>1, <2>2 DEF IInv, RequestInv, NotifyRequest, NotifyEvent, NotifyKind
  <2>3. CASE cmd = "subscribe"
    BY <2>1, <2>3 DEF IInv, RequestInv, SubscribeRequest, NoRequest
  <2> QED BY <2>2, <2>3
<1> QED BY <1>1, SpecIInv, PTL

-----------------------------------------------------------------------------
(* Mangler.  How the lists came about: what was linked into each message,  *)
(* and into which message each custom header was linked last.              *)

\* What may be linked into a message, in the order in which it is.
Nodes(m) == ({"own", "agent", "auth"} \X {m}) \cup ({"custom"} \X (1..MaxCustom))

Rank(n) ==
    CASE n[1] = "own"    -> 1
      [] n[1] = "agent"  -> 2
      [] n[1] = "custom" -> 2 + n[2]
      [] n[1] = "auth"   -> 3 + MaxCustom
      [] OTHER           -> 0

\* The nodes of S that have not been linked into another message since.
Kept(owner, m, S) == {n \in S : n[1] = "custom" => owner[n[2]] = m}
Intact(owner, m, S) == \A n \in S : n[1] = "custom" => owner[n[2]] = m

\* In a list of S in order of rank, x follows n, and x comes last.
Follows(S, m, n, x) ==
    \/ x \in S /\ Rank(n) < Rank(x) /\ \A y \in S : Rank(y) <= Rank(n) \/ Rank(x) <= Rank(y)
    \/ x = Root(m) /\ \A y \in S : Rank(y) <= Rank(n)

ComesLast(S, m, x) == x \in S \cup {Root(m)} /\ \A y \in S : Rank(y) <= Rank(x)

\* The nodes S were linked into m, and those that are still its own are linked as then.
Linked(h, owner, m, S) ==
    /\ S \subseteq Nodes(m)
    /\ \A n \in Kept(owner, m, S) \cup {Root(m)} : Follows(S, m, n, h.next[n])
    /\ ComesLast(S, m, h.prev[Root(m)])

Heaps == [next : [Node -> Node], prev : [Node -> Node]]

\* owner[i] is the message that the custom header i was linked into last.
ListsInv(h, owner, linked) ==
    /\ h \in Heaps
    /\ owner \in [1..MaxCustom -> {0} \cup Msg]
    /\ linked \in [Msg -> SUBSET Node]
    /\ \A m \in Msg : Linked(h, owner, m, linked[m])
    /\ \A m \in Msg, i \in 1..MaxCustom : <<"custom", i>> \in linked[m] => m <= owner[i]
    /\ \A i \in 1..MaxCustom : owner[i] # 0 => <<"custom", i>> \in linked[owner[i]]

Carries(S, name) == \E n \in S : name \in NamesOf(n)

\* No header is there twice, but for credentials.
Distinct(S) ==
    \A a, b \in S : \A name \in NamesOf(a) \cap NamesOf(b) : a = b \/ name = "Authorization"

Complete(S) ==
    /\ \A i \in DOMAIN custom : Carries(S, custom[i])
    /\ ua => Carries(S, "User-Agent")

\* Only the message made last may lack headers, until it is sent for the first time.
Fresh(m, S) == m = made /\ S = {<<"own", m>>} /\ todo # <<>> /\ Head(todo) = Send(m)

ContentInv(linked) ==
    \A m \in Msg :
        /\ kind[m] = "none" => linked[m] = {}
        /\ kind[m] # "none" => /\ <<"own", m>> \in linked[m]
                               /\ Complete(linked[m]) \/ Fresh(m, linked[m])
        /\ \A n \in linked[m] : n[1] = "custom" => n[2] \in DOMAIN custom
        /\ Distinct(linked[m])
        /\ <<"auth", m>> \in linked[m] => m \in retried /\ \A k \in DOMAIN todo : todo[k] # Auth(m)

\* Messages are made in order, and there is room for those to be made.
MadeInv ==
    /\ made \in 0..MaxMsg
    /\ \A m \in Msg : kind[m] # "none" <=> m <= made
    /\ made + Cardinality(Makes(todo)) <= MaxMsg

Work == {Make(k) : k \in {"INVITE", "ACK", "CANCEL", "BYE", "OTHER"}}
            \cup {Send(m) : m \in Msg} \cup {Auth(m) : m \in Msg}

\* A message that gets credentials is sent right after.
TodoInv ==
    /\ todo \in Seq(Work)
    /\ \A k \in DOMAIN todo : todo[k].op # "make" => kind[todo[k].msg] # "none"
    /\ \A k \in DOMAIN todo : todo[k].op = "auth" =>
           /\ k + 1 \in DOMAIN todo /\ todo[k + 1] = Send(todo[k].msg)
           /\ todo[k].msg \in retried
           /\ \A j \in DOMAIN todo : todo[j].op = "auth" => j = k

\* Only the message that is to be sent next is not printed.
WireInv ==
    \A m \in Msg : kind[m] # "none" /\ wire[m] = <<>> => todo # <<>> /\ Head(todo) = Send(m)

-----------------------------------------------------------------------------
(* Mangler.  Induction, from the least counterexample.                     *)

\* Numbers have a least one.
LEMMA LeastElement ==
    ASSUME NEW T \in SUBSET Nat, T # {}
    PROVE  \E n \in T : \A k \in T : n <= k
<1>1. \E x \in T : \A y \in T : <<y, x>> \notin OpToRel(<, Nat)
  BY NatLessThanWellFounded, WFMin, Zenon
<1>2. PICK n \in T : \A k \in T : <<k, n>> \notin OpToRel(<, Nat) BY <1>1
<1>3. \A k \in T : ~(k < n) BY <1>2 DEF OpToRel
<1> QED BY <1>3

\* What holds of 0, and of each number after one it holds of, holds up to N.
LEMMA UpTo ==
    ASSUME NEW N \in Nat, NEW T, 0 \in T,
           \A n \in 0..N : n \in T /\ n < N => n + 1 \in T
    PROVE  \A n \in 0..N : n \in T
<1> SUFFICES ASSUME NEW x \in 0..N, x \notin T PROVE FALSE OBVIOUS
<1> DEFINE B == {n \in 0..N : n \notin T}
<1>1. B \in SUBSET Nat /\ x \in B OBVIOUS
<1>2. PICK n \in B : \A k \in B : n <= k BY <1>1, LeastElement, Zenon
<1>3. n # 0 BY <1>2
<1>4. n - 1 \in 0..N /\ n - 1 \notin B BY <1>2, <1>3
<1> QED BY <1>2, <1>3, <1>4

\* First(ks) is the least of them.
LEMMA FirstIsLeast ==
    ASSUME NEW ks \in SUBSET Nat, ks # {}
    PROVE  First(ks) \in ks /\ \A k \in ks : First(ks) <= k
<1>1. \E k \in ks : \A j \in ks : k <= j BY LeastElement, Zenon
<1> QED BY <1>1, Zenon DEF First

-----------------------------------------------------------------------------
(* Walks.                                                                  *)

\* A walk has steps for every node of a message and one more.
LEMMA StepsType == Steps \in Nat /\ Steps >= MaxCustom + 4
BY MaxMsgAssumption, MaxCustomAssumption DEF Steps

\* A root is a node.
LEMMA RootIsNode == ASSUME NEW m \in Msg PROVE Root(m) \in Node
BY DEF Root, Node

\* There is a walk of that many steps.
LEMMA WalkExists ==
    ASSUME NEW h \in Heaps, NEW m \in Msg
    PROVE  \E f \in [0..Steps -> Node] :
               f = [k \in 0..Steps |-> IF k = 0 THEN Root(m) ELSE h.next[f[k - 1]]]
<1> DEFINE P(n) == \E f \in [0..n -> Node] :
                       f = [k \in 0..n |-> IF k = 0 THEN Root(m) ELSE h.next[f[k - 1]]]
           T == {n \in Nat : P(n)}
<1>1. Root(m) \in Node /\ h.next \in [Node -> Node] BY RootIsNode DEF Heaps
<1>2. 0 \in T
  <2> DEFINE f == [k \in 0..0 |-> Root(m)]
  <2>1. f = [k \in 0..0 |-> IF k = 0 THEN Root(m) ELSE h.next[f[k - 1]]] OBVIOUS
  <2> QED BY <1>1, <2>1
<1>3. ASSUME NEW n \in 0..Steps, n \in T, n < Steps PROVE n + 1 \in T
  <2>1. PICK f \in [0..n -> Node] :
            f = [k \in 0..n |-> IF k = 0 THEN Root(m) ELSE h.next[f[k - 1]]]
    BY <1>3
  <2> DEFINE g == [k \in 0..(n + 1) |-> IF k = 0 THEN Root(m) ELSE h.next[f[k - 1]]]
  <2>2. \A k \in 0..n : g[k] = f[k] BY <2>1
  <2>3. \A k \in 0..(n + 1) : k # 0 => k - 1 \in 0..n OBVIOUS
  <2>4. g = [k \in 0..(n + 1) |-> IF k = 0 THEN Root(m) ELSE h.next[g[k - 1]]] BY <2>2, <2>3
  <2>5. g \in [0..(n + 1) -> Node] BY <1>1, <2>1, <2>3
  <2> HIDE DEF g
  <2>6. n + 1 \in Nat OBVIOUS
  <2> QED BY <2>4, <2>5, <2>6
<1> HIDE DEF T
<1>4. Steps \in T BY <1>2, <1>3, UpTo, StepsType
<1>5. P(Steps) BY <1>4 DEF T
<1> QED BY <1>5

\* The walk goes from node to node, from the root on.
LEMMA WalkSteps ==
    ASSUME NEW h \in Heaps, NEW m \in Msg
    PROVE  /\ Walk(h, m) \in [0..Steps -> Node]
           /\ Walk(h, m)[0] = Root(m)
           /\ \A k \in 1..Steps : Walk(h, m)[k] = h.next[Walk(h, m)[k - 1]]
<1>1. h.next \in [Node -> Node] /\ Root(m) \in Node /\ Steps \in Nat
  BY RootIsNode, StepsType DEF Heaps
<1>2. PICK f \in [0..Steps -> Node] :
          f = [k \in 0..Steps |-> IF k = 0 THEN Root(m) ELSE h.next[f[k - 1]]]
  BY WalkExists
<1> DEFINE at[k \in 0..Steps] == IF k = 0 THEN Root(m) ELSE h.next[at[k - 1]]
<1>3. at = [k \in 0..Steps |-> IF k = 0 THEN Root(m) ELSE h.next[at[k - 1]]] BY <1>2
<1>4. Walk(h, m) = at BY DEF Walk
<1> HIDE DEF at
<1> DEFINE T == {k \in Nat : at[k] \in Node}
<1>5. 0 \in T BY <1>1, <1>3
<1>6. \A n \in 0..Steps : n \in T /\ n < Steps => n + 1 \in T BY <1>1, <1>3
<1>7. \A n \in 0..Steps : n \in T BY <1>1, <1>5, <1>6, UpTo
<1>8. at \in [0..Steps -> Node] BY <1>3, <1>7
<1> QED BY <1>1, <1>3, <1>4, <1>8

-----------------------------------------------------------------------------
(* The order of the nodes of a message.                                    *)

\* A root comes before all that is in its list, and messages have different ones.
LEMMA RootFacts ==
    ASSUME NEW m \in Msg
    PROVE  /\ Root(m) \in Roots /\ Rank(Root(m)) = 0
           /\ \A x \in Msg : Root(x) = Root(m) => x = m
BY DEF Root, Roots, Rank

\* Those of one message have different ranks.
LEMMA NodeFacts ==
    ASSUME NEW m \in Msg, NEW n \in Nodes(m)
    PROVE  /\ n \in Node \ Roots
           /\ Rank(n) \in 1..(MaxCustom + 3)
           /\ \A y \in Nodes(m) : Rank(y) = Rank(n) => y = n
<1> USE MaxCustomAssumption
<1>1. n \in Node \ Roots BY DEF Nodes, Node, Roots, Root
<1>2. Rank(n) \in 1..(MaxCustom + 3) BY DEF Nodes, Rank
<1>3. ASSUME NEW y \in Nodes(m), Rank(y) = Rank(n) PROVE y = n
  BY <1>3 DEF Nodes, Rank
<1> QED BY <1>1, <1>2, <1>3

\* Of two messages, only custom headers can be in the lists of both.
LEMMA SharedNode ==
    ASSUME NEW m \in Msg, NEW x \in Msg, x # m, NEW n \in Nodes(m), n \in Nodes(x)
    PROVE  n[1] = "custom" /\ n[2] \in 1..MaxCustom /\ n = <<"custom", n[2]>>
BY DEF Nodes

-----------------------------------------------------------------------------
(* A list none of whose nodes was taken.                                   *)

\* The walk meets the nodes of S in order, and then the root.
Tour(h, m, S, end) ==
    LET at == Walk(h, m)
    IN  /\ end \in 1..Steps
        /\ at[end] = Root(m)
        /\ \A k \in 1..(end - 1) : at[k] \in S
        /\ \A n \in S : \E k \in 1..(end - 1) : at[k] = n
        /\ \A j, k \in 1..(end - 1) : j < k => at[j] # at[k]

\* The walk through a list from which nothing was taken is such a tour.
LEMMA IntactTour ==
    ASSUME NEW h \in Heaps, NEW owner, NEW m \in Msg, NEW S,
           Linked(h, owner, m, S), Intact(owner, m, S)
    PROVE  \E end \in 1..Steps : Tour(h, m, S, end)
<1> DEFINE at == Walk(h, m)
<1>1. /\ at \in [0..Steps -> Node]
      /\ at[0] = Root(m)
      /\ \A k \in 1..Steps : at[k] = h.next[at[k - 1]]
  BY WalkSteps
<1> HIDE DEF at
<1>2. Steps \in Nat /\ Steps >= MaxCustom + 4 BY StepsType
<1>3. S \subseteq Nodes(m) /\ \A n \in S \cup {Root(m)} : Follows(S, m, n, h.next[n])
  BY DEF Linked, Kept, Intact
<1>4. /\ \A n \in S : Rank(n) \in 1..(MaxCustom + 3)
      /\ \A n, y \in S : Rank(y) = Rank(n) => y = n
      /\ Rank(Root(m)) = 0 /\ Root(m) \notin S
  BY <1>3, NodeFacts, RootFacts
<1> DEFINE Inside(k) == \A j \in 1..k : at[j] \in S
<1>5. ASSUME NEW k \in 0..(Steps - 1), Inside(k) PROVE Follows(S, m, at[k], at[k + 1])
  <2>1. at[k] \in S \cup {Root(m)} BY <1>1, <1>5
  <2>2. k + 1 \in 1..Steps /\ (k + 1) - 1 = k BY <1>2
  <2>3. at[k + 1] = h.next[at[k]] BY <2>2, <1>1
  <2> QED BY <2>1, <2>3, <1>3
<1>6. \A k \in 0..Steps : Inside(k) => Rank(at[k]) >= k /\ Rank(at[k]) \in Nat
  <2> DEFINE T == {k \in Nat : Inside(k) => Rank(at[k]) >= k /\ Rank(at[k]) \in Nat}
  <2>1. 0 \in T BY <1>1, <1>4
  <2>2. ASSUME NEW k \in 0..Steps, k \in T, k < Steps PROVE k + 1 \in T
    <3> SUFFICES ASSUME Inside(k + 1) PROVE Rank(at[k + 1]) >= k + 1 /\ Rank(at[k + 1]) \in Nat
      OBVIOUS
    <3>1. Inside(k) /\ at[k + 1] \in S OBVIOUS
    <3>2. Follows(S, m, at[k], at[k + 1]) BY <3>1, <2>2, <1>2, <1>5
    <3>3. Rank(at[k]) < Rank(at[k + 1]) BY <3>1, <3>2, <1>4 DEF Follows
    <3>4. Rank(at[k]) >= k /\ Rank(at[k]) \in Nat BY <3>1, <2>2
    <3>5. Rank(at[k + 1]) \in Nat BY <3>1, <1>4
    <3> QED BY <3>3, <3>4, <3>5
  <2> HIDE DEF T
  <2>3. \A k \in 0..Steps : k \in T BY <2>1, <2>2, <1>2, UpTo
  <2> QED BY <2>3 DEF T
<1> DEFINE B == {k \in 1..Steps : at[k] \notin S}
<1>7. B # {}
  <2> SUFFICES ASSUME Inside(Steps) PROVE FALSE OBVIOUS
  <2>1. Rank(at[Steps]) >= Steps BY <1>2, <1>6
  <2>2. at[Steps] \in S BY <1>2, MaxCustomAssumption
  <2> QED BY <2>1, <2>2, <1>2, <1>4, MaxCustomAssumption
<1>8. B \in SUBSET Nat OBVIOUS
<1>9. PICK end \in B : \A k \in B : end <= k BY <1>7, <1>8, LeastElement, Zenon
<1>10. \A k \in 1..(end - 1) : at[k] \in S
  <2> SUFFICES ASSUME NEW k \in 1..(end - 1), k \in B PROVE FALSE BY <1>2, <1>9
  <2>1. end <= k BY <1>9
  <2> QED BY <2>1, <1>9
<1>11. Follows(S, m, at[end - 1], at[end])
  <2>1. end - 1 \in 0..(Steps - 1) /\ (end - 1) + 1 = end BY <1>2, <1>9
  <2> QED BY <2>1, <1>5, <1>10
<1>12. at[end] = Root(m) /\ \A y \in S : Rank(y) <= Rank(at[end - 1])
  BY <1>9, <1>11 DEF Follows
<1>13. \A k \in 0..(end - 1) : \A n \in S : Rank(n) <= Rank(at[k]) => \E j \in 1..k : at[j] = n
  <2> DEFINE T == {k \in Nat : \A n \in S : Rank(n) <= Rank(at[k]) => \E j \in 1..k : at[j] = n}
  <2>1. 0 \in T BY <1>1, <1>4
  <2>2. ASSUME NEW k \in 0..(end - 1), k \in T, k < end - 1 PROVE k + 1 \in T
    <3> SUFFICES ASSUME NEW n \in S, Rank(n) <= Rank(at[k + 1])
                 PROVE  \E j \in 1..(k + 1) : at[j] = n
      OBVIOUS
    <3>1. at[k + 1] \in S BY <2>2, <1>10
    <3>2. Follows(S, m, at[k], at[k + 1])
      <4>1. k \in 0..(Steps - 1) /\ Inside(k) BY <2>2, <1>2, <1>9, <1>10
      <4> QED BY <4>1, <1>5
    <3>3. Rank(n) <= Rank(at[k]) \/ Rank(at[k + 1]) <= Rank(n)
      BY <3>1, <3>2, <1>4 DEF Follows
    <3>4. CASE Rank(n) <= Rank(at[k]) BY <3>4, <2>2
    <3>5. CASE Rank(at[k + 1]) <= Rank(n) BY <3>5, <3>1, <1>4
    <3> QED BY <3>3, <3>4, <3>5
  <2> HIDE DEF T
  <2>3. end - 1 \in Nat BY <1>9
  <2>4. \A k \in 0..(end - 1) : k \in T BY <2>1, <2>2, <2>3, UpTo
  <2> QED BY <2>4 DEF T
<1>14. \A n \in S : \E k \in 1..(end - 1) : at[k] = n BY <1>9, <1>12, <1>13
<1>15. \A j \in 1..(end - 1) : \A k \in 0..(end - 1) : j < k => Rank(at[j]) < Rank(at[k])
  <2> SUFFICES ASSUME NEW j \in 1..(end - 1)
               PROVE  \A k \in 0..(end - 1) : j < k => Rank(at[j]) < Rank(at[k])
    OBVIOUS
  <2> DEFINE T == {k \in Nat : j < k => Rank(at[j]) < Rank(at[k])}
  <2>1. 0 \in T OBVIOUS
  <2>2. ASSUME NEW k \in 0..(end - 1), k \in T, k < end - 1 PROVE k + 1 \in T
    <3> SUFFICES ASSUME j < k + 1 PROVE Rank(at[j]) < Rank(at[k + 1]) OBVIOUS
    <3>1. at[k + 1] \in S /\ at[k] \in S /\ at[j] \in S BY <2>2, <1>10
    <3>2. Follows(S, m, at[k], at[k + 1])
      <4>1. k \in 0..(Steps - 1) /\ Inside(k) BY <2>2, <1>2, <1>9, <1>10
      <4> QED BY <4>1, <1>5
    <3>3. Rank(at[k]) < Rank(at[k + 1]) BY <3>1, <3>2, <1>4 DEF Follows
    <3>4. j = k \/ j < k OBVIOUS
    <3> QED BY <3>1, <3>3, <3>4, <2>2, <1>4
  <2> HIDE DEF T
  <2>3. end - 1 \in Nat BY <1>9
  <2>4. \A k \in 0..(end - 1) : k \in T BY <2>1, <2>2, <2>3, UpTo
  <2> QED BY <2>4 DEF T
<1>16. \A j, k \in 1..(end - 1) : j < k => at[j] # at[k] BY <1>4, <1>9, <1>10, <1>15
<1>17. Tour(h, m, S, end) BY <1>9, <1>10, <1>12, <1>14, <1>16 DEF Tour, at
<1> QED BY <1>9, <1>17

\* Where the walk ends.
LEMMA TourEnd ==
    ASSUME NEW h, NEW m \in Msg, NEW S \in SUBSET Nodes(m), NEW end, Tour(h, m, S, end)
    PROVE  LET ends == {k \in 1..Steps : Walk(h, m)[k] \in Roots}
           IN  ends # {} /\ First(ends) = end
<1> DEFINE at == Walk(h, m)
           ends == {k \in 1..Steps : at[k] \in Roots}
<1>1. end \in 1..Steps /\ at[end] = Root(m) /\ \A k \in 1..(end - 1) : at[k] \in S
  BY DEF Tour
<1> HIDE DEF at
<1>2. Steps \in Nat BY StepsType
<1>3. end \in ends BY <1>1, RootFacts
<1>4. ASSUME NEW k \in ends PROVE end <= k
  <2> SUFFICES ASSUME k < end PROVE FALSE BY <1>1, <1>2
  <2>1. k \in 1..(end - 1) BY <1>1, <1>2
  <2>2. at[k] \in Nodes(m) BY <1>1, <2>1
  <2> QED BY <2>2, NodeFacts
<1>5. ends \in SUBSET Nat BY <1>2
<1>6. First(ends) \in ends /\ \A k \in ends : First(ends) <= k BY <1>3, <1>5, FirstIsLeast
<1>7. First(ends) = end BY <1>3, <1>4, <1>5, <1>6
<1> QED BY <1>3, <1>7 DEF at

\* It is closed, and shows what is linked into it.
LEMMA TourIsClosed ==
    ASSUME NEW h, NEW m \in Msg, NEW S \in SUBSET Nodes(m), NEW end, Tour(h, m, S, end)
    PROVE  Closed(h, m)
<1> DEFINE ends == {k \in 1..Steps : Walk(h, m)[k] \in Roots}
<1>1. ends # {} /\ First(ends) = end BY TourEnd
<1>2. Walk(h, m)[end] = Root(m) BY DEF Tour
<1> QED BY <1>1, <1>2 DEF Closed

\* On a tour a header is found, or found to be absent, and never is the end missed.
LEMMA TourFind ==
    ASSUME NEW h, NEW m \in Msg, NEW S \in SUBSET Nodes(m), NEW end, Tour(h, m, S, end),
           NEW name
    PROVE  /\ Carries(S, name) => Find(h, m, name) = "found"
           /\ ~Carries(S, name) => Find(h, m, name) = "absent"
<1> DEFINE at == Walk(h, m)
           hits == {k \in 1..Steps : at[k] \in Roots \/ name \in NamesOf(at[k])}
           hit == at[First(hits)]
<1>1. /\ end \in 1..Steps /\ at[end] = Root(m) /\ \A k \in 1..(end - 1) : at[k] \in S
      /\ \A n \in S : \E k \in 1..(end - 1) : at[k] = n
  BY DEF Tour
<1>2. Find(h, m, name) = CASE hits # {} /\ hit \notin Roots -> "found"
                           [] hits # {} /\ hit = Root(m) -> "absent"
                           [] OTHER -> "lost"
  BY DEF Find
<1> HIDE DEF at
<1>3. Steps \in Nat BY StepsType
<1>4. end \in hits /\ hits \in SUBSET Nat BY <1>1, <1>3, RootFacts
<1>5. First(hits) \in hits /\ \A k \in hits : First(hits) <= k BY <1>4, FirstIsLeast
<1>6. \A k \in 1..(end - 1) : at[k] \notin Roots
  <2> SUFFICES ASSUME NEW k \in 1..(end - 1) PROVE at[k] \notin Roots OBVIOUS
  <2>1. at[k] \in Nodes(m) BY <1>1
  <2> QED BY <2>1, NodeFacts
<1>7. CASE Carries(S, name)
  <2>1. PICK n \in S : name \in NamesOf(n) BY <1>7 DEF Carries
  <2>2. PICK k \in 1..(end - 1) : at[k] = n BY <1>1
  <2>3. k \in hits BY <2>1, <2>2, <1>1, <1>3
  <2>4. First(hits) \in 1..(end - 1)
    <3>1. First(hits) <= k BY <2>3, <1>5
    <3> QED BY <3>1, <1>1, <1>3, <1>4, <1>5
  <2>5. hit \notin Roots BY <2>4, <1>6
  <2>6. hit # Root(m) BY <2>5, RootFacts
  <2> HIDE DEF hits, hit
  <2> QED BY <1>2, <1>4, <1>7, <2>5, <2>6
<1>8. CASE ~Carries(S, name)
  <2>1. \A k \in 1..(end - 1) : k \notin hits BY <1>1, <1>6, <1>8 DEF Carries
  <2>2. First(hits) <= end BY <1>4, <1>5
  <2>3. First(hits) = end
    <3> SUFFICES ASSUME First(hits) # end PROVE FALSE OBVIOUS
    <3>1. First(hits) \in 1..(end - 1) BY <2>2, <1>1, <1>3, <1>5
    <3> QED BY <3>1, <2>1, <1>5
  <2>4. hit = Root(m) /\ hit \in Roots BY <2>3, <1>1, RootFacts
  <2> HIDE DEF hits, hit
  <2> QED BY <1>2, <1>4, <1>8, <2>4
<1> QED BY <1>7, <1>8

-----------------------------------------------------------------------------
(* A list from which a newer message took a node.                          *)

\* The walk gets to a node taken, and from there only to newer messages.
LEMMA BrokenWalk ==
    ASSUME NEW h, NEW owner, NEW linked, ListsInv(h, owner, linked),
           NEW m \in Msg, ~Intact(owner, m, linked[m]),
           NEW k \in 1..Steps, \A j \in 1..(k - 1) : Walk(h, m)[j] \notin Roots
    PROVE  Walk(h, m)[k] # Root(m)
<1> DEFINE at == Walk(h, m)
           S == linked[m]
           Near(n) == /\ n \in Kept(owner, m, S) \cup {Root(m)}
                      /\ \A y \in S : Rank(y) <= Rank(n) => y \in Kept(owner, m, S)
           Far(n) == \E x \in Msg : m < x /\ n \in Kept(owner, x, linked[x])
<1>1. /\ at[0] = Root(m)
      /\ \A j \in 1..Steps : at[j] = h.next[at[j - 1]]
  BY WalkSteps DEF ListsInv
<1>2. Steps \in Nat BY StepsType
<1> HIDE DEF at
<1>3. \A x \in Msg : /\ linked[x] \subseteq Nodes(x)
                     /\ \A n \in Kept(owner, x, linked[x]) \cup {Root(x)} :
                            Follows(linked[x], x, n, h.next[n])
  BY DEF ListsInv, Linked
<1>4. ASSUME NEW x \in Msg, m <= x, NEW n \in linked[x], n \notin Kept(owner, x, linked[x])
      PROVE  Far(n)
  <2>1. n[1] = "custom" /\ n \in Nodes(x) BY <1>4, <1>3 DEF Kept
  <2>2. n[2] \in 1..MaxCustom /\ n = <<"custom", n[2]>> BY <2>1 DEF Nodes
  <2> DEFINE y == owner[n[2]]
  <2>3. x <= y /\ y \in {0} \cup Msg BY <1>4, <2>2 DEF ListsInv
  <2>4. y # x BY <1>4, <2>1 DEF Kept
  <2>5. y \in Msg /\ m < y BY <2>3, <2>4, <1>4, MaxMsgAssumption DEF Msg
  <2>6. n \in linked[y] BY <2>2, <2>5 DEF ListsInv, Msg
  <2>7. n \in Kept(owner, y, linked[y]) BY <2>6 DEF Kept
  <2> QED BY <2>5, <2>7
<1>5. \A n : Near(n) => h.next[n] # Root(m) /\ (Near(h.next[n]) \/ Far(h.next[n]))
  <2> SUFFICES ASSUME NEW n, Near(n)
               PROVE  h.next[n] # Root(m) /\ (Near(h.next[n]) \/ Far(h.next[n]))
    OBVIOUS
  <2>1. Follows(S, m, n, h.next[n]) BY <1>3
  <2>2. \A y \in S : Rank(y) \in Nat /\ \A z \in S : Rank(y) = Rank(z) => y = z
    BY <1>3, NodeFacts
  <2>3. Root(m) \notin S BY <1>3, NodeFacts, RootFacts
  <2>4. ~(\A y \in S : Rank(y) <= Rank(n)) BY DEF Intact, Kept
  <2>5. h.next[n] \in S /\ Rank(n) < Rank(h.next[n])
        /\ \A y \in S : Rank(y) <= Rank(n) \/ Rank(h.next[n]) <= Rank(y)
    BY <2>1, <2>4 DEF Follows
  <2>6. CASE h.next[n] \in Kept(owner, m, S)
    <3>1. ASSUME NEW y \in S, Rank(y) <= Rank(h.next[n]) PROVE y \in Kept(owner, m, S)
      <4>1. CASE Rank(y) <= Rank(n) BY <4>1
      <4>2. CASE Rank(h.next[n]) <= Rank(y)
        <5>1. Rank(y) = Rank(h.next[n]) BY <4>2, <3>1, <2>2, <2>5
        <5> QED BY <5>1, <2>2, <2>5, <2>6
      <4> QED BY <4>1, <4>2, <2>5
    <3> QED BY <3>1, <2>3, <2>5, <2>6
  <2>7. CASE h.next[n] \notin Kept(owner, m, S)
    <3>1. Far(h.next[n]) BY <2>5, <2>7, <1>4 DEF Msg
    <3> QED BY <3>1, <2>3, <2>5
  <2> QED BY <2>6, <2>7
<1>6. \A n : Far(n) => h.next[n] # Root(m) /\ (h.next[n] \in Roots \/ Far(h.next[n]))
  <2> SUFFICES ASSUME NEW n, NEW x \in Msg, m < x, n \in Kept(owner, x, linked[x])
               PROVE  h.next[n] # Root(m) /\ (h.next[n] \in Roots \/ Far(h.next[n]))
    OBVIOUS
  <2>1. Follows(linked[x], x, n, h.next[n]) BY <1>3
  <2>2. CASE h.next[n] = Root(x) BY <2>2, RootFacts DEF Msg
  <2>3. CASE h.next[n] \in linked[x]
    <3>1. h.next[n] # Root(m) BY <2>3, <1>3, NodeFacts, RootFacts
    <3>2. CASE h.next[n] \in Kept(owner, x, linked[x]) BY <3>1, <3>2
    <3>3. CASE h.next[n] \notin Kept(owner, x, linked[x])
      <4>1. m <= x BY DEF Msg
      <4>2. Far(h.next[n]) BY <2>3, <3>3, <4>1, <1>4
      <4> QED BY <3>1, <4>2
    <3> QED BY <3>2, <3>3
  <2> QED BY <2>1, <2>2, <2>3 DEF Follows
<1>7. \A j \in 0..(k - 1) : Near(at[j]) \/ Far(at[j])
  <2> HIDE DEF Near, Far
  <2> DEFINE T == {j \in Nat : Near(at[j]) \/ Far(at[j])}
  <2>1. 0 \in T
    <3>1. \A y \in S : Rank(y) \in 1..(MaxCustom + 3) BY <1>3, NodeFacts
    <3>2. Rank(Root(m)) = 0 BY RootFacts
    <3>3. Near(Root(m)) BY <3>1, <3>2, MaxCustomAssumption DEF Near
    <3> QED BY <3>3, <1>1
  <2>2. ASSUME NEW j \in 0..(k - 1), j \in T, j < k - 1 PROVE j + 1 \in T
    <3>1. j + 1 \in 1..Steps /\ (j + 1) - 1 = j BY <2>2, <1>2
    <3>2. at[j + 1] = h.next[at[j]] BY <3>1, <1>1
    <3>3. at[j + 1] \notin Roots BY <2>2 DEF at
    <3> QED BY <3>2, <3>3, <2>2, <1>5, <1>6
  <2> HIDE DEF T
  <2>3. k - 1 \in Nat OBVIOUS
  <2>4. \A j \in 0..(k - 1) : j \in T BY <2>1, <2>2, <2>3, UpTo
  <2> QED BY <2>4 DEF T
<1>8. at[k] = h.next[at[k - 1]] /\ k - 1 \in 0..(k - 1) BY <1>1
<1> HIDE DEF Near, Far
<1>9. at[k] # Root(m) BY <1>5, <1>6, <1>7, <1>8
<1> QED BY <1>9 DEF at

\* Nothing is found absent from it, and it is not closed.
LEMMA BrokenFind ==
    ASSUME NEW h, NEW owner, NEW linked, ListsInv(h, owner, linked),
           NEW m \in Msg, ~Intact(owner, m, linked[m])
    PROVE  ~Closed(h, m) /\ \A name : Find(h, m, name) # "absent"
<1> DEFINE at == Walk(h, m)
<1>1. Steps \in Nat BY StepsType
<1>2. ASSUME NEW ks \in SUBSET (1..Steps), ks # {}, \A k \in 1..Steps : at[k] \in Roots => k \in ks
      PROVE  at[First(ks)] # Root(m)
  <2> HIDE DEF at
  <2>1. ks \in SUBSET Nat BY <1>1
  <2>2. First(ks) \in ks /\ \A k \in ks : First(ks) <= k BY <2>1, <1>2, FirstIsLeast
  <2> DEFINE f == First(ks)
  <2> HIDE DEF f
  <2>3. f \in 1..Steps /\ \A k \in ks : f <= k BY <2>2 DEF f
  <2>4. \A j \in 1..(f - 1) : at[j] \notin Roots
    <3> SUFFICES ASSUME NEW j \in 1..(f - 1), at[j] \in Roots PROVE FALSE OBVIOUS
    <3>1. j \in ks BY <1>1, <1>2, <2>3
    <3> QED BY <3>1, <1>1, <2>3
  <2>5. at[f] # Root(m) BY <2>3, <2>4, BrokenWalk DEF at
  <2> QED BY <2>5 DEF f
<1>3. ~Closed(h, m)
  <2> DEFINE ends == {k \in 1..Steps : at[k] \in Roots}
  <2>1. ends # {} => at[First(ends)] # Root(m) BY <1>2
  <2> QED BY <2>1 DEF Closed
<1>4. ASSUME NEW name PROVE Find(h, m, name) # "absent"
  <2> DEFINE hits == {k \in 1..Steps : at[k] \in Roots \/ name \in NamesOf(at[k])}
  <2>1. hits # {} => at[First(hits)] # Root(m) BY <1>2
  <2>2. Find(h, m, name) = CASE hits # {} /\ at[First(hits)] \notin Roots -> "found"
                             [] hits # {} /\ at[First(hits)] = Root(m) -> "absent"
                             [] OTHER -> "lost"
    BY DEF Find
  <2> HIDE DEF hits, at
  <2> QED BY <2>1, <2>2
<1> QED BY <1>3, <1>4

-----------------------------------------------------------------------------
(* What is printed.                                                        *)

\* The names printed are those met on the tour.
LEMMA TourNames ==
    ASSUME NEW h, NEW m \in Msg, NEW S \in SUBSET Nodes(m), NEW end, Tour(h, m, S, end)
    PROVE  Names(h, m) = [k \in 1..(end - 1) |-> NamesOf(Walk(h, m)[k])]
<1> DEFINE ends == {k \in 1..Steps : Walk(h, m)[k] \in Roots}
<1>1. First(ends) = end BY TourEnd
<1> QED BY <1>1 DEF Names

\* They are names of headers, and there are some.
LEMMA NamesType ==
    ASSUME NEW h, NEW m \in Msg, NEW S \in SUBSET Nodes(m), NEW end, Tour(h, m, S, end),
           <<"own", m>> \in S,
           custom \in Seq(HeaderName), \A n \in S : n[1] = "custom" => n[2] \in DOMAIN custom
    PROVE  Names(h, m) \in Seq(SUBSET HeaderName) /\ Names(h, m) # <<>>
<1> DEFINE at == Walk(h, m)
<1>1. /\ end \in 1..Steps /\ \A k \in 1..(end - 1) : at[k] \in S
      /\ \E k \in 1..(end - 1) : at[k] = <<"own", m>>
  BY DEF Tour
<1>2. Names(h, m) = [k \in 1..(end - 1) |-> NamesOf(at[k])] BY TourNames
<1> HIDE DEF at
<1>3. end - 1 \in Nat BY <1>1, StepsType
<1>4. \A n \in S : NamesOf(n) \in SUBSET HeaderName
  <2> SUFFICES ASSUME NEW n \in S PROVE NamesOf(n) \subseteq HeaderName OBVIOUS
  <2>1. n \in Nodes(m) OBVIOUS
  <2>2. CASE n[1] = "custom"
    <3>1. custom[n[2]] \in HeaderName BY <2>2
    <3> QED BY <3>1, <2>2 DEF NamesOf
  <2> HIDE DEF NamesOf
  <2>3. "Contact" \in HeaderName /\ "User-Agent" \in HeaderName /\ "Authorization" \in HeaderName
    BY HeaderNameAssumption
  <2>4. CASE n[1] = "own"
    <3>1. NamesOf(n) \subseteq {"Contact"} BY <2>4 DEF NamesOf
    <3> QED BY <2>3, <3>1
  <2>5. CASE n[1] = "agent"
    <3>1. NamesOf(n) = {"User-Agent"} BY <2>5 DEF NamesOf
    <3> QED BY <2>3, <3>1
  <2>6. CASE n[1] = "auth"
    <3>1. NamesOf(n) = {"Authorization"} BY <2>6 DEF NamesOf
    <3> QED BY <2>3, <3>1
  <2>7. n[1] \in {"own", "agent", "auth", "custom"} BY <2>1 DEF Nodes
  <2> QED BY <2>2, <2>4, <2>5, <2>6, <2>7
<1>5. Names(h, m) \in [1..(end - 1) -> SUBSET HeaderName] BY <1>1, <1>2, <1>4
<1>6. Names(h, m) \in Seq(SUBSET HeaderName) /\ Len(Names(h, m)) = end - 1 BY <1>3, <1>5
<1>7. end - 1 # 0 BY <1>1
<1> QED BY <1>6, <1>7

\* A name is printed as often as nodes carry it.
LEMMA CountPrinted ==
    ASSUME NEW h, NEW m \in Msg, NEW S \in SUBSET Nodes(m), NEW end, Tour(h, m, S, end),
           NEW name, Carries(S, name)
    PROVE  /\ Count(Names(h, m), name) \in Nat /\ Count(Names(h, m), name) >= 1
           /\ Distinct(S) /\ name # "Authorization" => Count(Names(h, m), name) = 1
<1> DEFINE at == Walk(h, m)
           hits == {k \in 1..(end - 1) : name \in NamesOf(at[k])}
<1>1. /\ end \in 1..Steps /\ \A k \in 1..(end - 1) : at[k] \in S
      /\ \A n \in S : \E k \in 1..(end - 1) : at[k] = n
      /\ \A j, k \in 1..(end - 1) : j < k => at[j] # at[k]
  BY DEF Tour
<1>2. Count(Names(h, m), name) = Cardinality(hits)
  <2>1. Names(h, m) = [k \in 1..(end - 1) |-> NamesOf(at[k])] BY TourNames
  <2> HIDE DEF at
  <2>2. {k \in DOMAIN Names(h, m) : name \in Names(h, m)[k]} = hits BY <2>1
  <2> QED BY <2>2 DEF Count
<1> HIDE DEF at
<1>3. end - 1 \in Nat BY <1>1, StepsType
<1>4. IsFiniteSet(hits)
  <2>1. IsFiniteSet(1..(end - 1)) BY <1>3, FS_Interval
  <2> QED BY <2>1, FS_Subset
<1>5. PICK k \in hits : TRUE BY <1>1 DEF Carries
<1>6. Cardinality(hits) \in Nat /\ Cardinality(hits) # 0
  BY <1>4, <1>5, FS_CardinalityType, FS_EmptySet
<1>7. ASSUME Distinct(S), name # "Authorization" PROVE Cardinality(hits) = 1
  <2>1. ASSUME NEW j \in hits PROVE j = k
    <3>1. at[j] = at[k] BY <1>1, <1>7 DEF Distinct
    <3>2. ~(j < k) /\ ~(k < j) BY <3>1, <1>1
    <3> QED BY <3>2
  <2>2. hits = {k} BY <2>1
  <2> QED BY <2>2, FS_Singleton
<1> QED BY <1>2, <1>6, <1>7

-----------------------------------------------------------------------------
(* Linking a node.                                                         *)

\* The node goes between the last one and the root, and no other link changes.
LEMMA PushBackLinks ==
    ASSUME NEW h, NEW owner, NEW linked, ListsInv(h, owner, linked),
           NEW m \in Msg, Intact(owner, m, linked[m]),
           NEW n \in Nodes(m), \A y \in linked[m] : Rank(y) < Rank(n)
    PROVE  LET last == h.prev[Root(m)]
           IN  /\ last \in linked[m] \cup {Root(m)}
               /\ \A y \in linked[m] : Rank(y) <= Rank(last)
               /\ last # n
               /\ PushBack(h, m, n).next = [h.next EXCEPT ![n] = Root(m), ![last] = n]
               /\ PushBack(h, m, n).prev = [h.prev EXCEPT ![n] = last, ![Root(m)] = n]
               /\ PushBack(h, m, n) \in Heaps
<1> DEFINE S == linked[m]
           last == h.prev[Root(m)]
<1>1. Linked(h, owner, m, S) /\ h \in Heaps BY DEF ListsInv
<1>2. S \subseteq Nodes(m) /\ ComesLast(S, m, last) BY <1>1 DEF Linked
<1>3. last \in Kept(owner, m, S) \cup {Root(m)} BY <1>2 DEF ComesLast, Intact, Kept
<1>4. Follows(S, m, last, h.next[last]) BY <1>1, <1>3 DEF Linked
<1>5. Root(m) \in Node /\ n \in Node /\ n # Root(m) BY RootIsNode, NodeFacts, RootFacts
<1>6. \A y \in S : y \in Node /\ Rank(y) \in Nat /\ Rank(y) < Rank(n) /\ Rank(n) \in Nat
  BY <1>2, NodeFacts
<1>7. last \in Node /\ last # n BY <1>2, <1>5, <1>6 DEF ComesLast
<1>8. h.next[last] = Root(m)
  <2>1. Rank(last) \in Nat BY <1>2, <1>6, RootFacts DEF ComesLast
  <2> QED BY <2>1, <1>2, <1>4, <1>6 DEF Follows, ComesLast
<1> HIDE DEF last
<1>9. PushBack(h, m, n) = [next |-> [h.next EXCEPT ![n] = Root(m), ![last] = n],
                           prev |-> [h.prev EXCEPT ![n] = last, ![Root(m)] = n]]
  BY <1>8 DEF PushBack, last
<1>10. PushBack(h, m, n) \in Heaps BY <1>1, <1>5, <1>7, <1>9 DEF Heaps
<1> QED BY <1>2, <1>7, <1>9, <1>10 DEF ComesLast, last

\* Where the custom headers are after n was linked into m.
Taken(owner, m, n) == IF n[1] = "custom" THEN [owner EXCEPT ![n[2]] = m] ELSE owner
Added(linked, m, n) == [linked EXCEPT ![m] = @ \cup {n}]

\* A node that is later in order than those of an intact list can be linked into it, if
\* it is in no list of a newer message: all other lists stay as they are, but for the node.
LEMMA PushBackInv ==
    ASSUME NEW h, NEW owner, NEW linked, ListsInv(h, owner, linked),
           NEW m \in Msg, Intact(owner, m, linked[m]),
           NEW n \in Nodes(m), \A y \in linked[m] : Rank(y) < Rank(n),
           \A x \in Msg : n \in linked[x] => x <= m
    PROVE  /\ ListsInv(PushBack(h, m, n), Taken(owner, m, n), Added(linked, m, n))
           /\ Intact(Taken(owner, m, n), m, Added(linked, m, n)[m])
<1> DEFINE S == linked[m]
           S2 == S \cup {n}
           last == h.prev[Root(m)]
           h2 == PushBack(h, m, n)
           owner2 == Taken(owner, m, n)
           linked2 == Added(linked, m, n)
<1>1. /\ last \in S \cup {Root(m)}
      /\ \A y \in S : Rank(y) <= Rank(last)
      /\ last # n
      /\ h2.next = [h.next EXCEPT ![n] = Root(m), ![last] = n]
      /\ h2.prev = [h.prev EXCEPT ![n] = last, ![Root(m)] = n]
      /\ h2 \in Heaps
  BY PushBackLinks
<1> HIDE DEF last, h2
<1>2. h \in Heaps /\ \A x \in Msg : Linked(h, owner, x, linked[x]) BY DEF ListsInv
<1>3. /\ owner \in [1..MaxCustom -> {0} \cup Msg]
      /\ linked \in [Msg -> SUBSET Node]
      /\ \A x \in Msg, i \in 1..MaxCustom : <<"custom", i>> \in linked[x] => x <= owner[i]
      /\ \A i \in 1..MaxCustom : owner[i] # 0 => <<"custom", i>> \in linked[owner[i]]
  BY DEF ListsInv
<1>4. \A x \in Msg : linked[x] \subseteq Nodes(x) BY <1>2 DEF Linked
<1>5. S2 \subseteq Nodes(m) BY <1>4
<1>6. /\ \A y \in S2 : y \in Node /\ Rank(y) \in 1..(MaxCustom + 3) /\ y \notin Roots
      /\ \A y, z \in S2 : Rank(y) = Rank(z) => y = z
      /\ Rank(Root(m)) = 0 /\ Root(m) \in Node /\ Root(m) \in Roots
  BY <1>5, NodeFacts, RootFacts, RootIsNode
<1>7. n[1] = "custom" => n[2] \in 1..MaxCustom /\ n = <<"custom", n[2]>> BY DEF Nodes
<1>8. /\ linked2 \in [Msg -> SUBSET Node] /\ linked2[m] = S2
      /\ \A x \in Msg : x # m => linked2[x] = linked[x]
  BY <1>3, <1>6 DEF Added
<1>9. /\ owner2 \in [1..MaxCustom -> {0} \cup Msg]
      /\ \A i \in 1..MaxCustom : owner2[i] = IF n = <<"custom", i>> THEN m ELSE owner[i]
  <2>1. CASE n[1] = "custom" BY <2>1, <1>3, <1>7 DEF Taken
  <2>2. CASE n[1] # "custom" BY <2>2, <1>3 DEF Taken
  <2> QED BY <2>1, <2>2
<1> HIDE DEF linked2, owner2
<1>10. Intact(owner2, m, S2)
  <2> SUFFICES ASSUME NEW y \in S2, y[1] = "custom" PROVE owner2[y[2]] = m BY DEF Intact
  <2>1. y[2] \in 1..MaxCustom /\ y = <<"custom", y[2]>> BY <1>5 DEF Nodes
  <2>2. CASE y = n BY <2>1, <2>2, <1>9
  <2>3. CASE y # n
    <3>1. owner[y[2]] = m BY <2>3 DEF Intact
    <3> QED BY <3>1, <2>1, <2>3, <1>9
  <2> QED BY <2>2, <2>3
<1>11. \A y \in Node : /\ h2.next[y] = IF y = last THEN n ELSE IF y = n THEN Root(m) ELSE h.next[y]
                       /\ h2.prev[y] = IF y = Root(m) THEN n ELSE IF y = n THEN last ELSE h.prev[y]
  BY <1>1, <1>2, <1>6 DEF Heaps
<1>12. Linked(h2, owner2, m, S2)
  <2>1. ASSUME NEW y \in S2 \cup {Root(m)} PROVE Follows(S2, m, y, h2.next[y])
    <3>1. CASE y = n
      <4>1. h2.next[y] = Root(m) BY <3>1, <1>1, <1>6, <1>11
      <4>2. \A z \in S2 : Rank(z) <= Rank(n) BY <1>6
      <4> QED BY <3>1, <4>1, <4>2 DEF Follows
    <3>2. CASE y = last
      <4>1. h2.next[y] = n BY <3>2, <1>1, <1>6, <1>11
      <4>2. Rank(last) < Rank(n) BY <1>1, <1>6
      <4>3. \A z \in S2 : Rank(z) <= Rank(last) \/ Rank(n) <= Rank(z) BY <1>1, <1>6
      <4> QED BY <3>2, <4>1, <4>2, <4>3 DEF Follows
    <3>3. CASE y # n /\ y # last
      <4>1. h2.next[y] = h.next[y] BY <3>3, <1>6, <1>11
      <4>2. y \in Kept(owner, m, S) \cup {Root(m)} BY <3>3 DEF Kept, Intact
      <4>3. Follows(S, m, y, h.next[y]) BY <4>2, <1>2 DEF Linked
      <4>4. h.next[y] # Root(m)
        <5> SUFFICES ASSUME h.next[y] = Root(m) PROVE FALSE OBVIOUS
        <5>1. \A z \in S : Rank(z) <= Rank(y) BY <4>3, <1>6 DEF Follows
        <5>2. Rank(last) <= Rank(y) /\ Rank(y) <= Rank(last)
          BY <5>1, <3>3, <1>1, <1>6, MaxCustomAssumption
        <5>3. Rank(last) = Rank(y) BY <5>2, <3>3, <1>1, <1>6
        <5> QED BY <5>3, <3>3, <1>1, <1>6
      <4>5. h.next[y] \in S /\ Rank(y) < Rank(h.next[y])
            /\ \A z \in S : Rank(z) <= Rank(y) \/ Rank(h.next[y]) <= Rank(z)
        BY <4>3, <4>4 DEF Follows
      <4>6. Rank(h.next[y]) <= Rank(n) BY <4>5, <1>6
      <4> QED BY <4>1, <4>5, <4>6 DEF Follows
    <3> QED BY <3>1, <3>2, <3>3
  <2>2. h2.prev[Root(m)] = n BY <1>6, <1>11
  <2>3. \A z \in S2 : Rank(z) <= Rank(n) BY <1>6
  <2> QED BY <2>1, <2>2, <2>3, <1>5 DEF Linked, Kept, ComesLast
<1>13. ASSUME NEW x \in Msg, x # m PROVE Linked(h2, owner2, x, linked[x])
  <2>1. ASSUME NEW y \in Kept(owner2, x, linked[x]) \cup {Root(x)}
        PROVE  Follows(linked[x], x, y, h2.next[y])
    <3>1. y \in Kept(owner, x, linked[x]) \cup {Root(x)} /\ y # n /\ y # last /\ y \in Node
      <4>1. CASE y = Root(x) BY <4>1, <1>1, <1>6, <1>13, RootFacts, RootIsNode
      <4>2. CASE y \in Kept(owner2, x, linked[x])
        <5>1. y \in linked[x] /\ y \in Nodes(x) /\ (y[1] = "custom" => owner2[y[2]] = x)
          BY <4>2, <1>4 DEF Kept
        <5>2. y \in Node \ Roots BY <5>1, NodeFacts
        <5>3. y[1] = "custom" => y[2] \in 1..MaxCustom /\ y = <<"custom", y[2]>>
          BY <5>1 DEF Nodes
        <5>4. y # n
          <6> SUFFICES ASSUME y = n PROVE FALSE OBVIOUS
          <6>1. y[1] = "custom" BY <5>1, <1>13, SharedNode
          <6> QED BY <6>1, <5>1, <5>3, <1>9, <1>13
        <5>5. y[1] = "custom" => owner[y[2]] = x BY <5>1, <5>3, <5>4, <1>9
        <5>6. y # last
          <6> SUFFICES ASSUME y = last PROVE FALSE OBVIOUS
          <6>1. y \in S BY <5>2, <1>1, <1>6
          <6>2. y[1] = "custom" BY <6>1, <5>1, <1>4, <1>13, SharedNode
          <6>3. owner[y[2]] = m BY <6>1, <6>2 DEF Intact
          <6> QED BY <6>2, <6>3, <5>5, <1>13
        <5> QED BY <5>1, <5>2, <5>4, <5>5, <5>6 DEF Kept
      <4> QED BY <4>1, <4>2
    <3>2. h2.next[y] = h.next[y] BY <3>1, <1>11
    <3>3. Linked(h, owner, x, linked[x]) BY <1>2
    <3> QED BY <3>1, <3>2, <3>3 DEF Linked
  <2>2. h2.prev[Root(x)] = h.prev[Root(x)] BY <1>6, <1>11, <1>13, RootFacts, RootIsNode
  <2> QED BY <2>1, <2>2, <1>2 DEF Linked
<1>14. \A x \in Msg : Linked(h2, owner2, x, linked2[x]) BY <1>8, <1>12, <1>13
<1>15. ASSUME NEW x \in Msg, NEW i \in 1..MaxCustom, <<"custom", i>> \in linked2[x]
       PROVE  x <= owner2[i]
  <2>1. CASE n = <<"custom", i>>
    <3>1. x = m \/ n \in linked[x] BY <2>1, <1>8, <1>15
    <3>2. m <= m BY DEF Msg
    <3> QED BY <2>1, <3>1, <3>2, <1>9
  <2>2. CASE n # <<"custom", i>>
    <3>1. <<"custom", i>> \in linked[x] BY <2>2, <1>8, <1>15
    <3> QED BY <2>2, <3>1, <1>3, <1>9
  <2> QED BY <2>1, <2>2
<1>16. ASSUME NEW i \in 1..MaxCustom, owner2[i] # 0 PROVE <<"custom", i>> \in linked2[owner2[i]]
  <2>1. CASE n = <<"custom", i>> BY <2>1, <1>8, <1>9
  <2>2. CASE n # <<"custom", i>>
    <3>1. owner2[i] = owner[i] /\ owner[i] \in Msg BY <2>2, <1>3, <1>9, <1>16
    <3>2. <<"custom", i>> \in linked[owner[i]] BY <3>1, <1>3, <1>16
    <3> QED BY <3>1, <3>2, <1>8
  <2> QED BY <2>1, <2>2
<1>17. ListsInv(h2, owner2, linked2) BY <1>1, <1>8, <1>9, <1>14, <1>15, <1>16 DEF ListsInv
<1> QED BY <1>8, <1>10, <1>17 DEF h2, owner2, linked2

-----------------------------------------------------------------------------
(* Adding headers.                                                         *)

States == [heap : Heaps, lost : BOOLEAN]

\* A walk without an end leaves the lists alone.
LEMMA AddHeaderLost ==
    ASSUME NEW s \in States, NEW m, NEW n, NEW name, NEW given,
           s.lost \/ Find(s.heap, m, name) = "lost"
    PROVE  LET r == AddHeader(s, m, n, name, given)
           IN  r \in States /\ r.heap = s.heap /\ r.lost
<1>1. AddHeader(s, m, n, name, given) = [s EXCEPT !.lost = TRUE] BY DEF AddHeader
<1> QED BY <1>1 DEF States

\* So does a header that is found, or is not given.
LEMMA AddHeaderSame ==
    ASSUME NEW s \in States, NEW m, NEW n, NEW name, NEW given,
           ~s.lost, Find(s.heap, m, name) # "lost",
           Find(s.heap, m, name) # "absent" \/ ~given
    PROVE  AddHeader(s, m, n, name, given) = s
BY DEF AddHeader

\* The custom headers are added one after the other.
LEMMA AddCustomSteps ==
    ASSUME NEW start, NEW m, Len(custom) \in Nat
    PROVE  /\ AddAllCustom(start, m)[0] = start
           /\ \A i \in 1..Len(custom) :
                  AddAllCustom(start, m)[i] = AddCustom(AddAllCustom(start, m)[i - 1], m, i)
<1> DEFINE P(n) == \E f : f = [i \in 0..n |-> IF i = 0 THEN start ELSE AddCustom(f[i - 1], m, i)]
           T == {n \in Nat : P(n)}
<1>1. 0 \in T
  <2> DEFINE f == [i \in 0..0 |-> start]
  <2>1. f = [i \in 0..0 |-> IF i = 0 THEN start ELSE AddCustom(f[i - 1], m, i)] OBVIOUS
  <2> QED BY <2>1
<1>2. ASSUME NEW n \in 0..Len(custom), n \in T, n < Len(custom) PROVE n + 1 \in T
  <2>1. PICK f : f = [i \in 0..n |-> IF i = 0 THEN start ELSE AddCustom(f[i - 1], m, i)] BY <1>2
  <2> DEFINE g == [i \in 0..(n + 1) |-> IF i = 0 THEN start ELSE AddCustom(f[i - 1], m, i)]
  <2>2. \A i \in 0..n : g[i] = f[i] BY <2>1
  <2>3. \A i \in 0..(n + 1) : i # 0 => i - 1 \in 0..n OBVIOUS
  <2>4. g = [i \in 0..(n + 1) |-> IF i = 0 THEN start ELSE AddCustom(g[i - 1], m, i)] BY <2>2, <2>3
  <2> HIDE DEF g
  <2>5. n + 1 \in Nat OBVIOUS
  <2> QED BY <2>4, <2>5
<1> HIDE DEF T
<1>3. Len(custom) \in T
  <2> DEFINE N == Len(custom)
  <2>1. \A n \in 0..N : n \in T /\ n < N => n + 1 \in T BY <1>2
  <2>2. N \in Nat OBVIOUS
  <2> HIDE DEF N
  <2>3. \A n \in 0..N : n \in T BY <1>1, <2>1, <2>2, UpTo
  <2> QED BY <2>2, <2>3 DEF N
<1>4. P(Len(custom)) BY <1>3 DEF T
<1> DEFINE after[i \in 0..Len(custom)] == IF i = 0 THEN start ELSE AddCustom(after[i - 1], m, i)
<1>5. after = [i \in 0..Len(custom) |-> IF i = 0 THEN start ELSE AddCustom(after[i - 1], m, i)]
  BY <1>4
<1>6. AddAllCustom(start, m) = after BY DEF AddAllCustom
<1> HIDE DEF after
<1>7. after[0] = start /\ \A i \in 1..Len(custom) : after[i] = AddCustom(after[i - 1], m, i) BY <1>5
<1> QED BY <1>6, <1>7

\* A message that has all its headers gets no others.
LEMMA CompleteKeeps ==
    ASSUME NEW owner, NEW linked, ListsInv(heap, owner, linked), custom \in Seq(HeaderName),
           ua \in BOOLEAN, NEW m \in Msg, Complete(linked[m])
    PROVE  /\ AddSipHeaders(m) \in States /\ AddSipHeaders(m).heap = heap
           /\ Intact(owner, m, linked[m]) => ~AddSipHeaders(m).lost
<1>1. \A name : /\ Carries(linked[m], name) => Find(heap, m, name) # "absent"
                /\ Intact(owner, m, linked[m]) => Find(heap, m, name) # "lost"
  <2>1. CASE Intact(owner, m, linked[m])
    <3>1. Linked(heap, owner, m, linked[m]) /\ heap \in Heaps BY DEF ListsInv
    <3>2. PICK end : Tour(heap, m, linked[m], end) BY <2>1, <3>1, IntactTour
    <3>3. linked[m] \in SUBSET Nodes(m) BY <3>1 DEF Linked
    <3> QED BY <3>2, <3>3, TourFind
  <2>2. CASE ~Intact(owner, m, linked[m]) BY <2>2, BrokenFind
  <2> QED BY <2>1, <2>2
<1> DEFINE Same(s) == s \in States /\ s.heap = heap /\ (Intact(owner, m, linked[m]) => ~s.lost)
<1>2. ASSUME NEW s, Same(s), NEW n, NEW name, NEW given, given => Carries(linked[m], name)
      PROVE  Same(AddHeader(s, m, n, name, given))
  <2>1. CASE s.lost \/ Find(s.heap, m, name) = "lost" BY <2>1, <1>1, <1>2, AddHeaderLost
  <2>2. CASE ~s.lost /\ Find(s.heap, m, name) # "lost"
    <3>1. Find(s.heap, m, name) # "absent" \/ ~given BY <1>1, <1>2
    <3> QED BY <2>2, <3>1, <1>2, AddHeaderSame
  <2> QED BY <2>1, <2>2
<1> HIDE DEF Same
<1>3. Same([heap |-> heap, lost |-> FALSE])
  BY DEF Same, States, ListsInv
<1>4. Same(AddAgent(m)) BY <1>2, <1>3 DEF AddAgent, Complete
<1> DEFINE a == AddAllCustom(AddAgent(m), m)
           T == {i \in Nat : Same(a[i])}
<1>5. Len(custom) \in Nat /\ DOMAIN custom = 1..Len(custom) OBVIOUS
<1>6. a[0] = AddAgent(m) /\ \A i \in 1..Len(custom) : a[i] = AddCustom(a[i - 1], m, i)
  BY <1>5, AddCustomSteps
<1> HIDE DEF a
<1>7. 0 \in T BY <1>4, <1>6
<1>8. ASSUME NEW i \in 0..Len(custom), i \in T, i < Len(custom) PROVE i + 1 \in T
  <2>1. i + 1 \in 1..Len(custom) /\ (i + 1) - 1 = i /\ i + 1 \in Nat BY <1>8
  <2>2. a[i + 1] = AddCustom(a[i], m, i + 1) BY <2>1, <1>6
  <2>3. Carries(linked[m], custom[i + 1]) BY <2>1, <1>5 DEF Complete
  <2> QED BY <2>1, <2>2, <2>3, <1>2, <1>8 DEF AddCustom
<1> HIDE DEF T
<1>9. Len(custom) \in T
  <2> DEFINE N == Len(custom)
  <2>1. \A n \in 0..N : n \in T /\ n < N => n + 1 \in T BY <1>8
  <2>2. N \in Nat BY <1>5
  <2> HIDE DEF N
  <2>3. \A n \in 0..N : n \in T BY <1>7, <2>1, <2>2, UpTo
  <2> QED BY <2>2, <2>3 DEF N
<1>10. Same(a[Len(custom)]) BY <1>9 DEF T
<1> QED BY <1>10 DEF AddSipHeaders, a, Same

\* What r may be after looking for a header and adding it.
AddedWell(r, linked, m, n, name) ==
    /\ r \in States /\ ~r.lost
    /\ \E owner : \E S \in {linked[m], linked[m] \cup {n}} :
           /\ ListsInv(r.heap, owner, [linked EXCEPT ![m] = S])
           /\ Intact(owner, m, S)
           /\ Distinct(S)
           /\ Carries(S, name)

\* Looking for a header in a list from which nothing was taken, and adding it.
LEMMA AddOne ==
    ASSUME NEW s \in States, ~s.lost, NEW owner, NEW linked, ListsInv(s.heap, owner, linked),
           NEW m \in Msg, Intact(owner, m, linked[m]), Distinct(linked[m]),
           NEW n \in Nodes(m), \A y \in linked[m] : Rank(y) < Rank(n),
           \A x \in Msg : n \in linked[x] => x <= m,
           NEW name, NamesOf(n) = {name}
    PROVE  AddedWell(AddHeader(s, m, n, name, TRUE), linked, m, n, name)
<1> DEFINE r == AddHeader(s, m, n, name, TRUE)
           Good(owner2, S) == /\ ListsInv(r.heap, owner2, [linked EXCEPT ![m] = S])
                              /\ Intact(owner2, m, S)
                              /\ Distinct(S)
                              /\ Carries(S, name)
<1>1. Linked(s.heap, owner, m, linked[m]) /\ s.heap \in Heaps /\ linked \in [Msg -> SUBSET Node]
  BY DEF ListsInv
<1>2. PICK end : Tour(s.heap, m, linked[m], end) BY <1>1, IntactTour
<1>3. linked[m] \in SUBSET Nodes(m) BY <1>1 DEF Linked
<1>4. /\ Carries(linked[m], name) => Find(s.heap, m, name) = "found"
      /\ ~Carries(linked[m], name) => Find(s.heap, m, name) = "absent"
  BY <1>2, <1>3, TourFind
<1>5. /\ Find(s.heap, m, name) = "found" => r = s
      /\ Find(s.heap, m, name) = "absent" => r = [s EXCEPT !.heap = PushBack(s.heap, m, n)]
  BY DEF AddHeader
<1> HIDE DEF r
<1>6. CASE Carries(linked[m], name)
  <2>1. r = s BY <1>4, <1>6, <1>5
  <2>2. [linked EXCEPT ![m] = linked[m]] = linked BY <1>1
  <2>3. Good(owner, linked[m]) BY <1>6, <2>1, <2>2
  <2> HIDE DEF Good
  <2>4. r \in States /\ ~r.lost BY <2>1
  <2> QED BY <2>3, <2>4 DEF Good, r, AddedWell
<1>7. CASE ~Carries(linked[m], name)
  <2> DEFINE S == linked[m] \cup {n}
  <2>1. r = [s EXCEPT !.heap = PushBack(s.heap, m, n)] BY <1>4, <1>7, <1>5
  <2>2. PushBack(s.heap, m, n) \in Heaps BY PushBackLinks
  <2>3. r \in States /\ r.heap = PushBack(s.heap, m, n) /\ ~r.lost
    BY <2>1, <2>2 DEF States
  <2>4. /\ ListsInv(PushBack(s.heap, m, n), Taken(owner, m, n), Added(linked, m, n))
        /\ Intact(Taken(owner, m, n), m, Added(linked, m, n)[m])
    BY PushBackInv
  <2>5. Added(linked, m, n) = [linked EXCEPT ![m] = S] /\ Added(linked, m, n)[m] = S
    BY <1>1 DEF Added
  <2>6. Carries(S, name) BY DEF Carries
  <2>7. Distinct(S) BY <1>7 DEF Distinct, Carries
  <2> HIDE DEF S
  <2>8. Good(Taken(owner, m, n), S) BY <2>3, <2>4, <2>5, <2>6, <2>7
  <2> HIDE DEF Good
  <2> QED BY <2>3, <2>8 DEF Good, r, S, AddedWell
<1> QED BY <1>6, <1>7

\* A new message gets all its headers, and is intact, whatever it takes from the others.
LEMMA FreshCompletes ==
    ASSUME NEW owner, NEW linked, ListsInv(heap, owner, linked),
           custom \in Seq(HeaderName), Len(custom) <= MaxCustom, ua \in BOOLEAN,
           NEW m \in Msg, linked[m] = {<<"own", m>>},
           \A x \in Msg : linked[x] # {} => x <= m
    PROVE  LET r == AddSipHeaders(m)
           IN  /\ r \in States /\ ~r.lost
               /\ \E owner2 : \E S \in SUBSET Nodes(m) :
                      /\ ListsInv(r.heap, owner2, [linked EXCEPT ![m] = S])
                      /\ Intact(owner2, m, S)
                      /\ Distinct(S) /\ Complete(S)
                      /\ <<"own", m>> \in S /\ <<"auth", m>> \notin S
                      /\ \A n \in S : n[1] = "custom" => n[2] \in DOMAIN custom
<1> DEFINE Good(i, r, owner2, S) ==
               /\ r \in States /\ ~r.lost
               /\ ListsInv(r.heap, owner2, [linked EXCEPT ![m] = S])
               /\ Intact(owner2, m, S)
               /\ Distinct(S)
               /\ ua => Carries(S, "User-Agent")
               /\ \A j \in 1..i : Carries(S, custom[j])
               /\ <<"own", m>> \in S
               /\ \A n \in S : Rank(n) <= 2 + i /\ (n[1] = "custom" => n[2] \in 1..i)
           start == [heap |-> heap, lost |-> FALSE]
           a == AddAllCustom(AddAgent(m), m)
           P(i) == \E owner2 : \E S \in SUBSET Nodes(m) : Good(i, a[i], owner2, S)
<1>1. linked \in [Msg -> SUBSET Node] /\ heap \in Heaps /\ Linked(heap, owner, m, linked[m])
  BY DEF ListsInv
<1>2. Len(custom) \in Nat /\ DOMAIN custom = 1..Len(custom) OBVIOUS
<1>3. a[0] = AddAgent(m) /\ \A i \in 1..Len(custom) : a[i] = AddCustom(a[i - 1], m, i)
  BY <1>2, AddCustomSteps
<1> HIDE DEF a
<1>4. P(0)
  <2> DEFINE n == <<"agent", m>>
             own == <<"own", m>>
  <2>1. start \in States /\ ~start.lost /\ start.heap = heap BY <1>1 DEF States
  <2> HIDE DEF start
  <2>2. n \in Nodes(m) /\ own \in Nodes(m) /\ Rank(own) = 1 /\ Rank(n) = 2
    BY DEF Nodes, Rank
  <2>3. \A x \in Msg : n \in linked[x] => x <= m BY DEF Nodes
  <2>4. NamesOf(n) = {"User-Agent"} BY DEF NamesOf
  <2>5. Distinct(linked[m]) BY DEF Distinct
  <2>6. Intact(owner, m, linked[m]) BY DEF Intact
  <2>7. \A y \in linked[m] : Rank(y) < Rank(n) BY <2>2
  <2>8. PICK owner2 : \E S \in {linked[m], linked[m] \cup {n}} :
             /\ a[0] \in States /\ ~a[0].lost
             /\ ListsInv(a[0].heap, owner2, [linked EXCEPT ![m] = S])
             /\ Intact(owner2, m, S)
             /\ Distinct(S)
             /\ ua => Carries(S, "User-Agent")
    <3>1. CASE ua
      <4>1. AddedWell(AddHeader(start, m, n, "User-Agent", TRUE), linked, m, n, "User-Agent")
        BY <2>1, <2>2, <2>3, <2>4, <2>5, <2>6, <2>7, AddOne
      <4>2. AddAgent(m) = AddHeader(start, m, n, "User-Agent", TRUE)
        BY <3>1 DEF AddAgent, AddHeader, start
      <4> QED BY <1>3, <4>1, <4>2 DEF AddedWell
    <3>2. CASE ~ua
      <4>1. linked[m] \in SUBSET Nodes(m) BY <1>1 DEF Linked
      <4>2. PICK end : Tour(heap, m, linked[m], end) BY <1>1, <2>6, IntactTour
      <4>3. Find(heap, m, "User-Agent") # "lost" BY <4>1, <4>2, TourFind
      <4>4. AddAgent(m) = start BY <3>2, <4>3, <2>1 DEF AddAgent, AddHeader, start
      <4>5. [linked EXCEPT ![m] = linked[m]] = linked BY <1>1
      <4> QED BY <1>3, <2>1, <2>5, <2>6, <3>2, <4>4, <4>5
    <3> QED BY <3>1, <3>2
  <2>9. PICK S \in {linked[m], linked[m] \cup {n}} :
             /\ a[0] \in States /\ ~a[0].lost
             /\ ListsInv(a[0].heap, owner2, [linked EXCEPT ![m] = S])
             /\ Intact(owner2, m, S)
             /\ Distinct(S)
             /\ ua => Carries(S, "User-Agent")
    BY <2>8
  <2>10. own \in S /\ \A y \in S : Rank(y) <= 2 + 0 /\ y[1] # "custom" BY <2>2
  <2>11. Good(0, a[0], owner2, S) BY <2>9, <2>10
  <2>12. S \in SUBSET Nodes(m) BY <2>2
  <2> HIDE DEF Good
  <2> QED BY <2>11, <2>12
<1>5. ASSUME NEW k \in 0..Len(custom), P(k), k < Len(custom) PROVE P(k + 1)
  <2> DEFINE i == k + 1
             n == <<"custom", i>>
  <2>1. i \in 1..Len(custom) /\ i - 1 = k /\ i \in 1..MaxCustom /\ i \in Nat
    BY <1>2, <1>5, MaxCustomAssumption
  <2>2. a[i] = AddHeader(a[k], m, n, custom[i], TRUE) BY <2>1, <1>3 DEF AddCustom
  <2> HIDE DEF Good
  <2>3. PICK owner1 : \E S \in SUBSET Nodes(m) : Good(k, a[k], owner1, S) BY <1>5
  <2>4. PICK T \in SUBSET Nodes(m) : Good(k, a[k], owner1, T) BY <2>3
  <2> USE DEF Good
  <2> DEFINE linked1 == [linked EXCEPT ![m] = T]
  <2>5. linked1[m] = T /\ \A x \in Msg : x # m => linked1[x] = linked[x] BY <1>1
  <2>6. \A S : [linked1 EXCEPT ![m] = S] = [linked EXCEPT ![m] = S] BY <1>1
  <2>7. ListsInv(a[k].heap, owner1, linked1) BY <2>4
  <2>8. Intact(owner1, m, T) /\ Distinct(T) /\ a[k] \in States /\ ~a[k].lost
        /\ \A y \in T : Rank(y) <= 2 + k /\ (y[1] = "custom" => y[2] \in 1..k)
    BY <2>4
  <2> HIDE DEF linked1, Good
  <2>9. n \in Nodes(m) /\ Rank(n) = 2 + i BY <2>1 DEF Nodes, Rank
  <2>10. \A y \in T : Rank(y) < Rank(n)
    <3> SUFFICES ASSUME NEW y \in T PROVE Rank(y) < Rank(n) OBVIOUS
    <3>1. Rank(y) \in Nat BY NodeFacts
    <3> QED BY <3>1, <2>8, <2>9
  <2>11. \A x \in Msg : n \in linked1[x] => x <= m
    <3> SUFFICES ASSUME NEW x \in Msg, n \in linked1[x] PROVE x <= m OBVIOUS
    <3>1. CASE x = m BY <3>1 DEF Msg
    <3>2. CASE x # m BY <3>2, <2>5
    <3> QED BY <3>1, <3>2
  <2>12. NamesOf(n) = {custom[i]} BY DEF NamesOf
  <2> HIDE DEF n, i
  <2>13. AddedWell(AddHeader(a[k], m, n, custom[i], TRUE), linked1, m, n, custom[i])
    BY <2>5, <2>7, <2>8, <2>9, <2>10, <2>11, <2>12, AddOne
  <2>14. PICK owner2 : \E S \in {T, T \cup {n}} :
             /\ a[i] \in States /\ ~a[i].lost
             /\ ListsInv(a[i].heap, owner2, [linked EXCEPT ![m] = S])
             /\ Intact(owner2, m, S)
             /\ Distinct(S)
             /\ Carries(S, custom[i])
    BY <2>2, <2>5, <2>6, <2>13 DEF AddedWell
  <2>15. PICK S \in {T, T \cup {n}} :
             /\ a[i] \in States /\ ~a[i].lost
             /\ ListsInv(a[i].heap, owner2, [linked EXCEPT ![m] = S])
             /\ Intact(owner2, m, S)
             /\ Distinct(S)
             /\ Carries(S, custom[i])
    BY <2>14
  <2>16. S \in SUBSET Nodes(m) /\ T \subseteq S BY <2>9
  <2>17. \A name : Carries(T, name) => Carries(S, name) BY <2>16 DEF Carries
  <2>18. /\ <<"own", m>> \in T /\ (ua => Carries(T, "User-Agent"))
         /\ \A j \in 1..k : Carries(T, custom[j])
    BY <2>4 DEF Good
  <2>19. \A j \in 1..i : Carries(S, custom[j]) BY <2>15, <2>17, <2>18 DEF i
  <2>20. \A y \in S : Rank(y) <= 2 + i /\ (y[1] = "custom" => y[2] \in 1..i)
    <3> SUFFICES ASSUME NEW y \in S PROVE Rank(y) <= 2 + i /\ (y[1] = "custom" => y[2] \in 1..i)
      OBVIOUS
    <3>1. CASE y \in T
      <4>1. Rank(y) \in Nat BY <3>1, NodeFacts
      <4> QED BY <3>1, <4>1, <2>8 DEF i
    <3>2. CASE y = n BY <3>2, <2>1, <2>9 DEF i, n
    <3> QED BY <3>1, <3>2
  <2>21. Good(i, a[i], owner2, S) BY <2>15, <2>16, <2>17, <2>18, <2>19, <2>20 DEF Good
  <2> QED BY <2>16, <2>21 DEF i
<1> HIDE DEF Good, P
<1>6. P(Len(custom))
  <2> DEFINE N == Len(custom)
             T == {i \in Nat : P(i)}
  <2>1. N \in Nat BY <1>2
  <2>2. 0 \in T BY <1>4
  <2>3. \A i \in 0..N : i \in T /\ i < N => i + 1 \in T BY <1>5
  <2> HIDE DEF N, T
  <2>4. \A i \in 0..N : i \in T BY <2>1, <2>2, <2>3, UpTo
  <2>5. N \in T BY <2>1, <2>4
  <2> QED BY <2>5 DEF N, T
<1> DEFINE r == AddSipHeaders(m)
<1>7. r = a[Len(custom)] BY DEF AddSipHeaders, a
<1> HIDE DEF r
<1>8. PICK owner2 : \E S \in SUBSET Nodes(m) : Good(Len(custom), r, owner2, S)
  BY <1>6, <1>7 DEF P
<1>9. PICK S \in SUBSET Nodes(m) : Good(Len(custom), r, owner2, S) BY <1>8
<1>10. Complete(S) BY <1>2, <1>9 DEF Good, Complete
<1>11. <<"auth", m>> \notin S
  <2>1. Rank(<<"auth", m>>) = 3 + MaxCustom BY DEF Rank
  <2> QED BY <2>1, <1>2, <1>9, MaxCustomAssumption DEF Good
<1>12. /\ r \in States /\ ~r.lost
       /\ ListsInv(r.heap, owner2, [linked EXCEPT ![m] = S])
       /\ Intact(owner2, m, S)
       /\ Distinct(S)
       /\ <<"own", m>> \in S
       /\ \A n \in S : n[1] = "custom" => n[2] \in DOMAIN custom
  BY <1>2, <1>9 DEF Good
<1> QED BY <1>10, <1>11, <1>12 DEF r


-----------------------------------------------------------------------------
(* What is left to do.                                                     *)

\* How much is left to be made is a number.
LEMMA MakesType ==
    ASSUME NEW W, NEW w \in Seq(W)
    PROVE  IsFiniteSet(Makes(w)) /\ Cardinality(Makes(w)) \in Nat
<1>1. Len(w) \in Nat /\ Makes(w) \subseteq 1..Len(w) BY DEF Makes
<1>2. IsFiniteSet(1..Len(w)) BY <1>1, FS_Interval
<1> QED BY <1>1, <1>2, FS_Subset, FS_CardinalityType

\* Nothing is added to what is left by doing a part of it.
LEMMA MakesOfTail ==
    ASSUME NEW W, NEW w \in Seq(W), w # <<>>
    PROVE  Cardinality(Makes(Tail(w))) <= Cardinality(Makes(w))
<1> DEFINE S == Makes(Tail(w))
           T == Makes(w)
           f == [k \in S |-> k + 1]
<1>1. /\ Tail(w) \in Seq(W) /\ Len(Tail(w)) = Len(w) - 1 /\ Len(w) \in Nat
      /\ \A k \in 1..(Len(w) - 1) : Tail(w)[k] = w[k + 1]
  OBVIOUS
<1>2. S \subseteq 1..(Len(w) - 1) BY <1>1 DEF Makes
<1>3. \A k \in S : k + 1 \in T BY <1>1, <1>2 DEF Makes
<1> HIDE DEF S, T
<1>4. f \in Injection(S, T) BY <1>2, <1>3 DEF Injection, IsInjective
<1>5. IsFiniteSet(T) BY MakesType DEF T
<1>6. Cardinality(S) <= Cardinality(T) BY <1>4, <1>5, FS_Injection
<1> QED BY <1>6 DEF S, T

\* The messages are those made so far.
LEMMA MadeIs ==
    ASSUME NEW n \in 0..MaxMsg, \A m \in Msg : kind[m] # "none" <=> m <= n
    PROVE  made = n
<1>1. {m \in Msg : kind[m] # "none"} = 1..n BY MaxMsgAssumption DEF Msg
<1>2. Cardinality(1..n) = n BY FS_Interval
<1> QED BY <1>1, <1>2 DEF made

\* What holds of what is left still holds when the first thing is done, as long as no
\* message is unmade.
LEMMA TodoTail ==
    ASSUME TodoInv, todo # <<>>, todo' = Tail(todo), UNCHANGED <<kind, retried>>
    PROVE  TodoInv'
<1>1. /\ todo' \in Seq(Work) /\ Len(todo') = Len(todo) - 1 /\ Len(todo) \in Nat
      /\ \A k \in 1..(Len(todo) - 1) : todo'[k] = todo[k + 1]
  BY DEF TodoInv
<1>2. DOMAIN todo = 1..Len(todo) /\ DOMAIN todo' = 1..(Len(todo) - 1) BY <1>1 DEF TodoInv
<1>3. \A k \in DOMAIN todo' : k + 1 \in DOMAIN todo /\ todo'[k] = todo[k + 1] /\ k \in Nat
  BY <1>1, <1>2
<1>4. ASSUME NEW k \in DOMAIN todo', todo'[k].op # "make" PROVE kind'[todo'[k].msg] # "none"
  BY <1>3, <1>4 DEF TodoInv
<1>5. ASSUME NEW k \in DOMAIN todo', todo'[k].op = "auth"
      PROVE  /\ k + 1 \in DOMAIN todo' /\ todo'[k + 1] = Send(todo'[k].msg)
             /\ todo'[k].msg \in retried'
             /\ \A j \in DOMAIN todo' : todo'[j].op = "auth" => j = k
  <2>1. todo[k + 1].op = "auth" /\ k + 1 \in DOMAIN todo BY <1>3, <1>5
  <2>2. /\ (k + 1) + 1 \in DOMAIN todo /\ todo[(k + 1) + 1] = Send(todo[k + 1].msg)
        /\ todo[k + 1].msg \in retried
        /\ \A j \in DOMAIN todo : todo[j].op = "auth" => j = k + 1
    BY <2>1 DEF TodoInv
  <2>3. k + 1 \in DOMAIN todo' /\ todo'[k + 1] = todo[(k + 1) + 1] BY <2>2, <1>1, <1>2
  <2>4. \A j \in DOMAIN todo' : todo'[j].op = "auth" => j = k BY <2>2, <1>3
  <2> QED BY <2>2, <2>3, <2>4, <1>3, <1>5
<1>6. \A r : Send(r)' = Send(r) BY DEF Send
<1> QED BY <1>1, <1>4, <1>5, <1>6 DEF TodoInv

-----------------------------------------------------------------------------
(* The invariant.                                                          *)

\* Some history of the lists explains how they are.
Explained == \E owner : \E linked : ListsInv(heap, owner, linked) /\ ContentInv(linked)

ManglerInv ==
    /\ ManglerTypeOK
    /\ WireCarriesHeaders
    /\ LossNeedsNewerMessage
    /\ lost = 0 => MadeInv /\ TodoInv /\ WireInv /\ Explained

\* The custom headers are a sequence of names.
LEMMA CustomType ==
    ASSUME ManglerTypeOK
    PROVE  /\ custom \in Seq(HeaderName) /\ Len(custom) <= MaxCustom /\ ua \in BOOLEAN
           /\ DOMAIN custom = 1..Len(custom) /\ Len(custom) \in Nat
<1>1. custom \in Seq(HeaderName) /\ Len(custom) <= MaxCustom
  BY CustomListsAssumption DEF ManglerTypeOK
<1>2. ua \in BOOLEAN BY DEF ManglerTypeOK
<1> QED BY <1>1, <1>2

\* What is true of the names of a set of nodes as long as the nodes keep their names.
LEMMA SameNames ==
    ASSUME UNCHANGED <<custom, ua>>, NEW S, \A n \in S : NamesOf(n)' = NamesOf(n)
    PROVE  /\ Complete(S)' <=> Complete(S)
           /\ Distinct(S)' <=> Distinct(S)
<1>1. \A name : Carries(S, name)' <=> Carries(S, name) BY DEF Carries
<1>2. Complete(S)' <=> Complete(S) BY <1>1 DEF Complete
<1>3. Distinct(S)' <=> Distinct(S) BY DEF Distinct
<1> QED BY <1>2, <1>3

\* In particular as long as no message is made.
LEMMA NamesKept ==
    ASSUME UNCHANGED <<custom, ua, kind>>, NEW S
    PROVE  /\ Complete(S)' <=> Complete(S)
           /\ Distinct(S)' <=> Distinct(S)
<1>1. \A n \in S : NamesOf(n)' = NamesOf(n) BY DEF NamesOf
<1> QED BY <1>1, SameNames

\* At first no list holds anything.
LEMMA InitManglerInv == ASSUME ManglerInit PROVE ManglerInv
<1>1. ManglerTypeOK
  <2>1. 0 \in 0..MaxMsg /\ \A m \in Msg : kind[m] # "none" <=> m <= 0
    BY MaxMsgAssumption DEF ManglerInit, Msg
  <2>2. made = 0 BY <2>1, MadeIs
  <2> QED BY <2>2 DEF ManglerInit, ManglerTypeOK
<1>2. WireCarriesHeaders /\ LossNeedsNewerMessage
  BY DEF ManglerInit, WireCarriesHeaders, LossNeedsNewerMessage
<1>3. PICK k \in {"INVITE", "OTHER"} : todo = <<Make(k)>> BY DEF ManglerInit
<1>4. MadeInv
  <2>1. 0 \in 0..MaxMsg /\ \A m \in Msg : kind[m] # "none" <=> m <= 0
    BY MaxMsgAssumption DEF ManglerInit, Msg
  <2>2. made = 0 BY <2>1, MadeIs
  <2>3. Makes(todo) = {1} BY <1>3 DEF Makes, Make
  <2>4. Cardinality(Makes(todo)) = 1 BY <2>3, FS_Singleton
  <2> QED BY <2>1, <2>2, <2>4, MaxMsgAssumption DEF MadeInv
<1>5. TodoInv
  <2>1. todo \in Seq(Work) BY <1>3 DEF Work
  <2>2. DOMAIN todo = {1} /\ todo[1].op = "make" BY <1>3 DEF Make
  <2> QED BY <2>1, <2>2 DEF TodoInv
<1>6. WireInv BY DEF WireInv, ManglerInit
<1>7. Explained
  <2> DEFINE owner == [i \in 1..MaxCustom |-> 0]
             linked == [m \in Msg |-> {}]
  <2>1. heap \in Heaps BY DEF Heaps, ManglerInit
  <2>2. ASSUME NEW m \in Msg PROVE Linked(heap, owner, m, linked[m])
    <3>1. heap.next[Root(m)] = Root(m) /\ heap.prev[Root(m)] = Root(m)
      BY RootIsNode DEF ManglerInit
    <3> QED BY <3>1 DEF Linked, Kept, Follows, ComesLast
  <2>3. ListsInv(heap, owner, linked) BY <2>1, <2>2 DEF ListsInv
  <2>4. ContentInv(linked) BY DEF ContentInv, ManglerInit, Distinct
  <2> QED BY <2>3, <2>4 DEF Explained
<1> QED BY <1>1, <1>2, <1>4, <1>5, <1>6, <1>7 DEF ManglerInv

-----------------------------------------------------------------------------
(* What does not depend on the action.                                     *)

\* A list that lost its end lost it to a newer message, which carries what it took.
LEMMA LossExplained ==
    ASSUME ManglerInv, lost = 0, NEW owner, NEW linked,
           ListsInv(heap, owner, linked), ContentInv(linked),
           NEW m \in Msg, ~Intact(owner, m, linked[m]),
           todo # <<>>, \A x \in Msg : Head(todo) = Send(x) => x = m
    PROVE  \E x \in (m + 1)..made, i \in DOMAIN custom :
               \E k \in DOMAIN wire[x] : custom[i] \in wire[x][k]
<1>1. MadeInv /\ WireInv /\ WireCarriesHeaders /\ ManglerTypeOK BY DEF ManglerInv
<1>2. PICK n \in linked[m] : n[1] = "custom" /\ owner[n[2]] # m BY DEF Intact
<1>3. n \in Nodes(m) BY DEF ListsInv, Linked
<1>4. n[2] \in 1..MaxCustom /\ n = <<"custom", n[2]>> BY <1>2, <1>3 DEF Nodes
<1> DEFINE i == n[2]
           x == owner[i]
<1>5. i \in DOMAIN custom BY <1>2 DEF ContentInv
<1>6. m <= x /\ x \in {0} \cup Msg /\ (x # 0 => n \in linked[x]) BY <1>4 DEF ListsInv
<1>7. x \in Msg /\ m < x /\ n \in linked[x] BY <1>2, <1>6, MaxMsgAssumption DEF Msg
<1>8. kind[x] # "none" BY <1>7 DEF ContentInv
<1>9. x \in (m + 1)..made BY <1>1, <1>7, <1>8 DEF MadeInv, Msg
<1>10. wire[x] # <<>> BY <1>1, <1>7, <1>8 DEF WireInv, Msg
<1> HIDE DEF x, i
<1>11. Count(wire[x], custom[i]) >= 1 BY <1>1, <1>5, <1>7, <1>10 DEF WireCarriesHeaders
<1>12. \E k \in DOMAIN wire[x] : custom[i] \in wire[x][k]
  <2> SUFFICES ASSUME {k \in DOMAIN wire[x] : custom[i] \in wire[x][k]} = {} PROVE FALSE OBVIOUS
  <2>1. Count(wire[x], custom[i]) = 0 BY FS_EmptySet DEF Count
  <2> QED BY <2>1, <1>11
<1> QED BY <1>5, <1>9, <1>12

\* What is printed from the list of a complete message is what is wanted of the wire.
Printed(names) ==
    /\ names \in Seq(SUBSET HeaderName)
    /\ names # <<>>
    /\ \A i \in DOMAIN custom :
           /\ Count(names, custom[i]) >= 1
           /\ custom[i] # "Authorization" => Count(names, custom[i]) = 1
    /\ ua => Count(names, "User-Agent") = 1

\* It is what the wire should have, and the list is closed.
LEMMA CompletePrinted ==
    ASSUME custom \in Seq(HeaderName), NEW h, NEW owner, NEW linked, ListsInv(h, owner, linked),
           NEW m \in Msg, Intact(owner, m, linked[m]),
           Complete(linked[m]), Distinct(linked[m]), <<"own", m>> \in linked[m],
           \A n \in linked[m] : n[1] = "custom" => n[2] \in DOMAIN custom
    PROVE  Printed(Names(h, m)) /\ Closed(h, m)
<1> DEFINE S == linked[m]
<1>1. Linked(h, owner, m, S) /\ h \in Heaps BY DEF ListsInv
<1>2. S \in SUBSET Nodes(m) BY <1>1 DEF Linked
<1>3. PICK end : Tour(h, m, S, end) BY <1>1, IntactTour
<1> HIDE DEF S
<1>4. Names(h, m) \in Seq(SUBSET HeaderName) /\ Names(h, m) # <<>>
  BY <1>2, <1>3, NamesType DEF S
<1>5. \A name : Carries(S, name) =>
          /\ Count(Names(h, m), name) >= 1
          /\ name # "Authorization" => Count(Names(h, m), name) = 1
  BY <1>2, <1>3, CountPrinted DEF S
<1>6. /\ \A i \in DOMAIN custom : Carries(S, custom[i])
      /\ ua => Carries(S, "User-Agent")
  BY DEF Complete, S
<1>7. ua => Count(Names(h, m), "User-Agent") = 1 BY <1>5, <1>6
<1>8. Closed(h, m) BY <1>2, <1>3, TourIsClosed
<1> QED BY <1>4, <1>5, <1>6, <1>7, <1>8 DEF Printed

-----------------------------------------------------------------------------
(* Each action keeps the invariant.                                        *)

\* A new message has pjsip's headers alone, and is the next to be sent.
LEMMA MakeMessageManglerInv == ASSUME ManglerInv, MakeMessage PROVE ManglerInv'
<1>1. lost = 0 /\ todo # <<>> /\ Head(todo).op = "make" BY DEF MakeMessage, Do
<1>2. ManglerTypeOK /\ WireCarriesHeaders /\ MadeInv /\ TodoInv /\ WireInv /\ Explained
  BY <1>1 DEF ManglerInv
<1>3. PICK m : m = made + 1 OBVIOUS
<1> DEFINE n == <<"own", m>>
<1>4. /\ kind' = [kind EXCEPT ![m] = Head(todo).kind]
      /\ heap' = PushBack(heap, m, n)
      /\ todo' = <<Send(m)>> \o Tail(todo)
      /\ UNCHANGED <<config, answer, retried, wire, lost>>
  BY <1>3 DEF MakeMessage
<1>5. /\ todo \in Seq(Work) /\ Len(todo) \in Nat /\ 1 \in DOMAIN todo /\ todo[1] = Head(todo)
      /\ DOMAIN todo = 1..Len(todo)
  BY <1>1, <1>2 DEF TodoInv
<1>6. m \in Msg /\ made \in 0..MaxMsg
  <2>1. 1 \in Makes(todo) BY <1>1, <1>5 DEF Makes
  <2>2. Cardinality(Makes(todo)) # 0 /\ Cardinality(Makes(todo)) \in Nat
    BY <2>1, <1>5, MakesType, FS_EmptySet
  <2> QED BY <2>2, <1>2, <1>3, MaxMsgAssumption DEF MadeInv, Msg
<1>7. Head(todo).kind \in {"INVITE", "ACK", "CANCEL", "BYE", "OTHER"}
  <2>1. Head(todo) \in Work BY <1>5
  <2> QED BY <2>1, <1>1 DEF Work, Make, Send, Auth
<1>8. /\ kind \in [Msg -> {"none", "INVITE", "ACK", "CANCEL", "BYE", "OTHER"}]
      /\ \A x \in Msg : kind[x] # "none" <=> x <= made
  BY <1>2 DEF ManglerTypeOK, MadeInv
<1>9. /\ kind' \in [Msg -> {"none", "INVITE", "ACK", "CANCEL", "BYE", "OTHER"}]
      /\ \A x \in Msg : kind'[x] # "none" <=> x <= m
      /\ \A x \in Msg : x # m => kind'[x] = kind[x]
      /\ kind[m] = "none"
  BY <1>4, <1>6, <1>7, <1>8, <1>3 DEF Msg
<1>10. made' = m
  <2>1. m \in 0..MaxMsg BY <1>6 DEF Msg
  <2>2. {x \in Msg : kind'[x] # "none"} = 1..m BY <2>1, <1>9, MaxMsgAssumption DEF Msg
  <2>3. Cardinality(1..m) = m BY <2>1, FS_Interval
  <2> QED BY <2>2, <2>3 DEF made
<1>11. /\ Len(todo') = Len(todo) /\ todo' \in Seq(Work) /\ DOMAIN todo' = DOMAIN todo
       /\ todo'[1] = Send(m) /\ Head(todo') = Send(m) /\ todo' # <<>>
       /\ \A k \in DOMAIN todo : k # 1 => todo'[k] = todo[k]
  <2>1. Send(m) \in Work BY <1>6 DEF Work
  <2>2. <<Send(m)>> \in Seq(Work) /\ Len(<<Send(m)>>) = 1 /\ <<Send(m)>>[1] = Send(m) BY <2>1
  <2>3. Tail(todo) \in Seq(Work) /\ Len(Tail(todo)) = Len(todo) - 1
        /\ \A k \in 1..(Len(todo) - 1) : Tail(todo)[k] = todo[k + 1]
    BY <1>1, <1>5
  <2> DEFINE t == Tail(todo)
             s == <<Send(m)>>
  <2> HIDE DEF t, s
  <2>4. /\ s \o t \in Seq(Work)
        /\ Len(s \o t) = Len(s) + Len(t)
        /\ \A i \in 1..(Len(s) + Len(t)) : (s \o t)[i] = IF i <= Len(s) THEN s[i] ELSE t[i - Len(s)]
    BY <2>2, <2>3, ConcatProperties DEF s, t
  <2>5. Len(s) = 1 /\ s[1] = Send(m) /\ Len(t) = Len(todo) - 1
        /\ \A k \in 1..(Len(todo) - 1) : t[k] = todo[k + 1]
    BY <2>2, <2>3 DEF s, t
  <2>6. todo' = s \o t BY <1>4 DEF s, t
  <2>7. Len(todo') = Len(todo) /\ todo' \in Seq(Work) BY <2>4, <2>5, <2>6, <1>5
  <2>8. todo'[1] = Send(m) BY <2>4, <2>5, <2>6, <1>5
  <2>9. \A k \in DOMAIN todo : k # 1 => todo'[k] = todo[k] BY <2>4, <2>5, <2>6, <1>5
  <2>10. DOMAIN todo' = DOMAIN todo /\ todo' # <<>> /\ Head(todo') = todo'[1] BY <2>7, <1>5
  <2> QED BY <2>7, <2>8, <2>9, <2>10
<1>12. MadeInv'
  <2>1. Makes(todo') = Makes(todo) \ {1}
    BY <1>5, <1>11 DEF Makes, Send
  <2>2. 1 \in Makes(todo) BY <1>1, <1>5 DEF Makes
  <2>3. Cardinality(Makes(todo')) = Cardinality(Makes(todo)) - 1
    BY <2>1, <2>2, <1>5, MakesType, FS_RemoveElement
  <2>4. Cardinality(Makes(todo)) \in Nat BY <1>5, MakesType
  <2>5. made' + Cardinality(Makes(todo')) <= MaxMsg
    BY <2>3, <2>4, <1>2, <1>6, <1>10, <1>3, MaxMsgAssumption DEF MadeInv
  <2>6. Makes(todo)' = Makes(todo') BY DEF Makes
  <2>7. \A x \in Msg : kind'[x] # "none" <=> x <= made' BY <1>9, <1>10
  <2>8. made' \in 0..MaxMsg BY <1>6, <1>10 DEF Msg
  <2> HIDE DEF Makes
  <2> QED BY <2>5, <2>6, <2>7, <2>8 DEF MadeInv
<1>13. TodoInv'
  <2>1. ASSUME NEW k \in DOMAIN todo', todo'[k].op # "make" PROVE kind'[todo'[k].msg] # "none"
    <3>1. CASE k = 1 BY <3>1, <1>6, <1>9, <1>11 DEF Send, Msg
    <3>2. CASE k # 1
      <4>1. todo'[k] = todo[k] /\ todo[k] \in Work BY <3>2, <1>5, <1>11
      <4>2. todo[k].msg \in Msg /\ kind[todo[k].msg] # "none"
        BY <4>1, <2>1, <1>2, <1>11 DEF Work, Make, Send, Auth, TodoInv
      <4> QED BY <4>1, <4>2, <1>9
    <3> QED BY <3>1, <3>2
  <2>2. ASSUME NEW k \in DOMAIN todo', todo'[k].op = "auth"
        PROVE  /\ k + 1 \in DOMAIN todo' /\ todo'[k + 1] = Send(todo'[k].msg)
               /\ todo'[k].msg \in retried'
               /\ \A j \in DOMAIN todo' : todo'[j].op = "auth" => j = k
    <3>1. todo'[1].op # "auth" BY <1>11 DEF Send
    <3>2. k # 1 /\ todo'[k] = todo[k] BY <3>1, <2>2, <1>11
    <3>3. /\ k + 1 \in DOMAIN todo /\ todo[k + 1] = Send(todo[k].msg)
          /\ todo[k].msg \in retried
          /\ \A j \in DOMAIN todo : todo[j].op = "auth" => j = k
      BY <3>2, <2>2, <1>2, <1>11 DEF TodoInv
    <3>4. k + 1 # 1 /\ k \in Nat BY <1>5, <1>11
    <3>5. todo'[k + 1] = todo[k + 1] BY <3>3, <3>4, <1>11
    <3>6. retried' = retried BY <1>4
    <3>7. \A j \in DOMAIN todo' : todo'[j].op = "auth" => j = k BY <3>1, <3>3, <1>11
    <3> QED BY <3>2, <3>3, <3>5, <3>6, <3>7, <1>11
  <2>3. \A r : Send(r)' = Send(r) BY DEF Send
  <2> QED BY <2>1, <2>2, <2>3, <1>11 DEF TodoInv
<1>14. ManglerTypeOK'
  <2>1. lost' \in 0..made' BY <1>1, <1>4, <1>6, <1>10 DEF Msg
  <2>2. heap' \in [next : [Node -> Node], prev : [Node -> Node]]
    <3>1. PICK owner : \E linked : ListsInv(heap, owner, linked) /\ ContentInv(linked)
      BY <1>2 DEF Explained
    <3>2. PICK linked : ListsInv(heap, owner, linked) /\ ContentInv(linked) BY <3>1
    <3>3. linked[m] = {} BY <3>2, <1>6, <1>9 DEF ContentInv
    <3>4. Intact(owner, m, linked[m]) BY <3>3 DEF Intact
    <3>5. n \in Nodes(m) BY DEF Nodes
    <3> HIDE DEF n
    <3> QED BY <3>2, <3>3, <3>4, <3>5, <1>4, <1>6, PushBackLinks DEF Heaps
  <2>3. wire' = wire /\ custom' = custom /\ ua' = ua /\ cancel' = cancel /\ answer' = answer
        /\ retried' = retried
    BY <1>4 DEF config
  <2>4. \A x \in Msg : wire[x] # <<>> => kind'[x] # "none"
    BY <1>2, <1>9 DEF ManglerTypeOK
  <2>5. ua' \in BOOLEAN /\ cancel' \in BOOLEAN BY <2>3, <1>2, Zenon DEF ManglerTypeOK
  <2> QED BY <2>1, <2>2, <2>3, <2>4, <2>5, <1>2, <1>9 DEF ManglerTypeOK
<1>15. WireCarriesHeaders'
  <2>1. UNCHANGED <<wire, custom, ua>> BY <1>4 DEF config
  <2> QED BY <2>1, <1>2 DEF WireCarriesHeaders, Count
<1>16. LossNeedsNewerMessage' BY <1>1, <1>4 DEF LossNeedsNewerMessage
<1>17. WireInv'
  <2> SUFFICES ASSUME NEW x \in Msg, kind'[x] # "none", wire'[x] = <<>> PROVE x = m
    BY <1>11 DEF WireInv, Send
  <2> SUFFICES ASSUME x # m PROVE FALSE OBVIOUS
  <2>1. Head(todo) = Send(x) BY <1>2, <1>4, <1>9 DEF WireInv
  <2> QED BY <2>1, <1>1 DEF Send
<1>18. Explained'
  <2>1. PICK owner : \E linked : ListsInv(heap, owner, linked) /\ ContentInv(linked)
    BY <1>2 DEF Explained
  <2>2. PICK linked : ListsInv(heap, owner, linked) /\ ContentInv(linked) BY <2>1
  <2> DEFINE linked2 == Added(linked, m, n)
             owner2 == Taken(owner, m, n)
  <2>3. linked[m] = {} /\ linked \in [Msg -> SUBSET Node]
    BY <2>2, <1>6, <1>9 DEF ContentInv, ListsInv
  <2>4. Intact(owner, m, linked[m]) BY <2>3 DEF Intact
  <2>5. n \in Nodes(m) BY DEF Nodes
  <2>6. \A x \in Msg : n \in linked[x] => x <= m
    <3>1. \A x \in Msg : linked[x] \subseteq Nodes(x) BY <2>2 DEF ListsInv, Linked
    <3>2. \A x \in Msg : n \in Nodes(x) => x = m BY DEF Nodes
    <3> QED BY <3>1, <3>2, <1>6 DEF Msg
  <2>7. linked2[m] = {n} /\ linked2 \in [Msg -> SUBSET Node]
        /\ \A x \in Msg : x # m => linked2[x] = linked[x]
    BY <2>3, <2>5, <1>6, NodeFacts DEF Added
  <2> HIDE DEF n
  <2>8. ListsInv(heap', owner2, linked2)
    BY <2>2, <2>3, <2>4, <2>5, <2>6, <1>4, <1>6, PushBackInv
  <2> HIDE DEF linked2, owner2
  <2>9. ContentInv(linked2)'
    <3>1. ASSUME NEW x \in Msg, x # m
          PROVE  /\ Complete(linked2[x])' <=> Complete(linked[x])
                 /\ Distinct(linked2[x])' <=> Distinct(linked[x])
      <4>1. linked[x] \subseteq Nodes(x) BY <2>2 DEF ListsInv, Linked
      <4>2. custom' = custom /\ ua' = ua BY <1>4 DEF config
      <4>3. \A y \in linked[x] : NamesOf(y)' = NamesOf(y)
        <5> SUFFICES ASSUME NEW y \in linked[x] PROVE NamesOf(y)' = NamesOf(y) OBVIOUS
        <5>1. y \in Nodes(x) BY <4>1
        <5>2. y[1] = "own" => y[2] = x BY <5>1 DEF Nodes
        <5> QED BY <5>2, <4>2, <3>1, <1>9 DEF NamesOf
      <4>4. linked2[x] = linked[x] BY <3>1, <2>7
      <4>5. /\ Complete(linked[x])' <=> Complete(linked[x])
            /\ Distinct(linked[x])' <=> Distinct(linked[x])
        BY <4>2, <4>3, SameNames
      <4> QED BY <4>4, <4>5
    <3>2. ASSUME NEW x \in Msg, x # m
          PROVE  /\ kind'[x] = "none" => linked2[x] = {}
                 /\ kind'[x] # "none" => <<"own", x>> \in linked2[x] /\ Complete(linked2[x])'
                 /\ \A y \in linked2[x] : y[1] = "custom" => y[2] \in DOMAIN custom'
                 /\ Distinct(linked2[x])'
                 /\ <<"auth", x>> \in linked2[x] =>
                        x \in retried' /\ \A k \in DOMAIN todo' : todo'[k] # Auth(x)
      <4>1. linked2[x] = linked[x] /\ kind'[x] = kind[x] /\ custom' = custom /\ retried' = retried
        BY <3>2, <2>7, <1>4, <1>9 DEF config
      <4>2. kind[x] # "none" => Complete(linked[x])
        <5>1. Head(todo) # Send(x) BY <1>1 DEF Send
        <5>2. ~Fresh(x, linked[x]) BY <5>1 DEF Fresh
        <5> QED BY <5>2, <2>2 DEF ContentInv
      <4>3. <<"auth", x>> \in linked[x] =>
                x \in retried /\ \A k \in DOMAIN todo' : todo'[k] # Auth(x)
        <5>1. Send(m) # Auth(x) BY DEF Send, Auth
        <5> QED BY <5>1, <2>2, <1>11 DEF ContentInv
      <4> QED BY <4>1, <4>2, <4>3, <3>1, <3>2, <2>2 DEF ContentInv
    <3>3. /\ kind'[m] # "none" /\ <<"own", m>> \in linked2[m] /\ Fresh(m, linked2[m])'
          /\ \A y \in linked2[m] : y[1] # "custom"
          /\ <<"auth", m>> \notin linked2[m]
      <4>1. kind'[m] # "none" BY <1>6, <1>9 DEF Msg
      <4>2. Fresh(m, linked2[m])'
        BY <2>7, <1>10, <1>11 DEF Fresh, Send, n
      <4> QED BY <4>1, <4>2, <2>7 DEF n
    <3>4. Distinct(linked2[m])' BY <2>7 DEF Distinct
    <3>5. \A x : Auth(x)' = Auth(x) BY DEF Auth
    <3> QED BY <3>2, <3>3, <3>4, <3>5 DEF ContentInv
  <2>10. ListsInv(heap, owner2, linked2)' BY <2>8 DEF ListsInv, Linked
  <2> QED BY <2>9, <2>10 DEF Explained
<1> QED BY <1>12, <1>13, <1>14, <1>15, <1>16, <1>17, <1>18 DEF ManglerInv

\* What a message that is sent or repeated comes to when its list has lost its end.
LEMMA LoseManglerInv ==
    ASSUME ManglerInv, lost = 0, todo # <<>>,
           NEW owner, NEW linked, ListsInv(heap, owner, linked), ContentInv(linked),
           NEW m \in Msg, kind[m] # "none", ~Intact(owner, m, linked[m]),
           \A x \in Msg : Head(todo) = Send(x) => x = m,
           lost' = m, UNCHANGED <<config, kind, answer, retried, heap, wire>>
    PROVE  ManglerInv'
<1>1. ManglerTypeOK /\ WireCarriesHeaders /\ MadeInv BY DEF ManglerInv
<1>2. UNCHANGED <<custom, ua, cancel>> BY DEF config
<1>3. made' = made BY DEF made
<1>4. lost' \in 0..made' /\ lost' # 0 BY <1>1, <1>3 DEF MadeInv, Msg
<1>5. ua' \in BOOLEAN /\ cancel' \in BOOLEAN BY <1>1, <1>2, Zenon DEF ManglerTypeOK
<1>6. ManglerTypeOK' BY <1>1, <1>2, <1>4, <1>5 DEF ManglerTypeOK
<1>7. WireCarriesHeaders'
  <2>1. UNCHANGED <<wire, custom, ua>> BY <1>2
  <2> QED BY <2>1, <1>1 DEF WireCarriesHeaders, Count
<1>8. \E x \in (m + 1)..made, i \in DOMAIN custom :
          \E k \in DOMAIN wire[x] : custom[i] \in wire[x][k]
  BY LossExplained
<1>9. LossNeedsNewerMessage' BY <1>2, <1>3, <1>8 DEF LossNeedsNewerMessage
<1> QED BY <1>4, <1>6, <1>7, <1>9 DEF ManglerInv

\* What it comes to when it has not: S is what is linked into it then, w what was printed.
LEMMA DoneManglerInv ==
    ASSUME ManglerInv, lost = 0, lost' = 0, todo # <<>>, todo' = Tail(todo),
           UNCHANGED <<config, kind, answer, retried>>,
           NEW m \in Msg, kind[m] # "none", Head(todo) \in {Send(m), Auth(m)},
           NEW owner, NEW linked, ListsInv(heap, owner, linked), ContentInv(linked),
           NEW owner2, NEW S \in SUBSET Nodes(m),
           ListsInv(heap', owner2, [linked EXCEPT ![m] = S]),
           Distinct(S), Complete(S), <<"own", m>> \in S,
           \A n \in S : n[1] = "custom" => n[2] \in DOMAIN custom,
           <<"auth", m>> \in S => m \in retried /\ \A k \in DOMAIN todo' : todo'[k] # Auth(m),
           NEW w, wire' = [wire EXCEPT ![m] = w], w = <<>> \/ Printed(w),
           w = <<>> => todo' # <<>> /\ Head(todo') = Send(m)
    PROVE  ManglerInv'
<1>1. ManglerTypeOK /\ WireCarriesHeaders /\ MadeInv /\ TodoInv /\ WireInv BY DEF ManglerInv
<1>2. UNCHANGED <<custom, ua, cancel>> BY DEF config
<1>3. made' = made BY DEF made
<1>4. TodoInv' BY <1>1, TodoTail
<1>5. todo \in Seq(Work) BY <1>1 DEF TodoInv
<1>6. MadeInv'
  <2>1. Cardinality(Makes(todo')) <= Cardinality(Makes(todo)) BY <1>5, MakesOfTail
  <2>2. todo' \in Seq(Work) BY <1>4 DEF TodoInv, Work, Make, Send, Auth
  <2>3. Cardinality(Makes(todo)) \in Nat /\ Cardinality(Makes(todo')) \in Nat
    BY <1>5, <2>2, MakesType
  <2>4. Makes(todo)' = Makes(todo') BY DEF Makes
  <2> HIDE DEF Makes
  <2>5. made' + Cardinality(Makes(todo')) <= MaxMsg
    BY <2>1, <2>3, <1>1, <1>3, MaxMsgAssumption DEF MadeInv
  <2> QED BY <2>4, <2>5, <1>1, <1>3 DEF MadeInv
<1>7. wire \in [Msg -> Seq(SUBSET HeaderName)] BY <1>1 DEF ManglerTypeOK
<1>8. /\ wire'[m] = w /\ \A x \in Msg : x # m => wire'[x] = wire[x]
      /\ wire' \in [Msg -> Seq(SUBSET HeaderName)]
  <2>1. w \in Seq(SUBSET HeaderName)
    <3>1. CASE w = <<>> BY <3>1
    <3>2. CASE Printed(w) BY <3>2, Zenon DEF Printed
    <3> QED BY <3>1, <3>2
  <2> QED BY <2>1, <1>7
<1>9. ManglerTypeOK'
  <2>1. ua' \in BOOLEAN /\ cancel' \in BOOLEAN BY <1>1, <1>2, Zenon DEF ManglerTypeOK
  <2>2. heap' \in [next : [Node -> Node], prev : [Node -> Node]] BY DEF ListsInv, Heaps
  <2>3. lost' \in 0..made' BY <1>1, <1>3 DEF MadeInv
  <2>4. \A x \in Msg : wire'[x] # <<>> => kind'[x] # "none" BY <1>1, <1>8 DEF ManglerTypeOK
  <2> QED BY <2>1, <2>2, <2>3, <2>4, <1>1, <1>2, <1>8 DEF ManglerTypeOK
<1>10. WireCarriesHeaders'
  <2>1. ASSUME NEW x \in Msg, wire'[x] # <<>>
        PROVE  /\ \A i \in DOMAIN custom :
                      /\ Count(wire'[x], custom[i]) >= 1
                      /\ custom[i] # "Authorization" => Count(wire'[x], custom[i]) = 1
               /\ ua => Count(wire'[x], "User-Agent") = 1
    <3>1. CASE x = m BY <2>1, <3>1, <1>8 DEF Printed
    <3>2. CASE x # m
      <4>1. wire'[x] = wire[x] BY <3>2, <1>8
      <4> QED BY <4>1, <2>1, <1>1 DEF WireCarriesHeaders
    <3> QED BY <3>1, <3>2
  <2>2. custom' = custom /\ ua' = ua BY <1>2
  <2>3. \A x, name : Count(wire[x], name)' = Count(wire'[x], name) BY DEF Count
  <2> QED BY <2>1, <2>2, <2>3 DEF WireCarriesHeaders
<1>11. LossNeedsNewerMessage' BY DEF LossNeedsNewerMessage
<1>12. \A x \in Msg : x # m => Head(todo) # Send(x) BY DEF Send, Auth
<1>13. WireInv'
  <2> SUFFICES ASSUME NEW x \in Msg, kind[x] # "none", wire'[x] = <<>>
               PROVE  todo' # <<>> /\ Head(todo') = Send(x)
    BY DEF WireInv, Send
  <2>1. x = m BY <1>1, <1>8, <1>12 DEF WireInv
  <2> QED BY <2>1, <1>8
<1>14. Explained'
  <2> DEFINE linked2 == [linked EXCEPT ![m] = S]
  <2>1. linked \in [Msg -> SUBSET Node] BY DEF ListsInv
  <2>2. linked2[m] = S /\ \A x \in Msg : x # m => linked2[x] = linked[x] BY <2>1
  <2> HIDE DEF linked2
  <2>3. ASSUME NEW x \in Msg
        PROVE  /\ kind[x] = "none" => linked2[x] = {}
               /\ kind[x] # "none" => <<"own", x>> \in linked2[x] /\ Complete(linked2[x])
               /\ \A n \in linked2[x] : n[1] = "custom" => n[2] \in DOMAIN custom
               /\ Distinct(linked2[x])
               /\ <<"auth", x>> \in linked2[x] =>
                      x \in retried /\ \A k \in DOMAIN todo' : todo'[k] # Auth(x)
    <3>1. CASE x = m BY <3>1, <2>2
    <3>2. CASE x # m
      <4>1. linked2[x] = linked[x] BY <3>2, <2>2
      <4>2. ~Fresh(x, linked[x]) BY <3>2, <1>12 DEF Fresh
      <4>3. \A k \in DOMAIN todo' : k + 1 \in DOMAIN todo /\ todo'[k] = todo[k + 1] BY <1>5
      <4> QED BY <4>1, <4>2, <4>3 DEF ContentInv
    <3> QED BY <3>1, <3>2
  <2>4. ContentInv(linked2)'
    <3>1. \A x \in Msg : /\ Complete(linked2[x])' <=> Complete(linked2[x])
                         /\ Distinct(linked2[x])' <=> Distinct(linked2[x])
      BY <1>2, NamesKept
    <3>2. \A x : Auth(x)' = Auth(x) BY DEF Auth
    <3> QED BY <2>3, <3>1, <3>2, <1>2 DEF ContentInv
  <2>5. ListsInv(heap, owner2, linked2)' BY DEF ListsInv, Linked, linked2
  <2> QED BY <2>4, <2>5 DEF Explained
<1> QED BY <1>4, <1>6, <1>9, <1>10, <1>11, <1>13, <1>14 DEF ManglerInv

\* What is sent or repeated is a message that was made.
LEMMA HeadIs ==
    ASSUME ManglerInv, lost = 0, todo # <<>>, Head(todo).op \in {"send", "auth"}
    PROVE  /\ Head(todo).msg \in Msg /\ kind[Head(todo).msg] # "none"
           /\ Head(todo).op = "send" => Head(todo) = Send(Head(todo).msg)
           /\ Head(todo).op = "auth" => Head(todo) = Auth(Head(todo).msg)
<1>1. TodoInv BY DEF ManglerInv
<1>2. todo \in Seq(Work) /\ 1 \in DOMAIN todo /\ todo[1] = Head(todo) BY <1>1 DEF TodoInv
<1>3. Head(todo) \in Work BY <1>2
<1>4. kind[Head(todo).msg] # "none" BY <1>1, <1>2 DEF TodoInv
<1> QED BY <1>3, <1>4 DEF Work, Make, Send, Auth

\* A message sent is complete or fresh; either it gets what it lacks, or its list has
\* lost its end to a newer message.
LEMMA TransmitManglerInv == ASSUME ManglerInv, Transmit PROVE ManglerInv'
<1>1. lost = 0 /\ todo # <<>> /\ Head(todo).op = "send" BY DEF Transmit, Do
<1>2. PICK m : m = Head(todo).msg OBVIOUS
<1>3. PICK s : s = AddSipHeaders(m) OBVIOUS
<1>4. m \in Msg /\ kind[m] # "none" /\ Head(todo) = Send(m) BY <1>1, <1>2, HeadIs
<1>5. /\ todo' = Tail(todo) /\ UNCHANGED <<config, kind, answer, retried>>
      /\ IF s.lost \/ (wire[m] = <<>> /\ ~Closed(s.heap, m))
         THEN lost' = m /\ UNCHANGED <<heap, wire>>
         ELSE /\ heap' = s.heap
              /\ wire' = [wire EXCEPT ![m] = IF wire[m] = <<>> THEN Names(s.heap, m) ELSE wire[m]]
              /\ UNCHANGED lost
  BY <1>2, <1>3 DEF Transmit
<1>6. ManglerTypeOK /\ WireCarriesHeaders /\ MadeInv /\ TodoInv /\ WireInv /\ Explained
  BY <1>1 DEF ManglerInv
<1>7. custom \in Seq(HeaderName) /\ Len(custom) <= MaxCustom /\ ua \in BOOLEAN
  BY <1>6, CustomType
<1>8. PICK owner : \E linked : ListsInv(heap, owner, linked) /\ ContentInv(linked)
  BY <1>6 DEF Explained
<1>9. PICK linked : ListsInv(heap, owner, linked) /\ ContentInv(linked) BY <1>8
<1> DEFINE Result(owner2, S) ==
               /\ ListsInv(s.heap, owner2, [linked EXCEPT ![m] = S])
               /\ Distinct(S) /\ Complete(S) /\ <<"own", m>> \in S
               /\ \A n \in S : n[1] = "custom" => n[2] \in DOMAIN custom
               /\ <<"auth", m>> \in S => <<"auth", m>> \in linked[m]
               /\ Intact(owner2, m, S) => ~s.lost
               /\ ~Intact(owner2, m, S) => s.heap = heap /\ ~Intact(owner, m, linked[m])
<1>10. linked \in [Msg -> SUBSET Node] /\ linked[m] \subseteq Nodes(m)
  BY <1>4, <1>9 DEF ListsInv, Linked
<1>11. \E owner2 : \E S \in SUBSET Nodes(m) : Result(owner2, S)
  <2>1. CASE Complete(linked[m])
    <3>1. s.heap = heap /\ (Intact(owner, m, linked[m]) => ~s.lost)
      BY <2>1, <1>3, <1>4, <1>7, <1>9, CompleteKeeps
    <3>2. [linked EXCEPT ![m] = linked[m]] = linked BY <1>10
    <3>3. Result(owner, linked[m]) BY <3>1, <3>2, <2>1, <1>4, <1>9 DEF ContentInv
    <3> HIDE DEF Result
    <3> QED BY <3>3, <1>10
  <2>2. CASE Fresh(m, linked[m])
    <3>1. \A x \in Msg : linked[x] # {} => x <= m
      BY <2>2, <1>6, <1>9 DEF Fresh, ContentInv, MadeInv
    <3>2. linked[m] = {<<"own", m>>} BY <2>2 DEF Fresh
    <3>3. /\ ~s.lost
          /\ \E owner2 : \E S \in SUBSET Nodes(m) :
                 /\ ListsInv(s.heap, owner2, [linked EXCEPT ![m] = S])
                 /\ Intact(owner2, m, S)
                 /\ Distinct(S) /\ Complete(S)
                 /\ <<"own", m>> \in S /\ <<"auth", m>> \notin S
                 /\ \A n \in S : n[1] = "custom" => n[2] \in DOMAIN custom
      BY <3>1, <3>2, <1>3, <1>4, <1>7, <1>9, FreshCompletes
    <3> QED BY <3>3
  <2>3. Complete(linked[m]) \/ Fresh(m, linked[m]) BY <1>4, <1>9 DEF ContentInv
  <2> QED BY <2>1, <2>2, <2>3
<1>12. PICK owner2 : \E S \in SUBSET Nodes(m) : Result(owner2, S) BY <1>11
<1>13. PICK S \in SUBSET Nodes(m) : Result(owner2, S) BY <1>12
<1> DEFINE linked2 == [linked EXCEPT ![m] = S]
<1>14. linked2[m] = S BY <1>4, <1>10
<1>15. Intact(owner2, m, S) => Printed(Names(s.heap, m)) /\ Closed(s.heap, m)
  BY <1>4, <1>7, <1>13, <1>14, CompletePrinted
<1>16. ~Intact(owner2, m, S) => ~Closed(s.heap, m)
  BY <1>4, <1>13, <1>14, BrokenFind
<1>17. CASE s.lost \/ (wire[m] = <<>> /\ ~Closed(s.heap, m))
  <2>1. ~Intact(owner2, m, S) BY <1>13, <1>15, <1>17
  <2>2. ~Intact(owner, m, linked[m]) BY <2>1, <1>13
  <2>3. lost' = m /\ UNCHANGED <<config, kind, answer, retried, heap, wire>> BY <1>5, <1>17
  <2>4. \A x \in Msg : Head(todo) = Send(x) => x = m BY <1>4 DEF Send
  <2> QED BY <2>2, <2>3, <2>4, <1>1, <1>4, <1>9, LoseManglerInv
<1>18. CASE ~(s.lost \/ (wire[m] = <<>> /\ ~Closed(s.heap, m)))
  <2>1. PICK w : w = IF wire[m] = <<>> THEN Names(s.heap, m) ELSE wire[m] OBVIOUS
  <2>2. heap' = s.heap /\ lost' = lost /\ wire' = [wire EXCEPT ![m] = w] BY <2>1, <1>5, <1>18
  <2>3. Printed(w) /\ w # <<>>
    <3>1. CASE wire[m] = <<>>
      <4>1. Printed(w) BY <3>1, <2>1, <1>15, <1>16, <1>18
      <4> QED BY <4>1 DEF Printed
    <3>2. CASE wire[m] # <<>>
      <4>1. w = wire[m] /\ w \in Seq(SUBSET HeaderName) BY <3>2, <2>1, <1>4, <1>6 DEF ManglerTypeOK
      <4>2. Printed(w) BY <3>2, <4>1, <1>4, <1>6 DEF WireCarriesHeaders, Printed
      <4> QED BY <3>2, <4>1, <4>2
    <3> QED BY <3>1, <3>2
  <2>4. <<"auth", m>> \in S => m \in retried /\ \A k \in DOMAIN todo' : todo'[k] # Auth(m)
    <3>1. todo \in Seq(Work) BY <1>6 DEF TodoInv
    <3>2. \A k \in DOMAIN todo' : k + 1 \in DOMAIN todo /\ todo'[k] = todo[k + 1]
      BY <3>1, <1>1, <1>5
    <3> QED BY <3>2, <1>4, <1>9, <1>13 DEF ContentInv
  <2>5. ListsInv(heap', owner2, [linked EXCEPT ![m] = S]) BY <2>2, <1>13
  <2>6. /\ Distinct(S) /\ Complete(S) /\ <<"own", m>> \in S
        /\ \A n \in S : n[1] = "custom" => n[2] \in DOMAIN custom
    BY <1>13
  <2>7. lost' = 0 BY <2>2, <1>1
  <2>8. UNCHANGED <<config, kind, answer, retried>> /\ todo' = Tail(todo) BY <1>5
  <2>9. Head(todo) \in {Send(m), Auth(m)} BY <1>4
  <2> HIDE DEF Result, linked2
  <2> QED BY <2>2, <2>3, <2>4, <2>5, <2>6, <2>7, <2>8, <2>9, <1>1, <1>4, <1>9, DoneManglerInv
<1> QED BY <1>17, <1>18

\* Credentials come after all other headers of the message, which is printed again.
LEMMA ReinitManglerInv == ASSUME ManglerInv, Reinit PROVE ManglerInv'
<1>1. lost = 0 /\ todo # <<>> /\ Head(todo).op = "auth" BY DEF Reinit, Do
<1>2. PICK m : m = Head(todo).msg OBVIOUS
<1>3. m \in Msg /\ kind[m] # "none" /\ Head(todo) = Auth(m) BY <1>1, <1>2, HeadIs
<1>4. /\ todo' = Tail(todo) /\ UNCHANGED <<config, kind, answer, retried>>
      /\ IF ~Closed(heap, m)
         THEN lost' = m /\ UNCHANGED <<heap, wire>>
         ELSE /\ heap' = PushBack(heap, m, <<"auth", m>>)
              /\ wire' = [wire EXCEPT ![m] = <<>>]
              /\ UNCHANGED lost
  BY <1>2 DEF Reinit
<1>5. ManglerTypeOK /\ TodoInv /\ Explained BY <1>1 DEF ManglerInv
<1>6. PICK owner : \E linked : ListsInv(heap, owner, linked) /\ ContentInv(linked)
  BY <1>5 DEF Explained
<1>7. PICK linked : ListsInv(heap, owner, linked) /\ ContentInv(linked) BY <1>6
<1>8. linked \in [Msg -> SUBSET Node] /\ linked[m] \subseteq Nodes(m)
      /\ Linked(heap, owner, m, linked[m]) /\ heap \in Heaps
  BY <1>3, <1>7 DEF ListsInv, Linked
<1>9. \A x \in Msg : Head(todo) # Send(x) BY <1>3 DEF Send, Auth
<1>10. Complete(linked[m]) /\ <<"own", m>> \in linked[m] BY <1>3, <1>7, <1>9 DEF ContentInv, Fresh
<1>11. CASE ~Closed(heap, m)
  <2>1. ~Intact(owner, m, linked[m])
    <3> SUFFICES ASSUME Intact(owner, m, linked[m]) PROVE FALSE OBVIOUS
    <3>1. PICK end : Tour(heap, m, linked[m], end) BY <1>3, <1>8, IntactTour
    <3> QED BY <3>1, <1>3, <1>8, <1>11, TourIsClosed
  <2>2. lost' = m /\ UNCHANGED <<config, kind, answer, retried, heap, wire>> BY <1>4, <1>11
  <2> QED BY <2>1, <2>2, <1>1, <1>3, <1>7, <1>9, LoseManglerInv
<1>12. CASE Closed(heap, m)
  <2> DEFINE n == <<"auth", m>>
             S == linked[m] \cup {n}
  <2>1. Intact(owner, m, linked[m]) BY <1>3, <1>7, <1>12, BrokenFind
  <2>2. n \in Nodes(m) /\ Rank(n) = 3 + MaxCustom BY DEF Nodes, Rank
  <2>3. todo \in Seq(Work) /\ DOMAIN todo = 1..Len(todo) /\ Len(todo) \in Nat
        /\ 1 \in DOMAIN todo /\ todo[1] = Auth(m)
    BY <1>1, <1>3, <1>5 DEF TodoInv
  <2>4. n \notin linked[m] BY <2>3, <1>3, <1>7 DEF ContentInv
  <2>5. \A y \in linked[m] : Rank(y) < Rank(n)
    <3> SUFFICES ASSUME NEW y \in linked[m] PROVE Rank(y) < Rank(n) OBVIOUS
    <3>1. y \in Nodes(m) /\ y # n BY <2>4, <1>8
    <3>2. Rank(y) \in 1..(MaxCustom + 3) BY <3>1, <1>3, NodeFacts
    <3>3. Rank(y) # Rank(n) BY <3>1, <2>2, <1>3, NodeFacts
    <3> HIDE DEF n
    <3> QED BY <3>2, <3>3, <2>2, MaxCustomAssumption
  <2>6. \A x \in Msg : n \in linked[x] => x <= m
    <3>1. \A x \in Msg : linked[x] \subseteq Nodes(x) BY <1>7 DEF ListsInv, Linked
    <3>2. \A x \in Msg : n \in Nodes(x) => x = m BY DEF Nodes
    <3> QED BY <3>1, <3>2, <1>3 DEF Msg
  <2>7. S \in SUBSET Nodes(m) BY <2>2, <1>8
  <2>8. /\ \A i \in DOMAIN custom : Carries(S, custom[i])
        /\ ua => Carries(S, "User-Agent")
    BY <1>10 DEF Complete, Carries
  <2>9. Complete(S) BY <2>8 DEF Complete
  <2>10. Distinct(S)
    <3>1. NamesOf(n) = {"Authorization"} BY DEF NamesOf
    <3>2. Distinct(linked[m]) BY <1>3, <1>7 DEF ContentInv
    <3> HIDE DEF n
    <3> QED BY <3>1, <3>2 DEF Distinct
  <2>11. <<"own", m>> \in S BY <1>10
  <2>12. \A y \in S : y[1] = "custom" => y[2] \in DOMAIN custom
    <3>1. \A y \in linked[m] : y[1] = "custom" => y[2] \in DOMAIN custom
      BY <1>3, <1>7 DEF ContentInv
    <3>2. n[1] # "custom" OBVIOUS
    <3> HIDE DEF n
    <3> QED BY <3>1, <3>2
  <2>13. /\ 2 \in DOMAIN todo /\ todo[2] = Send(m) /\ m \in retried
         /\ \A j \in DOMAIN todo : todo[j].op = "auth" => j = 1
    BY <2>3, <1>5 DEF TodoInv, Auth
  <2>14. todo' # <<>> /\ Head(todo') = Send(m)
         /\ \A k \in DOMAIN todo' : todo'[k] # Auth(m)
    <3>1. /\ todo' \in Seq(Work) /\ Len(todo') = Len(todo) - 1
          /\ \A k \in 1..(Len(todo) - 1) : todo'[k] = todo[k + 1]
      BY <2>3, <1>1, <1>4
    <3>2. 1 \in 1..(Len(todo) - 1) /\ todo'[1] = Send(m) BY <3>1, <2>3, <2>13
    <3>3. ASSUME NEW k \in DOMAIN todo' PROVE todo'[k] # Auth(m)
      <4>1. todo'[k] = todo[k + 1] /\ k + 1 \in DOMAIN todo /\ k + 1 # 1 BY <3>1, <2>3
      <4> QED BY <4>1, <2>13 DEF Auth
    <3> QED BY <3>1, <3>2, <3>3
  <2>15. heap' = PushBack(heap, m, n) /\ wire' = [wire EXCEPT ![m] = <<>>] /\ lost' = lost
         /\ UNCHANGED <<config, kind, answer, retried>> /\ todo' = Tail(todo)
    BY <1>4, <1>12
  <2>16. PICK owner2 : ListsInv(heap', owner2, [linked EXCEPT ![m] = S])
    <3>1. ListsInv(PushBack(heap, m, n), Taken(owner, m, n), Added(linked, m, n))
      BY <2>1, <2>2, <2>5, <2>6, <1>3, <1>7, PushBackInv
    <3>2. Added(linked, m, n) = [linked EXCEPT ![m] = S] BY <1>8 DEF Added
    <3> QED BY <3>1, <3>2, <2>15
  <2>17. lost' = 0 /\ Head(todo) \in {Send(m), Auth(m)} BY <2>15, <1>1, <1>3
  <2> HIDE DEF S, n
  <2> DEFINE w == <<>>
  <2>18. wire' = [wire EXCEPT ![m] = w] /\ w = <<>> BY <2>15
  <2>19. <<"auth", m>> \in S => m \in retried /\ \A k \in DOMAIN todo' : todo'[k] # Auth(m)
    BY <2>13, <2>14
  <2> HIDE DEF w
  <2> QED BY <2>7, <2>9, <2>10, <2>11, <2>12, <2>14, <2>15, <2>16, <2>17, <2>18, <2>19,
             <1>1, <1>3, <1>7, DoneManglerInv
<1> QED BY <1>11, <1>12

\* What an event leaves to do is for messages that were made, and a message is not
\* given credentials twice.
LEMMA EventManglerInv ==
    ASSUME ManglerInv, NEW work, Event(work), work \in Seq(Work),
           answer' \in [Msg -> {"none", "ringing", "success", "refusal"}],
           retried' \subseteq Msg, retried \subseteq retried',
           \A k \in DOMAIN work : work[k].op # "make" => kind[work[k].msg] # "none",
           \A k \in DOMAIN work : work[k].op = "auth" =>
               /\ k + 1 \in DOMAIN work /\ work[k + 1] = Send(work[k].msg)
               /\ work[k].msg \in retried'
               /\ work[k].msg \notin retried
               /\ \A j \in DOMAIN work : work[j].op = "auth" => j = k
    PROVE  ManglerInv'
<1>1. /\ lost = 0 /\ todo = <<>> /\ todo' = work
      /\ made + Cardinality(Makes(work)) <= MaxMsg
      /\ UNCHANGED <<config, kind, heap, wire, lost>>
  BY DEF Event
<1>2. /\ ManglerTypeOK /\ WireCarriesHeaders /\ LossNeedsNewerMessage
      /\ MadeInv /\ WireInv /\ Explained
  BY <1>1 DEF ManglerInv
<1>3. custom' = custom /\ ua' = ua /\ cancel' = cancel /\ kind' = kind /\ heap' = heap
      /\ wire' = wire /\ lost' = 0
  BY <1>1 DEF config
<1>4. made' = made BY <1>3 DEF made
<1>5. ManglerTypeOK'
  <2>1. ua' \in BOOLEAN /\ cancel' \in BOOLEAN BY <1>2, <1>3, Zenon DEF ManglerTypeOK
  <2>2. lost' \in 0..made' BY <1>1, <1>2, <1>3, <1>4 DEF MadeInv
  <2> QED BY <2>1, <2>2, <1>2, <1>3 DEF ManglerTypeOK
<1>6. WireCarriesHeaders' BY <1>2, <1>3 DEF WireCarriesHeaders, Count
<1>7. LossNeedsNewerMessage' BY <1>3 DEF LossNeedsNewerMessage
<1>8. MadeInv'
  <2>1. Makes(todo)' = Makes(work) BY <1>1 DEF Makes
  <2> HIDE DEF Makes
  <2> QED BY <2>1, <1>1, <1>2, <1>3, <1>4 DEF MadeInv
<1>9. TodoInv'
  <2>1. \A x : Send(x)' = Send(x) BY DEF Send
  <2> QED BY <2>1, <1>1, <1>3 DEF TodoInv
<1>10. WireInv' BY <1>1, <1>2, <1>3 DEF WireInv
<1>11. Explained'
  <2>1. PICK owner : \E linked : ListsInv(heap, owner, linked) /\ ContentInv(linked)
    BY <1>2 DEF Explained
  <2>2. PICK linked : ListsInv(heap, owner, linked) /\ ContentInv(linked) BY <2>1
  <2>3. ASSUME NEW m \in Msg
        PROVE  /\ kind[m] = "none" => linked[m] = {}
               /\ kind[m] # "none" => <<"own", m>> \in linked[m] /\ Complete(linked[m])
               /\ \A n \in linked[m] : n[1] = "custom" => n[2] \in DOMAIN custom
               /\ Distinct(linked[m])
               /\ <<"auth", m>> \in linked[m] =>
                      m \in retried' /\ \A k \in DOMAIN work : work[k] # Auth(m)
    <3>1. ~Fresh(m, linked[m]) BY <1>1 DEF Fresh
    <3>2. m \in retried => \A k \in DOMAIN work : work[k] # Auth(m) BY DEF Auth
    <3> QED BY <3>1, <3>2, <2>2 DEF ContentInv
  <2>4. ContentInv(linked)'
    <3>1. \A m \in Msg : /\ Complete(linked[m])' <=> Complete(linked[m])
                         /\ Distinct(linked[m])' <=> Distinct(linked[m])
      BY <1>3, NamesKept
    <3>2. \A m : Auth(m)' = Auth(m) BY DEF Auth
    <3> QED BY <2>3, <3>1, <3>2, <1>1, <1>3 DEF ContentInv
  <2>5. ListsInv(heap, owner, linked)' BY <2>2, <1>3 DEF ListsInv, Linked
  <2> QED BY <2>4, <2>5 DEF Explained
<1> QED BY <1>5, <1>6, <1>7, <1>8, <1>9, <1>10, <1>11 DEF ManglerInv

\* Work for one message, after some that is yet to be made.
LEMMA WorkType ==
    ASSUME NEW m \in Msg
    PROVE  Send(m) \in Work /\ Auth(m) \in Work
BY DEF Work

\* Work for a message that is yet to be made.
LEMMA MakeType ==
    ASSUME NEW k \in {"INVITE", "ACK", "CANCEL", "BYE", "OTHER"}
    PROVE  Make(k) \in Work /\ Make(k).op = "make"
BY DEF Work, Make

\* An answer is one of the four.
LEMMA AnswersType ==
    ASSUME ManglerTypeOK, NEW m, NEW a \in {"none", "ringing", "success", "refusal"}, Answers(m, a)
    PROVE  answer' \in [Msg -> {"none", "ringing", "success", "refusal"}]
<1>1. answer' = [answer EXCEPT ![m] = a] BY DEF Answers
<1>2. answer \in [Msg -> {"none", "ringing", "success", "refusal"}] BY DEF ManglerTypeOK
<1> QED BY <1>1, <1>2

\* An event after which messages are only made.
LEMMA MakingManglerInv ==
    ASSUME ManglerInv, NEW work, Event(work), work \in Seq(Work),
           \A k \in DOMAIN work : work[k].op = "make",
           NEW m, NEW a \in {"none", "ringing", "success", "refusal"}, Answers(m, a),
           UNCHANGED retried
    PROVE  ManglerInv'
<1>1. ManglerTypeOK BY DEF ManglerInv
<1>2. retried' \subseteq Msg /\ retried' = retried BY <1>1 DEF ManglerTypeOK
<1>3. answer' \in [Msg -> {"none", "ringing", "success", "refusal"}] BY <1>1, AnswersType
<1> QED BY <1>2, <1>3, EventManglerInv

\* A message is sent again.
LEMMA RetransmitManglerInv ==
    ASSUME ManglerInv, NEW m \in Msg, Retransmit(m) PROVE ManglerInv'
<1> DEFINE work == <<Send(m)>>
<1>1. Event(work) /\ UNCHANGED <<answer, retried>> /\ kind[m] # "none"
  BY DEF Retransmit, Open
<1>2. work \in Seq(Work) BY WorkType
<1>3. DOMAIN work = {1} /\ work[1] = Send(m) OBVIOUS
<1>4. Send(m).op = "send" /\ Send(m).msg = m BY DEF Send
<1>5. ManglerTypeOK BY DEF ManglerInv
<1>6. /\ answer' \in [Msg -> {"none", "ringing", "success", "refusal"}]
      /\ retried' \subseteq Msg /\ retried' = retried
  BY <1>1, <1>5 DEF ManglerTypeOK
<1> HIDE DEF work
<1> QED BY <1>1, <1>2, <1>3, <1>4, <1>6, EventManglerInv

\* A sequence of one and a sequence of two make one of three.
LEMMA OneAndTwo ==
    ASSUME NEW a, NEW b, NEW c
    PROVE  <<a>> \o <<b, c>> = <<a, b, c>>
<1> DEFINE W == {a, b, c}
           s == <<a>>
           t == <<b, c>>
           u == <<a, b, c>>
<1>1. /\ s \in Seq(W) /\ Len(s) = 1 /\ s[1] = a
      /\ t \in Seq(W) /\ Len(t) = 2 /\ t[1] = b /\ t[2] = c
      /\ u \in Seq(W) /\ Len(u) = 3 /\ u[1] = a /\ u[2] = b /\ u[3] = c
  OBVIOUS
<1> HIDE DEF W, s, t, u
<1>2. /\ s \o t \in Seq(W)
      /\ Len(s \o t) = Len(s) + Len(t)
      /\ \A i \in 1..(Len(s) + Len(t)) : (s \o t)[i] = IF i <= Len(s) THEN s[i] ELSE t[i - Len(s)]
  BY <1>1, ConcatProperties
<1>3. Len(s \o t) = 3 /\ \A i \in 1..3 : (s \o t)[i] = u[i] BY <1>1, <1>2
<1>4. s \o t = u BY <1>1, <1>2, <1>3, SeqEqual
<1> QED BY <1>4 DEF s, t, u

\* A challenge has the ACK made first, and then the message given credentials and sent.
LEMMA ChallengeManglerInv ==
    ASSUME ManglerInv, NEW m \in Msg, Challenge(m) PROVE ManglerInv'
<1>1. /\ kind[m] # "none" /\ m \notin retried
      /\ Event((IF kind[m] = "INVITE" THEN <<Make("ACK")>> ELSE <<>>) \o <<Auth(m), Send(m)>>)
      /\ Answers(m, "none")
      /\ retried' = retried \cup {m}
  BY DEF Challenge, Open
<1>2. ManglerTypeOK BY DEF ManglerInv
<1>3. answer' \in [Msg -> {"none", "ringing", "success", "refusal"}] BY <1>1, <1>2, AnswersType
<1>4. retried' \subseteq Msg /\ retried \subseteq retried' /\ m \in retried'
  BY <1>1, <1>2 DEF ManglerTypeOK
<1>5. /\ Send(m).op = "send" /\ Send(m).msg = m
      /\ Auth(m).op = "auth" /\ Auth(m).msg = m
  BY DEF Send, Auth
<1>6. Send(m) \in Work /\ Auth(m) \in Work /\ Make("ACK") \in Work /\ Make("ACK").op = "make"
  BY WorkType, MakeType
<1>7. CASE kind[m] = "INVITE"
  <2> DEFINE work == <<Make("ACK"), Auth(m), Send(m)>>
  <2>1. <<Make("ACK")>> \o <<Auth(m), Send(m)>> = work BY OneAndTwo
  <2>2. (IF kind[m] = "INVITE" THEN <<Make("ACK")>> ELSE <<>>) = <<Make("ACK")>> BY <1>7
  <2>3. Event(work) BY <1>1, <2>1, <2>2
  <2>4. work \in Seq(Work) BY <1>6
  <2>5. DOMAIN work = 1..3 /\ work[1] = Make("ACK") /\ work[2] = Auth(m) /\ work[3] = Send(m)
    OBVIOUS
  <2> HIDE DEF work
  <2> QED BY <2>3, <2>4, <2>5, <1>1, <1>3, <1>4, <1>5, <1>6, EventManglerInv
<1>8. CASE kind[m] # "INVITE"
  <2> DEFINE work == <<Auth(m), Send(m)>>
  <2>1. Event(work) BY <1>1, <1>8
  <2>2. work \in Seq(Work) BY <1>6
  <2>3. DOMAIN work = 1..2 /\ work[1] = Auth(m) /\ work[2] = Send(m) OBVIOUS
  <2> HIDE DEF work
  <2> QED BY <2>1, <2>2, <2>3, <1>1, <1>3, <1>4, <1>5, <1>6, EventManglerInv
<1> QED BY <1>7, <1>8

\* Ringing may have a CANCEL made, and nothing else.
LEMMA RingManglerInv ==
    ASSUME ManglerInv, NEW m \in Msg, Ring(m) PROVE ManglerInv'
<1>1. PICK work : work = IF cancel /\ ~Cancelled THEN <<Make("CANCEL")>> ELSE <<>> OBVIOUS
<1>2. Event(work) /\ Answers(m, "ringing") /\ UNCHANGED retried BY <1>1 DEF Ring
<1>3. Make("CANCEL") \in Work /\ Make("CANCEL").op = "make" BY MakeType
<1>4. work \in Seq(Work) /\ \A k \in DOMAIN work : work[k].op = "make" BY <1>1, <1>3
<1> QED BY <1>2, <1>4, MakingManglerInv

\* Success of an INVITE has an ACK and a BYE made.
LEMMA SucceedManglerInv ==
    ASSUME ManglerInv, NEW m \in Msg, Succeed(m) PROVE ManglerInv'
<1>1. PICK work : work = IF kind[m] = "INVITE" THEN <<Make("ACK"), Make("BYE")>> ELSE <<>> OBVIOUS
<1>2. Event(work) /\ Answers(m, "success") /\ UNCHANGED retried BY <1>1 DEF Succeed
<1>3. /\ Make("ACK") \in Work /\ Make("ACK").op = "make"
      /\ Make("BYE") \in Work /\ Make("BYE").op = "make"
  BY MakeType
<1>4. work \in Seq(Work) /\ \A k \in DOMAIN work : work[k].op = "make" BY <1>1, <1>3
<1> QED BY <1>2, <1>4, MakingManglerInv

\* A refusal of an INVITE has one ACK made, or two.
LEMMA RefuseManglerInv ==
    ASSUME ManglerInv, NEW m \in Msg, Refuse(m) PROVE ManglerInv'
<1>1. PICK work : /\ work \in {<<Make("ACK"), Make("ACK")>>, <<Make("ACK")>>, <<>>}
                  /\ Event(work) /\ Answers(m, "refusal") /\ UNCHANGED retried
  BY DEF Refuse
<1>2. Make("ACK") \in Work /\ Make("ACK").op = "make" BY MakeType
<1>3. work \in Seq(Work) /\ \A k \in DOMAIN work : work[k].op = "make"
  <2>1. CASE work = <<Make("ACK"), Make("ACK")>> BY <2>1, <1>2
  <2>2. CASE work = <<Make("ACK")>> BY <2>2, <1>2
  <2>3. CASE work = <<>> BY <2>3
  <2> QED BY <2>1, <2>2, <2>3, <1>1
<1> QED BY <1>1, <1>3, MakingManglerInv

\* A step that changes nothing keeps it.
LEMMA StutterManglerInv == ASSUME ManglerInv, UNCHANGED mangler PROVE ManglerInv'
<1>1. /\ UNCHANGED <<custom, ua, cancel>>
      /\ UNCHANGED <<kind, answer, retried, heap, wire, todo, lost>>
  BY DEF mangler, config
<1>2. made' = made BY <1>1 DEF made
<1>3. ManglerTypeOK'
  <2>1. ManglerTypeOK BY DEF ManglerInv
  <2>2. ua' \in BOOLEAN /\ cancel' \in BOOLEAN BY <1>1, <2>1, Zenon DEF ManglerTypeOK
  <2> QED BY <2>1, <2>2, <1>1, <1>2 DEF ManglerTypeOK
<1>4. WireCarriesHeaders' /\ LossNeedsNewerMessage'
  BY <1>1, <1>2 DEF ManglerInv, WireCarriesHeaders, LossNeedsNewerMessage, Count
<1>5. ASSUME lost = 0 PROVE MadeInv' /\ TodoInv' /\ WireInv' /\ Explained'
  <2>1. MadeInv /\ TodoInv /\ WireInv /\ Explained BY <1>5 DEF ManglerInv
  <2>2. MadeInv' BY <2>1, <1>1, <1>2 DEF MadeInv, Makes
  <2>3. TodoInv' /\ WireInv' BY <2>1, <1>1 DEF TodoInv, WireInv, Send
  <2>4. Explained'
    <3>1. PICK owner : \E linked : ListsInv(heap, owner, linked) /\ ContentInv(linked)
      BY <2>1 DEF Explained
    <3>2. PICK linked : ListsInv(heap, owner, linked) /\ ContentInv(linked) BY <3>1
    <3>3. \A m \in Msg : /\ Complete(linked[m])' <=> Complete(linked[m])
                         /\ Distinct(linked[m])' <=> Distinct(linked[m])
      BY <1>1, NamesKept
    <3>4. \A m : Auth(m)' = Auth(m) /\ Send(m)' = Send(m) BY DEF Auth, Send
    <3>5. \A m \in Msg : Fresh(m, linked[m])' <=> Fresh(m, linked[m])
      BY <1>1, <1>2, <3>4 DEF Fresh
    <3>6. ContentInv(linked)' BY <3>2, <3>3, <3>4, <3>5, <1>1 DEF ContentInv
    <3>7. ListsInv(heap, owner, linked)' BY <3>2, <1>1 DEF ListsInv, Linked
    <3> QED BY <3>6, <3>7 DEF Explained
  <2> QED BY <2>2, <2>3, <2>4
<1> QED BY <1>1, <1>3, <1>4, <1>5 DEF ManglerInv

\* In every state that a run of the callbacks reaches, some history of the lists
\* explains how they are.
THEOREM ManglerInvariant == ManglerSpec => []ManglerInv
<1>1. ManglerInit => ManglerInv BY InitManglerInv
<1>2. ManglerInv /\ [ManglerNext]_mangler => ManglerInv'
  <2> SUFFICES ASSUME ManglerInv, [ManglerNext]_mangler PROVE ManglerInv' OBVIOUS
  <2>1. CASE MakeMessage BY <2>1, MakeMessageManglerInv
  <2>2. CASE Transmit BY <2>2, TransmitManglerInv
  <2>3. CASE Reinit BY <2>3, ReinitManglerInv
  <2>4. ASSUME NEW m \in Msg, Retransmit(m) PROVE ManglerInv' BY <2>4, RetransmitManglerInv
  <2>5. ASSUME NEW m \in Msg, Challenge(m) PROVE ManglerInv' BY <2>5, ChallengeManglerInv
  <2>6. ASSUME NEW m \in Msg, Ring(m) PROVE ManglerInv' BY <2>6, RingManglerInv
  <2>7. ASSUME NEW m \in Msg, Succeed(m) PROVE ManglerInv' BY <2>7, SucceedManglerInv
  <2>8. ASSUME NEW m \in Msg, Refuse(m) PROVE ManglerInv' BY <2>8, RefuseManglerInv
  <2>9. CASE UNCHANGED mangler BY <2>9, StutterManglerInv
  <2> QED BY <2>1, <2>2, <2>3, <2>4, <2>5, <2>6, <2>7, <2>8, <2>9 DEF ManglerNext
<1> QED BY <1>1, <1>2, PTL DEF ManglerSpec

\* The lists of headers stay functions on the nodes, only messages made are printed,
\* and only one that was made can lose its end.
THEOREM ManglerTypeCorrect == ManglerSpec => []ManglerTypeOK
<1>1. ManglerInv => ManglerTypeOK BY DEF ManglerInv
<1> QED BY <1>1, ManglerInvariant, PTL

\* Whatever sippak and pjsip do, and whatever header names -H gives: each message that
\* goes out carries each of them, exactly once but for Authorization, and one User-Agent.
THEOREM WireCarries == ManglerSpec => []WireCarriesHeaders
<1>1. ManglerInv => WireCarriesHeaders BY DEF ManglerInv
<1> QED BY <1>1, ManglerInvariant, PTL

\* A list loses its end only to a newer message that was sent with a custom header: so
\* sharing the nodes does no harm to a run that sends a single request.
THEOREM LossNeedsNewer == ManglerSpec => []LossNeedsNewerMessage
<1>1. ManglerInv => LossNeedsNewerMessage BY DEF ManglerInv
<1> QED BY <1>1, ManglerInvariant, PTL

=============================================================================
