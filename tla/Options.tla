------------------------------ MODULE Options ------------------------------
(***************************************************************************)
(* The command line, from sippak_getopts to the Event and the body of the  *)
(* request it leads to.  Options come in any order and any number of       *)
(* times; several of them write the same fields, and each command reads    *)
(* those in a way of its own.                                              *)
(***************************************************************************)
EXTENDS Naturals, Sequences

CONSTANTS
    MaxHeaders,     \* MAX_CUSTOM_HEADERS
    MaxProxies,     \* MAX_PROXY_HEADERS
    MaxArgs,        \* bound: options on the command line
    Garbage         \* the low half of a pointer, read as a count

ASSUME LimitsAssumption == {MaxHeaders, MaxProxies, MaxArgs} \subseteq Nat \ {0}
\* What pjsip allocates does not lie at the lowest addresses.
ASSUME GarbageAssumption == Garbage \in Nat /\ Garbage > MaxProxies

VARIABLES
    pc,         \* "parsing", "ready", "made" (a request), "rejected", "informed" (-h, -V)
                \* or "overrun" (memory behind app overwritten: anything may follow)
    args,       \* options parsed so far
    cmd,        \* app.cfg.cmd
    hdrCnt,     \* app.cfg.hdrs.cnt
    proxyCnt,   \* app.cfg.proxy.cnt
    proxies,    \* app.cfg.proxy.p: for each, whether it has the parameter lr
    presEv,     \* app.cfg.pres_ev
    event,      \* app.cfg.event
    ctypeE,     \* app.cfg.ctype_e
    ctypeMedia, \* subtype of app.cfg.ctype_media
    isMwi,      \* app.cfg.is_mwi
    expires,    \* app.cfg.expires > 0
    has,        \* which of --to and --body were given
    request     \* what the command put in its message

lists == <<hdrCnt, proxyCnt, proxies>>
kinds == <<presEv, event, ctypeE, ctypeMedia, isMwi>>
vars  == <<pc, args, cmd, lists, kinds, expires, has, request>>

Events == {"presence", "presence.winfo", "mwi", "message-summary", "keep-alive"}
Types  == {"pidf", "xpidf", "mwi", "application/pidf+xml", "text/plain"}
Commands ==
    {"ping", "publish", "subscribe", "notify", "register", "refer", "message", "invite"}
NoRequest == [event |-> "none", type |-> "none", body |-> "none"]

\* sippak_init
Init ==
    /\ pc = "parsing"
    /\ args = 0
    /\ cmd = "ping"
    /\ hdrCnt = 0
    /\ proxyCnt = 0
    /\ proxies = <<>>
    /\ presEv = "unknown"
    /\ event = "none"
    /\ ctypeE = "unknown"
    /\ ctypeMedia = "none"
    /\ isMwi = FALSE
    /\ expires = TRUE
    /\ has = {}
    /\ request = NoRequest

-----------------------------------------------------------------------------
(* The options.                                                            *)

Option ==
    /\ pc = "parsing"
    /\ args < MaxArgs
    /\ args' = args + 1
    /\ UNCHANGED <<cmd, request>>

\* Mutant: does not know the alias.
MutEventKind(e) ==
    CASE e \in {"presence", "presence.winfo"} -> "presence"
      [] e = "message-summary" -> "mwi"
      [] OTHER -> "other"

\* set_event compares beginnings: a longer name passes for the shorter one.
EventKind(e) ==
    CASE e \in {"presence", "presence.winfo"} -> "presence"
      [] e \in {"mwi", "message-summary"} -> "mwi"
      [] OTHER -> "other"

SetEvent(e) ==
    /\ Option
    /\ presEv' = EventKind(e)
    /\ event' = e
    /\ UNCHANGED <<pc, lists, ctypeE, ctypeMedia, isMwi, expires, has>>

\* The short names stand for a type of their own; others are taken literally.
SetContentType(t) ==
    /\ Option
    /\ ctypeE' = IF t \in {"pidf", "xpidf", "mwi"} THEN t ELSE "other"
    /\ ctypeMedia' = CASE t \in {"pidf", "application/pidf+xml"} -> "pidf+xml"
                       [] t = "xpidf" -> "xpidf+xml"
                       [] t = "mwi" -> "simple-message-summary"
                       [] OTHER -> "plain"
    /\ UNCHANGED <<pc, lists, presEv, event, isMwi, expires, has>>

SetMwiList ==
    /\ Option
    /\ isMwi' = TRUE
    /\ UNCHANGED <<pc, lists, presEv, event, ctypeE, ctypeMedia, expires, has>>

SetExpires ==
    /\ Option
    /\ \/ pc' = "rejected" /\ UNCHANGED expires
       \/ expires' \in BOOLEAN /\ UNCHANGED pc
    /\ UNCHANGED <<lists, kinds, has>>

SetText(which) ==
    /\ Option
    /\ has' = has \cup {which}
    /\ UNCHANGED <<pc, lists, kinds, expires>>

\* add_custom_header: h[MAX_CUSTOM_HEADERS] is where proxy.cnt is.
AddCustomHeader ==
    /\ Option
    /\ \/ hdrCnt > MaxHeaders /\ UNCHANGED <<pc, lists>>
       \/ hdrCnt <= MaxHeaders /\ pc' = "rejected" /\ UNCHANGED lists
       \/ /\ hdrCnt <= MaxHeaders
          /\ hdrCnt' = hdrCnt + 1
          /\ proxyCnt' = IF hdrCnt = MaxHeaders THEN Garbage ELSE proxyCnt
          /\ UNCHANGED <<pc, proxies>>
    /\ UNCHANGED <<kinds, expires, has>>

\* p[MAX_PROXY_HEADERS] lies behind the structure app: the write harms nothing there, or
\* something of which the model knows no more.
PastTheArray == pc' \in {pc, "overrun"}

\* Mutant: counts a proxy that could not be parsed.
MutAddProxy(lr) ==
    /\ Option
    /\ \/ UNCHANGED <<pc, proxyCnt, proxies>>
       \/ /\ proxyCnt <= MaxProxies
          /\ proxies' \in {proxies, Append(proxies, lr \/ proxyCnt = 0)}
          /\ proxyCnt' = proxyCnt + 1
          /\ IF proxyCnt = MaxProxies THEN PastTheArray ELSE UNCHANGED pc
    /\ UNCHANGED <<hdrCnt, kinds, expires, has>>

\* A proxy that cannot be parsed or printed, or comes after one too many, is skipped;
\* the first one kept is made a loose route.
AddProxy(lr) ==
    /\ Option
    /\ \/ UNCHANGED <<pc, proxyCnt, proxies>>
       \/ /\ proxyCnt <= MaxProxies
          /\ proxies' = Append(proxies, lr \/ proxyCnt = 0)
          /\ proxyCnt' = proxyCnt + 1
          /\ IF proxyCnt = MaxProxies THEN PastTheArray ELSE UNCHANGED pc
    /\ UNCHANGED <<hdrCnt, kinds, expires, has>>

\* -h, -V and an empty command line end the parsing at once.
Inform ==
    /\ Option
    /\ pc' = "informed"
    /\ UNCHANGED <<lists, kinds, expires, has>>

-----------------------------------------------------------------------------
(* After the options.                                                      *)

\* What each command requires, in post_parse_setup.
Lacks(c) ==
    \/ c = "refer" /\ "to" \notin has
    \/ c = "message" /\ "body" \notin has

\* Mutant: leaves the content type as the options set it.
MutPostParse ==
    /\ presEv' = IF isMwi THEN "mwi" ELSE presEv
    /\ UNCHANGED <<event, isMwi, ctypeE, ctypeMedia>>

\* post_parse_setup: --mwi prevails over --event and --content-type.
PostParse ==
    /\ presEv' = IF isMwi THEN "mwi" ELSE presEv
    /\ ctypeE' = IF isMwi THEN "mwi" ELSE ctypeE
    /\ ctypeMedia' = IF isMwi THEN "simple-message-summary" ELSE ctypeMedia
    /\ UNCHANGED <<event, isMwi>>

\* The last arguments: a destination, or a command and a destination.  Rejected are
\* also a command that does not exist and a destination that does not parse.
Finish(c) ==
    /\ pc = "parsing"
    /\ cmd' = c
    /\ \/ pc' = "rejected" /\ UNCHANGED kinds
       \/ ~Lacks(c) /\ pc' = "ready" /\ PostParse
    /\ UNCHANGED <<args, lists, expires, has, request>>

-----------------------------------------------------------------------------
(* The messages.                                                           *)

\* NOTIFY: add_event_hdr
NotifyKind == IF ctypeE \in {"pidf", "xpidf"} /\ presEv = "unknown" THEN "presence" ELSE presEv

NotifyEvent ==
    CASE NotifyKind = "unknown" -> "keep-alive"
      [] NotifyKind = "presence" -> "presence"
      [] NotifyKind = "mwi" -> "message-summary"
      [] OTHER -> event

\* NOTIFY: add_body_msg; a type without a body of its own is only named.
NotifyRequest ==
    [event |-> NotifyEvent,
     type  |-> IF ctypeE = "unknown" THEN "none" ELSE ctypeMedia,
     body  |-> IF isMwi THEN "mwi" ELSE IF ctypeE \in {"pidf", "xpidf"} THEN ctypeE ELSE "none"]

PublishRequest ==
    LET doc == IF ctypeE = "xpidf" THEN "xpidf" ELSE "pidf"
    IN  [event |-> IF event = "none" THEN "presence" ELSE event,
         type  |-> IF doc = "xpidf" THEN "xpidf+xml" ELSE "pidf+xml",
         body  |-> doc]

SubscribeRequest ==
    [NoRequest EXCEPT !.event = IF presEv = "mwi" THEN "message-summary" ELSE "presence"]

MessageRequest == [NoRequest EXCEPT !.type = "plain", !.body = "text"]

\* Mutant: publishes without looking at the expiry.
MutMakeRequest ==
    /\ pc = "ready"
    /\ pc' = "made"
    /\ request' = CASE cmd = "notify"    -> NotifyRequest
                    [] cmd = "publish"   -> PublishRequest
                    [] cmd = "subscribe" -> SubscribeRequest
                    [] cmd = "message"   -> MessageRequest
                    [] OTHER             -> NoRequest
    /\ UNCHANGED <<args, cmd, lists, kinds, expires, has>>

MakeRequest ==
    /\ pc = "ready"
    /\ IF cmd = "publish" /\ ~expires
       THEN pc' = "rejected" /\ UNCHANGED request
       ELSE /\ pc' = "made"
            /\ request' = CASE cmd = "notify"    -> NotifyRequest
                            [] cmd = "publish"   -> PublishRequest
                            [] cmd = "subscribe" -> SubscribeRequest
                            [] cmd = "message"   -> MessageRequest
                            [] OTHER             -> NoRequest
    /\ UNCHANGED <<args, cmd, lists, kinds, expires, has>>

Next ==
    \/ \E e \in Events : SetEvent(e)
    \/ \E t \in Types : SetContentType(t)
    \/ SetMwiList \/ SetExpires
    \/ \E which \in {"to", "body"} : SetText(which)
    \/ AddCustomHeader
    \/ \E lr \in BOOLEAN : AddProxy(lr)
    \/ Inform
    \/ \E c \in Commands : Finish(c)
    \/ MakeRequest

Spec == Init /\ [][Next]_vars

-----------------------------------------------------------------------------
(* Properties.                                                             *)

\* Types; a message exists once a command made it, and a PUBLISH has an expiry.
TypeOK ==
    /\ pc \in {"parsing", "ready", "made", "rejected", "informed", "overrun"}
    /\ args \in 0..MaxArgs
    /\ cmd \in Commands
    /\ {hdrCnt, proxyCnt} \subseteq Nat
    /\ proxies \in Seq(BOOLEAN)
    /\ presEv \in {"unknown", "presence", "mwi", "other"}
    /\ event \in Events \cup {"none"}
    /\ ctypeE \in {"unknown", "pidf", "xpidf", "mwi", "other"}
    /\ ctypeMedia \in {"none", "pidf+xml", "xpidf+xml", "simple-message-summary", "plain"}
    /\ isMwi \in BOOLEAN /\ expires \in BOOLEAN
    /\ has \subseteq {"to", "body"}
    /\ request.event \in Events \cup {"none"}
    /\ request # NoRequest => pc = "made"
    /\ pc = "made" /\ cmd = "publish" => expires

\* Unless a header too many has overwritten the count, the proxies counted are
\* those kept, and the first of them is a loose route, whatever was skipped before.
RouteIsSound ==
    hdrCnt <= MaxHeaders =>
        /\ proxyCnt = Len(proxies)
        /\ proxies # <<>> => Head(proxies)

\* A NOTIFY that carries a document names the event the document is about, in
\* whatever order the options came: a message summary always, presence unless the
\* user named another event.
NotifyIsCoherent ==
    (pc = "made" /\ cmd = "notify") =>
        /\ request.body = "mwi" =>
               request.event = "message-summary" /\ request.type = "simple-message-summary"
        /\ request.body \in {"pidf", "xpidf"} =>
               /\ request.type \in {"pidf+xml", "xpidf+xml"}
               /\ event = "none" => request.event = "presence"

\* NOTIFY and SUBSCRIBE understand both names of the message summary event.
AliasIsUnderstood ==
    (pc = "made" /\ cmd \in {"notify", "subscribe"} /\ event \in {"mwi", "message-summary"})
        => request.event = "message-summary"

\* usage.c: of --header, "Multiple custom headers (up to 12) can be added".
HeadersFit == hdrCnt <= MaxHeaders

=============================================================================
