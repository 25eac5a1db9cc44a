------------------------------ MODULE Startup ------------------------------
(***************************************************************************)
(* From the first line of main to the moment a command has all it needs    *)
(* to send its request: the libraries, the command line, the name servers, *)
(* the dispatch, and for an INVITE its offer.  Every step may fail; main   *)
(* then returns, and only help, version and an unknown command go to the   *)
(* clean-up at done.                                                       *)
(***************************************************************************)
EXTENDS Codecs, Resolver

CONSTANT MaxArgs    \* bound: options, and names in lists of codecs

ASSUME MaxArgsAssumption == MaxArgs \in Nat

VARIABLES
    pc,     \* the step main is at, or how it ended
    args,   \* options and names parsed so far
    cmd,    \* app.cfg.cmd
    user,   \* app.cfg.username was given
    dest    \* app.cfg.dest: "none", a URI ("good") or not ("bad")

main == <<args, cmd, user, dest>>
vars == <<pc, main, codecs, resolver>>

Requests == {"ping", "publish", "subscribe", "notify", "register", "refer", "message", "invite"}

\* The step that follows each step of main, and of sippak_set_media_sdp.
After ==
    [pj_init |-> "sippak_init", sippak_init |-> "endpoint", endpoint |-> "options",
     options |-> "logger", logger |-> "ns_list", ns_list |-> "resolver",
     resolver |-> "mangler", mangler |-> "dispatch",
     media |-> "codecs", codecs |-> "rtp", rtp |-> "info", info |-> "sdp", sdp |-> "sending"]

Init ==
    /\ pc = "pj_init"
    /\ args = 0
    /\ cmd = "ping"
    /\ user = FALSE
    /\ dest = "none"
    /\ CodecsInit
    /\ ResolverInit

At(s) == pc = s
Advance == pc' = After[pc]

\* Steps of which nothing is kept but that they were done.
Step ==
    /\ pc \in {"pj_init", "sippak_init", "endpoint", "logger", "mangler",
               "media", "rtp", "info", "sdp"}
    /\ Advance
    /\ UNCHANGED <<main, codecs, resolver>>

\* SIPPAK_ASSERT_SUCC, or the exit of the command line: main is left at once.
Fail ==
    /\ pc \in DOMAIN After \cup {"dispatch"}
    /\ pc # "sippak_init"
    /\ pc' = "failed"
    /\ UNCHANGED <<main, codecs, resolver>>

-----------------------------------------------------------------------------
(* sippak_getopts.                                                         *)

Arg ==
    /\ At("options")
    /\ args < MaxArgs
    /\ args' = args + 1
    /\ UNCHANGED <<cmd, dest>>

Option == Arg /\ ~parsing

OptUser ==
    /\ Option
    /\ user' = TRUE
    /\ UNCHANGED <<pc, codecs, resolver>>

OptNs ==
    /\ Option
    /\ GiveServers
    /\ UNCHANGED <<pc, user, codecs>>

OptCodec ==
    /\ Option
    /\ StartList
    /\ UNCHANGED <<pc, user, resolver>>

CodecName(t) ==
    /\ Arg
    /\ \/ (NameCodec(t) \/ NameAll(t)) /\ UNCHANGED pc
       \/ Unsupported(t) /\ pc' = "failed" /\ UNCHANGED codecs
    /\ UNCHANGED <<user, resolver>>

CodecsEnd ==
    /\ At("options")
    /\ EndList
    /\ UNCHANGED <<pc, main, resolver>>

\* -h and -V, or nothing at all: the parsing ends at once.
Inform ==
    /\ At("options")
    /\ ~parsing
    /\ cmd' \in {"help", "version"}
    /\ Advance
    /\ UNCHANGED <<args, user, dest, codecs, resolver>>

\* Mutant: leaves a destination that does not parse to the command.
MutPostParse == Advance

\* post_parse_setup takes the user name from the destination, if there is none.
PostParse == IF ~user /\ dest' = "bad" THEN pc' = "failed" ELSE Advance

\* What is left of the arguments: nothing, a destination, or a command and one.
Finish ==
    /\ At("options")
    /\ ~parsing
    /\ \/ UNCHANGED <<cmd, dest>>
       \/ UNCHANGED cmd /\ dest' \in {"good", "bad"}
       \/ cmd' \in Requests \cup {"unknown"} /\ dest' \in {"good", "bad"}
    /\ PostParse
    /\ UNCHANGED <<args, user, codecs, resolver>>

-----------------------------------------------------------------------------
(* sippak_set_resolver_ns.                                                 *)

GetNsList ==
    /\ At("ns_list")
    /\ Advance
    /\ OpenSource
    /\ UNCHANGED <<main, codecs>>

ReadServer ==
    /\ At("resolver")
    /\ ReadGiven \/ ReadSystem
    /\ UNCHANGED <<pc, main, codecs>>

\* pj_dns_resolver_set_ns refuses an empty list.
SetServers ==
    /\ At("resolver")
    /\ AllRead
    /\ pc' = IF servers = <<>> THEN "failed" ELSE After[pc]
    /\ UNCHANGED <<main, codecs, resolver>>

-----------------------------------------------------------------------------
(* The dispatch and the commands, up to the request.                       *)

\* Help, version and an unknown command pass the clean-up.
Done ==
    /\ At("dispatch")
    /\ cmd \notin Requests
    /\ pc' = "done"
    /\ UNCHANGED <<main, codecs, resolver>>

\* sippak_create_reg_ruri does not test the URI it parsed; the other commands pass the
\* destination on to pjsip as it is, which refuses it.
Command ==
    /\ At("dispatch")
    /\ cmd \in Requests
    /\ pc' = CASE dest = "good" -> IF cmd = "invite" THEN "media" ELSE "sending"
               [] dest # "good" /\ cmd = "register" -> "crashed"
               [] OTHER -> "failed"
    /\ UNCHANGED <<main, codecs, resolver>>

RegisterCodecs ==
    /\ At("codecs")
    /\ \/ (RegisterAll \/ RegisterOne) /\ UNCHANGED pc
       \/ Offered /\ Advance /\ UNCHANGED codecs
    /\ UNCHANGED <<main, resolver>>

Next ==
    \/ Step \/ Fail
    \/ OptUser \/ OptNs \/ OptCodec \/ CodecsEnd
    \/ \E t \in Tokens : CodecName(t)
    \/ Inform \/ Finish
    \/ GetNsList \/ ReadServer \/ SetServers
    \/ Done \/ Command \/ RegisterCodecs

Spec == Init /\ [][Next]_vars

-----------------------------------------------------------------------------
(* Properties.                                                             *)

TypeOK ==
    /\ pc \in DOMAIN After \cup {"dispatch", "sending", "done", "failed", "crashed"}
    /\ args \in 0..MaxArgs
    /\ cmd \in Requests \cup {"help", "version", "unknown"}
    /\ user \in BOOLEAN
    /\ dest \in {"none", "good", "bad"}
    /\ CodecsTypeOK
    /\ ResolverTypeOK

\* An INVITE offers what the last --codec was read to ask for, each codec once and in
\* the order of the list, whatever lists were given before it and left in the array;
\* and everything exactly if that list says all: no list of names reaches the count
\* that stands for all of them.  A codec given by its own name is offered, unless the
\* name begins with that of a codec compared before it (codec_str_parse takes g722.1
\* for g722).
OfferIsWhatWasAsked ==
    (pc = "sending" /\ cmd = "invite") =>
        /\ every <=> \E k \in DOMAIN asked : CodecStrParse(asked[k]) = "all"
        /\ ~every =>
               /\ ListsOnce(offer, AsRead(asked))
               /\ \A k \in DOMAIN asked :
                      asked[k] \in CodecSet /\ ~Hidden(asked[k]) =>
                          \E a \in DOMAIN offer : offer[a] = asked[k]

\* Nothing, not even the help text, goes past the name servers without any: there
\* are as many as were given, or as the system has for IPv4, up to the limit, in their
\* order, and a port that was given and is one is kept.
ServersAreAsAsked ==
    pc \in {"mangler", "dispatch", "media", "codecs", "rtp", "info", "sdp", "sending", "done", "crashed"} =>
        servers # <<>> /\ Keeps(Len(source))

\* A destination that is no URI never gets as far as a request, and only a user name of
\* its own can take it past the command line to the one command that trips over it.
DestIsChecked ==
    /\ pc \in {"media", "codecs", "rtp", "info", "sdp", "sending"} => dest = "good"
    /\ pc = "crashed" => cmd = "register" /\ user

=============================================================================
