------------------------------- MODULE Codecs -------------------------------
(***************************************************************************)
(* The codecs of an INVITE: the lists given with --codec, parsed name by   *)
(* name into app.cfg.media, and the registration of the codecs chosen,     *)
(* from which pjsip makes the offer.  A count equal to the number of       *)
(* codecs stands for all of them, whatever the array holds.                *)
(***************************************************************************)
EXTENDS Naturals, Sequences, FiniteSets

CONSTANTS
    Order,      \* the codecs, in the order codec_str_parse compares names
    Supported,  \* the codecs pjsip was built with
    Tokens,     \* what may stand in a list
    Prefixes    \* for each token, the names of codecs it begins with, or "all"

CodecSet  == {Order[k] : k \in DOMAIN Order}
NumCodecs == Len(Order)     \* NUM_CODECS_AVAIL

ASSUME OrderAssumption ==
    Order \in Seq(STRING) /\ Len(Order) > 1 /\ {"all", "none", "unset"} \cap CodecSet = {}
ASSUME SupportedAssumption == Supported \subseteq CodecSet
ASSUME PrefixesAssumption ==
    /\ Prefixes \in [Tokens -> SUBSET (CodecSet \cup {"all"})]
    /\ \A c \in CodecSet \cap Tokens : c \in Prefixes[c]

\* Names of codecs, compared from their beginning: the first that fits is taken.
CodecStrParse(t) ==
    IF \E k \in DOMAIN Order : Order[k] \in Prefixes[t]
    THEN Order[CHOOSE k \in DOMAIN Order :
                   Order[k] \in Prefixes[t] /\ \A j \in 1..(k - 1) : Order[j] \notin Prefixes[t]]
    ELSE IF "all" \in Prefixes[t] THEN "all" ELSE "none"

\* What the program reads of a list.
AsRead(list) == [k \in DOMAIN list |-> CodecStrParse(list[k])]

\* The name of the codec begins with that of another, which is compared first and
\* taken instead, as g722 is for g722.1.
Hidden(c) ==
    \A k \in DOMAIN Order : Order[k] = c => \E j \in 1..(k - 1) : Order[j] \in Prefixes[c]

\* Some name is hidden: no list names all the codecs.
ASSUME HiddenAssumption ==
    Cardinality({CodecStrParse(t) : t \in Tokens} \cap Supported) < NumCodecs

VARIABLES
    cnt,        \* app.cfg.media.cnt
    codec,      \* app.cfg.media.codec
    found,      \* i: codecs taken from the list being parsed
    parsing,    \* a list is being parsed
    asked,      \* the names in the last list, as given, repeated ones too
    every,      \* all codecs were registered
    offer       \* the codecs registered one by one

codecs == <<cnt, codec, found, parsing, asked, every, offer>>

\* sippak_init: g711 by default.
CodecsInit ==
    /\ cnt = 1
    /\ codec = [k \in 1..NumCodecs |-> IF k = 1 THEN "g711" ELSE "unset"]
    /\ found = 0
    /\ parsing = FALSE
    /\ asked = <<"g711">>
    /\ every = FALSE
    /\ offer = <<>>

ASSUME DefaultAssumption ==
    "g711" \in CodecSet \cap Tokens /\ CodecStrParse("g711") = "g711"

-----------------------------------------------------------------------------
(* sippak_set_media_codecs_cfg.                                            *)

StartList ==
    /\ ~parsing
    /\ parsing' = TRUE
    /\ found' = 0
    /\ asked' = <<>>
    /\ UNCHANGED <<cnt, codec, every, offer>>

\* Mutant: looks at the codec found last only.
MutIsCodecSet(c) == found > 0 /\ codec[found] = c

IsCodecSet(c) == \E k \in 1..found : codec[k] = c

\* sippak_support_codec
SupportCodec(c) == c \in Supported

\* A codec that is already set is skipped.
NameCodec(t) ==
    LET c == CodecStrParse(t)
    IN  /\ parsing
        /\ SupportCodec(c)
        /\ asked' = Append(asked, t)
        /\ IF IsCodecSet(c)
           THEN UNCHANGED <<codec, found>>
           ELSE found' = found + 1 /\ codec' = [codec EXCEPT ![found + 1] = c]
        /\ UNCHANGED <<cnt, parsing, every, offer>>

\* "all" ends the parsing: what follows it is not looked at.
NameAll(t) ==
    /\ parsing
    /\ CodecStrParse(t) = "all"
    /\ cnt' = NumCodecs
    /\ parsing' = FALSE
    /\ asked' = Append(asked, t)
    /\ UNCHANGED <<codec, found, every, offer>>

\* Any other name makes the program exit.
Unsupported(t) ==
    /\ parsing
    /\ CodecStrParse(t) # "all" /\ ~SupportCodec(CodecStrParse(t))

EndList ==
    /\ parsing
    /\ parsing' = FALSE
    /\ cnt' = found
    /\ UNCHANGED <<codec, found, asked, every, offer>>

-----------------------------------------------------------------------------
(* sippak_set_media_sdp.                                                   *)

RegisterAll ==
    /\ cnt = NumCodecs
    /\ ~every
    /\ every' = TRUE
    /\ UNCHANGED <<cnt, codec, found, parsing, asked, offer>>

\* set_media_codecs: a turn of its loop, for a codec that is known.
RegisterOne ==
    /\ cnt # NumCodecs
    /\ Len(offer) < cnt
    /\ codec[Len(offer) + 1] \in Supported
    /\ offer' = Append(offer, codec[Len(offer) + 1])
    /\ UNCHANGED <<cnt, codec, found, parsing, asked, every>>

Offered == every \/ (cnt # NumCodecs /\ Len(offer) = cnt)

-----------------------------------------------------------------------------

CodecsTypeOK ==
    /\ cnt \in 0..NumCodecs
    /\ codec \in [1..NumCodecs -> CodecSet \cup {"unset"}]
    /\ found \in 0..NumCodecs
    /\ parsing \in BOOLEAN
    /\ asked \in Seq(Tokens)
    /\ every \in BOOLEAN
    /\ offer \in Seq(Supported)

\* The codecs of list, each once, in the order in which list names them first.
ListsOnce(chosen, list) ==
    /\ {chosen[a] : a \in DOMAIN chosen} = {list[k] : k \in DOMAIN list}
    /\ \A a, b \in DOMAIN chosen : a < b =>
           \E k \in DOMAIN list : list[k] = chosen[a] /\ \A j \in 1..k : list[j] # chosen[b]

=============================================================================
