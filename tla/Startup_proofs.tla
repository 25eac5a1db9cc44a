--------------------------- MODULE Startup_proofs ---------------------------
(***************************************************************************)
(* What TLAPS proves about Startup, for any codecs in any order, any lists *)
(* of names and of servers, and any number of options.                     *)
(***************************************************************************)
EXTENDS Startup, FiniteSetTheorems, TLAPS

-----------------------------------------------------------------------------
(* The inductive invariant.                                                *)

\* What a list of names can name.
Named == {CodecStrParse(t) : t \in Tokens} \cap Supported

\* The first n codecs of the array.
Chosen(array, n) == [k \in 1..n |-> array[k]]

AllAsked == \E k \in DOMAIN asked : CodecStrParse(asked[k]) = "all"

\* While a list is parsed, the array begins with the codecs it has named so far.
ListInv ==
    parsing => /\ ~AllAsked
               /\ ListsOnce(Chosen(codec, found), AsRead(asked))
               /\ \A k \in 1..found : codec[k] \in Named

\* Between lists, it begins with those of the last one, unless that said all.
CountInv ==
    ~parsing => IF AllAsked THEN cnt = NumCodecs
                ELSE cnt < NumCodecs /\ ListsOnce(Chosen(codec, cnt), AsRead(asked))

Registering == {"rtp", "info", "sdp"}

\* The codecs registered are the first of the array, or all of them.
OfferInv ==
    /\ pc \notin Registering \cup {"codecs", "sending", "failed"} => offer = <<>> /\ ~every
    /\ \A k \in 1..Len(offer) : offer[k] = codec[k]
    /\ every => cnt = NumCodecs
    /\ pc \in Registering \/ (pc = "sending" /\ cmd = "invite") => Offered
    /\ parsing => pc \in {"options", "failed"}

\* What the command line has accepted.
DestInv ==
    /\ pc \in {"pj_init", "sippak_init", "endpoint", "options"} => cmd = "ping" /\ dest = "none"
    /\ pc \in {"logger", "ns_list", "resolver", "mangler", "dispatch"} =>
           /\ cmd \in Requests /\ dest = "bad" => user
           /\ cmd = "register" => dest # "none"

\* What was read of the list of servers before main goes past it.
Before == {"pj_init", "sippak_init", "endpoint", "options", "logger", "ns_list"}
Beyond == {"mangler", "dispatch", "media", "codecs", "rtp", "info", "sdp", "sending", "done", "crashed"}

Read == Len(source) - Len(rest)

ReadInv ==
    /\ pc \in Before => servers = <<>>
    /\ pc = "resolver" => /\ Len(rest) <= Len(source)
                          /\ \A k \in 1..Len(rest) : rest[k] = source[Read + k]
                          /\ Keeps(Read)

IInv ==
    /\ TypeOK
    /\ ListInv
    /\ CountInv
    /\ OfferInv
    /\ DestInv
    /\ DestIsChecked
    /\ ReadInv
    /\ ServersAreAsAsked

-----------------------------------------------------------------------------
(* Codecs.                                                                 *)

LEMMA NumCodecsType == NumCodecs \in Nat /\ NumCodecs > 1
BY OrderAssumption DEF NumCodecs

\* The names of codecs are as many as can be counted.
LEMMA NamedIsFinite == IsFiniteSet(Named)
<1>1. Order \in [1..Len(Order) -> STRING] BY OrderAssumption
<1>2. Order \in Surjection(1..Len(Order), CodecSet)
  BY <1>1 DEF Surjection, CodecSet
<1>3. IsFiniteSet(1..Len(Order)) BY FS_Interval, OrderAssumption
<1>4. IsFiniteSet(CodecSet) BY <1>2, <1>3, FS_Surjection
<1>5. Named \in SUBSET CodecSet BY SupportedAssumption DEF Named
<1> QED BY <1>4, <1>5, FS_Subset

\* Different codecs that can be named are fewer than all the codecs.
LEMMA NamedAreFewer ==
    ASSUME NEW n \in Nat, NEW f \in [1..n -> Named],
           \A a, b \in 1..n : a < b => f[a] # f[b]
    PROVE  n < NumCodecs
<1>1. f \in Injection(1..n, Named) BY DEF Injection, IsInjective
<1>2. Cardinality(1..n) <= Cardinality(Named) BY <1>1, NamedIsFinite, FS_Injection
<1>3. Cardinality(1..n) = n BY FS_Interval
<1>4. Cardinality(Named) < NumCodecs BY HiddenAssumption DEF Named
<1>5. Cardinality(Named) \in Nat BY NamedIsFinite, FS_CardinalityType
<1> QED BY <1>2, <1>3, <1>4, <1>5, NumCodecsType

\* What names can be read as.
Readings == {CodecStrParse(t) : t \in Tokens}

\* A list is read name by name.
LEMMA AsReadType ==
    ASSUME NEW list \in Seq(Tokens)
    PROVE  /\ AsRead(list) \in Seq(Readings)
           /\ DOMAIN AsRead(list) = 1..Len(list)
           /\ DOMAIN list = 1..Len(list)
           /\ \A k \in 1..Len(list) : AsRead(list)[k] = CodecStrParse(list[k])
<1>1. Len(list) \in Nat /\ DOMAIN list = 1..Len(list) OBVIOUS
<1>2. \A k \in 1..Len(list) : list[k] \in Tokens OBVIOUS
<1>3. AsRead(list) \in [1..Len(list) -> Readings] BY <1>1, <1>2 DEF AsRead, Readings
<1>4. AsRead(list) \in Seq(Readings) BY <1>1, <1>3
<1> QED BY <1>1, <1>3, <1>4 DEF AsRead

LEMMA ReadOneMore ==
    ASSUME NEW list \in Seq(Tokens), NEW t \in Tokens
    PROVE  AsRead(Append(list, t)) = Append(AsRead(list), CodecStrParse(t))
<1> DEFINE more == Append(list, t)
           l == AsRead(list)
           r == AsRead(more)
           n == Len(list)
<1>1. more \in Seq(Tokens) /\ Len(more) = n + 1 /\ n \in Nat OBVIOUS
<1>2. more[n + 1] = t /\ \A k \in 1..n : more[k] = list[k] OBVIOUS
<1>3. l \in Seq(Readings) /\ DOMAIN l = 1..n /\ \A k \in 1..n : l[k] = CodecStrParse(list[k])
  BY AsReadType
<1>4. /\ r \in Seq(Readings) /\ DOMAIN r = 1..(n + 1)
      /\ \A k \in 1..(n + 1) : r[k] = CodecStrParse(more[k])
  BY <1>1, AsReadType
<1> HIDE DEF more, l, r, n
<1>5. CodecStrParse(t) \in Readings BY DEF Readings
<1>6. Len(l) = n BY <1>1, <1>3
<1>7. Append(l, CodecStrParse(t)) \in Seq(Readings) BY <1>3, <1>5
<1>8. DOMAIN Append(l, CodecStrParse(t)) = 1..(n + 1) BY <1>1, <1>3, <1>5, <1>6
<1>9. ASSUME NEW k \in 1..(n + 1) PROVE r[k] = Append(l, CodecStrParse(t))[k]
  <2>1. CASE k \in 1..n
    <3>1. Append(l, CodecStrParse(t))[k] = l[k] BY <2>1, <1>3, <1>5, <1>6
    <3> QED BY <3>1, <2>1, <1>2, <1>3, <1>4
  <2>2. CASE k = n + 1
    <3>1. Append(l, CodecStrParse(t))[n + 1] = CodecStrParse(t) BY <1>1, <1>3, <1>5, <1>6
    <3> QED BY <3>1, <2>2, <1>2, <1>4
  <2>3. n \in Nat BY <1>1
  <2>4. k \in 1..n \/ k = n + 1 BY <2>3
  <2> QED BY <2>1, <2>2, <2>4
<1>10. r = Append(l, CodecStrParse(t)) BY <1>1, <1>4, <1>7, <1>8, <1>9
<1> QED BY <1>10 DEF r, l, more

\* A codec given by a name that nothing hides is read as itself.
LEMMA UnhiddenName ==
    ASSUME NEW c \in CodecSet \cap Tokens, ~Hidden(c)
    PROVE  CodecStrParse(c) = c
<1> DEFINE First(k) == Order[k] \in Prefixes[c] /\ \A j \in 1..(k - 1) : Order[j] \notin Prefixes[c]
<1>1. DOMAIN Order = 1..Len(Order) /\ Len(Order) \in Nat BY OrderAssumption
<1>2. PICK k \in DOMAIN Order : Order[k] = c /\ \A j \in 1..(k - 1) : Order[j] \notin Prefixes[c]
  BY DEF Hidden
<1>3. First(k) BY <1>2, PrefixesAssumption
<1>4. ASSUME NEW i \in DOMAIN Order, First(i) PROVE i = k
  <2>1. ~(k \in 1..(i - 1)) /\ ~(i \in 1..(k - 1)) BY <1>3, <1>4
  <2> QED BY <2>1, <1>1
<1> DEFINE chosen == CHOOSE i \in DOMAIN Order : First(i)
<1>5. chosen = k BY <1>3, <1>4
<1>6. CodecStrParse(c) = Order[chosen] BY <1>3 DEF CodecStrParse
<1> QED BY <1>2, <1>5, <1>6

\* A list parsed to its end, or so far, leaves room in the array.
LEMMA RoomIsLeft ==
    ASSUME TypeOK, ListInv, parsing
    PROVE  found < NumCodecs
<1>1. found \in Nat BY NumCodecsType DEF TypeOK, CodecsTypeOK
<1> DEFINE f == Chosen(codec, found)
<1>2. f \in [1..found -> Named] BY <1>1 DEF Chosen, ListInv
<1>3. \A a, b \in 1..found : a < b => f[a] # f[b]
  <2> SUFFICES ASSUME NEW a \in 1..found, NEW b \in 1..found, a < b PROVE f[a] # f[b]
    OBVIOUS
  <2>1. ListsOnce(f, AsRead(asked)) BY DEF ListInv
  <2>2. DOMAIN f = 1..found BY DEF Chosen
  <2> DEFINE l == AsRead(asked)
  <2>3. PICK k \in DOMAIN l : l[k] = f[a] /\ \A j \in 1..k : l[j] # f[b]
    BY <2>1, <2>2 DEF ListsOnce
  <2>4. k \in 1..k BY AsReadType DEF TypeOK, CodecsTypeOK
  <2> QED BY <2>3, <2>4
<1> QED BY <1>1, <1>2, <1>3, NamedAreFewer

\* A codec already in the array changes nothing but what was asked.
LEMMA RepeatedName ==
    ASSUME NEW S, NEW chosen, NEW list \in Seq(S), NEW c \in S,
           ListsOnce(chosen, list), \E a \in DOMAIN chosen : chosen[a] = c
    PROVE  ListsOnce(chosen, Append(list, c))
<1> DEFINE l == Append(list, c)
<1>1. DOMAIN l = 1..(Len(list) + 1) /\ DOMAIN list = 1..Len(list) /\ Len(list) \in Nat OBVIOUS
<1>2. \A k \in DOMAIN list : l[k] = list[k] OBVIOUS
<1>3. l[Len(list) + 1] = c OBVIOUS
<1> HIDE DEF l
<1>4. {chosen[a] : a \in DOMAIN chosen} = {l[k] : k \in DOMAIN l}
  <2>1. {chosen[a] : a \in DOMAIN chosen} = {list[k] : k \in DOMAIN list} BY DEF ListsOnce
  <2>2. c \in {list[k] : k \in DOMAIN list} BY <2>1
  <2>3. {l[k] : k \in DOMAIN l} = {list[k] : k \in DOMAIN list} \cup {c} BY <1>1, <1>2, <1>3
  <2> QED BY <2>1, <2>2, <2>3
<1>5. ASSUME NEW a \in DOMAIN chosen, NEW b \in DOMAIN chosen, a < b
      PROVE  \E k \in DOMAIN l : l[k] = chosen[a] /\ \A j \in 1..k : l[j] # chosen[b]
  <2>1. PICK k \in DOMAIN list : list[k] = chosen[a] /\ \A j \in 1..k : list[j] # chosen[b]
    BY <1>5 DEF ListsOnce
  <2>2. k \in DOMAIN l /\ 1..k \subseteq DOMAIN list BY <1>1
  <2> QED BY <2>1, <2>2, <1>2
<1> QED BY <1>4, <1>5 DEF ListsOnce, l

\* A new codec goes to the end.
LEMMA NewName ==
    ASSUME NEW S, NEW n \in Nat, NEW array, NEW array2, NEW list \in Seq(S), NEW c \in S,
           ListsOnce(Chosen(array, n), list),
           \A k \in 1..n : array2[k] = array[k] /\ array[k] # c,
           array2[n + 1] = c
    PROVE  ListsOnce(Chosen(array2, n + 1), Append(list, c))
<1> DEFINE l == Append(list, c)
           old == Chosen(array, n)
           new == Chosen(array2, n + 1)
<1>1. DOMAIN l = 1..(Len(list) + 1) /\ DOMAIN list = 1..Len(list) /\ Len(list) \in Nat OBVIOUS
<1>2. \A k \in DOMAIN list : l[k] = list[k] OBVIOUS
<1>3. l[Len(list) + 1] = c OBVIOUS
<1>4. DOMAIN old = 1..n /\ DOMAIN new = 1..(n + 1) BY DEF Chosen
<1>5. \A k \in 1..n : new[k] = old[k] /\ old[k] # c BY DEF Chosen
<1>6. new[n + 1] = c BY DEF Chosen
<1>7. {old[a] : a \in DOMAIN old} = {list[k] : k \in DOMAIN list} BY DEF ListsOnce
<1>8. \A a, b \in DOMAIN old : a < b =>
          \E k \in DOMAIN list : list[k] = old[a] /\ \A j \in 1..k : list[j] # old[b]
  BY DEF ListsOnce
<1> HIDE DEF l, old, new
<1>9. {new[a] : a \in DOMAIN new} = {l[k] : k \in DOMAIN l}
  <2>1. {new[a] : a \in DOMAIN new} = {old[a] : a \in DOMAIN old} \cup {c} BY <1>4, <1>5, <1>6
  <2>2. {l[k] : k \in DOMAIN l} = {list[k] : k \in DOMAIN list} \cup {c} BY <1>1, <1>2, <1>3
  <2> QED BY <2>1, <2>2, <1>7
<1>10. ASSUME NEW a \in DOMAIN new, NEW b \in DOMAIN new, a < b
       PROVE  \E k \in DOMAIN l : l[k] = new[a] /\ \A j \in 1..k : l[j] # new[b]
  <2>1. a \in DOMAIN old /\ new[a] = old[a] BY <1>4, <1>5, <1>10
  <2>2. CASE b \in DOMAIN old
    <3>1. PICK k \in DOMAIN list : list[k] = old[a] /\ \A j \in 1..k : list[j] # old[b]
      BY <1>8, <1>10, <2>1, <2>2
    <3>2. k \in DOMAIN l /\ 1..k \subseteq DOMAIN list BY <1>1
    <3>3. new[b] = old[b] BY <1>4, <1>5, <2>2
    <3> QED BY <3>1, <3>2, <3>3, <2>1, <1>2
  <2>3. CASE b \notin DOMAIN old
    <3>1. b = n + 1 BY <1>4, <2>3
    <3>2. PICK k \in DOMAIN list : list[k] = old[a] BY <1>7, <2>1
    <3>3. k \in DOMAIN l /\ 1..k \subseteq DOMAIN list BY <1>1
    <3>4. ASSUME NEW j \in DOMAIN list PROVE list[j] # c
      <4>1. list[j] \in {old[i] : i \in DOMAIN old} BY <1>7
      <4> QED BY <4>1, <1>4, <1>5
    <3> QED BY <3>1, <3>2, <3>3, <3>4, <2>1, <1>2, <1>6
  <2> QED BY <2>2, <2>3
<1> QED BY <1>9, <1>10 DEF ListsOnce, l, new

-----------------------------------------------------------------------------
(* The actions on the codecs.                                              *)

\* The default is a list of one.
LEMMA InitCodecs == Init => ListInv /\ CountInv /\ OfferInv
<1> SUFFICES ASSUME Init PROVE ListInv /\ CountInv /\ OfferInv OBVIOUS
<1> USE DEF Init, CodecsInit
<1>1. ListInv BY DEF ListInv
<1>2. CountInv
  <2>1. ~AllAsked
    <3>1. DOMAIN asked = {1} /\ asked[1] = "g711" BY NumCodecsType
    <3>2. "g711" # "all" OBVIOUS
    <3> QED BY <3>1, <3>2, DefaultAssumption DEF AllAsked
  <2>2. cnt < NumCodecs BY NumCodecsType
  <2>3. ListsOnce(Chosen(codec, cnt), AsRead(asked))
    <3>1. cnt = 1 /\ codec[1] = "g711" /\ asked = <<"g711">> BY NumCodecsType
    <3>2. DOMAIN Chosen(codec, cnt) = {1} /\ Chosen(codec, cnt)[1] = "g711"
      BY <3>1 DEF Chosen
    <3> DEFINE l == AsRead(asked)
    <3>3. DOMAIN l = {1} /\ l[1] = "g711" BY <3>1, DefaultAssumption DEF AsRead
    <3> HIDE DEF l
    <3> HIDE DEF Init, CodecsInit
    <3>4. \A a, b \in DOMAIN Chosen(codec, cnt) : ~(a < b) BY <3>2
    <3>5. {Chosen(codec, cnt)[a] : a \in DOMAIN Chosen(codec, cnt)} = {"g711"} BY <3>2
    <3>6. {l[k] : k \in DOMAIN l} = {"g711"} BY <3>3
    <3> QED BY <3>4, <3>5, <3>6 DEF ListsOnce, l
  <2> QED BY <2>1, <2>2, <2>3 DEF CountInv
<1>3. OfferInv BY DEF OfferInv, Registering
<1> QED BY <1>1, <1>2, <1>3

\* What the actions of the command line leave of the codecs.
LEMMA ListsFrame ==
    ASSUME ListInv, CountInv, UNCHANGED <<cnt, codec, found, parsing, asked>>
    PROVE  ListInv' /\ CountInv'
<1>1. AllAsked' <=> AllAsked BY DEF AllAsked
<1>2. AsRead(asked)' = AsRead(asked) BY DEF AsRead
<1>3. /\ ListsOnce(Chosen(codec, found), AsRead(asked))'
             <=> ListsOnce(Chosen(codec, found), AsRead(asked))
      /\ ListsOnce(Chosen(codec, cnt), AsRead(asked))'
             <=> ListsOnce(Chosen(codec, cnt), AsRead(asked))
  BY <1>2 DEF ListsOnce, Chosen
<1> QED BY <1>1, <1>3 DEF ListInv, CountInv

LEMMA StartListInv == ASSUME StartList PROVE ListInv' /\ CountInv'
<1>1. ListInv'
  <2>1. ~AllAsked' BY DEF StartList, AllAsked
  <2>2. ListsOnce(Chosen(codec, found), AsRead(asked))'
    BY DEF StartList, ListsOnce, Chosen, AsRead
  <2>3. (\A k \in 1..found : codec[k] \in Named)' BY DEF StartList
  <2> QED BY <2>1, <2>2, <2>3 DEF ListInv
<1>2. CountInv' BY DEF StartList, CountInv
<1> QED BY <1>1, <1>2

LEMMA EndListInv == ASSUME TypeOK, ListInv, EndList PROVE ListInv' /\ CountInv'
<1>1. found < NumCodecs BY RoomIsLeft DEF EndList
<1>2. ListInv' BY DEF EndList, ListInv
<1>3. ~AllAsked' BY DEF EndList, ListInv, AllAsked
<1>4. ListsOnce(Chosen(codec, cnt), AsRead(asked))'
  BY DEF EndList, ListInv, ListsOnce, Chosen, AsRead
<1> QED BY <1>1, <1>2, <1>3, <1>4 DEF EndList, CountInv

LEMMA NameAllInv ==
    ASSUME TypeOK, NEW t \in Tokens, NameAll(t)
    PROVE  ListInv' /\ CountInv'
<1>1. asked \in Seq(Tokens) BY DEF TypeOK, CodecsTypeOK
<1>2. asked'[Len(asked) + 1] = t /\ Len(asked) + 1 \in DOMAIN asked' BY <1>1 DEF NameAll
<1>3. AllAsked' BY <1>2 DEF AllAsked, NameAll
<1> QED BY <1>3 DEF NameAll, ListInv, CountInv

LEMMA NameCodecInv ==
    ASSUME TypeOK, ListInv, NEW t \in Tokens, NameCodec(t)
    PROVE  ListInv' /\ CountInv' /\ CodecsTypeOK'
<1> DEFINE c == CodecStrParse(t)
<1>1. c \in Named /\ c \in Supported /\ c \in CodecSet /\ c # "all"
  BY SupportedAssumption, OrderAssumption DEF NameCodec, SupportCodec, Named
<1>2. parsing /\ parsing' /\ cnt' = cnt /\ every' = every /\ offer' = offer
  BY DEF NameCodec, TypeOK, CodecsTypeOK
<1>3. found < NumCodecs BY <1>2, RoomIsLeft
<1>4. asked \in Seq(Tokens) /\ found \in 0..NumCodecs
      /\ codec \in [1..NumCodecs -> CodecSet \cup {"unset"}]
  BY DEF TypeOK, CodecsTypeOK
<1>5. asked' = Append(asked, t) BY DEF NameCodec
<1>6. ListsOnce(Chosen(codec, found), AsRead(asked)) /\ ~AllAsked
      /\ \A k \in 1..found : codec[k] \in Named
  BY <1>2 DEF ListInv
<1>7. CountInv' BY <1>2 DEF CountInv
<1>8. ~AllAsked'
  <2> SUFFICES ASSUME NEW k \in DOMAIN asked' PROVE CodecStrParse(asked'[k]) # "all"
    BY DEF AllAsked
  <2>1. k \in DOMAIN asked \/ asked'[k] = t BY <1>4, <1>5
  <2>2. k \in DOMAIN asked => asked'[k] = asked[k] BY <1>4, <1>5
  <2> QED BY <2>1, <2>2, <1>1, <1>6 DEF AllAsked
<1>9. asked' \in Seq(Tokens) BY <1>4, <1>5
<1> DEFINE l == AsRead(asked)
<1>12. l \in Seq(Readings) /\ c \in Readings BY <1>4, AsReadType DEF Readings
<1>13. AsRead(asked') = Append(l, c) BY <1>4, <1>5, ReadOneMore
<1>14. ListsOnce(Chosen(codec, found), l) BY <1>6
<1> HIDE DEF l
<1> HIDE DEF c
<1>10. CASE IsCodecSet(c)
  <2>1. codec' = codec /\ found' = found BY <1>10 DEF NameCodec, c
  <2>2. \E a \in DOMAIN Chosen(codec, found) : Chosen(codec, found)[a] = c
    BY <1>10 DEF IsCodecSet, Chosen
  <2>3. ListsOnce(Chosen(codec, found), Append(l, c))
    BY <1>12, <1>14, <2>2, RepeatedName
  <2>4. ListsOnce(Chosen(codec, found), AsRead(asked))' BY <2>1, <2>3, <1>13 DEF AsRead
  <2>5. ListInv' BY <2>1, <2>4, <1>6, <1>8 DEF ListInv
  <2>6. CodecsTypeOK' BY <2>1, <1>2, <1>9 DEF TypeOK, CodecsTypeOK
  <2> QED BY <2>5, <2>6, <1>7
<1>11. CASE ~IsCodecSet(c)
  <2>1. codec' = [codec EXCEPT ![found + 1] = c] /\ found' = found + 1 BY <1>11 DEF NameCodec, c
  <2>2. found + 1 \in 1..NumCodecs /\ found \in Nat BY <1>3, <1>4, NumCodecsType
  <2>3. codec'[found + 1] = c BY <2>1, <2>2, <1>4
  <2>4. \A k \in 1..found : codec'[k] = codec[k] /\ codec[k] # c
    BY <2>1, <2>2, <1>4, <1>11 DEF IsCodecSet
  <2>5. ListsOnce(Chosen(codec', found + 1), Append(l, c))
    BY <2>2, <2>3, <2>4, <1>12, <1>14, NewName
  <2>6. ListsOnce(Chosen(codec, found), AsRead(asked))' BY <2>1, <2>5, <1>13 DEF AsRead
  <2>7. \A k \in 1..found' : codec'[k] \in Named
    <3> SUFFICES ASSUME NEW k \in 1..(found + 1) PROVE codec'[k] \in Named BY <2>1
    <3>1. k \in 1..found \/ k = found + 1 BY <2>2
    <3> QED BY <3>1, <2>3, <2>4, <1>1, <1>6
  <2>8. ListInv' BY <2>6, <2>7, <1>8 DEF ListInv
  <2>9. codec' \in [1..NumCodecs -> CodecSet \cup {"unset"}] BY <2>1, <1>1, <1>4
  <2>10. CodecsTypeOK' BY <2>1, <2>2, <2>9, <1>2, <1>9 DEF TypeOK, CodecsTypeOK
  <2> QED BY <2>8, <2>10, <1>7
<1> QED BY <1>10, <1>11

-----------------------------------------------------------------------------
(* Name servers.                                                           *)

LEMMA HeadAndTail ==
    ASSUME NEW S, NEW s \in Seq(S), s # <<>>
    PROVE  Head(s) \in S /\ Tail(s) \in Seq(S)
OBVIOUS

LEMMA KeepIsServer ==
    ASSUME ResolverTypeOK, Len(servers) < MaxServers,
           NEW server \in Server, NEW port \in Nat, Keep(server, port)
    PROVE  servers' \in Seq(Server) /\ Len(servers') <= MaxServers
<1>1. [server EXCEPT !.port = port] \in Server BY DEF Server
<1> QED BY <1>1, MaxServersAssumption DEF Keep, ResolverTypeOK

\* Reading a server keeps the arrays within their limit.
LEMMA ReadServerType ==
    ASSUME ResolverTypeOK, ReadGiven \/ ReadSystem
    PROVE  ResolverTypeOK'
<1>1. rest # <<>> /\ rest' = Tail(rest) /\ given' = given /\ source' = source
  BY DEF ReadGiven, ReadSystem, SystemDone
<1>2. Head(rest) \in Server /\ rest' \in Seq(Server)
  BY <1>1, HeadAndTail DEF ResolverTypeOK
<1>3. Len(servers) \in Nat /\ MaxServers \in Nat BY MaxServersAssumption DEF ResolverTypeOK
<1>4. Head(rest).port \in Nat /\ GetPort(Head(rest).port) \in Nat
  BY <1>2, PortRangeAssumption DEF GetPort, Server
<1>5. servers' \in Seq(Server) /\ Len(servers') <= MaxServers
  <2>1. CASE servers' = servers BY <2>1 DEF ResolverTypeOK
  <2>2. CASE /\ ReadGiven /\ ~(Len(servers) >= MaxServers)
             /\ Keep(Head(rest), GetPort(Head(rest).port))
    BY <2>2, <1>2, <1>3, <1>4, KeepIsServer
  <2>3. CASE ReadSystem /\ Keep(Head(rest), Head(rest).port)
    <3>1. Len(servers) # MaxServers BY <2>3 DEF ReadSystem, SystemDone
    <3>2. Len(servers) < MaxServers BY <3>1, <1>3 DEF ResolverTypeOK
    <3> QED BY <2>3, <3>2, <1>2, <1>4, KeepIsServer
  <2> QED BY <2>1, <2>2, <2>3 DEF ReadGiven, ReadSystem
<1> QED BY <1>1, <1>2, <1>5 DEF ResolverTypeOK

\* How many servers are wanted of the first n.
LEMMA PlaceType ==
    ASSUME NEW n \in Nat
    PROVE  /\ IsFiniteSet(Wanted(n)) /\ Wanted(n) \subseteq 1..n
           /\ Place(n) \in Nat /\ Place(n) <= n
<1>1. IsFiniteSet(1..n) /\ Cardinality(1..n) = n BY FS_Interval
<1>2. Wanted(n) \subseteq 1..n BY DEF Wanted
<1>3. IsFiniteSet(Wanted(n)) /\ Cardinality(Wanted(n)) <= n BY <1>1, <1>2, FS_Subset
<1>4. Cardinality(Wanted(n)) \in Nat BY <1>3, FS_CardinalityType
<1> QED BY <1>2, <1>3, <1>4 DEF Place

\* There are no fewer of more.
LEMMA PlacesGrow ==
    ASSUME NEW m \in Nat, NEW n \in Nat, m <= n
    PROVE  Wanted(m) \subseteq Wanted(n) /\ Place(m) <= Place(n)
<1>1. Wanted(m) \subseteq Wanted(n) BY DEF Wanted
<1>2. IsFiniteSet(Wanted(n)) BY PlaceType
<1> QED BY <1>1, <1>2, FS_Subset DEF Place

\* The next server takes the next place, if it is wanted.
LEMMA NextPlace ==
    ASSUME NEW n \in Nat, n + 1 \in DOMAIN source
    PROVE  IF given \/ source[n + 1].v4
           THEN Wanted(n + 1) = Wanted(n) \cup {n + 1} /\ Place(n + 1) = Place(n) + 1
           ELSE Wanted(n + 1) = Wanted(n) /\ Place(n + 1) = Place(n)
<1>1. \A i : i \in 1..(n + 1) <=> i \in 1..n \/ i = n + 1 OBVIOUS
<1>2. CASE given \/ source[n + 1].v4
  <2>1. Wanted(n + 1) = Wanted(n) \cup {n + 1} BY <1>1, <1>2, Zenon DEF Wanted
  <2>2. n + 1 \notin Wanted(n) BY DEF Wanted
  <2>3. IsFiniteSet(Wanted(n)) BY PlaceType
  <2>4. Place(n + 1) = Place(n) + 1 BY <2>1, <2>2, <2>3, FS_AddElement DEF Place
  <2> QED BY <2>1, <2>4, <1>2
<1>3. CASE ~(given \/ source[n + 1].v4)
  <2>1. Wanted(n + 1) = Wanted(n) BY <1>1, <1>3, Zenon DEF Wanted
  <2>2. Place(n + 1) = Place(n) BY <2>1 DEF Place
  <2> QED BY <2>1, <2>2, <1>3
<1> QED BY <1>2, <1>3

\* The port kept is the one asked for, or that of the name service.
LEMMA PortKept ==
    ASSUME NEW port \in Nat
    PROVE  /\ port \in 1..(PortRange - 1) => GetPort(port) = port
           /\ port = 0 => GetPort(port) = 53
<1>1. PortRange \in Nat /\ PortRange > 53 BY PortRangeAssumption
<1>2. \A k \in 0..(PortRange - 1) : k % PortRange = k BY <1>1
<1>3. 53 \in 0..(PortRange - 1) /\ 53 # 0 BY <1>1
<1> QED BY <1>1, <1>2, <1>3 DEF GetPort

\* Reading one server more.
LEMMA ReadKeeps ==
    ASSUME ResolverTypeOK, NEW n \in Nat, n + 1 \in DOMAIN source, Keeps(n),
           UNCHANGED <<given, source>>,
           \/ UNCHANGED servers /\ (Len(servers) >= MaxServers \/ ~(given \/ source[n + 1].v4))
           \/ /\ Len(servers) < MaxServers /\ (given \/ source[n + 1].v4)
              /\ \E port \in Nat : /\ Keep(source[n + 1], port)
                                   /\ KeptAs([source[n + 1] EXCEPT !.port = port], source[n + 1])
    PROVE  Keeps(n + 1)'
<1>1. source \in Seq(Server) /\ servers \in Seq(Server) /\ Len(servers) \in Nat
  BY DEF ResolverTypeOK
<1>2. MaxServers \in Nat /\ MaxServers > 0 BY MaxServersAssumption
<1>3. Place(n) \in Nat /\ Wanted(n) \subseteq 1..n BY PlaceType
<1>4. \A i \in Wanted(n) : Place(i) \in Nat /\ Place(i) <= Place(n)
  BY <1>3, PlaceType, PlacesGrow
<1>5. /\ Len(servers) = IF Place(n) < MaxServers THEN Place(n) ELSE MaxServers
      /\ \A i \in Wanted(n) : Place(i) <= MaxServers => KeptAs(servers[Place(i)], source[i])
  BY DEF Keeps
<1>6. /\ \A i : Wanted(i)' = Wanted(i) /\ Place(i)' = Place(i)
      /\ \A server, s : KeptAs(server, s)' <=> KeptAs(server, s)
  BY DEF Wanted, Place, KeptAs
<1>7. IF given \/ source[n + 1].v4
      THEN Wanted(n + 1) = Wanted(n) \cup {n + 1} /\ Place(n + 1) = Place(n) + 1
      ELSE Wanted(n + 1) = Wanted(n) /\ Place(n + 1) = Place(n)
  BY NextPlace
<1>8. ASSUME /\ Len(servers') = IF Place(n + 1) < MaxServers THEN Place(n + 1) ELSE MaxServers
             /\ \A i \in Wanted(n + 1) :
                    Place(i) <= MaxServers => KeptAs(servers'[Place(i)], source[i])
      PROVE  Keeps(n + 1)'
  BY <1>6, <1>8 DEF Keeps
<1>9. CASE UNCHANGED servers /\ ~(given \/ source[n + 1].v4)
  BY <1>5, <1>7, <1>8, <1>9
<1>10. CASE UNCHANGED servers /\ Len(servers) >= MaxServers /\ (given \/ source[n + 1].v4)
  <2>1. Place(n) >= MaxServers /\ Len(servers) = MaxServers BY <1>2, <1>3, <1>5, <1>10
  <2>2. Wanted(n + 1) = Wanted(n) \cup {n + 1} /\ Place(n + 1) = Place(n) + 1 BY <1>7, <1>10
  <2>3. Len(servers') = IF Place(n + 1) < MaxServers THEN Place(n + 1) ELSE MaxServers
    BY <2>1, <2>2, <1>2, <1>3, <1>10
  <2>4. ~(Place(n + 1) <= MaxServers) BY <2>1, <2>2, <1>2, <1>3
  <2> QED BY <2>2, <2>3, <2>4, <1>5, <1>8, <1>10
<1>11. CASE /\ Len(servers) < MaxServers /\ (given \/ source[n + 1].v4)
            /\ \E port \in Nat : /\ Keep(source[n + 1], port)
                                 /\ KeptAs([source[n + 1] EXCEPT !.port = port], source[n + 1])
  <2>1. PICK port \in Nat : /\ Keep(source[n + 1], port)
                            /\ KeptAs([source[n + 1] EXCEPT !.port = port], source[n + 1])
    BY <1>11
  <2> DEFINE new == [source[n + 1] EXCEPT !.port = port]
  <2>2. new \in Server
    <3>1. source[n + 1] \in Server BY <1>1
    <3> QED BY <3>1 DEF Server
  <2>3. servers' = Append(servers, new) BY <2>1 DEF Keep
  <2>4. KeptAs(new, source[n + 1]) BY <2>1
  <2> HIDE DEF new
  <2>5. /\ Len(servers') = Len(servers) + 1
        /\ servers'[Len(servers) + 1] = new
        /\ \A k \in 1..Len(servers) : servers'[k] = servers[k]
    BY <2>2, <2>3, <1>1
  <2>6. Len(servers) = Place(n) BY <1>2, <1>3, <1>5, <1>11
  <2>7. Wanted(n + 1) = Wanted(n) \cup {n + 1} /\ Place(n + 1) = Place(n) + 1 BY <1>7, <1>11
  <2>8. Len(servers') = IF Place(n + 1) < MaxServers THEN Place(n + 1) ELSE MaxServers
    BY <2>5, <2>6, <2>7, <1>2, <1>3, <1>11
  <2>9. ASSUME NEW i \in Wanted(n + 1), Place(i) <= MaxServers
        PROVE  KeptAs(servers'[Place(i)], source[i])
    <3>1. CASE i = n + 1 BY <3>1, <2>4, <2>5, <2>6, <2>7
    <3>2. CASE i \in Wanted(n)
      <4>1. Place(i) \in 1..Len(servers)
        <5>1. i \in 1..n /\ i \in Wanted(i) BY <3>2 DEF Wanted
        <5>2. IsFiniteSet(Wanted(i)) /\ Cardinality(Wanted(i)) # 0
          BY <5>1, PlaceType, FS_EmptySet
        <5> QED BY <5>2, <3>2, <2>6, <1>4 DEF Place
      <4> QED BY <4>1, <3>2, <2>5, <2>9, <1>5
    <3> QED BY <3>1, <3>2, <2>7
  <2> QED BY <2>8, <2>9, <1>8
<1> QED BY <1>9, <1>10, <1>11

\* The head of the rest is the next server, and is kept as it should.
LEMMA ReadServerInv ==
    ASSUME ResolverTypeOK, ReadInv, pc = "resolver", ReadGiven \/ ReadSystem
    PROVE  /\ Len(rest') <= Len(source')
           /\ \A k \in 1..Len(rest') : rest'[k] = source'[Read' + k]
           /\ Keeps(Read)'
<1>1. rest # <<>> /\ rest' = Tail(rest) /\ given' = given /\ source' = source
  BY DEF ReadGiven, ReadSystem, SystemDone
<1>2. /\ source \in Seq(Server) /\ servers \in Seq(Server) /\ rest \in Seq(Server)
      /\ Len(servers) <= MaxServers /\ Len(servers) \in Nat /\ MaxServers \in Nat
  BY MaxServersAssumption DEF ResolverTypeOK
<1>3. PICK n : n = Read OBVIOUS
<1>4. /\ Len(rest) <= Len(source)
      /\ \A k \in 1..Len(rest) : rest[k] = source[n + k]
      /\ Keeps(n)
      /\ n = Len(source) - Len(rest)
  BY <1>3 DEF ReadInv, Read
<1>5. /\ rest' \in Seq(Server) /\ Len(rest') = Len(rest) - 1 /\ Len(rest) \in Nat \ {0}
      /\ \A k \in 1..Len(rest') : rest'[k] = rest[k + 1]
      /\ Head(rest) = rest[1]
  BY <1>1, <1>2
<1>6. /\ n \in Nat /\ n + 1 \in 1..Len(source) /\ Len(source) \in Nat
      /\ Len(source) - Len(rest') = n + 1
  BY <1>2, <1>4, <1>5
<1>7. Head(rest) = source[n + 1] /\ n + 1 \in DOMAIN source BY <1>2, <1>4, <1>5, <1>6
<1>8. source[n + 1] \in Server /\ source[n + 1].port \in Nat
  <2>1. source[n + 1] \in Server BY <1>2, <1>7
  <2> QED BY <2>1 DEF Server
<1>9. Keeps(n + 1)'
  <2>1. CASE ReadGiven /\ Len(servers) >= MaxServers
    BY <2>1, <1>1, <1>6, <1>7, <1>4, ReadKeeps DEF ReadGiven
  <2>2. CASE ReadGiven /\ ~(Len(servers) >= MaxServers)
    <3> DEFINE port == GetPort(source[n + 1].port)
    <3>1. given /\ Keep(source[n + 1], port) BY <2>2, <1>7 DEF ReadGiven
    <3>2. port \in Nat BY <1>8, PortRangeAssumption DEF GetPort
    <3>3. /\ source[n + 1].port \in 1..(PortRange - 1) => port = source[n + 1].port
          /\ source[n + 1].port = 0 => port = 53
      BY <1>8, PortKept
    <3> HIDE DEF port
    <3>4. KeptAs([source[n + 1] EXCEPT !.port = port], source[n + 1])
      BY <3>3, <1>8 DEF KeptAs, Server
    <3>5. Len(servers) < MaxServers BY <2>2, <1>2
    <3> QED BY <3>1, <3>2, <3>4, <3>5, <1>1, <1>4, <1>6, <1>7, ReadKeeps
  <2>3. CASE ReadSystem /\ ~source[n + 1].v4
    BY <2>3, <1>1, <1>4, <1>6, <1>7, ReadKeeps DEF ReadSystem
  <2>4. CASE ReadSystem /\ source[n + 1].v4
    <3> DEFINE port == source[n + 1].port
    <3>1. ~given /\ Keep(source[n + 1], port) /\ Len(servers) # MaxServers
      BY <2>4, <1>7 DEF ReadSystem, SystemDone
    <3>2. KeptAs([source[n + 1] EXCEPT !.port = port], source[n + 1])
      BY <3>1, <1>8 DEF KeptAs, Server
    <3>3. Len(servers) < MaxServers BY <3>1, <1>2
    <3>4. port \in Nat BY <1>8
    <3> QED BY <2>4, <3>1, <3>2, <3>3, <3>4, <1>1, <1>4, <1>6, <1>7, ReadKeeps
  <2> QED BY <2>1, <2>2, <2>3, <2>4
<1>10. Read' = n + 1 BY <1>1, <1>6 DEF Read
<1>11. Keeps(Read)'
  <2>1. Keeps(Read)' <=> Keeps(n + 1)' BY <1>10 DEF Keeps, Wanted, Place, KeptAs
  <2> QED BY <2>1, <1>9
<1>12. \A k \in 1..Len(rest') : rest'[k] = source'[Read' + k]
  <2> SUFFICES ASSUME NEW k \in 1..Len(rest') PROVE rest'[k] = source[(n + 1) + k]
    BY <1>1, <1>10
  <2>1. k + 1 \in 1..Len(rest) /\ rest'[k] = rest[k + 1] BY <1>5
  <2>2. rest[k + 1] = source[n + (k + 1)] BY <2>1, <1>4
  <2>3. n + (k + 1) = (n + 1) + k BY <1>6
  <2> QED BY <2>1, <2>2, <2>3
<1> QED BY <1>1, <1>2, <1>4, <1>5, <1>6, <1>11, <1>12

\* When the reading is over, all that there was room for was read.
LEMMA AllReadKeeps ==
    ASSUME ResolverTypeOK, ReadInv, pc = "resolver", AllRead
    PROVE  Keeps(Len(source))
<1>1. /\ source \in Seq(Server) /\ servers \in Seq(Server) /\ rest \in Seq(Server)
      /\ Len(source) \in Nat /\ Len(servers) \in Nat /\ Len(rest) \in Nat
      /\ MaxServers \in Nat
  BY MaxServersAssumption DEF ResolverTypeOK
<1>2. PICK n : n = Read OBVIOUS
<1>3. /\ Keeps(n) /\ n = Len(source) - Len(rest) /\ n \in 0..Len(source)
  BY <1>1, <1>2 DEF ReadInv, Read
<1>4. PICK m : m = Len(source) OBVIOUS
<1>5. /\ Place(n) \in Nat /\ Place(n) <= n /\ Place(m) \in Nat /\ Place(m) <= m
      /\ Place(n) <= Place(m) /\ n \in Nat /\ m \in Nat /\ n <= m
  BY <1>1, <1>3, <1>4, PlaceType, PlacesGrow
<1>6. Len(servers) = IF Place(n) < MaxServers THEN Place(n) ELSE MaxServers BY <1>3 DEF Keeps
<1>7. CASE n = m BY <1>3, <1>4, <1>7
<1>8. CASE n # m
  <2>1. rest # <<>> BY <1>1, <1>3, <1>4, <1>8
  <2>2. Len(servers) = MaxServers \/ Len(servers) = m BY <2>1, <1>4 DEF AllRead, SystemDone
  <2>3. Place(n) >= MaxServers /\ Len(servers) = MaxServers BY <2>2, <1>1, <1>5, <1>6, <1>8
  <2>4. Len(servers) = IF Place(m) < MaxServers THEN Place(m) ELSE MaxServers
    BY <2>3, <1>1, <1>5
  <2>5. ASSUME NEW i \in Wanted(m), Place(i) <= MaxServers
        PROVE  KeptAs(servers[Place(i)], source[i])
    <3>1. i \in 1..m BY <1>5, PlaceType
    <3>2. CASE i <= n
      <4>1. i \in Wanted(n) BY <3>1, <3>2, <1>5 DEF Wanted
      <4> QED BY <4>1, <2>5, <1>3 DEF Keeps
    <3>3. CASE i > n
      <4>1. i - 1 \in Nat /\ n <= i - 1 /\ (i - 1) + 1 = i /\ i \in DOMAIN source
        BY <3>1, <3>3, <1>1, <1>4, <1>5
      <4>2. Place(n) <= Place(i - 1) /\ Place(i - 1) \in Nat
        BY <4>1, <1>5, PlacesGrow, PlaceType
      <4>3. given \/ source[i].v4 BY DEF Wanted
      <4>4. Place(i) = Place(i - 1) + 1
        <5>1. PICK j : j = i - 1 OBVIOUS
        <5>2. j \in Nat /\ j + 1 = i BY <4>1, <5>1
        <5>3. Place(j + 1) = Place(j) + 1 BY <4>1, <4>3, <5>2, NextPlace
        <5> QED BY <5>1, <5>2, <5>3
      <4> QED BY <4>2, <4>4, <2>3, <2>5, <1>1, <1>5
    <3> QED BY <3>1, <3>2, <3>3, <1>5
  <2> QED BY <2>4, <2>5, <1>4 DEF Keeps
<1> QED BY <1>7, <1>8

\* Nothing else touches the servers, and main never goes back.
LEMMA ServersFrame ==
    ASSUME ReadInv, ServersAreAsAsked, UNCHANGED resolver,
           pc' \in Before => pc \in Before, pc' = "resolver" => pc = "resolver",
           pc' \in Beyond => pc \in Beyond
    PROVE  ReadInv' /\ ServersAreAsAsked'
<1>1. UNCHANGED <<given, source, rest, servers>> BY DEF resolver
<1>2. \A n : Keeps(n)' <=> Keeps(n) BY <1>1 DEF Keeps, Wanted, Place, KeptAs
<1>3. Read' = Read /\ Len(source)' = Len(source) BY <1>1 DEF Read
<1>4. Keeps(Read)' <=> Keeps(Read) BY <1>1, <1>3 DEF Keeps, Wanted, Place, KeptAs
<1>5. Keeps(Len(source))' <=> Keeps(Len(source)) BY <1>1 DEF Keeps, Wanted, Place, KeptAs
<1>6. ReadInv' BY <1>1, <1>3, <1>4 DEF ReadInv
<1>7. ServersAreAsAsked' BY <1>1, <1>5 DEF ServersAreAsAsked, Beyond
<1> QED BY <1>6, <1>7

-----------------------------------------------------------------------------
(* The steps.                                                              *)

\* main and getopts start in the invariant.
LEMMA InitIInv == Init => IInv
<1> SUFFICES ASSUME Init PROVE IInv OBVIOUS
<1>1. TypeOK
  <2>1. CodecsTypeOK
    <3>1. codec \in [1..NumCodecs -> CodecSet \cup {"unset"}]
      BY DefaultAssumption DEF Init, CodecsInit
    <3>2. asked \in Seq(Tokens) BY DefaultAssumption DEF Init, CodecsInit
    <3>3. offer \in Seq(Supported) BY DEF Init, CodecsInit
    <3>4. cnt \in 0..NumCodecs /\ found \in 0..NumCodecs
      BY NumCodecsType DEF Init, CodecsInit
    <3> QED BY <3>1, <3>2, <3>3, <3>4 DEF Init, CodecsInit, CodecsTypeOK
  <2>2. ResolverTypeOK
    <3>1. <<>> \in Seq(Server) /\ Len(<<>>) = 0 OBVIOUS
    <3>2. 0 <= MaxServers BY MaxServersAssumption
    <3> QED BY <3>1, <3>2 DEF Init, ResolverInit, ResolverTypeOK
  <2>3. pc \in DOMAIN After BY DEF Init, After
  <2>4. args \in 0..MaxArgs BY MaxArgsAssumption DEF Init
  <2> QED BY <2>1, <2>2, <2>3, <2>4 DEF Init, TypeOK, Requests
<1>2. DestInv BY DEF Init, DestInv
<1>3. DestIsChecked BY DEF Init, DestIsChecked
<1>4. ReadInv BY DEF Init, ResolverInit, ReadInv
<1>5. ServersAreAsAsked BY DEF Init, ServersAreAsAsked
<1> QED BY <1>1, <1>2, <1>3, <1>4, <1>5, InitCodecs DEF IInv

\* The steps that leave the codecs alone.
Elsewhere ==
    \/ Step \/ Fail \/ OptUser \/ OptNs \/ Inform \/ Finish
    \/ GetNsList \/ ReadServer \/ SetServers \/ Done \/ Command \/ UNCHANGED vars

LEMMA ElsewhereType == ASSUME TypeOK, Elsewhere PROVE TypeOK'
<1> USE DEF TypeOK
<1>1. CodecsTypeOK'
  <2>1. UNCHANGED codecs
    BY DEF Elsewhere, Step, Fail, OptUser, OptNs, Inform, Finish, GetNsList, ReadServer,
           SetServers, Done, Command, vars
  <2> QED BY <2>1 DEF codecs, CodecsTypeOK
<1>2. ResolverTypeOK'
  <2>1. CASE OptNs
    BY <2>1, ServersAssumption DEF OptNs, GiveServers, ResolverTypeOK
  <2>2. CASE GetNsList
    <3>1. source' = source \/ source' \in SystemServers \/ source' = <<>>
      BY <2>2 DEF GetNsList, OpenSource
    <3>2. <<>> \in Seq(Server) OBVIOUS
    <3>3. SystemServers \subseteq Seq(Server) BY ServersAssumption
    <3>4. source \in Seq(Server) BY DEF ResolverTypeOK
    <3>5. source' \in Seq(Server) BY <3>1, <3>2, <3>3, <3>4
    <3> QED BY <2>2, <3>5 DEF GetNsList, OpenSource, ResolverTypeOK
  <2>3. CASE ReadServer BY <2>3, ReadServerType DEF ReadServer
  <2>4. CASE UNCHANGED resolver BY <2>4 DEF resolver, ResolverTypeOK
  <2> QED BY <2>1, <2>2, <2>3, <2>4
      DEF Elsewhere, Step, Fail, OptUser, Inform, Finish, SetServers, Done, Command, vars
<1>3. pc' \in DOMAIN After \cup {"dispatch", "sending", "done", "failed", "crashed"}
  BY DEF Elsewhere, Step, Fail, OptUser, OptNs, Inform, Finish, PostParse, GetNsList, ReadServer,
         SetServers, Done, Command, vars, At, Advance, After
<1>4. args' \in 0..MaxArgs
  BY MaxArgsAssumption
  DEF Elsewhere, Step, Fail, OptUser, OptNs, Option, Arg, Inform, Finish, GetNsList, ReadServer,
      SetServers, Done, Command, vars, main
<1>5. cmd' \in Requests \cup {"help", "version", "unknown"} /\ dest' \in {"none", "good", "bad"}
  BY DEF Elsewhere, Step, Fail, OptUser, OptNs, Option, Arg, Inform, Finish, GetNsList,
         ReadServer, SetServers, Done, Command, vars, main
<1>6. user' \in BOOLEAN
  BY Zenon DEF Elsewhere, Step, Fail, OptUser, OptNs, Option, Arg, Inform, Finish, GetNsList,
         ReadServer, SetServers, Done, Command, vars, main
<1> QED BY <1>1, <1>2, <1>3, <1>4, <1>5, <1>6

\* The actions that parse a list or register codecs.
Parsing == OptCodec \/ CodecsEnd \/ \E t \in Tokens : CodecName(t)

LEMMA ParsingType == ASSUME TypeOK, ListInv, Parsing PROVE TypeOK'
<1> USE DEF TypeOK
<1>1. CodecsTypeOK'
  <2>1. CASE OptCodec
    BY <2>1, NumCodecsType DEF OptCodec, StartList, CodecsTypeOK
  <2>2. CASE CodecsEnd BY <2>2 DEF CodecsEnd, EndList, CodecsTypeOK
  <2>3. ASSUME NEW t \in Tokens, CodecName(t) PROVE CodecsTypeOK'
    <3>1. CASE NameCodec(t) BY <3>1, NameCodecInv
    <3>2. CASE NameAll(t)
      <4>1. asked' \in Seq(Tokens) BY <3>2 DEF NameAll, CodecsTypeOK
      <4>2. cnt' \in 0..NumCodecs BY <3>2, NumCodecsType DEF NameAll
      <4> QED BY <3>2, <4>1, <4>2 DEF NameAll, CodecsTypeOK
    <3>3. CASE UNCHANGED codecs BY <3>3 DEF codecs, CodecsTypeOK
    <3> QED BY <2>3, <3>1, <3>2, <3>3 DEF CodecName
  <2> QED BY <2>1, <2>2, <2>3 DEF Parsing
<1>2. ResolverTypeOK'
  <2>1. UNCHANGED resolver BY DEF Parsing, OptCodec, CodecsEnd, CodecName
  <2> QED BY <2>1 DEF resolver, ResolverTypeOK
<1>3. pc' \in {pc, "failed"} /\ cmd' = cmd /\ dest' = dest /\ user' = user
  BY DEF Parsing, OptCodec, CodecsEnd, CodecName, Option, Arg, main
<1>4. args' \in 0..MaxArgs
  BY MaxArgsAssumption DEF Parsing, OptCodec, CodecsEnd, CodecName, Option, Arg, main
<1> QED BY <1>1, <1>2, <1>3, <1>4

LEMMA RegisterType == ASSUME TypeOK, RegisterCodecs PROVE TypeOK'
<1>1. CodecsTypeOK'
  <2>1. CASE RegisterAll BY <2>1 DEF RegisterAll, TypeOK, CodecsTypeOK
  <2>2. CASE RegisterOne BY <2>2 DEF RegisterOne, TypeOK, CodecsTypeOK
  <2>3. CASE UNCHANGED codecs BY <2>3 DEF codecs, TypeOK, CodecsTypeOK
  <2> QED BY <2>1, <2>2, <2>3 DEF RegisterCodecs
<1>2. ResolverTypeOK'
  BY DEF RegisterCodecs, resolver, TypeOK, ResolverTypeOK
<1>3. pc' \in {pc, "rtp"} BY DEF RegisterCodecs, At, Advance, After
<1> QED BY <1>1, <1>2, <1>3 DEF RegisterCodecs, main, TypeOK, After

-----------------------------------------------------------------------------
(* What the steps do to the rest of the invariant.                         *)

LEMMA ElsewhereInv ==
    ASSUME IInv, Elsewhere
    PROVE  ListInv' /\ CountInv' /\ OfferInv' /\ DestInv' /\ DestIsChecked'
<1>1. UNCHANGED codecs
  BY DEF Elsewhere, Step, Fail, OptUser, OptNs, Inform, Finish, GetNsList, ReadServer,
         SetServers, Done, Command, vars
<1>2. ListInv' /\ CountInv' BY <1>1, ListsFrame DEF IInv, codecs
<1>3. OfferInv'
  <2>1. pc' = "sending" /\ cmd' = "invite" =>
            cmd = "invite" /\ pc \in {"sdp", "sending"}
    BY DEF Elsewhere, Step, Fail, OptUser, OptNs, Option, Arg, Inform, Finish, PostParse,
           GetNsList, ReadServer, SetServers, Done, Command, vars, main, At, Advance, After
  <2>2. pc' \in Registering => pc \in Registering
    BY DEF Elsewhere, Step, Fail, OptUser, OptNs, Option, Arg, Inform, Finish, PostParse,
           GetNsList, ReadServer, SetServers, Done, Command, vars, At, Advance, After, Registering
  <2>3. pc' \notin Registering \cup {"codecs", "sending", "failed"} =>
            pc \notin Registering \cup {"codecs", "sending", "failed"}
    BY DEF Elsewhere, Step, Fail, OptUser, OptNs, Option, Arg, Inform, Finish, PostParse,
           GetNsList, ReadServer, SetServers, Done, Command, vars, At, Advance, After, Registering
  <2>4. parsing => pc' \in {"options", "failed"}
    <3>1. parsing => pc \in {"options", "failed"} BY DEF IInv, OfferInv
    <3> QED
      BY <3>1
      DEF Elsewhere, Step, Fail, OptUser, OptNs, Option, Arg, Inform, Finish, PostParse,
          GetNsList, ReadServer, SetServers, Done, Command, vars, At, Advance, After
  <2>5. "sdp" \in Registering BY DEF Registering
  <2> QED BY <1>1, <2>1, <2>2, <2>3, <2>4, <2>5 DEF IInv, OfferInv, Offered, codecs
<1>4. DestInv'
  BY DEF IInv, DestInv, TypeOK, Elsewhere, Step, Fail, OptUser, OptNs, Option, Arg, Inform, Finish,
         PostParse, GetNsList, ReadServer, SetServers, Done, Command, vars, main, At, Advance,
         After, Requests
<1>5. DestIsChecked'
  BY DEF IInv, DestInv, DestIsChecked, TypeOK, Elsewhere, Step, Fail, OptUser, OptNs, Option, Arg,
         Inform, Finish, PostParse, GetNsList, ReadServer, SetServers, Done, Command, vars, main,
         At, Advance, After, Requests
<1> QED BY <1>2, <1>3, <1>4, <1>5

LEMMA ParsingInv ==
    ASSUME IInv, Parsing
    PROVE  ListInv' /\ CountInv' /\ OfferInv' /\ DestInv' /\ DestIsChecked'
<1>1. ListInv' /\ CountInv'
  <2>1. CASE OptCodec BY <2>1, StartListInv DEF OptCodec
  <2>2. CASE CodecsEnd BY <2>2, EndListInv DEF CodecsEnd, IInv
  <2>3. ASSUME NEW t \in Tokens, CodecName(t) PROVE ListInv' /\ CountInv'
    <3>1. CASE NameCodec(t) BY <3>1, NameCodecInv DEF IInv
    <3>2. CASE NameAll(t) BY <3>2, NameAllInv DEF IInv
    <3>3. CASE UNCHANGED codecs BY <3>3, ListsFrame DEF IInv, codecs
    <3> QED BY <2>3, <3>1, <3>2, <3>3 DEF CodecName
  <2> QED BY <2>1, <2>2, <2>3 DEF Parsing
<1>2. pc = "options" /\ pc' \in {pc, "failed"} /\ cmd' = cmd /\ dest' = dest /\ user' = user
  BY DEF Parsing, OptCodec, CodecsEnd, CodecName, Option, Arg, main, At
<1>3. offer' = offer /\ every' = every
  BY DEF Parsing, OptCodec, CodecsEnd, CodecName, StartList, EndList, NameCodec, NameAll, codecs
<1>4. offer = <<>> /\ ~every BY <1>2 DEF IInv, OfferInv, Registering
<1>5. OfferInv' BY <1>2, <1>3, <1>4 DEF OfferInv, Registering
<1> QED BY <1>1, <1>2, <1>5 DEF IInv, DestInv, DestIsChecked

LEMMA RegisterInv ==
    ASSUME IInv, RegisterCodecs
    PROVE  ListInv' /\ CountInv' /\ OfferInv' /\ DestInv' /\ DestIsChecked'
<1>1. UNCHANGED <<cnt, codec, found, parsing, asked>>
  BY DEF RegisterCodecs, RegisterAll, RegisterOne, codecs
<1>2. ListInv' /\ CountInv' BY <1>1, ListsFrame DEF IInv
<1>3. pc = "codecs" /\ pc' \in {pc, "rtp"} /\ UNCHANGED <<cmd, dest, user>>
  BY DEF RegisterCodecs, At, Advance, After, main
<1>4. OfferInv'
  <2>1. ~parsing BY <1>3 DEF IInv, OfferInv
  <2>2. CASE RegisterAll
    BY <2>1, <2>2, <1>1, <1>3 DEF RegisterCodecs, RegisterAll, IInv, OfferInv, Registering, At,
                                   Offered, Advance, After, codecs
  <2>3. CASE RegisterOne
    <3>1. offer \in Seq(Supported) BY DEF IInv, TypeOK, CodecsTypeOK
    <3>2. offer' = Append(offer, codec[Len(offer) + 1]) /\ every' = every /\ cnt # NumCodecs
          /\ codec[Len(offer) + 1] \in Supported
      BY <2>3 DEF RegisterOne
    <3>3. \A k \in 1..Len(offer) : offer[k] = codec[k] BY DEF IInv, OfferInv
    <3>4. \A k \in 1..Len(offer') : offer'[k] = codec[k] BY <3>1, <3>2, <3>3
    <3>5. ~every BY <3>2 DEF IInv, OfferInv
    <3>6. pc' = pc BY <2>3, <3>1, <3>2 DEF RegisterCodecs, codecs
    <3> QED BY <2>1, <1>1, <1>3, <3>2, <3>4, <3>5, <3>6 DEF OfferInv, Registering
  <2>4. CASE Offered /\ UNCHANGED codecs
    BY <2>1, <2>4, <1>1, <1>3 DEF IInv, OfferInv, Registering, Offered, codecs
  <2> QED BY <2>2, <2>3, <2>4 DEF RegisterCodecs
<1> QED BY <1>2, <1>3, <1>4 DEF IInv, DestInv, DestIsChecked

\* The list of servers is opened when none is kept, and read to its end before main
\* goes on.
LEMMA NextServers ==
    ASSUME IInv, Elsewhere \/ Parsing \/ RegisterCodecs
    PROVE  ReadInv' /\ ServersAreAsAsked'
<1>1. ReadInv /\ ServersAreAsAsked /\ ResolverTypeOK BY DEF IInv, TypeOK
<1>2. CASE OptNs
  <2>1. pc = "options" /\ pc' = pc /\ servers' = servers
    BY <1>2 DEF OptNs, Option, Arg, At, GiveServers
  <2> QED BY <2>1, <1>1 DEF ReadInv, ServersAreAsAsked, Before
<1>3. CASE GetNsList
  <2>1. pc = "ns_list" /\ pc' = "resolver" /\ servers' = servers /\ rest' = source'
    BY <1>3 DEF GetNsList, OpenSource, At, Advance, After
  <2>2. servers' = <<>> BY <2>1, <1>1 DEF ReadInv, Before
  <2>3. source' \in Seq(Server)
    <3>1. source' = source \/ source' \in SystemServers \/ source' = <<>>
      BY <1>3 DEF GetNsList, OpenSource
    <3>2. <<>> \in Seq(Server) OBVIOUS
    <3>3. SystemServers \subseteq Seq(Server) BY ServersAssumption
    <3>4. source \in Seq(Server) BY <1>1 DEF ResolverTypeOK
    <3> QED BY <3>1, <3>2, <3>3, <3>4
  <2>4. Len(source') \in Nat /\ Read' = 0 BY <2>1, <2>3 DEF Read
  <2>5. Keeps(0)'
    <3>1. Wanted(0)' = {} BY DEF Wanted
    <3>2. Place(0)' = 0 BY <3>1, FS_EmptySet DEF Place
    <3>3. Len(servers') = 0 /\ 0 < MaxServers BY <2>2, MaxServersAssumption
    <3> QED BY <3>1, <3>2, <3>3 DEF Keeps
  <2>6. Keeps(Read)' BY <2>4, <2>5 DEF Keeps, Wanted, Place, KeptAs
  <2>7. \A k \in 1..Len(rest') : rest'[k] = source'[Read' + k] BY <2>1, <2>4
  <2> QED BY <2>1, <2>4, <2>6, <2>7 DEF ReadInv, ServersAreAsAsked, Before
<1>4. CASE ReadServer
  <2>1. pc = "resolver" /\ pc' = pc BY <1>4 DEF ReadServer, At
  <2> QED BY <2>1, <1>1, <1>4, ReadServerInv DEF ReadServer, ReadInv, ServersAreAsAsked, Before
<1>5. CASE SetServers
  <2>1. pc = "resolver" /\ pc' = (IF servers = <<>> THEN "failed" ELSE "mangler")
    BY <1>5 DEF SetServers, At, After
  <2>2. UNCHANGED <<given, source, rest, servers>> /\ AllRead BY <1>5 DEF SetServers, resolver
  <2>3. Keeps(Len(source)) BY <2>1, <2>2, <1>1, AllReadKeeps
  <2>4. Keeps(Len(source))' BY <2>2, <2>3 DEF Keeps, Wanted, Place, KeptAs
  <2> QED BY <2>1, <2>2, <2>4 DEF ReadInv, ServersAreAsAsked, Before
<1>6. CASE ~(OptNs \/ GetNsList \/ ReadServer \/ SetServers)
  <2>1. UNCHANGED resolver
    BY <1>6 DEF Elsewhere, Step, Fail, OptUser, Inform, Finish, Done, Command, vars,
                Parsing, OptCodec, CodecsEnd, CodecName, RegisterCodecs
  <2>2. /\ pc' \in Before => pc \in Before
        /\ pc' = "resolver" => pc = "resolver"
        /\ pc' \in Beyond => pc \in Beyond
    <3>1. CASE Elsewhere
      BY <1>6, <3>1
      DEF Elsewhere, Step, Fail, OptUser, Option, Arg, Inform, Finish, PostParse, Done, Command,
          vars, At, Advance, After, Before, Beyond
    <3>2. CASE Parsing
      <4>1. pc = "options" /\ pc' \in {"options", "failed"}
        BY <3>2 DEF Parsing, OptCodec, CodecsEnd, CodecName, Option, Arg, At
      <4> QED BY <4>1 DEF Before, Beyond
    <3>3. CASE RegisterCodecs
      <4>1. pc = "codecs" /\ pc' \in {"codecs", "rtp"}
        BY <3>3 DEF RegisterCodecs, At, Advance, After
      <4> QED BY <4>1 DEF Before, Beyond
    <3> QED BY <3>1, <3>2, <3>3
  <2> QED BY <2>1, <2>2, <1>1, ServersFrame
<1> QED BY <1>2, <1>3, <1>4, <1>5, <1>6

LEMMA NextIInv == IInv /\ [Next]_vars => IInv'
<1> SUFFICES ASSUME IInv, [Next]_vars PROVE IInv' OBVIOUS
<1>1. CASE Elsewhere BY <1>1, ElsewhereType, ElsewhereInv, NextServers DEF IInv
<1>2. CASE Parsing BY <1>2, ParsingType, ParsingInv, NextServers DEF IInv
<1>3. CASE RegisterCodecs BY <1>3, RegisterType, RegisterInv, NextServers DEF IInv
<1> QED BY <1>1, <1>2, <1>3 DEF Next, Elsewhere, Parsing

LEMMA Invariance == Spec => []IInv
BY InitIInv, NextIInv, PTL DEF Spec

-----------------------------------------------------------------------------
(* The theorems.                                                           *)

\* main, the command line, the codecs and the name servers stay within their types:
\* the array of codecs and those of the servers never overflow.
THEOREM TypeCorrect == Spec => []TypeOK
<1>1. IInv => TypeOK BY DEF IInv
<1> QED BY <1>1, Invariance, PTL

\* An INVITE offers what the last list asked for (media_helper.c).
THEOREM OfferIsAsked == Spec => []OfferIsWhatWasAsked
<1>1. IInv => OfferIsWhatWasAsked
  <2> SUFFICES ASSUME IInv, pc = "sending", cmd = "invite"
               PROVE  /\ every <=> AllAsked
                      /\ ~every =>
                             /\ ListsOnce(offer, AsRead(asked))
                             /\ \A k \in DOMAIN asked :
                                    asked[k] \in CodecSet /\ ~Hidden(asked[k]) =>
                                        \E a \in DOMAIN offer : offer[a] = asked[k]
    BY DEF OfferIsWhatWasAsked, AllAsked
  <2>1. ~parsing /\ Offered /\ (every => cnt = NumCodecs)
        /\ \A k \in 1..Len(offer) : offer[k] = codec[k]
    BY DEF IInv, OfferInv
  <2>2. IF AllAsked THEN cnt = NumCodecs
        ELSE cnt < NumCodecs /\ ListsOnce(Chosen(codec, cnt), AsRead(asked))
    BY <2>1 DEF IInv, CountInv
  <2>3. every <=> AllAsked
    <3>1. AllAsked => every BY <2>1, <2>2 DEF Offered
    <3>2. cnt \in Nat BY NumCodecsType DEF IInv, TypeOK, CodecsTypeOK
    <3>3. every => AllAsked BY <2>1, <2>2, <3>2, NumCodecsType
    <3> QED BY <3>1, <3>3
  <2>4. ASSUME ~every PROVE ListsOnce(offer, AsRead(asked))
    <3>1. offer \in Seq(Supported) BY DEF IInv, TypeOK, CodecsTypeOK
    <3>2. Len(offer) = cnt BY <2>1, <2>4 DEF Offered
    <3>3. offer = [k \in 1..cnt |-> codec[k]] BY <2>1, <3>1, <3>2
    <3>4. offer = Chosen(codec, cnt) BY <3>3 DEF Chosen
    <3> QED BY <3>4, <2>2, <2>3, <2>4
  <2>5. ASSUME ~every, NEW k \in DOMAIN asked, asked[k] \in CodecSet, ~Hidden(asked[k])
        PROVE  \E a \in DOMAIN offer : offer[a] = asked[k]
    <3> DEFINE l == AsRead(asked)
    <3>1. asked \in Seq(Tokens) BY DEF IInv, TypeOK, CodecsTypeOK
    <3>2. asked[k] \in CodecSet \cap Tokens /\ k \in DOMAIN l /\ l[k] = CodecStrParse(asked[k])
      BY <3>1, <2>5, AsReadType
    <3>3. l[k] = asked[k] BY <3>2, <2>5, UnhiddenName
    <3>4. {offer[a] : a \in DOMAIN offer} = {l[i] : i \in DOMAIN l} BY <2>4, <2>5 DEF ListsOnce
    <3> HIDE DEF l
    <3>5. asked[k] \in {l[i] : i \in DOMAIN l} BY <3>2, <3>3
    <3> QED BY <3>4, <3>5
  <2> QED BY <2>3, <2>4, <2>5
<1> QED BY <1>1, Invariance, PTL

\* What main and post_parse_setup make of a destination that is no URI.
THEOREM DestinationIsChecked == Spec => []DestIsChecked
<1>1. IInv => DestIsChecked BY DEF IInv
<1> QED BY <1>1, Invariance, PTL

\* The name servers that main sets are those asked for, whatever --ns gives and the
\* system has (sippak_get_ns_list, sippak_set_resolver_ns).
THEOREM ServersAreRight == Spec => []ServersAreAsAsked
<1>1. IInv => ServersAreAsAsked BY DEF IInv
<1> QED BY <1>1, Invariance, PTL

=============================================================================
