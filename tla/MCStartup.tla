------------------------------ MODULE MCStartup ------------------------------
(***************************************************************************)
(* The instance of Startup that TLC checks: five codecs, one of them       *)
(* hidden behind another and one that is not built in.                     *)
(***************************************************************************)
EXTENDS Startup

MCOrder     == <<"g711", "g722", "ipp", "g722.1", "silk">>
MCSupported == {"g711", "g722", "g722.1", "silk"}
MCTokens    == {"g711", "g722", "g722.1", "ipp", "silk", "all", "foo"}

MCPrefixes ==
    [t \in MCTokens |-> CASE t = "g722.1" -> {"g722", "g722.1"}
                          [] t = "foo" -> {}
                          [] OTHER -> {t}]

A(p) == [ip |-> "a", port |-> p, v4 |-> TRUE]
B(p) == [ip |-> "b", port |-> p, v4 |-> TRUE]
C    == [ip |-> "c", port |-> 53, v4 |-> FALSE]

MCNsStrings == {<<>>, <<A(0)>>, <<B(553), A(65536)>>, <<A(53), B(0), B(65535), A(1)>>}
MCSystemServers == {<<C>>, <<A(53), B(53)>>, <<C, A(53), C>>, <<C, A(53), B(53), A(53), B(53)>>}

=============================================================================
