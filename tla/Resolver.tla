------------------------------ MODULE Resolver ------------------------------
(***************************************************************************)
(* The name servers of dns.c: those given with --ns, or else the system's, *)
(* read one by one into arrays of MAX_NS_COUNT addresses and ports.        *)
(***************************************************************************)
EXTENDS Naturals, Sequences, FiniteSets

CONSTANTS
    MaxServers,     \* MAX_NS_COUNT
    PortRange,      \* values of an unsigned short: 65536 in the code
    NsStrings,      \* what --ns may give; a port that is missing or no number is 0
    SystemServers   \* what res_init may find

Server == [ip : STRING, port : Nat, v4 : BOOLEAN]

ASSUME MaxServersAssumption == MaxServers \in Nat \ {0}
ASSUME PortRangeAssumption == PortRange \in Nat /\ PortRange > 53
ASSUME ServersAssumption == NsStrings \cup SystemServers \subseteq Seq(Server)

VARIABLES
    given,      \* app.cfg.nameservers is not NULL
    source,     \* that string, or the list of the system
    rest,       \* the part of source still to be read
    servers     \* the addresses and ports kept

resolver == <<given, source, rest, servers>>

ResolverInit ==
    /\ given = FALSE
    /\ source = <<>>
    /\ rest = <<>>
    /\ servers = <<>>

\* --ns
GiveServers ==
    /\ given' = TRUE
    /\ source' \in NsStrings
    /\ UNCHANGED <<rest, servers>>

\* sippak_get_ns_list: where the servers come from.  res_init may fail.
OpenSource ==
    /\ IF given THEN UNCHANGED source ELSE source' \in SystemServers \cup {<<>>}
    /\ rest' = source'
    /\ UNCHANGED <<given, servers>>

\* Mutant: keeps a port that is missing.
MutGetPort(port) == port % PortRange

\* get_port, and the assignment of an int to an unsigned short.
GetPort(port) == (IF port = 0 THEN 53 ELSE port) % PortRange

Keep(server, port) == servers' = Append(servers, [server EXCEPT !.port = port])

\* Mutant: off by one at the limit.
MutReadGiven ==
    /\ given
    /\ rest # <<>>
    /\ IF Len(servers) > MaxServers THEN UNCHANGED servers
       ELSE Keep(Head(rest), GetPort(Head(rest).port))
    /\ rest' = Tail(rest)
    /\ UNCHANGED <<given, source>>

\* parse_nameservers_string skips the servers it has no room for.
ReadGiven ==
    /\ given
    /\ rest # <<>>
    /\ IF Len(servers) >= MaxServers THEN UNCHANGED servers
       ELSE Keep(Head(rest), GetPort(Head(rest).port))
    /\ rest' = Tail(rest)
    /\ UNCHANGED <<given, source>>

\* The system's list is read until as many servers are kept as there are, or fit.
SystemDone == Len(servers) = MaxServers \/ Len(servers) = Len(source) \/ rest = <<>>

\* system_resolv_ns skips what is not IPv4.
ReadSystem ==
    /\ ~given
    /\ ~SystemDone
    /\ IF Head(rest).v4 THEN Keep(Head(rest), Head(rest).port) ELSE UNCHANGED servers
    /\ rest' = Tail(rest)
    /\ UNCHANGED <<given, source>>

AllRead == IF given THEN rest = <<>> ELSE SystemDone

-----------------------------------------------------------------------------
(* What is asked of the list of servers.                                   *)

\* The servers to be kept if there is room, the first n of source considered, and the
\* place of each among them.
Wanted(n) == {i \in 1..n : i \in DOMAIN source /\ (given \/ source[i].v4)}
Place(i)  == Cardinality(Wanted(i))

\* The server as it was asked for: a port that is one is kept, and the user need not
\* give one.
KeptAs(server, s) ==
    /\ server.ip = s.ip
    /\ s.port \in 1..(PortRange - 1) => server.port = s.port
    /\ given /\ s.port = 0 => server.port = 53

\* As many of the servers wanted among the first n as there is room for, in their order.
Keeps(n) ==
    /\ Len(servers) = IF Place(n) < MaxServers THEN Place(n) ELSE MaxServers
    /\ \A i \in Wanted(n) : Place(i) <= MaxServers => KeptAs(servers[Place(i)], source[i])

ResolverTypeOK ==
    /\ given \in BOOLEAN
    /\ source \in Seq(Server)
    /\ rest \in Seq(Server)
    /\ servers \in Seq(Server) /\ Len(servers) <= MaxServers

=============================================================================
