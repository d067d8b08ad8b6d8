------------------------------- MODULE Listen -------------------------------
(***************************************************************************)
(* The addresses a server listens on: resolveListenAddrs of conn.go turns  *)
(* what the user bound, addresses and %interface patterns, into a list     *)
(* without duplicates, one listener each, or an error.                     *)
(*                                                                         *)
(* An IP is a number in the order of its 16 bytes; a zone is the index of  *)
(* an interface, 0 for none.  A bound address is [iface, port], with the   *)
(* interfaces its pattern matches, or [ip, port], with the IPs its host    *)
(* resolves to; AnyHost when the host is empty, NoPort when it has none.   *)
(***************************************************************************)
EXTENDS Integers, Sequences, FiniteSets
SX == INSTANCE SequencesExt

CONSTANTS
    Ifaces,              \* the host's interfaces: [up, ips] records in order
    IPv4s, IPv6s,        \* the IPs there are, by version
    ZeroIP4, ZeroIP6,    \* the unspecified ones
    LinkLocal,           \* the link-local ones
    AnyHost, NoPort, DefaultPort

ASSUME ListenAssumption ==
    /\ IPv4s \cup IPv6s \subseteq Nat /\ IPv4s \cap IPv6s = {}
    /\ ZeroIP4 \in IPv4s /\ ZeroIP6 \in IPv6s
    /\ LinkLocal \subseteq IPv6s /\ DefaultPort \in Nat
    /\ DOMAIN Ifaces = 1..Len(Ifaces) /\ Len(Ifaces) \in Nat
    /\ \A i \in DOMAIN Ifaces : Ifaces[i].up \in BOOLEAN /\ Ifaces[i].ips \in Seq(IPv4s \cup IPv6s)

IPs(ipVer) == (IF 4 \in ipVer THEN IPv4s ELSE {}) \cup (IF 6 \in ipVer THEN IPv6s ELSE {})
Unspecified(ip) == ip \in {ZeroIP4, ZeroIP6}
\* What the user can bind.
Bound == [iface : SUBSET DOMAIN Ifaces, port : Nat \cup {NoPort}]
           \cup [ip : IPv4s \cup IPv6s \cup {AnyHost}, port : Nat \cup {NoPort}]
PortOf(b) == IF b.port = NoPort THEN DefaultPort ELSE b.port

\* resolveIfaceListenAddr: the addresses of the interfaces that are up; every
\* IP of an interface here is one that can be listened on.
IfaceAddrs(b, ipVer) ==
    SX!FlattenSeq([i \in DOMAIN Ifaces |->
        SX!FlattenSeq([k \in DOMAIN Ifaces[i].ips |->
            LET ip == Ifaces[i].ips[k]
            IN  IF i \in b.iface /\ Ifaces[i].up /\ ip \in IPs(ipVer)
                THEN <<[ip |-> ip, port |-> PortOf(b), zone |-> IF ip \in LinkLocal THEN i ELSE 0]>>
                ELSE << >>])])
IfaceError(b) ==
    IF b.iface = {} THEN "NoMatchingInterfaces"
    ELSE IF \A i \in b.iface : ~Ifaces[i].up THEN "NoMatchingInterfacesUp" ELSE "none"

\* resolveListenAddr: once for each version, IPv4 first; a version the host
\* does not resolve in is left out.
HostAddrs(b, ipVer) ==
    SX!FlattenSeq([k \in 1..2 |->
        LET v == <<4, 6>>[k]
            ip == IF b.ip # AnyHost THEN b.ip ELSE IF v = 4 THEN ZeroIP4 ELSE ZeroIP6
        IN  IF v \in ipVer /\ ip \in IPs({v})
            THEN <<[ip |-> ip, port |-> PortOf(b), zone |-> 0]>> ELSE << >>])
BoundAddrs(b, ipVer) == IF "iface" \in DOMAIN b THEN IfaceAddrs(b, ipVer) ELSE HostAddrs(b, ipVer)

\* The comparison given to sort.Slice: not an order, as each test looks at one
\* part whatever the parts before it are.
Less(a, b) == a.ip < b.ip \/ a.port < b.port \/ a.zone < b.zone

\* sort.Slice of at most 12 elements: insertion sort.
Insert(s, a) ==
    LET k == CHOOSE k \in 1..(Len(s) + 1) :
               /\ \A j \in k..Len(s) : Less(a, s[j])
               /\ k = 1 \/ ~Less(a, s[k - 1])
    IN  SX!InsertAt(s, k, a)
Sorted(s) ==
    LET sorted[n \in 0..Len(s)] == IF n = 0 THEN << >> ELSE Insert(sorted[n - 1], s[n])
    IN  sorted[Len(s)]

\* Mutant of Distinct: the element after a removed one is not compared.
DistinctOnce(s) ==
    LET kept[n \in 0..Len(s)] ==
          IF n = 0 THEN << >>
          ELSE IF n > 1 /\ s[n] = s[n - 1] /\ (n = 2 \/ s[n - 1] # s[n - 2]) THEN kept[n - 1]
          ELSE Append(kept[n - 1], s[n])
    IN  kept[Len(s)]

\* The loop that removes what equals the element before it.
Distinct(s) ==
    LET kept[n \in 0..Len(s)] ==
          IF n = 0 THEN << >>
          ELSE LET t == kept[n - 1]
               IN  IF t # << >> /\ t[Len(t)] = s[n] THEN t ELSE Append(t, s[n])
    IN  kept[Len(s)]

Mixed(s) == \E a, b \in SX!ToSet(s) :
              a.port = b.port /\ Unspecified(a.ip) /\ ~Unspecified(b.ip)

\* resolveListenAddrs, and the check of listenAll that there is an address
Resolved(bound, ipVer) ==
    Distinct(Sorted(SX!FlattenSeq([i \in DOMAIN bound |-> BoundAddrs(bound[i], ipVer)])))
ListenError(bound, ipVer) ==
    LET failed == {i \in DOMAIN bound : "iface" \in DOMAIN bound[i] /\ IfaceError(bound[i]) # "none"}
    IN  IF failed # {} THEN IfaceError(bound[CHOOSE i \in failed : \A j \in failed : i <= j])
        ELSE IF Mixed(Resolved(bound, ipVer)) THEN "UnspecifiedWithSpecifiedAddresses"
        ELSE IF Resolved(bound, ipVer) = << >> THEN "NoSuitableAddressFound" ELSE "none"
=============================================================================
