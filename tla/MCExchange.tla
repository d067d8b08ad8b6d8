---------------------------- MODULE MCExchange ----------------------------
(***************************************************************************)
(* The scenarios of Exchange.tla for TLC: the defaults of client and       *)
(* server, and families of settings that vary together.                    *)
(***************************************************************************)
EXTENDS Exchange, TLC

Str(c, n) == [i \in 1..n |-> c]
Rand == <<"r", "a", "n", "d">>
NoFill == <<"n", "o", "n", "e">>
Pattern == <<"p", "a", "t", "t", "e", "r", "n", ":">> \o Str("6", 8)

MCParams == [ProtocolVersion |-> 1, Duration |-> 600, Interval |-> 1, IntervalOffset |-> -10,
             Length |-> 0, ReceivedStats |-> {"count", "window"}, StampAt |-> {"receive", "send"},
             TripMode |-> "round", Multiply |-> 1, Group |-> Str("g", 7),
             Clock |-> BothClocks, DSCP |-> 0, ServerFill |-> << >>]
MCClient == [params |-> MCParams, loose |-> TRUE, key |-> NoKey, filler |-> << >>]
MCServer == [MinInterval |-> 0, MaxDuration |-> 0, Timeout |-> 600, MaxLength |-> 0,
             AllowStamp |-> "dual", AllowDSCP |-> TRUE, AllowFills |-> {Rand},
             DefaultFill |-> Pattern, Filler |-> Pattern, NoFill |-> NoFill,
             Fills |-> {Rand, NoFill, Pattern}, MTU |-> 128, key |-> NoKey]

\* Two interfaces that are up, one of them with two addresses of IPv4, and
\* both with the same link-local one.
MCIfaces == << [up |-> TRUE, ips |-> <<12, 1, 20>>], [up |-> TRUE, ips |-> <<11, 13, 20>>],
               [up |-> FALSE, ips |-> <<14>>] >>
MCDefault == [client |-> MCClient, server |-> MCServer, bound |-> <<[ip |-> AnyHost, port |-> 2]>>,
              ipVer |-> {4, 6}, SetSrcIP |-> TRUE, target |-> [ip |-> 12, port |-> 2], delay |-> {1}]

With(ps) == [MCDefault EXCEPT !.client.params = ps]
Keyed(s, ck, sk) == [s EXCEPT !.client.key = ck, !.server.key = sk]

\* Stamps, clocks, stats, trips and lengths, with and without HMAC.
MCStamps == {{}, {"send"}, {"receive"}, {"send", "receive"}, {"midpoint"}}
MCClocks == {{"wall"}, {"mono"}, BothClocks}
Delayed(s) == [s EXCEPT !.delay = {0, 2}]
MCMeasured ==
    {Delayed(With([MCParams EXCEPT !.StampAt = at, !.Clock = c, !.Length = 120])) :
       at \in MCStamps, c \in MCClocks}
    \cup
    {With([MCParams EXCEPT !.StampAt = at, !.Clock = c, !.ReceivedStats = rs, !.TripMode = trip,
                           !.Length = 120]) :
       at \in MCStamps, c \in MCClocks, rs \in SUBSET {"count", "window"}, trip \in {"round", "oneway"}}
    \cup
    {Keyed(With([MCParams EXCEPT !.StampAt = at, !.TripMode = trip, !.Length = l]), "k1", "k1") :
       at \in MCStamps, trip \in {"round", "oneway"}, l \in {0, 100}}

\* What the client asks for against what the server allows.
MCRestricted ==
    {[With([MCParams EXCEPT !.Duration = d, !.Interval = i]) EXCEPT
        !.client.loose = loose, !.server.MaxDuration = md, !.server.MinInterval = mi,
        !.server.Timeout = to] :
       d \in {100, 600}, i \in {1, 10, 200}, loose \in BOOLEAN,
       md \in {0, 300}, mi \in {0, 5}, to \in {0, 36, 40}}
    \cup
    {[With([MCParams EXCEPT !.StampAt = at]) EXCEPT !.client.loose = loose, !.server.AllowStamp = a] :
       at \in MCStamps, loose \in BOOLEAN, a \in {"none", "single", "dual"}}
    \cup
    {[With([MCParams EXCEPT !.DSCP = dscp, !.Length = l]) EXCEPT
        !.client.loose = loose, !.server.AllowDSCP = ad, !.server.MaxLength = ml] :
       dscp \in {0, 10}, l \in {0, 70, 100}, loose \in BOOLEAN, ad \in BOOLEAN, ml \in {0, 20, 70}}

\* Fills against the patterns allowed.
MCPatterns == UNION {[1..n -> {"a", "b", "*"}] : n \in 0..3}
MCFillNames == {<<"a">>, <<"b">>, <<"a", "a">>, <<"a", "b">>, <<"a", "b", "a">>}
MCFills ==
    {[With([MCParams EXCEPT !.ServerFill = f]) EXCEPT
        !.server.AllowFills = {p}, !.server.Fills = @ \cup MCFillNames] :
       f \in MCFillNames, p \in MCPatterns}
    \cup
    {[With([MCParams EXCEPT !.ServerFill = f]) EXCEPT
        !.server.AllowFills = ps, !.server.Filler = filler, !.client.filler = cf] :
       f \in {<< >>, Rand, NoFill, Pattern}, ps \in SUBSET {Rand, NoFill},
       filler \in {Rand, Pattern}, cf \in {<< >>, Rand}}

\* Parameters up to their limits, and HMAC keys that differ.
MCSized ==
    {Keyed(With([MCParams EXCEPT !.Group = Str("g", g), !.ServerFill = Str("r", f),
                                 !.Length = l]), ck, sk) :
       g \in {7, 24}, f \in {0, 4, 32}, l \in {0, 140},
       ck \in {NoKey, "k1", "k2"}, sk \in {NoKey, "k1"}}

\* Addresses: one to three bound, of every kind.
MCBound == {[ip |-> AnyHost, port |-> NoPort], [ip |-> 12, port |-> 2], [ip |-> 12, port |-> 3],
            [ip |-> 11, port |-> 2], [ip |-> 20, port |-> 3], [iface |-> {1, 2, 3}, port |-> 2],
            [iface |-> {2}, port |-> NoPort], [iface |-> {3}, port |-> 2], [iface |-> {}, port |-> 2]}
MCAddressed ==
    {[MCDefault EXCEPT !.bound = <<b>>, !.ipVer = v, !.SetSrcIP = src, !.target = t] :
       b \in MCBound, v \in {{4}, {6}, {4, 6}}, src \in BOOLEAN,
       t \in {[ip |-> 12, port |-> 2], [ip |-> 20, port |-> 2]}}
    \cup
    {[MCDefault EXCEPT !.bound = b] :
       b \in UNION {[1..n -> {x \in MCBound : "ip" \in DOMAIN x \/ 2 \in x.iface}] : n \in 2..3}}

MCScenario == MCMeasured \cup MCRestricted \cup MCFills \cup MCSized \cup MCAddressed
=============================================================================
