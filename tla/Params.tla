------------------------------- MODULE Params -------------------------------
(***************************************************************************)
(* What the client asks for and the server allows: the encoding of the     *)
(* test parameters (params.go), the restrictions of the server (sconn.go,  *)
(* glob.go, filler.go) and what the client accepts of them (client.go).    *)
(*                                                                         *)
(* A duration is a number of 100 ms.  A string is the sequence of its      *)
(* characters.  A byte of an encoded parameter is <<"param", id, value, n, *)
(* k>>, the k-th of its n bytes; the decoder reads a parameter whose bytes *)
(* are all there and fails on a part of one.                               *)
(***************************************************************************)
EXTENDS Integers, Sequences
SE == INSTANCE SequencesExt

ProtocolVersion == 1
maxIntervalTimeoutFactor == 4
minRestrictedInterval == 10
maxGroupLen == 24
maxServerFillLen == 32

\* A string that readString takes.
Named(s, n) == s \in Seq(STRING) /\ Len(s) <= n

-----------------------------------------------------------------------------
(* Encoding: a parameter is a byte for its type and then its value.        *)

Abs(v) == IF v < 0 THEN -v ELSE v
\* PutVarint of a number and of v times 100 ms, seven bits to a byte, and
\* putString of a string that is not too long for it
IntLen(v) == IF Abs(v) < 64 THEN 1 ELSE IF Abs(v) < 8192 THEN 2 ELSE IF Abs(v) < 1048576 THEN 3 ELSE 4
DurLen(v) == IF Abs(v) < 2 THEN 4 ELSE IF Abs(v) < 172 THEN 5 ELSE IF Abs(v) < 21991 THEN 6
             ELSE IF Abs(v) < 2814750 THEN 7 ELSE 8
StrLen(v) == 1 + Len(v)

\* In the order of bytes: the parameter, its zero value, the bytes of its value.
Encoding(p) == <<
    <<"ProtocolVersion", 0, IntLen(p.ProtocolVersion)>>, <<"Duration", 0, DurLen(p.Duration)>>,
    <<"Interval", 0, DurLen(p.Interval)>>, <<"IntervalOffset", 0, DurLen(p.IntervalOffset)>>,
    <<"Length", 0, IntLen(p.Length)>>, <<"ReceivedStats", {}, 1>>, <<"StampAt", {}, 1>>,
    <<"TripMode", "round", 1>>, <<"Multiply", 0, IntLen(p.Multiply)>>,
    <<"Group", << >>, StrLen(p.Group)>>, <<"Clock", {}, 1>>,
    <<"DSCP", 0, IntLen(p.DSCP)>>, <<"ServerFill", << >>, StrLen(p.ServerFill)>> >>

NoParams == [ProtocolVersion |-> 0, Duration |-> 0, Interval |-> 0, IntervalOffset |-> 0,
             Length |-> 0, ReceivedStats |-> {}, StampAt |-> {}, TripMode |-> "round",
             Multiply |-> 0, Group |-> << >>, Clock |-> {}, DSCP |-> 0, ServerFill |-> << >>]

\* Mutant of paramBytes: a parameter is left out that the others follow from.
paramBytesNoClock(p) ==
    SE!FlattenSeq([i \in 1..13 |->
        LET e == Encoding(p)[i]
        IN  IF p[e[1]] = e[2] \/ e[1] = "Clock" THEN << >>
            ELSE [k \in 1..(1 + e[3]) |-> <<"param", e[1], p[e[1]], 1 + e[3], k>>]])

\* bytes: a parameter that has its zero value is left out.
paramBytes(p) ==
    SE!FlattenSeq([i \in 1..13 |->
        LET e == Encoding(p)[i]
        IN  IF p[e[1]] = e[2] THEN << >>
            ELSE [k \in 1..(1 + e[3]) |-> <<"param", e[1], p[e[1]], 1 + e[3], k>>]])

\* Whether parseParams reads b to its end without an error.
parses(b) ==
    /\ \A i \in DOMAIN b :
         /\ b[i][1] = "param"
         /\ b[i][5] # 1 => i > 1 /\ b[i - 1] = <<"param", b[i][2], b[i][3], b[i][4], b[i][5] - 1>>
         /\ b[i][5] = 1 => i = 1 \/ b[i - 1][5] = b[i - 1][4]
    /\ b = << >> \/ b[Len(b)][5] = b[Len(b)][4]
parseParams(b) ==
    [id \in DOMAIN NoParams |->
       LET at == {i \in DOMAIN b : b[i][2] = id}
       IN  IF at = {} THEN NoParams[id] ELSE b[CHOOSE i \in at : TRUE][3]]

-----------------------------------------------------------------------------
(* glob of glob.go                                                         *)

\* strings.Index, 0-based; -1 when sub does not occur
Index(subj, sub) ==
    LET at == {i \in 0..(Len(subj) - Len(sub)) : SubSeq(subj, i + 1, i + Len(sub)) = sub}
    IN  IF at = {} THEN -1 ELSE CHOOSE i \in at : \A j \in at : i <= j

\* strings.Split of a pattern at its stars: part of the last part or a new one
Parts(pattern) ==
    LET parts[n \in 0..Len(pattern)] ==
          IF n = 0 THEN << << >> >>
          ELSE IF pattern[n] = "*" THEN Append(parts[n - 1], << >>)
          ELSE LET m == Len(parts[n - 1])
               IN  [parts[n - 1] EXCEPT ![m] = Append(@, pattern[n])]
    IN  parts[Len(pattern)]

NoMatch == <<"no match">>

\* Mutant of Consume: the first part may come after the start of the subject.
ConsumeAnywhere(subj, part, first) ==
    IF subj = NoMatch \/ Index(subj, part) < 0 THEN NoMatch
    ELSE SubSeq(subj, Index(subj, part) + Len(part) + 1, Len(subj))

\* One turn of glob's loop: what is left of the subject after the part.  A
\* part before a leading star is empty, and found at 0.
Consume(subj, part, first) ==
    IF subj = NoMatch \/ Index(subj, part) < 0 \/ (first /\ Index(subj, part) # 0) THEN NoMatch
    ELSE SubSeq(subj, Index(subj, part) + Len(part) + 1, Len(subj))

HasSuffix(s, tail) ==
    Len(tail) <= Len(s) /\ SubSeq(s, Len(s) - Len(tail) + 1, Len(s)) = tail

\* What glob's loop leaves of the subject after all parts but the last.
Left(parts, subj) ==
    LET left[i \in 0..Len(parts) - 1] ==
          IF i = 0 THEN subj ELSE Consume(left[i - 1], parts[i], i = 1)
    IN  left[Len(parts) - 1]

glob(pattern, subj) ==
    LET parts == Parts(pattern)
        left == Left(parts, subj)
    IN  IF Len(parts) = 1 THEN subj = pattern
        ELSE left # NoMatch /\ HasSuffix(left, parts[Len(parts)])

globAny(patterns, subj) == \E p \in patterns : glob(p, subj)

\* What a glob pattern means: a star of it stands for any part of the subject,
\* another character for itself; up to where is what of the pattern so far.
Matches(pattern, subj) ==
    \E upto \in [0..Len(pattern) -> 0..Len(subj)] :
      /\ upto[0] = 0 /\ upto[Len(pattern)] = Len(subj)
      /\ \A i \in DOMAIN pattern :
           IF pattern[i] = "*" THEN upto[i] >= upto[i - 1]
           ELSE upto[i] = upto[i - 1] + 1 /\ subj[upto[i]] = pattern[i]

-----------------------------------------------------------------------------
(* The server                                                              *)

\* AllowStamp.Restrict
RestrictStamp(allow, at) ==
    CASE allow = "none" -> {}
      [] allow = "single" -> IF at = {"receive", "send"} THEN {"midpoint"} ELSE at
      [] allow = "dual" -> at

\* The numbers are restricted as SConn.tla restricts them.
S(cfg) == INSTANCE SConn WITH
            MinInterval <- cfg.MinInterval, PacketBurst <- 5, MaxDuration <- cfg.MaxDuration,
            MaxDurationGrace <- 20, Timeout <- cfg.Timeout, TimeoutGrace <- 50,
            IntervalFactor <- maxIntervalTimeoutFactor, MaxLength <- cfg.MaxLength,
            SeqMod <- 2^16, WindowBits <- 64

restrictParams(cfg, p) ==
    [S(cfg)!RestrictParams(p) EXCEPT
       !.ProtocolVersion = ProtocolVersion,
       !.StampAt = RestrictStamp(cfg.AllowStamp, @),
       !.DSCP = IF cfg.AllowDSCP THEN @ ELSE 0,
       !.ServerFill = IF @ # << >> /\ ~globAny(cfg.AllowFills, @)
                      THEN cfg.DefaultFill ELSE @]

\* accept: the fill of the connection; NewFiller fails on a fill it does not
\* know (Fills are those it does).  DefaultFill is what the default filler is
\* called, Filler the one the server was started with.
FillOf(cfg, p) ==
    IF p.ServerFill = << >> \/ p.ServerFill = cfg.DefaultFill \/ p.ServerFill \notin cfg.Fills
    THEN cfg.Filler ELSE p.ServerFill
AcceptedFill(cfg, p) ==
    IF p.ServerFill # << >> /\ p.ServerFill \notin cfg.Fills
    THEN [p EXCEPT !.ServerFill = cfg.DefaultFill] ELSE p

-----------------------------------------------------------------------------
(* The client                                                              *)

When(failed, e) == IF failed THEN e ELSE "none"

\* Mutant of Checks: an interval may be reduced to anything.
ChecksNoMinimum(supplied, p) == <<
    When(p.Duration < supplied.Duration, "ServerRestriction"),
    When(p.Interval # supplied.Interval, "ServerRestriction"),
    When(p.Length < supplied.Length, "ServerRestriction"),
    When(p.StampAt # supplied.StampAt, "ServerRestriction"),
    When(p.DSCP # supplied.DSCP, "ServerRestriction") >>

\* checkParameters: what is looked at in turn; what the server may not do is
\* an error, what it may is one for a client that is not loose.
Checks(supplied, p) == <<
    When(p.ProtocolVersion # ProtocolVersion, "ProtocolVersionMismatch"),
    When(p.Duration < supplied.Duration, "ServerRestriction"),
    When(p.Duration > supplied.Duration, "InvalidServerRestriction"),
    When(p.Interval > supplied.Interval, "ServerRestriction"),
    When(p.Interval < supplied.Interval /\ p.Interval < minRestrictedInterval,
         "InvalidServerRestriction"),
    When(p.Interval < supplied.Interval, "ServerRestriction"),
    When(p.Length < supplied.Length, "ServerRestriction"),
    When(p.Length > supplied.Length, "InvalidServerRestriction"),
    When(p.StampAt # supplied.StampAt, "ServerRestriction"),
    When(p.Clock # supplied.Clock, "ServerRestriction"),
    When(p.DSCP # supplied.DSCP, "ServerRestriction"),
    When(p.ServerFill # supplied.ServerFill, "ServerRestriction") >>

\* The first of them that is an error
checkParameters(supplied, p, loose) ==
    LET checks == Checks(supplied, p)
        errs == {i \in DOMAIN checks :
                   checks[i] # "none" /\ ~(loose /\ checks[i] = "ServerRestriction")}
    IN  IF errs = {} THEN "none"
        ELSE checks[CHOOSE i \in errs : \A j \in errs : i <= j]
=============================================================================
