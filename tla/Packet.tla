------------------------------- MODULE Packet -------------------------------
(***************************************************************************)
(* The packet of packet.go: a field buffer whose fields are the header,    *)
(* the received stats and the timestamps.  A packet is its fbuf with the   *)
(* HMAC key it was made with, NoKey when it has none.                      *)
(*                                                                         *)
(* StampAt is a subset of {"receive", "send"} or {"midpoint"}, Clock a     *)
(* subset of {"wall", "mono"}, ReceivedStats one of {"count", "window"}, a *)
(* Time a record of both clocks, where 0 is none.                          *)
(***************************************************************************)
EXTENDS Stamps

\* The capacity of each field; its index here is one more than in the code.
fcaps == <<3, 1, 16, 8, 4, 4, 8, 8, 8, 8, 8, 8, 8>>
fMagic     == 1
fFlags     == 2
fHMAC      == 3
fConnToken == 4
fSeqno     == 5
fRCount    == 6
fRWindow   == 7
fRWall     == 8
fMWall     == 10
fSWall     == 12

INSTANCE Fbuf WITH FCaps <- fcaps

\* The timestamp fields in order, what they stamp and with which clock; the
\* field of the monotonic clock follows that of the wall clock.
StampFields == <<8, 9, 10, 11, 12, 13>>
StampOf == [f \in 8..13 |-> <<"receive", "midpoint", "send">>[(f - 6) \div 2]]
ClockOf == [f \in 8..13 |-> IF f % 2 = 0 THEN "wall" ELSE "mono"]

finit(key) == IF key = "none" THEN {fMagic, fFlags} ELSE {fMagic, fFlags, fHMAC}
fopenReply == {fMagic, fFlags, fConnToken}
fRequest == {fMagic, fFlags, fConnToken}
fcloseRequest == {fMagic, fFlags, fConnToken}
fechoRequest == {fMagic, fFlags, fConnToken, fSeqno}
fechoReply == {fMagic, fFlags, fConnToken, fSeqno}

NoKey == "none"
maxHeaderLen == SumCaps

Magic == [k \in 1..3 |-> <<"magic", k>>]

-----------------------------------------------------------------------------
(* Numbers: those of a field that holds the bytes of one are that number,  *)
(* any other bytes are Garbage.                                            *)
Garbage == -1
ByteOf(v, k) == IF v = 0 THEN Zero ELSE <<"n", v, k>>
Number(b) == IF \A k \in DOMAIN b : b[k] = Zero THEN 0
             ELSE IF /\ Len(b[1]) = 3 /\ b[1][1] = "n"
                     /\ \A k \in DOMAIN b : b[k] = <<"n", b[1][2], k>>
                  THEN b[1][2] ELSE Garbage

getNumber(p, f) == Number(get(p, f))
setNumber(p, f, v) == set(p, f, [k \in 1..fcaps[f] |-> ByteOf(v, k)])

ctoken(p) == getNumber(p, fConnToken)
seqno(p) == getNumber(p, fSeqno)
setConnToken(p, ct) == setNumber(p, fConnToken, ct)
setSeqno(p, s) == setNumber(p, fSeqno, s)

-----------------------------------------------------------------------------
(* Flags: a byte that is not the one of flags has bits that are not valid. *)
flags(p) == LET b == get(p, fFlags)[1]
            IN  IF b = Zero THEN {} ELSE IF b[1] = "f" THEN b[2] ELSE {"invalid"}
setFlagBits(p, f) == LET fs == flags(p) \cup f
                     IN  set(p, fFlags, << <<"f", fs>> >>)

newPacket(tlen, cap, key) ==
    LET fb == newFbuf(tlen, Greater(cap, maxHeaderLen))
        p == [arr |-> fb.arr, len |-> fb.len, tlen |-> fb.tlen, flen |-> fb.flen,
              ok |-> fb.ok, key |-> key]
    IN  set(setFields(p, finit(key), TRUE), fMagic, Magic)

-----------------------------------------------------------------------------
(* HMAC: a hash is the key and the bytes it was computed from, which its   *)
(* first byte stands for.                                                  *)
Mac(p) == LET hash == bytes(p) 
          IN  [k \in 1..16 |-> <<"mac", p.key, IF k = 1 THEN hash ELSE << >>, k>>]

\* Mutant of updateHMAC: the hash is computed over the HMAC of the packet
\* sent before.
updateHMACStale(p) ==
    IF p.key = NoKey THEN p
    ELSE LET z == setTo(setFlagBits(p, {"hmac"}), fHMAC)
         IN  set(z, fHMAC, Mac(z))

\* A packet without a key never has the field set: there is none to remove.
updateHMAC(p) ==
    IF p.key = NoKey THEN p
    ELSE LET z == zero(setFlagBits(p, {"hmac"}), fHMAC)
         IN  set(z, fHMAC, Mac(z))

\* validate; no timestamp field is set when it is called.
packetError(p) ==
    IF get(p, fMagic) # Magic THEN "BadMagic"
    ELSE IF flags(p) \ {"open", "reply", "close", "hmac"} # {} THEN "InvalidFlagBitsSet"
    ELSE IF p.key # NoKey /\ "hmac" \notin flags(p) THEN "NoHMAC"
    ELSE IF p.key = NoKey /\ "hmac" \in flags(p) THEN "UnexpectedHMAC"
    ELSE IF p.key # NoKey /\ get(p, fHMAC) # Mac(zero(p, fHMAC)) THEN "BadHMAC"
    ELSE "none"

\* readTo, and readReset once n bytes were read; the HMAC is left zero.
\* The error is that of packetError, before the HMAC was zeroed.
Received(p, msg) ==
    LET n == Lesser(Len(msg), Cap(p))
        r == Write(Slice(p, Cap(p)), 0, SubSeq(msg, 1, n))
    IN  [setFields(r, finit(p.key), FALSE) EXCEPT !.len = n, !.tlen = n]
readError(p) == IF ~fbufValid(p) THEN "FieldsLengthTooLarge" ELSE packetError(p)
readReset(p) == IF p.key = NoKey THEN p ELSE zero(p, fHMAC)

-----------------------------------------------------------------------------
(* Received packet stats                                                   *)
setReceivedCount(p, n) == setNumber(p, fRCount, n)
setReceivedWindow(p, w) == setNumber(p, fRWindow, w)

\* These fields in turn: set to zero, or removed, or left as they are.
ZeroOne(p, f, zeroed, removed) ==
    IF f \in zeroed THEN zero(p, f) ELSE IF f \in removed THEN remove(p, f) ELSE p
ZeroEach(p, fs, zeroed, removed) ==
    LET q[i \in 0..Len(fs)] == IF i = 0 THEN p ELSE ZeroOne(q[i - 1], fs[i], zeroed, removed)
    IN  q[Len(fs)]

StatsFields(rs) == {f \in {fRCount, fRWindow} :
                      (IF f = fRCount THEN "count" ELSE "window") \in rs}
zeroReceivedStats(p, rs) ==
    ZeroEach(p, <<fRCount, fRWindow>>, StatsFields(rs), {fRCount, fRWindow})
addReceivedStatsFields(p, rs) == addFields(p, StatsFields(rs), FALSE)

-----------------------------------------------------------------------------
(* Timestamps                                                              *)
\* tget: the clocks of a time that are set
tget(p, wf, t) == [wall |-> IF isset(p, wf) THEN getNumber(p, wf) ELSE t.wall,
                   mono |-> IF isset(p, wf + 1) THEN getNumber(p, wf + 1) ELSE t.mono]
timestamp(p) == [receive |-> tget(p, fMWall, tget(p, fRWall, NoTime)),
                 send |-> tget(p, fSWall, tget(p, fMWall, NoTime))]

\* Mutant of tset: the clocks are swapped.
tsetSwapped(p, t, wf) ==
    LET w == IF t.wall # 0 THEN setNumber(p, wf + 1, t.wall) ELSE p
    IN  IF t.mono # 0 THEN setNumber(w, wf, t.mono) ELSE w

tset(p, t, wf) ==
    LET w == IF t.wall # 0 THEN setNumber(p, wf, t.wall) ELSE p
    IN  IF t.mono # 0 THEN setNumber(w, wf + 1, t.mono) ELSE w

setTimestamp(p, at, ts) ==
    IF at = {"midpoint"} THEN tset(p, ts.receive, fMWall)
    ELSE LET r == IF "receive" \in at THEN tset(p, ts.receive, fRWall) ELSE p
         IN  IF "send" \in at THEN tset(r, ts.send, fSWall) ELSE r

\* The fields at and c ask for.
AtFields(at, c) == {f \in DOMAIN StampOf : StampOf[f] \in at /\ ClockOf[f] \in c}
stampZeroes(p, at, c) ==
    ZeroEach(p, StampFields, AtFields(at, c), {f \in DOMAIN StampOf : StampOf[f] \notin at})
addTimestampFields(p, at, c) == addFields(p, AtFields(at, c), FALSE)
removeTimestamps(p) == ZeroEach(p, StampFields, {}, DOMAIN StampOf)

-----------------------------------------------------------------------------
\* readPayload of a filler, zeroPayload: the payload is these bytes.
fillPayload(p, byte) ==
    LET flen == SumLens(p.flen) IN Write(p, flen, [k \in 1..(p.len - flen) |-> byte])

=============================================================================
