-------------------------------- MODULE Fbuf --------------------------------
(***************************************************************************)
(* The field buffer of fbuf.go: a byte buffer whose head is the fields     *)
(* that are set, each with its capacity, in the order of their indexes;    *)
(* what follows them is the payload.  Setting a field that was not set     *)
(* moves the bytes behind it.                                              *)
(*                                                                         *)
(* A fbuf is a record of                                                   *)
(*   arr   the bytes of the underlying array, up to its capacity: those    *)
(*         behind len are what an earlier use left there                   *)
(*   len   the length of the slice                                         *)
(*   tlen  the target length                                               *)
(*   flen  the length of each field; fields[f].pos is always the sum of    *)
(*         the lengths before it, so it is the operator Pos                *)
(*   ok    FALSE once a slice went past the capacity, which is a panic     *)
(*                                                                         *)
(* A byte is <<"n", v, k>>, the k-th byte of the number v of its field,    *)
(* Zero when v is 0, or a tuple with another tag that says what it is.     *)
(***************************************************************************)
EXTENDS Integers, Sequences

CONSTANT FCaps           \* fcaps: the capacity of each field

Field == DOMAIN FCaps
Zero == <<"n", 0, 0>>

\* sumFields, sumLens
SumTo(s, n) == LET sum[k \in 0..n] == IF k = 0 THEN 0 ELSE sum[k - 1] + s[k] IN sum[n]
SumLens(fl) == SumTo(fl, Len(fl))
SumCaps == SumTo(FCaps, Len(FCaps))
Pos(fb, f) == SumTo(fb.flen, f - 1)

Cap(fb) == Len(fb.arr)
Lesser(a, b) == IF a < b THEN a ELSE b
Greater(a, b) == IF a < b THEN b ELSE a

newFbuf(tlen, cap) ==
    [arr |-> [i \in 1..Greater(cap, SumCaps) |-> Zero],
     len |-> tlen, tlen |-> tlen, flen |-> [f \in Field |-> 0], ok |-> TRUE]

fbufValid(fb) == SumLens(fb.flen) <= fb.len /\ SumCaps <= Cap(fb)

\* buf[:n]
Slice(fb, n) == IF n \in 0..Cap(fb) THEN [fb EXCEPT !.len = n] ELSE [fb EXCEPT !.ok = FALSE]

\* copy(buf[p:], b), up to the capacity
Write(fb, p, b) ==
    LET n == Lesser(Len(b), Cap(fb) - p)
    IN  [fb EXCEPT !.arr = SubSeq(@, 1, p) \o SubSeq(b, 1, n) \o SubSeq(@, p + n + 1, Len(@))]

\* copy(buf[p+grow:], buf[p:]), up to the length
Shift(fb, p, grow) ==
    IF p + grow < 0 \/ ~fb.ok THEN [fb EXCEPT !.ok = FALSE]
    ELSE Write(fb, p + grow, SubSeq(fb.arr, p + 1, fb.len - Greater(0, grow)))

\* The bytes of the buffer, those of a field, those of the payload.
bytes(fb) == SubSeq(fb.arr, 1, fb.len)
get(fb, f) == SubSeq(fb.arr, Pos(fb, f) + 1, Pos(fb, f) + fb.flen[f])
payload(fb) == SubSeq(fb.arr, SumLens(fb.flen) + 1, fb.len)
isset(fb, f) == fb.flen[f] > 0

setLen(fb, tlen) ==
    Slice([fb EXCEPT !.tlen = tlen],
          Lesser(Cap(fb), Greater(tlen, SumLens(fb.flen))))

-----------------------------------------------------------------------------
(* Changing which fields are set.  setFields and addFields change only the *)
(* lengths and the positions that follow from them, never a byte: they     *)
(* read what is there as fields.  The indexes given are always ascending,  *)
(* so a set stands for them; what validate returns is for the caller.      *)

Relaid(fb, fl, cut) == LET fb2 == [fb EXCEPT !.flen = fl]
                       IN  IF cut THEN setLen(fb2, SumLens(fl)) ELSE fb2

\* Mutant of setFields: the fields that are not listed keep their length.
setFieldsKeep(fb, fidxs, cut) ==
    Relaid(fb, [f \in Field |-> IF f \in fidxs THEN FCaps[f] ELSE fb.flen[f]], cut)

setFields(fb, fidxs, cut) ==
    Relaid(fb, [f \in Field |-> IF f \in fidxs THEN FCaps[f] ELSE 0], cut)

addFields(fb, fidxs, cut) ==
    Relaid(fb, [f \in Field |-> IF f \in fidxs THEN FCaps[f] ELSE fb.flen[f]], cut)

\* Cut to the target length, unless the fields are longer.
Cut(fb) == IF fb.tlen >= SumLens(fb.flen) THEN Slice(fb, fb.tlen) ELSE fb

\* Grows or shrinks the buffer, moves the bytes from the field's position by
\* as much, and cuts the buffer to its target length.  To shrink moves the
\* field's own bytes over those before it: the program only removes fields
\* that are not set, which does nothing.
setFieldLen(fb, f, newlen) ==
    LET grow == newlen - fb.flen[f]
    IN  IF grow = 0 THEN fb
        ELSE Cut([Shift(Slice(fb, fb.len + grow), Pos(fb, f), grow)
                    EXCEPT !.flen[f] = newlen])

setTo(fb, f) == setFieldLen(fb, f, FCaps[f])
remove(fb, f) == IF isset(fb, f) THEN setFieldLen(fb, f, 0) ELSE fb

\* set: the field is given these bytes.
set(fb, f, b) == Write(setTo(fb, f), Pos(fb, f), b)
zero(fb, f) == set(fb, f, [k \in 1..FCaps[f] |-> Zero])

setPayload(fb, b) ==
    LET flen == SumLens(fb.flen)
        cut == Slice(fb, flen + Len(b))
    IN  IF cut.ok THEN Write(cut, flen, b) ELSE cut

=============================================================================
