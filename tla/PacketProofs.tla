---------------------------- MODULE PacketProofs ----------------------------
(***************************************************************************)
(* What the field buffer and the packet do with the bytes under them:      *)
(* sums of lengths of fields, writes and slices within the capacity, set   *)
(* and get of a field in place or between others, the HMAC over what is    *)
(* sent, and what a receiver reads of it with its key. A packet is well    *)
(* formed (Well) when its fields are of their capacity and fit in its      *)
(* length, and that in a buffer that has room for all fields.              *)
(* Then the parameters: as bytes, read whole or cut off; what the server   *)
(* makes of them and what the client accepts of that; patterns of fills.   *)
(***************************************************************************)
EXTENDS Packet, Params, Lemmas, SequenceTheorems

-----------------------------------------------------------------------------
(* Sums of the lengths of fields                                           *)

\* f[n] is the sum of the first n numbers of s.
Sums(f, s, n) == f[0] = 0 /\ \A i \in 1..n : f[i] = f[i - 1] + s[i]

\* The first n numbers of s and t are the same.
Agree(s, t, n) == \A i \in 1..n : s[i] = t[i]

\* What sumFields adds up: nothing, and each length to the sum before it.
LEMMA SumIs ==
    ASSUME NEW s, NEW n \in Nat, \A i \in 1..n : s[i] \in Nat
    PROVE  \E f \in [0..n -> Nat] : Sums(f, s, n) /\ SumTo(s, n) = f[n]
<1> DEFINE Is(f) == f = [k \in 0..n |-> IF k = 0 THEN 0 ELSE f[k - 1] + s[k]]
           sum == CHOOSE f : Is(f)
           step == [i \in 1..n |-> [x \in Nat |-> x + s[i]]]
<1>1. step \in [1..n -> [Nat -> Nat]]
    OBVIOUS
<1>2. PICK f \in [0..n -> Nat] : Iterated(f, n, 0, step)
    <2> HIDE DEF step
    <2> QED BY <1>1, Iterates
<1>3. \A i \in 1..n : step[i][f[i - 1]] = f[i - 1] + s[i]
    OBVIOUS
<1>4. Is(f)
    <2> HIDE DEF step
    <2> QED BY <1>2, <1>3 DEF Iterated
<1>5. Is(sum)
    <2> HIDE DEF Is
    <2> QED BY <1>4
<1>6. SumTo(s, n) = sum[n]
    BY DEF SumTo
<1> HIDE DEF sum
<1> DEFINE P == {i \in Nat : i <= n => sum[i] = f[i]}
<1>7. 0 \in P
    BY <1>4, <1>5
<1>8. ASSUME NEW i \in Nat, i \in P PROVE i + 1 \in P
    BY <1>4, <1>5, <1>8
<1>9. \A i \in Nat : i \in P
    <2> HIDE DEF P
    <2> QED BY <1>7, <1>8, NaturalsIn
<1>10. sum[n] = f[n]
    BY <1>9
<1> QED BY <1>4, <1>6, <1>10 DEF Sums

\* The sums of the same numbers are the same.
LEMMA SumsEqual ==
    ASSUME NEW s, NEW t, NEW n \in Nat, NEW f, NEW g,
           Sums(f, s, n), Sums(g, t, n), Agree(s, t, n)
    PROVE  f[n] = g[n]
<1> DEFINE P == {i \in Nat : i <= n => f[i] = g[i]}
<1>1. 0 \in P
    BY DEF Sums
<1>2. ASSUME NEW i \in Nat, i \in P PROVE i + 1 \in P
    BY <1>2 DEF Sums, Agree
<1>3. \A i \in Nat : i \in P
    <2> HIDE DEF P
    <2> QED BY <1>1, <1>2, NaturalsIn
<1> QED BY <1>3

\* The sum of the first n is that of one less and the n-th.
LEMMA SumStep ==
    ASSUME NEW s, NEW n \in Nat, \A i \in 1..n : s[i] \in Nat
    PROVE  /\ SumTo(s, 0) = 0 /\ SumTo(s, n) \in Nat
           /\ n > 0 => SumTo(s, n) = SumTo(s, n - 1) + s[n]
<1>1. SumTo(s, 0) = 0
    <2>1. PICK f : Sums(f, s, 0) /\ SumTo(s, 0) = f[0]
        BY SumIs
    <2> QED BY <2>1 DEF Sums
<1>2. SumTo(s, n) \in Nat
    BY SumIs
<1>3. ASSUME n > 0 PROVE SumTo(s, n) = SumTo(s, n - 1) + s[n]
    <2>1. n - 1 \in Nat /\ \A i \in 1..n-1 : s[i] \in Nat
        BY <1>3
    <2>2. PICK f : Sums(f, s, n) /\ SumTo(s, n) = f[n]
        BY SumIs
    <2>3. PICK g : Sums(g, s, n - 1) /\ SumTo(s, n - 1) = g[n - 1]
        BY <2>1, SumIs
    <2>4. Sums(f, s, n - 1) /\ Agree(s, s, n - 1)
        BY <1>3, <2>2 DEF Sums, Agree
    <2>5. f[n - 1] = g[n - 1]
        BY <2>1, <2>3, <2>4, SumsEqual
    <2>6. f[n] = f[n - 1] + s[n]
        BY <1>3, <2>2 DEF Sums
    <2> QED BY <2>2, <2>3, <2>5, <2>6
<1> QED BY <1>1, <1>2, <1>3

\* The sums of two layouts that agree.
LEMMA SumSame ==
    ASSUME NEW s, NEW t, NEW n \in Nat, \A i \in 1..n : s[i] \in Nat /\ s[i] = t[i]
    PROVE  SumTo(s, n) = SumTo(t, n)
<1>1. PICK f : Sums(f, s, n) /\ SumTo(s, n) = f[n]
    BY SumIs
<1>2. PICK g : Sums(g, t, n) /\ SumTo(t, n) = g[n]
    BY SumIs
<1>3. Agree(s, t, n)
    BY DEF Agree
<1> QED BY <1>1, <1>2, <1>3, SumsEqual

\* A longer layout has a longer sum.
LEMMA SumMore ==
    ASSUME NEW s, NEW t, NEW n \in Nat,
           \A i \in 1..n : s[i] \in Nat /\ t[i] \in Nat /\ s[i] <= t[i]
    PROVE  SumTo(s, n) <= SumTo(t, n)
<1> DEFINE P == {k \in Nat : k <= n => SumTo(s, k) <= SumTo(t, k)}
<1>1. 0 \in P
    BY SumStep
<1>2. ASSUME NEW k \in Nat, k \in P PROVE k + 1 \in P
    <2> SUFFICES ASSUME k + 1 <= n PROVE SumTo(s, k + 1) <= SumTo(t, k + 1)
        OBVIOUS
    <2>1. SumTo(s, k) <= SumTo(t, k) /\ (k + 1) - 1 = k /\ k + 1 > 0 /\ k + 1 \in Nat
        BY <1>2
    <2>2. \A i \in 1..k+1 : s[i] \in Nat /\ t[i] \in Nat
        OBVIOUS
    <2>3. /\ SumTo(s, k + 1) = SumTo(s, k) + s[k + 1]
          /\ SumTo(t, k + 1) = SumTo(t, k) + t[k + 1]
        BY <2>1, <2>2, SumStep
    <2>4. SumTo(s, k) \in Nat /\ SumTo(t, k) \in Nat /\ k + 1 \in 1..n
        BY <2>2, SumStep
    <2> QED BY <2>1, <2>3, <2>4
<1>3. \A k \in Nat : k \in P
    <2> HIDE DEF P
    <2> QED BY <1>1, <1>2, NaturalsIn
<1> QED BY <1>3

\* The sum up to a field is not above that up to a later one.
LEMMA SumUpto ==
    ASSUME NEW s, NEW n \in Nat, NEW m \in 0..n, \A i \in 1..n : s[i] \in Nat
    PROVE  SumTo(s, m) <= SumTo(s, n)
<1> DEFINE P == {k \in Nat : m + k <= n => SumTo(s, m) <= SumTo(s, m + k)}
<1>1. 0 \in P
    <2>1. SumTo(s, m) \in Nat
        BY SumStep
    <2> QED BY <2>1
<1>2. ASSUME NEW k \in Nat, k \in P PROVE k + 1 \in P
    <2> SUFFICES ASSUME m + (k + 1) <= n PROVE SumTo(s, m) <= SumTo(s, m + (k + 1))
        OBVIOUS
    <2> DEFINE j == m + (k + 1)
    <2>1. SumTo(s, m) <= SumTo(s, j - 1) /\ j \in Nat /\ j - 1 \in Nat /\ j > 0
        BY <1>2
    <2>2. \A i \in 1..j : s[i] \in Nat
        OBVIOUS
    <2>4. SumTo(s, m) \in Nat /\ SumTo(s, j - 1) \in Nat /\ s[j] \in Nat
        <3>1. \A i \in 1..(j - 1) : s[i] \in Nat
            OBVIOUS
        <3>2. \A i \in 1..m : s[i] \in Nat
            OBVIOUS
        <3>3. j \in 1..n /\ m \in Nat
            OBVIOUS
        <3> HIDE DEF j
        <3> QED BY <2>1, <3>1, <3>2, <3>3, SumStep
    <2> HIDE DEF j
    <2>3. SumTo(s, j) = SumTo(s, j - 1) + s[j]
        BY <2>1, <2>2, SumStep
    <2>5. SumTo(s, m) <= SumTo(s, j)
        BY <2>1, <2>3, <2>4
    <2> QED BY <2>5 DEF j
<1>3. \A k \in Nat : k \in P
    <2> HIDE DEF P
    <2> QED BY <1>1, <1>2, NaturalsIn
<1>4. n - m \in Nat /\ m + (n - m) = n
    OBVIOUS
<1>5. n - m \in P
    BY <1>3, <1>4
<1> QED BY <1>4, <1>5

\* One length more or less in the layout.
LEMMA SumChange ==
    ASSUME NEW s, NEW n \in Nat, NEW f \in 1..n, NEW v \in Nat,
           DOMAIN s = 1..n, \A i \in 1..n : s[i] \in Nat
    PROVE  /\ \A k \in 0..f-1 : SumTo([s EXCEPT ![f] = v], k) = SumTo(s, k)
           /\ \A k \in f..n : SumTo([s EXCEPT ![f] = v], k) = SumTo(s, k) + v - s[f]
<1> DEFINE t == [s EXCEPT ![f] = v]
<1>1. \A i \in 1..n : t[i] = (IF i = f THEN v ELSE s[i]) /\ t[i] \in Nat
    OBVIOUS
<1> HIDE DEF t
<1>2. \A k \in 0..f-1 : SumTo(t, k) = SumTo(s, k)
    <2> SUFFICES ASSUME NEW k \in 0..f-1 PROVE SumTo(t, k) = SumTo(s, k)
        OBVIOUS
    <2>1. k \in Nat /\ \A i \in 1..k : t[i] \in Nat /\ t[i] = s[i]
        BY <1>1
    <2> QED BY <2>1, SumSame
<1> DEFINE P == {k \in Nat : f + k <= n => SumTo(t, f + k) = SumTo(s, f + k) + v - s[f]}
<1>3. 0 \in P
    <2>1. f - 1 \in 0..f-1 /\ f > 0 /\ f \in Nat /\ f - 1 \in Nat /\ f + 0 = f
        OBVIOUS
    <2>2. \A i \in 1..f : t[i] \in Nat /\ s[i] \in Nat
        BY <1>1
    <2>3. SumTo(t, f) = SumTo(t, f - 1) + v
        BY <1>1, <2>1, <2>2, SumStep
    <2>4. SumTo(s, f) = SumTo(s, f - 1) + s[f]
        BY <2>1, <2>2, SumStep
    <2>5. SumTo(t, f - 1) = SumTo(s, f - 1) /\ SumTo(s, f - 1) \in Nat
        <3>1. \A i \in 1..(f - 1) : s[i] \in Nat
            OBVIOUS
        <3> QED BY <1>2, <2>1, <3>1, SumStep
    <2>6. SumTo(t, f) = SumTo(s, f) + v - s[f]
        BY <2>2, <2>3, <2>4, <2>5
    <2> QED BY <2>1, <2>6
<1>4. ASSUME NEW k \in Nat, k \in P PROVE k + 1 \in P
    <2> SUFFICES ASSUME f + (k + 1) <= n
                 PROVE  SumTo(t, f + (k + 1)) = SumTo(s, f + (k + 1)) + v - s[f]
        OBVIOUS
    <2> DEFINE j == f + (k + 1)
    <2>1. SumTo(t, j - 1) = SumTo(s, j - 1) + v - s[f] /\ j \in Nat /\ j - 1 \in Nat /\ j > 0
          /\ j # f /\ j \in 1..n
        BY <1>4
    <2> HIDE DEF j
    <2>2. \A i \in 1..j : t[i] \in Nat /\ s[i] \in Nat
        BY <1>1, <2>1
    <2>3. SumTo(t, j) = SumTo(t, j - 1) + t[j] /\ SumTo(s, j) = SumTo(s, j - 1) + s[j]
        BY <2>1, <2>2, SumStep
    <2>4. SumTo(s, j - 1) \in Nat /\ t[j] = s[j] /\ s[j] \in Nat /\ s[f] \in Nat
        <3>1. \A i \in 1..(j - 1) : s[i] \in Nat
            BY <2>1
        <3> QED BY <1>1, <2>1, <3>1, SumStep
    <2>5. SumTo(t, j) = SumTo(s, j) + v - s[f]
        BY <2>1, <2>3, <2>4
    <2> QED BY <2>5 DEF j
<1>5. \A k \in Nat : k \in P
    <2> HIDE DEF P
    <2> QED BY <1>3, <1>4, NaturalsIn
<1>6. \A k \in f..n : SumTo(t, k) = SumTo(s, k) + v - s[f]
    <2> SUFFICES ASSUME NEW k \in f..n PROVE SumTo(t, k) = SumTo(s, k) + v - s[f]
        OBVIOUS
    <2>1. k - f \in Nat /\ f + (k - f) = k
        OBVIOUS
    <2>2. k - f \in P
        BY <1>5, <2>1
    <2> QED BY <2>1, <2>2
<1> QED BY <1>2, <1>6 DEF t

-----------------------------------------------------------------------------
(* Sequences of bytes                                                      *)

\* A sequence, of what does not matter.
IsBytes(b) == Len(b) \in Nat /\ b = [i \in 1..Len(b) |-> b[i]]

\* A function over 1..n is one of length n.
LEMMA BytesLen ==
    ASSUME NEW n \in Nat, NEW b, b = [i \in 1..n |-> b[i]]
    PROVE  IsBytes(b) /\ Len(b) = n /\ DOMAIN b = 1..n
<1> DEFINE K == {b[i] : i \in 1..n}
<1>1. b \in [1..n -> K]
    OBVIOUS
<1>2. b \in Seq(K)
    BY <1>1, SeqDef
<1>3. Len(b) = n
    BY <1>1, <1>2, LenProperties
<1> QED BY <1>3 DEF IsBytes

\* A part of one, at each of its places.
LEMMA SubSeqIs ==
    ASSUME NEW s, NEW m \in Int, NEW n \in Int
    PROVE  /\ IsBytes(SubSeq(s, m, n))
           /\ Len(SubSeq(s, m, n)) = (IF m <= n THEN n - m + 1 ELSE 0)
           /\ \A i \in 1..Len(SubSeq(s, m, n)) : SubSeq(s, m, n)[i] = s[m + i - 1]
<1> DEFINE K == {s[i] : i \in m..n}
           t == SubSeq(s, m, n)
<1>1. /\ t \in Seq(K)
      /\ Len(t) = IF m <= n THEN n - m + 1 ELSE 0
      /\ \A i \in 1..n-m+1 : t[i] = s[m + i - 1]
    <2>1. \A i \in m..n : s[i] \in K
        OBVIOUS
    <2> HIDE DEF K
    <2> QED BY <2>1, SubSeqProperties
<1>2. t \in [1..Len(t) -> K] /\ Len(t) \in Nat
    BY <1>1, LenProperties
<1> HIDE DEF t
<1>3. IsBytes(t)
    BY <1>2 DEF IsBytes
<1>4. \A i \in 1..Len(t) : t[i] = s[m + i - 1]
    BY <1>1
<1> QED BY <1>1, <1>3, <1>4 DEF t

\* Two of them one after the other, at each place.
LEMMA ConcatIs ==
    ASSUME NEW a, NEW b, IsBytes(a), IsBytes(b)
    PROVE  /\ IsBytes(a \o b) /\ Len(a \o b) = Len(a) + Len(b)
           /\ \A i \in 1..Len(a) + Len(b) :
                (a \o b)[i] = IF i <= Len(a) THEN a[i] ELSE b[i - Len(a)]
<1> DEFINE K == {a[i] : i \in 1..Len(a)} \cup {b[i] : i \in 1..Len(b)}
           c == a \o b
<1>1. a \in [1..Len(a) -> K] /\ b \in [1..Len(b) -> K] /\ Len(a) \in Nat /\ Len(b) \in Nat
    BY DEF IsBytes
<1>2. a \in Seq(K) /\ b \in Seq(K)
    BY <1>1, SeqDef
<1> HIDE DEF K
<1>3. /\ c \in Seq(K) /\ Len(c) = Len(a) + Len(b)
      /\ \A i \in 1..Len(a) + Len(b) : c[i] = IF i <= Len(a) THEN a[i] ELSE b[i - Len(a)]
    BY <1>2, ConcatProperties
<1>4. c \in [1..Len(c) -> K] /\ Len(c) \in Nat
    BY <1>3, LenProperties
<1> HIDE DEF c
<1>5. IsBytes(c)
    BY <1>4 DEF IsBytes
<1> QED BY <1>3, <1>5 DEF c

\* Two that are the same byte for byte.
LEMMA SameBytes ==
    ASSUME NEW a, NEW b, IsBytes(a), IsBytes(b), Len(a) = Len(b),
           \A i \in 1..Len(a) : a[i] = b[i]
    PROVE  a = b
BY DEF IsBytes

-----------------------------------------------------------------------------
(* Buffers                                                                 *)

\* A packet is a record of these fields.
Shaped(p) == /\ DOMAIN p = {"arr", "len", "tlen", "flen", "ok", "key"}
             /\ p = [x \in DOMAIN p |-> p[x]]

\* A packet that is well formed: no slice went past its capacity, which is
\* enough for all fields, a field has its capacity or is not set, and the
\* fields fit in its length.
Well(p) ==
    /\ Shaped(p) /\ p.ok = TRUE
    /\ IsBytes(p.arr) /\ SumCaps <= Cap(p)
    /\ p.flen \in [Field -> Nat] /\ \A f \in Field : p.flen[f] \in {0, fcaps[f]}
    /\ p.tlen \in Int
    /\ p.len \in 0..Cap(p) /\ SumLens(p.flen) <= p.len

\* The fields and their capacities.
LEMMA FieldFacts ==
    /\ Field = 1..13 /\ Len(fcaps) = 13
    /\ \A f \in 1..13 : fcaps[f] \in Nat \ {0}
BY DEF Field, fcaps

\* The lengths of the fields of a well formed packet.
LEMMA Lengths ==
    ASSUME NEW p, Well(p)
    PROVE  /\ \A i \in 1..13 : p.flen[i] \in Nat
           /\ DOMAIN p.flen = 1..13 /\ Len(p.flen) = 13
           /\ SumLens(p.flen) = SumTo(p.flen, 13) /\ SumLens(p.flen) \in Nat
           /\ \A f \in Field : /\ Pos(p, f) \in Nat
                               /\ Pos(p, f) + p.flen[f] <= SumLens(p.flen)
                               /\ SumTo(p.flen, f) = Pos(p, f) + p.flen[f]
<1>1. /\ DOMAIN p.flen = 1..13 /\ p.flen = [i \in 1..13 |-> p.flen[i]]
      /\ \A i \in 1..13 : p.flen[i] \in Nat
    BY FieldFacts DEF Well
<1>2. Len(p.flen) = 13
    BY <1>1, BytesLen
<1>3. SumLens(p.flen) = SumTo(p.flen, 13)
    BY <1>2 DEF SumLens
<1>4. SumLens(p.flen) \in Nat
    <2>1. 13 \in Nat
        OBVIOUS
    <2>2. SumTo(p.flen, 13) \in Nat
        BY ONLY <1>1, <2>1, SumStep
    <2> QED BY <1>3, <2>2
<1>5. ASSUME NEW f \in Field
      PROVE  /\ Pos(p, f) \in Nat
             /\ Pos(p, f) + p.flen[f] <= SumLens(p.flen)
             /\ SumTo(p.flen, f) = Pos(p, f) + p.flen[f]
    <2>1. f \in 0..13 /\ f > 0 /\ f - 1 \in Nat /\ f \in Nat /\ 13 \in Nat
        BY FieldFacts
    <2>2. (\A i \in 1..f : p.flen[i] \in Nat) /\ (\A i \in 1..(f - 1) : p.flen[i] \in Nat)
        BY <1>1, <2>1
    <2>3. SumTo(p.flen, f) = SumTo(p.flen, f - 1) + p.flen[f]
        BY <2>1, <2>2, SumStep
    <2>4. SumTo(p.flen, f) <= SumTo(p.flen, 13)
        BY <1>1, <2>1, SumUpto
    <2>5. SumTo(p.flen, f - 1) \in Nat
        BY <2>1, <2>2, SumStep
    <2> QED BY <1>3, <2>3, <2>4, <2>5 DEF Pos
<1> QED BY <1>1, <1>2, <1>3, <1>4, <1>5

\* What copy leaves in the array.
Written(arr, q, b) ==
    [i \in 1..Len(arr) |-> IF i > q /\ i <= q + Len(b) THEN b[i - q] ELSE arr[i]]

\* Bytes written within a buffer leave its length.
LEMMA WrittenIs ==
    ASSUME NEW arr, NEW b, IsBytes(arr), IsBytes(b), NEW q \in Nat
    PROVE  IsBytes(Written(arr, q, b)) /\ Len(Written(arr, q, b)) = Len(arr)
<1> DEFINE n == Len(arr)
           w == Written(arr, q, b)
<1>1. n \in Nat
    BY DEF IsBytes
<1>2. w = [i \in 1..n |-> w[i]]
    BY DEF Written
<1> HIDE DEF n, w
<1> QED BY <1>1, <1>2, BytesLen DEF n, w

\* A write within the capacity is that of its bytes.
LEMMA WriteIs ==
    ASSUME NEW p, NEW b, IsBytes(p.arr), IsBytes(b), NEW q \in 0..Cap(p)
    PROVE  Write(p, q, b) = [p EXCEPT !.arr = Written(p.arr, q, b)]
<1> DEFINE n == Lesser(Len(b), Cap(p) - q)
           x == SubSeq(p.arr, 1, q)
           y == SubSeq(b, 1, n)
           z == SubSeq(p.arr, q + n + 1, Len(p.arr))
           w == Written(p.arr, q, b)
<1>1. Len(p.arr) \in Nat /\ Len(b) \in Nat /\ Cap(p) = Len(p.arr) /\ q \in Nat /\ q <= Len(p.arr)
    BY DEF IsBytes, Cap
<1>2. n \in Nat /\ n <= Len(b) /\ q + n <= Len(p.arr) /\ (n = Len(b) \/ q + n = Len(p.arr))
    BY <1>1 DEF Lesser
<1> HIDE DEF n
<1>3. IsBytes(x) /\ Len(x) = q /\ \A i \in 1..q : x[i] = p.arr[i]
    BY <1>1, SubSeqIs
<1>4. IsBytes(y) /\ Len(y) = n /\ \A i \in 1..n : y[i] = b[i]
    BY <1>1, <1>2, SubSeqIs
<1>5. IsBytes(z) /\ Len(z) = Len(p.arr) - q - n
      /\ \A i \in 1..Len(p.arr) - q - n : z[i] = p.arr[q + n + i]
    <2>1. q + n + 1 \in Int /\ Len(p.arr) \in Int
        BY <1>1, <1>2
    <2>2. IsBytes(z) /\ Len(z) = (IF q + n + 1 <= Len(p.arr) THEN Len(p.arr) - (q + n + 1) + 1 ELSE 0)
          /\ \A i \in 1..Len(z) : z[i] = p.arr[(q + n + 1) + i - 1]
        BY <2>1, SubSeqIs
    <2>3. Len(z) = Len(p.arr) - q - n
        BY <1>1, <1>2, <2>2
    <2>4. \A i \in 1..Len(z) : (q + n + 1) + i - 1 = q + n + i
        BY <1>1, <1>2, <2>3
    <2> QED BY <2>2, <2>3, <2>4
<1> HIDE DEF x, y, z
<1>6. IsBytes(x \o y) /\ Len(x \o y) = q + n
      /\ \A i \in 1..q + n : (x \o y)[i] = IF i <= q THEN x[i] ELSE y[i - q]
    BY <1>3, <1>4, ConcatIs
<1>7. IsBytes((x \o y) \o z) /\ Len((x \o y) \o z) = Len(p.arr)
      /\ \A i \in 1..Len(p.arr) : ((x \o y) \o z)[i] = IF i <= q + n THEN (x \o y)[i] ELSE z[i - (q + n)]
    <2> DEFINE xy == x \o y
    <2>1. (q + n) + (Len(p.arr) - q - n) = Len(p.arr) /\ q + n \in Nat
        BY <1>1, <1>2
    <2>2. IsBytes(xy) /\ Len(xy) = q + n
        BY <1>6
    <2> HIDE DEF xy
    <2>3. /\ IsBytes(xy \o z) /\ Len(xy \o z) = Len(xy) + Len(z)
          /\ \A i \in 1..Len(xy) + Len(z) :
                (xy \o z)[i] = IF i <= Len(xy) THEN xy[i] ELSE z[i - Len(xy)]
        BY <1>5, <2>2, ConcatIs
    <2>4. Len(xy) + Len(z) = Len(p.arr)
        BY <1>5, <2>1, <2>2
    <2> QED BY <2>2, <2>3, <2>4 DEF xy
<1>8. \A i \in 1..Len(p.arr) : ((x \o y) \o z)[i] = w[i]
    <2> SUFFICES ASSUME NEW i \in 1..Len(p.arr) PROVE ((x \o y) \o z)[i] = w[i]
        OBVIOUS
    <2>1. w[i] = IF i > q /\ i <= q + Len(b) THEN b[i - q] ELSE p.arr[i]
        BY DEF Written
    <2>2. CASE i <= q
        BY <1>1, <1>2, <1>3, <1>6, <1>7, <2>1, <2>2
    <2>3. CASE i > q /\ i <= q + n
        BY <1>1, <1>2, <1>4, <1>6, <1>7, <2>1, <2>3
    <2>4. CASE i > q + n
        <3>1. i - (q + n) \in 1..Len(p.arr) - q - n /\ q + n + (i - (q + n)) = i
            BY <1>1, <1>2, <2>4
        <3>2. z[i - (q + n)] = p.arr[i]
            BY <1>5, <3>1
        <3>3. ~(i <= q + n) /\ ~(i > q /\ i <= q + Len(b))
            BY <1>1, <1>2, <2>4
        <3> QED BY <1>7, <2>1, <3>2, <3>3
    <2>5. i \in Nat /\ q \in Nat /\ n \in Nat
        BY <1>1, <1>2
    <2>6. i <= q \/ (i > q /\ i <= q + n) \/ i > q + n
        BY ONLY <2>5
    <2> QED BY <2>2, <2>3, <2>4, <2>6
<1>9. IsBytes(w) /\ Len(w) = Len(p.arr)
    BY <1>1, WrittenIs
<1>10. (x \o y) \o z = w
    BY <1>7, <1>8, <1>9, SameBytes
<1>11. Write(p, q, b) = [p EXCEPT !.arr = (x \o y) \o z]
    <2>1. Write(p, q, b) = [p EXCEPT !.arr = x \o y \o z]
        BY DEF Write, n, x, y, z
    <2> QED BY <2>1
<1> QED BY <1>10, <1>11

-----------------------------------------------------------------------------
(* Setting a field                                                         *)

\* Whether the array A is arr with the c bytes b put in at q and the bytes
\* behind q, up to n, moved by as much.
Inserted(A, arr, q, b, c, n) ==
    /\ IsBytes(A) /\ Len(A) = Len(arr)
    /\ \A i \in 1..Len(arr) : A[i] = IF i <= q THEN arr[i]
                                     ELSE IF i <= q + c THEN b[i - q]
                                     ELSE IF i <= n + c THEN arr[i - c] ELSE arr[i]

\* A field that is set is overwritten.
LEMMA SetOver ==
    ASSUME NEW p, Well(p), NEW f \in Field, p.flen[f] = fcaps[f], NEW b, IsBytes(b)
    PROVE  set(p, f, b) = [p EXCEPT !.arr = Written(p.arr, Pos(p, f), b)]
<1>1. fcaps[f] - p.flen[f] = 0
    BY FieldFacts
<1>2. setTo(p, f) = p
    BY <1>1 DEF setTo, setFieldLen
<1>3. Pos(p, f) \in 0..Cap(p)
    <2>1. Pos(p, f) \in Nat /\ Pos(p, f) + p.flen[f] <= SumLens(p.flen) /\ p.flen[f] \in Nat
        BY Lengths, FieldFacts
    <2>2. SumLens(p.flen) <= p.len /\ p.len \in 0..Cap(p) /\ SumLens(p.flen) \in Nat
        BY Lengths DEF Well
    <2>3. Cap(p) \in Nat
        BY DEF Well, IsBytes, Cap
    <2> QED BY <2>1, <2>2, <2>3
<1>4. IsBytes(p.arr)
    BY DEF Well
<1> QED BY <1>2, <1>3, <1>4, WriteIs DEF set

\* Setting one more field.
LEMMA Grown ==
    ASSUME NEW p, Well(p), NEW f \in Field, p.flen[f] = 0
    PROVE  /\ [p.flen EXCEPT ![f] = fcaps[f]] \in [Field -> Nat]
           /\ \A g \in Field : [p.flen EXCEPT ![f] = fcaps[f]][g] \in {0, fcaps[g]}
           /\ SumLens([p.flen EXCEPT ![f] = fcaps[f]]) = SumLens(p.flen) + fcaps[f]
           /\ \A g \in Field : SumTo([p.flen EXCEPT ![f] = fcaps[f]], g - 1)
                                 = Pos(p, g) + (IF g > f THEN fcaps[f] ELSE 0)
<1> DEFINE t == [p.flen EXCEPT ![f] = fcaps[f]]
<1>1. f \in 1..13 /\ fcaps[f] \in Nat /\ DOMAIN p.flen = 1..13 /\ 13 \in Nat
      /\ \A i \in 1..13 : p.flen[i] \in Nat
    BY FieldFacts, Lengths
<1>2. t \in [Field -> Nat] /\ \A g \in Field : t[g] \in {0, fcaps[g]}
    BY <1>1, FieldFacts DEF Well
<1>3. /\ \A k \in 0..f-1 : SumTo(t, k) = SumTo(p.flen, k)
      /\ \A k \in f..13 : SumTo(t, k) = SumTo(p.flen, k) + fcaps[f] - p.flen[f]
    <2> DEFINE s == p.flen
               v == fcaps[f]
    <2>1. f \in 1..13 /\ v \in Nat /\ DOMAIN s = 1..13 /\ 13 \in Nat /\ \A i \in 1..13 : s[i] \in Nat
        BY <1>1
    <2> HIDE DEF s, v
    <2>2. /\ \A k \in 0..f-1 : SumTo([s EXCEPT ![f] = v], k) = SumTo(s, k)
          /\ \A k \in f..13 : SumTo([s EXCEPT ![f] = v], k) = SumTo(s, k) + v - s[f]
        BY ONLY ZenonT(60), <2>1, SumChange
    <2> QED BY <2>2 DEF s, v
<1>4. Len(t) = 13
    <2>1. t = [i \in 1..13 |-> t[i]]
        BY <1>1
    <2> HIDE DEF t
    <2> QED BY <1>1, <2>1, BytesLen
<1> HIDE DEF t
<1>5. \A k \in 0..13 : SumTo(p.flen, k) \in Nat
    <2> SUFFICES ASSUME NEW k \in 0..13 PROVE SumTo(p.flen, k) \in Nat
        OBVIOUS
    <2>1. k \in Nat /\ \A i \in 1..k : p.flen[i] \in Nat
        BY <1>1
    <2> QED BY <2>1, SumStep
<1>6. SumLens(t) = SumLens(p.flen) + fcaps[f]
    <2>1. SumLens(t) = SumTo(t, 13) /\ SumLens(p.flen) = SumTo(p.flen, 13)
        BY <1>4, Lengths DEF SumLens
    <2> QED BY <1>1, <1>3, <1>5, <2>1
<1>7. ASSUME NEW g \in Field
      PROVE  SumTo(t, g - 1) = Pos(p, g) + (IF g > f THEN fcaps[f] ELSE 0)
    <2>1. g \in 1..13 /\ g - 1 \in 0..13
        BY FieldFacts
    <2>2. CASE g > f
        <3>1. g - 1 \in f..13
            BY <1>1, <2>1, <2>2
        <3>2. SumTo(t, g - 1) = SumTo(p.flen, g - 1) + fcaps[f] - p.flen[f]
            BY <1>3, <3>1
        <3> QED BY <1>1, <1>5, <2>1, <2>2, <3>2 DEF Pos
    <2>3. CASE ~(g > f)
        <3>1. g - 1 \in 0..f-1
            BY <1>1, <2>1, <2>3
        <3>2. SumTo(t, g - 1) = SumTo(p.flen, g - 1)
            BY <1>3, <3>1
        <3> QED BY <1>5, <2>1, <2>3, <3>2 DEF Pos
    <2> QED BY <2>2, <2>3
<1> QED BY <1>2, <1>6, <1>7 DEF t

\* A field that is not set is put in where there is room for it.
LEMMA SetIn ==
    ASSUME NEW p, Well(p), NEW f \in Field, p.flen[f] = 0, NEW b, IsBytes(b),
           Len(b) = fcaps[f], p.len + fcaps[f] <= Cap(p), p.tlen <= Cap(p)
    PROVE  \E A : /\ Inserted(A, p.arr, Pos(p, f), b, fcaps[f], p.len)
                  /\ set(p, f, b) =
                       [p EXCEPT !.arr = A, !.flen = [p.flen EXCEPT ![f] = fcaps[f]],
                                 !.len = IF p.tlen >= SumLens(p.flen) + fcaps[f]
                                         THEN p.tlen ELSE p.len + fcaps[f]]
<1> DEFINE c == fcaps[f]
           q == Pos(p, f)
           fl == [p.flen EXCEPT ![f] = c]
           long == [p EXCEPT !.len = p.len + c]
           tail == SubSeq(p.arr, q + 1, p.len)
           moved == Written(p.arr, q + c, tail)
           A == Written(moved, q, b)
           L == IF p.tlen >= SumLens(p.flen) + c THEN p.tlen ELSE p.len + c
<1>1. /\ c \in Nat /\ c # 0 /\ q \in Nat /\ q <= p.len /\ p.len \in Nat /\ Cap(p) \in Nat
      /\ Cap(p) = Len(p.arr) /\ q + c <= Cap(p) /\ p.len <= Cap(p) /\ p.tlen \in Int
      /\ p.len + c <= Cap(p) /\ SumLens(p.flen) \in Nat /\ SumLens(p.flen) <= p.len
    <2>1. Pos(p, f) \in Nat /\ Pos(p, f) + p.flen[f] <= SumLens(p.flen) /\ SumLens(p.flen) \in Nat
          /\ fcaps[f] \in Nat \ {0} /\ fcaps[f] # 0
        BY Lengths, FieldFacts
    <2>2. SumLens(p.flen) <= p.len /\ p.len \in 0..Cap(p) /\ Cap(p) \in Nat /\ p.tlen \in Int
          /\ Cap(p) = Len(p.arr)
        BY DEF Well, IsBytes, Cap
    <2> QED BY <2>1, <2>2
<1>2. IsBytes(p.arr) /\ Shaped(p) /\ p.ok = TRUE
    BY DEF Well
<1>3. Len(tail) = p.len - q /\ IsBytes(tail) /\ \A i \in 1..p.len - q : tail[i] = p.arr[q + i]
    <2>1. IsBytes(tail) /\ Len(tail) = (IF q + 1 <= p.len THEN p.len - (q + 1) + 1 ELSE 0)
          /\ \A i \in 1..Len(tail) : tail[i] = p.arr[(q + 1) + i - 1]
        <3>1. q + 1 \in Int /\ p.len \in Int
            BY <1>1
        <3> HIDE DEF q
        <3> QED BY <3>1, SubSeqIs
    <2>2. Len(tail) = p.len - q
        BY <1>1, <2>1
    <2>3. \A i \in 1..p.len - q : (q + 1) + i - 1 = q + i
        BY <1>1
    <2> QED BY ZenonT(60), <2>1, <2>2, <2>3
<1>4. Slice(p, p.len + c) = long
    BY <1>1 DEF Slice
<1>5. /\ long.ok = TRUE /\ long.len = p.len + c /\ long.arr = p.arr /\ Cap(long) = Cap(p)
      /\ long.flen = p.flen /\ long.tlen = p.tlen
    BY <1>2 DEF Shaped, Cap
<1>6. Shift(long, q, c) = [long EXCEPT !.arr = moved]
    <2>1. ~(q + c < 0 \/ ~long.ok)
        BY <1>1, <1>5
    <2>2. long.len - Greater(0, c) = p.len
        BY <1>1, <1>5 DEF Greater
    <2>3. Shift(long, q, c) = Write(long, q + c, tail)
        BY <1>5, <2>1, <2>2 DEF Shift
    <2>4. q + c \in 0..Cap(long) /\ IsBytes(long.arr) /\ IsBytes(tail)
        BY SMTT(30), <1>1, <1>2, <1>3, <1>5
    <2>5. Write(long, q + c, tail) = [long EXCEPT !.arr = Written(long.arr, q + c, tail)]
        <3> HIDE DEF long, tail, q, c
        <3> QED BY <2>4, WriteIs
    <2> QED BY <1>5, <2>3, <2>5
<1>7. IsBytes(moved) /\ Len(moved) = Len(p.arr)
    <2>1. q + c \in Nat
        BY <1>1
    <2> HIDE DEF tail, q, c
    <2> QED BY <1>2, <1>3, <2>1, WrittenIs
<1> DEFINE grown == [[long EXCEPT !.arr = moved] EXCEPT !.flen[f] = c]
           r == [p EXCEPT !.arr = moved, !.flen = fl, !.len = L]
<1>8. /\ grown.tlen = p.tlen /\ grown.flen = fl /\ grown.len = p.len + c /\ Cap(grown) = Cap(p)
      /\ grown = [p EXCEPT !.arr = moved, !.flen = fl, !.len = p.len + c]
    <2> HIDE DEF moved, c
    <2> QED BY <1>2, <1>7 DEF Shaped, Cap
<1>9. SumLens(fl) = SumLens(p.flen) + c
    BY Grown
<1>10. Cut(grown) = r
    <2>1. CASE p.tlen >= SumLens(p.flen) + c
        <3>1. grown.tlen \in 0..Cap(grown)
            <4> HIDE DEF grown, c
            <4> QED BY <1>1, <1>8, <2>1
        <3>2. Cut(grown) = [grown EXCEPT !.len = p.tlen]
            <4> HIDE DEF grown, fl, c
            <4> QED BY <1>8, <1>9, <2>1, <3>1 DEF Cut, Slice
        <3>3. L = p.tlen
            BY <2>1
        <3>4. [grown EXCEPT !.len = p.tlen] = [p EXCEPT !.arr = moved, !.flen = fl, !.len = p.tlen]
            <4> HIDE DEF grown, fl, moved, c
            <4> QED BY <1>2, <1>8 DEF Shaped
        <3> HIDE DEF grown, fl, moved, c, L
        <3> QED BY <3>2, <3>3, <3>4
    <2>2. CASE ~(p.tlen >= SumLens(p.flen) + c)
        <3>1. Cut(grown) = grown
            <4> HIDE DEF grown, fl, c
            <4> QED BY <1>8, <1>9, <2>2 DEF Cut
        <3>2. L = p.len + c
            BY <2>2
        <3> HIDE DEF grown, fl, moved, c, L
        <3> QED BY <1>8, <3>1, <3>2
    <2> QED BY <2>1, <2>2
<1>11. setTo(p, f) = r
    <2>1. fcaps[f] - p.flen[f] = c /\ c # 0
        BY <1>1
    <2>2. setTo(p, f) = Cut([Shift(Slice(p, p.len + c), q, c) EXCEPT !.flen[f] = c])
        BY <2>1 DEF setTo, setFieldLen
    <2>3. setTo(p, f) = Cut(grown)
        BY <1>4, <1>6, <2>2
    <2> QED BY <1>10, <2>3
<1>12. r.arr = moved /\ Cap(r) = Cap(p) /\ r.flen = fl /\ r.len = L
    <2> HIDE DEF moved, fl, L
    <2> QED BY <1>2, <1>7 DEF Shaped, Cap
<1>13. Write(r, q, b) = [r EXCEPT !.arr = A]
    <2>1. q \in 0..Cap(r) /\ IsBytes(r.arr)
        <3> HIDE DEF r, moved, fl, L, q, c
        <3> QED BY <1>1, <1>7, <1>12
    <2>2. Write(r, q, b) = [r EXCEPT !.arr = Written(r.arr, q, b)]
        <3> HIDE DEF r, q
        <3> QED BY <2>1, WriteIs
    <2> HIDE DEF r, q, moved
    <2> QED BY <1>12, <2>2
<1>14. set(p, f, b) = [p EXCEPT !.arr = A, !.flen = fl, !.len = L]
    <2>1. set(p, f, b) = [r EXCEPT !.arr = A]
        BY <1>11, <1>13 DEF set
    <2>2. [r EXCEPT !.arr = A] = [p EXCEPT !.arr = A, !.flen = fl, !.len = L]
        <3> HIDE DEF A, moved, fl, L
        <3> QED BY <1>2 DEF Shaped
    <2> QED BY <2>1, <2>2
<1>15. IsBytes(A) /\ Len(A) = Len(p.arr)
    <2> HIDE DEF moved, q
    <2> QED BY <1>1, <1>7, WrittenIs
<1>16. ASSUME NEW i \in 1..Len(p.arr)
       PROVE  A[i] = IF i <= q THEN p.arr[i]
                     ELSE IF i <= q + c THEN b[i - q]
                     ELSE IF i <= p.len + c THEN p.arr[i - c] ELSE p.arr[i]
    <2> HIDE DEF tail
    <2>1. moved[i] = IF i > q + c /\ i <= q + c + Len(tail) THEN tail[i - (q + c)] ELSE p.arr[i]
        BY DEF Written
    <2>2. A[i] = IF i > q /\ i <= q + Len(b) THEN b[i - q] ELSE moved[i]
        BY <1>7 DEF Written
    <2> HIDE DEF A, moved, q, c
    <2>3. q + c + Len(tail) = p.len + c /\ i \in Nat
        BY <1>1, <1>3
    <2>4. ASSUME i > q + c, i <= p.len + c PROVE tail[i - (q + c)] = p.arr[i - c]
        <3>1. i - (q + c) \in 1..p.len - q /\ q + (i - (q + c)) = i - c
            BY <1>1, <2>3, <2>4
        <3> QED BY <1>3, <3>1
    <2>5. Len(b) = c
        BY DEF c
    <2>6. CASE i <= q
        BY <1>1, <2>1, <2>2, <2>3, <2>6
    <2>7. CASE i > q /\ i <= q + c
        BY <1>1, <2>2, <2>3, <2>5, <2>7
    <2>8. CASE i > q + c
        <3>1. ~(i <= q) /\ ~(i <= q + c) /\ ~(i > q /\ i <= q + c)
            BY SMTT(30), <1>1, <2>3, <2>8
        <3>2. A[i] = moved[i]
            BY <2>2, <2>5, <3>1
        <3>3. CASE i <= p.len + c
            BY <2>1, <2>3, <2>4, <2>8, <3>1, <3>2, <3>3
        <3>4. CASE ~(i <= p.len + c)
            BY <2>1, <2>3, <3>1, <3>2, <3>4
        <3> QED BY <3>3, <3>4
    <2>9. i <= q \/ (i > q /\ i <= q + c) \/ i > q + c
        BY <1>1, <2>3
    <2> QED BY <2>6, <2>7, <2>8, <2>9
<1>17. Inserted(A, p.arr, q, b, c, p.len)
    <2> HIDE DEF A, q, c
    <2> QED BY <1>15, <1>16 DEF Inserted
<1> HIDE DEF A
<1> QED BY <1>14, <1>17

\* The fields come one after the other.
LEMMA Positions ==
    ASSUME NEW p, Well(p), NEW f \in Field, NEW g \in Field, f < g
    PROVE  Pos(p, f) + p.flen[f] <= Pos(p, g)
<1>1. f \in 0..(g - 1) /\ g - 1 \in Nat /\ \A i \in 1..(g - 1) : p.flen[i] \in Nat
    <2>1. f \in 0..(g - 1) /\ g - 1 \in Nat /\ \A i \in 1..(g - 1) : i \in Field
        BY FieldFacts
    <2>2. \A i \in Field : p.flen[i] \in Nat
        BY Lengths, FieldFacts
    <2> QED BY <2>1, <2>2
<1>2. SumTo(p.flen, f) <= SumTo(p.flen, g - 1)
    BY <1>1, SumUpto
<1>3. SumTo(p.flen, f) = Pos(p, f) + p.flen[f]
    BY Lengths
<1> QED BY <1>2, <1>3 DEF Pos

\* The bytes of a field.
LEMMA GetIs ==
    ASSUME NEW p, NEW f, p.flen[f] \in Nat, Pos(p, f) \in Nat
    PROVE  /\ IsBytes(get(p, f)) /\ Len(get(p, f)) = p.flen[f]
           /\ \A i \in 1..p.flen[f] : get(p, f)[i] = p.arr[Pos(p, f) + i]
<1> DEFINE m == Pos(p, f) + 1
           n == Pos(p, f) + p.flen[f]
<1>1. m \in Int /\ n \in Int /\ (m <= n => n - m + 1 = p.flen[f]) /\ (~(m <= n) => p.flen[f] = 0)
    OBVIOUS
<1>2. \A i \in 1..p.flen[f] : m + i - 1 = Pos(p, f) + i
    OBVIOUS
<1>3. get(p, f) = SubSeq(p.arr, m, n)
    BY DEF get
<1> HIDE DEF m, n
<1>4. /\ IsBytes(SubSeq(p.arr, m, n))
      /\ Len(SubSeq(p.arr, m, n)) = (IF m <= n THEN n - m + 1 ELSE 0)
      /\ \A i \in 1..Len(SubSeq(p.arr, m, n)) : SubSeq(p.arr, m, n)[i] = p.arr[m + i - 1]
    BY <1>1, SubSeqIs
<1>5. Len(SubSeq(p.arr, m, n)) = p.flen[f]
    BY <1>1, <1>4
<1> QED BY <1>2, <1>3, <1>4, <1>5

\* The bytes of a field of a well formed packet.
LEMMA GetWell ==
    ASSUME NEW p, Well(p), NEW f \in Field
    PROVE  /\ p.flen[f] \in Nat /\ Pos(p, f) \in Nat
           /\ IsBytes(get(p, f)) /\ Len(get(p, f)) = p.flen[f]
           /\ \A i \in 1..p.flen[f] : get(p, f)[i] = p.arr[Pos(p, f) + i]
<1>1. p.flen[f] \in Nat /\ Pos(p, f) \in Nat
    BY Lengths, FieldFacts
<1> QED BY <1>1, GetIs

\* A field of two packets that holds the same bytes in both.
LEMMA GetSame ==
    ASSUME NEW p, NEW q, NEW f, p.flen[f] \in Nat, Pos(p, f) \in Nat,
           q.flen[f] = p.flen[f], Pos(q, f) \in Nat,
           \A i \in 1..p.flen[f] : q.arr[Pos(q, f) + i] = p.arr[Pos(p, f) + i]
    PROVE  get(q, f) = get(p, f)
<1>1. /\ IsBytes(get(p, f)) /\ Len(get(p, f)) = p.flen[f]
      /\ \A i \in 1..p.flen[f] : get(p, f)[i] = p.arr[Pos(p, f) + i]
    BY GetIs
<1>2. /\ IsBytes(get(q, f)) /\ Len(get(q, f)) = p.flen[f]
      /\ \A i \in 1..p.flen[f] : get(q, f)[i] = q.arr[Pos(q, f) + i]
    BY GetIs
<1> QED BY <1>1, <1>2, SameBytes

\* Whether there is room to set a field.
Room(p, f) == p.flen[f] = 0 => p.len + fcaps[f] <= Cap(p) /\ p.tlen <= Cap(p)

\* The shape of a packet once a field was set.
SetShape(q, p, f) ==
    /\ q.flen = [p.flen EXCEPT ![f] = fcaps[f]]
    /\ q.tlen = p.tlen /\ q.key = p.key /\ Cap(q) = Cap(p)
    /\ q.len = IF p.flen[f] # 0 THEN p.len
               ELSE IF p.tlen >= SumLens(p.flen) + fcaps[f] THEN p.tlen ELSE p.len + fcaps[f]

\* set of a field that has its place: it reads back, and no other field changes.
LEMMA SetOverGet ==
    ASSUME NEW p, Well(p), NEW f \in Field, p.flen[f] = fcaps[f], NEW b, IsBytes(b),
           Len(b) = fcaps[f]
    PROVE  /\ Well(set(p, f, b)) /\ SetShape(set(p, f, b), p, f)
           /\ get(set(p, f, b), f) = b
           /\ \A g \in Field : g # f => get(set(p, f, b), g) = get(p, g)
<1> DEFINE w == Written(p.arr, Pos(p, f), b)
           q == [p EXCEPT !.arr = w]
<1>1. set(p, f, b) = q
    BY SetOver
<1>2. IsBytes(p.arr) /\ Pos(p, f) \in Nat
    BY GetWell DEF Well
<1>3. IsBytes(w) /\ Len(w) = Len(p.arr)
      /\ \A i \in 1..Len(p.arr) : w[i] = IF i > Pos(p, f) /\ i <= Pos(p, f) + fcaps[f]
                                         THEN b[i - Pos(p, f)] ELSE p.arr[i]
    BY <1>2, WrittenIs DEF Written
<1> HIDE DEF w
<1>4. /\ q.arr = w /\ q.flen = p.flen /\ q.len = p.len /\ q.tlen = p.tlen /\ q.key = p.key
      /\ Cap(q) = Cap(p) /\ Shaped(q) /\ q.ok = TRUE
    BY <1>3 DEF Well, Shaped, Cap
<1>5. Well(q)
    <2> HIDE DEF q
    <2> QED BY <1>3, <1>4 DEF Well
<1>6. SetShape(q, p, f)
    <2>1. p.flen = [p.flen EXCEPT ![f] = fcaps[f]]
        <3>1. p.flen \in [Field -> Nat] /\ p.flen[f] = fcaps[f]
            BY DEF Well
        <3> QED BY <3>1
    <2>2. p.flen[f] # 0
        BY FieldFacts
    <2> HIDE DEF q
    <2> QED BY <1>4, <2>1, <2>2 DEF SetShape
<1>7. \A g \in Field : Pos(q, g) = Pos(p, g)
    <2> HIDE DEF q
    <2> QED BY <1>4 DEF Pos
<1>8. \A g \in Field : Pos(p, g) + p.flen[g] <= Len(p.arr) /\ Pos(p, g) \in Nat /\ p.flen[g] \in Nat
    <2>1. p.len \in 0..Cap(p) /\ SumLens(p.flen) <= p.len /\ Cap(p) = Len(p.arr) /\ Cap(p) \in Nat
        BY DEF Well, Cap, IsBytes
    <2>2. \A g \in Field : Pos(p, g) \in Nat /\ Pos(p, g) + p.flen[g] <= SumLens(p.flen)
          /\ p.flen[g] \in Nat
        BY Lengths, FieldFacts
    <2>3. SumLens(p.flen) \in Nat
        BY Lengths
    <2> QED BY SMTT(30), <2>1, <2>2, <2>3
<1>9. get(q, f) = b
    <2>1. /\ IsBytes(get(q, f)) /\ Len(get(q, f)) = fcaps[f]
          /\ \A i \in 1..fcaps[f] : get(q, f)[i] = w[Pos(p, f) + i]
        <3>1. q.flen[f] = fcaps[f]
            <4> HIDE DEF q
            <4> QED BY <1>4
        <3> HIDE DEF q
        <3> QED BY <1>4, <1>5, <1>7, <3>1, GetWell
    <2>2. ASSUME NEW i \in 1..fcaps[f] PROVE w[Pos(p, f) + i] = b[i]
        <3>1. Pos(p, f) + i \in 1..Len(p.arr) /\ Pos(p, f) + i > Pos(p, f)
              /\ Pos(p, f) + i <= Pos(p, f) + fcaps[f] /\ (Pos(p, f) + i) - Pos(p, f) = i
            <4> DEFINE x == Pos(p, f)
                       c == fcaps[f]
            <4>1. x \in Nat /\ c \in Nat /\ x + c <= Len(p.arr) /\ Len(p.arr) \in Nat /\ i \in 1..c
                BY <1>2, <1>8 DEF IsBytes
            <4> HIDE DEF x, c
            <4>2. x + i \in 1..Len(p.arr) /\ x + i > x /\ x + i <= x + c /\ (x + i) - x = i
                BY ONLY <4>1
            <4> QED BY <4>2 DEF x, c
        <3> QED BY <1>3, <3>1
    <2> HIDE DEF q
    <2> QED BY <2>1, <2>2, SameBytes
<1>10. ASSUME NEW g \in Field, g # f PROVE get(q, g) = get(p, g)
    <2>1. ASSUME NEW i \in 1..p.flen[g] PROVE w[Pos(p, g) + i] = p.arr[Pos(p, g) + i]
        <3>1. Pos(p, g) + i \in 1..Len(p.arr)
            BY <1>8
        <3>2. f < g => Pos(p, f) + fcaps[f] <= Pos(p, g)
            BY Positions
        <3>3. g < f => Pos(p, g) + p.flen[g] <= Pos(p, f)
            BY Positions
        <3>4. f \in 1..13 /\ g \in 1..13
            BY FieldFacts
        <3>5. ~(Pos(p, g) + i > Pos(p, f) /\ Pos(p, g) + i <= Pos(p, f) + fcaps[f])
            <4> DEFINE x == Pos(p, f)
                       y == Pos(p, g)
                       c == fcaps[f]
                       d == p.flen[g]
            <4>1. x \in Nat /\ y \in Nat /\ c \in Nat /\ d \in Nat /\ i \in 1..d
                  /\ (x + c <= y \/ y + d <= x)
                <5>1. f < g \/ g < f
                    BY SMTT(30), <1>10, <3>4
                <5> QED BY <1>8, <3>2, <3>3, <5>1, FieldFacts
            <4> HIDE DEF x, y, c, d
            <4>2. ~(y + i > x /\ y + i <= x + c)
                BY ONLY <4>1
            <4> QED BY <4>2 DEF x, y, c
        <3> QED BY <1>3, <3>1, <3>5
    <2> HIDE DEF q
    <2> QED BY <1>4, <1>7, <1>8, <2>1, GetSame
<1> HIDE DEF q
<1> QED BY <1>1, <1>5, <1>6, <1>9, <1>10

\* set of a field that gets a place: it reads back, and no other field changes.
LEMMA SetInGet ==
    ASSUME NEW p, Well(p), NEW f \in Field, p.flen[f] = 0, Room(p, f), NEW b, IsBytes(b),
           Len(b) = fcaps[f]
    PROVE  /\ Well(set(p, f, b)) /\ SetShape(set(p, f, b), p, f)
           /\ get(set(p, f, b), f) = b
           /\ \A g \in Field : g # f => get(set(p, f, b), g) = get(p, g)
<1> DEFINE c == fcaps[f]
           fl == [p.flen EXCEPT ![f] = c]
           L == IF p.tlen >= SumLens(p.flen) + c THEN p.tlen ELSE p.len + c
<1>1. PICK A : /\ Inserted(A, p.arr, Pos(p, f), b, c, p.len)
               /\ set(p, f, b) = [p EXCEPT !.arr = A, !.flen = fl, !.len = L]
    BY SetIn DEF Room
<1> DEFINE q == [p EXCEPT !.arr = A, !.flen = fl, !.len = L]
<1>2. IsBytes(A) /\ Len(A) = Len(p.arr)
      /\ \A i \in 1..Len(p.arr) : A[i] = IF i <= Pos(p, f) THEN p.arr[i]
                                     ELSE IF i <= Pos(p, f) + c THEN b[i - Pos(p, f)]
                                     ELSE IF i <= p.len + c THEN p.arr[i - c] ELSE p.arr[i]
    BY <1>1 DEF Inserted
<1>3. /\ fl \in [Field -> Nat] /\ \A g \in Field : fl[g] \in {0, fcaps[g]}
      /\ SumLens(fl) = SumLens(p.flen) + c
      /\ \A g \in Field : SumTo(fl, g - 1) = Pos(p, g) + (IF g > f THEN c ELSE 0)
    BY Grown
<1>4. \A g \in Field : fl[g] = IF g = f THEN c ELSE p.flen[g]
    BY Lengths, FieldFacts
<1>5. p.len \in Nat /\ p.len + c <= Cap(p) /\ p.tlen <= Cap(p) /\ c \in Nat /\ Cap(p) \in Nat
      /\ p.tlen \in Int /\ SumLens(p.flen) \in Nat /\ SumLens(p.flen) <= p.len /\ Cap(p) = Len(p.arr)
    <2>1. p.len \in 0..Cap(p) /\ p.tlen \in Int /\ SumLens(p.flen) <= p.len /\ IsBytes(p.arr)
        BY DEF Well
    <2>2. Cap(p) = Len(p.arr) /\ Cap(p) \in Nat
        BY <2>1 DEF IsBytes, Cap
    <2>3. SumLens(p.flen) \in Nat /\ fcaps[f] \in Nat
        BY Lengths, FieldFacts
    <2>4. p.len + fcaps[f] <= Cap(p) /\ p.tlen <= Cap(p)
        BY DEF Room
    <2> QED BY <2>1, <2>2, <2>3, <2>4
<1>6. L \in 0..Cap(p) /\ SumLens(p.flen) + c <= L
    <2> HIDE DEF c
    <2> QED BY <1>5
<1> HIDE DEF c, fl, L
<1>7. /\ q.arr = A /\ q.flen = fl /\ q.len = L /\ q.tlen = p.tlen /\ q.key = p.key
      /\ Cap(q) = Cap(p) /\ Shaped(q) /\ q.ok = TRUE
    <2>1. Shaped(p) /\ p.ok = TRUE
        BY DEF Well
    <2>2. /\ q.arr = A /\ q.flen = fl /\ q.len = L /\ q.tlen = p.tlen /\ q.key = p.key
          /\ Shaped(q) /\ q.ok = TRUE
        BY <2>1 DEF Shaped
    <2> HIDE DEF q
    <2> QED BY <1>2, <2>2 DEF Cap
<1>8. Well(q)
    <2>1. SumCaps <= Cap(p) /\ p.tlen \in Int
        BY DEF Well
    <2> HIDE DEF q
    <2> QED BY <1>2, <1>3, <1>6, <1>7, <2>1 DEF Well
<1>9. SetShape(q, p, f)
    <2>1. p.flen[f] = 0
        OBVIOUS
    <2> HIDE DEF q
    <2> QED BY <1>7, <2>1 DEF SetShape, fl, L, c
<1>10. \A g \in Field : Pos(q, g) = Pos(p, g) + (IF g > f THEN c ELSE 0)
    <2> HIDE DEF q
    <2> QED BY <1>3, <1>7 DEF Pos
<1>11. \A g \in Field : /\ Pos(p, g) + p.flen[g] <= p.len /\ Pos(p, g) \in Nat
                        /\ p.flen[g] \in Nat /\ g \in 1..13
    <2>1. \A g \in Field : Pos(p, g) \in Nat /\ Pos(p, g) + p.flen[g] <= SumLens(p.flen)
          /\ p.flen[g] \in Nat /\ g \in 1..13
        BY Lengths, FieldFacts
    <2> QED BY SMTT(30), <1>5, <2>1
<1>12. get(q, f) = b
    <2>1. q.flen[f] = c /\ Pos(q, f) = Pos(p, f)
        <3> HIDE DEF q
        <3>1. Pos(q, f) = Pos(p, f)
            BY SMTT(30), <1>10, <1>11
        <3> QED BY <1>4, <1>7, <3>1
    <2>2. /\ IsBytes(get(q, f)) /\ Len(get(q, f)) = c
          /\ \A i \in 1..c : get(q, f)[i] = A[Pos(p, f) + i]
        <3> HIDE DEF q
        <3> QED BY <1>7, <1>8, <2>1, GetWell
    <2>3. ASSUME NEW i \in 1..c PROVE A[Pos(p, f) + i] = b[i]
        <3>1. Pos(p, f) + i \in 1..Len(p.arr) /\ ~(Pos(p, f) + i <= Pos(p, f))
              /\ Pos(p, f) + i <= Pos(p, f) + c /\ (Pos(p, f) + i) - Pos(p, f) = i
            <4> DEFINE x == Pos(p, f)
            <4>1. x \in Nat /\ c \in Nat /\ x + c <= Len(p.arr) /\ Len(p.arr) \in Nat /\ i \in 1..c
                <5>1. Pos(p, f) + p.flen[f] <= p.len /\ Pos(p, f) \in Nat /\ p.flen[f] = 0
                    BY <1>11
                <5> QED BY <1>5, <5>1
            <4> HIDE DEF x
            <4>2. x + i \in 1..Len(p.arr) /\ ~(x + i <= x) /\ x + i <= x + c /\ (x + i) - x = i
                BY ONLY <4>1
            <4> QED BY <4>2 DEF x
        <3> QED BY <1>2, <3>1
    <2>4. Len(b) = c
        BY DEF c
    <2> HIDE DEF q
    <2> QED BY <2>2, <2>3, <2>4, SameBytes
<1>13. ASSUME NEW g \in Field, g # f PROVE get(q, g) = get(p, g)
    <2>1. q.flen[g] = p.flen[g] /\ Pos(q, g) = Pos(p, g) + (IF g > f THEN c ELSE 0)
        <3> HIDE DEF q
        <3> QED BY <1>4, <1>7, <1>10, <1>13
    <2>2. Pos(q, g) \in Nat
        BY SMTT(30), <1>5, <1>11, <2>1
    <2>3. ASSUME NEW i \in 1..p.flen[g] PROVE A[Pos(q, g) + i] = p.arr[Pos(p, g) + i]
        <3> DEFINE x == Pos(p, f)
                   y == Pos(p, g)
                   z == Pos(q, g)
                   d == p.flen[g]
                   l == p.len
        <3>0. x \in Nat /\ y \in Nat /\ z \in Nat /\ d \in Nat /\ i \in 1..d /\ y + d <= l /\ x <= l
              /\ l \in Nat /\ c \in Nat /\ l + c <= Len(p.arr) /\ Len(p.arr) \in Nat
              /\ (z = y \/ z = y + c)
            <4>1. Pos(p, f) + p.flen[f] <= p.len /\ Pos(p, f) \in Nat /\ p.flen[f] = 0
                BY <1>11
            <4> QED BY <1>5, <1>11, <2>1, <2>2, <4>1
        <3> HIDE DEF x, y, z, d, l
        <3>1. Pos(q, g) + i \in 1..Len(p.arr)
            <4>1. z + i \in 1..Len(p.arr)
                BY ONLY <3>0
            <4> QED BY <4>1 DEF z
        <3>2. CASE g > f
            <4>1. Pos(p, f) + p.flen[f] <= Pos(p, g)
                BY <1>11, <3>2, Positions
            <4>2. Pos(q, g) = Pos(p, g) + c
                BY <2>1, <3>2
            <4>3. /\ ~(Pos(q, g) + i <= Pos(p, f)) /\ ~(Pos(q, g) + i <= Pos(p, f) + c)
                  /\ Pos(q, g) + i <= p.len + c /\ (Pos(q, g) + i) - c = Pos(p, g) + i
                <5>1. x <= y /\ z = y + c
                    BY <3>0, <4>1, <4>2 DEF x, y, z
                <5>2. ~(z + i <= x) /\ ~(z + i <= x + c) /\ z + i <= l + c /\ (z + i) - c = y + i
                    BY ONLY <3>0, <5>1
                <5> QED BY <5>2 DEF x, y, z, l
            <4> QED BY <1>2, <3>1, <4>3
        <3>3. CASE g < f
            <4>1. Pos(p, g) + p.flen[g] <= Pos(p, f)
                BY <3>3, Positions
            <4>2. Pos(q, g) = Pos(p, g)
                BY SMTT(30), <1>11, <2>1, <3>3
            <4>3. Pos(q, g) + i <= Pos(p, f)
                <5>1. z = y /\ y + d <= x
                    BY <4>1, <4>2 DEF x, y, z, d
                <5>2. z + i <= x
                    BY ONLY <3>0, <5>1
                <5> QED BY <5>2 DEF x, z
            <4> QED BY <1>2, <3>1, <4>2, <4>3
        <3> QED BY SMTT(30), <1>11, <1>13, <3>2, <3>3
    <2> HIDE DEF q
    <2> QED BY <1>7, <1>11, <2>1, <2>2, <2>3, GetSame
<1>14. set(p, f, b) = q
    BY <1>1
<1> HIDE DEF q
<1> QED BY <1>8, <1>9, <1>12, <1>13, <1>14

\* What is set is what get returns, and no other field is touched, though
\* those behind a field that was not set are moved.
THEOREM SetGet ==
    ASSUME NEW p, Well(p), NEW f \in Field, Room(p, f), NEW b, IsBytes(b), Len(b) = fcaps[f]
    PROVE  /\ Well(set(p, f, b)) /\ SetShape(set(p, f, b), p, f)
           /\ get(set(p, f, b), f) = b
           /\ \A g \in Field : g # f => get(set(p, f, b), g) = get(p, g)
<1>1. p.flen[f] = 0 \/ p.flen[f] = fcaps[f]
    BY DEF Well
<1>2. CASE p.flen[f] = 0
    BY <1>2, SetInGet
<1>3. CASE p.flen[f] = fcaps[f]
    BY <1>3, SetOverGet
<1> QED BY <1>1, <1>2, <1>3

-----------------------------------------------------------------------------
(* Layouts                                                                 *)

\* The positions a layout gives.
LEMMA LayoutSums ==
    ASSUME NEW s, \A i \in 1..13 : s[i] \in Nat
    PROVE  /\ SumTo(s, 0) = 0 /\ SumTo(s, 1) = s[1] /\ SumTo(s, 2) = s[1] + s[2]
           /\ SumTo(s, 3) = s[1] + s[2] + s[3] /\ SumTo(s, 4) = s[1] + s[2] + s[3] + s[4]
           /\ SumTo(s, 13) = s[1] + s[2] + s[3] + s[4] + s[5] + s[6] + s[7] + s[8] + s[9]
                             + s[10] + s[11] + s[12] + s[13]
<1> DEFINE T(n) == SumTo(s, n)
<1>0. T(0) = 0
    BY SumStep
<1>1. \A n \in 1..13 : T(n) = T(n - 1) + s[n] /\ T(n) \in Nat
    <2> SUFFICES ASSUME NEW n \in 1..13 PROVE T(n) = T(n - 1) + s[n] /\ T(n) \in Nat
        OBVIOUS
    <2>1. n \in Nat /\ n > 0 /\ \A i \in 1..n : s[i] \in Nat
        OBVIOUS
    <2> QED BY <2>1, SumStep
<1> HIDE DEF T
<1>2. /\ T(1) = T(0) + s[1] /\ T(2) = T(1) + s[2] /\ T(3) = T(2) + s[3] /\ T(4) = T(3) + s[4]
      /\ T(5) = T(4) + s[5] /\ T(6) = T(5) + s[6] /\ T(7) = T(6) + s[7] /\ T(8) = T(7) + s[8]
      /\ T(9) = T(8) + s[9] /\ T(10) = T(9) + s[10] /\ T(11) = T(10) + s[11]
      /\ T(12) = T(11) + s[12] /\ T(13) = T(12) + s[13]
    <2>1. /\ T(1) = T(1 - 1) + s[1] /\ T(2) = T(2 - 1) + s[2] /\ T(3) = T(3 - 1) + s[3]
          /\ T(4) = T(4 - 1) + s[4] /\ T(5) = T(5 - 1) + s[5] /\ T(6) = T(6 - 1) + s[6]
          /\ T(7) = T(7 - 1) + s[7] /\ T(8) = T(8 - 1) + s[8] /\ T(9) = T(9 - 1) + s[9]
          /\ T(10) = T(10 - 1) + s[10] /\ T(11) = T(11 - 1) + s[11]
          /\ T(12) = T(12 - 1) + s[12] /\ T(13) = T(13 - 1) + s[13]
        BY <1>1
    <2> QED BY <2>1
<1>3. \A i \in 1..13 : s[i] \in Nat
    OBVIOUS
<1>4. /\ T(0) = 0 /\ T(1) = s[1] /\ T(2) = s[1] + s[2]
      /\ T(3) = s[1] + s[2] + s[3] /\ T(4) = s[1] + s[2] + s[3] + s[4]
    BY <1>0, <1>2, <1>3
<1>5. T(13) = s[1] + s[2] + s[3] + s[4] + s[5] + s[6] + s[7] + s[8] + s[9]
              + s[10] + s[11] + s[12] + s[13]
    BY <1>2, <1>3, <1>4
<1> QED BY <1>4, <1>5 DEF T

\* The capacities in numbers.
LEMMA Caps ==
    /\ fcaps[1] = 3 /\ fcaps[2] = 1 /\ fcaps[3] = 16 /\ fcaps[4] = 8 /\ fcaps[5] = 4
    /\ fcaps[6] = 4 /\ fcaps[7] = 8 /\ \A f \in 8..13 : fcaps[f] = 8
    /\ SumCaps = 92 /\ maxHeaderLen = 92
<1>1. /\ fcaps[1] = 3 /\ fcaps[2] = 1 /\ fcaps[3] = 16 /\ fcaps[4] = 8 /\ fcaps[5] = 4
      /\ fcaps[6] = 4 /\ fcaps[7] = 8 /\ \A f \in 8..13 : fcaps[f] = 8
    BY DEF fcaps
<1>2. /\ fcaps[8] = 8 /\ fcaps[9] = 8 /\ fcaps[10] = 8 /\ fcaps[11] = 8 /\ fcaps[12] = 8
      /\ fcaps[13] = 8
    BY <1>1
<1>3. SumCaps = SumTo(fcaps, 13)
    BY FieldFacts DEF SumCaps
<1>4. \A i \in 1..13 : fcaps[i] \in Nat
    BY FieldFacts
<1>5. SumTo(fcaps, 13) = 92
    <2> HIDE DEF fcaps
    <2>1. SumTo(fcaps, 13) = fcaps[1] + fcaps[2] + fcaps[3] + fcaps[4] + fcaps[5] + fcaps[6]
             + fcaps[7] + fcaps[8] + fcaps[9] + fcaps[10] + fcaps[11] + fcaps[12] + fcaps[13]
        BY ONLY <1>4, LayoutSums
    <2> QED BY <1>1, <1>2, <2>1
<1> QED BY <1>1, <1>3, <1>5 DEF maxHeaderLen

\* What a packet holds between its header and where its payload starts.
Layout(p, fidxs) == p.flen = [f \in Field |-> IF f \in fidxs THEN fcaps[f] ELSE 0]

\* Positions and lengths of packets of an open request and its reply.
LEMMA OpenLayout ==
    ASSUME NEW p, NEW F, Layout(p, F), fMagic \in F, fFlags \in F
    PROVE  /\ p.flen \in [Field -> Nat] /\ \A f \in Field : p.flen[f] \in {0, fcaps[f]}
           /\ \A f \in Field : p.flen[f] = IF f \in F THEN fcaps[f] ELSE 0
           /\ p.flen[fMagic] = 3 /\ p.flen[fFlags] = 1
           /\ p.flen[fHMAC] = (IF fHMAC \in F THEN 16 ELSE 0)
           /\ p.flen[fConnToken] = (IF fConnToken \in F THEN 8 ELSE 0)
           /\ Pos(p, fMagic) = 0 /\ Pos(p, fFlags) = 3 /\ Pos(p, fHMAC) = 4
           /\ Pos(p, fConnToken) = 4 + p.flen[fHMAC]
           /\ SumLens(p.flen) \in Nat /\ SumLens(p.flen) >= 4 + p.flen[fHMAC] + p.flen[fConnToken]
           /\ SumLens(p.flen) <= 92
           /\ F \subseteq 1..4 => SumLens(p.flen) = 4 + p.flen[fHMAC] + p.flen[fConnToken]
<1>1. /\ p.flen \in [Field -> Nat] /\ \A f \in Field : p.flen[f] \in {0, fcaps[f]}
      /\ \A f \in Field : p.flen[f] = IF f \in F THEN fcaps[f] ELSE 0
    BY FieldFacts DEF Layout
<1> USE DEF fMagic, fFlags, fHMAC, fConnToken
<1>2. /\ p.flen[1] = 3 /\ p.flen[2] = 1
      /\ p.flen[3] = (IF 3 \in F THEN 16 ELSE 0) /\ p.flen[4] = (IF 4 \in F THEN 8 ELSE 0)
      /\ F \subseteq 1..4 => \A f \in 5..13 : p.flen[f] = 0
    <2>1. 1 \in Field /\ 2 \in Field /\ 3 \in Field /\ 4 \in Field /\ 5..13 \subseteq Field
        BY FieldFacts
    <2>2. p.flen[1] = 3 /\ p.flen[2] = 1
        BY <1>1, <2>1, Caps
    <2>3. p.flen[3] = (IF 3 \in F THEN 16 ELSE 0) /\ p.flen[4] = (IF 4 \in F THEN 8 ELSE 0)
        BY <1>1, <2>1, Caps
    <2>4. F \subseteq 1..4 => \A f \in 5..13 : f \notin F
        OBVIOUS
    <2>5. F \subseteq 1..4 => \A f \in 5..13 : p.flen[f] = 0
        BY <1>1, <2>1, <2>4
    <2> QED BY <2>2, <2>3, <2>5
<1>3. F \subseteq 1..4 =>
        /\ p.flen[5] = 0 /\ p.flen[6] = 0 /\ p.flen[7] = 0 /\ p.flen[8] = 0 /\ p.flen[9] = 0
        /\ p.flen[10] = 0 /\ p.flen[11] = 0 /\ p.flen[12] = 0 /\ p.flen[13] = 0
    BY <1>2
<1> DEFINE s == p.flen
<1>4. /\ \A i \in 1..13 : s[i] \in Nat
      /\ s[3] <= 16 /\ s[4] <= 8 /\ s[5] <= 4 /\ s[6] <= 4 /\ s[7] <= 8 /\ s[8] <= 8 /\ s[9] <= 8
      /\ s[10] <= 8 /\ s[11] <= 8 /\ s[12] <= 8 /\ s[13] <= 8
    <2>1. \A i \in 1..13 : s[i] \in {0, fcaps[i]} /\ s[i] \in Nat
        BY <1>1, FieldFacts
    <2> HIDE DEF s
    <2> QED BY <2>1, Caps
<1>5. Len(s) = 13
    <2>1. s = [i \in 1..13 |-> s[i]] /\ 13 \in Nat
        BY <1>1, FieldFacts
    <2> HIDE DEF s
    <2> QED BY <2>1, BytesLen
<1> HIDE DEF s
<1>6. /\ SumTo(s, 0) = 0 /\ SumTo(s, 1) = s[1] /\ SumTo(s, 2) = s[1] + s[2]
      /\ SumTo(s, 3) = s[1] + s[2] + s[3]
      /\ SumTo(s, 13) = s[1] + s[2] + s[3] + s[4] + s[5] + s[6] + s[7] + s[8] + s[9]
                        + s[10] + s[11] + s[12] + s[13]
    BY ONLY <1>4, LayoutSums
<1>7. /\ Pos(p, 1) = SumTo(s, 0) /\ Pos(p, 2) = SumTo(s, 1) /\ Pos(p, 3) = SumTo(s, 2)
      /\ Pos(p, 4) = SumTo(s, 3)
    <2>1. 1 - 1 = 0 /\ 2 - 1 = 1 /\ 3 - 1 = 2 /\ 4 - 1 = 3
        OBVIOUS
    <2> QED BY <2>1 DEF Pos, s
<1>8. SumLens(s) = SumTo(s, 13)
    BY <1>5 DEF SumLens
<1>9. /\ SumTo(s, 3) = 4 + s[3] /\ SumTo(s, 2) = 4 /\ SumTo(s, 1) = 3
    BY <1>2, <1>4, <1>6 DEF s
<1>10. /\ SumLens(s) \in Nat /\ SumLens(s) >= 4 + s[3] + s[4] /\ SumLens(s) <= 92
       /\ F \subseteq 1..4 => SumLens(s) = 4 + s[3] + s[4]
    <2>1. s[1] = 3 /\ s[2] = 1 /\ s[3] \in Nat /\ s[4] \in Nat
        BY <1>2, <1>4 DEF s
    <2>2. SumTo(s, 4) = s[1] + s[2] + s[3] + s[4]
        BY ONLY <1>4, LayoutSums
    <2>3. SumTo(s, 4) <= SumTo(s, 13) /\ SumTo(s, 13) \in Nat
        <3>1. 4 \in 0..13 /\ 13 \in Nat
            OBVIOUS
        <3> QED BY ONLY <1>4, <3>1, SumUpto, SumStep
    <2>4. SumTo(s, 13) <= 92
        <3>1. \A i \in 1..13 : s[i] \in Nat /\ fcaps[i] \in Nat /\ s[i] <= fcaps[i]
            BY <1>1, <1>4, FieldFacts DEF s
        <3>2. SumTo(s, 13) <= SumTo(fcaps, 13) /\ 13 \in Nat
            BY ONLY <3>1, SumMore
        <3> QED BY <3>2, Caps, FieldFacts DEF SumCaps
    <2>5. F \subseteq 1..4 => SumTo(s, 13) = s[1] + s[2] + s[3] + s[4]
        BY <1>3, <1>4, <1>6 DEF s
    <2> QED BY <1>8, <2>1, <2>2, <2>3, <2>4, <2>5
<1> QED BY <1>1, <1>2, <1>6, <1>7, <1>9, <1>10 DEF s

-----------------------------------------------------------------------------
(* Packets of the open request and its reply                               *)

\* Packets that are the same in every part.
LEMMA SameParts ==
    ASSUME NEW p, NEW q, Shaped(p), Shaped(q), p.arr = q.arr, p.len = q.len, p.tlen = q.tlen,
           p.flen = q.flen, p.ok = q.ok, p.key = q.key
    PROVE  p = q
<1>1. \A x \in DOMAIN p : p[x] = q[x]
    BY DEF Shaped
<1> QED BY <1>1 DEF Shaped

\* A record of those fields is shaped.
LEMMA RecordShaped ==
    ASSUME NEW a, NEW l, NEW t, NEW f, NEW o, NEW k
    PROVE  Shaped([arr |-> a, len |-> l, tlen |-> t, flen |-> f, ok |-> o, key |-> k])
BY DEF Shaped

\* The HMAC is a field of the header of those who have a key.
Keyed(key) == IF key = NoKey THEN {} ELSE {fHMAC}

\* The fields that newPacket starts with.
HeaderOf(key) == {fMagic, fFlags} \cup Keyed(key)

\* finit of newPacket and of the reader is that header.
LEMMA HeaderIs ==
    ASSUME NEW key
    PROVE  /\ HeaderOf(key) = finit(key) /\ HeaderOf(key) \subseteq 1..4
           /\ fMagic \in HeaderOf(key) /\ fFlags \in HeaderOf(key)
           /\ fHMAC \in HeaderOf(key) <=> key # NoKey
           /\ fConnToken \notin HeaderOf(key)
BY DEF HeaderOf, Keyed, finit, NoKey, fMagic, fFlags, fHMAC, fConnToken

\* The magic bytes.
LEMMA MagicIs == IsBytes(Magic) /\ Len(Magic) = 3
<1>1. Magic = [k \in 1..3 |-> Magic[k]] /\ 3 \in Nat
    BY DEF Magic
<1> QED BY <1>1, BytesLen

\* A new packet holds its header and nothing else.
LEMMA NewPacketIs ==
    ASSUME NEW cap \in Int, NEW key
    PROVE  LET p == newPacket(0, cap, key)
           IN  /\ Well(p) /\ Layout(p, HeaderOf(key)) /\ p.key = key
               /\ Cap(p) = Greater(cap, 92) /\ p.len = SumLens(p.flen) /\ p.tlen = p.len
               /\ get(p, fMagic) = Magic /\ flags(p) = {}
<1> DEFINE n == Greater(cap, 92)
           arr == [i \in 1..n |-> Zero]
           fl == [f \in Field |-> IF f \in HeaderOf(key) THEN fcaps[f] ELSE 0]
           p0 == [arr |-> arr, len |-> 0, tlen |-> 0, flen |-> [f \in Field |-> 0],
                  ok |-> TRUE, key |-> key]
           p1 == [p0 EXCEPT !.flen = fl]
           T == SumLens(fl)
           p2 == [arr |-> arr, len |-> T, tlen |-> T, flen |-> fl, ok |-> TRUE, key |-> key]
<1>1. n \in Nat /\ n >= 92
    BY DEF Greater
<1>2. IsBytes(arr) /\ Len(arr) = n
    <2>1. arr = [i \in 1..n |-> arr[i]]
        OBVIOUS
    <2> HIDE DEF arr, n
    <2> QED BY <1>1, <2>1, BytesLen
<1>3. /\ p1.arr = arr /\ p1.flen = fl /\ p1.len = 0 /\ p1.tlen = 0 /\ p1.ok = TRUE /\ p1.key = key
      /\ Shaped(p1)
    <2>1. Shaped(p0) /\ p0.arr = arr /\ p0.len = 0 /\ p0.tlen = 0 /\ p0.ok = TRUE /\ p0.key = key
        <3> HIDE DEF arr
        <3> QED BY RecordShaped
    <2> HIDE DEF p0, fl, arr
    <2> QED BY <2>1 DEF Shaped
<1>4. Layout(p2, HeaderOf(key))
    BY DEF Layout
<1>5. /\ fl \in [Field -> Nat] /\ \A f \in Field : fl[f] \in {0, fcaps[f]}
      /\ T = 4 + fl[fHMAC] + fl[fConnToken] /\ fl[fMagic] = 3 /\ fl[fFlags] = 1
      /\ fl[fHMAC] \in {0, 16} /\ fl[fConnToken] = 0
    <2> DEFINE q == p2
    <2>1. Layout(q, HeaderOf(key)) /\ q.flen = fl
        BY <1>4
    <2> HIDE DEF q, fl
    <2>2. /\ q.flen \in [Field -> Nat] /\ \A f \in Field : q.flen[f] \in {0, fcaps[f]}
          /\ q.flen[fMagic] = 3 /\ q.flen[fFlags] = 1
          /\ q.flen[fHMAC] = (IF fHMAC \in HeaderOf(key) THEN 16 ELSE 0)
          /\ q.flen[fConnToken] = (IF fConnToken \in HeaderOf(key) THEN 8 ELSE 0)
          /\ SumLens(q.flen) = 4 + q.flen[fHMAC] + q.flen[fConnToken]
        BY <2>1, HeaderIs, OpenLayout
    <2> QED BY <2>1, <2>2, HeaderIs
<1>6. T \in 4..20
    <2> HIDE DEF fl, T
    <2> QED BY <1>5
<1>7. setFields(p0, finit(key), TRUE) = p2
    <2>1. [f \in Field |-> IF f \in finit(key) THEN fcaps[f] ELSE 0] = fl
        BY HeaderIs
    <2>2. setFields(p0, finit(key), TRUE) = setLen(p1, T)
        <3> HIDE DEF fl
        <3> QED BY <2>1 DEF setFields, Relaid
    <2> HIDE DEF fl, arr, p0
    <2>3. Cap(p1) = n /\ SumLens(p1.flen) = T
        <3>1. p1.arr = arr /\ p1.flen = fl
            BY <1>3
        <3> HIDE DEF p1
        <3> QED BY <1>2, <3>1 DEF Cap
    <2>4. Lesser(Cap(p1), Greater(T, SumLens(p1.flen))) = T
        <3> HIDE DEF p1, n, T
        <3> QED BY <1>1, <1>6, <2>3 DEF Lesser, Greater
    <2> DEFINE p1t == [p1 EXCEPT !.tlen = T]
    <2>5. /\ p1t.arr = arr /\ p1t.flen = fl /\ p1t.tlen = T /\ p1t.ok = TRUE /\ p1t.key = key
          /\ Shaped(p1t)
        <3> HIDE DEF p1, T
        <3> QED BY <1>3 DEF Shaped
    <2>6. Cap(p1t) = n /\ [p1t EXCEPT !.len = T] = p2
        <3>1. p1t.arr = arr
            BY <2>5
        <3>2. [p1t EXCEPT !.len = T] = p2
            <4> DEFINE r == [p1t EXCEPT !.len = T]
            <4> HIDE DEF T, p1t
            <4>1. /\ r.arr = arr /\ r.flen = fl /\ r.tlen = T /\ r.ok = TRUE /\ r.key = key
                  /\ r.len = T /\ Shaped(r)
                BY <2>5 DEF Shaped
            <4>2. /\ p2.arr = arr /\ p2.flen = fl /\ p2.tlen = T /\ p2.ok = TRUE /\ p2.key = key
                  /\ p2.len = T /\ Shaped(p2)
                BY RecordShaped
            <4> HIDE DEF r, p2
            <4>3. r = p2
                BY <4>1, <4>2, SameParts
            <4> QED BY <4>3 DEF r
        <3> HIDE DEF p1t
        <3> QED BY <1>2, <3>1, <3>2 DEF Cap
    <2>7. Slice(p1t, T) = p2
        <3> HIDE DEF p1t, p2, T, n
        <3> QED BY <1>1, <1>6, <2>6 DEF Slice
    <2>8. setLen(p1, T) = Slice(p1t, T)
        <3> HIDE DEF p1, T
        <3> QED BY <2>4 DEF setLen, Cap
    <2> QED BY <2>2, <2>7, <2>8
<1>8. Well(p2)
    <2>1. /\ p2.arr = arr /\ p2.len = T /\ p2.tlen = T /\ p2.flen = fl /\ p2.ok = TRUE /\ p2.key = key
          /\ Shaped(p2)
        <3> HIDE DEF arr, T, fl
        <3> QED BY DEF Shaped
    <2>2. Cap(p2) = n
        <3> HIDE DEF p2
        <3> QED BY <1>2, <2>1 DEF Cap
    <2>3. T \in 0..Cap(p2) /\ SumCaps <= Cap(p2) /\ T \in Int
        <3> HIDE DEF p2, T, n
        <3> QED BY <1>1, <1>6, <2>2, Caps
    <2>4. SumLens(p2.flen) = T
        BY <2>1
    <2> HIDE DEF p2, arr, T, fl, n
    <2> QED BY <1>2, <1>5, <1>6, <2>1, <2>3, <2>4 DEF Well
<1> DEFINE p == set(p2, fMagic, Magic)
<1>9. newPacket(0, cap, key) = p
    <2> HIDE DEF p2
    <2>1. newFbuf(0, Greater(cap, maxHeaderLen)) =
            [arr |-> arr, len |-> 0, tlen |-> 0, flen |-> [f \in Field |-> 0], ok |-> TRUE]
        <3>1. Greater(Greater(cap, 92), 92) = n
            BY DEF Greater
        <3> QED BY ONLY <3>1, Caps DEF newFbuf
    <2>2. newPacket(0, cap, key) = set(setFields(p0, finit(key), TRUE), fMagic, Magic)
        <3> DEFINE fb == newFbuf(0, Greater(cap, maxHeaderLen))
        <3>1. /\ fb.arr = arr /\ fb.len = 0 /\ fb.tlen = 0 /\ fb.flen = [f \in Field |-> 0]
              /\ fb.ok = TRUE
            <4> HIDE DEF arr
            <4> QED BY <2>1
        <3> HIDE DEF fb, arr
        <3>2. [arr |-> fb.arr, len |-> fb.len, tlen |-> fb.tlen, flen |-> fb.flen, ok |-> fb.ok,
               key |-> key] = p0
            BY <3>1
        <3> HIDE DEF p0
        <3> QED BY <3>2 DEF newPacket, fb
    <2> QED BY <1>7, <2>2
<1>10. /\ p2.len = T /\ p2.tlen = T /\ p2.flen = fl /\ p2.key = key /\ Cap(p2) = n /\ p2.arr = arr
    <2>1. /\ p2.len = T /\ p2.tlen = T /\ p2.flen = fl /\ p2.key = key /\ p2.arr = arr
        BY DEF p2
    <2> HIDE DEF p2, arr
    <2> QED BY <1>2, <2>1 DEF Cap
<1>11. fMagic \in Field /\ fFlags \in Field /\ fFlags # fMagic /\ fcaps[fMagic] = 3
    BY FieldFacts, Caps DEF fMagic, fFlags
<1>12. p2.flen[fMagic] # 0 /\ Room(p2, fMagic)
    <2> HIDE DEF p2, fl
    <2> QED BY <1>5, <1>10 DEF Room
<1>13. /\ Well(p) /\ SetShape(p, p2, fMagic) /\ get(p, fMagic) = Magic
       /\ get(p, fFlags) = get(p2, fFlags)
    <2> HIDE DEF p2
    <2>1. Len(Magic) = fcaps[fMagic] /\ IsBytes(Magic)
        BY <1>11, MagicIs
    <2> HIDE DEF p
    <2>2. /\ Well(set(p2, fMagic, Magic)) /\ SetShape(set(p2, fMagic, Magic), p2, fMagic)
           /\ get(set(p2, fMagic, Magic), fMagic) = Magic
           /\ \A g \in Field : g # fMagic => get(set(p2, fMagic, Magic), g) = get(p2, g)
        <3> DEFINE f == fMagic
                   b == Magic
        <3>1. Well(p2) /\ f \in Field /\ Room(p2, f) /\ IsBytes(b) /\ Len(b) = fcaps[f]
            BY <1>8, <1>11, <1>12, <2>1
        <3> HIDE DEF f, b
        <3>2. /\ Well(set(p2, f, b)) /\ SetShape(set(p2, f, b), p2, f)
              /\ get(set(p2, f, b), f) = b
              /\ \A g \in Field : g # f => get(set(p2, f, b), g) = get(p2, g)
            BY ONLY <3>1, SetGet
        <3> QED BY <3>2 DEF f, b
    <2> QED BY <1>11, <2>2 DEF p
<1>14. p.flen = fl /\ p.tlen = T /\ p.key = key /\ Cap(p) = n /\ p.len = T
    <2>1. [fl EXCEPT ![fMagic] = 3] = fl
        <3> HIDE DEF fl
        <3> QED BY <1>5
    <2> HIDE DEF p2, p, fl, T, n
    <2> QED BY <1>10, <1>11, <1>12, <1>13, <2>1 DEF SetShape
<1>15. flags(p) = {}
    <2>1. /\ get(p2, fFlags)[1] = p2.arr[Pos(p2, fFlags) + 1] /\ Pos(p2, fFlags) = 3
        <3>1. p2.flen[fFlags] = 1
            <4> HIDE DEF p2, fl
            <4> QED BY <1>5, <1>10
        <3>2. Pos(p2, fFlags) = 3
            <4> HIDE DEF p2
            <4> QED BY <1>4, HeaderIs, OpenLayout
        <3> HIDE DEF p2
        <3> QED BY <1>8, <1>11, <3>1, <3>2, GetWell
    <2>2. arr[4] = Zero
        BY <1>1
    <2>3. get(p, fFlags)[1] = Zero
        <3> HIDE DEF p2, p, arr
        <3> QED BY <1>10, <1>13, <2>1, <2>2
    <2> HIDE DEF p
    <2> QED BY <2>3 DEF flags
<1>16. Layout(p, HeaderOf(key))
    <2> HIDE DEF p
    <2> QED BY <1>14 DEF Layout
<1>17. p.len = SumLens(p.flen) /\ p.tlen = p.len
    <2> HIDE DEF p, fl
    <2> QED BY <1>14
<1> HIDE DEF p
<1> QED BY <1>9, <1>13, <1>14, <1>15, <1>16, <1>17

\* q is p but for the bytes of a field that is set in both.
Over(q, p, f) ==
    /\ Well(q) /\ q.flen = p.flen /\ q.len = p.len /\ q.tlen = p.tlen /\ q.key = p.key
    /\ Cap(q) = Cap(p)
    /\ \A i \in 1..Cap(p) : ~(i > Pos(p, f) /\ i <= Pos(p, f) + fcaps[f]) => q.arr[i] = p.arr[i]
    /\ \A g \in Field : g # f => get(q, g) = get(p, g)

\* set of a field that has its place is a change over it.
LEMMA SetIsOver ==
    ASSUME NEW p, Well(p), NEW f \in Field, p.flen[f] = fcaps[f], NEW b, IsBytes(b),
           Len(b) = fcaps[f]
    PROVE  Over(set(p, f, b), p, f) /\ get(set(p, f, b), f) = b
<1> DEFINE q == set(p, f, b)
<1>1. /\ Well(q) /\ SetShape(q, p, f) /\ get(q, f) = b
      /\ \A g \in Field : g # f => get(q, g) = get(p, g)
    BY SetOverGet
<1>2. q = [p EXCEPT !.arr = Written(p.arr, Pos(p, f), b)]
    BY SetOver
<1>3. q.arr = Written(p.arr, Pos(p, f), b) /\ q.flen = p.flen /\ q.len = p.len
      /\ q.tlen = p.tlen /\ q.key = p.key
    <2>1. Shaped(p)
        BY DEF Well
    <2> HIDE DEF q
    <2> QED BY <1>2, <2>1 DEF Shaped
<1> HIDE DEF q
<1>4. \A i \in 1..Cap(p) : ~(i > Pos(p, f) /\ i <= Pos(p, f) + fcaps[f]) => q.arr[i] = p.arr[i]
    BY <1>3 DEF Written, Cap
<1> QED BY <1>1, <1>3, <1>4 DEF Over, SetShape, q

\* n bytes of a behind i that are those of b behind j.
AgreeFrom(a, i, b, j, n) == \A k \in 1..n : a[i + k] = b[j + k]

\* The n bytes after the i-th.
LEMMA PartIs ==
    ASSUME NEW a, NEW i \in Nat, NEW n \in Nat
    PROVE  /\ IsBytes(SubSeq(a, i + 1, i + n)) /\ Len(SubSeq(a, i + 1, i + n)) = n
           /\ \A k \in 1..n : SubSeq(a, i + 1, i + n)[k] = a[i + k]
<1> DEFINE x == i + 1
           y == i + n
<1>1. x \in Int /\ y \in Int /\ (IF x <= y THEN y - x + 1 ELSE 0) = n
      /\ \A k \in 1..n : x + k - 1 = i + k
    OBVIOUS
<1> HIDE DEF x, y
<1>2. IsBytes(SubSeq(a, x, y))
      /\ Len(SubSeq(a, x, y)) = (IF x <= y THEN y - x + 1 ELSE 0)
      /\ \A k \in 1..Len(SubSeq(a, x, y)) : SubSeq(a, x, y)[k] = a[x + k - 1]
    BY <1>1, SubSeqIs
<1>3. IsBytes(SubSeq(a, x, y)) /\ Len(SubSeq(a, x, y)) = n
      /\ \A k \in 1..n : SubSeq(a, x, y)[k] = a[i + k]
    BY <1>1, <1>2
<1> QED BY <1>3 DEF x, y

\* Two parts that agree are the same.
LEMMA PartSame ==
    ASSUME NEW a, NEW b, NEW i \in Nat, NEW j \in Nat, NEW n \in Nat, AgreeFrom(a, i, b, j, n)
    PROVE  SubSeq(a, i + 1, i + n) = SubSeq(b, j + 1, j + n)
<1>1. IsBytes(SubSeq(a, i + 1, i + n)) /\ Len(SubSeq(a, i + 1, i + n)) = n
      /\ \A k \in 1..n : SubSeq(a, i + 1, i + n)[k] = a[i + k]
    BY PartIs
<1>2. IsBytes(SubSeq(b, j + 1, j + n)) /\ Len(SubSeq(b, j + 1, j + n)) = n
      /\ \A k \in 1..n : SubSeq(b, j + 1, j + n)[k] = b[j + k]
    BY PartIs
<1> DEFINE u == SubSeq(a, i + 1, i + n)
           v == SubSeq(b, j + 1, j + n)
<1>3. IsBytes(u) /\ Len(u) = n /\ IsBytes(v) /\ Len(v) = n /\ \A k \in 1..n : u[k] = v[k]
    BY <1>1, <1>2 DEF AgreeFrom
<1> HIDE DEF u, v
<1>4. u = v
    BY <1>3, SameBytes
<1> QED BY <1>4 DEF u, v

\* The bounds of a well formed packet.
LEMMA Bounds ==
    ASSUME NEW p, Well(p)
    PROVE  /\ p.len \in Nat /\ p.len <= Cap(p) /\ Cap(p) \in Nat /\ Cap(p) = Len(p.arr)
           /\ IsBytes(p.arr) /\ SumLens(p.flen) \in Nat /\ SumLens(p.flen) <= p.len
           /\ p.tlen \in Int /\ 92 <= Cap(p)
<1>1. p.len \in 0..Cap(p) /\ SumLens(p.flen) <= p.len /\ IsBytes(p.arr) /\ p.tlen \in Int
      /\ SumCaps <= Cap(p)
    BY DEF Well
<1>2. Cap(p) = Len(p.arr) /\ Cap(p) \in Nat
    BY <1>1 DEF Cap, IsBytes
<1> QED BY <1>1, <1>2, Lengths, Caps

\* It has the same payload.
LEMMA OverPayload ==
    ASSUME NEW p, Well(p), NEW f \in Field, p.flen[f] = fcaps[f], NEW q, Over(q, p, f)
    PROVE  payload(q) = payload(p)
<1> DEFINE s == SumLens(p.flen)
           x == Pos(p, f)
           c == fcaps[f]
<1>1. q.flen = p.flen /\ q.len = p.len
      /\ \A i \in 1..Cap(p) : ~(i > x /\ i <= x + c) => q.arr[i] = p.arr[i]
    BY DEF Over
<1>2. s \in Nat /\ p.len \in Nat /\ s <= p.len /\ p.len <= Cap(p) /\ Cap(p) \in Nat
    BY Bounds
<1>3. x \in Nat /\ c \in Nat /\ x + c <= s
    BY Lengths, FieldFacts
<1>4. payload(p) = SubSeq(p.arr, s + 1, p.len) /\ payload(q) = SubSeq(q.arr, s + 1, p.len)
    BY <1>1 DEF payload
<1> HIDE DEF s, x, c
<1>5. \A k \in 1..p.len - s : q.arr[s + k] = p.arr[s + k]
    <2> SUFFICES ASSUME NEW k \in 1..p.len - s PROVE q.arr[s + k] = p.arr[s + k]
        OBVIOUS
    <2>1. s + k \in 1..Cap(p) /\ ~(s + k > x /\ s + k <= x + c)
        BY <1>2, <1>3
    <2> QED BY <1>1, <2>1
<1>6. SubSeq(q.arr, s + 1, p.len) = SubSeq(p.arr, s + 1, p.len)
    <2> DEFINE n == p.len - s
    <2>1. n \in Nat /\ s + n = p.len /\ s \in Nat /\ AgreeFrom(q.arr, s, p.arr, s, n)
        BY <1>2, <1>5 DEF AgreeFrom
    <2> HIDE DEF n
    <2>2. SubSeq(q.arr, s + 1, s + n) = SubSeq(p.arr, s + 1, s + n)
        BY ONLY <2>1, PartSame
    <2> QED BY <2>1, <2>2
<1> QED BY <1>4, <1>6

-----------------------------------------------------------------------------
(* Flags and numbers                                                       *)

\* A flag set is set, and the others stay.
LEMMA FlagsSet ==
    ASSUME NEW p, Well(p), p.flen[fFlags] = 1, NEW fs
    PROVE  /\ Over(setFlagBits(p, fs), p, fFlags)
           /\ flags(setFlagBits(p, fs)) = flags(p) \cup fs
           /\ payload(setFlagBits(p, fs)) = payload(p)
<1> DEFINE b == << <<"f", flags(p) \cup fs>> >>
           q == set(p, fFlags, b)
<1>1. setFlagBits(p, fs) = q
    BY DEF setFlagBits
<1>2. IsBytes(b) /\ Len(b) = 1 /\ b[1] = <<"f", flags(p) \cup fs>>
    <2>1. b = [k \in 1..1 |-> b[k]] /\ 1 \in Nat
        OBVIOUS
    <2>2. b[1] = <<"f", flags(p) \cup fs>>
        OBVIOUS
    <2> HIDE DEF b
    <2> QED BY <2>1, <2>2, BytesLen
<1>3. fFlags \in Field /\ fcaps[fFlags] = 1
    BY FieldFacts, Caps DEF fFlags
<1> HIDE DEF b
<1>4. Over(q, p, fFlags) /\ get(q, fFlags) = b
    <2> DEFINE f == fFlags
    <2>1. f \in Field /\ p.flen[f] = fcaps[f] /\ IsBytes(b) /\ Len(b) = fcaps[f]
        BY <1>2, <1>3
    <2> HIDE DEF f
    <2>2. Over(set(p, f, b), p, f) /\ get(set(p, f, b), f) = b
        BY <2>1, SetIsOver
    <2> QED BY <2>2 DEF f
<1> HIDE DEF q
<1>5. payload(q) = payload(p)
    BY <1>3, <1>4, OverPayload
<1>6. flags(q) = flags(p) \cup fs
    <2> DEFINE u == flags(p) \cup fs
               x == <<"f", u>>
    <2>1. x[1] = "f" /\ x[2] = u /\ x # Zero
        BY DEF Zero
    <2>2. get(q, fFlags)[1] = x
        BY <1>2, <1>4
    <2> HIDE DEF x, u
    <2> QED BY <2>1, <2>2 DEF flags, u
<1> QED BY <1>1, <1>4, <1>5, <1>6

\* The bytes of a number in a field of its length are those put.
LEMMA NumberIs ==
    ASSUME NEW n \in Nat, n > 0, NEW v
    PROVE  LET b == [k \in 1..n |-> ByteOf(v, k)]
           IN  Number(b) = v /\ IsBytes(b) /\ Len(b) = n
<1> DEFINE b == [k \in 1..n |-> ByteOf(v, k)]
<1>1. b = [k \in 1..n |-> b[k]]
    OBVIOUS
<1>2. IsBytes(b) /\ Len(b) = n /\ DOMAIN b = 1..n
    <2> HIDE DEF b
    <2> QED BY <1>1, BytesLen
<1>3. Number(b) = v
    <2>1. CASE v = 0
        <3>1. \A k \in DOMAIN b : b[k] = Zero
            BY <2>1 DEF ByteOf
        <3> HIDE DEF b
        <3> QED BY <2>1, <3>1 DEF Number
    <2>2. CASE v # 0
        <3>1. \A k \in DOMAIN b : b[k] = <<"n", v, k>>
            BY <2>2 DEF ByteOf
        <3>2. 1 \in DOMAIN b
            OBVIOUS
        <3> HIDE DEF b
        <3> DEFINE x == <<"n", v, 1>>
        <3>3. x # Zero /\ Len(x) = 3 /\ x[1] = "n" /\ x[2] = v
            BY <2>2 DEF Zero
        <3>4. b[1] = x
            BY <3>1, <3>2
        <3> HIDE DEF x
        <3> QED BY <3>1, <3>2, <3>3, <3>4 DEF Number
    <2> QED BY <2>1, <2>2
<1> HIDE DEF b
<1> QED BY <1>2, <1>3 DEF b

\* The number that is set is what the field holds.
THEOREM NumberSet ==
    ASSUME NEW p, Well(p), NEW f \in Field, Room(p, f), NEW v
    PROVE  /\ Well(setNumber(p, f, v)) /\ SetShape(setNumber(p, f, v), p, f)
           /\ getNumber(setNumber(p, f, v), f) = v
           /\ \A g \in Field : g # f => get(setNumber(p, f, v), g) = get(p, g)
<1> DEFINE b == [k \in 1..fcaps[f] |-> ByteOf(v, k)]
<1>1. setNumber(p, f, v) = set(p, f, b)
    BY DEF setNumber
<1>2. Number(b) = v /\ IsBytes(b) /\ Len(b) = fcaps[f]
    <2> DEFINE n == fcaps[f]
    <2>1. n \in Nat /\ n > 0
        BY FieldFacts
    <2> HIDE DEF n
    <2>2. Number([k \in 1..n |-> ByteOf(v, k)]) = v /\ IsBytes([k \in 1..n |-> ByteOf(v, k)])
          /\ Len([k \in 1..n |-> ByteOf(v, k)]) = n
        BY <2>1, NumberIs
    <2> QED BY <2>2 DEF n
<1> HIDE DEF b
<1>3. /\ Well(set(p, f, b)) /\ SetShape(set(p, f, b), p, f) /\ get(set(p, f, b), f) = b
      /\ \A g \in Field : g # f => get(set(p, f, b), g) = get(p, g)
    BY <1>2, SetGet
<1> QED BY <1>1, <1>2, <1>3 DEF getNumber

-----------------------------------------------------------------------------
(* The payload                                                             *)

\* setPayload leaves the fields and holds what was given to it.
LEMMA PayloadSet ==
    ASSUME NEW p, Well(p), NEW b, IsBytes(b), SumLens(p.flen) + Len(b) <= Cap(p)
    PROVE  /\ Well(setPayload(p, b)) /\ setPayload(p, b).flen = p.flen
           /\ setPayload(p, b).len = SumLens(p.flen) + Len(b)
           /\ setPayload(p, b).tlen = p.tlen /\ setPayload(p, b).key = p.key
           /\ Cap(setPayload(p, b)) = Cap(p)
           /\ payload(setPayload(p, b)) = b
           /\ \A g \in Field : get(setPayload(p, b), g) = get(p, g)
<1> DEFINE s == SumLens(p.flen)
           cut == [p EXCEPT !.len = s + Len(b)]
           w == Written(p.arr, s, b)
           q == [cut EXCEPT !.arr = w]
<1>1. /\ s \in Nat /\ Len(b) \in Nat /\ s + Len(b) \in 0..Cap(p) /\ IsBytes(p.arr) /\ Cap(p) \in Nat
      /\ Cap(p) = Len(p.arr) /\ s <= Cap(p)
    <2>1. Len(b) \in Nat
        BY DEF IsBytes
    <2> QED BY <2>1, Bounds
<1>2. Shaped(p) /\ p.ok = TRUE
    BY DEF Well
<1>3. /\ Shaped(cut) /\ cut.ok = TRUE /\ cut.arr = p.arr /\ cut.len = s + Len(b)
      /\ cut.flen = p.flen /\ cut.tlen = p.tlen /\ cut.key = p.key
    <2> HIDE DEF s
    <2> QED BY <1>2 DEF Shaped
<1>4. Slice(p, s + Len(b)) = cut
    <2> HIDE DEF s
    <2> QED BY <1>1 DEF Slice
<1> HIDE DEF cut
<1>5. Cap(cut) = Cap(p)
    BY <1>3 DEF Cap
<1>6. setPayload(p, b) = q
    <2>1. setPayload(p, b) = Write(cut, s, b)
        BY <1>3, <1>4 DEF setPayload
    <2>2. IsBytes(cut.arr) /\ s \in 0..Cap(cut)
        <3> HIDE DEF s
        <3> QED BY <1>1, <1>3, <1>5
    <2> HIDE DEF s
    <2> QED BY <1>3, <2>1, <2>2, WriteIs
<1>7. IsBytes(w) /\ Len(w) = Len(p.arr)
      /\ \A i \in 1..Len(p.arr) : w[i] = IF i > s /\ i <= s + Len(b) THEN b[i - s] ELSE p.arr[i]
    <2> HIDE DEF s
    <2> QED BY <1>1, WrittenIs DEF Written
<1> HIDE DEF w
<1>8. /\ Shaped(q) /\ q.ok = TRUE /\ q.arr = w /\ q.len = s + Len(b)
      /\ q.flen = p.flen /\ q.tlen = p.tlen /\ q.key = p.key
    <2> HIDE DEF s
    <2> QED BY <1>3 DEF Shaped
<1> HIDE DEF q
<1>9. Cap(q) = Cap(p)
    BY <1>7, <1>8 DEF Cap
<1>10. Well(q)
    <2>1. SumCaps <= Cap(p) /\ p.flen \in [Field -> Nat] /\ p.tlen \in Int
          /\ \A f \in Field : p.flen[f] \in {0, fcaps[f]}
        BY DEF Well
    <2>2. SumLens(q.flen) <= q.len /\ q.len \in 0..Cap(q)
        <3>1. SumLens(q.flen) = s
            BY <1>8
        <3> HIDE DEF s
        <3> QED BY <1>1, <1>8, <1>9, <3>1
    <2> HIDE DEF s
    <2> QED BY <1>7, <1>8, <1>9, <2>1, <2>2 DEF Well
<1>11. payload(q) = b
    <2> DEFINE n == Len(b)
               t == SubSeq(q.arr, s + 1, s + n)
    <2>1. payload(q) = t
        BY <1>8 DEF payload
    <2>2. IsBytes(t) /\ Len(t) = Len(b) /\ \A i \in 1..Len(b) : t[i] = w[s + i]
        <3>1. n \in Nat /\ s \in Nat
            BY <1>1
        <3> HIDE DEF s, n
        <3>2. IsBytes(t) /\ Len(t) = n /\ \A k \in 1..n : t[k] = q.arr[s + k]
            BY <3>1, PartIs
        <3> QED BY <1>8, <3>2 DEF n
    <2> HIDE DEF s
    <2> HIDE DEF t
    <2>3. ASSUME NEW i \in 1..Len(b) PROVE w[s + i] = b[i]
        <3>1. s + i \in 1..Len(p.arr) /\ s + i > s /\ s + i <= s + Len(b) /\ (s + i) - s = i
            BY <1>1
        <3> QED BY <1>7, <3>1
    <2> QED BY <2>1, <2>2, <2>3, SameBytes
<1>12. ASSUME NEW g \in Field PROVE get(q, g) = get(p, g)
    <2>1. /\ p.flen[g] \in Nat /\ Pos(p, g) \in Nat /\ Pos(p, g) + p.flen[g] <= s
        BY Lengths, FieldFacts
    <2>2. q.flen[g] = p.flen[g] /\ Pos(q, g) = Pos(p, g)
        BY <1>8 DEF Pos
    <2> HIDE DEF s
    <2>3. \A i \in 1..p.flen[g] : q.arr[Pos(q, g) + i] = p.arr[Pos(p, g) + i]
        <3> SUFFICES ASSUME NEW i \in 1..p.flen[g] PROVE w[Pos(p, g) + i] = p.arr[Pos(p, g) + i]
            BY <1>8, <2>2
        <3> DEFINE x == Pos(p, g)
                   d == p.flen[g]
        <3>1. x \in Nat /\ d \in Nat /\ x + d <= s /\ s \in Nat /\ s <= Len(p.arr) /\ Len(p.arr) \in Nat
              /\ i \in 1..d
            BY <1>1, <2>1
        <3> HIDE DEF x, d
        <3>2. x + i \in 1..Len(p.arr) /\ ~(x + i > s)
            BY ONLY <3>1
        <3>3. w[x + i] = p.arr[x + i]
            BY <1>7, <3>2
        <3> QED BY <3>3 DEF x
    <2> QED BY <2>1, <2>2, <2>3, GetSame
<1> QED BY <1>6, <1>8, <1>9, <1>10, <1>11, <1>12 DEF s

-----------------------------------------------------------------------------
(* HMAC                                                                    *)

\* n zero bytes.
Zeros(n) == [k \in 1..n |-> Zero]

\* An HMAC has 16 bytes.
LEMMA MacIs ==
    ASSUME NEW p
    PROVE  IsBytes(Mac(p)) /\ Len(Mac(p)) = 16 /\ Mac(p)[1] = <<"mac", p.key, bytes(p), 1>>
<1> DEFINE m == Mac(p)
<1>1. m = [k \in 1..16 |-> m[k]] /\ m[1] = <<"mac", p.key, bytes(p), 1>> /\ 16 \in Nat
    BY DEF Mac
<1> HIDE DEF m
<1>2. IsBytes(m) /\ Len(m) = 16
    BY <1>1, BytesLen
<1> QED BY <1>1, <1>2 DEF m

\* Two hashes are the same only for the same key.
LEMMA MacKey ==
    ASSUME NEW p, NEW q, Mac(p) = Mac(q)
    PROVE  p.key = q.key
<1> DEFINE x == <<"mac", p.key, bytes(p), 1>>
           y == <<"mac", q.key, bytes(q), 1>>
<1>1. x = y
    BY MacIs
<1>2. x[2] = p.key /\ y[2] = q.key
    OBVIOUS
<1> QED BY <1>1, <1>2

\* They are n.
LEMMA ZerosIs == ASSUME NEW n \in Nat PROVE IsBytes(Zeros(n)) /\ Len(Zeros(n)) = n
<1>1. Zeros(n) = [k \in 1..n |-> Zeros(n)[k]]
    BY DEF Zeros
<1> QED BY <1>1, BytesLen

\* zero of a field that is set changes its bytes only.
LEMMA ZeroIs ==
    ASSUME NEW p, Well(p), NEW f \in Field, p.flen[f] = fcaps[f]
    PROVE  /\ Over(zero(p, f), p, f)
           /\ zero(p, f).arr = Written(p.arr, Pos(p, f), Zeros(fcaps[f]))
<1> DEFINE b == Zeros(fcaps[f])
<1>1. zero(p, f) = set(p, f, b)
    BY DEF zero, Zeros
<1>2. IsBytes(b) /\ Len(b) = fcaps[f]
    BY FieldFacts, ZerosIs
<1> HIDE DEF b
<1>3. Over(set(p, f, b), p, f)
    BY <1>2, SetIsOver
<1>4. set(p, f, b) = [p EXCEPT !.arr = Written(p.arr, Pos(p, f), b)]
    BY <1>2, SetOver
<1>5. set(p, f, b).arr = Written(p.arr, Pos(p, f), b)
    <2>1. Shaped(p)
        BY DEF Well
    <2> QED BY <1>4, <2>1 DEF Shaped
<1> QED BY <1>1, <1>3, <1>5 DEF b

\* Zeroing a field undoes what was set in a packet in which it was zero.
LEMMA ZeroAgain ==
    ASSUME NEW p, Well(p), NEW f \in Field, p.flen[f] = fcaps[f], NEW b, IsBytes(b),
           Len(b) = fcaps[f]
    PROVE  zero(set(zero(p, f), f, b), f).arr = zero(p, f).arr
<1> DEFINE z == zero(p, f)
           q == set(z, f, b)
           y == zero(q, f)
           x == Pos(p, f)
           c == fcaps[f]
<1>1. Over(z, p, f) /\ z.arr = Written(p.arr, x, Zeros(c))
    BY ZeroIs
<1>2. Well(z) /\ z.flen[f] = fcaps[f] /\ Pos(z, f) = x /\ Cap(z) = Cap(p)
    BY <1>1 DEF Over, Pos
<1>3. Over(q, z, f)
    <2> HIDE DEF z
    <2> QED BY <1>2, SetIsOver
<1>4. q.arr = Written(z.arr, x, b)
    <2> HIDE DEF z
    <2>1. q = [z EXCEPT !.arr = Written(z.arr, Pos(z, f), b)] /\ Shaped(z)
        BY ZenonT(60), <1>2, SetOver DEF Well
    <2> HIDE DEF q
    <2> QED BY <1>2, <2>1 DEF Shaped
<1> HIDE DEF z
<1>5. Well(q) /\ q.flen[f] = fcaps[f] /\ Pos(q, f) = x /\ Cap(q) = Cap(p)
    BY <1>2, <1>3 DEF Over, Pos
<1> HIDE DEF q
<1>6. Over(y, q, f) /\ y.arr = Written(q.arr, x, Zeros(c))
    BY <1>5, ZeroIs
<1>7. Well(y) /\ Cap(y) = Cap(p)
    BY <1>5, <1>6 DEF Over
<1> HIDE DEF y
<1>8. /\ IsBytes(y.arr) /\ IsBytes(z.arr) /\ IsBytes(q.arr)
      /\ Len(y.arr) = Cap(p) /\ Len(z.arr) = Cap(p) /\ Len(q.arr) = Cap(p) /\ Len(p.arr) = Cap(p)
    BY <1>2, <1>5, <1>7, Bounds DEF Cap
<1>9. Len(Zeros(c)) = c /\ Len(b) = c
    BY FieldFacts, ZerosIs
<1>10. ASSUME NEW i \in 1..Cap(p) PROVE y.arr[i] = z.arr[i]
    <2>1. y.arr[i] = IF i > x /\ i <= x + c THEN Zeros(c)[i - x] ELSE q.arr[i]
        BY <1>6, <1>8, <1>9 DEF Written
    <2>2. z.arr[i] = IF i > x /\ i <= x + c THEN Zeros(c)[i - x] ELSE p.arr[i]
        BY <1>1, <1>8, <1>9 DEF Written
    <2>3. q.arr[i] = IF i > x /\ i <= x + c THEN b[i - x] ELSE z.arr[i]
        BY <1>4, <1>8, <1>9 DEF Written
    <2> HIDE DEF x, c
    <2> QED BY <2>1, <2>2, <2>3
<1>11. y.arr = z.arr
    BY <1>8, <1>10, SameBytes
<1> QED BY <1>11 DEF y, q, z

\* The hash of a packet is that of its bytes with the HMAC zeroed.
Sealed(p) == get(p, fHMAC) = Mac(zero(p, fHMAC))

\* The flag of a packet with an HMAC.
HMACFlag(key) == IF key = NoKey THEN {} ELSE {"hmac"}

\* q is p with its HMAC computed.
LEMMA HMACUpdated ==
    ASSUME NEW p, Well(p), p.flen[fFlags] = 1, p.key # NoKey => p.flen[fHMAC] = 16
    PROVE  LET q == updateHMAC(p)
           IN  /\ Well(q) /\ q.flen = p.flen /\ q.len = p.len /\ q.tlen = p.tlen /\ q.key = p.key
               /\ Cap(q) = Cap(p) /\ payload(q) = payload(p)
               /\ flags(q) = flags(p) \cup HMACFlag(p.key)
               /\ q.key # NoKey => Sealed(q)
               /\ \A g \in Field \ {fFlags, fHMAC} : get(q, g) = get(p, g)
<1> DEFINE r == setFlagBits(p, {"hmac"})
           z == zero(r, fHMAC)
           q == set(z, fHMAC, Mac(z))
<1>1. CASE p.key = NoKey
    <2>1. updateHMAC(p) = p /\ HMACFlag(p.key) = {}
        BY <1>1 DEF updateHMAC, HMACFlag
    <2> QED BY <1>1, <2>1
<1>2. CASE p.key # NoKey
    <2>1. updateHMAC(p) = q /\ HMACFlag(p.key) = {"hmac"} /\ p.flen[fHMAC] = 16
        BY <1>2 DEF updateHMAC, HMACFlag
    <2>2. fFlags \in Field /\ fHMAC \in Field /\ fHMAC # fFlags /\ fcaps[fHMAC] = 16
          /\ fcaps[fFlags] = 1
        BY FieldFacts, Caps DEF fFlags, fHMAC
    <2>3. Over(r, p, fFlags) /\ flags(r) = flags(p) \cup {"hmac"} /\ payload(r) = payload(p)
        BY FlagsSet
    <2>4. Well(r) /\ r.flen = p.flen /\ r.flen[fHMAC] = fcaps[fHMAC]
        BY <2>1, <2>2, <2>3 DEF Over
    <2> HIDE DEF r
    <2>5. Over(z, r, fHMAC)
        BY <2>2, <2>4, ZeroIs
    <2>6. Well(z) /\ z.flen = p.flen /\ z.flen[fHMAC] = fcaps[fHMAC] /\ payload(z) = payload(r)
        <3>1. payload(z) = payload(r)
            <4> DEFINE f == fHMAC
            <4>1. Well(r) /\ f \in Field /\ r.flen[f] = fcaps[f] /\ Over(z, r, f)
                BY <2>2, <2>4, <2>5
            <4> HIDE DEF f, z
            <4> QED BY ONLY <4>1, OverPayload
        <3> QED BY <2>4, <2>5, <3>1 DEF Over
    <2>7. IsBytes(Mac(z)) /\ Len(Mac(z)) = fcaps[fHMAC]
        BY <2>2, MacIs
    <2>8. zero(q, fHMAC).arr = z.arr
        BY <2>2, <2>4, <2>7, ZeroAgain
    <2> HIDE DEF z
    <2>9. Over(q, z, fHMAC) /\ get(q, fHMAC) = Mac(z)
        <3> DEFINE f == fHMAC
                   m == Mac(z)
        <3>1. Well(z) /\ f \in Field /\ z.flen[f] = fcaps[f] /\ IsBytes(m) /\ Len(m) = fcaps[f]
            BY <2>2, <2>6, <2>7
        <3> HIDE DEF f, m
        <3>2. Over(set(z, f, m), z, f) /\ get(set(z, f, m), f) = m
            BY ONLY <3>1, SetIsOver
        <3> QED BY <3>2 DEF f, m
    <2> HIDE DEF q
    <2>10. Well(q) /\ q.flen = p.flen /\ q.flen[fHMAC] = fcaps[fHMAC]
        BY <2>6, <2>9 DEF Over
    <2>11. payload(q) = payload(z)
        <3> DEFINE f == fHMAC
        <3>1. Well(z) /\ f \in Field /\ z.flen[f] = fcaps[f] /\ Over(q, z, f)
            BY <2>2, <2>6, <2>9
        <3> HIDE DEF f
        <3> QED BY ONLY <3>1, OverPayload
    <2>12. flags(z) = flags(r) /\ flags(q) = flags(z)
        <3>1. get(z, fFlags) = get(r, fFlags)
            BY <2>2, <2>5 DEF Over
        <3>2. get(q, fFlags) = get(z, fFlags)
            BY <2>2, <2>9 DEF Over
        <3> QED BY <3>1, <3>2 DEF flags
    <2>13. /\ q.len = p.len /\ q.tlen = p.tlen /\ q.key = p.key /\ Cap(q) = Cap(p) /\ z.key = p.key
           /\ z.len = p.len
        BY <2>3, <2>5, <2>9 DEF Over
    <2>14. Sealed(q)
        <3> DEFINE y == zero(q, fHMAC)
        <3>1. Over(y, q, fHMAC)
            BY <2>2, <2>10, ZeroIs
        <3>2. y.arr = z.arr /\ y.len = z.len /\ y.key = z.key
            BY <2>8, <2>13, <3>1 DEF Over
        <3> HIDE DEF y
        <3>3. Mac(y) = Mac(z)
            BY <3>2 DEF Mac, bytes
        <3> QED BY <2>9, <3>3 DEF Sealed, y
    <2>15. \A g \in Field \ {fFlags, fHMAC} : get(q, g) = get(p, g)
        BY <2>3, <2>5, <2>9 DEF Over
    <2> QED BY <2>1, <2>3, <2>6, <2>10, <2>11, <2>12, <2>13, <2>14, <2>15
<1> QED BY <1>1, <1>2

-----------------------------------------------------------------------------
(* What travels                                                            *)

\* What is sent of a packet is its first len bytes.
LEMMA BytesIs ==
    ASSUME NEW p, Well(p)
    PROVE  IsBytes(bytes(p)) /\ Len(bytes(p)) = p.len /\ \A i \in 1..p.len : bytes(p)[i] = p.arr[i]
<1> DEFINE n == p.len
<1>1. n \in Nat /\ 0 \in Nat
    BY Bounds
<1> HIDE DEF n
<1>2. 0 + 1 = 1 /\ 0 + n = n /\ \A k \in 1..n : 0 + k = k
    BY <1>1
<1>3. /\ IsBytes(SubSeq(p.arr, 0 + 1, 0 + n)) /\ Len(SubSeq(p.arr, 0 + 1, 0 + n)) = n
      /\ \A k \in 1..n : SubSeq(p.arr, 0 + 1, 0 + n)[k] = p.arr[0 + k]
    BY ONLY <1>1, PartIs
<1>4. /\ IsBytes(SubSeq(p.arr, 1, n)) /\ Len(SubSeq(p.arr, 1, n)) = n
      /\ \A k \in 1..n : SubSeq(p.arr, 1, n)[k] = p.arr[k]
    BY <1>2, <1>3
<1> QED BY <1>4 DEF bytes, n

\* r has in it the bytes of a message, as far as there was room, and nothing
\* is known of its fields but the header.
TakenIn(r, s, data) ==
    LET n == Lesser(Len(data), Cap(s))
    IN  /\ Shaped(r) /\ r.ok = TRUE /\ IsBytes(r.arr) /\ Cap(r) = Cap(s) /\ r.key = s.key
        /\ n \in Nat /\ r.len = n /\ r.tlen = n /\ n <= Len(data) /\ n <= Cap(s)
        /\ Len(data) <= Cap(s) => n = Len(data)
        /\ Layout(r, HeaderOf(s.key))
        /\ \A i \in 1..n : r.arr[i] = data[i]
        /\ SumLens(r.flen) <= n => Well(r)

\* A buffer that packets are read into, whatever it holds.
Buffer(s) == Shaped(s) /\ s.ok = TRUE /\ IsBytes(s.arr) /\ 92 <= Cap(s)

\* A well formed packet is one.
LEMMA BufferIs == ASSUME NEW p, Well(p) PROVE Buffer(p)
BY Bounds DEF Well, Buffer

\* A message is received as far as there is room.
LEMMA ReceivedIs ==
    ASSUME NEW s, Buffer(s), NEW data, IsBytes(data)
    PROVE  TakenIn(Received(s, data), s, data)
<1> DEFINE n == Lesser(Len(data), Cap(s))
           c == [s EXCEPT !.len = Cap(s)]
           m == SubSeq(data, 1, n)
           w == Written(s.arr, 0, m)
           v == [c EXCEPT !.arr = w]
           fl == [f \in Field |-> IF f \in HeaderOf(s.key) THEN fcaps[f] ELSE 0]
           u == [v EXCEPT !.flen = fl]
           r == [u EXCEPT !.len = n, !.tlen = n]
<1>1. Cap(s) \in Nat /\ IsBytes(s.arr) /\ Cap(s) = Len(s.arr) /\ Shaped(s) /\ s.ok = TRUE
      /\ Len(data) \in Nat /\ 92 <= Cap(s)
    BY DEF Buffer, IsBytes, Cap
<1>2. n \in Nat /\ n <= Len(data) /\ n <= Cap(s) /\ (Len(data) <= Cap(s) => n = Len(data))
    BY <1>1 DEF Lesser
<1> HIDE DEF n
<1>3. Slice(s, Cap(s)) = c
    BY <1>1 DEF Slice
<1>4. Shaped(c) /\ c.ok = TRUE /\ c.arr = s.arr /\ c.key = s.key
    BY <1>1 DEF Shaped
<1> HIDE DEF c
<1>5. IsBytes(m) /\ Len(m) = n /\ \A i \in 1..n : m[i] = data[i]
    <2>1. 0 + 1 = 1 /\ 0 + n = n /\ (\A k \in 1..n : 0 + k = k) /\ 0 \in Nat
        BY <1>2
    <2>2. /\ IsBytes(SubSeq(data, 0 + 1, 0 + n)) /\ Len(SubSeq(data, 0 + 1, 0 + n)) = n
          /\ \A k \in 1..n : SubSeq(data, 0 + 1, 0 + n)[k] = data[0 + k]
        BY ONLY ZenonT(60), <1>2, <2>1, PartIs
    <2> QED BY <2>1, <2>2
<1> HIDE DEF m
<1>6. Write(c, 0, m) = v
    <2>1. 0 \in 0..Cap(c) /\ IsBytes(c.arr)
        BY <1>1, <1>4 DEF Cap
    <2>2. Write(c, 0, m) = [c EXCEPT !.arr = Written(c.arr, 0, m)]
        BY ONLY <1>5, <2>1, WriteIs
    <2> QED BY <1>4, <2>2
<1>7. IsBytes(w) /\ Len(w) = Len(s.arr) /\ \A i \in 1..n : w[i] = data[i]
    <2>1. 0 \in Nat
        OBVIOUS
    <2>2. IsBytes(w) /\ Len(w) = Len(s.arr)
        BY <1>1, <1>5, <2>1, WrittenIs
    <2>3. ASSUME NEW i \in 1..n PROVE w[i] = data[i]
        <3>1. i \in 1..Len(s.arr) /\ i > 0 /\ i <= 0 + Len(m) /\ i - 0 = i
            BY <1>1, <1>2, <1>5
        <3>2. w[i] = m[i]
            BY <3>1 DEF Written
        <3> QED BY <1>5, <3>2
    <2> QED BY <2>2, <2>3
<1> HIDE DEF w
<1>8. Shaped(v) /\ v.ok = TRUE /\ v.arr = w /\ v.key = s.key
    BY <1>4 DEF Shaped
<1> HIDE DEF v
<1>9. Shaped(u) /\ u.ok = TRUE /\ u.arr = w /\ u.key = s.key /\ u.flen = fl
    <2> HIDE DEF fl
    <2> QED BY <1>8 DEF Shaped
<1>10. setFields(v, finit(s.key), FALSE) = u
    <2>1. fl = [f \in Field |-> IF f \in finit(s.key) THEN fcaps[f] ELSE 0]
        BY HeaderIs
    <2> HIDE DEF fl
    <2> QED BY <2>1 DEF setFields, Relaid
<1>11. Received(s, data) = r
    <2>1. Received(s, data) = [setFields(Write(Slice(s, Cap(s)), 0, m), finit(s.key), FALSE)
                                EXCEPT !.len = n, !.tlen = n]
        <3>1. Write(c, 0, m).key = s.key
            BY <1>6, <1>8
        <3>2. Write(Slice(s, Cap(s)), 0, SubSeq(data, 1, n)).key = s.key
            BY <1>3, <3>1 DEF m
        <3> QED BY <3>2 DEF Received, n, m
    <2>2. Write(Slice(s, Cap(s)), 0, m) = v
        BY <1>3, <1>6
    <2> HIDE DEF u
    <2> QED BY <1>10, <2>1, <2>2
<1> HIDE DEF u
<1>12. /\ Shaped(r) /\ r.ok = TRUE /\ r.arr = w /\ r.key = s.key /\ r.flen = fl /\ r.len = n
       /\ r.tlen = n
    <2> HIDE DEF fl
    <2> QED BY <1>9 DEF Shaped
<1> HIDE DEF r
<1>13. Cap(r) = Cap(s) /\ IsBytes(r.arr) /\ \A i \in 1..n : r.arr[i] = data[i]
    BY <1>1, <1>7, <1>12 DEF Cap
<1>14. Layout(r, HeaderOf(s.key))
    BY <1>12 DEF Layout
<1>15. ASSUME SumLens(r.flen) <= n PROVE Well(r)
    <2>1. r.flen \in [Field -> Nat] /\ \A f \in Field : r.flen[f] \in {0, fcaps[f]}
        <3> DEFINE F == HeaderOf(s.key)
        <3>1. Layout(r, F) /\ F \subseteq 1..4 /\ fMagic \in F /\ fFlags \in F
            BY <1>14, HeaderIs
        <3> HIDE DEF F
        <3> QED BY ONLY <3>1, OpenLayout
    <2>2. SumCaps <= Cap(s) /\ n \in 0..Cap(s) /\ n \in Int
        BY <1>1, <1>2, Caps
    <2> QED BY <1>12, <1>13, <1>15, <2>1, <2>2 DEF Well
<1>16. TakenIn(r, s, data)
    BY <1>2, <1>12, <1>13, <1>14, <1>15 DEF TakenIn, n
<1> QED BY <1>11, <1>16

\* r has in it the whole of the packet q.
TakenWhole(r, s, q) ==
    /\ Shaped(r) /\ r.ok = TRUE /\ IsBytes(r.arr) /\ Cap(r) = Cap(s) /\ r.key = s.key
    /\ r.len = q.len /\ r.tlen = q.len /\ Layout(r, HeaderOf(s.key))
    /\ \A i \in 1..q.len : r.arr[i] = q.arr[i]
    /\ SumLens(r.flen) <= q.len => Well(r)

\* A whole packet that was taken in.
LEMMA WholeIn ==
    ASSUME NEW q, Well(q), NEW s, Buffer(s), q.len <= Cap(s)
    PROVE  TakenWhole(Received(s, bytes(q)), s, q)
<1> DEFINE m == bytes(q)
           r == Received(s, m)
<1>1. IsBytes(m) /\ Len(m) = q.len /\ \A i \in 1..q.len : m[i] = q.arr[i]
    BY BytesIs
<1> HIDE DEF m
<1>2. TakenIn(r, s, m)
    BY <1>1, ReceivedIs
<1> HIDE DEF r
<1>3. /\ Shaped(r) /\ r.ok = TRUE /\ IsBytes(r.arr) /\ Cap(r) = Cap(s) /\ r.key = s.key
      /\ r.len = q.len /\ r.tlen = q.len /\ Layout(r, HeaderOf(s.key))
      /\ \A i \in 1..q.len : r.arr[i] = q.arr[i]
      /\ SumLens(r.flen) <= q.len => Well(r)
    BY <1>1, <1>2 DEF TakenIn
<1> QED BY <1>3 DEF r, m, TakenWhole

\* A packet with a header, and an HMAC if there is a key.
Framed(q, F) ==
    /\ Well(q) /\ Layout(q, F) /\ fMagic \in F /\ fFlags \in F
    /\ fHMAC \in F <=> q.key # NoKey
    /\ "hmac" \in flags(q) <=> q.key # NoKey
    /\ get(q, fMagic) = Magic

\* A packet ready to be sent, with the fields F: its HMAC, if there is a key,
\* is that of its bytes.
Sendable(q, F) == Framed(q, F) /\ (q.key # NoKey => Sealed(q))

\* u holds what q holds but for the HMAC.
Carries(u, q) ==
    /\ u.flen = q.flen /\ u.len = q.len
    /\ \A i \in 1..q.len : ~(q.flen[fHMAC] # 0 /\ i > 4 /\ i <= 20) => u.arr[i] = q.arr[i]

\* What holds what was sent reads as what was sent, but for the HMAC.
LEMMA AsSent ==
    ASSUME NEW q, NEW F, Framed(q, F), NEW u, Carries(u, q)
    PROVE  /\ \A g \in Field \ {fHMAC} : get(u, g) = get(q, g)
           /\ payload(u) = payload(q) /\ flags(u) = flags(q)
<1>1. Well(q) /\ Layout(q, F) /\ fMagic \in F /\ fFlags \in F
    BY DEF Framed
<1>2. /\ Pos(q, fHMAC) = 4 /\ q.flen[fHMAC] = (IF fHMAC \in F THEN 16 ELSE 0)
      /\ q.flen[fConnToken] = (IF fConnToken \in F THEN 8 ELSE 0)
      /\ SumLens(q.flen) \in Nat /\ SumLens(q.flen) >= 4 + q.flen[fHMAC]
    <2>1. /\ Pos(q, fHMAC) = 4 /\ q.flen[fHMAC] = (IF fHMAC \in F THEN 16 ELSE 0)
          /\ q.flen[fConnToken] = (IF fConnToken \in F THEN 8 ELSE 0)
          /\ SumLens(q.flen) \in Nat /\ SumLens(q.flen) >= 4 + q.flen[fHMAC] + q.flen[fConnToken]
        BY <1>1, OpenLayout
    <2> QED BY <2>1
<1>3. fHMAC \in Field /\ fFlags \in Field /\ fFlags # fHMAC
    BY FieldFacts DEF fHMAC, fFlags
<1>4. u.flen = q.flen /\ u.len = q.len /\ q.len \in Nat /\ SumLens(q.flen) <= q.len
    BY <1>1, Bounds DEF Carries
<1>5. ASSUME NEW g \in Field, g # fHMAC PROVE get(u, g) = get(q, g)
    <2>1. q.flen[g] \in Nat /\ Pos(q, g) \in Nat /\ Pos(q, g) + q.flen[g] <= SumLens(q.flen)
        BY <1>1, FieldFacts, Lengths
    <2>2. Pos(u, g) = Pos(q, g) /\ u.flen[g] = q.flen[g]
        BY <1>4 DEF Pos
    <2>3. ASSUME NEW i \in 1..q.flen[g] PROVE u.arr[Pos(u, g) + i] = q.arr[Pos(q, g) + i]
        <3> DEFINE x == Pos(q, g)
                   d == q.flen[g]
                   h == q.flen[fHMAC]
        <3>1. x \in Nat /\ d \in Nat /\ x + d <= q.len /\ i \in 1..d /\ q.len \in Nat
              /\ SumLens(q.flen) \in Nat
            <4>1. SumLens(q.flen) \in Nat
                BY <1>1, Lengths
            <4> QED BY <1>4, <2>1, <4>1
        <3>2. h = 0 \/ h = 16
            BY <1>2
        <3>3. h = 16 => x + d <= 4 \/ 20 <= x
            <4> SUFFICES ASSUME h = 16 PROVE x + d <= 4 \/ 20 <= x
                OBVIOUS
            <4>1. g \in 1..13 /\ fHMAC \in 1..13
                BY <1>3, FieldFacts
            <4>2. CASE g < fHMAC
                <5>1. Pos(q, g) + q.flen[g] <= Pos(q, fHMAC)
                    BY <1>1, <1>3, <4>2, Positions
                <5> QED BY <1>2, <5>1
            <4>3. CASE fHMAC < g
                <5>1. Pos(q, fHMAC) + q.flen[fHMAC] <= Pos(q, g)
                    BY <1>1, <1>3, <4>3, Positions
                <5> QED BY <1>2, <5>1
            <4> QED BY <1>5, <4>1, <4>2, <4>3
        <3> HIDE DEF x, d, h
        <3>4. x + i \in 1..q.len /\ ~(h # 0 /\ x + i > 4 /\ x + i <= 20)
            BY <3>1, <3>2, <3>3
        <3>5. u.arr[x + i] = q.arr[x + i]
            BY <3>4 DEF Carries, h
        <3> QED BY <2>2, <3>5 DEF x
    <2> QED BY <2>1, <2>2, <2>3, GetSame
<1>6. flags(u) = flags(q)
    <2>1. get(u, fFlags) = get(q, fFlags)
        BY <1>3, <1>5
    <2> QED BY <2>1 DEF flags
<1>7. payload(u) = payload(q)
    <2> DEFINE s == SumLens(q.flen)
               n == q.len - s
    <2>1. s \in Nat /\ n \in Nat /\ s + n = q.len
        <3>1. SumLens(q.flen) \in Nat
            BY <1>1, Lengths
        <3> QED BY <1>4, <3>1
    <2>2. payload(u) = SubSeq(u.arr, s + 1, s + n) /\ payload(q) = SubSeq(q.arr, s + 1, s + n)
        BY <1>4, <2>1 DEF payload
    <2>3. (q.flen[fHMAC] # 0 => 20 <= s)
        BY <1>2
    <2> HIDE DEF s, n
    <2>4. AgreeFrom(u.arr, s, q.arr, s, n)
        <3> SUFFICES ASSUME NEW k \in 1..n PROVE u.arr[s + k] = q.arr[s + k]
            BY DEF AgreeFrom
        <3>1. s + k \in 1..q.len /\ ~(q.flen[fHMAC] # 0 /\ s + k > 4 /\ s + k <= 20)
            BY <2>1, <2>3
        <3> QED BY <3>1 DEF Carries
    <2>5. SubSeq(u.arr, s + 1, s + n) = SubSeq(q.arr, s + 1, s + n)
        BY ONLY <2>1, <2>4, PartSame
    <2> QED BY <2>2, <2>5
<1> QED BY <1>5, <1>6, <1>7

\* r, read with the key of s, has the header of q.
HeaderAs(r, s, q) ==
    /\ get(r, fMagic) = Magic /\ flags(r) = flags(q)
    /\ q.key # NoKey /\ s.key # NoKey => get(r, fHMAC) = get(q, fHMAC)
    /\ (q.key # NoKey \/ s.key = NoKey) => fbufValid(r) /\ Well(r)

\* The part of it that is read before its fields are known.
LEMMA HeaderRead ==
    ASSUME NEW q, NEW F, Framed(q, F), NEW s, Buffer(s), q.len <= Cap(s)
    PROVE  HeaderAs(Received(s, bytes(q)), s, q)
<1> DEFINE r == Received(s, bytes(q))
<1>1. Well(q) /\ Layout(q, F) /\ fMagic \in F /\ fFlags \in F
      /\ (fHMAC \in F <=> q.key # NoKey) /\ get(q, fMagic) = Magic
    BY DEF Framed
<1>2. TakenWhole(r, s, q)
    BY <1>1, WholeIn
<1> HIDE DEF r
<1>3. /\ r.ok = TRUE /\ Cap(r) = Cap(s) /\ r.key = s.key
      /\ r.len = q.len /\ Layout(r, HeaderOf(s.key))
      /\ \A i \in 1..q.len : r.arr[i] = q.arr[i]
      /\ SumLens(r.flen) <= q.len => Well(r)
    BY <1>2 DEF TakenWhole
<1> DEFINE H == HeaderOf(s.key)
<1>4. H \subseteq 1..4 /\ fMagic \in H /\ fFlags \in H /\ (fHMAC \in H <=> s.key # NoKey)
      /\ fConnToken \notin H /\ Layout(r, H)
    BY <1>3, HeaderIs
<1> HIDE DEF H
<1>5. /\ r.flen[fMagic] = 3 /\ r.flen[fFlags] = 1 /\ r.flen[fHMAC] = (IF fHMAC \in H THEN 16 ELSE 0)
      /\ r.flen[fConnToken] = 0
      /\ Pos(r, fMagic) = 0 /\ Pos(r, fFlags) = 3 /\ Pos(r, fHMAC) = 4
      /\ SumLens(r.flen) = 4 + r.flen[fHMAC] + r.flen[fConnToken]
    <2>1. /\ r.flen[fMagic] = 3 /\ r.flen[fFlags] = 1
          /\ r.flen[fHMAC] = (IF fHMAC \in H THEN 16 ELSE 0)
          /\ r.flen[fConnToken] = (IF fConnToken \in H THEN 8 ELSE 0)
          /\ Pos(r, fMagic) = 0 /\ Pos(r, fFlags) = 3 /\ Pos(r, fHMAC) = 4
          /\ SumLens(r.flen) = 4 + r.flen[fHMAC] + r.flen[fConnToken]
        BY <1>4, OpenLayout
    <2> QED BY <1>4, <2>1
<1>6. /\ q.flen[fMagic] = 3 /\ q.flen[fFlags] = 1 /\ q.flen[fHMAC] = (IF fHMAC \in F THEN 16 ELSE 0)
      /\ q.flen[fConnToken] \in Nat
      /\ Pos(q, fMagic) = 0 /\ Pos(q, fFlags) = 3 /\ Pos(q, fHMAC) = 4
      /\ SumLens(q.flen) \in Nat /\ SumLens(q.flen) >= 4 + q.flen[fHMAC] + q.flen[fConnToken]
    <2>1. /\ q.flen[fMagic] = 3 /\ q.flen[fFlags] = 1
          /\ q.flen[fHMAC] = (IF fHMAC \in F THEN 16 ELSE 0)
          /\ q.flen[fConnToken] = (IF fConnToken \in F THEN 8 ELSE 0)
          /\ Pos(q, fMagic) = 0 /\ Pos(q, fFlags) = 3 /\ Pos(q, fHMAC) = 4
          /\ SumLens(q.flen) \in Nat /\ SumLens(q.flen) >= 4 + q.flen[fHMAC] + q.flen[fConnToken]
        BY <1>1, OpenLayout
    <2> QED BY <2>1
<1>7. q.len \in Nat /\ 4 + q.flen[fHMAC] <= q.len
    <2>1. q.len \in Nat /\ SumLens(q.flen) <= q.len
        BY <1>1, Bounds
    <2> QED BY <1>6, <2>1
<1>8. get(r, fMagic) = get(q, fMagic)
    <2>1. \A i \in 1..3 : r.arr[0 + i] = q.arr[0 + i]
        BY <1>3, <1>6, <1>7
    <2> QED BY <1>5, <1>6, <2>1, GetSame
<1>9. get(r, fFlags) = get(q, fFlags)
    <2>1. \A i \in 1..1 : r.arr[3 + i] = q.arr[3 + i]
        BY <1>3, <1>6, <1>7
    <2> QED BY <1>5, <1>6, <2>1, GetSame
<1>10. ASSUME q.key # NoKey, s.key # NoKey PROVE get(r, fHMAC) = get(q, fHMAC)
    <2>1. q.flen[fHMAC] = 16 /\ r.flen[fHMAC] = 16
        BY <1>1, <1>4, <1>5, <1>6, <1>10
    <2>2. \A i \in 1..16 : r.arr[4 + i] = q.arr[4 + i]
        BY <1>3, <1>7, <2>1
    <2> QED BY <1>5, <1>6, <2>1, <2>2, GetSame
<1>11. ASSUME q.key # NoKey \/ s.key = NoKey PROVE fbufValid(r) /\ Well(r)
    <2>1. r.flen[fHMAC] <= q.flen[fHMAC]
        BY <1>1, <1>4, <1>5, <1>6, <1>11
    <2>2. SumLens(r.flen) <= q.len
        BY <1>4, <1>5, <1>6, <1>7, <2>1
    <2>3. Well(r)
        BY <1>3, <2>2
    <2> QED BY <2>3, Bounds DEF fbufValid, Well
<1> QED BY <1>1, <1>8, <1>9, <1>10, <1>11 DEF flags, r, HeaderAs

\* The HMAC of it that is computed where it is read.
LEMMA MacRead ==
    ASSUME NEW q, NEW F, Framed(q, F), NEW s, Buffer(s), q.len <= Cap(s),
           q.key # NoKey, s.key = q.key
    PROVE  Mac(zero(Received(s, bytes(q)), fHMAC)) = Mac(zero(q, fHMAC))
<1> DEFINE r == Received(s, bytes(q))
           y == zero(r, fHMAC)
           z == zero(q, fHMAC)
<1>1. Well(q) /\ Layout(q, F) /\ fMagic \in F /\ fFlags \in F /\ fHMAC \in F
    BY DEF Framed
<1>2. TakenWhole(r, s, q) /\ HeaderAs(r, s, q)
    BY <1>1, WholeIn, HeaderRead
<1> HIDE DEF r
<1>3. /\ Cap(r) = Cap(s) /\ r.key = s.key
      /\ r.len = q.len /\ Layout(r, HeaderOf(s.key))
      /\ \A i \in 1..q.len : r.arr[i] = q.arr[i]
    BY <1>2 DEF TakenWhole
<1>4. Well(r)
    BY <1>2 DEF HeaderAs
<1>5. q.flen[fHMAC] = 16 /\ Pos(q, fHMAC) = 4
    BY <1>1, OpenLayout
<1>6. r.flen[fHMAC] = 16 /\ Pos(r, fHMAC) = 4
    <2> DEFINE H == HeaderOf(s.key)
    <2>1. H \subseteq 1..4 /\ fMagic \in H /\ fFlags \in H /\ fHMAC \in H /\ Layout(r, H)
        BY <1>3, HeaderIs
    <2> HIDE DEF H
    <2> QED BY <2>1, OpenLayout
<1>7. fHMAC \in Field /\ fcaps[fHMAC] = 16 /\ Len(Zeros(16)) = 16
    <2>1. 16 \in Nat
        OBVIOUS
    <2>2. Len(Zeros(16)) = 16
        BY <2>1, ZerosIs
    <2> QED BY <2>2, FieldFacts, Caps DEF fHMAC
<1>8. Over(y, r, fHMAC) /\ y.arr = Written(r.arr, 4, Zeros(16))
    BY <1>4, <1>6, <1>7, ZeroIs
<1>9. Over(z, q, fHMAC) /\ z.arr = Written(q.arr, 4, Zeros(16))
    BY <1>1, <1>5, <1>7, ZeroIs
<1> HIDE DEF y, z
<1>10. Well(y) /\ Well(z) /\ y.len = q.len /\ z.len = q.len /\ y.key = z.key
    BY <1>3, <1>8, <1>9 DEF Over
<1>11. \A i \in 1..q.len : y.arr[i] = z.arr[i]
    <2> SUFFICES ASSUME NEW i \in 1..q.len PROVE y.arr[i] = z.arr[i]
        OBVIOUS
    <2>1. i \in 1..Len(r.arr) /\ i \in 1..Len(q.arr)
        <3>1. q.len \in Nat /\ q.len <= Len(q.arr) /\ Len(q.arr) \in Nat
            BY <1>1, Bounds
        <3>2. r.len <= Len(r.arr) /\ Len(r.arr) \in Nat
            BY <1>4, Bounds
        <3> QED BY <1>3, <3>1, <3>2
    <2>2. r.arr[i] = q.arr[i]
        BY <1>3
    <2> QED BY <1>8, <1>9, <2>1, <2>2 DEF Written
<1>12. bytes(y) = bytes(z)
    <2>1. /\ IsBytes(bytes(y)) /\ Len(bytes(y)) = q.len
          /\ \A i \in 1..q.len : bytes(y)[i] = y.arr[i]
        BY <1>10, BytesIs
    <2>2. /\ IsBytes(bytes(z)) /\ Len(bytes(z)) = q.len
          /\ \A i \in 1..q.len : bytes(z)[i] = z.arr[i]
        BY <1>10, BytesIs
    <2> QED BY <1>11, <2>1, <2>2, SameBytes
<1>13. Mac(y) = Mac(z)
    BY <1>10, <1>12 DEF Mac
<1> QED BY <1>13 DEF y, z, r

\* It is the one that was sent when that was computed as it left.
LEMMA SealRead ==
    ASSUME NEW q, NEW F, Sendable(q, F), NEW s, Buffer(s), q.len <= Cap(s),
           q.key # NoKey, s.key = q.key
    PROVE  Mac(zero(Received(s, bytes(q)), fHMAC)) = get(q, fHMAC)
BY MacRead DEF Sendable, Sealed

\* A packet is taken where the key is the one it was made with, and refused
\* everywhere else: with another key, with none where it has an HMAC, and with
\* one where it has none.
THEOREM KeysDecide ==
    ASSUME NEW q, NEW F, Sendable(q, F), flags(q) \subseteq {"open", "reply", "close", "hmac"},
           NEW s, Buffer(s), q.len <= Cap(s)
    PROVE  readError(Received(s, bytes(q))) = "none" <=> s.key = q.key
<1> DEFINE r == Received(s, bytes(q))
<1>1. /\ get(r, fMagic) = Magic /\ flags(r) = flags(q)
      /\ q.key # NoKey /\ s.key # NoKey => get(r, fHMAC) = get(q, fHMAC)
      /\ (q.key # NoKey \/ s.key = NoKey) => fbufValid(r) /\ Well(r)
    <2>1. HeaderAs(r, s, q)
        BY HeaderRead DEF Sendable
    <2> HIDE DEF r
    <2> QED BY <2>1 DEF HeaderAs
<1>2. r.key = s.key /\ Layout(r, HeaderOf(s.key))
    <2>1. Well(q)
        BY DEF Sendable, Framed
    <2>2. TakenWhole(r, s, q)
        BY <2>1, WholeIn
    <2> HIDE DEF r
    <2> QED BY <2>2 DEF TakenWhole
<1>3. q.key # NoKey /\ s.key = q.key => Mac(zero(r, fHMAC)) = get(q, fHMAC)
    BY SealRead
<1>4. "hmac" \in flags(q) <=> q.key # NoKey
    BY DEF Sendable, Framed
<1> HIDE DEF r
<1>5. ASSUME s.key = q.key PROVE readError(r) = "none"
    <2>1. fbufValid(r)
        BY <1>1, <1>5
    <2>2. packetError(r) = "none"
        BY <1>1, <1>2, <1>3, <1>4, <1>5 DEF packetError
    <2> QED BY <2>1, <2>2 DEF readError
<1>6. ASSUME s.key # q.key PROVE readError(r) # "none"
    <2>1. CASE ~fbufValid(r)
        BY <2>1 DEF readError
    <2>2. CASE fbufValid(r)
        <3>1. CASE s.key = NoKey \/ q.key = NoKey
            BY <1>1, <1>2, <1>4, <1>6, <2>2, <3>1 DEF readError, packetError
        <3>2. CASE s.key # NoKey /\ q.key # NoKey
            <4>1. get(r, fHMAC) = Mac(zero(q, fHMAC)) /\ zero(q, fHMAC).key = q.key
                <5>1. Well(q) /\ Layout(q, F) /\ fMagic \in F /\ fFlags \in F
                      /\ fHMAC \in F /\ Sealed(q)
                    BY <3>2 DEF Sendable, Framed
                <5>2. q.flen[fHMAC] = 16
                    BY <5>1, OpenLayout
                <5>3. fHMAC \in Field /\ fcaps[fHMAC] = 16
                    BY FieldFacts, Caps DEF fHMAC
                <5>4. Over(zero(q, fHMAC), q, fHMAC)
                    BY <5>1, <5>2, <5>3, ZeroIs
                <5> QED BY <1>1, <3>2, <5>1, <5>4 DEF Sealed, Over
            <4>2. zero(r, fHMAC).key = s.key
                <5> DEFINE H == HeaderOf(s.key)
                <5>1. H \subseteq 1..4 /\ fMagic \in H /\ fFlags \in H /\ fHMAC \in H /\ Layout(r, H)
                    BY <1>2, <3>2, HeaderIs
                <5> HIDE DEF H
                <5>2. r.flen[fHMAC] = 16
                    BY <5>1, OpenLayout
                <5>3. fHMAC \in Field /\ fcaps[fHMAC] = 16
                    BY FieldFacts, Caps DEF fHMAC
                <5>4. Over(zero(r, fHMAC), r, fHMAC)
                    BY <1>1, <3>2, <5>2, <5>3, ZeroIs
                <5> QED BY <1>2, <5>4 DEF Over
            <4>3. get(r, fHMAC) # Mac(zero(r, fHMAC))
                <5> DEFINE y == zero(r, fHMAC)
                           z == zero(q, fHMAC)
                <5>1. y.key # z.key
                    BY <1>6, <4>1, <4>2
                <5> HIDE DEF y, z
                <5>2. Mac(y) # Mac(z)
                    BY <5>1, MacKey
                <5> QED BY <4>1, <5>2 DEF y, z
            <4> QED BY <1>1, <1>2, <2>2, <3>2, <4>3 DEF readError, packetError
        <3> QED BY <3>1, <3>2
    <2> QED BY <2>1, <2>2
<1> QED BY <1>5, <1>6 DEF r

-----------------------------------------------------------------------------
(* A packet that was read                                                  *)

\* What the receiver of a packet with the same key has, once it zeroed the HMAC.
LEMMA ReadBack ==
    ASSUME NEW q, NEW F, Framed(q, F), NEW s, Buffer(s), q.len <= Cap(s), s.key = q.key
    PROVE  LET t == readReset(Received(s, bytes(q)))
           IN  /\ Well(t) /\ t.len = q.len /\ t.tlen = q.len /\ Cap(t) = Cap(s) /\ t.key = q.key
               /\ Layout(t, HeaderOf(q.key))
               /\ \A i \in 1..q.len : ~(q.flen[fHMAC] # 0 /\ i > 4 /\ i <= 20) => t.arr[i] = q.arr[i]
               /\ get(t, fMagic) = Magic /\ flags(t) = flags(q)
<1> DEFINE r == Received(s, bytes(q))
           t == readReset(r)
           H == HeaderOf(q.key)
<1>1. Well(q) /\ Layout(q, F) /\ fMagic \in F /\ fFlags \in F
      /\ (fHMAC \in F <=> q.key # NoKey)
    BY DEF Framed
<1>2. /\ Cap(r) = Cap(s) /\ r.key = q.key /\ r.len = q.len /\ r.tlen = q.len /\ Layout(r, H)
      /\ \A i \in 1..q.len : r.arr[i] = q.arr[i]
    <2>1. TakenWhole(r, s, q)
        BY <1>1, WholeIn
    <2> HIDE DEF r
    <2> QED BY <2>1 DEF TakenWhole
<1>3. get(r, fMagic) = Magic /\ flags(r) = flags(q) /\ Well(r)
    <2>1. HeaderAs(r, s, q)
        BY HeaderRead
    <2> HIDE DEF r
    <2> QED BY <2>1 DEF HeaderAs
<1> HIDE DEF r
<1>4. H \subseteq 1..4 /\ fMagic \in H /\ fFlags \in H /\ (fHMAC \in H <=> q.key # NoKey)
    BY HeaderIs
<1> HIDE DEF H
<1>5. CASE q.key = NoKey
    <2>1. t = r
        BY <1>2, <1>5 DEF readReset
    <2> HIDE DEF t
    <2> QED BY <1>2, <1>3, <2>1 DEF t, r, H
<1>6. CASE q.key # NoKey
    <2>1. t = zero(r, fHMAC)
        BY <1>2, <1>6 DEF readReset
    <2>2. r.flen[fHMAC] = 16 /\ Pos(r, fHMAC) = 4 /\ q.flen[fHMAC] = 16
        BY <1>1, <1>2, <1>4, <1>6, OpenLayout
    <2>3. fHMAC \in Field /\ fcaps[fHMAC] = 16 /\ fFlags \in Field /\ fMagic \in Field
          /\ fFlags # fHMAC /\ fMagic # fHMAC
        BY FieldFacts, Caps DEF fHMAC, fFlags, fMagic
    <2> HIDE DEF t
    <2>4. Over(t, r, fHMAC)
        BY <1>3, <2>1, <2>2, <2>3, ZeroIs
    <2>5. get(t, fMagic) = Magic /\ flags(t) = flags(q)
        <3>1. get(t, fMagic) = get(r, fMagic) /\ get(t, fFlags) = get(r, fFlags)
            BY <2>3, <2>4 DEF Over
        <3> QED BY <1>3, <3>1 DEF flags
    <2>6. \A i \in 1..q.len : ~(q.flen[fHMAC] # 0 /\ i > 4 /\ i <= 20) => t.arr[i] = q.arr[i]
        <3> SUFFICES ASSUME NEW i \in 1..q.len, ~(i > 4 /\ i <= 20) PROVE t.arr[i] = q.arr[i]
            BY <2>2
        <3>1. i \in 1..Cap(r) /\ ~(i > Pos(r, fHMAC) /\ i <= Pos(r, fHMAC) + fcaps[fHMAC])
            <4>1. q.len \in Nat /\ Cap(s) \in Nat
                BY <1>1, Bounds DEF Buffer, IsBytes, Cap
            <4> QED BY <1>2, <2>2, <2>3, <4>1
        <3> QED BY <1>2, <2>4, <3>1 DEF Over
    <2>7. Well(t) /\ t.len = q.len /\ t.tlen = q.len /\ Cap(t) = Cap(s) /\ t.key = q.key
          /\ Layout(t, H)
        BY <1>2, <2>4 DEF Over, Layout
    <2> QED BY <2>5, <2>6, <2>7 DEF t, r, H
<1> QED BY <1>5, <1>6

\* What it reads once it added the fields that the sender set.
LEMMA FieldsRead ==
    ASSUME NEW q, NEW F, Framed(q, F), NEW s, Buffer(s), q.len <= Cap(s), s.key = q.key,
           NEW G, F = HeaderOf(q.key) \cup G
    PROVE  LET u == addFields(readReset(Received(s, bytes(q))), G, FALSE)
           IN  /\ Well(u) /\ Carries(u, q) /\ u.tlen = q.len /\ u.key = q.key /\ Cap(u) = Cap(s)
               /\ \A g \in Field \ {fHMAC} : get(u, g) = get(q, g)
               /\ payload(u) = payload(q) /\ flags(u) = flags(q)
<1> DEFINE t == readReset(Received(s, bytes(q)))
           fl == [f \in Field |-> IF f \in G THEN fcaps[f] ELSE t.flen[f]]
           u == [t EXCEPT !.flen = fl]
<1>1. /\ Well(t) /\ t.len = q.len /\ t.tlen = q.len /\ Cap(t) = Cap(s) /\ t.key = q.key
      /\ Layout(t, HeaderOf(q.key))
      /\ \A i \in 1..q.len : ~(q.flen[fHMAC] # 0 /\ i > 4 /\ i <= 20) => t.arr[i] = q.arr[i]
    BY ReadBack
<1>2. addFields(t, G, FALSE) = u
    BY DEF addFields, Relaid
<1> HIDE DEF t
<1>3. fl = q.flen
    <2>1. q.flen = [f \in Field |-> IF f \in F THEN fcaps[f] ELSE 0]
        BY DEF Framed, Layout
    <2>2. \A f \in Field : t.flen[f] = IF f \in HeaderOf(q.key) THEN fcaps[f] ELSE 0
        BY <1>1 DEF Layout
    <2>3. \A f \in Field : fl[f] = IF f \in F THEN fcaps[f] ELSE 0
        BY <2>2
    <2> QED BY <2>1, <2>3
<1> HIDE DEF fl
<1>4. /\ Shaped(u) /\ u.ok = TRUE /\ u.arr = t.arr /\ u.len = q.len /\ u.tlen = q.len
      /\ u.key = q.key /\ u.flen = q.flen
    BY <1>1, <1>3 DEF Well, Shaped
<1> HIDE DEF u
<1>5. Cap(u) = Cap(s)
    BY <1>1, <1>4 DEF Cap
<1>6. Well(u)
    <2>1. Well(q)
        BY DEF Framed
    <2>2. q.flen \in [Field -> Nat] /\ \A f \in Field : q.flen[f] \in {0, fcaps[f]}
        BY <2>1 DEF Well
    <2>3. IsBytes(t.arr) /\ SumCaps <= Cap(s) /\ q.len \in Int /\ q.len \in 0..Cap(s)
        BY <1>1, <2>1, Bounds, Caps DEF Well, Buffer
    <2>4. SumLens(q.flen) <= q.len
        BY <2>1 DEF Well
    <2> QED BY <1>4, <1>5, <2>2, <2>3, <2>4 DEF Well
<1>7. Carries(u, q)
    BY <1>1, <1>4 DEF Carries
<1>8. /\ \A g \in Field \ {fHMAC} : get(u, g) = get(q, g)
      /\ payload(u) = payload(q) /\ flags(u) = flags(q)
    BY <1>7, AsSent
<1> QED BY <1>2, <1>4, <1>5, <1>6, <1>7, <1>8 DEF t

-----------------------------------------------------------------------------
(* The packets of cconn.open and accept                                    *)

\* A packet with the fields F, a header among them.
Headed(p, F) ==
    /\ Well(p) /\ Layout(p, F) /\ fMagic \in F /\ fFlags \in F
    /\ fHMAC \in F <=> p.key # NoKey
    /\ get(p, fMagic) = Magic
    /\ p.key = NoKey => "hmac" \notin flags(p)

\* A packet with a payload and its HMAC.
LEMMA SealedPayload ==
    ASSUME NEW p, NEW F, Headed(p, F), NEW fs, "hmac" \notin fs,
           NEW b, IsBytes(b), SumLens(p.flen) + Len(b) <= Cap(p)
    PROVE  LET q == updateHMAC(setPayload(setFlagBits(p, fs), b))
           IN  /\ Sendable(q, F) /\ payload(q) = b /\ q.key = p.key
               /\ q.len = SumLens(p.flen) + Len(b) /\ Cap(q) = Cap(p)
               /\ flags(q) = flags(p) \cup fs \cup HMACFlag(p.key)
               /\ fConnToken \in F => getNumber(q, fConnToken) = getNumber(p, fConnToken)
<1> DEFINE x == setFlagBits(p, fs)
           y == setPayload(x, b)
           q == updateHMAC(y)
<1>0. /\ Well(p) /\ Layout(p, F) /\ fMagic \in F /\ fFlags \in F
      /\ (fHMAC \in F <=> p.key # NoKey) /\ get(p, fMagic) = Magic
      /\ (p.key = NoKey => "hmac" \notin flags(p))
    BY DEF Headed
<1>1. p.flen[fFlags] = 1 /\ (p.key # NoKey => p.flen[fHMAC] = 16)
    BY <1>0, OpenLayout
<1>2. Over(x, p, fFlags) /\ flags(x) = flags(p) \cup fs
    BY <1>0, <1>1, FlagsSet
<1>3. Well(x) /\ x.flen = p.flen /\ x.key = p.key /\ Cap(x) = Cap(p)
    BY <1>2 DEF Over
<1> HIDE DEF x
<1>4. /\ Well(y) /\ y.flen = p.flen /\ y.len = SumLens(p.flen) + Len(b) /\ y.key = p.key
      /\ Cap(y) = Cap(p) /\ payload(y) = b /\ \A g \in Field : get(y, g) = get(x, g)
    BY <1>0, <1>3, PayloadSet
<1> HIDE DEF y
<1>5. fFlags \in Field /\ fMagic \in Field /\ fConnToken \in Field /\ fMagic # fFlags
      /\ fConnToken # fFlags /\ fMagic # fHMAC /\ fConnToken # fHMAC
    BY FieldFacts DEF fFlags, fMagic, fHMAC, fConnToken
<1>6. flags(y) = flags(x)
    BY <1>4, <1>5 DEF flags
<1>7. /\ Well(q) /\ q.flen = y.flen /\ q.len = y.len /\ q.key = y.key
      /\ Cap(q) = Cap(y) /\ payload(q) = payload(y)
      /\ flags(q) = flags(y) \cup HMACFlag(y.key)
      /\ q.key # NoKey => Sealed(q)
      /\ \A g \in Field \ {fFlags, fHMAC} : get(q, g) = get(y, g)
    BY <1>1, <1>4, HMACUpdated
<1> HIDE DEF q
<1>8. \A g \in Field \ {fFlags, fHMAC} : get(q, g) = get(p, g)
    BY <1>2, <1>4, <1>7 DEF Over
<1>9. flags(q) = flags(p) \cup fs \cup HMACFlag(p.key)
    BY <1>2, <1>4, <1>6, <1>7
<1>10. "hmac" \in flags(q) <=> q.key # NoKey
    BY <1>0, <1>4, <1>7, <1>9 DEF HMACFlag
<1>11. Layout(q, F)
    BY <1>0, <1>4, <1>7 DEF Layout
<1>12. Sendable(q, F)
    BY <1>0, <1>4, <1>5, <1>7, <1>8, <1>10, <1>11 DEF Sendable, Framed
<1>13. getNumber(q, fConnToken) = getNumber(p, fConnToken)
    BY <1>5, <1>8 DEF getNumber
<1> QED BY <1>4, <1>7, <1>9, <1>12, <1>13 DEF q, y, x

\* The length of the HMAC.
KeyLen(key) == IF key = NoKey THEN 0 ELSE 16

\* An open request: its header, and the parameters as its payload.
LEMMA OpenRequestIs ==
    ASSUME NEW key, NEW b, IsBytes(b), 4 + KeyLen(key) + Len(b) <= 92
    PROVE  LET q == updateHMAC(setPayload(setFlagBits(newPacket(0, maxHeaderLen, key), {"open"}), b))
           IN  /\ Sendable(q, HeaderOf(key)) /\ payload(q) = b /\ q.key = key
               /\ q.len = 4 + KeyLen(key) + Len(b)
               /\ flags(q) = {"open"} \cup HMACFlag(key)
<1> DEFINE p == newPacket(0, maxHeaderLen, key)
<1>1. /\ Well(p) /\ Layout(p, HeaderOf(key)) /\ p.key = key /\ Cap(p) = 92
      /\ get(p, fMagic) = Magic /\ flags(p) = {}
    <2>1. 92 \in Int /\ Greater(92, 92) = 92
        BY DEF Greater
    <2>2. newPacket(0, maxHeaderLen, key) = newPacket(0, 92, key)
        BY Caps
    <2> QED BY <2>1, <2>2, NewPacketIs
<1> HIDE DEF p
<1>2. /\ HeaderOf(key) \subseteq 1..4 /\ fMagic \in HeaderOf(key) /\ fFlags \in HeaderOf(key)
      /\ (fHMAC \in HeaderOf(key) <=> key # NoKey) /\ fConnToken \notin HeaderOf(key)
    BY HeaderIs
<1>3. SumLens(p.flen) = 4 + KeyLen(key)
    <2> DEFINE H == HeaderOf(key)
    <2>1. H \subseteq 1..4 /\ fMagic \in H /\ fFlags \in H /\ Layout(p, H)
        BY <1>1, <1>2
    <2>2. (fHMAC \in H <=> key # NoKey) /\ fConnToken \notin H
        BY <1>2
    <2> HIDE DEF H
    <2>3. /\ p.flen[fHMAC] = (IF fHMAC \in H THEN 16 ELSE 0)
          /\ p.flen[fConnToken] = (IF fConnToken \in H THEN 8 ELSE 0)
          /\ SumLens(p.flen) = 4 + p.flen[fHMAC] + p.flen[fConnToken]
        BY <2>1, OpenLayout
    <2> QED BY <2>2, <2>3 DEF KeyLen
<1> DEFINE q == updateHMAC(setPayload(setFlagBits(p, {"open"}), b))
<1>4. /\ Sendable(q, HeaderOf(key)) /\ payload(q) = b /\ q.key = p.key
      /\ q.len = SumLens(p.flen) + Len(b)
      /\ flags(q) = flags(p) \cup {"open"} \cup HMACFlag(p.key)
    <2> DEFINE H == HeaderOf(key)
               fs == {"open"}
    <2>1. Headed(p, H) /\ "hmac" \notin fs /\ SumLens(p.flen) + Len(b) <= Cap(p)
        BY <1>1, <1>2, <1>3 DEF Headed
    <2> HIDE DEF H, fs
    <2> DEFINE v == updateHMAC(setPayload(setFlagBits(p, fs), b))
    <2>2. /\ Sendable(v, H) /\ payload(v) = b /\ v.key = p.key
          /\ v.len = SumLens(p.flen) + Len(b)
          /\ flags(v) = flags(p) \cup fs \cup HMACFlag(p.key)
        BY ONLY IsBytes(b), <2>1, SealedPayload
    <2> HIDE DEF v, q
    <2>3. v = q
        BY DEF v, q, fs
    <2> QED BY <2>2, <2>3 DEF H, fs
<1> HIDE DEF q
<1>5. flags(q) = {"open"} \cup HMACFlag(key)
    BY <1>1, <1>4
<1> QED BY <1>1, <1>3, <1>4, <1>5 DEF q, p

\* A packet of a header alone, with room for the reply that the bytes b make.
Replyable(t, b) ==
    /\ Well(t) /\ Layout(t, HeaderOf(t.key)) /\ get(t, fMagic) = Magic
    /\ t.key = NoKey => "hmac" \notin flags(t)
    /\ t.len + 8 <= Cap(t) /\ t.tlen <= Cap(t)
    /\ IsBytes(b) /\ 12 + KeyLen(t.key) + Len(b) <= Cap(t)

\* q is the reply to an open request: a token, the flags, and the bytes b.
IsReply(q, t, token, b) ==
    /\ Sendable(q, HeaderOf(t.key) \cup {fConnToken}) /\ payload(q) = b /\ q.key = t.key
    /\ q.len = 12 + KeyLen(t.key) + Len(b) /\ Cap(q) = Cap(t)
    /\ flags(q) = flags(t) \cup {"reply"} \cup HMACFlag(t.key)
    /\ ctoken(q) = token

\* The reply made of it, with the token of a connection.
LEMMA OpenReplyIs ==
    ASSUME NEW t, NEW token, NEW b, Replyable(t, b)
    PROVE  IsReply(updateHMAC(setPayload(setFlagBits(setConnToken(t, token), {"reply"}), b)), t, token, b)
<1>0. /\ Well(t) /\ Layout(t, HeaderOf(t.key)) /\ get(t, fMagic) = Magic
      /\ t.key = NoKey => "hmac" \notin flags(t)
      /\ t.len + 8 <= Cap(t) /\ t.tlen <= Cap(t)
      /\ IsBytes(b) /\ 12 + KeyLen(t.key) + Len(b) <= Cap(t)
    BY DEF Replyable
<1> DEFINE H == HeaderOf(t.key)
           F == H \cup {fConnToken}
           p == setConnToken(t, token)
<1>1. /\ H \subseteq 1..4 /\ fMagic \in H /\ fFlags \in H /\ (fHMAC \in H <=> t.key # NoKey)
      /\ fConnToken \notin H /\ Layout(t, H)
    BY <1>0, HeaderIs
<1>2. fConnToken \in Field /\ fcaps[fConnToken] = 8 /\ fFlags \in Field /\ fMagic \in Field
      /\ fConnToken # fFlags /\ fConnToken # fMagic /\ fConnToken # fHMAC /\ fConnToken \in 1..4
    BY FieldFacts, Caps DEF fConnToken, fFlags, fMagic, fHMAC
<1> HIDE DEF H
<1>3. t.flen[fConnToken] = 0
    BY <1>0, <1>1, OpenLayout
<1>4. Room(t, fConnToken)
    BY <1>0, <1>2 DEF Room
<1>5. /\ Well(p) /\ SetShape(p, t, fConnToken) /\ getNumber(p, fConnToken) = token
      /\ \A g \in Field : g # fConnToken => get(p, g) = get(t, g)
    <2> DEFINE f == fConnToken
    <2>1. f \in Field /\ Room(t, f)
        BY <1>0, <1>2, <1>4
    <2>2. p = setNumber(t, f, token)
        BY DEF setConnToken
    <2> HIDE DEF f, p
    <2>3. /\ Well(p) /\ SetShape(p, t, f) /\ getNumber(p, f) = token
          /\ \A g \in Field : g # f => get(p, g) = get(t, g)
        BY <1>0, <2>1, <2>2, NumberSet
    <2> QED BY <2>3 DEF f
<1> HIDE DEF p
<1>6. p.key = t.key /\ Cap(p) = Cap(t) /\ Layout(p, F)
    <2>1. p.flen = [t.flen EXCEPT ![fConnToken] = fcaps[fConnToken]] /\ p.key = t.key
          /\ Cap(p) = Cap(t)
        BY <1>5 DEF SetShape
    <2>2. t.flen = [f \in Field |-> IF f \in H THEN fcaps[f] ELSE 0]
        BY <1>1 DEF Layout
    <2>3. p.flen = [f \in Field |-> IF f \in F THEN fcaps[f] ELSE 0]
        BY <1>2, <2>1, <2>2
    <2> QED BY <2>1, <2>3 DEF Layout
<1>7. F \subseteq 1..4 /\ fMagic \in F /\ fFlags \in F /\ (fHMAC \in F <=> p.key # NoKey)
      /\ fConnToken \in F
    BY <1>1, <1>2, <1>6
<1>8. get(p, fMagic) = Magic /\ flags(p) = flags(t)
    BY <1>0, <1>2, <1>5 DEF flags
<1> HIDE DEF F
<1>9. SumLens(p.flen) = 12 + KeyLen(t.key)
    <2>1. /\ p.flen[fHMAC] = (IF fHMAC \in F THEN 16 ELSE 0)
          /\ p.flen[fConnToken] = (IF fConnToken \in F THEN 8 ELSE 0)
          /\ SumLens(p.flen) = 4 + p.flen[fHMAC] + p.flen[fConnToken]
        BY <1>6, <1>7, OpenLayout
    <2> QED BY <1>6, <1>7, <2>1 DEF KeyLen
<1> DEFINE fs == {"reply"}
           q == updateHMAC(setPayload(setFlagBits(p, fs), b))
<1>10. "hmac" \notin fs /\ SumLens(p.flen) + Len(b) <= Cap(p)
       /\ Headed(p, F)
    BY <1>0, <1>5, <1>6, <1>7, <1>8, <1>9 DEF Headed
<1> HIDE DEF fs
<1>11. /\ Sendable(q, F) /\ payload(q) = b /\ q.key = p.key
       /\ q.len = SumLens(p.flen) + Len(b) /\ Cap(q) = Cap(p)
       /\ flags(q) = flags(p) \cup fs \cup HMACFlag(p.key)
       /\ (fConnToken \in F => getNumber(q, fConnToken) = getNumber(p, fConnToken))
    BY ONLY <1>0, <1>10, SealedPayload
<1> HIDE DEF q
<1>12. /\ q.key = t.key /\ q.len = 12 + KeyLen(t.key) + Len(b) /\ Cap(q) = Cap(t)
       /\ flags(q) = flags(t) \cup {"reply"} \cup HMACFlag(t.key)
       /\ ctoken(q) = token
    BY <1>5, <1>6, <1>7, <1>8, <1>9, <1>11 DEF ctoken, fs
<1>13. IsReply(q, t, token, b)
    BY <1>11, <1>12 DEF IsReply, F, H
<1> QED BY <1>13 DEF q, p, fs

-----------------------------------------------------------------------------
(* Layouts of any fields                                                   *)

\* Whatever fields are set, they fit in the longest header, one after the other.
LEMMA LayoutIs ==
    ASSUME NEW p, NEW F, Layout(p, F)
    PROVE  /\ p.flen \in [Field -> Nat] /\ \A f \in Field : p.flen[f] \in {0, fcaps[f]}
           /\ \A f \in Field : p.flen[f] = IF f \in F THEN fcaps[f] ELSE 0
           /\ \A i \in 1..13 : p.flen[i] \in Nat
           /\ SumLens(p.flen) = SumTo(p.flen, 13)
           /\ SumLens(p.flen) \in Nat /\ SumLens(p.flen) <= 92
           /\ \A f \in Field : /\ Pos(p, f) \in Nat /\ p.flen[f] \in Nat
                               /\ Pos(p, f) + p.flen[f] <= SumLens(p.flen)
<1>1. /\ p.flen \in [Field -> Nat] /\ \A f \in Field : p.flen[f] \in {0, fcaps[f]}
      /\ \A f \in Field : p.flen[f] = IF f \in F THEN fcaps[f] ELSE 0
      /\ \A i \in 1..13 : p.flen[i] \in Nat
    BY FieldFacts DEF Layout
<1>2. SumLens(p.flen) = SumTo(p.flen, 13)
    <2>1. p.flen = [i \in 1..13 |-> p.flen[i]] /\ 13 \in Nat
        BY <1>1, FieldFacts
    <2>2. Len(p.flen) = 13
        BY ONLY <2>1, BytesLen
    <2> QED BY <2>2 DEF SumLens
<1>3. SumTo(p.flen, 13) <= 92 /\ SumTo(p.flen, 13) \in Nat
    <2>1. \A i \in 1..13 : p.flen[i] \in Nat /\ fcaps[i] \in Nat /\ p.flen[i] <= fcaps[i]
        BY <1>1, FieldFacts
    <2>2. SumTo(p.flen, 13) <= SumTo(fcaps, 13) /\ SumTo(p.flen, 13) \in Nat
        <3>1. 13 \in Nat
            OBVIOUS
        <3> QED BY ONLY <2>1, <3>1, SumMore, SumStep
    <2> QED BY <2>2, Caps, FieldFacts DEF SumCaps
<1> DEFINE A == [i \in 1..92 |-> Zero]
           w == [arr |-> A, len |-> 92, tlen |-> 0, flen |-> p.flen, ok |-> TRUE, key |-> NoKey]
<1>4. IsBytes(A) /\ Len(A) = 92
    <2>1. A = [i \in 1..92 |-> A[i]] /\ 92 \in Nat
        OBVIOUS
    <2> HIDE DEF A
    <2> QED BY ONLY <2>1, BytesLen
<1> HIDE DEF A
<1>5. /\ Shaped(w) /\ w.ok = TRUE /\ w.arr = A /\ w.len = 92 /\ w.tlen = 0 /\ w.flen = p.flen
    BY RecordShaped
<1> HIDE DEF w
<1>6. Well(w)
    <2>1. Cap(w) = 92 /\ SumCaps = 92 /\ IsBytes(w.arr)
        BY <1>4, <1>5, Caps DEF Cap
    <2>2. SumLens(w.flen) <= 92 /\ w.len \in 0..92 /\ w.tlen \in Int
        BY <1>2, <1>3, <1>5
    <2> QED BY <1>1, <1>5, <2>1, <2>2 DEF Well
<1>7. \A f \in Field : Pos(w, f) = Pos(p, f)
    BY <1>5 DEF Pos
<1>8. \A f \in Field : /\ Pos(w, f) \in Nat /\ w.flen[f] \in Nat
                       /\ Pos(w, f) + w.flen[f] <= SumLens(w.flen)
    BY <1>1, <1>5, <1>6, Lengths
<1> QED BY <1>1, <1>2, <1>3, <1>5, <1>7, <1>8

\* Layouts that are the same up to a field.
SameTo(F, G, g) == \A f \in 1..g : f \in F <=> f \in G

\* Then its position and its length are.
LEMMA PosSame ==
    ASSUME NEW p, NEW F, Layout(p, F), NEW q, NEW G, Layout(q, G), NEW g \in Field, SameTo(F, G, g)
    PROVE  Pos(q, g) = Pos(p, g) /\ q.flen[g] = p.flen[g]
<1>1. g \in 1..13 /\ g - 1 \in Nat /\ Field = 1..13
    BY FieldFacts
<1>2. \A f \in 1..g : p.flen[f] \in Nat /\ p.flen[f] = q.flen[f]
    <2> TAKE f \in 1..g
    <2>1. f \in Field /\ (f \in F <=> f \in G)
        BY <1>1 DEF SameTo
    <2> QED BY <2>1, LayoutIs
<1>3. SumTo(p.flen, g - 1) = SumTo(q.flen, g - 1)
    <2>1. \A f \in 1..(g - 1) : p.flen[f] \in Nat /\ p.flen[f] = q.flen[f]
        BY <1>1, <1>2
    <2> QED BY ONLY <1>1, <2>1, SumSame
<1> QED BY <1>1, <1>2, <1>3 DEF Pos

\* A field that starts where it did and holds what it held.
LEMMA FieldKept ==
    ASSUME NEW p, NEW F, Layout(p, F), NEW q, NEW G, Layout(q, G), NEW g \in Field, SameTo(F, G, g),
           \A i \in 1..SumLens(p.flen) : i > Pos(p, g) /\ i <= Pos(p, g) + p.flen[g] => q.arr[i] = p.arr[i]
    PROVE  get(q, g) = get(p, g)
<1>1. Pos(q, g) = Pos(p, g) /\ q.flen[g] = p.flen[g]
    BY PosSame
<1>2. /\ Pos(p, g) \in Nat /\ p.flen[g] \in Nat /\ SumLens(p.flen) \in Nat
      /\ Pos(p, g) + p.flen[g] <= SumLens(p.flen)
    BY LayoutIs
<1>3. \A i \in 1..p.flen[g] : q.arr[Pos(q, g) + i] = p.arr[Pos(p, g) + i]
    <2> TAKE i \in 1..p.flen[g]
    <2>1. /\ Pos(p, g) + i \in 1..SumLens(p.flen) /\ Pos(p, g) + i > Pos(p, g)
          /\ Pos(p, g) + i <= Pos(p, g) + p.flen[g]
        BY <1>2
    <2> QED BY <1>1, <2>1
<1> QED BY <1>1, <1>2, <1>3, GetSame

\* More fields are longer.
LEMMA LayoutMore ==
    ASSUME NEW p, NEW F, Layout(p, F), NEW q, NEW G, Layout(q, G), F \cap Field \subseteq G
    PROVE  SumLens(p.flen) <= SumLens(q.flen)
<1>1. \A i \in 1..13 : p.flen[i] \in Nat /\ q.flen[i] \in Nat /\ p.flen[i] <= q.flen[i]
    <2> TAKE i \in 1..13
    <2>1. i \in Field /\ fcaps[i] \in Nat
        BY FieldFacts
    <2>2. /\ p.flen[i] = (IF i \in F THEN fcaps[i] ELSE 0)
          /\ q.flen[i] = (IF i \in G THEN fcaps[i] ELSE 0)
        BY <2>1, LayoutIs
    <2> QED BY <2>1, <2>2
<1>2. SumTo(p.flen, 13) <= SumTo(q.flen, 13)
    <2>1. 13 \in Nat
        OBVIOUS
    <2> QED BY ONLY <1>1, <2>1, SumMore
<1> QED BY <1>2, LayoutIs

-----------------------------------------------------------------------------
(* Packets that end where their fields do, while a side writes its fields  *)

\* A packet with the fields F and nothing behind them.
Tight(p, F) == Well(p) /\ Layout(p, F) /\ p.len = SumLens(p.flen) /\ p.tlen <= p.len

\* q is p with the fields fs written: the others are as they were, and so is
\* what is left in the buffer behind them.
Gained(q, p, F, fs) ==
    /\ Tight(q, F \cup fs) /\ q.key = p.key /\ q.tlen = p.tlen /\ Cap(q) = Cap(p)
    /\ p.len <= q.len
    /\ \A i \in 1..Cap(p) : i > q.len => q.arr[i] = p.arr[i]
    /\ \A g \in Field \ fs : get(q, g) = get(p, g)

\* What nothing was written to.
LEMMA GainedNone ==
    ASSUME NEW p, NEW F, Tight(p, F)
    PROVE  Gained(p, p, F, {})
<1>1. F \cup {} = F /\ p.len \in Nat
    BY Bounds DEF Tight
<1> QED BY <1>1 DEF Gained

\* Fields and then others.
LEMMA GainedMore ==
    ASSUME NEW p, NEW F, NEW fs, NEW q, Gained(q, p, F, fs), NEW gs, NEW r,
           Gained(r, q, F \cup fs, gs), p.len \in Nat
    PROVE  Gained(r, p, F, fs \cup gs)
<1>1. (F \cup fs) \cup gs = F \cup (fs \cup gs)
    OBVIOUS
<1>2. Tight(r, F \cup (fs \cup gs))
    BY <1>1 DEF Gained
<1>3. p.len <= q.len /\ q.len <= r.len /\ q.len \in Nat /\ r.len \in Nat /\ Cap(q) = Cap(p)
    BY Bounds DEF Gained, Tight
<1>4. ASSUME NEW i \in 1..Cap(p), i > r.len PROVE r.arr[i] = p.arr[i]
    <2>1. i \in 1..Cap(q) /\ i > q.len
        BY <1>3, <1>4
    <2> QED BY <1>3, <1>4, <2>1 DEF Gained
<1>5. ASSUME NEW g \in Field \ (fs \cup gs) PROVE get(r, g) = get(p, g)
    BY <1>5 DEF Gained
<1>6. r.key = p.key /\ r.tlen = p.tlen /\ Cap(r) = Cap(p)
    BY DEF Gained
<1>7. p.len <= r.len
    BY <1>3
<1> QED BY <1>2, <1>4, <1>5, <1>6, <1>7 DEF Gained

\* Setting a field of such a packet: there is always room.
LEMMA SetTight ==
    ASSUME NEW p, NEW F, Tight(p, F), NEW f \in Field, NEW b, IsBytes(b), Len(b) = fcaps[f]
    PROVE  Gained(set(p, f, b), p, F, {f}) /\ get(set(p, f, b), f) = b
<1> DEFINE q == set(p, f, b)
           E == [p.flen EXCEPT ![f] = fcaps[f]]
           c == fcaps[f]
<1>1. Well(p) /\ Layout(p, F) /\ p.len = SumLens(p.flen) /\ p.tlen <= p.len
    BY DEF Tight
<1>2. c \in Nat /\ c > 0 /\ (p.flen[f] = 0 \/ p.flen[f] = c)
    <2>1. c \in Nat \ {0}
        BY FieldFacts
    <2>2. p.flen[f] \in {0, c}
        BY <1>1 DEF Well
    <2> HIDE DEF c
    <2> QED BY <2>1, <2>2
<1>3. /\ p.len \in Nat /\ p.len <= Cap(p) /\ Cap(p) \in Nat /\ 92 <= Cap(p) /\ Cap(p) = Len(p.arr)
      /\ p.tlen \in Int
    BY <1>1, Bounds
<1>4. E = [g \in Field |-> IF g \in F \cup {f} THEN fcaps[g] ELSE 0]
    <2>1. p.flen \in [Field -> Nat] /\ \A g \in Field : p.flen[g] = IF g \in F THEN fcaps[g] ELSE 0
        BY <1>1, LayoutIs
    <2> QED BY <2>1
<1> DEFINE w == [p EXCEPT !.flen = E]
<1>5. w.flen = E /\ Layout(w, F \cup {f})
    <2>1. w.flen = E
        <3> HIDE DEF E
        <3> QED BY <1>1 DEF Well, Shaped
    <2> HIDE DEF w, E
    <2> QED BY <1>4, <2>1 DEF Layout
<1> HIDE DEF w
<1>6. SumLens(E) \in Nat /\ SumLens(E) <= 92
    BY <1>5, LayoutIs
<1>7. ASSUME p.flen[f] = 0 PROVE SumLens(E) = p.len + c
    BY <1>1, <1>7, Grown
<1>8. ASSUME p.flen[f] = c PROVE E = p.flen
    BY <1>1, <1>8 DEF Well
<1> HIDE DEF E
<1>9. Room(p, f)
    BY <1>2, <1>3, <1>1, <1>6, <1>7 DEF Room
<1>10. /\ Well(q) /\ SetShape(q, p, f) /\ get(q, f) = b
       /\ \A g \in Field : g # f => get(q, g) = get(p, g)
    BY <1>1, <1>9, SetGet
<1>11. q.flen = E /\ q.tlen = p.tlen /\ q.key = p.key /\ Cap(q) = Cap(p)
       /\ q.len = IF p.flen[f] # 0 THEN p.len
                  ELSE IF p.tlen >= SumLens(p.flen) + c THEN p.tlen ELSE p.len + c
    BY <1>10 DEF SetShape, E
<1>12. q.len = SumLens(E)
    BY <1>1, <1>2, <1>3, <1>7, <1>8, <1>11
<1>13. p.len <= q.len
    BY <1>1, <1>2, <1>3, <1>7, <1>8, <1>12
<1>14. Tight(q, F \cup {f})
    <2>1. Layout(q, F \cup {f})
        BY <1>4, <1>11 DEF Layout
    <2> QED BY <1>1, <1>3, <1>6, <1>10, <1>11, <1>12, <1>13, <2>1 DEF Tight
<1>15. ASSUME NEW i \in 1..Cap(p), i > q.len PROVE q.arr[i] = p.arr[i]
    <2>1. CASE p.flen[f] = c
        <3>1. q = [p EXCEPT !.arr = Written(p.arr, Pos(p, f), b)]
            BY <1>1, <2>1, SetOver
        <3>2. q.arr = Written(p.arr, Pos(p, f), b)
            <4> DEFINE W == Written(p.arr, Pos(p, f), b)
            <4> HIDE DEF W
            <4>1. [p EXCEPT !.arr = W].arr = W
                BY <1>1 DEF Well, Shaped
            <4> QED BY <3>1, <4>1 DEF W
        <3>3. Pos(p, f) \in Nat /\ Pos(p, f) + c <= p.len /\ q.len = p.len
            <4>1. Pos(p, f) \in Nat /\ Pos(p, f) + p.flen[f] <= SumLens(p.flen)
                BY <1>1, LayoutIs
            <4> QED BY <1>1, <1>8, <1>12, <2>1, <4>1
        <3>4. i > Pos(p, f) + Len(b)
            BY <1>2, <1>3, <1>15, <3>3
        <3>5. i \in 1..Len(p.arr) /\ ~(i <= Pos(p, f) + Len(b))
            BY <1>2, <1>3, <3>3, <3>4
        <3> QED BY <3>2, <3>5 DEF Written
    <2>2. CASE p.flen[f] = 0
        <3>1. p.len + c <= Cap(p) /\ p.tlen <= Cap(p)
            BY <1>9, <2>2 DEF Room
        <3> DEFINE L == IF p.tlen >= SumLens(p.flen) + c THEN p.tlen ELSE p.len + c
        <3>2. PICK A : /\ Inserted(A, p.arr, Pos(p, f), b, c, p.len)
                       /\ q = [p EXCEPT !.arr = A, !.flen = E, !.len = L]
            BY <1>1, <2>2, <3>1, SetIn DEF E
        <3> HIDE DEF L, q
        <3>3. q.arr = A
            BY <1>1, <3>2 DEF Well, Shaped
        <3>4. Pos(p, f) \in Nat /\ Pos(p, f) <= p.len /\ q.len = p.len + c
            <4>1. Pos(p, f) \in Nat /\ Pos(p, f) + p.flen[f] <= SumLens(p.flen)
                BY <1>1, LayoutIs
            <4> QED BY <1>1, <1>3, <1>7, <1>12, <2>2, <4>1
        <3>5. i \in 1..Len(p.arr) /\ ~(i <= Pos(p, f)) /\ ~(i <= Pos(p, f) + c) /\ ~(i <= p.len + c)
            BY <1>2, <1>3, <1>15, <3>4
        <3> HIDE DEF c
        <3> QED BY <3>2, <3>3, <3>5 DEF Inserted
    <2> QED BY <1>2, <2>1, <2>2
<1> HIDE DEF q
<1>16. Gained(q, p, F, {f})
    BY <1>10, <1>11, <1>13, <1>14, <1>15 DEF Gained
<1> QED BY <1>10, <1>16 DEF q

\* A number.
LEMMA NumberTight ==
    ASSUME NEW p, NEW F, Tight(p, F), NEW f \in Field, NEW v
    PROVE  Gained(setNumber(p, f, v), p, F, {f}) /\ getNumber(setNumber(p, f, v), f) = v
<1> DEFINE n == fcaps[f]
           b == [k \in 1..n |-> ByteOf(v, k)]
<1>1. n \in Nat /\ n > 0
    <2>1. n \in Nat \ {0}
        BY FieldFacts
    <2> HIDE DEF n
    <2> QED BY <2>1
<1> HIDE DEF n
<1>2. Number(b) = v /\ IsBytes(b) /\ Len(b) = n
    BY <1>1, NumberIs
<1> HIDE DEF b
<1>3. Gained(set(p, f, b), p, F, {f}) /\ get(set(p, f, b), f) = b
    BY <1>2, SetTight DEF n
<1>4. setNumber(p, f, v) = set(p, f, b)
    BY DEF setNumber, n, b
<1> QED BY <1>2, <1>3, <1>4 DEF getNumber

\* Zero.
LEMMA ZeroTight ==
    ASSUME NEW p, NEW F, Tight(p, F), NEW f \in Field
    PROVE  Gained(zero(p, f), p, F, {f})
<1> DEFINE b == Zeros(fcaps[f])
<1>1. IsBytes(b) /\ Len(b) = fcaps[f]
    BY FieldFacts, ZerosIs
<1>2. zero(p, f) = set(p, f, b)
    BY DEF zero, Zeros
<1> HIDE DEF b
<1> QED BY <1>1, <1>2, SetTight

\* A step of zeroReceivedStats or stampZeroes, which removes no field that is set.
LEMMA ZeroOneTight ==
    ASSUME NEW p, NEW F, Tight(p, F), NEW f \in Field, NEW zeroed, NEW removed,
           f \in removed => f \in zeroed \/ f \notin F
    PROVE  Gained(ZeroOne(p, f, zeroed, removed), p, F, {f} \cap zeroed)
<1>1. CASE f \in zeroed
    <2>1. {f} \cap zeroed = {f} /\ ZeroOne(p, f, zeroed, removed) = zero(p, f)
        BY <1>1 DEF ZeroOne
    <2> QED BY <2>1, ZeroTight
<1>2. CASE f \notin zeroed
    <2>1. {f} \cap zeroed = {}
        BY <1>2
    <2>2. ZeroOne(p, f, zeroed, removed) = p
        <3>1. f \notin F => p.flen[f] = 0
            BY LayoutIs DEF Tight
        <3>2. p.flen[f] = 0 => remove(p, f) = p
            BY DEF remove, isset
        <3> QED BY <1>2, <3>1, <3>2 DEF ZeroOne
    <2> QED BY <2>1, <2>2, GainedNone
<1> QED BY <1>1, <1>2

\* All of them in turn.
LEMMA ZeroEachTight ==
    ASSUME NEW p, NEW F, Tight(p, F), NEW fs, NEW N \in Nat, Len(fs) = N,
           \A i \in 1..N : fs[i] \in Field, NEW zeroed, NEW removed,
           \A i \in 1..N : fs[i] \in removed => fs[i] \in zeroed \/ fs[i] \notin F
    PROVE  Gained(ZeroEach(p, fs, zeroed, removed), p, F, {fs[i] : i \in 1..N} \cap zeroed)
<1> DEFINE Is(q) == q = [i \in 0..N |-> IF i = 0 THEN p ELSE ZeroOne(q[i - 1], fs[i], zeroed, removed)]
           q == CHOOSE h : Is(h)
           Step(g, m) == /\ DOMAIN g = 0..m /\ g[0] = p
                         /\ \A i \in 1..m : g[i] = ZeroOne(g[i - 1], fs[i], zeroed, removed)
           G == {m \in Nat : \E g : Step(g, m)}
<1>1. 0 \in G
    <2> DEFINE g == [i \in 0..0 |-> p]
    <2>1. Step(g, 0)
        OBVIOUS
    <2> HIDE DEF g, Step
    <2> QED BY <2>1
<1>2. ASSUME NEW m \in Nat, m \in G PROVE m + 1 \in G
    <2>1. PICK g : Step(g, m)
        BY <1>2
    <2> DEFINE h == [i \in 0..(m + 1) |-> IF i = m + 1 THEN ZeroOne(g[m], fs[m + 1], zeroed, removed)
                                          ELSE g[i]]
    <2>2. DOMAIN h = 0..(m + 1) /\ h[0] = p
        BY <2>1
    <2>3. ASSUME NEW i \in 1..(m + 1) PROVE h[i] = ZeroOne(h[i - 1], fs[i], zeroed, removed)
        <3>1. CASE i = m + 1
            <4>1. i - 1 = m /\ h[i - 1] = g[m] /\ h[i] = ZeroOne(g[m], fs[m + 1], zeroed, removed)
                BY <3>1
            <4> HIDE DEF h
            <4> QED BY <3>1, <4>1
        <3>2. CASE i # m + 1
            <4>1. i \in 1..m /\ i - 1 \in 0..(m + 1) /\ i - 1 # m + 1 /\ i \in 0..(m + 1)
                BY <3>2
            <4>2. h[i] = g[i] /\ h[i - 1] = g[i - 1]
                BY <3>2, <4>1
            <4> HIDE DEF h
            <4> QED BY <2>1, <4>1, <4>2
        <3> QED BY <3>1, <3>2
    <2>4. Step(h, m + 1)
        <3> HIDE DEF h
        <3> QED BY <2>2, <2>3
    <2> HIDE DEF h, Step
    <2> QED BY <2>4
<1>3. N \in G
    <2> HIDE DEF G
    <2>1. \A m \in Nat : m \in G
        BY <1>1, <1>2, NaturalsIn
    <2> QED BY <2>1
<1>4. PICK g : Step(g, N)
    BY <1>3
<1>5. \E h : Is(h)
    <2> DEFINE h == [i \in 0..N |-> g[i]]
    <2>1. \A i \in 0..N : h[i] = IF i = 0 THEN p ELSE ZeroOne(h[i - 1], fs[i], zeroed, removed)
        <3> TAKE i \in 0..N
        <3>1. h[i] = g[i] /\ g[0] = p
            BY <1>4
        <3>2. i # 0 => i \in 1..N /\ i - 1 \in 0..N
            OBVIOUS
        <3>3. i # 0 => h[i - 1] = g[i - 1]
            BY <3>2
        <3> HIDE DEF h
        <3> QED BY <1>4, <3>1, <3>2, <3>3
    <2>2. h = [i \in 0..N |-> h[i]]
        OBVIOUS
    <2> HIDE DEF h
    <2>3. Is(h)
        BY <2>1, <2>2
    <2> HIDE DEF Is
    <2> QED BY <2>3
<1>6. Is(q)
    <2> HIDE DEF Is
    <2> QED BY <1>5
<1>7. ZeroEach(p, fs, zeroed, removed) = q[N]
    BY DEF ZeroEach
<1> HIDE DEF q
<1> DEFINE Reset(i) == {fs[j] : j \in 1..i} \cap zeroed
           P == {i \in Nat : i <= N => Gained(q[i], p, F, Reset(i))}
<1>8. 0 \in P
    <2>1. Reset(0) = {} /\ q[0] = p
        BY <1>6
    <2> HIDE DEF Reset
    <2> QED BY <2>1, GainedNone
<1>9. ASSUME NEW i \in Nat, i \in P PROVE i + 1 \in P
    <2> SUFFICES ASSUME i + 1 <= N PROVE Gained(q[i + 1], p, F, Reset(i + 1))
        OBVIOUS
    <2>1. Gained(q[i], p, F, Reset(i)) /\ i + 1 \in 1..N
        BY <1>9
    <2>2. q[i + 1] = ZeroOne(q[i], fs[i + 1], zeroed, removed)
        <3>1. i + 1 \in 0..N /\ i + 1 # 0 /\ (i + 1) - 1 = i
            BY <2>1
        <3> QED BY <1>6, <3>1
    <2> DEFINE f == fs[i + 1]
               T == F \cup Reset(i)
    <2>3. f \in Field /\ (f \in removed => f \in zeroed \/ f \notin T)
        BY <2>1
    <2>4. Tight(q[i], T) /\ p.len \in Nat
        BY <2>1, Bounds DEF Gained, Tight
    <2>5. Gained(q[i + 1], q[i], T, {f} \cap zeroed)
        <3> HIDE DEF f, T
        <3>1. Gained(ZeroOne(q[i], f, zeroed, removed), q[i], T, {f} \cap zeroed)
            BY <2>3, <2>4, ZeroOneTight
        <3> QED BY <2>2, <3>1 DEF f
    <2>6. Reset(i) \cup ({f} \cap zeroed) = Reset(i + 1)
        <3>1. \A j : j \in 1..(i + 1) <=> j \in 1..i \/ j = i + 1
            OBVIOUS
        <3>2. {fs[j] : j \in 1..(i + 1)} = {fs[j] : j \in 1..i} \cup {f}
            BY <3>1
        <3> QED BY <3>2
    <2>7. Gained(q[i + 1], p, F, Reset(i) \cup ({f} \cap zeroed))
        <3> DEFINE A == Reset(i)
                   B == {f} \cap zeroed
        <3>1. Gained(q[i], p, F, A) /\ Gained(q[i + 1], q[i], F \cup A, B)
            BY <2>1, <2>5
        <3> HIDE DEF A, B
        <3>2. Gained(q[i + 1], p, F, A \cup B)
            BY <2>4, <3>1, GainedMore
        <3> QED BY <3>2 DEF A, B
    <2> QED BY <2>6, <2>7
<1>10. N \in P
    <2> HIDE DEF P
    <2> QED BY <1>8, <1>9, NaturalsIn
<1>11. Gained(q[N], p, F, Reset(N))
    <2> HIDE DEF Reset
    <2> QED BY <1>10
<1> QED BY <1>7, <1>11

-----------------------------------------------------------------------------
(* Reading what was sent                                                   *)

\* With the sender's key a packet is taken just when its HMAC was computed
\* from what it is.
THEOREM SealDecides ==
    ASSUME NEW q, NEW F, Framed(q, F), flags(q) \subseteq {"open", "reply", "close", "hmac"},
           NEW s, Buffer(s), q.len <= Cap(s), s.key = q.key
    PROVE  readError(Received(s, bytes(q))) = "none" <=> (q.key # NoKey => Sealed(q))
<1> DEFINE r == Received(s, bytes(q))
<1>1. /\ get(r, fMagic) = Magic /\ flags(r) = flags(q) /\ fbufValid(r)
      /\ q.key # NoKey => get(r, fHMAC) = get(q, fHMAC)
    <2>1. HeaderAs(r, s, q)
        BY HeaderRead
    <2> HIDE DEF r
    <2> QED BY <2>1 DEF HeaderAs
<1>2. r.key = q.key
    <2>1. TakenWhole(r, s, q)
        BY WholeIn DEF Framed
    <2> HIDE DEF r
    <2> QED BY <2>1 DEF TakenWhole
<1>3. q.key # NoKey => Mac(zero(r, fHMAC)) = Mac(zero(q, fHMAC))
    BY MacRead
<1>4. "hmac" \in flags(q) <=> q.key # NoKey
    BY DEF Framed
<1> HIDE DEF r
<1>5. CASE q.key # NoKey => Sealed(q)
    <2>1. packetError(r) = "none"
        BY <1>1, <1>2, <1>3, <1>4, <1>5 DEF packetError, Sealed
    <2> QED BY <1>1, <1>5, <2>1 DEF readError, r
<1>6. CASE q.key # NoKey /\ ~Sealed(q)
    <2>1. get(r, fHMAC) # Mac(zero(r, fHMAC))
        BY <1>1, <1>3, <1>6 DEF Sealed
    <2>2. packetError(r) # "none"
        BY <1>1, <1>2, <1>4, <1>6, <2>1 DEF packetError
    <2> QED BY <1>1, <1>6, <2>2 DEF readError, r
<1> QED BY <1>5, <1>6

\* What is read of a packet that is longer than the buffer: its start.
CutTo(q, n) == [q EXCEPT !.len = n]

\* That is a packet as well, and reading it is reading the whole one.
LEMMA CutIs ==
    ASSUME NEW q, NEW F, Framed(q, F), NEW s, Buffer(s), q.len > Cap(s)
    PROVE  LET c == CutTo(q, Cap(s))
           IN  /\ Framed(c, F) /\ c.len = Cap(s) /\ c.key = q.key /\ flags(c) = flags(q)
               /\ c.arr = q.arr /\ c.flen = q.flen
               /\ \A g : get(c, g) = get(q, g)
               /\ Received(s, bytes(q)) = Received(s, bytes(c))
<1> DEFINE n == Cap(s)
           c == CutTo(q, n)
<1>1. Well(q) /\ Layout(q, F)
    BY DEF Framed
<1>2. n \in Nat /\ 92 <= n /\ q.len \in Nat /\ n < q.len /\ q.len <= Cap(q) /\ Cap(q) \in Nat
    <2>1. n \in Nat /\ 92 <= n
        BY DEF Buffer, IsBytes, Cap
    <2> QED BY <1>1, <2>1, Bounds
<1>3. Shaped(c) /\ c.arr = q.arr /\ c.flen = q.flen /\ c.len = n /\ c.tlen = q.tlen /\ c.key = q.key
      /\ c.ok = q.ok
    BY <1>1 DEF CutTo, Well, Shaped
<1> HIDE DEF c
<1>4. Cap(c) = Cap(q) /\ \A g : get(c, g) = get(q, g)
    BY <1>3 DEF Cap, get, Pos
<1>5. flags(c) = flags(q)
    BY <1>4 DEF flags
<1>6. Well(c)
    <2>1. SumLens(q.flen) <= 92 /\ SumLens(q.flen) \in Nat
        BY <1>1, LayoutIs
    <2>2. SumLens(c.flen) <= c.len /\ c.len \in 0..Cap(c)
        BY <1>2, <1>3, <1>4, <2>1
    <2> HIDE DEF n
    <2> QED BY <1>1, <1>3, <1>4, <2>2 DEF Well
<1>7. Framed(c, F)
    BY <1>3, <1>4, <1>5, <1>6 DEF Framed, Layout
<1>8. Received(s, bytes(q)) = Received(s, bytes(c))
    <2> DEFINE d == bytes(q)
               e == bytes(c)
    <2>1. IsBytes(d) /\ Len(d) = q.len /\ \A i \in 1..q.len : d[i] = q.arr[i]
        BY <1>1, BytesIs
    <2>2. IsBytes(e) /\ Len(e) = n /\ \A i \in 1..n : e[i] = q.arr[i]
        BY <1>3, <1>6, BytesIs
    <2> HIDE DEF d, e, n
    <2>3. Lesser(Len(d), n) = n /\ Lesser(Len(e), n) = n
        BY <1>2, <2>1, <2>2 DEF Lesser
    <2>4. SubSeq(d, 1, n) = SubSeq(e, 1, n)
        <3> DEFINE o == 0
        <3>1. o \in Nat /\ n \in Nat /\ o + n = n /\ o + 1 = 1
            BY <1>2
        <3>2. AgreeFrom(d, o, e, o, n)
            <4>1. \A k \in 1..n : o + k = k /\ k \in 1..q.len
                BY <1>2
            <4> QED BY <2>1, <2>2, <4>1 DEF AgreeFrom
        <3> HIDE DEF o
        <3>3. SubSeq(d, o + 1, o + n) = SubSeq(e, o + 1, o + n)
            BY <3>1, <3>2, PartSame
        <3> QED BY <3>1, <3>3
    <2> QED BY <2>3, <2>4 DEF Received, n, d, e
<1> QED BY <1>3, <1>4, <1>5, <1>7, <1>8 DEF c

\* The HMAC of q was computed from as many bytes as it has.
Hashed(q) == \E z : Well(z) /\ z.len = q.len /\ get(q, fHMAC) = Mac(z)

\* One that was is refused where it is cut.
LEMMA CutRefused ==
    ASSUME NEW q, NEW F, Framed(q, F), flags(q) \subseteq {"open", "reply", "close", "hmac"},
           q.key # NoKey, Hashed(q), NEW s, Buffer(s), q.len > Cap(s), s.key = q.key
    PROVE  readError(Received(s, bytes(q))) # "none"
<1> DEFINE c == CutTo(q, Cap(s))
<1>1. /\ Framed(c, F) /\ c.len = Cap(s) /\ c.key = q.key /\ flags(c) = flags(q)
      /\ get(c, fHMAC) = get(q, fHMAC)
      /\ Received(s, bytes(q)) = Received(s, bytes(c))
    BY CutIs
<1> HIDE DEF c
<1>2. c.len <= Cap(s) /\ Cap(s) \in Nat /\ q.len \in Nat
    <2>1. Cap(s) \in Nat
        BY DEF Buffer, IsBytes, Cap
    <2> QED BY <1>1, <2>1, Bounds DEF Framed
<1>3. ~Sealed(c)
    <2> SUFFICES ASSUME Sealed(c) PROVE FALSE
        OBVIOUS
    <2> DEFINE y == zero(c, fHMAC)
    <2>1. PICK z : Well(z) /\ z.len = q.len /\ get(q, fHMAC) = Mac(z)
        BY DEF Hashed
    <2>2. Over(y, c, fHMAC)
        <3>1. Well(c) /\ Layout(c, F) /\ fMagic \in F /\ fFlags \in F /\ fHMAC \in F
            BY <1>1 DEF Framed
        <3>2. c.flen[fHMAC] = 16
            BY <3>1, OpenLayout
        <3>3. fHMAC \in Field /\ fcaps[fHMAC] = 16
            BY FieldFacts, Caps DEF fHMAC
        <3> QED BY <3>1, <3>2, <3>3, ZeroIs
    <2> HIDE DEF y
    <2>3. Mac(z) = Mac(y)
        BY <1>1, <2>1 DEF Sealed, y
    <2>4. Mac(z)[1] = <<"mac", z.key, bytes(z), 1>> /\ Mac(y)[1] = <<"mac", y.key, bytes(y), 1>>
        BY MacIs
    <2>5. bytes(z) = bytes(y)
        BY <2>3, <2>4
    <2>6. Len(bytes(z)) = q.len /\ Len(bytes(y)) = c.len
        <3>1. Well(y) /\ y.len = c.len
            BY <2>2 DEF Over
        <3> QED BY <2>1, <3>1, BytesIs
    <2> QED BY <1>1, <1>2, <2>5, <2>6
<1> QED BY <1>1, <1>2, <1>3, SealDecides

\* Every packet with an HMAC that was computed as it left is such.
LEMMA SealedHashed ==
    ASSUME NEW q, NEW F, Framed(q, F), q.key # NoKey, Sealed(q)
    PROVE  Hashed(q)
<1>1. Well(q) /\ Layout(q, F) /\ fMagic \in F /\ fFlags \in F /\ fHMAC \in F
    BY DEF Framed
<1>2. q.flen[fHMAC] = 16 /\ fHMAC \in Field /\ fcaps[fHMAC] = 16
    BY <1>1, OpenLayout, FieldFacts, Caps DEF fHMAC
<1>3. Over(zero(q, fHMAC), q, fHMAC)
    BY <1>1, <1>2, ZeroIs
<1> QED BY <1>3 DEF Hashed, Sealed, Over

-----------------------------------------------------------------------------
(* Packets of any fields: read, laid out, cut to a length and filled       *)

\* The lengths of the fields of a layout.
Lens(F) == [f \in Field |-> IF f \in F THEN fcaps[f] ELSE 0]

\* The bytes of a packet are those of one with fewer fields.
LEMMA Relayout ==
    ASSUME NEW q, NEW F, Framed(q, F), NEW G, fMagic \in G, fFlags \in G,
           fHMAC \in G <=> q.key # NoKey, G \cap Field \subseteq F
    PROVE  LET u == [q EXCEPT !.flen = Lens(G)]
           IN  /\ Framed(u, G) /\ u.key = q.key /\ u.len = q.len /\ u.arr = q.arr /\ Cap(u) = Cap(q)
               /\ bytes(u) = bytes(q) /\ flags(u) = flags(q)
               /\ \A g \in Field : SameTo(F, G, g) => get(u, g) = get(q, g)
<1> DEFINE u == [q EXCEPT !.flen = Lens(G)]
<1>1. Well(q) /\ Layout(q, F) /\ get(q, fMagic) = Magic /\ fMagic \in F /\ fFlags \in F
      /\ (fHMAC \in F <=> q.key # NoKey) /\ ("hmac" \in flags(q) <=> q.key # NoKey)
    BY DEF Framed
<1>2. /\ Shaped(u) /\ u.arr = q.arr /\ u.len = q.len /\ u.tlen = q.tlen /\ u.ok = q.ok
      /\ u.key = q.key /\ u.flen = Lens(G)
    BY <1>1 DEF Well, Shaped
<1> HIDE DEF u
<1>3. Layout(u, G)
    BY <1>2 DEF Layout, Lens
<1>4. Cap(u) = Cap(q) /\ bytes(u) = bytes(q)
    BY <1>2 DEF Cap, bytes
<1>5. SumLens(u.flen) <= SumLens(q.flen) /\ SumLens(u.flen) \in Nat
    BY <1>1, <1>3, LayoutMore, LayoutIs
<1>6. Well(u)
    <2>1. /\ u.flen \in [Field -> Nat] /\ \A f \in Field : u.flen[f] \in {0, fcaps[f]}
        BY <1>3, LayoutIs
    <2>2. SumLens(u.flen) <= u.len
        BY <1>1, <1>2, <1>5, Bounds
    <2> QED BY <1>1, <1>2, <1>4, <2>1, <2>2 DEF Well
<1>7. ASSUME NEW g \in Field, SameTo(F, G, g) PROVE get(u, g) = get(q, g)
    BY <1>1, <1>2, <1>3, <1>7, FieldKept
<1>8. get(u, fMagic) = Magic /\ flags(u) = flags(q)
    <2>1. fMagic \in Field /\ fFlags \in Field /\ fMagic = 1 /\ fFlags = 2
        BY FieldFacts DEF fMagic, fFlags
    <2>2. SameTo(F, G, 1) /\ SameTo(F, G, 2)
        BY <1>1, <2>1 DEF SameTo
    <2>3. get(u, fMagic) = get(q, fMagic) /\ get(u, fFlags) = get(q, fFlags)
        BY <1>7, <2>1, <2>2
    <2> QED BY <1>1, <2>3 DEF flags
<1>9. Framed(u, G)
    BY <1>1, <1>2, <1>3, <1>6, <1>8 DEF Framed
<1> QED BY <1>2, <1>4, <1>7, <1>8, <1>9 DEF u

\* What is read of q, which has the fields F, as a packet of the fields H.
ReadAs(u, q, F, H, s) ==
    /\ Well(u) /\ Layout(u, H) /\ u.len = q.len /\ u.tlen = q.len /\ u.key = q.key /\ Cap(u) = Cap(s)
    /\ \A g \in Field \ {fHMAC} : SameTo(F, H, g) => get(u, g) = get(q, g)
    /\ flags(u) = flags(q) /\ get(u, fMagic) = Magic
    /\ \A i \in 1..q.len : ~(q.key # NoKey /\ i > 4 /\ i <= 20) => u.arr[i] = q.arr[i]

\* A packet read with the sender's key, and all or some of the fields it has.
THEOREM FieldsReadAs ==
    ASSUME NEW q, NEW F, Framed(q, F), NEW s, Buffer(s), q.len <= Cap(s), s.key = q.key,
           NEW G, NEW H, H = HeaderOf(q.key) \cup G, H \cap Field \subseteq F,
           fHMAC \in G => q.key # NoKey
    PROVE  ReadAs(addFields(readReset(Received(s, bytes(q))), G, FALSE), q, F, H, s)
<1> DEFINE v == [q EXCEPT !.flen = Lens(H)]
           u == addFields(readReset(Received(s, bytes(q))), G, FALSE)
<1>1. fMagic \in H /\ fFlags \in H /\ (fHMAC \in H <=> q.key # NoKey)
    BY HeaderIs
<1>2. /\ Framed(v, H) /\ v.key = q.key /\ v.len = q.len /\ v.arr = q.arr
      /\ bytes(v) = bytes(q) /\ flags(v) = flags(q)
      /\ \A g \in Field : SameTo(F, H, g) => get(v, g) = get(q, g)
    BY <1>1, Relayout
<1> HIDE DEF v
<1>3. u = addFields(readReset(Received(s, bytes(v))), G, FALSE)
    BY <1>2
<1> HIDE DEF u
<1>4. /\ Well(u) /\ Carries(u, v) /\ u.tlen = v.len /\ u.key = v.key /\ Cap(u) = Cap(s)
      /\ \A g \in Field \ {fHMAC} : get(u, g) = get(v, g)
      /\ flags(u) = flags(v)
    <2>1. Framed(v, H) /\ Buffer(s) /\ v.len <= Cap(s) /\ s.key = v.key /\ H = HeaderOf(v.key) \cup G
        BY <1>2
    <2> DEFINE w == addFields(readReset(Received(s, bytes(v))), G, FALSE)
    <2>2. /\ Well(w) /\ Carries(w, v) /\ w.tlen = v.len /\ w.key = v.key /\ Cap(w) = Cap(s)
          /\ \A g \in Field \ {fHMAC} : get(w, g) = get(v, g)
          /\ payload(w) = payload(v) /\ flags(w) = flags(v)
        BY ONLY <2>1, FieldsRead
    <2> HIDE DEF w
    <2>3. u = w
        BY <1>3 DEF w
    <2> QED BY <2>2, <2>3
<1>5. fMagic \in Field \ {fHMAC}
    BY FieldFacts DEF fMagic, fHMAC
<1>6. get(u, fMagic) = Magic /\ Layout(u, H) /\ u.len = v.len /\ (v.flen[fHMAC] # 0 <=> v.key # NoKey)
    <2>1. get(v, fMagic) = Magic /\ Layout(v, H) /\ u.flen = v.flen /\ u.len = v.len
        BY <1>2, <1>4 DEF Framed, Carries
    <2>2. fHMAC \in Field /\ fcaps[fHMAC] = 16
        BY FieldFacts, Caps DEF fHMAC
    <2>3. v.flen[fHMAC] = IF fHMAC \in H THEN fcaps[fHMAC] ELSE 0
        BY <2>1, <2>2 DEF Layout
    <2>4. Layout(u, H)
        BY <2>1 DEF Layout
    <2> QED BY <1>1, <1>2, <1>4, <1>5, <2>1, <2>2, <2>3, <2>4
<1>7. \A i \in 1..q.len : ~(q.key # NoKey /\ i > 4 /\ i <= 20) => u.arr[i] = q.arr[i]
    BY <1>2, <1>4, <1>6 DEF Carries
<1>8. \A g \in Field \ {fHMAC} : SameTo(F, H, g) => get(u, g) = get(q, g)
    BY <1>2, <1>4
<1> QED BY <1>2, <1>4, <1>6, <1>7, <1>8 DEF ReadAs, u

\* Fields added to those added before, without a cut.
Widened(p, G) == addFields(p, G, FALSE)

\* Fields added in two steps are those added in one.
LEMMA AddTwice ==
    ASSUME NEW p, Shaped(p), NEW G, NEW H
    PROVE  Widened(Widened(p, G), H) = Widened(p, G \cup H)
<1> DEFINE a == [f \in Field |-> IF f \in G THEN fcaps[f] ELSE p.flen[f]]
           q == [p EXCEPT !.flen = a]
           b == [f \in Field |-> IF f \in H THEN fcaps[f] ELSE q.flen[f]]
           c == [f \in Field |-> IF f \in G \cup H THEN fcaps[f] ELSE p.flen[f]]
<1>1. /\ Widened(p, G) = q /\ Widened(q, H) = [q EXCEPT !.flen = b]
      /\ Widened(p, G \cup H) = [p EXCEPT !.flen = c]
    BY DEF Widened, addFields, Relaid
<1>2. q.flen = a
    <2> HIDE DEF a
    <2> QED BY DEF Shaped
<1>3. b = c
    <2> HIDE DEF q
    <2> QED BY <1>2
<1>4. [q EXCEPT !.flen = b] = [p EXCEPT !.flen = b]
    <2> HIDE DEF a, b
    <2> QED BY DEF Shaped
<1> QED BY <1>1, <1>3, <1>4

\* What setLen makes of a packet.
Lengthened(u, p, n) ==
    /\ Well(u) /\ u.arr = p.arr /\ u.flen = p.flen /\ u.key = p.key /\ u.tlen = n /\ Cap(u) = Cap(p)
    /\ u.len = Lesser(Cap(p), Greater(n, SumLens(p.flen)))
    /\ \A g : get(u, g) = get(p, g)

\* setLen.
LEMMA SetLenIs ==
    ASSUME NEW p, Well(p), NEW n \in Int
    PROVE  Lengthened(setLen(p, n), p, n)
<1> DEFINE t == SumLens(p.flen)
           l == Lesser(Cap(p), Greater(n, t))
           v == [p EXCEPT !.tlen = n]
           u == [v EXCEPT !.len = l]
<1>1. t \in Nat /\ t <= Cap(p) /\ Cap(p) \in Nat
    BY Bounds
<1>2. /\ Shaped(v) /\ v.arr = p.arr /\ v.flen = p.flen /\ v.key = p.key /\ v.tlen = n /\ v.ok = p.ok
    BY DEF Well, Shaped
<1> HIDE DEF v
<1>3. l \in 0..Cap(p) /\ t <= l
    <2> HIDE DEF t
    <2> QED BY <1>1 DEF Lesser, Greater
<1>4. Cap(v) = Cap(p)
    BY <1>2 DEF Cap
<1> HIDE DEF l
<1>5. setLen(p, n) = u
    <2>1. setLen(p, n) = Slice(v, l)
        BY DEF setLen, v, l
    <2> QED BY <1>3, <1>4, <2>1 DEF Slice
<1>6. /\ Shaped(u) /\ u.arr = p.arr /\ u.flen = p.flen /\ u.key = p.key /\ u.tlen = n /\ u.ok = p.ok
      /\ u.len = l
    BY <1>2 DEF Shaped
<1> HIDE DEF u
<1>7. Cap(u) = Cap(p) /\ \A g : get(u, g) = get(p, g)
    BY <1>6 DEF Cap, get, Pos
<1>8. Well(u)
    BY <1>3, <1>6, <1>7 DEF Well
<1> QED BY <1>5, <1>6, <1>7, <1>8 DEF Lengthened, l

\* What a packet is that is cut to the fields G.
Laid(u, p, G) ==
    /\ Tight(u, G) /\ u.arr = p.arr /\ u.key = p.key /\ Cap(u) = Cap(p)

\* setFields and addFields that cut.
LEMMA RelaidIs ==
    ASSUME NEW p, NEW F, Well(p), Layout(p, F), NEW G
    PROVE  /\ Laid(Relaid(p, Lens(G), TRUE), p, G)
           /\ \A g \in Field : SameTo(F, G, g) => get(Relaid(p, Lens(G), TRUE), g) = get(p, g)
<1> DEFINE v == [p EXCEPT !.flen = Lens(G)]
           t == SumLens(Lens(G))
           w == [v EXCEPT !.len = t]
           u == setLen(v, t)
<1>1. Relaid(p, Lens(G), TRUE) = u
    BY DEF Relaid
<1>2. /\ Shaped(v) /\ v.arr = p.arr /\ v.flen = Lens(G) /\ v.key = p.key /\ v.tlen = p.tlen /\ v.ok = TRUE
      /\ v.len = p.len
    BY DEF Well, Shaped
<1> HIDE DEF v
<1>3. Layout(v, G) /\ Cap(v) = Cap(p)
    BY <1>2 DEF Layout, Lens, Cap
<1>4. t \in Nat /\ t <= 92 /\ t = SumLens(v.flen)
    BY <1>2, <1>3, LayoutIs
<1>5. 92 <= Cap(p) /\ Cap(p) \in Nat
    BY Bounds
<1> HIDE DEF t
<1>6. Lesser(Cap(v), Greater(t, SumLens(v.flen))) = t
    BY <1>3, <1>4, <1>5 DEF Lesser, Greater
<1> DEFINE x == [v EXCEPT !.tlen = t]
           y == [x EXCEPT !.len = t]
<1>7. /\ Shaped(x) /\ x.arr = p.arr /\ x.flen = Lens(G) /\ x.key = p.key /\ x.tlen = t /\ x.ok = TRUE
    BY <1>2 DEF Shaped
<1>8. u = Slice(x, t)
    BY <1>6 DEF setLen
<1> HIDE DEF x
<1>9. Slice(x, t) = y
    <2>1. t \in 0..Cap(x)
        BY <1>4, <1>5, <1>7 DEF Cap
    <2> QED BY <2>1 DEF Slice
<1>10. /\ Shaped(y) /\ y.arr = p.arr /\ y.flen = Lens(G) /\ y.key = p.key /\ y.tlen = t /\ y.ok = TRUE
       /\ y.len = t
    BY <1>7 DEF Shaped
<1> HIDE DEF y, u
<1>11. u = y
    BY <1>8, <1>9
<1>12. Layout(y, G) /\ Cap(y) = Cap(p)
    BY <1>10 DEF Layout, Lens, Cap
<1>13. Well(y) /\ y.len = SumLens(y.flen)
    <2>1. /\ y.flen \in [Field -> Nat] /\ \A f \in Field : y.flen[f] \in {0, fcaps[f]}
        BY <1>12, LayoutIs
    <2>2. SumLens(y.flen) = t
        BY <1>2, <1>4, <1>10
    <2>3. y.len \in 0..Cap(y) /\ SumLens(y.flen) <= y.len /\ y.tlen \in Int
        BY <1>4, <1>5, <1>10, <1>12, <2>2
    <2> QED BY <1>10, <1>12, <2>1, <2>2, <2>3 DEF Well
<1>14. Laid(y, p, G)
    BY <1>4, <1>10, <1>12, <1>13 DEF Laid, Tight
<1>15. ASSUME NEW g \in Field, SameTo(F, G, g) PROVE get(y, g) = get(p, g)
    BY <1>10, <1>12, <1>15, FieldKept
<1> QED BY <1>1, <1>11, <1>14, <1>15

\* addFields.
LEMMA AddedIs ==
    ASSUME NEW p, NEW F, Well(p), Layout(p, F), NEW G
    PROVE  /\ Laid(addFields(p, G, TRUE), p, F \cup G)
           /\ \A g \in Field : SameTo(F, F \cup G, g) => get(addFields(p, G, TRUE), g) = get(p, g)
<1>1. \A f \in Field : p.flen[f] = IF f \in F THEN fcaps[f] ELSE 0
    BY DEF Layout
<1>2. [f \in Field |-> IF f \in G THEN fcaps[f] ELSE p.flen[f]] = Lens(F \cup G)
    BY <1>1 DEF Lens
<1>3. addFields(p, G, TRUE) = Relaid(p, Lens(F \cup G), TRUE)
    BY <1>2 DEF addFields
<1> DEFINE H == F \cup G
<1> HIDE DEF H
<1>4. /\ Laid(Relaid(p, Lens(H), TRUE), p, H)
      /\ \A g \in Field : SameTo(F, H, g) => get(Relaid(p, Lens(H), TRUE), g) = get(p, g)
    BY RelaidIs
<1> QED BY <1>3, <1>4 DEF H

\* setFields.
LEMMA FieldsSetIs ==
    ASSUME NEW p, NEW F, Well(p), Layout(p, F), NEW G
    PROVE  /\ Laid(setFields(p, G, TRUE), p, G)
           /\ \A g \in Field : SameTo(F, G, g) => get(setFields(p, G, TRUE), g) = get(p, g)
<1>1. setFields(p, G, TRUE) = Relaid(p, Lens(G), TRUE)
    BY DEF setFields, Lens
<1>2. /\ Laid(Relaid(p, Lens(G), TRUE), p, G)
      /\ \A g \in Field : SameTo(F, G, g) => get(Relaid(p, Lens(G), TRUE), g) = get(p, g)
    BY RelaidIs
<1> QED BY <1>1, <1>2

\* Only these fields of the packet changed.
Redone(q, p, fs) ==
    /\ Well(q) /\ q.flen = p.flen /\ q.len = p.len /\ q.tlen = p.tlen /\ q.key = p.key
    /\ Cap(q) = Cap(p) /\ payload(q) = payload(p)
    /\ \A g \in Field \ fs : get(q, g) = get(p, g)

\* None did.
LEMMA RedoneNone == ASSUME NEW p, Well(p) PROVE Redone(p, p, {})
BY DEF Redone

\* First some did and then others.
LEMMA RedoneMore ==
    ASSUME NEW p, NEW q, NEW r, NEW fs, NEW gs, Redone(q, p, fs), Redone(r, q, gs)
    PROVE  Redone(r, p, fs \cup gs)
BY DEF Redone

\* One field.
LEMMA OverRedone ==
    ASSUME NEW p, Well(p), NEW f \in Field, p.flen[f] = fcaps[f], NEW q, Over(q, p, f)
    PROVE  Redone(q, p, {f})
<1>1. payload(q) = payload(p)
    BY OverPayload
<1> QED BY <1>1 DEF Over, Redone

\* A number in a field that is set.
LEMMA NumberOver ==
    ASSUME NEW p, Well(p), NEW f \in Field, p.flen[f] = fcaps[f], NEW v
    PROVE  Redone(setNumber(p, f, v), p, {f}) /\ getNumber(setNumber(p, f, v), f) = v
<1> DEFINE n == fcaps[f]
           b == [k \in 1..n |-> ByteOf(v, k)]
<1>1. n \in Nat /\ n > 0
    <2>1. n \in Nat \ {0}
        BY FieldFacts
    <2> HIDE DEF n
    <2> QED BY <2>1
<1> HIDE DEF n
<1>2. Number(b) = v /\ IsBytes(b) /\ Len(b) = n
    BY <1>1, NumberIs
<1> HIDE DEF b
<1>3. Over(set(p, f, b), p, f) /\ get(set(p, f, b), f) = b
    BY <1>2, SetIsOver DEF n
<1>4. setNumber(p, f, v) = set(p, f, b)
    BY DEF setNumber, n, b
<1> HIDE DEF n
<1>5. Redone(set(p, f, b), p, {f})
    BY <1>3, OverRedone
<1> QED BY <1>2, <1>3, <1>4, <1>5 DEF getNumber

\* A field that is given what it holds.
LEMMA SetSame ==
    ASSUME NEW p, Well(p), NEW f \in Field, p.flen[f] = fcaps[f]
    PROVE  set(p, f, get(p, f)) = p
<1> DEFINE b == get(p, f)
           x == Pos(p, f)
           W == Written(p.arr, x, b)
<1>1. IsBytes(b) /\ Len(b) = fcaps[f] /\ x \in Nat /\ \A i \in 1..Len(b) : b[i] = p.arr[x + i]
    BY GetWell
<1>2. set(p, f, b) = [p EXCEPT !.arr = W]
    BY <1>1, SetOver
<1>3. IsBytes(p.arr) /\ Shaped(p)
    BY DEF Well
<1>4. W = p.arr
    <2> HIDE DEF b, x
    <2>1. Len(p.arr) \in Nat /\ Len(b) \in Nat
        BY <1>1, <1>3 DEF IsBytes
    <2>2. ASSUME NEW i \in 1..Len(p.arr)
          PROVE  (IF i > x /\ i <= x + Len(b) THEN b[i - x] ELSE p.arr[i]) = p.arr[i]
        <3>1. CASE i > x /\ i <= x + Len(b)
            <4>1. i - x \in 1..Len(b) /\ x + (i - x) = i
                BY <1>1, <2>1, <3>1
            <4> QED BY <1>1, <3>1, <4>1
        <3> QED BY <3>1
    <2>3. p.arr = [i \in 1..Len(p.arr) |-> p.arr[i]]
        BY <1>3 DEF IsBytes
    <2>4. W = [i \in 1..Len(p.arr) |-> p.arr[i]]
        BY <2>2 DEF Written
    <2> QED BY <2>3, <2>4
<1> HIDE DEF W
<1>5. [p EXCEPT !.arr = p.arr] = p
    BY <1>3 DEF Shaped
<1> QED BY <1>2, <1>4, <1>5

\* The bytes that are not of a field.
LEMMA PayloadAt ==
    ASSUME NEW p, Well(p)
    PROVE  LET n == SumLens(p.flen)
           IN  /\ IsBytes(payload(p)) /\ Len(payload(p)) = p.len - n
               /\ \A i \in 1..(p.len - n) : payload(p)[i] = p.arr[n + i]
<1> DEFINE n == SumLens(p.flen)
           m == p.len - n
<1>1. n \in Nat /\ m \in Nat /\ n + m = p.len
    <2>1. n \in Nat /\ p.len \in Nat /\ n <= p.len
        BY Bounds
    <2> HIDE DEF n
    <2> QED BY <2>1
<1>2. payload(p) = SubSeq(p.arr, n + 1, n + m)
    <2>1. payload(p) = SubSeq(p.arr, n + 1, p.len)
        BY DEF payload
    <2> HIDE DEF m, n
    <2> QED BY <1>1, <2>1
<1> HIDE DEF m, n
<1>3. /\ IsBytes(SubSeq(p.arr, n + 1, n + m)) /\ Len(SubSeq(p.arr, n + 1, n + m)) = m
      /\ \A k \in 1..m : SubSeq(p.arr, n + 1, n + m)[k] = p.arr[n + k]
    BY <1>1, PartIs
<1> QED BY <1>2, <1>3 DEF m, n

\* The payload is all this byte.
Filled(p, byte) == \A i \in 1..p.len : i > SumLens(p.flen) => p.arr[i] = byte

\* Where it is the payload holds no other byte.
LEMMA FilledIs ==
    ASSUME NEW p, Well(p), NEW byte
    PROVE  Filled(p, byte) <=> \A i \in DOMAIN payload(p) : payload(p)[i] = byte
<1> DEFINE n == SumLens(p.flen)
           m == p.len - n
<1>1. n \in Nat /\ p.len \in Nat /\ n <= p.len
    BY Bounds
<1>2. IsBytes(payload(p)) /\ Len(payload(p)) = m /\ \A i \in 1..m : payload(p)[i] = p.arr[n + i]
    BY PayloadAt
<1>3. Filled(p, byte) <=> \A i \in 1..p.len : i > n => p.arr[i] = byte
    BY DEF Filled
<1> HIDE DEF n
<1>4. ASSUME \A i \in 1..p.len : i > n => p.arr[i] = byte, NEW i \in 1..m
      PROVE  payload(p)[i] = byte
    <2>1. n + i \in 1..p.len /\ n + i > n
        BY <1>1
    <2> QED BY <1>2, <1>4, <2>1
<1>5. ASSUME \A i \in 1..m : payload(p)[i] = byte, NEW i \in 1..p.len, i > n
      PROVE  p.arr[i] = byte
    <2>1. i - n \in 1..m /\ n + (i - n) = i
        BY <1>1, <1>5
    <2> QED BY <1>2, <1>5, <2>1
<1>6. DOMAIN payload(p) = 1..Len(payload(p))
    BY <1>2 DEF IsBytes
<1> QED BY <1>2, <1>3, <1>4, <1>5, <1>6

\* It still is where only fields changed.
LEMMA StillFilled ==
    ASSUME NEW p, Well(p), NEW q, NEW fs, Redone(q, p, fs), NEW byte, Filled(p, byte)
    PROVE  Filled(q, byte)
<1>1. Well(q) /\ payload(q) = payload(p)
    BY DEF Redone
<1> QED BY <1>1, FilledIs

\* fillPayload.
LEMMA FillIs ==
    ASSUME NEW p, Well(p), NEW byte
    PROVE  LET u == fillPayload(p, byte)
           IN  /\ Well(u) /\ u.flen = p.flen /\ u.len = p.len /\ u.tlen = p.tlen /\ u.key = p.key
               /\ Cap(u) = Cap(p) /\ Filled(u, byte)
               /\ \A g \in Field : get(u, g) = get(p, g)
<1> DEFINE n == SumLens(p.flen)
           m == p.len - n
           b == [k \in 1..m |-> byte]
           u == [p EXCEPT !.arr = Written(p.arr, n, b)]
<1>1. n \in Nat /\ m \in Nat /\ n + m = p.len /\ p.len \in Nat /\ p.len <= Cap(p) /\ Cap(p) = Len(p.arr)
      /\ Cap(p) \in Nat /\ n \in 0..Cap(p)
    <2>1. n \in Nat /\ p.len \in Nat /\ n <= p.len /\ p.len <= Cap(p) /\ Cap(p) \in Nat
        BY Bounds
    <2> HIDE DEF n
    <2> QED BY <2>1 DEF Cap
<1> HIDE DEF m
<1>2. IsBytes(b) /\ Len(b) = m
    <2>1. b = [k \in 1..m |-> b[k]]
        OBVIOUS
    <2> HIDE DEF b
    <2> QED BY <1>1, <2>1, BytesLen
<1>3. \A k \in 1..m : b[k] = byte
    OBVIOUS
<1>4. IsBytes(p.arr) /\ Shaped(p) /\ p.ok = TRUE /\ p.len \in 0..Cap(p) /\ SumLens(p.flen) <= p.len
    BY DEF Well
<1>5. fillPayload(p, byte) = Write(p, n, b)
    BY DEF fillPayload, m
<1> HIDE DEF b
<1> DEFINE W == Written(p.arr, n, b)
<1>6. /\ IsBytes(W) /\ Len(W) = Len(p.arr)
      /\ \A i \in 1..Len(p.arr) : W[i] = IF i > n /\ i <= n + m THEN b[i - n] ELSE p.arr[i]
    <2>1. IsBytes(W) /\ Len(W) = Len(p.arr)
        <3> HIDE DEF n
        <3> QED BY <1>1, <1>2, <1>4, WrittenIs
    <2>2. \A i \in 1..Len(p.arr) : W[i] = IF i > n /\ i <= n + Len(b) THEN b[i - n] ELSE p.arr[i]
        <3> HIDE DEF n
        <3> QED BY DEF Written
    <2> HIDE DEF W, n
    <2> QED BY <1>2, <2>1, <2>2
<1>7. Write(p, n, b) = u
    <2> HIDE DEF n
    <2> QED BY <1>1, <1>2, <1>4, WriteIs
<1> HIDE DEF W
<1>8. /\ Shaped(u) /\ u.arr = W /\ u.len = p.len /\ u.tlen = p.tlen /\ u.flen = p.flen /\ u.ok = TRUE
      /\ u.key = p.key
    BY <1>4 DEF Shaped, W
<1> HIDE DEF u
<1>9. Cap(u) = Cap(p)
    BY <1>6, <1>8 DEF Cap
<1>10. Well(u)
    BY <1>6, <1>8, <1>9 DEF Well
<1>11. Filled(u, byte)
    <2> SUFFICES ASSUME NEW i \in 1..u.len, i > SumLens(u.flen) PROVE u.arr[i] = byte
        BY DEF Filled
    <2>1. i \in 1..p.len /\ i > n
        BY <1>8
    <2> HIDE DEF n
    <2>2. i \in 1..Len(p.arr) /\ i <= n + m /\ i - n \in 1..m
        BY <1>1, <2>1
    <2> QED BY <1>3, <1>6, <1>8, <2>1, <2>2
<1>12. ASSUME NEW g \in Field PROVE get(u, g) = get(p, g)
    <2>1. p.flen[g] \in Nat /\ Pos(p, g) \in Nat /\ Pos(p, g) + p.flen[g] <= n
        BY Lengths, FieldFacts
    <2>2. u.flen[g] = p.flen[g] /\ Pos(u, g) = Pos(p, g)
        BY <1>8 DEF Pos
    <2> HIDE DEF n
    <2>3. \A i \in 1..p.flen[g] : u.arr[Pos(u, g) + i] = p.arr[Pos(p, g) + i]
        <3> SUFFICES ASSUME NEW i \in 1..p.flen[g] PROVE W[Pos(p, g) + i] = p.arr[Pos(p, g) + i]
            BY <1>8, <2>2
        <3> DEFINE x == Pos(p, g)
                   d == p.flen[g]
        <3>1. x \in Nat /\ d \in Nat /\ x + d <= n /\ n \in Nat /\ n <= Len(p.arr) /\ Len(p.arr) \in Nat
              /\ i \in 1..d
            BY <1>1, <2>1
        <3> HIDE DEF x, d
        <3>2. x + i \in 1..Len(p.arr) /\ ~(x + i > n)
            BY ONLY <3>1
        <3>3. W[x + i] = p.arr[x + i]
            BY <1>6, <3>2
        <3> QED BY <3>3 DEF x
    <2> QED BY <2>1, <2>2, <2>3, GetSame
<1> QED BY <1>5, <1>7, <1>8, <1>9, <1>10, <1>11, <1>12

\* The HMAC of a packet that has a place for it, or no key.
LEMMA SealingIs ==
    ASSUME NEW p, NEW F, Headed(p, F)
    PROVE  LET q == updateHMAC(p)
           IN  /\ Sendable(q, F) /\ Redone(q, p, {fFlags, fHMAC})
               /\ flags(q) = flags(p) \cup HMACFlag(p.key)
<1> DEFINE q == updateHMAC(p)
<1>1. /\ Well(p) /\ Layout(p, F) /\ fMagic \in F /\ fFlags \in F /\ (fHMAC \in F <=> p.key # NoKey)
      /\ get(p, fMagic) = Magic /\ (p.key = NoKey => "hmac" \notin flags(p))
    BY DEF Headed
<1>2. p.flen[fFlags] = 1 /\ (p.key # NoKey => p.flen[fHMAC] = 16)
    <2>1. p.flen[fFlags] = 1 /\ p.flen[fHMAC] = (IF fHMAC \in F THEN 16 ELSE 0)
        BY <1>1, OpenLayout
    <2> QED BY <1>1, <2>1
<1>3. /\ Well(q) /\ q.flen = p.flen /\ q.len = p.len /\ q.tlen = p.tlen /\ q.key = p.key
      /\ Cap(q) = Cap(p) /\ payload(q) = payload(p)
      /\ flags(q) = flags(p) \cup HMACFlag(p.key)
      /\ q.key # NoKey => Sealed(q)
      /\ \A g \in Field \ {fFlags, fHMAC} : get(q, g) = get(p, g)
    BY <1>1, <1>2, HMACUpdated
<1> HIDE DEF q
<1>4. get(q, fMagic) = Magic
    <2>1. fMagic \in Field \ {fFlags, fHMAC}
        BY FieldFacts DEF fMagic, fFlags, fHMAC
    <2> QED BY <1>1, <1>3, <2>1
<1>5. "hmac" \in flags(q) <=> q.key # NoKey
    BY <1>1, <1>3 DEF HMACFlag
<1>6. Sendable(q, F)
    BY <1>1, <1>3, <1>4, <1>5 DEF Sendable, Framed, Layout
<1> QED BY <1>3, <1>6 DEF Redone, q

\* The HMAC of a packet without a payload that has no place for it yet.
LEMMA SealInserted ==
    ASSUME NEW p, NEW F, Tight(p, F), fMagic \in F, fFlags \in F, fHMAC \notin F,
           get(p, fMagic) = Magic, "hmac" \notin flags(p)
    PROVE  LET q == updateHMAC(p)
           IN  /\ Sendable(q, F \cup Keyed(p.key)) /\ q.key = p.key /\ q.len <= 92
               /\ flags(q) = flags(p) \cup HMACFlag(p.key)
               /\ \A g \in Field \ {fFlags, fHMAC} : get(q, g) = get(p, g)
<1> DEFINE f == fHMAC
           r == setFlagBits(p, {"hmac"})
           b == Zeros(fcaps[f])
           z == set(r, f, b)
           m == Mac(z)
           q == set(z, f, m)
<1>1. Well(p) /\ Layout(p, F) /\ p.len = SumLens(p.flen) /\ p.tlen <= p.len /\ p.len <= 92 /\ p.flen[fFlags] = 1
    <2>1. Well(p) /\ Layout(p, F) /\ p.len = SumLens(p.flen) /\ p.tlen <= p.len
        BY DEF Tight
    <2> QED BY <2>1, OpenLayout
<1>2. CASE p.key = NoKey
    <2>1. updateHMAC(p) = p /\ HMACFlag(p.key) = {} /\ Keyed(p.key) = {}
        BY <1>2 DEF updateHMAC, HMACFlag, Keyed
    <2>2. F \cup {} = F /\ flags(p) \cup {} = flags(p)
        OBVIOUS
    <2>3. Sendable(p, F)
        BY <1>1, <1>2 DEF Sendable, Framed
    <2> QED BY <1>1, <2>1, <2>2, <2>3
<1>3. CASE p.key # NoKey
    <2>1. updateHMAC(p) = q /\ HMACFlag(p.key) = {"hmac"} /\ Keyed(p.key) = {f}
        BY <1>3 DEF updateHMAC, HMACFlag, Keyed, zero, Zeros
    <2>2. f \in Field /\ fFlags \in Field /\ fMagic \in Field /\ f # fFlags /\ f # fMagic /\ fcaps[f] = 16
        BY FieldFacts, Caps DEF fFlags, fHMAC, fMagic
    <2>3. Over(r, p, fFlags) /\ flags(r) = flags(p) \cup {"hmac"}
        BY <1>1, FlagsSet
    <2> HIDE DEF r
    <2>4. Tight(r, F) /\ r.key = p.key
        BY <1>1, <2>3 DEF Over, Tight, Layout
    <2>5. IsBytes(b) /\ Len(b) = fcaps[f]
        BY <2>2, ZerosIs
    <2>6. Gained(z, r, F, {f}) /\ get(z, f) = b
        <3> HIDE DEF b, f, z
        <3>1. Gained(set(r, f, b), r, F, {f}) /\ get(set(r, f, b), f) = b
            BY <2>2, <2>4, <2>5, SetTight
        <3> QED BY <3>1 DEF z
    <2> HIDE DEF z
    <2>7. Well(z) /\ Layout(z, F \cup {f}) /\ z.key = p.key /\ z.len = SumLens(z.flen)
          /\ \A g \in Field \ {f} : get(z, g) = get(r, g)
        BY <2>4, <2>6 DEF Gained, Tight
    <2>8. z.flen[f] = fcaps[f] /\ z.len <= 92
        <3>1. f \in F \cup {f}
            OBVIOUS
        <3> QED BY <2>2, <2>7, <3>1, LayoutIs
    <2>9. IsBytes(m) /\ Len(m) = fcaps[f]
        BY <2>2, MacIs
    <2>10. zero(z, f) = z
        <3>1. zero(z, f) = set(z, f, get(z, f))
            BY <2>6 DEF zero, Zeros
        <3> HIDE DEF f, b
        <3> QED BY <2>2, <2>7, <2>8, <3>1, SetSame
    <2> HIDE DEF m
    <2>11. Over(q, z, f) /\ get(q, f) = m
        <3> HIDE DEF f
        <3> QED BY <2>2, <2>7, <2>8, <2>9, SetIsOver
    <2>12. zero(q, f).arr = z.arr
        <3> HIDE DEF f
        <3>1. zero(set(zero(z, f), f, m), f).arr = zero(z, f).arr
            BY <2>2, <2>7, <2>8, <2>9, ZeroAgain
        <3> QED BY <2>10, <3>1
    <2> HIDE DEF q
    <2>13. Well(q) /\ q.flen = z.flen /\ q.key = p.key /\ q.len = z.len
        BY <2>7, <2>11 DEF Over
    <2>14. Sealed(q)
        <3> DEFINE y == zero(q, f)
        <3>1. Over(y, q, f)
            BY <2>2, <2>8, <2>13, ZeroIs
        <3>2. y.arr = z.arr /\ y.len = z.len /\ y.key = z.key
            BY <2>7, <2>12, <2>13, <3>1 DEF Over
        <3> HIDE DEF y
        <3>3. Mac(y) = Mac(z)
            BY <3>2 DEF Mac, bytes
        <3> QED BY <2>11, <3>3 DEF Sealed, y, m
    <2>15. \A g \in Field \ {fFlags, f} : get(q, g) = get(p, g)
        BY <2>3, <2>7, <2>11 DEF Over
    <2>16. flags(q) = flags(p) \cup {"hmac"}
        <3>1. get(q, fFlags) = get(r, fFlags)
            BY <2>2, <2>7, <2>11 DEF Over
        <3> QED BY <2>3, <3>1 DEF flags
    <2>17. Framed(q, F \cup {f})
        <3>1. Layout(q, F \cup {f})
            BY <2>7, <2>13 DEF Layout
        <3>2. get(q, fMagic) = Magic
            BY <2>2, <2>15 DEF fMagic, fFlags
        <3> QED BY <1>3, <2>13, <2>16, <3>1, <3>2 DEF Framed
    <2> QED BY <2>1, <2>8, <2>13, <2>14, <2>15, <2>16, <2>17 DEF Sendable
<1> QED BY <1>2, <1>3

-----------------------------------------------------------------------------
(* Stats and timestamps                                                    *)

\* The fields from wf on that a time sets.
Ticks(t, wf) == {f \in {wf, wf + 1} : (IF f = wf THEN t.wall ELSE t.mono) # 0}

\* They hold it.
HoldsTime(u, t, wf) == /\ t.wall # 0 => getNumber(u, wf) = t.wall
                       /\ t.mono # 0 => getNumber(u, wf + 1) = t.mono

\* They still do when others are set.
LEMMA HoldsOn ==
    ASSUME NEW u, NEW v, NEW t, NEW wf, HoldsTime(u, t, wf),
           t.wall # 0 => get(v, wf) = get(u, wf), t.mono # 0 => get(v, wf + 1) = get(u, wf + 1)
    PROVE  HoldsTime(v, t, wf)
BY DEF HoldsTime, getNumber

\* tset of a packet without a payload.
LEMMA TimeTight ==
    ASSUME NEW p, NEW F, Tight(p, F), NEW t, NEW wf \in {8, 10, 12}
    PROVE  Gained(tset(p, t, wf), p, F, Ticks(t, wf)) /\ HoldsTime(tset(p, t, wf), t, wf)
<1> DEFINE w == IF t.wall # 0 THEN setNumber(p, wf, t.wall) ELSE p
           u == IF t.mono # 0 THEN setNumber(w, wf + 1, t.mono) ELSE w
           W == IF t.wall # 0 THEN {wf} ELSE {}
           M == IF t.mono # 0 THEN {wf + 1} ELSE {}
           v == wf + 1
<1>1. wf \in Field /\ v \in Field /\ v # wf
    BY FieldFacts
<1>2. Gained(w, p, F, W) /\ (t.wall # 0 => getNumber(w, wf) = t.wall)
    <2>1. CASE t.wall # 0
        BY <1>1, <2>1, NumberTight
    <2>2. CASE ~(t.wall # 0)
        BY <2>2, GainedNone
    <2> QED BY <2>1, <2>2
<1> DEFINE G == F \cup W
<1>3. Tight(w, G) /\ p.len \in Nat
    <2>1. Well(p)
        BY DEF Tight
    <2> HIDE DEF w, W
    <2> QED BY <1>2, <2>1, Bounds DEF Gained
<1> HIDE DEF w, G
<1>4. Gained(u, w, G, M) /\ (t.mono # 0 => getNumber(u, v) = t.mono)
    <2>1. CASE t.mono # 0
        <3>1. Gained(setNumber(w, v, t.mono), w, G, {v}) /\ getNumber(setNumber(w, v, t.mono), v) = t.mono
            BY <1>1, <1>3, NumberTight
        <3> QED BY <2>1, <3>1
    <2>2. CASE ~(t.mono # 0)
        <3>1. Gained(w, w, G, {})
            BY <1>3, GainedNone
        <3> QED BY <2>2, <3>1
    <2> QED BY <2>1, <2>2
<1> HIDE DEF u
<1>5. t.wall # 0 => getNumber(u, wf) = t.wall
    <2>1. wf \in Field \ M
        BY <1>1
    <2>2. get(u, wf) = get(w, wf)
        <3> HIDE DEF M
        <3> QED BY <1>4, <2>1 DEF Gained
    <2> QED BY <1>2, <2>2 DEF getNumber
<1>6. W \cup M = Ticks(t, wf)
    BY <1>1 DEF Ticks
<1> HIDE DEF W, M
<1>7. Gained(u, p, F, W \cup M)
    BY <1>2, <1>3, <1>4, GainedMore DEF G
<1>8. tset(p, t, wf) = u
    BY DEF tset, u, w
<1> QED BY <1>4, <1>5, <1>6, <1>7, <1>8 DEF HoldsTime

\* tset of a packet that has the fields.
LEMMA TimeOver ==
    ASSUME NEW p, Well(p), NEW t, NEW wf \in {8, 10, 12}, \A f \in Ticks(t, wf) : p.flen[f] = fcaps[f]
    PROVE  Redone(tset(p, t, wf), p, Ticks(t, wf)) /\ HoldsTime(tset(p, t, wf), t, wf)
<1> DEFINE w == IF t.wall # 0 THEN setNumber(p, wf, t.wall) ELSE p
           u == IF t.mono # 0 THEN setNumber(w, wf + 1, t.mono) ELSE w
           W == IF t.wall # 0 THEN {wf} ELSE {}
           M == IF t.mono # 0 THEN {wf + 1} ELSE {}
           v == wf + 1
<1>1. wf \in Field /\ v \in Field /\ v # wf
    BY FieldFacts
<1>0. (t.wall # 0 => p.flen[wf] = fcaps[wf]) /\ (t.mono # 0 => p.flen[v] = fcaps[v])
    BY <1>1 DEF Ticks
<1>2. Redone(w, p, W) /\ (t.wall # 0 => getNumber(w, wf) = t.wall)
    <2>1. CASE t.wall # 0
        BY <1>0, <1>1, <2>1, NumberOver
    <2>2. CASE ~(t.wall # 0)
        BY <2>2, RedoneNone
    <2> QED BY <2>1, <2>2
<1>3. Well(w) /\ w.flen = p.flen
    <2> HIDE DEF w, W
    <2> QED BY <1>2 DEF Redone
<1> HIDE DEF w
<1>4. Redone(u, w, M) /\ (t.mono # 0 => getNumber(u, v) = t.mono)
    <2>1. CASE t.mono # 0
        <3>1. Redone(setNumber(w, v, t.mono), w, {v}) /\ getNumber(setNumber(w, v, t.mono), v) = t.mono
            BY <1>0, <1>1, <1>3, <2>1, NumberOver
        <3> QED BY <2>1, <3>1
    <2>2. CASE ~(t.mono # 0)
        <3>1. Redone(w, w, {})
            BY <1>3, RedoneNone
        <3> QED BY <2>2, <3>1
    <2> QED BY <2>1, <2>2
<1> HIDE DEF u
<1>5. t.wall # 0 => getNumber(u, wf) = t.wall
    <2>1. wf \in Field \ M
        BY <1>1
    <2>2. get(u, wf) = get(w, wf)
        <3> HIDE DEF M
        <3> QED BY <1>4, <2>1 DEF Redone
    <2> QED BY <1>2, <2>2 DEF getNumber
<1>6. W \cup M = Ticks(t, wf)
    BY <1>1 DEF Ticks
<1> HIDE DEF W, M
<1>7. Redone(u, p, W \cup M)
    BY <1>2, <1>4, RedoneMore
<1>8. tset(p, t, wf) = u
    BY DEF tset, u, w
<1> QED BY <1>4, <1>5, <1>6, <1>7, <1>8 DEF HoldsTime

\* The fields that setTimestamp sets.
StampsOf(at, ts) ==
    IF at = {"midpoint"} THEN Ticks(ts.receive, fMWall)
    ELSE (IF "receive" \in at THEN Ticks(ts.receive, fRWall) ELSE {})
         \cup (IF "send" \in at THEN Ticks(ts.send, fSWall) ELSE {})

\* They hold the times.
HoldsStamps(u, at, ts) ==
    IF at = {"midpoint"} THEN HoldsTime(u, ts.receive, fMWall)
    ELSE /\ "receive" \in at => HoldsTime(u, ts.receive, fRWall)
         /\ "send" \in at => HoldsTime(u, ts.send, fSWall)

\* setTimestamp of a packet without a payload.
LEMMA StampTight ==
    ASSUME NEW p, NEW F, Tight(p, F), NEW at, NEW ts
    PROVE  /\ Gained(setTimestamp(p, at, ts), p, F, StampsOf(at, ts))
           /\ HoldsStamps(setTimestamp(p, at, ts), at, ts)
<1>1. fRWall \in {8, 10, 12} /\ fMWall \in {8, 10, 12} /\ fSWall \in {8, 10, 12}
    BY DEF fRWall, fMWall, fSWall
<1>2. CASE at = {"midpoint"}
    <2>1. Gained(tset(p, ts.receive, fMWall), p, F, Ticks(ts.receive, fMWall))
          /\ HoldsTime(tset(p, ts.receive, fMWall), ts.receive, fMWall)
        BY <1>1, TimeTight
    <2> QED BY <1>2, <2>1 DEF setTimestamp, StampsOf, HoldsStamps
<1>3. CASE at # {"midpoint"}
    <2> DEFINE r == IF "receive" \in at THEN tset(p, ts.receive, fRWall) ELSE p
               R == IF "receive" \in at THEN Ticks(ts.receive, fRWall) ELSE {}
               u == IF "send" \in at THEN tset(r, ts.send, fSWall) ELSE r
               T == IF "send" \in at THEN Ticks(ts.send, fSWall) ELSE {}
               G == F \cup R
    <2>1. Gained(r, p, F, R) /\ ("receive" \in at => HoldsTime(r, ts.receive, fRWall))
        <3>1. CASE "receive" \in at
            BY <1>1, <3>1, TimeTight
        <3>2. CASE ~("receive" \in at)
            BY <3>2, GainedNone
        <3> QED BY <3>1, <3>2
    <2>2. Tight(r, G) /\ p.len \in Nat
        <3>1. Well(p)
            BY DEF Tight
        <3> HIDE DEF r, R
        <3> QED BY <2>1, <3>1, Bounds DEF Gained
    <2> HIDE DEF r, G
    <2>3. Gained(u, r, G, T) /\ ("send" \in at => HoldsTime(u, ts.send, fSWall))
        <3>1. CASE "send" \in at
            <4>1. Gained(tset(r, ts.send, fSWall), r, G, Ticks(ts.send, fSWall))
                  /\ HoldsTime(tset(r, ts.send, fSWall), ts.send, fSWall)
                BY <1>1, <2>2, TimeTight
            <4> QED BY <3>1, <4>1
        <3>2. CASE ~("send" \in at)
            <4>1. Gained(r, r, G, {})
                BY <2>2, GainedNone
            <4> QED BY <3>2, <4>1
        <3> QED BY <3>1, <3>2
    <2> HIDE DEF u
    <2>4. ASSUME "receive" \in at PROVE HoldsTime(u, ts.receive, fRWall)
        <3>1. fRWall \in Field \ T /\ fRWall + 1 \in Field \ T
            BY FieldFacts DEF Ticks, fRWall, fSWall
        <3> HIDE DEF T
        <3>2. get(u, fRWall) = get(r, fRWall) /\ get(u, fRWall + 1) = get(r, fRWall + 1)
            BY <2>3, <3>1 DEF Gained
        <3> QED BY <2>1, <2>4, <3>2, HoldsOn
    <2> HIDE DEF R, T
    <2>5. Gained(u, p, F, R \cup T)
        BY <2>1, <2>2, <2>3, GainedMore DEF G
    <2>6. setTimestamp(p, at, ts) = u /\ StampsOf(at, ts) = R \cup T
        BY <1>3 DEF setTimestamp, StampsOf, u, r, R, T
    <2> QED BY <1>3, <2>3, <2>4, <2>5, <2>6 DEF HoldsStamps
<1> QED BY <1>2, <1>3

\* The fields of stats, and what setReceivedCount and setReceivedWindow make of
\* a packet without a payload.
LEMMA StatsTight ==
    ASSUME NEW p, NEW F, Tight(p, F), NEW rs, NEW n, NEW w
    PROVE  LET q == IF "count" \in rs THEN setReceivedCount(p, n) ELSE p
               u == IF "window" \in rs THEN setReceivedWindow(q, w) ELSE q
           IN  /\ Gained(u, p, F, StatsFields(rs))
               /\ "count" \in rs => getNumber(u, fRCount) = n
               /\ "window" \in rs => getNumber(u, fRWindow) = w
<1> DEFINE q == IF "count" \in rs THEN setReceivedCount(p, n) ELSE p
           u == IF "window" \in rs THEN setReceivedWindow(q, w) ELSE q
           C == IF "count" \in rs THEN {fRCount} ELSE {}
           W == IF "window" \in rs THEN {fRWindow} ELSE {}
           G == F \cup C
<1>1. fRCount \in Field /\ fRWindow \in Field /\ fRCount # fRWindow
    BY FieldFacts DEF fRCount, fRWindow
<1>2. Gained(q, p, F, C) /\ ("count" \in rs => getNumber(q, fRCount) = n)
    <2>1. CASE "count" \in rs
        BY <1>1, <2>1, NumberTight DEF setReceivedCount
    <2>2. CASE ~("count" \in rs)
        BY <2>2, GainedNone
    <2> QED BY <2>1, <2>2
<1>3. Tight(q, G) /\ p.len \in Nat
    <2>1. Well(p)
        BY DEF Tight
    <2> HIDE DEF q, C
    <2> QED BY <1>2, <2>1, Bounds DEF Gained
<1> HIDE DEF q, G
<1>4. Gained(u, q, G, W) /\ ("window" \in rs => getNumber(u, fRWindow) = w)
    <2>1. CASE "window" \in rs
        <3>1. Gained(setReceivedWindow(q, w), q, G, {fRWindow})
              /\ getNumber(setReceivedWindow(q, w), fRWindow) = w
            BY <1>1, <1>3, NumberTight DEF setReceivedWindow
        <3> QED BY <2>1, <3>1
    <2>2. CASE ~("window" \in rs)
        <3>1. Gained(q, q, G, {})
            BY <1>3, GainedNone
        <3> QED BY <2>2, <3>1
    <2> QED BY <2>1, <2>2
<1> HIDE DEF u
<1>5. getNumber(u, fRCount) = getNumber(q, fRCount)
    <2>1. fRCount \in Field \ W
        BY <1>1
    <2> HIDE DEF W
    <2> QED BY <1>4, <2>1 DEF Gained, getNumber
<1>6. C \cup W = StatsFields(rs)
    BY <1>1 DEF StatsFields
<1> HIDE DEF C, W
<1>7. Gained(u, p, F, C \cup W)
    BY <1>2, <1>3, <1>4, GainedMore DEF G
<1> QED BY <1>2, <1>4, <1>5, <1>6, <1>7 DEF u, q

\* zeroReceivedStats and stampZeroes of a packet without stats and timestamps.
LEMMA ZeroedTight ==
    ASSUME NEW p, NEW F, Tight(p, F), F \cap Field \subseteq 1..5, NEW rs
    PROVE  Gained(zeroReceivedStats(p, rs), p, F, StatsFields(rs))
<1> DEFINE fs == <<fRCount, fRWindow>>
           n == 2
           removed == {fRCount, fRWindow}
           zeroed == StatsFields(rs)
<1>1. Len(fs) = n /\ n \in Nat /\ fs[1] = 6 /\ fs[2] = 7 /\ \A i \in 1..n : i \in {1, 2}
    BY DEF fRCount, fRWindow
<1>2. zeroed \subseteq {6, 7}
    BY DEF StatsFields, fRCount, fRWindow
<1> HIDE DEF fs, n, removed, zeroed
<1>3. \A i \in 1..n : fs[i] \in Field /\ fs[i] \notin F
    <2>1. 6 \in Field /\ 7 \in Field /\ 6 \notin F /\ 7 \notin F
        BY FieldFacts
    <2> QED BY <1>1, <2>1
<1>4. {fs[i] : i \in 1..n} \cap zeroed = zeroed
    <2>1. {fs[i] : i \in 1..n} = {6, 7}
        BY <1>1 DEF n
    <2> QED BY <1>2, <2>1
<1>5. Gained(ZeroEach(p, fs, zeroed, removed), p, F, {fs[i] : i \in 1..n} \cap zeroed)
    BY <1>1, <1>3, ZeroEachTight
<1> QED BY <1>4, <1>5 DEF zeroReceivedStats, fs, zeroed, removed

\* The fields of timestamps, what they stamp and with which clock.
LEMMA StampTable ==
    /\ DOMAIN StampOf = 8..13
    /\ StampOf[8] = "receive" /\ StampOf[9] = "receive" /\ StampOf[10] = "midpoint"
    /\ StampOf[11] = "midpoint" /\ StampOf[12] = "send" /\ StampOf[13] = "send"
    /\ ClockOf[8] = "wall" /\ ClockOf[9] = "mono" /\ ClockOf[10] = "wall"
    /\ ClockOf[11] = "mono" /\ ClockOf[12] = "wall" /\ ClockOf[13] = "mono"
<1>1. /\ (8 - 6) \div 2 = 1 /\ (9 - 6) \div 2 = 1 /\ (10 - 6) \div 2 = 2
      /\ (11 - 6) \div 2 = 2 /\ (12 - 6) \div 2 = 3 /\ (13 - 6) \div 2 = 3
      /\ 8 % 2 = 0 /\ 9 % 2 = 1 /\ 10 % 2 = 0 /\ 11 % 2 = 1 /\ 12 % 2 = 0 /\ 13 % 2 = 1
    OBVIOUS
<1> QED BY <1>1 DEF StampOf, ClockOf

\* stampZeroes and removeTimestamps.
LEMMA StampZeroesTight ==
    ASSUME NEW p, NEW F, Tight(p, F), F \cap Field \subseteq 1..7, NEW zeroed, NEW removed,
           zeroed \subseteq 8..13
    PROVE  Gained(ZeroEach(p, StampFields, zeroed, removed), p, F, zeroed)
<1> DEFINE fs == StampFields
           n == 6
<1>1. Len(fs) = n /\ n \in Nat /\ \A i \in 1..n : fs[i] = i + 7
    <2>1. \A i \in 1..n : i \in {1, 2, 3, 4, 5, 6}
        OBVIOUS
    <2>2. /\ fs[1] = 8 /\ fs[2] = 9 /\ fs[3] = 10 /\ fs[4] = 11 /\ fs[5] = 12 /\ fs[6] = 13 /\ Len(fs) = 6
        BY DEF StampFields
    <2> HIDE DEF fs
    <2> QED BY <2>1, <2>2
<1>2. \A i \in 1..n : fs[i] \in Field /\ fs[i] \notin F
    BY <1>1, FieldFacts
<1>3. {fs[i] : i \in 1..n} \cap zeroed = zeroed
    <2> SUFFICES ASSUME NEW f \in zeroed PROVE \E i \in 1..n : fs[i] = f
        OBVIOUS
    <2>1. f - 7 \in 1..n /\ (f - 7) + 7 = f
        OBVIOUS
    <2> HIDE DEF fs
    <2> QED BY <1>1, <2>1
<1> HIDE DEF fs, n
<1>4. Gained(ZeroEach(p, fs, zeroed, removed), p, F, {fs[i] : i \in 1..n} \cap zeroed)
    BY <1>1, <1>2, ZeroEachTight
<1> QED BY <1>3, <1>4 DEF fs

-----------------------------------------------------------------------------
(* Parameters as bytes                                                     *)

\* Sequences put one after the other: what is kept by \o is kept by all of it.
Chain(g, s, N) ==
    /\ g[1] = s[1]
    /\ \A i \in 1..N : g[i + 1] = g[i] \o s[i + 1]

\* FlattenSeq puts them one after the other.
LEMMA FlattenIs ==
    ASSUME NEW T, NEW N \in Nat, NEW s \in Seq(Seq(T)), Len(s) = N + 1
    PROVE  \E g \in [1..(N + 1) -> Seq(T)] : Chain(g, s, N) /\ SE!FlattenSeq(s) = g[N + 1]
<1> DEFINE W == Seq(T)
           base == s[1]
           step == [n \in 1..N |-> [x \in W |-> x \o s[n + 1]]]
<1>1. \A i \in 1..(N + 1) : s[i] \in W
    OBVIOUS
<1>2. base \in W /\ step \in [1..N -> [W -> W]]
    <2>1. \A n \in 1..N : \A x \in W : x \o s[n + 1] \in W
        BY <1>1, ConcatProperties
    <2> HIDE DEF W
    <2> QED BY <1>1, <2>1
<1>3. PICK f \in [0..N -> W] : Iterated(f, N, base, step)
    <2> HIDE DEF W, base, step
    <2> QED BY <1>2, Iterates
<1> DEFINE g == [i \in 1..(N + 1) |-> f[i - 1]]
<1>4. g \in [1..(N + 1) -> W]
    <2> HIDE DEF W
    <2> QED OBVIOUS
<1>5. f[0] = s[1] /\ \A n \in 1..N : f[n] = f[n - 1] \o s[n + 1]
    <2>1. f[0] = base /\ \A n \in 1..N : f[n] = step[n][f[n - 1]]
        <3> HIDE DEF base, step, W
        <3>1. \A n \in 0..N : f[n] = IF n = 0 THEN base ELSE step[n][f[n - 1]]
            BY <1>3 DEF Iterated
        <3>2. 0 \in 0..N /\ \A n \in 1..N : n \in 0..N /\ n # 0
            OBVIOUS
        <3> QED BY <3>1, <3>2
    <2>2. \A n \in 1..N : f[n - 1] \in W
        OBVIOUS
    <2> HIDE DEF W
    <2> QED BY <2>1, <2>2
<1>6. g = [i \in 1..Len(s) |-> IF i = 1 THEN s[i] ELSE g[i - 1] \o s[i]]
    <2>1. ASSUME NEW i \in 1..(N + 1) PROVE g[i] = IF i = 1 THEN s[i] ELSE g[i - 1] \o s[i]
        <3>1. CASE i = 1
            BY <1>5, <3>1
        <3>2. CASE i # 1
            <4>1. i - 1 \in 1..N /\ g[i] = f[i - 1] /\ g[i - 1] = f[i - 2] /\ (i - 1) - 1 = i - 2
                  /\ (i - 1) + 1 = i
                BY <3>2
            <4> HIDE DEF g
            <4>2. f[i - 1] = f[(i - 1) - 1] \o s[(i - 1) + 1]
                BY <1>5, <4>1
            <4> QED BY <3>2, <4>1, <4>2
        <3> QED BY <3>1, <3>2
    <2> QED BY <2>1
<1>7. SE!FlattenSeq(s) = g[N + 1]
    <2> DEFINE Is(h) == h = [i \in 1..Len(s) |-> IF i = 1 THEN s[i] ELSE h[i - 1] \o s[i]]
               flatten == CHOOSE h : Is(h)
    <2>1. Is(g)
        BY <1>6
    <2>2. Is(flatten)
        <3> HIDE DEF Is, g
        <3> QED BY <2>1
    <2>3. SE!FlattenSeq(s) = flatten[N + 1]
        BY DEF SE!FlattenSeq
    <2> HIDE DEF flatten, g
    <2> DEFINE P == {i \in Nat : i + 1 <= N + 1 => flatten[i + 1] = g[i + 1]}
    <2>4. 0 \in P
        BY <2>1, <2>2
    <2>5. ASSUME NEW i \in Nat, i \in P PROVE i + 1 \in P
        <3> SUFFICES ASSUME i + 2 <= N + 1 PROVE flatten[i + 2] = g[i + 2]
            BY SMTT(30)
        <3>1. flatten[i + 1] = g[i + 1] /\ i + 2 \in 1..Len(s) /\ i + 2 # 1 /\ (i + 2) - 1 = i + 1
            BY <2>5
        <3>2. flatten[i + 2] = flatten[(i + 2) - 1] \o s[i + 2] /\ g[i + 2] = g[(i + 2) - 1] \o s[i + 2]
            BY <2>1, <2>2, <3>1
        <3> QED BY <3>1, <3>2
    <2>6. \A i \in Nat : i \in P
        <3> HIDE DEF P
        <3> QED BY <2>4, <2>5, NaturalsIn
    <2> QED BY <2>3, <2>6
<1>8. Chain(g, s, N)
    <2>1. g[1] = s[1]
        BY <1>5
    <2>2. ASSUME NEW i \in 1..N PROVE g[i + 1] = g[i] \o s[i + 1]
        <3>1. g[i + 1] = f[(i + 1) - 1] /\ g[i] = f[i - 1] /\ (i + 1) - 1 = i
            OBVIOUS
        <3> QED BY <1>5, <3>1
    <2> QED BY <2>1, <2>2 DEF Chain
<1> HIDE DEF g
<1> QED BY <1>4, <1>7, <1>8

\* What is true of each of them, and of two one after the other if of each,
\* is true of the whole.
LEMMA FlattenKeeps ==
    ASSUME NEW T, NEW N \in Nat, NEW s \in Seq(Seq(T)), Len(s) = N + 1,
           NEW K, \A i \in 1..(N + 1) : s[i] \in K,
           \A a, b \in Seq(T) : a \in K /\ b \in K => a \o b \in K
    PROVE  SE!FlattenSeq(s) \in K /\ SE!FlattenSeq(s) \in Seq(T)
<1>1. PICK g \in [1..(N + 1) -> Seq(T)] : Chain(g, s, N) /\ SE!FlattenSeq(s) = g[N + 1]
    BY FlattenIs
<1> DEFINE P == {i \in Nat : i <= N => g[i + 1] \in K}
<1>2. 0 \in P
    <2>1. g[1] = s[1]
        BY ONLY <1>1 DEF Chain
    <2>2. 1 \in 1..(N + 1)
        OBVIOUS
    <2> QED BY <2>1, <2>2
<1>3. ASSUME NEW i \in Nat, i \in P PROVE i + 1 \in P
    <2> SUFFICES ASSUME i + 1 <= N PROVE g[(i + 1) + 1] \in K
        OBVIOUS
    <2> DEFINE k == i + 1
    <2>1. k \in 1..N /\ g[k] \in K /\ g[k] \in Seq(T) /\ s[k + 1] \in K /\ s[k + 1] \in Seq(T)
        BY <1>3
    <2> HIDE DEF k, P
    <2>2. g[k + 1] = g[k] \o s[k + 1]
        BY <1>1, <2>1 DEF Chain
    <2>3. g[k + 1] \in K
        BY <2>1, <2>2
    <2> QED BY <2>3 DEF k
<1>4. \A i \in Nat : i \in P
    <2> HIDE DEF P
    <2> QED BY <1>2, <1>3, NaturalsIn
<1> QED BY <1>1, <1>4

\* x is in c.
Contains(c, x) == \E i \in 1..Len(c) : c[i] = x

\* Each element of one of them is one of the whole.
LEMMA FlattenHas ==
    ASSUME NEW T, NEW N \in Nat, NEW s \in Seq(Seq(T)), Len(s) = N + 1,
           NEW j \in 1..(N + 1), NEW k \in 1..Len(s[j])
    PROVE  Contains(SE!FlattenSeq(s), s[j][k])
<1>1. PICK g \in [1..(N + 1) -> Seq(T)] : Chain(g, s, N) /\ SE!FlattenSeq(s) = g[N + 1]
    BY FlattenIs
<1> DEFINE x == s[j][k]
           Has(c) == \E i \in 1..Len(c) : c[i] = x
           P == {i \in Nat : j <= i + 1 /\ i <= N => Has(g[i + 1])}
<1>2. \A a, b \in Seq(T) : Has(a) \/ Has(b) => Has(a \o b)
    <2> SUFFICES ASSUME NEW a \in Seq(T), NEW b \in Seq(T), NEW c, c = a \o b, Has(a) \/ Has(b)
                 PROVE  Has(c)
        BY ZenonT(60)
    <2> HIDE DEF x
    <2>1. /\ Len(a) \in Nat /\ Len(b) \in Nat /\ Len(c) = Len(a) + Len(b)
          /\ \A i \in 1..(Len(a) + Len(b)) : c[i] = IF i <= Len(a) THEN a[i] ELSE b[i - Len(a)]
        BY ConcatProperties, LenProperties
    <2>2. CASE Has(a)
        BY SMTT(30), <2>1, <2>2
    <2>3. CASE Has(b)
        <3>1. PICK i \in 1..Len(b) : b[i] = x
            BY <2>3
        <3>2. i + Len(a) \in 1..Len(c) /\ ~(i + Len(a) <= Len(a)) /\ (i + Len(a)) - Len(a) = i
            BY SMTT(30), <2>1
        <3>3. c[i + Len(a)] = b[i]
            BY <2>1, <3>2
        <3> QED BY <3>1, <3>2, <3>3
    <2> QED BY <2>2, <2>3
<1>3. Has(s[j])
    OBVIOUS
<1> HIDE DEF Has
<1>4. 0 \in P
    <2> SUFFICES ASSUME j <= 1 PROVE Has(g[1])
        OBVIOUS
    <2> QED BY <1>1, <1>3 DEF Chain
<1>5. ASSUME NEW i \in Nat, i \in P PROVE i + 1 \in P
    <2> SUFFICES ASSUME j <= (i + 1) + 1, i + 1 <= N PROVE Has(g[(i + 1) + 1])
        OBVIOUS
    <2> DEFINE m == i + 1
    <2>1. m \in 1..N /\ g[m] \in Seq(T) /\ s[m + 1] \in Seq(T)
        OBVIOUS
    <2>2. Has(g[m]) \/ Has(s[m + 1])
        <3>1. CASE j <= m
            BY <1>5, <3>1
        <3>2. CASE j = m + 1
            BY <1>3, <3>2
        <3> QED BY <3>1, <3>2
    <2> HIDE DEF m, P
    <2>3. g[m + 1] = g[m] \o s[m + 1]
        BY <1>1, <2>1 DEF Chain
    <2>4. Has(g[m] \o s[m + 1])
        BY <1>2, <2>1, <2>2
    <2> QED BY <2>3, <2>4 DEF m
<1>6. \A i \in Nat : i \in P
    <2> HIDE DEF P
    <2> QED BY <1>4, <1>5, NaturalsIn
<1>7. Has(g[N + 1])
    BY <1>6
<1> QED BY <1>1, <1>7 DEF Has, Contains

\* A record of the parameters, with names that have a length.
ParamsShaped(p) ==
    /\ DOMAIN p = DOMAIN NoParams /\ p = [x \in DOMAIN p |-> p[x]]
    /\ Len(p.Group) \in Nat /\ Len(p.ServerFill) \in Nat

\* The bytes of the i-th parameter of the encoding.
IdOf(p, i) == Encoding(p)[i][1]

\* The bytes of its value.
SizeOf(p, i) == Encoding(p)[i][3]

\* The k-th of its bytes.
ParamByte(p, i, k) == <<"param", IdOf(p, i), p[IdOf(p, i)], 1 + SizeOf(p, i), k>>

\* All of its bytes, none for a zero value.
ParamBlock(p, i) ==
    IF p[IdOf(p, i)] = NoParams[IdOf(p, i)] THEN << >>
    ELSE [k \in 1..(1 + SizeOf(p, i)) |-> ParamByte(p, i, k)]

\* Each parameter is encoded, under its name and with its zero value.
LEMMA EncodingIs ==
    ASSUME NEW p, ParamsShaped(p)
    PROVE  /\ \A i \in 1..13 : /\ IdOf(p, i) \in DOMAIN NoParams /\ SizeOf(p, i) \in Nat
                               /\ Encoding(p)[i][2] = NoParams[IdOf(p, i)]
           /\ \A id \in DOMAIN NoParams : \E i \in 1..13 : IdOf(p, i) = id
<1> DEFINE e == Encoding(p)
<1>1. /\ e[1][1] = "ProtocolVersion" /\ e[2][1] = "Duration" /\ e[3][1] = "Interval"
      /\ e[4][1] = "IntervalOffset" /\ e[5][1] = "Length" /\ e[6][1] = "ReceivedStats"
      /\ e[7][1] = "StampAt" /\ e[8][1] = "TripMode" /\ e[9][1] = "Multiply"
      /\ e[10][1] = "Group" /\ e[11][1] = "Clock" /\ e[12][1] = "DSCP" /\ e[13][1] = "ServerFill"
    BY DEF Encoding
<1>2. /\ e[1][2] = 0 /\ e[2][2] = 0 /\ e[3][2] = 0 /\ e[4][2] = 0 /\ e[5][2] = 0
      /\ e[6][2] = {} /\ e[7][2] = {} /\ e[8][2] = "round" /\ e[9][2] = 0
      /\ e[10][2] = << >> /\ e[11][2] = {} /\ e[12][2] = 0 /\ e[13][2] = << >>
    BY DEF Encoding
<1>3. /\ e[1][3] = IntLen(p.ProtocolVersion) /\ e[2][3] = DurLen(p.Duration)
      /\ e[3][3] = DurLen(p.Interval) /\ e[4][3] = DurLen(p.IntervalOffset)
      /\ e[5][3] = IntLen(p.Length) /\ e[6][3] = 1 /\ e[7][3] = 1 /\ e[8][3] = 1
      /\ e[9][3] = IntLen(p.Multiply) /\ e[10][3] = StrLen(p.Group) /\ e[11][3] = 1
      /\ e[12][3] = IntLen(p.DSCP) /\ e[13][3] = StrLen(p.ServerFill)
    BY DEF Encoding
<1>4. /\ StrLen(p.Group) \in Nat /\ StrLen(p.ServerFill) \in Nat
      /\ \A v : IntLen(v) \in Nat /\ DurLen(v) \in Nat
    BY DEF StrLen, IntLen, DurLen, ParamsShaped
<1>5. DOMAIN NoParams = {"ProtocolVersion", "Duration", "Interval", "IntervalOffset", "Length",
                         "ReceivedStats", "StampAt", "TripMode", "Multiply", "Group", "Clock",
                         "DSCP", "ServerFill"}
    BY DEF NoParams
<1>6. /\ NoParams["ProtocolVersion"] = 0 /\ NoParams["Duration"] = 0 /\ NoParams["Interval"] = 0
      /\ NoParams["IntervalOffset"] = 0 /\ NoParams["Length"] = 0 /\ NoParams["ReceivedStats"] = {}
      /\ NoParams["StampAt"] = {} /\ NoParams["TripMode"] = "round" /\ NoParams["Multiply"] = 0
      /\ NoParams["Group"] = << >> /\ NoParams["Clock"] = {} /\ NoParams["DSCP"] = 0
      /\ NoParams["ServerFill"] = << >>
    BY DEF NoParams
<1> HIDE DEF e
<1>7. \A i \in 1..13 : i \in {1, 2, 3, 4, 5, 6, 7, 8, 9, 10, 11, 12, 13}
    OBVIOUS
<1>8. \A i \in 1..13 : e[i][1] \in DOMAIN NoParams
    <2> TAKE i \in 1..13
    <2> HIDE DEF e
    <2> QED BY <1>1, <1>5, <1>7
<1>9. \A i \in 1..13 : e[i][3] \in Nat
    BY <1>3, <1>4, <1>7
<1>10. \A i \in 1..13 : e[i][2] = NoParams[e[i][1]]
    <2> DEFINE z == NoParams
    <2>1. /\ e[1][2] = z[e[1][1]] /\ e[2][2] = z[e[2][1]] /\ e[3][2] = z[e[3][1]]
          /\ e[4][2] = z[e[4][1]] /\ e[5][2] = z[e[5][1]] /\ e[6][2] = z[e[6][1]]
          /\ e[7][2] = z[e[7][1]]
        BY <1>1, <1>2, <1>6
    <2>2. /\ e[8][2] = z[e[8][1]] /\ e[9][2] = z[e[9][1]]
          /\ e[10][2] = z[e[10][1]] /\ e[11][2] = z[e[11][1]] /\ e[12][2] = z[e[12][1]]
          /\ e[13][2] = z[e[13][1]]
        BY <1>1, <1>2, <1>6
    <2> HIDE DEF z
    <2>3. \A i \in 1..13 : e[i][2] = z[e[i][1]]
        BY <1>7, <2>1, <2>2
    <2> QED BY <2>3 DEF z
<1>11. \A id \in DOMAIN NoParams : \E i \in 1..13 : e[i][1] = id
    BY <1>1, <1>5
<1> QED BY <1>8, <1>9, <1>10, <1>11 DEF e, IdOf, SizeOf

\* Parameters that are read one after the other.
LEMMA ParsesBoth ==
    ASSUME NEW T, NEW a \in Seq(T), NEW b \in Seq(T), parses(a), parses(b)
    PROVE  parses(a \o b)
<1> DEFINE c == a \o b
<1>1. /\ Len(a) \in Nat /\ Len(b) \in Nat /\ Len(c) = Len(a) + Len(b) /\ DOMAIN c = 1..Len(c)
      /\ DOMAIN a = 1..Len(a) /\ DOMAIN b = 1..Len(b)
      /\ \A i \in 1..(Len(a) + Len(b)) : c[i] = IF i <= Len(a) THEN a[i] ELSE b[i - Len(a)]
    BY ConcatProperties, LenProperties
<1>2. /\ a = << >> \/ (Len(a) # 0 /\ a[Len(a)][5] = a[Len(a)][4])
      /\ b = << >> \/ (Len(b) # 0 /\ b[Len(b)][5] = b[Len(b)][4])
    <2>1. a # << >> => Len(a) # 0
        BY EmptySeq
    <2>2. b # << >> => Len(b) # 0
        BY EmptySeq
    <2> QED BY <2>1, <2>2 DEF parses
<1>3. a = << >> => Len(a) = 0
    BY EmptySeq
<1>4. b = << >> => Len(b) = 0
    BY EmptySeq
<1> HIDE DEF c
<1>5. ASSUME NEW i \in DOMAIN c
      PROVE  /\ c[i][1] = "param"
             /\ c[i][5] # 1 => i > 1 /\ c[i - 1] = <<"param", c[i][2], c[i][3], c[i][4], c[i][5] - 1>>
             /\ c[i][5] = 1 => i = 1 \/ c[i - 1][5] = c[i - 1][4]
    <2>1. CASE i <= Len(a)
        <3>1. i \in DOMAIN a /\ c[i] = a[i] /\ (i > 1 => c[i - 1] = a[i - 1])
            BY <1>1, <2>1
        <3>2. /\ a[i][1] = "param"
              /\ a[i][5] # 1 => i > 1 /\ a[i - 1] = <<"param", a[i][2], a[i][3], a[i][4], a[i][5] - 1>>
              /\ a[i][5] = 1 => i = 1 \/ a[i - 1][5] = a[i - 1][4]
            BY <3>1 DEF parses
        <3>3. i = 1 \/ i > 1
            BY <1>1
        <3> QED BY <3>1, <3>2, <3>3
    <2>2. CASE i > Len(a)
        <3> DEFINE j == i - Len(a)
        <3>1. j \in DOMAIN b /\ c[i] = b[j]
            BY <1>1, <2>2
        <3>2. j > 1 => c[i - 1] = b[j - 1]
            BY <1>1, <2>2
        <3>3. j = 1 /\ Len(a) # 0 => c[i - 1] = a[Len(a)] /\ i > 1
            BY <1>1, <2>2
        <3>4. j = 1 /\ Len(a) = 0 => i = 1
            BY <1>1
        <3>5. j = 1 \/ j > 1
            BY <1>1, <2>2
        <3>6. j > 1 => i > 1
            BY <1>1
        <3> HIDE DEF j
        <3>7. /\ b[j][1] = "param"
              /\ b[j][5] # 1 => j > 1 /\ b[j - 1] = <<"param", b[j][2], b[j][3], b[j][4], b[j][5] - 1>>
              /\ b[j][5] = 1 => j = 1 \/ b[j - 1][5] = b[j - 1][4]
            BY <3>1 DEF parses
        <3> QED BY <1>2, <1>3, <3>1, <3>2, <3>3, <3>4, <3>5, <3>6, <3>7
    <2> QED BY <1>1, <2>1, <2>2
<1>6. c = << >> \/ c[Len(c)][5] = c[Len(c)][4]
    <2>1. CASE Len(b) = 0
        <3>1. CASE Len(a) = 0
            <4>1. Len(c) = 0 /\ c \in Seq(T)
                BY <1>1, <2>1, <3>1, ConcatProperties DEF c
            <4> QED BY <4>1, EmptySeq
        <3>2. CASE Len(a) # 0
            <4>1. c[Len(c)] = a[Len(a)] /\ Len(c) = Len(a)
                BY <1>1, <2>1, <3>2
            <4> QED BY <1>2, <1>3, <3>2, <4>1
        <3> QED BY <3>1, <3>2
    <2>2. CASE Len(b) # 0
        <3>1. c[Len(c)] = b[Len(b)]
            BY <1>1, <2>2
        <3> QED BY <1>2, <1>4, <2>2, <3>1
    <2> QED BY <2>1, <2>2
<1>7. parses(c)
    BY <1>5, <1>6 DEF parses
<1> QED BY <1>7 DEF c

\* b is made of the thirteen blocks s, of elements of T.
BlocksOf(s, T, b) ==
    /\ s \in Seq(Seq(T)) /\ Len(s) = 12 + 1 /\ b = SE!FlattenSeq(s)
    /\ \A i \in 1..13 : parses(s[i]) /\ s[i] \in Seq(T)

\* The bytes of the parameters are their blocks in turn.
LEMMA ParamBlocks ==
    ASSUME NEW p, ParamsShaped(p)
    PROVE  LET T == UNION {{ParamByte(p, i, k) : k \in 1..(1 + SizeOf(p, i))} :
                             i \in {j \in 1..13 : p[IdOf(p, j)] # NoParams[IdOf(p, j)]}}
               s == [i \in 1..13 |-> ParamBlock(p, i)]
           IN  BlocksOf(s, T, paramBytes(p))
<1> DEFINE J == {j \in 1..13 : p[IdOf(p, j)] # NoParams[IdOf(p, j)]}
           T == UNION {{ParamByte(p, i, k) : k \in 1..(1 + SizeOf(p, i))} : i \in J}
           s == [i \in 1..13 |-> ParamBlock(p, i)]
<1>1. \A i \in 1..13 : SizeOf(p, i) \in Nat /\ Encoding(p)[i][2] = NoParams[IdOf(p, i)]
    BY EncodingIs
<1>2. ASSUME NEW i \in 1..13
      PROVE  s[i] \in Seq(T) /\ parses(s[i])
    <2>0. s[i] = ParamBlock(p, i)
        OBVIOUS
    <2>1. CASE i \notin J
        <3>1. s[i] = << >>
            BY <2>0, <2>1 DEF ParamBlock
        <3> HIDE DEF s, T
        <3>2. << >> \in Seq(T) /\ Len(<< >>) = 0 /\ DOMAIN << >> = {}
            OBVIOUS
        <3>3. parses(<< >>)
            BY <3>2 DEF parses
        <3> QED BY <3>1, <3>2, <3>3
    <2>2. CASE i \in J
        <3> DEFINE n == 1 + SizeOf(p, i)
                   c == [k \in 1..n |-> ParamByte(p, i, k)]
        <3>1. s[i] = c
            BY <2>0, <2>2 DEF ParamBlock
        <3>2. n \in Nat /\ n >= 1
            BY <1>1
        <3>3. \A k \in 1..n : ParamByte(p, i, k) \in T
            BY <2>2
        <3> HIDE DEF s, T, J, n
        <3>4. c \in [1..n -> T]
            BY <3>3
        <3>5. c \in Seq(T) /\ Len(c) = n /\ DOMAIN c = 1..n
            BY <3>2, <3>4, SeqDef, LenProperties
        <3>6. \A k \in 1..n : c[k] = ParamByte(p, i, k)
            OBVIOUS
        <3>7. \A k \in 1..n : /\ c[k][1] = "param" /\ c[k][2] = IdOf(p, i) /\ c[k][3] = p[IdOf(p, i)]
                              /\ c[k][4] = n /\ c[k][5] = k
                              /\ c[k] = <<"param", IdOf(p, i), p[IdOf(p, i)], n, k>>
            BY <3>6 DEF ParamByte, n
        <3> HIDE DEF c
        <3>8. ASSUME NEW k \in DOMAIN c
              PROVE  /\ c[k][1] = "param"
                     /\ c[k][5] # 1 => k > 1 /\ c[k - 1] = <<"param", c[k][2], c[k][3], c[k][4], c[k][5] - 1>>
                     /\ c[k][5] = 1 => k = 1 \/ c[k - 1][5] = c[k - 1][4]
            <4>1. k \in 1..n
                BY <3>5
            <4>2. k > 1 => k - 1 \in 1..n
                BY <3>2, <4>1
            <4>3. k = 1 \/ k > 1
                BY <3>2, <4>1
            <4> QED BY <3>7, <4>1, <4>2, <4>3
        <3>9. c[Len(c)][5] = c[Len(c)][4]
            BY <3>2, <3>5, <3>7
        <3>10. parses(c)
            BY <3>8, <3>9 DEF parses
        <3> QED BY <3>1, <3>5, <3>10
    <2> QED BY <2>1, <2>2
<1>3. s \in [1..13 -> Seq(T)]
    <2>1. s = [i \in 1..13 |-> s[i]]
        OBVIOUS
    <2> HIDE DEF s, T
    <2> QED BY <1>2, <2>1
<1>4. s \in Seq(Seq(T)) /\ Len(s) = 13
    <2> DEFINE W == Seq(T)
    <2>1. s \in [1..13 -> W] /\ 13 \in Nat
        BY <1>3
    <2> HIDE DEF s, T, W
    <2>2. s \in Seq(W)
        BY <2>1, SeqDef
    <2>3. Len(s) = 13
        BY <2>1, <2>2, LenProperties
    <2> QED BY <2>2, <2>3 DEF W
<1>5. paramBytes(p) = SE!FlattenSeq(s)
    <2> DEFINE t == [i \in 1..13 |->
                LET e == Encoding(p)[i]
                IN  IF p[e[1]] = e[2] THEN << >>
                    ELSE [k \in 1..(1 + e[3]) |-> <<"param", e[1], p[e[1]], 1 + e[3], k>>]]
    <2>1. paramBytes(p) = SE!FlattenSeq(t)
        BY DEF paramBytes
    <2>2. t = s
        <3>1. ASSUME NEW i \in 1..13
              PROVE  (LET e == Encoding(p)[i]
                      IN  IF p[e[1]] = e[2] THEN << >>
                          ELSE [k \in 1..(1 + e[3]) |-> <<"param", e[1], p[e[1]], 1 + e[3], k>>])
                     = ParamBlock(p, i)
            BY <1>1 DEF ParamBlock, ParamByte, IdOf, SizeOf
        <3> QED BY <3>1
    <2> HIDE DEF t, s
    <2> QED BY <2>1, <2>2
<1> HIDE DEF s, T
<1>6. \A i \in 1..13 : parses(s[i]) /\ s[i] \in Seq(T)
    BY <1>2
<1>7. BlocksOf(s, T, paramBytes(p))
    BY <1>4, <1>5, <1>6 DEF BlocksOf
<1> QED BY <1>7 DEF s, T, J

\* Every byte of b is one of a parameter of p that is not zero.
BytesOf(b, p) ==
    /\ DOMAIN b = 1..Len(b)
    /\ \A i \in DOMAIN b : b[i][2] \in DOMAIN NoParams /\ b[i][3] = p[b[i][2]]
                           /\ p[b[i][2]] # NoParams[b[i][2]]

\* b is the encoding of p: it can be read, and leaves nothing out.
EncodingOf(b, p) ==
    /\ IsBytes(b) /\ parses(b) /\ BytesOf(b, p)
    /\ \A id \in DOMAIN NoParams : p[id] # NoParams[id] => \E i \in DOMAIN b : b[i][2] = id

\* What bytes makes of the parameters.
LEMMA ParamBytesOf ==
    ASSUME NEW p, ParamsShaped(p)
    PROVE  EncodingOf(paramBytes(p), p)
<1> DEFINE J == {j \in 1..13 : p[IdOf(p, j)] # NoParams[IdOf(p, j)]}
           T == UNION {{ParamByte(p, i, k) : k \in 1..(1 + SizeOf(p, i))} : i \in J}
           s == [i \in 1..13 |-> ParamBlock(p, i)]
           b == paramBytes(p)
<1>1. /\ s \in Seq(Seq(T)) /\ Len(s) = 12 + 1 /\ b = SE!FlattenSeq(s)
      /\ \A i \in 1..13 : parses(s[i]) /\ s[i] \in Seq(T)
    <2>1. BlocksOf(s, T, b)
        BY ParamBlocks
    <2> HIDE DEF J, T, s, b
    <2> QED BY <2>1 DEF BlocksOf
<1>2. \A t \in T : \E i \in J : \E k \in 1..(1 + SizeOf(p, i)) : t = ParamByte(p, i, k)
    OBVIOUS
<1>3. \A i \in J : \A k \in 1..(1 + SizeOf(p, i)) :
        ParamByte(p, i, k)[2] = IdOf(p, i) /\ ParamByte(p, i, k)[3] = p[IdOf(p, i)]
    BY DEF ParamByte
<1>4. \A i \in J : i \in 1..13 /\ IdOf(p, i) \in DOMAIN NoParams /\ p[IdOf(p, i)] # NoParams[IdOf(p, i)]
    BY EncodingIs
<1>5. ASSUME NEW j \in J
      PROVE  Len(s[j]) >= 1 /\ 1 \in 1..Len(s[j]) /\ s[j][1][2] = IdOf(p, j)
    <2> DEFINE n == 1 + SizeOf(p, j)
    <2>1. n \in Nat /\ n >= 1
        BY EncodingIs
    <2>2. s[j] = [k \in 1..n |-> ParamByte(p, j, k)]
        BY DEF ParamBlock
    <2>3. s[j] \in Seq(T)
        <3> HIDE DEF T, s, J
        <3> QED BY <1>1, <1>4
    <2> HIDE DEF n, s, T, J
    <2>4. DOMAIN s[j] = 1..n
        BY <2>2
    <2>5. Len(s[j]) = n
        BY <2>1, <2>3, <2>4, LenProperties
    <2>6. 1 \in 1..n
        BY <2>1
    <2>7. s[j][1] = ParamByte(p, j, 1)
        BY <2>2, <2>6
    <2> QED BY <2>1, <2>5, <2>6, <2>7, <1>3 DEF ParamByte
<1>6. \A id \in DOMAIN NoParams : p[id] # NoParams[id] => \E j \in J : IdOf(p, j) = id
    BY EncodingIs
<1> HIDE DEF J, T, s, b
<1>7. parses(b) /\ b \in Seq(T)
    <2> DEFINE K == {c \in Seq(T) : parses(c)}
               N == 12
    <2>1. \A x, y \in Seq(T) : x \in K /\ y \in K => x \o y \in K
        BY ParsesBoth, ConcatProperties
    <2>2. \A i \in 1..(N + 1) : s[i] \in K
        <3>1. N + 1 = 13
            OBVIOUS
        <3>2. \A i \in 1..13 : s[i] \in K
            BY <1>1
        <3> HIDE DEF K, N
        <3> QED BY <3>1, <3>2
    <2>3. N \in Nat /\ Len(s) = N + 1 /\ s \in Seq(Seq(T))
        BY <1>1
    <2> HIDE DEF K, N
    <2>4. SE!FlattenSeq(s) \in K /\ SE!FlattenSeq(s) \in Seq(T)
        BY ONLY <2>1, <2>2, <2>3, FlattenKeeps
    <2> QED BY <1>1, <2>4 DEF K
<1>8. DOMAIN b = 1..Len(b) /\ Len(b) \in Nat /\ (\A i \in 1..Len(b) : b[i] \in T)
    BY <1>7, LenProperties
<1>9. IsBytes(b)
    BY <1>7, <1>8 DEF IsBytes
<1>10. BytesOf(b, p)
    <2>1. ASSUME NEW i \in DOMAIN b
          PROVE  b[i][2] \in DOMAIN NoParams /\ b[i][3] = p[b[i][2]] /\ p[b[i][2]] # NoParams[b[i][2]]
        <3>1. PICK j \in J : \E k \in 1..(1 + SizeOf(p, j)) : b[i] = ParamByte(p, j, k)
            BY <1>2, <1>8
        <3>2. b[i][2] = IdOf(p, j) /\ b[i][3] = p[IdOf(p, j)]
            BY <1>3, <3>1
        <3> QED BY <1>4, <3>2
    <2> QED BY <1>8, <2>1 DEF BytesOf
<1>11. ASSUME NEW id \in DOMAIN NoParams, p[id] # NoParams[id]
       PROVE  \E i \in DOMAIN b : b[i][2] = id
    <2>1. PICK j \in J : IdOf(p, j) = id
        BY <1>6, <1>11
    <2>2. 1 \in 1..Len(s[j]) /\ s[j][1][2] = id /\ j \in 1..(12 + 1) /\ 12 \in Nat
        BY <1>4, <1>5, <2>1
    <2> DEFINE N == 12
               k == 1
    <2>3. N \in Nat /\ s \in Seq(Seq(T)) /\ Len(s) = N + 1 /\ j \in 1..(N + 1) /\ k \in 1..Len(s[j])
        BY <1>1, <2>2
    <2> HIDE DEF N, k
    <2>4. Contains(SE!FlattenSeq(s), s[j][k])
        BY ONLY <2>3, FlattenHas
    <2> QED BY <1>1, <1>8, <2>2, <2>4 DEF k, Contains
<1> QED BY <1>7, <1>9, <1>10, <1>11 DEF b, EncodingOf

\* What is read of any part of them is the parameter or its zero value.
LEMMA PartRead ==
    ASSUME NEW p, NEW b, BytesOf(b, p), NEW id \in DOMAIN NoParams
    PROVE  /\ parseParams(b)[id] \in {p[id], NoParams[id]}
           /\ (\E i \in DOMAIN b : b[i][2] = id) => parseParams(b)[id] = p[id]
           /\ p[id] = NoParams[id] => parseParams(b)[id] = p[id]
<1> DEFINE at == {i \in DOMAIN b : b[i][2] = id}
           k == CHOOSE i \in at : TRUE
<1>1. parseParams(b)[id] = IF at = {} THEN NoParams[id] ELSE b[k][3]
    BY DEF parseParams
<1>2. at # {} => k \in at
    OBVIOUS
<1>3. \A i \in at : b[i][3] = p[id]
    BY DEF BytesOf
<1>4. (\E i \in DOMAIN b : b[i][2] = id) => at # {}
    OBVIOUS
<1> HIDE DEF k, at
<1> QED BY <1>1, <1>2, <1>3, <1>4

\* The parameters are read as they were written.
THEOREM ParamsRead ==
    ASSUME NEW p, ParamsShaped(p)
    PROVE  parses(paramBytes(p)) /\ parseParams(paramBytes(p)) = p
<1> DEFINE b == paramBytes(p)
           D == DOMAIN NoParams
<1>1. /\ parses(b) /\ BytesOf(b, p)
      /\ \A id \in D : p[id] # NoParams[id] => \E i \in DOMAIN b : b[i][2] = id
    BY ParamBytesOf DEF EncodingOf
<1> HIDE DEF b
<1>2. \A id \in D : parseParams(b)[id] = p[id]
    BY <1>1, PartRead
<1>3. DOMAIN parseParams(b) = D /\ parseParams(b) = [id \in D |-> parseParams(b)[id]]
    BY DEF parseParams
<1>4. p = [id \in D |-> p[id]]
    BY DEF ParamsShaped
<1> HIDE DEF D
<1>5. parseParams(b) = p
    BY <1>2, <1>3, <1>4
<1> QED BY <1>1, <1>5 DEF b

-----------------------------------------------------------------------------
\* x is among the first m of c.
Early(c, x, m) == \E i \in 1..Len(c) : i <= m /\ c[i] = x

\* c is x and then y.
Joined(c, x, y) ==
    /\ Len(x) \in Nat /\ Len(y) \in Nat /\ Len(c) = Len(x) + Len(y)
    /\ \A q \in 1..Len(x) : c[q] = x[q]
    /\ \A q \in 1..Len(y) : c[q + Len(x)] = y[q]

\* Two sequences one after the other.
LEMMA JoinedIs ==
    ASSUME NEW T, NEW x \in Seq(T), NEW y \in Seq(T)
    PROVE  Joined(x \o y, x, y)
<1> DEFINE c == x \o y
<1>1. /\ Len(x) \in Nat /\ Len(y) \in Nat /\ Len(c) = Len(x) + Len(y)
      /\ \A q \in 1..(Len(x) + Len(y)) : c[q] = IF q <= Len(x) THEN x[q] ELSE y[q - Len(x)]
    BY ConcatProperties, LenProperties
<1> HIDE DEF c
<1>2. \A q \in 1..Len(x) : c[q] = x[q]
    BY <1>1
<1>3. ASSUME NEW q \in 1..Len(y) PROVE c[q + Len(x)] = y[q]
    <2>1. q + Len(x) \in 1..(Len(x) + Len(y)) /\ ~(q + Len(x) <= Len(x)) /\ (q + Len(x)) - Len(x) = q
        BY <1>1
    <2> QED BY <1>1, <2>1
<1> QED BY <1>1, <1>2, <1>3 DEF Joined, c

\* The first of the sequences put together are at its start.
LEMMA FlattenStart ==
    ASSUME NEW T, NEW N \in Nat, NEW s \in Seq(Seq(T)), Len(s) = N + 1,
           NEW j \in 1..(N + 1), NEW k \in 1..Len(s[j]), NEW at \in [0..(N + 1) -> Nat],
           at[0] = 0, \A h \in 1..j : at[h - 1] + Len(s[h]) <= at[h]
    PROVE  Early(SE!FlattenSeq(s), s[j][k], at[j])
<1>1. PICK g \in [1..(N + 1) -> Seq(T)] : Chain(g, s, N) /\ SE!FlattenSeq(s) = g[N + 1]
    BY FlattenIs
<1> DEFINE L == {i \in Nat : i + 1 <= j => Len(g[i + 1]) <= at[i + 1]}
<1> HIDE DEF L
<1>2. \A i \in 1..N : i \in 1..(N + 1) /\ i + 1 \in 1..(N + 1) /\ g[i] \in Seq(T) /\ s[i + 1] \in Seq(T)
    <2>1. \A i \in 1..N : i \in 1..(N + 1) /\ i + 1 \in 1..(N + 1)
        OBVIOUS
    <2> DEFINE U == Seq(T)
    <2>2. s \in Seq(U) /\ Len(s) = N + 1 /\ g \in [1..(N + 1) -> U]
        BY <1>1
    <2> HIDE DEF U
    <2>3. \A i \in 1..(N + 1) : s[i] \in U /\ g[i] \in U
        BY <2>2, ElementOfSeq
    <2> QED BY <2>1, <2>3 DEF U
<1>3. ASSUME NEW i \in 1..N
      PROVE  Joined(g[i + 1], g[i], s[i + 1])
    BY <1>1, <1>2, JoinedIs DEF Chain
<1> USE DEF L
<1>4. g[1] = s[1] /\ Len(s[1]) <= at[1]
    <2>1. 1 \in 1..j /\ 1 - 1 = 0 /\ s[1] \in Seq(T)
        OBVIOUS
    <2>2. at[0] + Len(s[1]) <= at[1]
        BY <2>1
    <2>3. 0 + Len(s[1]) <= at[1] /\ Len(s[1]) \in Nat
        BY <2>1, <2>2, LenProperties
    <2> QED BY <1>1, <2>3 DEF Chain
<1>5. \A i \in Nat : i \in L
    <2>1. 0 \in L
        BY <1>4
    <2>2. ASSUME NEW i \in Nat, i \in L PROVE i + 1 \in L
        <3> SUFFICES ASSUME (i + 1) + 1 <= j PROVE Len(g[(i + 1) + 1]) <= at[(i + 1) + 1]
            OBVIOUS
        <3> DEFINE n == i + 1
        <3>1. n \in 1..N /\ Len(g[n]) <= at[n] /\ n + 1 \in 1..j /\ (n + 1) - 1 = n
            BY <2>2
        <3> HIDE DEF n
        <3> DEFINE v == Len(g[n])
                   w == Len(s[n + 1])
                   u == Len(g[n + 1])
        <3>2. u = v + w /\ v \in Nat /\ w \in Nat
            BY <1>3, <3>1 DEF Joined
        <3> DEFINE a == at[n]
                   b == at[n + 1]
        <3>3. a + w <= b /\ v <= a /\ a \in Nat /\ b \in Nat
            <4>1. n \in 0..(N + 1) /\ n + 1 \in 0..(N + 1)
                BY <3>1
            <4> QED BY <3>1, <4>1
        <3> HIDE DEF u, v, w, a, b
        <3>4. u <= b
            BY ONLY <3>2, <3>3
        <3> QED BY <3>4 DEF n, u, b
    <2> HIDE DEF L
    <2> QED BY <2>1, <2>2, NaturalsIn
<1> DEFINE x == s[j][k]
           Has(c) == \E i \in 1..Len(c) : i <= at[j] /\ c[i] = x
<1>0. at[j] \in Nat
    OBVIOUS
<1>6. Has(g[j])
    <2>1. Len(g[j]) <= at[j] /\ Len(g[j]) \in Nat
        <3> DEFINE i == j - 1
        <3>1. i \in Nat /\ i + 1 = j
            OBVIOUS
        <3> HIDE DEF i
        <3>2. Len(g[i + 1]) <= at[i + 1]
            BY <1>5, <3>1
        <3> QED BY <3>1, <3>2, LenProperties
    <2>2. CASE j = 1
        <3>1. k \in 1..Len(g[j]) /\ g[j][k] = x /\ k <= at[j]
            BY <1>0, <1>4, <2>1, <2>2
        <3> QED BY <3>1
    <2>3. CASE j # 1
        <3> DEFINE i == j - 1
        <3>1. i \in 1..N /\ i + 1 = j
            BY <2>3
        <3> HIDE DEF i
        <3>2. Len(g[j]) = Len(g[i]) + Len(s[j]) /\ Len(g[i]) \in Nat /\ Len(s[j]) \in Nat
              /\ g[j][k + Len(g[i])] = s[j][k]
            BY <1>3, <3>1 DEF Joined
        <3>3. k + Len(g[i]) \in 1..Len(g[j]) /\ k + Len(g[i]) <= at[j]
            <4> DEFINE v == Len(g[i])
                       w == Len(s[j])
                       u == Len(g[j])
            <4> DEFINE a == at[j]
            <4>1. v \in Nat /\ w \in Nat /\ k \in 1..w /\ u = v + w /\ u <= a /\ a \in Nat
                BY <1>0, <2>1, <3>2
            <4> HIDE DEF v, w, u, a
            <4>2. k + v \in 1..u /\ k + v <= a
                BY <4>1
            <4> QED BY <4>2 DEF v, u, a
        <3> QED BY <3>2, <3>3
    <2> QED BY <2>2, <2>3
<1> DEFINE P == {i \in Nat : j <= i + 1 /\ i <= N => Has(g[i + 1])}
<1>7. \A i \in 1..N : Has(g[i]) => Has(g[i + 1])
    <2> SUFFICES ASSUME NEW i \in 1..N, Has(g[i]) PROVE Has(g[i + 1])
        OBVIOUS
    <2>1. PICK q \in 1..Len(g[i]) : q <= at[j] /\ g[i][q] = x
        OBVIOUS
    <2> HIDE DEF x
    <2> DEFINE c == g[i + 1]
               d == g[i]
               e == s[i + 1]
    <2>2. Joined(c, d, e) /\ q \in 1..Len(d) /\ d[q] = x
        BY <1>3, <2>1
    <2> HIDE DEF c, d, e
    <2>3. q \in 1..Len(c) /\ c[q] = x
        BY ONLY <2>2 DEF Joined
    <2> QED BY <2>1, <2>3 DEF c
<1> HIDE DEF Has, x
<1>8. \A i \in Nat : i \in P
    <2>1. 0 \in P
        BY <1>6
    <2>2. ASSUME NEW i \in Nat, i \in P PROVE i + 1 \in P
        <3> SUFFICES ASSUME j <= (i + 1) + 1, i + 1 <= N PROVE Has(g[(i + 1) + 1])
            OBVIOUS
        <3>1. CASE j <= i + 1
            BY <1>7, <2>2, <3>1
        <3>2. CASE j = (i + 1) + 1
            BY <1>6, <3>2
        <3> QED BY <3>1, <3>2
    <2> HIDE DEF P
    <2> QED BY <2>1, <2>2, NaturalsIn
<1>9. Has(g[N + 1])
    BY <1>8
<1> QED BY <1>1, <1>9 DEF Has, x, Early

-----------------------------------------------------------------------------
(* What the server allows                                                  *)

\* The restrictions of the numbers, which sconn.go makes with the others.
Limited(cfg, p) ==
    LET lo == IF cfg.MinInterval > 0 /\ p.Interval < cfg.MinInterval
              THEN cfg.MinInterval ELSE p.Interval
        hi == cfg.Timeout \div maxIntervalTimeoutFactor
    IN  [p EXCEPT
           !.Duration = IF cfg.MaxDuration > 0 /\ @ > cfg.MaxDuration THEN cfg.MaxDuration ELSE @,
           !.Interval = IF cfg.Timeout > 0 /\ lo > hi THEN hi ELSE lo,
           !.Length   = IF cfg.MaxLength > 0 /\ @ > cfg.MaxLength THEN cfg.MaxLength ELSE @]

\* What the restrictions of SConn.tla leave of the numbers.
LEMMA LimitedIs ==
    ASSUME NEW cfg, NEW p
    PROVE  S(cfg)!RestrictParams(p) = Limited(cfg, p)
    BY DEF S!RestrictParams, Limited

\* Settings of the server whose numbers are numbers.
ServerShaped(cfg) ==
    /\ cfg.MinInterval \in Nat /\ cfg.MaxDuration \in Nat /\ cfg.Timeout \in Nat
    /\ cfg.MaxLength \in Nat /\ Len(cfg.DefaultFill) \in Nat
    /\ cfg.AllowStamp \in {"none", "single", "dual"}

\* Numbers of a test that are numbers.
ParamsTyped(p) ==
    /\ ParamsShaped(p)
    /\ p.Duration \in Nat /\ p.Interval \in Nat /\ p.Length \in Nat

\* What the server makes of the parameters, field by field.
Allowed(q, cfg, p) ==
    /\ q.ProtocolVersion = ProtocolVersion
    /\ q.Duration = IF cfg.MaxDuration > 0 /\ p.Duration > cfg.MaxDuration
                    THEN cfg.MaxDuration ELSE p.Duration
    /\ q.Interval = LET lo == IF cfg.MinInterval > 0 /\ p.Interval < cfg.MinInterval
                              THEN cfg.MinInterval ELSE p.Interval
                        hi == cfg.Timeout \div maxIntervalTimeoutFactor
                    IN  IF cfg.Timeout > 0 /\ lo > hi THEN hi ELSE lo
    /\ q.Length = IF cfg.MaxLength > 0 /\ p.Length > cfg.MaxLength THEN cfg.MaxLength ELSE p.Length
    /\ q.StampAt = RestrictStamp(cfg.AllowStamp, p.StampAt)
    /\ q.DSCP = IF cfg.AllowDSCP THEN p.DSCP ELSE 0
    /\ q.ServerFill \in {p.ServerFill, cfg.DefaultFill}
    /\ \A x \in {"IntervalOffset", "ReceivedStats", "TripMode", "Multiply", "Group", "Clock"} :
         q[x] = p[x]

\* What the server leaves of parameters is allowed, and has the types of parameters.
LEMMA AllowedIs ==
    ASSUME NEW cfg, NEW p, ParamsShaped(p), Len(cfg.DefaultFill) \in Nat
    PROVE  LET q == AcceptedFill(cfg, restrictParams(cfg, p))
           IN  ParamsShaped(q) /\ Allowed(q, cfg, p)
<1> DEFINE D == {"ProtocolVersion", "Duration", "Interval", "IntervalOffset", "Length",
                 "ReceivedStats", "StampAt", "TripMode", "Multiply", "Group", "Clock",
                 "DSCP", "ServerFill"}
           l == Limited(cfg, p)
           r == restrictParams(cfg, p)
           q == AcceptedFill(cfg, r)
           fill == IF p.ServerFill # << >> /\ ~globAny(cfg.AllowFills, p.ServerFill)
                   THEN cfg.DefaultFill ELSE p.ServerFill
<1>1. DOMAIN NoParams = D
    BY DEF NoParams
<1>2. DOMAIN p = D /\ p = [x \in D |-> p[x]] /\ Len(p.Group) \in Nat /\ Len(p.ServerFill) \in Nat
    BY <1>1 DEF ParamsShaped
<1>3. /\ DOMAIN l = D /\ l = [x \in D |-> l[x]]
      /\ l.Duration = IF cfg.MaxDuration > 0 /\ p.Duration > cfg.MaxDuration
                      THEN cfg.MaxDuration ELSE p.Duration
      /\ l.Interval = LET lo == IF cfg.MinInterval > 0 /\ p.Interval < cfg.MinInterval
                                THEN cfg.MinInterval ELSE p.Interval
                          hi == cfg.Timeout \div maxIntervalTimeoutFactor
                      IN  IF cfg.Timeout > 0 /\ lo > hi THEN hi ELSE lo
      /\ l.Length = IF cfg.MaxLength > 0 /\ p.Length > cfg.MaxLength
                    THEN cfg.MaxLength ELSE p.Length
      /\ \A x \in D \ {"Duration", "Interval", "Length"} : l[x] = p[x]
    BY ZenonT(60), <1>2 DEF Limited
<1>4. r = [l EXCEPT !.ProtocolVersion = ProtocolVersion,
                    !.StampAt = RestrictStamp(cfg.AllowStamp, @),
                    !.DSCP = IF cfg.AllowDSCP THEN @ ELSE 0,
                    !.ServerFill = IF @ # << >> /\ ~globAny(cfg.AllowFills, @)
                                   THEN cfg.DefaultFill ELSE @]
    <2> HIDE DEF l
    <2>1. l = S(cfg)!RestrictParams(p)
        BY LimitedIs DEF l
    <2> QED BY <2>1 DEF restrictParams
<1> HIDE DEF l, r
<1>5. /\ DOMAIN r = D /\ r = [x \in D |-> r[x]]
      /\ r.ProtocolVersion = ProtocolVersion /\ r.StampAt = RestrictStamp(cfg.AllowStamp, l.StampAt)
      /\ r.DSCP = (IF cfg.AllowDSCP THEN l.DSCP ELSE 0)
      /\ r.ServerFill \in {l.ServerFill, cfg.DefaultFill}
      /\ \A x \in D \ {"ProtocolVersion", "StampAt", "DSCP", "ServerFill"} : r[x] = l[x]
    BY <1>3, <1>4
<1>6. /\ DOMAIN q = D /\ q = [x \in D |-> q[x]]
      /\ q.ServerFill \in {r.ServerFill, cfg.DefaultFill}
      /\ \A x \in D \ {"ServerFill"} : q[x] = r[x]
    BY <1>5 DEF AcceptedFill
<1> HIDE DEF q
<1>7. /\ "StampAt" \in D \ {"Duration", "Interval", "Length"}
      /\ "DSCP" \in D \ {"Duration", "Interval", "Length"}
      /\ "ServerFill" \in D \ {"Duration", "Interval", "Length"}
      /\ \A x \in {"IntervalOffset", "ReceivedStats", "TripMode", "Multiply", "Group", "Clock"} :
           /\ x \in D \ {"Duration", "Interval", "Length"} /\ x \in D \ {"ServerFill"}
           /\ x \in D \ {"ProtocolVersion", "StampAt", "DSCP", "ServerFill"}
      /\ \A x \in {"Duration", "Interval", "Length"} :
           x \in D \ {"ServerFill"} /\ x \in D \ {"ProtocolVersion", "StampAt", "DSCP", "ServerFill"}
      /\ \A x \in {"ProtocolVersion", "StampAt", "DSCP"} : x \in D \ {"ServerFill"}
    OBVIOUS
<1> HIDE DEF D
<1>8. \A x \in {"IntervalOffset", "ReceivedStats", "TripMode", "Multiply", "Group", "Clock"} : q[x] = p[x]
    BY <1>3, <1>5, <1>6, <1>7
<1>9. q.Duration = l.Duration /\ q.Interval = l.Interval /\ q.Length = l.Length
    BY <1>5, <1>6, <1>7
<1>10. /\ q.ProtocolVersion = ProtocolVersion /\ q.StampAt = RestrictStamp(cfg.AllowStamp, p.StampAt)
       /\ q.DSCP = (IF cfg.AllowDSCP THEN p.DSCP ELSE 0)
    BY <1>3, <1>5, <1>6, <1>7
<1>11. q.ServerFill \in {p.ServerFill, cfg.DefaultFill}
    BY <1>3, <1>5, <1>6, <1>7
<1>12. Allowed(q, cfg, p)
    BY <1>3, <1>8, <1>9, <1>10, <1>11 DEF Allowed
<1>13. Len(q.Group) \in Nat /\ Len(q.ServerFill) \in Nat
    BY <1>2, <1>8, <1>11
<1>14. ParamsShaped(q)
    BY <1>1, <1>6, <1>13 DEF ParamsShaped
<1> QED BY <1>12, <1>14 DEF q, r

-----------------------------------------------------------------------------
(* What the client checks                                                  *)

\* The error of checkParameters is that of the first check that fails.
LEMMA FirstError ==
    ASSUME NEW asked, NEW p, NEW loose
    PROVE  LET r == checkParameters(asked, p, loose)
               c == Checks(asked, p)
           IN  \/ /\ r = "none"
                  /\ \A i \in 1..12 : c[i] # "none" => loose /\ c[i] = "ServerRestriction"
               \/ \E i \in 1..12 : r = c[i] /\ c[i] # "none" /\ ~(loose /\ c[i] = "ServerRestriction")
<1> DEFINE c == Checks(asked, p)
           errs == {i \in DOMAIN c : c[i] # "none" /\ ~(loose /\ c[i] = "ServerRestriction")}
           first == CHOOSE i \in errs : \A j \in errs : i <= j
<1>1. DOMAIN c = 1..12
    BY DEF Checks
<1>2. checkParameters(asked, p, loose) = IF errs = {} THEN "none" ELSE c[first]
    BY DEF checkParameters
<1> HIDE DEF c
<1>3. errs # {} => first \in errs
    <2>1. errs \in SUBSET Nat
        BY <1>1
    <2> HIDE DEF errs
    <2>2. errs # {} => \E i \in errs : \A j \in errs : i <= j
        BY <2>1, LeastNatural
    <2> QED BY <2>2
<1> HIDE DEF first
<1> QED BY <1>1, <1>2, <1>3 DEF c

\* A client takes what the server made of what it asked for, and knows of
\* every restriction unless it is loose: whatever is read of what the server
\* sent, as long as it is right in what can be invalid.
THEOREM AllowedChecked ==
    ASSUME NEW cfg, ServerShaped(cfg), NEW asked, ParamsTyped(asked), NEW loose,
           NEW q, Allowed(q, cfg, asked),
           NEW p, p.ProtocolVersion = ProtocolVersion, p.Duration = q.Duration,
           p.Interval = q.Interval, p.Length = q.Length
    PROVE  LET r == checkParameters(asked, p, loose)
           IN  /\ r \in {"none", "ServerRestriction", "InvalidServerRestriction"}
               /\ r = "InvalidServerRestriction" =>
                    cfg.Timeout > 0 /\ cfg.Timeout \div maxIntervalTimeoutFactor < minRestrictedInterval
               /\ r = "ServerRestriction" => ~loose
               /\ r = "none" => /\ p.Duration <= asked.Duration /\ p.Length <= asked.Length
                                /\ p.Interval >= asked.Interval \/ p.Interval >= minRestrictedInterval
               /\ r = "none" /\ ~loose =>
                    /\ p.Duration = asked.Duration /\ p.Interval = asked.Interval
                    /\ p.Length = asked.Length /\ p.StampAt = asked.StampAt /\ p.Clock = asked.Clock
                    /\ p.DSCP = asked.DSCP /\ p.ServerFill = asked.ServerFill
<1> DEFINE r == checkParameters(asked, p, loose)
           c == Checks(asked, p)
<1>1. /\ c[1] = When(p.ProtocolVersion # ProtocolVersion, "ProtocolVersionMismatch")
      /\ c[2] = When(p.Duration < asked.Duration, "ServerRestriction")
      /\ c[3] = When(p.Duration > asked.Duration, "InvalidServerRestriction")
      /\ c[4] = When(p.Interval > asked.Interval, "ServerRestriction")
      /\ c[5] = When(p.Interval < asked.Interval /\ p.Interval < minRestrictedInterval,
                     "InvalidServerRestriction")
      /\ c[6] = When(p.Interval < asked.Interval, "ServerRestriction")
      /\ c[7] = When(p.Length < asked.Length, "ServerRestriction")
      /\ c[8] = When(p.Length > asked.Length, "InvalidServerRestriction")
      /\ c[9] = When(p.StampAt # asked.StampAt, "ServerRestriction")
      /\ c[10] = When(p.Clock # asked.Clock, "ServerRestriction")
      /\ c[11] = When(p.DSCP # asked.DSCP, "ServerRestriction")
      /\ c[12] = When(p.ServerFill # asked.ServerFill, "ServerRestriction")
    BY DEF Checks
<1>2. \/ /\ r = "none"
         /\ \A i \in 1..12 : c[i] # "none" => loose /\ c[i] = "ServerRestriction"
      \/ \E i \in 1..12 : r = c[i] /\ c[i] # "none" /\ ~(loose /\ c[i] = "ServerRestriction")
    BY FirstError
<1> HIDE DEF r, c
<1>3. \A i \in 1..12 : i \in {1, 2, 3, 4, 5, 6, 7, 8, 9, 10, 11, 12}
    OBVIOUS
<1>4. /\ asked.Duration \in Nat /\ asked.Interval \in Nat /\ asked.Length \in Nat
      /\ cfg.MinInterval \in Nat /\ cfg.MaxDuration \in Nat /\ cfg.Timeout \in Nat
      /\ cfg.MaxLength \in Nat /\ cfg.Timeout \div maxIntervalTimeoutFactor \in Nat
    BY DEF ParamsTyped, ServerShaped, maxIntervalTimeoutFactor
<1> DEFINE hi == cfg.Timeout \div maxIntervalTimeoutFactor
<1>5. /\ p.Duration \in Nat /\ p.Duration <= asked.Duration
      /\ p.Length \in Nat /\ p.Length <= asked.Length
    BY <1>4 DEF Allowed
<1>6. /\ p.Interval \in Nat
      /\ p.Interval < asked.Interval => cfg.Timeout > 0 /\ p.Interval = hi
    <2> DEFINE lo == IF cfg.MinInterval > 0 /\ asked.Interval < cfg.MinInterval
                     THEN cfg.MinInterval ELSE asked.Interval
    <2>1. p.Interval = IF cfg.Timeout > 0 /\ lo > hi THEN hi ELSE lo
        BY DEF Allowed
    <2>2. lo \in Nat /\ lo >= asked.Interval /\ hi \in Nat
        BY <1>4
    <2> HIDE DEF lo, hi
    <2> QED BY <1>4, <2>1, <2>2
<1> HIDE DEF hi
<1>7. CASE /\ r = "none"
           /\ \A i \in 1..12 : c[i] # "none" => loose /\ c[i] = "ServerRestriction"
    <2>1. ~(p.Interval < asked.Interval /\ p.Interval < minRestrictedInterval)
        <3>1. c[5] # "none" => c[5] = "ServerRestriction"
            BY <1>7
        <3> QED BY <1>1, <3>1 DEF When
    <2>2. p.Interval >= asked.Interval \/ p.Interval >= minRestrictedInterval
        BY <1>4, <1>6, <2>1 DEF minRestrictedInterval
    <2>3. ASSUME ~loose
          PROVE  /\ p.Duration = asked.Duration /\ p.Interval = asked.Interval
                 /\ p.Length = asked.Length /\ p.StampAt = asked.StampAt /\ p.Clock = asked.Clock
                 /\ p.DSCP = asked.DSCP /\ p.ServerFill = asked.ServerFill
        <3>1. \A i \in {2, 4, 6, 7, 9, 10, 11, 12} : c[i] = "none"
            BY <1>7, <2>3
        <3>2. /\ ~(p.Duration < asked.Duration) /\ ~(p.Interval > asked.Interval)
              /\ ~(p.Interval < asked.Interval) /\ ~(p.Length < asked.Length)
            BY <1>1, <3>1 DEF When
        <3>3. p.StampAt = asked.StampAt /\ p.Clock = asked.Clock
              /\ p.DSCP = asked.DSCP /\ p.ServerFill = asked.ServerFill
            BY <1>1, <3>1 DEF When
        <3>4. p.Duration = asked.Duration /\ p.Interval = asked.Interval /\ p.Length = asked.Length
            BY <1>4, <1>5, <1>6, <3>2
        <3> QED BY <3>3, <3>4
    <2> QED BY <1>5, <1>7, <2>2, <2>3 DEF r
<1>8. CASE \E i \in 1..12 : r = c[i] /\ c[i] # "none" /\ ~(loose /\ c[i] = "ServerRestriction")
    <2>1. PICK i \in 1..12 : r = c[i] /\ c[i] # "none" /\ ~(loose /\ c[i] = "ServerRestriction")
        BY <1>8
    <2>2. i # 1
        BY <1>1, <2>1 DEF When
    <2>3. i \notin {3, 8}
        <3>1. ~(p.Duration > asked.Duration) /\ ~(p.Length > asked.Length)
            BY <1>4, <1>5
        <3> QED BY <1>1, <2>1, <3>1 DEF When
    <2>4. c[i] \in {"ServerRestriction", "InvalidServerRestriction"}
        BY <1>1, <1>3, <2>1, <2>2 DEF When
    <2>5. r = "InvalidServerRestriction" => i = 5
        BY <1>1, <1>3, <2>1, <2>2, <2>3 DEF When
    <2>6. i = 5 => cfg.Timeout > 0 /\ cfg.Timeout \div maxIntervalTimeoutFactor < minRestrictedInterval
        BY <1>1, <1>6, <2>1 DEF hi, When
    <2>7. r # "none" /\ r \in {"ServerRestriction", "InvalidServerRestriction"}
          /\ (r = "ServerRestriction" => ~loose)
        BY <2>1, <2>4
    <2> QED BY <2>5, <2>6, <2>7 DEF r
<1> QED BY <1>2, <1>7, <1>8

\* Where each parameter but the last ends at most, when the group is not longer
\* than the client lets it be.
LastByte == <<2, 11, 20, 29, 34, 36, 38, 40, 45, 71, 73, 78>>

\* Such parameters, of this version of the protocol.
Short(p) == ParamsShaped(p) /\ p.ProtocolVersion = ProtocolVersion /\ Len(p.Group) <= maxGroupLen

\* All but the last take at most 78 bytes.
LEMMA FirstBytes ==
    ASSUME NEW p, Short(p), NEW j \in 1..12, p[IdOf(p, j)] # NoParams[IdOf(p, j)]
    PROVE  LET b == paramBytes(p)
           IN  \E i \in 1..Len(b) : i <= 78 /\ b[i][2] = IdOf(p, j)
<1> DEFINE J == {i \in 1..13 : p[IdOf(p, i)] # NoParams[IdOf(p, i)]}
           T == UNION {{ParamByte(p, i, k) : k \in 1..(1 + SizeOf(p, i))} : i \in J}
           s == [i \in 1..13 |-> ParamBlock(p, i)]
           b == paramBytes(p)
<1>0. ParamsShaped(p)
    BY DEF Short
<1>1. /\ s \in Seq(Seq(T)) /\ Len(s) = 12 + 1 /\ b = SE!FlattenSeq(s)
      /\ \A i \in 1..13 : parses(s[i]) /\ s[i] \in Seq(T)
    <2>1. BlocksOf(s, T, b)
        BY <1>0, ParamBlocks
    <2> HIDE DEF J, T, s, b
    <2> QED BY <2>1 DEF BlocksOf
<1>2. \A h \in 1..13 : SizeOf(p, h) \in Nat
    BY <1>0, EncodingIs
<1> DEFINE at == [h \in 0..13 |-> IF h = 0 THEN 0 ELSE IF h = 13 THEN 0 ELSE LastByte[h]]
<1>3. /\ at \in [0..(12 + 1) -> Nat] /\ at[0] = 0
      /\ \A h \in 1..12 : at[h - 1] + (1 + SizeOf(p, h)) <= at[h] /\ at[h] <= 78
    <2>1. /\ SizeOf(p, 1) = IntLen(p.ProtocolVersion) /\ SizeOf(p, 2) = DurLen(p.Duration)
          /\ SizeOf(p, 3) = DurLen(p.Interval) /\ SizeOf(p, 4) = DurLen(p.IntervalOffset)
          /\ SizeOf(p, 5) = IntLen(p.Length) /\ SizeOf(p, 6) = 1 /\ SizeOf(p, 7) = 1 /\ SizeOf(p, 8) = 1
          /\ SizeOf(p, 9) = IntLen(p.Multiply) /\ SizeOf(p, 10) = StrLen(p.Group)
          /\ SizeOf(p, 11) = 1 /\ SizeOf(p, 12) = IntLen(p.DSCP)
        BY DEF SizeOf, Encoding
    <2>2. /\ \A v : IntLen(v) <= 4 /\ DurLen(v) <= 8
          /\ IntLen(p.ProtocolVersion) = 1 /\ StrLen(p.Group) <= 25
        BY DEF IntLen, DurLen, StrLen, Abs, Short, ParamsShaped, ProtocolVersion, maxGroupLen
    <2>3. /\ at[0] = 0 /\ at[1] = 2 /\ at[2] = 11 /\ at[3] = 20 /\ at[4] = 29 /\ at[5] = 34 /\ at[6] = 36
          /\ at[7] = 38 /\ at[8] = 40 /\ at[9] = 45 /\ at[10] = 71 /\ at[11] = 73 /\ at[12] = 78 /\ at[13] = 0
        BY DEF LastByte
    <2>4. \A h \in 1..12 : h \in {1, 2, 3, 4, 5, 6, 7, 8, 9, 10, 11, 12}
        OBVIOUS
    <2>5. at \in [0..(12 + 1) -> Nat]
        <3>1. \A h \in 0..13 : h \in {0, 1, 2, 3, 4, 5, 6, 7, 8, 9, 10, 11, 12, 13}
            OBVIOUS
        <3>2. \A h \in 0..13 : at[h] \in Nat
            <4> HIDE DEF at
            <4> QED BY <2>3, <3>1
        <3>3. at = [h \in 0..13 |-> at[h]] /\ 12 + 1 = 13
            OBVIOUS
        <3> HIDE DEF at
        <3> QED BY <3>2, <3>3
    <2> HIDE DEF at
    <2>6. \A h \in 1..12 : SizeOf(p, h) \in Nat
        BY <1>2
    <2>7. /\ at[1 - 1] = 0 /\ at[2 - 1] = at[1] /\ at[3 - 1] = at[2] /\ at[4 - 1] = at[3]
          /\ at[5 - 1] = at[4] /\ at[6 - 1] = at[5] /\ at[7 - 1] = at[6] /\ at[8 - 1] = at[7]
          /\ at[9 - 1] = at[8] /\ at[10 - 1] = at[9] /\ at[11 - 1] = at[10] /\ at[12 - 1] = at[11]
        BY <2>3
    <2>8. \A h \in {1, 2, 3, 4, 5, 6} : at[h - 1] + (1 + SizeOf(p, h)) <= at[h] /\ at[h] <= 78
        BY <2>1, <2>2, <2>3, <2>6, <2>7
    <2>9. \A h \in {7, 8, 9, 10, 11, 12} : at[h - 1] + (1 + SizeOf(p, h)) <= at[h] /\ at[h] <= 78
        BY <2>1, <2>2, <2>3, <2>6, <2>7
    <2> QED BY <2>3, <2>4, <2>5, <2>8, <2>9
<1>4. ASSUME NEW h \in 1..13
      PROVE  IF h \in J THEN Len(s[h]) = 1 + SizeOf(p, h) /\ s[h][1] = ParamByte(p, h, 1)
             ELSE Len(s[h]) = 0
    <2> DEFINE n == 1 + SizeOf(p, h)
    <2>1. n \in Nat /\ n >= 1 /\ s[h] \in Seq(T)
        <3>1. n \in Nat /\ n >= 1
            BY <1>2
        <3>2. s[h] \in Seq(T)
            <4> HIDE DEF s, T, b, J, n
            <4> QED BY <1>1
        <3> QED BY <3>1, <3>2
    <2>2. s[h] = ParamBlock(p, h)
        OBVIOUS
    <2>3. CASE h \in J
        <3>1. s[h] = [k \in 1..n |-> ParamByte(p, h, k)]
            BY <2>2, <2>3 DEF ParamBlock
        <3> HIDE DEF s, n, T, J
        <3>2. DOMAIN s[h] = 1..n /\ s[h][1] = ParamByte(p, h, 1)
            BY <2>1, <3>1
        <3>3. Len(s[h]) = n
            BY <2>1, <3>2, LenProperties
        <3> QED BY <2>3, <3>2, <3>3 DEF n
    <2>4. CASE h \notin J
        <3>1. s[h] = << >>
            BY <2>2, <2>4 DEF ParamBlock
        <3> HIDE DEF s, J
        <3> QED BY <2>4, <3>1
    <2> QED BY <2>3, <2>4
<1>5. j \in J
    OBVIOUS
<1> HIDE DEF s, T, J, b
<1> HIDE DEF at
<1>6. \A h \in 1..j : at[h - 1] + Len(s[h]) <= at[h]
    <2> TAKE h \in 1..j
    <2>1. h \in 1..12 /\ h \in 1..13 /\ SizeOf(p, h) \in Nat /\ at[h - 1] + (1 + SizeOf(p, h)) <= at[h]
        BY <1>2, <1>3
    <2>2. at[h - 1] \in Nat /\ at[h] \in Nat
        <3>1. h - 1 \in 0..(12 + 1) /\ h \in 0..(12 + 1)
            OBVIOUS
        <3> QED BY <1>3, <3>1
    <2>3. CASE h \in J
        <3>1. Len(s[h]) = 1 + SizeOf(p, h)
            BY ONLY <1>4, <2>1, <2>3
        <3> QED BY <2>1, <3>1
    <2>4. CASE h \notin J
        <3>1. Len(s[h]) = 0
            BY ONLY <1>4, <2>1, <2>4
        <3> DEFINE x == at[h - 1]
                   y == at[h]
                   z == SizeOf(p, h)
        <3>2. x \in Nat /\ y \in Nat /\ z \in Nat /\ x + (1 + z) <= y
            BY <2>1, <2>2
        <3> HIDE DEF x, y, z
        <3>3. x + 0 <= y
            BY <3>2
        <3> QED BY <3>1, <3>3 DEF x, y
    <2> QED BY <2>3, <2>4
<1> DEFINE k == 1
           N == 12
<1>7. N \in Nat /\ Len(s) = N + 1 /\ j \in 1..(N + 1) /\ k \in 1..Len(s[j]) /\ s \in Seq(Seq(T))
    <2>1. j \in 1..13 /\ SizeOf(p, j) \in Nat
        BY <1>2
    <2>2. k \in 1..Len(s[j])
        <3>1. Len(s[j]) = 1 + SizeOf(p, j)
            BY ONLY <1>4, <1>5, <2>1
        <3> QED BY <2>1, <3>1
    <2> QED BY <1>1, <2>1, <2>2
<1>8. s[j][k] = ParamByte(p, j, 1)
    <2>1. j \in 1..13
        OBVIOUS
    <2> QED BY ONLY <1>4, <1>5, <2>1 DEF k
<1> HIDE DEF N, k
<1>9. Early(SE!FlattenSeq(s), s[j][k], at[j])
    <2>1. at \in [0..(N + 1) -> Nat] /\ at[0] = 0
        BY <1>3 DEF N
    <2> QED BY ONLY <1>6, <1>7, <2>1, FlattenStart
<1>10. Early(b, ParamByte(p, j, 1), at[j])
    BY <1>1, <1>8, <1>9
<1>11. ParamByte(p, j, 1)[2] = IdOf(p, j)
    BY DEF ParamByte
<1>12. PICK i \in 1..Len(b) : i <= at[j] /\ b[i] = ParamByte(p, j, 1)
    BY <1>10 DEF Early
<1>13. Len(b) \in Nat
    BY <1>0, ParamBytesOf DEF b, IsBytes, EncodingOf
<1>14. i <= 78
    <2>1. at[j] <= 78 /\ at[j] \in Nat
        <3>1. j \in 1..12 /\ j \in 0..(12 + 1)
            OBVIOUS
        <3> QED BY <1>3, <3>1
    <2> QED BY <1>12, <1>13, <2>1
<1> QED BY <1>11, <1>12, <1>14 DEF b

\* The parameters by their names.
LEMMA ParamNames ==
    /\ DOMAIN NoParams = {"ProtocolVersion", "Duration", "Interval", "IntervalOffset", "Length",
                          "ReceivedStats", "StampAt", "TripMode", "Multiply", "Group", "Clock",
                          "DSCP", "ServerFill"}
    /\ \A x \in {"ProtocolVersion", "Duration", "Interval", "IntervalOffset", "Length",
                  "ReceivedStats", "StampAt", "TripMode", "Multiply", "Group", "Clock", "DSCP"} :
         x \in DOMAIN NoParams \ {"ServerFill"}
BY DEF NoParams

\* Cut where the buffer of open's reply ends, they are read with the others.
LEMMA StartRead ==
    ASSUME NEW p, Short(p), NEW n \in Nat, n >= 78, n <= Len(paramBytes(p))
    PROVE  LET r == parseParams(SubSeq(paramBytes(p), 1, n))
           IN  \A x \in DOMAIN NoParams \ {"ServerFill"} : r[x] = p[x]
<1> DEFINE b == paramBytes(p)
           c == SubSeq(b, 1, n)
<1>0. ParamsShaped(p)
    BY DEF Short
<1>1. IsBytes(b) /\ BytesOf(b, p)
    BY <1>0, ParamBytesOf DEF EncodingOf
<1>2. Len(b) \in Nat /\ n <= Len(b)
    BY <1>1 DEF IsBytes
<1>3. IsBytes(c) /\ Len(c) = n /\ \A i \in 1..n : c[i] = b[i]
    <2> DEFINE m == 1
    <2>1. m \in Int /\ n \in Int /\ m <= n
        OBVIOUS
    <2> HIDE DEF b, m
    <2> DEFINE t == SubSeq(b, m, n)
    <2>2. IsBytes(t) /\ Len(t) = (IF m <= n THEN n - m + 1 ELSE 0)
          /\ \A i \in 1..Len(t) : t[i] = b[m + i - 1]
        BY ONLY <2>1, SubSeqIs
    <2> HIDE DEF t
    <2>3. Len(t) = n
        BY <2>1, <2>2 DEF m
    <2>4. \A i \in 1..n : t[i] = b[i]
        BY <2>2, <2>3 DEF m
    <2> QED BY <2>2, <2>3, <2>4 DEF t, m
<1> HIDE DEF c
<1>4. BytesOf(c, p)
    <2>1. DOMAIN c = 1..Len(c)
        BY <1>3 DEF IsBytes
    <2>2. \A i \in 1..n : i \in 1..Len(b)
        BY <1>2
    <2> HIDE DEF b
    <2> QED BY <1>1, <1>3, <2>1, <2>2 DEF BytesOf
<1>5. ASSUME NEW j \in 1..12 PROVE parseParams(c)[IdOf(p, j)] = p[IdOf(p, j)]
    <2> DEFINE id == IdOf(p, j)
    <2>1. id \in DOMAIN NoParams
        <3>1. j \in 1..13
            OBVIOUS
        <3> QED BY <1>0, <3>1, EncodingIs
    <2>2. CASE p[id] = NoParams[id]
        <3> HIDE DEF id
        <3> HIDE DEF b
        <3>1. parseParams(c)[id] = p[id]
            BY <1>4, <2>1, <2>2, PartRead
        <3> QED BY <3>1 DEF id
    <2>3. CASE p[id] # NoParams[id]
        <3>1. PICK i \in 1..Len(b) : i <= 78 /\ b[i][2] = id
            BY <2>3, FirstBytes
        <3>2. i \in DOMAIN c /\ c[i][2] = id
            <4>1. i \in 1..n
                BY <1>2, <3>1
            <4>2. DOMAIN c = 1..n
                BY <1>3 DEF IsBytes
            <4> QED BY <1>3, <3>1, <4>1, <4>2
        <3> HIDE DEF id
        <3>3. parseParams(c)[id] = p[id]
            BY <1>4, <2>1, <3>2, PartRead
        <3> QED BY <3>3 DEF id
    <2> QED BY <2>2, <2>3
<1>6. IdOf(p, 13) = "ServerFill"
    BY DEF IdOf, Encoding
<1>7. ASSUME NEW x \in DOMAIN NoParams \ {"ServerFill"} PROVE parseParams(c)[x] = p[x]
    <2>1. PICK j \in 1..13 : IdOf(p, j) = x
        BY <1>0, EncodingIs
    <2>2. j \in 1..12
        BY <1>6, <2>1
    <2> HIDE DEF c
    <2> QED BY <1>5, <2>1, <2>2
<1> QED BY <1>7 DEF c

-----------------------------------------------------------------------------
(* What is read of an open request, and of a reply that is too long        *)

\* The payload of a packet of a header alone.
LEMMA RequestRead ==
    ASSUME NEW q, Sendable(q, HeaderOf(q.key)), NEW s, Well(s), q.len <= Cap(s), s.key = q.key
    PROVE  payload(readReset(Received(s, bytes(q)))) = payload(q)
<1> DEFINE H == HeaderOf(q.key)
           t == readReset(Received(s, bytes(q)))
           G == {}
           u == addFields(t, G, FALSE)
<1>1. Well(t) /\ Layout(t, H)
    BY ReadBack, BufferIs DEF Sendable
<1>2. Sendable(q, H) /\ H = HeaderOf(q.key) \cup G
    OBVIOUS
<1>3. payload(u) = payload(q)
    <2> HIDE DEF G
    <2>1. payload(addFields(readReset(Received(s, bytes(q))), G, FALSE)) = payload(q)
        BY <1>2, FieldsRead, BufferIs DEF Sendable
    <2> QED BY <2>1
<1> HIDE DEF t
<1>4. u = [t EXCEPT !.flen = t.flen]
    <2>1. t.flen = [f \in Field |-> IF f \in G THEN fcaps[f] ELSE t.flen[f]]
        BY <1>1 DEF Well
    <2>2. u = [t EXCEPT !.flen = [f \in Field |-> IF f \in G THEN fcaps[f] ELSE t.flen[f]]]
        BY DEF addFields, Relaid
    <2> QED BY <2>1, <2>2
<1>5. u = t
    BY <1>1, <1>4 DEF Well, Shaped
<1> QED BY <1>3, <1>5 DEF t

\* A payload that is longer than the capacity allows is a panic, of which
\* updateHMAC knows nothing.
LEMMA OpenPanics ==
    ASSUME NEW key, NEW b, IsBytes(b), 4 + KeyLen(key) + Len(b) > 92
    PROVE  ~updateHMAC(setPayload(setFlagBits(newPacket(0, maxHeaderLen, key), {"open"}), b)).ok
<1> DEFINE p == newPacket(0, maxHeaderLen, key)
           x == setFlagBits(p, {"open"})
           y == setPayload(x, b)
<1>1. Well(p) /\ Layout(p, HeaderOf(key)) /\ p.key = key /\ Cap(p) = 92
    <2>1. 92 \in Int /\ Greater(92, 92) = 92
        BY DEF Greater
    <2>2. p = newPacket(0, 92, key)
        BY Caps
    <2> HIDE DEF p
    <2> QED BY <2>1, <2>2, NewPacketIs
<1> HIDE DEF p
<1>2. /\ HeaderOf(key) \subseteq 1..4 /\ fMagic \in HeaderOf(key) /\ fFlags \in HeaderOf(key)
      /\ (fHMAC \in HeaderOf(key) <=> key # NoKey) /\ fConnToken \notin HeaderOf(key)
    BY HeaderIs
<1>3. /\ p.flen[fFlags] = 1 /\ SumLens(p.flen) = 4 + KeyLen(key) /\ (key # NoKey => p.flen[fHMAC] = 16)
    <2> DEFINE H == HeaderOf(key)
    <2>1. H \subseteq 1..4 /\ fMagic \in H /\ fFlags \in H /\ Layout(p, H)
        BY <1>1, <1>2
    <2>2. (fHMAC \in H <=> key # NoKey) /\ fConnToken \notin H
        BY <1>2
    <2> HIDE DEF H
    <2>3. /\ p.flen[fFlags] = 1 /\ p.flen[fHMAC] = (IF fHMAC \in H THEN 16 ELSE 0)
          /\ p.flen[fConnToken] = (IF fConnToken \in H THEN 8 ELSE 0)
          /\ SumLens(p.flen) = 4 + p.flen[fHMAC] + p.flen[fConnToken]
        BY <2>1, OpenLayout
    <2> QED BY <2>2, <2>3 DEF KeyLen
<1>4. Well(x) /\ x.flen = p.flen /\ x.key = key /\ Cap(x) = 92
    BY <1>1, <1>3, FlagsSet DEF Over
<1> HIDE DEF x
<1>5. y = [x EXCEPT !.ok = FALSE]
    <2> DEFINE n == SumLens(x.flen) + Len(b)
    <2>1. n \notin 0..Cap(x)
        <3> DEFINE k == KeyLen(key)
                   l == Len(b)
                   m == SumLens(x.flen)
                   c == Cap(x)
        <3>1. l \in Nat /\ k \in Nat /\ m = 4 + k /\ c = 92 /\ 4 + k + l > 92
            BY <1>3, <1>4 DEF IsBytes, KeyLen
        <3> HIDE DEF k, l, m, c
        <3>2. m + l \notin 0..c
            BY ONLY <3>1
        <3> QED BY <3>2 DEF l, m, c
    <2>2. Slice(x, n) = [x EXCEPT !.ok = FALSE]
        BY <2>1 DEF Slice
    <2>3. [x EXCEPT !.ok = FALSE].ok = FALSE
        BY <1>4 DEF Well, Shaped
    <2> QED BY <2>2, <2>3 DEF setPayload
<1>6. Shaped(y) /\ y.ok = FALSE /\ y.flen = p.flen /\ y.key = key
    BY ZenonT(60), <1>4, <1>5 DEF Well, Shaped
<1> HIDE DEF y
<1>7. ASSUME NEW z, Shaped(z), z.ok = FALSE, z.flen = p.flen, NEW f \in {fFlags, fHMAC},
             f = fHMAC => key # NoKey, NEW c
      PROVE  Shaped(set(z, f, c)) /\ set(z, f, c).ok = FALSE /\ set(z, f, c).flen = p.flen
    <2>1. z.flen[f] = fcaps[f] /\ fcaps[f] \in Nat
        BY <1>3, <1>7, Caps DEF fFlags, fHMAC
    <2>2. setTo(z, f) = z
        BY <2>1 DEF setTo, setFieldLen
    <2>3. \E a : set(z, f, c) = [z EXCEPT !.arr = a]
        BY <2>2 DEF set, Write
    <2>4. PICK a : set(z, f, c) = [z EXCEPT !.arr = a]
        BY <2>3
    <2> QED BY <1>7, <2>4 DEF Shaped
<1>8. CASE key = NoKey
    <2>1. updateHMAC(y) = y
        BY <1>6, <1>8 DEF updateHMAC
    <2> QED BY <1>6, <2>1 DEF y, x, p
<1>9. CASE key # NoKey
    <2> DEFINE v == setFlagBits(y, {"hmac"})
               w == zero(v, fHMAC)
    <2>1. \E c : v = set(y, fFlags, c)
        BY DEF setFlagBits
    <2>2. Shaped(v) /\ v.ok = FALSE /\ v.flen = p.flen
        BY <1>6, <1>7, <1>9, <2>1 DEF fFlags, fHMAC
    <2> HIDE DEF v
    <2>3. \E c : w = set(v, fHMAC, c)
        BY DEF zero
    <2>4. Shaped(w) /\ w.ok = FALSE /\ w.flen = p.flen
        BY <1>7, <1>9, <2>2, <2>3
    <2> HIDE DEF w
    <2>5. set(w, fHMAC, Mac(w)).ok = FALSE
        BY <1>7, <1>9, <2>4
    <2>6. updateHMAC(y) = set(w, fHMAC, Mac(w))
        BY <1>6, <1>9 DEF updateHMAC, v, w
    <2> QED BY <2>5, <2>6 DEF y, x, p
<1> QED BY <1>8, <1>9

\* A reply that is longer than the buffer it is read into: what is read of its
\* payload is the start.
LEMMA CutRead ==
    ASSUME NEW q, NEW F, Sendable(q, F), F = HeaderOf(q.key) \cup {fConnToken},
           NEW s, Well(s), s.key = q.key, q.len > Cap(s)
    PROVE  LET u == addFields(readReset(Received(s, bytes(q))), fopenReply, FALSE)
               n == Cap(s) - SumLens(q.flen)
           IN  /\ payload(u) = SubSeq(payload(q), 1, n)
               /\ SumLens(q.flen) = 12 + KeyLen(q.key) /\ n <= Len(payload(q))
<1> DEFINE r == Received(s, bytes(q))
           t == readReset(r)
           u == addFields(t, fopenReply, FALSE)
           H == HeaderOf(q.key)
           m == SumLens(q.flen)
           n == Cap(s) - m
<1>1. Well(q) /\ Layout(q, F) /\ F \subseteq 1..4 /\ fMagic \in F /\ fFlags \in F
      /\ (fHMAC \in F <=> q.key # NoKey)
    BY HeaderIs DEF Sendable, Framed, fConnToken
<1>2. H \subseteq 1..4 /\ fMagic \in H /\ fFlags \in H /\ (fHMAC \in H <=> q.key # NoKey)
      /\ fConnToken \notin H /\ F = H \cup {fConnToken}
    BY HeaderIs
<1>3. IsBytes(bytes(q)) /\ Len(bytes(q)) = q.len /\ \A i \in 1..q.len : bytes(q)[i] = q.arr[i]
    BY <1>1, BytesIs
<1>4. Cap(s) \in Nat /\ 92 <= Cap(s) /\ q.len \in Nat
    BY <1>1, Bounds
<1>5. /\ Shaped(r) /\ r.ok = TRUE /\ IsBytes(r.arr) /\ Cap(r) = Cap(s) /\ r.key = q.key
      /\ r.len = Cap(s) /\ r.tlen = Cap(s) /\ Layout(r, H)
      /\ \A i \in 1..Cap(s) : r.arr[i] = q.arr[i]
      /\ SumLens(r.flen) <= Cap(s) => Well(r)
    <2> DEFINE data == bytes(q)
    <2>1. TakenIn(r, s, data)
        BY <1>3, ReceivedIs, BufferIs
    <2> HIDE DEF data, r
    <2>2. Lesser(Len(data), Cap(s)) = Cap(s)
        BY <1>3, <1>4 DEF Lesser, data
    <2>3. \A i \in 1..Cap(s) : data[i] = q.arr[i]
        BY <1>3, <1>4 DEF data
    <2> QED BY <2>1, <2>2, <2>3 DEF TakenIn
<1> HIDE DEF r, H
<1>6. /\ r.flen[fHMAC] = (IF q.key # NoKey THEN 16 ELSE 0) /\ Pos(r, fHMAC) = 4
      /\ SumLens(r.flen) = 4 + r.flen[fHMAC] + r.flen[fConnToken]
      /\ r.flen[fConnToken] = 0
    BY <1>2, <1>5, OpenLayout
<1>7. Well(r)
    <2>1. SumLens(r.flen) <= 20 /\ SumLens(r.flen) \in Nat
        BY <1>6
    <2> QED BY <1>4, <1>5, <2>1
<1>8. m = 12 + KeyLen(q.key)
    <2>1. /\ q.flen[fHMAC] = (IF fHMAC \in F THEN 16 ELSE 0)
          /\ q.flen[fConnToken] = (IF fConnToken \in F THEN 8 ELSE 0)
          /\ SumLens(q.flen) = 4 + q.flen[fHMAC] + q.flen[fConnToken]
        BY <1>1, OpenLayout
    <2> QED BY <1>1, <1>2, <2>1 DEF KeyLen
<1>9. /\ Shaped(t) /\ t.len = Cap(s) /\ Layout(t, H)
      /\ \A i \in 1..Cap(s) : i > m => t.arr[i] = q.arr[i]
    <2>1. CASE q.key = NoKey
        <3>1. t = r
            BY <1>5, <2>1 DEF readReset
        <3> QED BY <1>5, <3>1
    <2>2. CASE q.key # NoKey
        <3>1. t = zero(r, fHMAC)
            BY <1>5, <2>2 DEF readReset
        <3>2. fHMAC \in Field /\ fcaps[fHMAC] = 16
            BY FieldFacts, Caps DEF fHMAC
        <3>3. r.flen[fHMAC] = fcaps[fHMAC]
            BY <1>6, <2>2, <3>2
        <3> HIDE DEF t
        <3>4. Over(t, r, fHMAC)
            BY <1>7, <3>1, <3>2, <3>3, ZeroIs
        <3>5. ASSUME NEW i \in 1..Cap(s), i > m PROVE t.arr[i] = q.arr[i]
            <4>1. i \in 1..Cap(r) /\ ~(i > Pos(r, fHMAC) /\ i <= Pos(r, fHMAC) + fcaps[fHMAC])
                BY <1>4, <1>5, <1>6, <1>8, <2>2, <3>2, <3>5 DEF KeyLen
            <4>2. t.arr[i] = r.arr[i]
                BY <3>4, <4>1 DEF Over
            <4> QED BY <1>5, <4>2
        <3>6. Well(t) /\ t.flen = r.flen /\ t.len = r.len
            BY <3>4 DEF Over
        <3> QED BY <1>5, <3>5, <3>6 DEF Well, Layout
    <2> QED BY <2>1, <2>2
<1> HIDE DEF t
<1>10. /\ u = [t EXCEPT !.flen = q.flen]
    <2> DEFINE fl == [f \in Field |-> IF f \in fopenReply THEN fcaps[f] ELSE t.flen[f]]
    <2>1. u = [t EXCEPT !.flen = fl]
        BY DEF addFields, Relaid
    <2>2. fopenReply = {fMagic, fFlags, fConnToken}
        BY DEF fopenReply
    <2>3. q.flen = [f \in Field |-> IF f \in F THEN fcaps[f] ELSE 0]
        BY <1>1 DEF Layout
    <2>4. \A f \in Field : t.flen[f] = IF f \in H THEN fcaps[f] ELSE 0
        BY <1>9 DEF Layout
    <2>5. fl = q.flen
        BY <1>2, <2>2, <2>3, <2>4
    <2> QED BY <2>1, <2>5
<1>11. u.arr = t.arr /\ u.flen = q.flen /\ u.len = Cap(s)
    BY <1>9, <1>10 DEF Shaped
<1> HIDE DEF u
<1>12. m \in Nat /\ n \in Nat /\ m + n = Cap(s) /\ q.len - m \in Nat /\ m + (q.len - m) = q.len /\ n <= q.len - m
    <2>1. KeyLen(q.key) \in {0, 16}
        BY DEF KeyLen
    <2> QED BY <1>4, <1>8, <2>1
<1>13. /\ IsBytes(payload(u)) /\ Len(payload(u)) = n
       /\ \A k \in 1..n : payload(u)[k] = q.arr[m + k]
    <2> DEFINE c == n
    <2>1. payload(u) = SubSeq(t.arr, m + 1, m + c)
        BY <1>11, <1>12 DEF payload
    <2>2. m \in Nat /\ c \in Nat
        BY <1>12
    <2>3. \A k \in 1..c : t.arr[m + k] = q.arr[m + k]
        <3> TAKE k \in 1..c
        <3>1. m + k \in 1..Cap(s) /\ m + k > m
            BY <1>12
        <3> QED BY <1>9, <3>1
    <2> DEFINE a == t.arr
    <2> HIDE DEF m, c, a
    <2>4. /\ IsBytes(SubSeq(a, m + 1, m + c)) /\ Len(SubSeq(a, m + 1, m + c)) = c
          /\ \A k \in 1..c : SubSeq(a, m + 1, m + c)[k] = a[m + k]
        BY <2>2, PartIs
    <2>5. payload(u) = SubSeq(a, m + 1, m + c)
        BY <2>1 DEF a
    <2>6. \A k \in 1..c : a[m + k] = q.arr[m + k]
        BY <2>3 DEF a
    <2>7. IsBytes(payload(u)) /\ Len(payload(u)) = c /\ \A k \in 1..c : payload(u)[k] = q.arr[m + k]
        BY <2>4, <2>5, <2>6
    <2> QED BY <2>7 DEF c, m
<1>14. /\ IsBytes(payload(q)) /\ Len(payload(q)) = q.len - m
       /\ \A k \in 1..(q.len - m) : payload(q)[k] = q.arr[m + k]
    <2> DEFINE c == q.len - m
               a == q.arr
    <2>1. payload(q) = SubSeq(a, m + 1, m + c)
        BY <1>12 DEF payload
    <2>2. m \in Nat /\ c \in Nat
        BY <1>12
    <2> HIDE DEF m, c, a
    <2>4. /\ IsBytes(SubSeq(a, m + 1, m + c)) /\ Len(SubSeq(a, m + 1, m + c)) = c
          /\ \A k \in 1..c : SubSeq(a, m + 1, m + c)[k] = a[m + k]
        BY <2>2, PartIs
    <2>7. IsBytes(payload(q)) /\ Len(payload(q)) = c /\ \A k \in 1..c : payload(q)[k] = a[m + k]
        BY <2>1, <2>4
    <2> QED BY <2>7 DEF c, m, a
<1> HIDE DEF m, n
<1>15. payload(u) = SubSeq(payload(q), 1, n)
    <2> DEFINE z == payload(q)
               o == 0
               v == SubSeq(z, o + 1, o + n)
    <2>1. o \in Nat /\ n \in Nat
        BY <1>12
    <2> HIDE DEF o, z
    <2>2. IsBytes(v) /\ Len(v) = n /\ \A k \in 1..n : v[k] = z[o + k]
        BY <2>1, PartIs
    <2>3. v = SubSeq(z, 1, n)
        BY <1>12 DEF o
    <2> HIDE DEF v
    <2>4. \A k \in 1..n : v[k] = payload(u)[k]
        <3> TAKE k \in 1..n
        <3>1. v[k] = z[k] /\ k \in 1..(q.len - m)
            BY <1>12, <2>2 DEF o
        <3>2. z[k] = q.arr[m + k]
            BY <1>14, <3>1 DEF z
        <3> QED BY <1>13, <3>1, <3>2
    <2>5. payload(u) = v
        BY <1>13, <2>2, <2>4, SameBytes
    <2> QED BY <2>3, <2>5 DEF z
<1> QED BY <1>8, <1>12, <1>14, <1>15 DEF m, n, u, t, r

-----------------------------------------------------------------------------
(* Patterns of fills                                                       *)

\* Where Index finds something it is.
LEMMA IndexIs ==
    ASSUME NEW s, IsBytes(s), NEW sub, IsBytes(sub)
    PROVE  LET x == Index(s, sub)
           IN  \/ x = -1
               \/ /\ x \in Nat /\ x + Len(sub) <= Len(s)
                  /\ \A k \in 1..Len(sub) : s[x + k] = sub[k]
<1> DEFINE at == {i \in 0..(Len(s) - Len(sub)) : SubSeq(s, i + 1, i + Len(sub)) = sub}
           x == CHOOSE i \in at : \A j \in at : i <= j
<1>1. Len(s) \in Nat /\ Len(sub) \in Nat
    BY DEF IsBytes
<1>2. Index(s, sub) = IF at = {} THEN -1 ELSE x
    BY DEF Index
<1>3. CASE at = {}
    BY <1>2, <1>3
<1>4. CASE at # {}
    <2>1. at \in SUBSET Nat
        BY <1>1
    <2>2. \E i \in at : \A j \in at : i <= j
        <3> HIDE DEF at
        <3> QED BY <1>4, <2>1, LeastNatural
    <2>3. x \in at
        <3> HIDE DEF at
        <3> QED BY <2>2
    <2> HIDE DEF x
    <2>4. x \in Nat /\ x + Len(sub) <= Len(s) /\ SubSeq(s, x + 1, x + Len(sub)) = sub
        BY <1>1, <2>3
    <2>5. \A k \in 1..Len(sub) : s[x + k] = sub[k]
        <3> TAKE k \in 1..Len(sub)
        <3>1. SubSeq(s, x + 1, x + Len(sub))[k] = s[(x + 1) + k - 1]
            <4>1. x + 1 \in Int /\ x + Len(sub) \in Int
                BY <1>1, <2>4
            <4> QED BY <2>4, <4>1, SubSeqIs
        <3>2. (x + 1) + k - 1 = x + k
            BY <1>1, <2>4
        <3> QED BY <2>4, <3>1, <3>2
    <2> QED BY <1>2, <1>4, <2>4, <2>5
<1> QED BY <1>3, <1>4

\* What is behind a part of what is behind a part.
LEMMA BehindBehind ==
    ASSUME NEW s, IsBytes(s), NEW m \in Nat, NEW x \in Nat, m + x <= Len(s)
    PROVE  LET t == SubSeq(s, m + 1, Len(s))
           IN  /\ IsBytes(t) /\ Len(t) = Len(s) - m /\ \A k \in 1..Len(t) : t[k] = s[m + k]
               /\ SubSeq(t, x + 1, Len(t)) = SubSeq(s, m + x + 1, Len(s))
<1> DEFINE t == SubSeq(s, m + 1, Len(s))
           u == SubSeq(t, x + 1, Len(t))
           v == SubSeq(s, m + x + 1, Len(s))
<1>1. Len(s) \in Nat /\ m + 1 \in Int /\ Len(s) \in Int /\ m + x + 1 \in Int /\ x + 1 \in Int
    BY DEF IsBytes
<1>2. /\ IsBytes(t) /\ Len(t) = (IF m + 1 <= Len(s) THEN Len(s) - (m + 1) + 1 ELSE 0)
      /\ \A k \in 1..Len(t) : t[k] = s[(m + 1) + k - 1]
    BY <1>1, SubSeqIs
<1>3. Len(t) = Len(s) - m /\ Len(t) \in Nat
    BY <1>1, <1>2
<1>4. \A k \in 1..Len(t) : t[k] = s[m + k]
    <2> TAKE k \in 1..Len(t)
    <2>1. (m + 1) + k - 1 = m + k
        BY <1>3
    <2> QED BY <1>2, <2>1
<1> HIDE DEF t
<1>5. /\ IsBytes(u) /\ Len(u) = (IF x + 1 <= Len(t) THEN Len(t) - (x + 1) + 1 ELSE 0)
      /\ \A k \in 1..Len(u) : u[k] = t[(x + 1) + k - 1]
    BY <1>1, <1>3, SubSeqIs
<1>6. /\ IsBytes(v) /\ Len(v) = (IF m + x + 1 <= Len(s) THEN Len(s) - (m + x + 1) + 1 ELSE 0)
      /\ \A k \in 1..Len(v) : v[k] = s[(m + x + 1) + k - 1]
    BY <1>1, SubSeqIs
<1> HIDE DEF u, v
<1>7. Len(u) = Len(v) /\ Len(u) = Len(s) - (m + x) /\ Len(u) \in Nat
    BY <1>1, <1>3, <1>5, <1>6
<1>8. \A k \in 1..Len(u) : u[k] = v[k]
    <2> TAKE k \in 1..Len(u)
    <2>1. (x + 1) + k - 1 \in 1..Len(t) /\ m + ((x + 1) + k - 1) = (m + x + 1) + k - 1 /\ k \in 1..Len(v)
        BY <1>1, <1>3, <1>7
    <2> QED BY <1>4, <1>5, <1>6, <2>1
<1>9. u = v
    BY <1>5, <1>6, <1>7, <1>8, SameBytes
<1> QED BY <1>2, <1>3, <1>4, <1>9 DEF t, u, v

\* upto says where of the subject the first n characters of the pattern are.
Follows(upto, pattern, subj, n) ==
    /\ upto[0] = 0
    /\ \A i \in 1..n :
         IF pattern[i] = "*" THEN upto[i] >= upto[i - 1]
         ELSE upto[i] = upto[i - 1] + 1 /\ subj[upto[i]] = pattern[i]

\* The first n of the pattern match the first m of the subject.
Reads(pattern, subj, n, m) ==
    \E upto \in [0..n -> 0..Len(subj)] : Follows(upto, pattern, subj, n) /\ upto[n] = m

\* The part is in s after its first x.
PartAt(part, s, x) == \A k \in 1..Len(part) : s[x + k] = part[k]

\* A match goes on with a star and a part that the subject has behind.
LEMMA GoesOn ==
    ASSUME NEW pattern, NEW subj, Len(subj) \in Nat, NEW a \in Nat, a > 0, pattern[a] = "*",
           NEW m, Reads(pattern, subj, a - 1, m),
           NEW part, Len(part) \in Nat, PartAt(part, pattern, a),
           NEW x \in Nat, m <= x, x + Len(part) <= Len(subj), PartAt(part, subj, x)
    PROVE  Reads(pattern, subj, a + Len(part), x + Len(part))
<1>0. PICK upto \in [0..(a - 1) -> 0..Len(subj)] :
         Follows(upto, pattern, subj, a - 1) /\ upto[a - 1] = m
    BY DEF Reads
<1> DEFINE L == Len(part)
           up == [i \in 0..(a + L) |-> IF i < a THEN upto[i] ELSE x + (i - a)]
<1>1. up \in [0..(a + L) -> 0..Len(subj)]
    <2>1. ASSUME NEW i \in 0..(a + L) PROVE up[i] \in 0..Len(subj)
        <3>1. CASE i < a
            <4>1. i \in 0..(a - 1)
                BY <3>1
            <4> QED BY <3>1, <4>1
        <3>2. CASE ~(i < a)
            BY <3>2
        <3> QED BY <3>1, <3>2
    <2> QED BY <2>1
<1>2. up[0] = 0
    BY <1>0 DEF Follows
<1>3. ASSUME NEW i \in 1..(a + L)
      PROVE  IF pattern[i] = "*" THEN up[i] >= up[i - 1]
             ELSE up[i] = up[i - 1] + 1 /\ subj[up[i]] = pattern[i]
    <2>1. CASE i < a
        <3>1. i \in 1..(a - 1) /\ up[i] = upto[i] /\ up[i - 1] = upto[i - 1]
            BY <2>1
        <3> HIDE DEF up
        <3> QED BY <1>0, <3>1 DEF Follows
    <2>2. CASE i = a
        <3>1. up[i] = x /\ up[i - 1] = upto[a - 1]
            BY <2>2
        <3>2. upto[a - 1] \in 0..Len(subj) /\ upto[a - 1] <= x
            BY <1>0
        <3> HIDE DEF up
        <3> QED BY <2>2, <3>1, <3>2
    <2>3. CASE i > a
        <3>1. i - a \in 1..L /\ up[i] = x + (i - a) /\ up[i - 1] = x + (i - 1 - a)
            BY <2>3
        <3>2. a + (i - a) = i
            BY <3>1
        <3>3. pattern[i] = part[i - a] /\ subj[x + (i - a)] = part[i - a]
            BY <3>1, <3>2 DEF PartAt
        <3>4. up[i] >= up[i - 1] /\ up[i] = up[i - 1] + 1
            <4> HIDE DEF up
            <4> QED BY <3>1
        <3> HIDE DEF up
        <3> QED BY <3>1, <3>3, <3>4
    <2> QED BY <2>1, <2>2, <2>3
<1>4. up[a + L] = x + L
    OBVIOUS
<1> HIDE DEF up
<1>5. Follows(up, pattern, subj, a + L)
    BY <1>2, <1>3 DEF Follows
<1> QED BY <1>1, <1>4, <1>5 DEF Reads

\* A sequence of a set is one.
LEMMA SeqIsBytes == ASSUME NEW S1, NEW s \in Seq(S1) PROVE IsBytes(s)
<1>1. s \in [1..Len(s) -> S1] /\ Len(s) \in Nat
    BY LenProperties
<1> QED BY <1>1 DEF IsBytes

\* What Consume leaves is behind where the part is, which is at the start for
\* the first.
LEMMA ConsumeIs ==
    ASSUME NEW subj, IsBytes(subj), NEW m \in Nat, m <= Len(subj), NEW part, IsBytes(part), NEW first,
           Consume(SubSeq(subj, m + 1, Len(subj)), part, first) # NoMatch
    PROVE  \E x \in Nat : /\ m <= x /\ x + Len(part) <= Len(subj) /\ (first => x = m)
                          /\ \A k \in 1..Len(part) : subj[x + k] = part[k]
                          /\ Consume(SubSeq(subj, m + 1, Len(subj)), part, first)
                               = SubSeq(subj, x + Len(part) + 1, Len(subj))
<1> DEFINE s == SubSeq(subj, m + 1, Len(subj))
           i == Index(s, part)
           L == Len(part)
<1>1. i >= 0 /\ (first => i = 0) /\ Consume(s, part, first) = SubSeq(s, i + L + 1, Len(s))
    <2>0. IsBytes(s)
        <3>1. m + 1 \in Int /\ Len(subj) \in Int
            BY DEF IsBytes
        <3> QED BY <3>1, SubSeqIs
    <2> HIDE DEF s
    <2>1. Index(s, part) = -1 \/ Index(s, part) \in Nat
        BY <2>0, IndexIs
    <2>2. ~(s = NoMatch \/ Index(s, part) < 0 \/ (first /\ Index(s, part) # 0))
        BY DEF Consume, s
    <2>3. i = Index(s, part)
        OBVIOUS
    <2> HIDE DEF i
    <2>4. i \in Nat /\ (first => i = 0)
        BY <2>1, <2>2, <2>3
    <2>5. Consume(s, part, first) = SubSeq(s, Index(s, part) + Len(part) + 1, Len(s))
        BY <2>2 DEF Consume
    <2> QED BY <2>3, <2>4, <2>5
<1>2. /\ IsBytes(s) /\ Len(s) = Len(subj) - m /\ \A k \in 1..Len(s) : s[k] = subj[m + k]
    <2>1. 0 \in Nat /\ m + 0 <= Len(subj)
        BY DEF IsBytes
    <2> QED BY <2>1, BehindBehind
<1>3. i \in Nat /\ i + L <= Len(s) /\ \A k \in 1..L : s[i + k] = part[k]
    <2> HIDE DEF s
    <2>1. \/ i = -1
          \/ i \in Nat /\ i + L <= Len(s) /\ \A k \in 1..L : s[i + k] = part[k]
        BY <1>2, IndexIs
    <2> QED BY <1>1, <2>1
<1>4. L \in Nat /\ Len(subj) \in Nat
    BY DEF IsBytes
<1> HIDE DEF i
<1>5. SubSeq(s, (i + L) + 1, Len(s)) = SubSeq(subj, m + (i + L) + 1, Len(subj))
    <2>1. i + L \in Nat /\ m + (i + L) <= Len(subj)
        BY <1>2, <1>3, <1>4
    <2> HIDE DEF L
    <2> QED BY <2>1, BehindBehind
<1> HIDE DEF s
<1>6. ASSUME NEW k \in 1..L PROVE subj[(m + i) + k] = part[k]
    <2>1. i + k \in 1..Len(s) /\ m + (i + k) = (m + i) + k
        BY <1>2, <1>3, <1>4
    <2> QED BY <1>2, <1>3, <2>1
<1>7. m + i \in Nat /\ m <= m + i /\ (m + i) + L <= Len(subj) /\ (first => m + i = m)
      /\ m + (i + L) + 1 = (m + i) + L + 1
    BY <1>1, <1>2, <1>3, <1>4
<1> QED BY <1>1, <1>5, <1>6, <1>7 DEF s

\* Where the parts of the first n characters of a pattern end: each before a
\* star, and the last with them.
Splits(parts, pattern, n, ends) ==
    /\ parts \in Seq(Seq(STRING)) /\ Len(parts) >= 1
    /\ ends \in [0..Len(parts) -> Nat] /\ ends[0] = 0 /\ ends[Len(parts)] = n + 1
    /\ \A i \in 1..Len(parts) :
         /\ ends[i] = ends[i - 1] + 1 + Len(parts[i])
         /\ \A k \in 1..Len(parts[i]) : pattern[ends[i - 1] + k] = parts[i][k]
         /\ i < Len(parts) => pattern[ends[i]] = "*"

\* One more character.
LEMMA SplitsMore ==
    ASSUME NEW pattern \in Seq(STRING), NEW n \in Nat, n + 1 <= Len(pattern),
           NEW parts, NEW ends, Splits(parts, pattern, n, ends)
    PROVE  LET m == Len(parts)
               more == IF pattern[n + 1] = "*" THEN Append(parts, << >>)
                       ELSE [parts EXCEPT ![m] = Append(@, pattern[n + 1])]
           IN  \E e : Splits(more, pattern, n + 1, e)
<1> DEFINE c == pattern[n + 1]
           N == Len(parts)
<1>1. N \in Nat /\ N >= 1 /\ parts \in [1..N -> Seq(STRING)] /\ c \in STRING
    <2>1. n + 1 \in 1..Len(pattern)
        OBVIOUS
    <2> QED BY <2>1, LenProperties, ElementOfSeq DEF Splits
<1>2. /\ ends \in [0..N -> Nat] /\ ends[0] = 0 /\ ends[N] = n + 1
      /\ \A i \in 1..N :
           /\ ends[i] = ends[i - 1] + 1 + Len(parts[i])
           /\ \A k \in 1..Len(parts[i]) : pattern[ends[i - 1] + k] = parts[i][k]
           /\ i < N => pattern[ends[i]] = "*"
    BY DEF Splits
<1>0. N = Len(parts) /\ parts \in Seq(Seq(STRING))
    BY DEF Splits
<1> HIDE DEF N
<1>3. CASE c = "*"
    <2> DEFINE e == [i \in 0..(N + 1) |-> IF i <= N THEN ends[i] ELSE n + 2]
               q == Append(parts, << >>)
    <2>1. q \in Seq(Seq(STRING)) /\ Len(q) = N + 1 /\ q[N + 1] = << >> /\ \A i \in 1..N : q[i] = parts[i]
        <3>1. << >> \in Seq(STRING) /\ parts \in Seq(Seq(STRING))
            BY <1>0
        <3> QED BY <1>0, <3>1, AppendProperties
    <2> HIDE DEF q
    <2>2. e \in [0..(N + 1) -> Nat] /\ e[0] = 0 /\ e[N + 1] = n + 2 /\ \A i \in 0..N : e[i] = ends[i]
        <3>1. n + 2 \in Nat /\ N \in Nat /\ ends[0] = 0 /\ \A i \in 0..N : ends[i] \in Nat
            BY <1>1, <1>2
        <3>2. e \in [0..(N + 1) -> Nat]
            BY <3>1
        <3> QED BY <3>1, <3>2
    <2> HIDE DEF e
    <2>3. ASSUME NEW i \in 1..(N + 1)
          PROVE  /\ e[i] = e[i - 1] + 1 + Len(q[i])
                 /\ \A k \in 1..Len(q[i]) : pattern[e[i - 1] + k] = q[i][k]
                 /\ i < N + 1 => pattern[e[i]] = "*"
        <3>1. CASE i = N + 1
            <4>1. Len(q[i]) = 0 /\ e[i] = n + 2 /\ e[i - 1] = n + 1
                BY <1>1, <1>2, <2>1, <2>2, <3>1
            <4> QED BY <3>1, <4>1
        <3>2. CASE i \in 1..N
            <4>0. i \in 0..N /\ i - 1 \in 0..N
                BY <1>1, <3>2
            <4>1. q[i] = parts[i] /\ e[i] = ends[i] /\ e[i - 1] = ends[i - 1]
                BY <2>1, <2>2, <3>2, <4>0
            <4>2. pattern[e[i]] = "*"
                <5>1. CASE i < N
                    BY <1>2, <3>2, <4>1, <5>1
                <5>2. CASE i = N
                    BY <1>2, <1>3, <4>1, <5>2
                <5> QED BY <1>1, <3>2, <5>1, <5>2
            <4> QED BY <1>2, <3>2, <4>1, <4>2
        <3> QED BY <1>1, <3>1, <3>2
    <2>4. Splits(q, pattern, n + 1, e)
        <3>1. Len(q) >= 1 /\ e[N + 1] = (n + 1) + 1
            BY <1>1, <2>1, <2>2
        <3> QED BY <2>1, <2>2, <2>3, <3>1 DEF Splits
    <2> QED BY <1>0, <1>3, <2>4 DEF q
<1>4. CASE c # "*"
    <2> DEFINE e == [ends EXCEPT ![N] = n + 2]
               last == Append(parts[N], c)
               q == [parts EXCEPT ![N] = last]
    <2>1. /\ last \in Seq(STRING) /\ Len(last) = Len(parts[N]) + 1 /\ last[Len(parts[N]) + 1] = c
          /\ Len(parts[N]) \in Nat
          /\ \A k \in 1..Len(parts[N]) : last[k] = parts[N][k]
        <3>1. parts[N] \in Seq(STRING)
            BY <1>1
        <3> DEFINE p == parts[N]
        <3> HIDE DEF p
        <3> QED BY <1>1, <3>1, AppendProperties, LenProperties DEF p
    <2> HIDE DEF last
    <2>2. q \in Seq(Seq(STRING)) /\ Len(q) = N /\ q[N] = last /\ \A i \in 1..N : i # N => q[i] = parts[i]
        <3>1. q \in [1..N -> Seq(STRING)] /\ q[N] = last /\ \A i \in 1..N : i # N => q[i] = parts[i]
            BY <1>1, <2>1
        <3> HIDE DEF q
        <3> DEFINE T == Seq(STRING)
        <3>2. q \in [1..N -> T]
            BY <3>1
        <3> HIDE DEF T
        <3>3. q \in Seq(T)
            BY <1>1, <3>2, SeqDef
        <3>4. Len(q) = N
            BY <1>1, <3>2, <3>3, LenProperties
        <3> QED BY <3>1, <3>3, <3>4 DEF T
    <2> HIDE DEF q
    <2>3. e \in [0..N -> Nat] /\ e[0] = 0 /\ e[N] = n + 2 /\ \A i \in 0..N : i # N => e[i] = ends[i]
        BY <1>1, <1>2
    <2> HIDE DEF e
    <2>4. ASSUME NEW i \in 1..N
          PROVE  /\ e[i] = e[i - 1] + 1 + Len(q[i])
                 /\ \A k \in 1..Len(q[i]) : pattern[e[i - 1] + k] = q[i][k]
                 /\ i < N => pattern[e[i]] = "*"
        <3>1. i - 1 \in 0..N /\ e[i - 1] = ends[i - 1] /\ ends[i - 1] \in Nat
            BY <1>1, <1>2, <2>3
        <3>2. CASE i = N
            <4>1. ends[N] = ends[N - 1] + 1 + Len(parts[N])
                BY <1>1, <1>2
            <4>2. e[i] = e[i - 1] + 1 + Len(q[i])
                <5>1. e[i] = n + 2 /\ e[i - 1] = ends[N - 1] /\ Len(q[i]) = Len(parts[N]) + 1
                    BY <2>1, <2>2, <2>3, <3>1, <3>2
                <5>2. ends[N - 1] \in Nat /\ ends[N] = n + 1 /\ Len(parts[N]) \in Nat
                    BY <1>2, <2>1, <3>1, <3>2
                <5>3. n + 2 = ends[N - 1] + 1 + (Len(parts[N]) + 1)
                    <6> DEFINE a == ends[N - 1]
                               b == Len(parts[N])
                    <6>1. a \in Nat /\ b \in Nat /\ n \in Nat /\ n + 1 = a + 1 + b
                        BY <4>1, <5>2
                    <6> HIDE DEF a, b
                    <6>2. n + 2 = a + 1 + (b + 1)
                        BY <6>1
                    <6> QED BY <6>2 DEF a, b
                <5> QED BY <5>1, <5>3
            <4>3. ASSUME NEW k \in 1..Len(q[i]) PROVE pattern[e[i - 1] + k] = q[i][k]
                <5>1. CASE k \in 1..Len(parts[N])
                    BY <1>2, <2>1, <2>2, <3>1, <3>2, <5>1
                <5>2. CASE k = Len(parts[N]) + 1
                    <6>1. ends[N - 1] + k = n + 1
                        BY <1>1, <1>2, <2>1, <3>1, <3>2, <4>1, <5>2
                    <6> QED BY <2>1, <2>2, <3>1, <3>2, <5>2, <6>1
                <5> QED BY <2>1, <2>2, <3>2, <5>1, <5>2
            <4> QED BY <3>2, <4>2, <4>3
        <3>3. CASE i # N
            <4>1. q[i] = parts[i] /\ e[i] = ends[i]
                BY <2>2, <2>3, <3>3
            <4> QED BY <1>2, <3>1, <3>3, <4>1
        <3> QED BY <3>2, <3>3
    <2>5. Splits(q, pattern, n + 1, e)
        <3>1. Len(q) >= 1 /\ e[N] = (n + 1) + 1
            BY <1>1, <2>2, <2>3
        <3> QED BY <2>2, <2>3, <2>4, <3>1 DEF Splits
    <2>6. q = [parts EXCEPT ![N] = Append(@, c)]
        BY DEF q, last
    <2> QED BY <1>0, <1>4, <2>5, <2>6
<1> QED BY <1>3, <1>4

\* Parts splits a pattern.
LEMMA PartsIs ==
    ASSUME NEW pattern \in Seq(STRING)
    PROVE  \E ends : Splits(Parts(pattern), pattern, Len(pattern), ends)
<1> DEFINE L == Len(pattern)
           More(q, n) == LET m == Len(q)
                          IN  IF pattern[n] = "*" THEN Append(q, << >>)
                              ELSE [q EXCEPT ![m] = Append(@, pattern[n])]
           Is(f) == f = [n \in 0..L |-> IF n = 0 THEN << << >> >> ELSE More(f[n - 1], n)]
           parts == CHOOSE f : Is(f)
           S1 == {q \in Seq(Seq(STRING)) : Len(q) >= 1}
           step == [n \in 1..L |-> [q \in S1 |-> More(q, n)]]
<1>1. L \in Nat
    BY LenProperties
<1>2. ASSUME NEW n \in 1..L, NEW q \in S1 PROVE More(q, n) \in S1
    <2> DEFINE m == Len(q)
    <2>1. m \in Nat /\ m >= 1 /\ q \in [1..m -> Seq(STRING)] /\ pattern[n] \in STRING
          /\ << >> \in Seq(STRING)
        BY LenProperties, ElementOfSeq
    <2>2. Append(q, << >>) \in S1
        <3>1. Append(q, << >>) \in Seq(Seq(STRING)) /\ Len(Append(q, << >>)) = m + 1
            BY <2>1, AppendProperties
        <3> QED BY <2>1, <3>1
    <2> DEFINE last == Append(q[m], pattern[n])
               r == [q EXCEPT ![m] = last]
    <2>3. last \in Seq(STRING)
        <3>1. q[m] \in Seq(STRING)
            BY <2>1
        <3> QED BY <2>1, <3>1, AppendProperties
    <2>4. r \in S1
        <3>1. r \in [1..m -> Seq(STRING)]
            BY <2>1, <2>3
        <3> HIDE DEF r
        <3> DEFINE T == Seq(STRING)
        <3>2. r \in [1..m -> T]
            BY <3>1
        <3> HIDE DEF T, m
        <3>3. r \in Seq(T)
            BY <2>1, <3>2, SeqDef
        <3>4. Len(r) = m
            BY <2>1, <3>2, <3>3, LenProperties
        <3> QED BY <2>1, <3>3, <3>4 DEF T
    <2> QED BY <2>2, <2>4
<1>3. step \in [1..L -> [S1 -> S1]]
    <2> HIDE DEF S1, More
    <2> QED BY <1>2
<1>4. << << >> >> \in S1
    <2>1. << << >> >> \in Seq(Seq(STRING)) /\ Len(<< << >> >>) = 1
        OBVIOUS
    <2> QED BY <2>1
<1>5. PICK f \in [0..L -> S1] : Iterated(f, L, << << >> >>, step)
    <2> HIDE DEF step, S1
    <2> QED BY <1>1, <1>3, <1>4, Iterates
<1>6. \A n \in 1..L : step[n][f[n - 1]] = More(f[n - 1], n)
    <2> HIDE DEF More, S1
    <2> QED BY <1>1
<1>7. Is(f)
    <2> HIDE DEF step, More, S1
    <2>1. \A n \in 0..L : n # 0 => n \in 1..L
        BY <1>1
    <2> QED BY <1>5, <1>6, <2>1 DEF Iterated
<1>8. Is(parts)
    <2> HIDE DEF Is
    <2> QED BY <1>7
<1>9. Parts(pattern) = parts[L]
    BY DEF Parts
<1> HIDE DEF parts, More, step
<1> DEFINE P == {n \in Nat : n <= L => \E e : Splits(parts[n], pattern, n, e)}
<1>10. 0 \in P
    <2> DEFINE e == [i \in 0..1 |-> i]
               q == << << >> >>
    <2>1. parts[0] = q
        BY <1>1, <1>8
    <2>2. q \in Seq(Seq(STRING)) /\ Len(q) = 1 /\ Len(q[1]) = 0
        OBVIOUS
    <2>3. e \in [0..1 -> Nat] /\ e[0] = 0 /\ e[1] = 1
        OBVIOUS
    <2> HIDE DEF q, e
    <2>4. Splits(q, pattern, 0, e)
        BY <2>2, <2>3 DEF Splits
    <2> QED BY <2>1, <2>4
<1>11. ASSUME NEW n \in Nat, n \in P PROVE n + 1 \in P
    <2> SUFFICES ASSUME n + 1 <= L PROVE \E e : Splits(parts[n + 1], pattern, n + 1, e)
        OBVIOUS
    <2>1. PICK e : Splits(parts[n], pattern, n, e)
        BY <1>1, <1>11
    <2>2. parts[n + 1] = More(parts[n], n + 1)
        <3>1. n + 1 \in 0..L /\ n + 1 # 0 /\ (n + 1) - 1 = n
            BY <1>1
        <3> QED BY <1>8, <3>1
    <2>3. n + 1 <= Len(pattern) /\ n \in Nat
        OBVIOUS
    <2> DEFINE q == parts[n]
    <2>4. Splits(q, pattern, n, e)
        BY <2>1
    <2> HIDE DEF q, P
    <2>5. \E h : Splits(More(q, n + 1), pattern, n + 1, h)
        BY ONLY pattern \in Seq(STRING), <2>3, <2>4, SplitsMore DEF More
    <2> QED BY <2>2, <2>5 DEF q
<1>12. L \in P
    <2> HIDE DEF P
    <2> QED BY <1>1, <1>10, <1>11, NaturalsIn
<1> QED BY <1>1, <1>9, <1>12

\* What Consume leaves is a string or none.
LEMMA ConsumeString ==
    ASSUME NEW s \in Seq(STRING) \cup {NoMatch}, NEW part \in Seq(STRING), NEW first
    PROVE  Consume(s, part, first) \in Seq(STRING) \cup {NoMatch}
<1> DEFINE x == Index(s, part)
           a == x + Len(part) + 1
<1>1. CASE s = NoMatch
    BY <1>1 DEF Consume
<1>2. CASE x < 0
    BY <1>2 DEF Consume
<1>3. CASE ~(x < 0) /\ s # NoMatch
    <2>0. s \in Seq(STRING)
        BY <1>3
    <2>1. x \in Nat
        <3>1. \/ x = -1
              \/ x \in Nat
            BY <2>0, SeqIsBytes, IndexIs
        <3> QED BY <1>3, <3>1
    <2> HIDE DEF x
    <2>2. a \in Int /\ Len(s) \in Int /\ a >= 1
        BY <2>0, <2>1, LenProperties
    <2>3. \A i \in a..Len(s) : s[i] \in STRING
        BY <2>0, <2>2, ElementOfSeq
    <2> HIDE DEF a
    <2>4. SubSeq(s, a, Len(s)) \in Seq(STRING)
        BY <2>2, <2>3, SubSeqProperties
    <2> QED BY <2>4 DEF Consume, a, x
<1> QED BY <1>1, <1>2, <1>3

\* The parts but the last that Left consumes are in the subject, in order.
LEMMA LeftIs ==
    ASSUME NEW pattern \in Seq(STRING), NEW subj \in Seq(STRING), NEW parts, NEW ends,
           Splits(parts, pattern, Len(pattern), ends), Len(parts) > 1, Left(parts, subj) # NoMatch
    PROVE  LET a == ends[Len(parts) - 1]
           IN  \E m \in 0..Len(subj) : /\ Reads(pattern, subj, a - 1, m)
                                       /\ Left(parts, subj) = SubSeq(subj, m + 1, Len(subj))
<1> DEFINE L == Len(parts) - 1
           S1 == Seq(STRING) \cup {NoMatch}
           Is(f) == f = [i \in 0..L |-> IF i = 0 THEN subj ELSE Consume(f[i - 1], parts[i], i = 1)]
           left == CHOOSE f : Is(f)
           step == [i \in 1..L |-> [s \in S1 |-> Consume(s, parts[i], i = 1)]]
<1>1. /\ L \in Nat /\ L >= 1 /\ Len(subj) \in Nat /\ IsBytes(subj)
      /\ \A i \in 1..L : parts[i] \in Seq(STRING) /\ IsBytes(parts[i]) /\ Len(parts[i]) \in Nat
    <2>1. Len(parts) \in Nat /\ parts \in [1..Len(parts) -> Seq(STRING)]
        BY LenProperties DEF Splits
    <2>2. \A i \in 1..L : parts[i] \in Seq(STRING)
        BY <2>1
    <2> QED BY <2>1, <2>2, SeqIsBytes, LenProperties
<1>2. step \in [1..L -> [S1 -> S1]]
    <2>1. \A i \in 1..L : \A s \in S1 : Consume(s, parts[i], i = 1) \in S1
        BY <1>1, ConsumeString
    <2> HIDE DEF S1, L
    <2> QED BY <2>1
<1>3. PICK f \in [0..L -> S1] : Iterated(f, L, subj, step)
    <2>1. subj \in S1
        OBVIOUS
    <2> HIDE DEF step, S1, L
    <2> QED BY <1>1, <1>2, <2>1, Iterates
<1>4. Is(f)
    <2>1. \A i \in 0..L : i # 0 => i \in 1..L /\ i - 1 \in 0..L
        BY <1>1
    <2>2. \A i \in 1..L : step[i][f[i - 1]] = Consume(f[i - 1], parts[i], i = 1)
        <3> HIDE DEF S1, L, step
        <3>1. \A i \in 1..L : f[i - 1] \in S1
            <4>1. \A i \in 1..L : i - 1 \in 0..L
                BY <1>1
            <4> QED BY <1>3, <4>1
        <3> USE DEF step
        <3> QED BY <3>1
    <2> HIDE DEF step, S1, L
    <2> QED BY <1>3, <2>1, <2>2 DEF Iterated
<1>5. Is(left)
    <2> HIDE DEF Is
    <2> QED BY <1>4
<1>6. Left(parts, subj) = left[L]
    BY DEF Left
<1> HIDE DEF left, step
<1> DEFINE Found(i, m) == /\ Reads(pattern, subj, ends[i] - 1, m)
                          /\ left[i] = SubSeq(subj, m + 1, Len(subj))
           P == {i \in Nat : i + 1 <= L /\ left[i + 1] # NoMatch =>
                               \E m \in 0..Len(subj) : Found(i + 1, m)}
<1>0. L \in Nat /\ L + 1 = Len(parts) /\ L = Len(parts) - 1
    <2>1. Len(parts) \in Nat
        BY LenProperties DEF Splits
    <2> QED BY <1>1, <2>1
<1> HIDE DEF L, S1
<1>7. ASSUME NEW i \in 1..L
      PROVE  /\ left[i] = Consume(left[i - 1], parts[i], i = 1)
             /\ left[i] # NoMatch => left[i - 1] # NoMatch
    <2>1. left[i] = Consume(left[i - 1], parts[i], i = 1)
        <3>1. i \in 0..L /\ i # 0
            BY <1>0
        <3> QED BY <1>5, <3>1
    <2> QED BY <2>1 DEF Consume
<1>8. /\ ends[0] = 0 /\ \A i \in 1..L : ends[i] = ends[i - 1] + 1 + Len(parts[i])
      /\ \A i \in 0..L : ends[i] \in Nat
      /\ \A i \in 1..L : \A k \in 1..Len(parts[i]) : pattern[ends[i - 1] + k] = parts[i][k]
      /\ \A i \in 1..L : pattern[ends[i]] = "*"
    <2> DEFINE N == Len(parts)
    <2>1. /\ ends \in [0..N -> Nat] /\ ends[0] = 0
          /\ \A i \in 1..N :
               /\ ends[i] = ends[i - 1] + 1 + Len(parts[i])
               /\ \A k \in 1..Len(parts[i]) : pattern[ends[i - 1] + k] = parts[i][k]
               /\ i < N => pattern[ends[i]] = "*"
        BY DEF Splits
    <2>2. N = L + 1
        BY <1>0
    <2> HIDE DEF N
    <2>3. /\ \A i \in 1..L : i \in 1..N /\ i < N
          /\ \A i \in 0..L : i \in 0..N
        BY <1>0, <2>2
    <2> QED BY <2>1, <2>3
<1>9. 0 \in P
    <2> SUFFICES ASSUME left[1] # NoMatch
                 PROVE  \E m \in 0..Len(subj) : Found(1, m)
        OBVIOUS
    <2> DEFINE part == parts[1]
               n == Len(part)
               up == [k \in 0..n |-> k]
    <2>1. left[1] = Consume(SubSeq(subj, 0 + 1, Len(subj)), part, TRUE) /\ IsBytes(part) /\ n \in Nat
        <3>1. left[0] = subj /\ SubSeq(subj, 1, Len(subj)) = subj
            <4>1. left[0] = subj
                <5>1. 0 \in 0..L
                    BY <1>0
                <5> QED BY <1>5, <5>1
            <4> QED BY <4>1, SubSeqFull
        <3>2. 1 \in 1..L /\ 1 - 1 = 0 /\ 0 + 1 = 1
            BY <1>0, <1>1
        <3>3. left[1] = Consume(left[0], part, 1 = 1)
            BY <1>7, <3>2
        <3>4. left[1] = Consume(subj, part, TRUE)
            BY <3>1, <3>3
        <3>5. IsBytes(part) /\ n \in Nat
            BY <1>1, <3>2
        <3> HIDE DEF part
        <3> QED BY <3>1, <3>2, <3>4, <3>5
    <2> HIDE DEF part, P
    <2>3. /\ n <= Len(subj) /\ left[1] = SubSeq(subj, n + 1, Len(subj)) /\ \A k \in 1..n : subj[k] = part[k]
        <3>1. 0 \in Nat /\ 0 <= Len(subj)
            BY <1>1
        <3>2. Consume(SubSeq(subj, 0 + 1, Len(subj)), part, TRUE) # NoMatch
            BY <2>1
        <3>3. \E x \in Nat : /\ 0 <= x /\ x + Len(part) <= Len(subj) /\ (TRUE => x = 0)
                             /\ \A k \in 1..Len(part) : subj[x + k] = part[k]
                             /\ Consume(SubSeq(subj, 0 + 1, Len(subj)), part, TRUE)
                                  = SubSeq(subj, x + Len(part) + 1, Len(subj))
            <4>1. IsBytes(subj) /\ IsBytes(part)
                BY <1>1, <2>1
            <4> QED BY ONLY <3>1, <3>2, <4>1, ConsumeIs
        <3>4. \A k \in 1..n : 0 + k = k
            BY <2>1
        <3>5. 0 + n = n
            BY <2>1
        <3> HIDE DEF n
        <3> QED BY <2>1, <3>3, <3>4, <3>5 DEF n
    <2>4. ends[1] - 1 = n /\ \A k \in 1..n : pattern[k] = part[k]
        <3>1. ends[1] = 0 + 1 + n /\ \A k \in 1..n : pattern[0 + k] = part[k]
            BY <1>1, <1>8 DEF part
        <3> QED BY <2>1, <3>1
    <2>5. up \in [0..n -> 0..Len(subj)] /\ up[n] = n /\ up[0] = 0 /\ \A k \in 1..n : up[k] = k /\ up[k - 1] = k - 1
        BY <1>1, <2>1, <2>3
    <2> HIDE DEF up, n
    <2>6. Follows(up, pattern, subj, n)
        <3> SUFFICES ASSUME NEW k \in 1..n
                     PROVE  IF pattern[k] = "*" THEN up[k] >= up[k - 1]
                            ELSE up[k] = up[k - 1] + 1 /\ subj[up[k]] = pattern[k]
            BY <2>5 DEF Follows
        <3> QED BY <2>1, <2>3, <2>4, <2>5
    <2>7. n \in 0..Len(subj) /\ Found(1, n)
        <3>1. n \in Nat /\ n <= Len(subj)
            BY <2>1, <2>3 DEF n
        <3>2. Reads(pattern, subj, n, n)
            BY <2>5, <2>6 DEF Reads
        <3> QED BY <1>1, <2>3, <2>4, <3>1, <3>2
    <2> HIDE DEF Found
    <2> QED BY <2>7
<1>10. ASSUME NEW i \in Nat, i \in P PROVE i + 1 \in P
    <2> DEFINE j == i + 1
    <2> SUFFICES ASSUME j + 1 <= L, left[j + 1] # NoMatch
                 PROVE  \E m \in 0..Len(subj) : Found(j + 1, m)
        OBVIOUS
    <2>1. j \in 1..L /\ j + 1 \in 1..L /\ (j + 1) - 1 = j /\ j + 1 # 1
        BY <1>1
    <2>2. left[j] # NoMatch
        BY <1>7, <2>1
    <2>3. PICK m \in 0..Len(subj) : Found(j, m)
        <3>1. i + 1 <= L /\ left[i + 1] # NoMatch
            BY <2>1, <2>2
        <3> HIDE DEF Found
        <3> QED BY <1>10, <3>1
    <2> HIDE DEF P, j
    <2> DEFINE part == parts[j + 1]
               a == ends[j]
    <2>4. IsBytes(part) /\ Len(part) \in Nat /\ a \in Nat /\ a > 0 /\ pattern[a] = "*"
          /\ ends[j + 1] - 1 = a + Len(part) /\ \A k \in 1..Len(part) : pattern[a + k] = part[k]
        <3>1. a \in Nat /\ ends[j - 1] \in Nat /\ a = ends[j - 1] + 1 + Len(parts[j])
            BY <1>1, <1>8, <2>1
        <3>2. ends[j + 1] = a + 1 + Len(part) /\ Len(part) \in Nat
            BY <1>1, <1>8, <2>1
        <3>3. a > 0 /\ ends[j + 1] - 1 = a + Len(part)
            <4>1. Len(parts[j]) \in Nat
                BY <1>1, <2>1
            <4> DEFINE b == ends[j - 1]
                       c == Len(parts[j])
                       d == Len(part)
            <4>2. a \in Nat /\ b \in Nat /\ c \in Nat /\ d \in Nat /\ a = b + 1 + c
                BY <3>1, <3>2, <4>1
            <4>3. ends[j + 1] = a + 1 + d
                BY <3>2
            <4> HIDE DEF a, b, c, d
            <4>4. a > 0 /\ (a + 1 + d) - 1 = a + d
                BY <4>2
            <4> QED BY <4>3, <4>4 DEF d
        <3> QED BY <1>1, <1>8, <2>1, <3>1, <3>2, <3>3
    <2>5. left[j + 1] = Consume(SubSeq(subj, m + 1, Len(subj)), part, FALSE)
        <3>1. left[j + 1] = Consume(left[(j + 1) - 1], part, j + 1 = 1)
            BY <1>7, <2>1
        <3>2. (j + 1 = 1) = FALSE /\ left[(j + 1) - 1] = left[j] /\ left[j] = SubSeq(subj, m + 1, Len(subj))
            BY <2>1, <2>3
        <3> HIDE DEF part
        <3> QED BY <3>1, <3>2
    <2> HIDE DEF part
    <2>6. PICK x \in Nat : /\ m <= x /\ x + Len(part) <= Len(subj) /\ (FALSE => x = m)
                           /\ \A k \in 1..Len(part) : subj[x + k] = part[k]
                           /\ left[j + 1] = SubSeq(subj, x + Len(part) + 1, Len(subj))
        <3>1. m \in Nat /\ m <= Len(subj)
            BY <1>1
        <3>2. Consume(SubSeq(subj, m + 1, Len(subj)), part, FALSE) # NoMatch
            BY <2>5
        <3>3. IsBytes(part) /\ IsBytes(subj)
            BY <1>1, <2>4
        <3>4. \E x \in Nat : /\ m <= x /\ x + Len(part) <= Len(subj) /\ (FALSE => x = m)
                             /\ \A k \in 1..Len(part) : subj[x + k] = part[k]
                             /\ Consume(SubSeq(subj, m + 1, Len(subj)), part, FALSE)
                                  = SubSeq(subj, x + Len(part) + 1, Len(subj))
            BY ONLY <3>1, <3>2, <3>3, ConsumeIs
        <3> QED BY <2>5, <3>4
    <2>7. Reads(pattern, subj, a - 1, m)
        BY <2>3
    <2> HIDE DEF a
    <2>8. Reads(pattern, subj, a + Len(part), x + Len(part))
        <3>1. Len(subj) \in Nat
            BY <1>1
        <3>2. PartAt(part, pattern, a) /\ PartAt(part, subj, x)
            BY <2>4, <2>6 DEF PartAt
        <3> QED BY <2>4, <2>6, <2>7, <3>1, <3>2, GoesOn
    <2>9. x + Len(part) \in 0..Len(subj) /\ Found(j + 1, x + Len(part))
        <3>1. x + Len(part) \in 0..Len(subj)
            BY <1>1, <2>4, <2>6
        <3> QED BY <2>4, <2>6, <2>8, <3>1
    <2> HIDE DEF Found
    <2> QED BY <2>9
<1>11. \A i \in Nat : i \in P
    <2> HIDE DEF P
    <2> QED BY <1>9, <1>10, NaturalsIn
<1>12. \E m \in 0..Len(subj) : Found(L, m)
    <2>1. L - 1 \in Nat /\ (L - 1) + 1 = L /\ L <= L
        BY <1>0, <1>1
    <2> HIDE DEF Found
    <2>2. L - 1 \in P
        BY <1>11, <2>1
    <2> QED BY <1>6, <2>1, <2>2
<1> QED BY <1>0, <1>6, <1>12

\* What glob finds to match does: every character of the pattern but a star
\* is in the subject, in order and with nothing between them but at a star.
THEOREM GlobRight ==
    ASSUME NEW pattern \in Seq(STRING), NEW subj \in Seq(STRING), glob(pattern, subj)
    PROVE  Matches(pattern, subj)
<1> DEFINE parts == Parts(pattern)
           N == Len(parts)
           n == Len(pattern)
           last == parts[N]
           left == Left(parts, subj)
<1>1. n \in Nat /\ Len(subj) \in Nat /\ IsBytes(subj) /\ DOMAIN pattern = 1..n
    BY LenProperties, SeqIsBytes
<1>2. CASE N = 1
    <2>1. subj = pattern
        BY <1>2 DEF glob
    <2> DEFINE up == [k \in 0..n |-> k]
    <2>2. up \in [0..n -> 0..Len(subj)] /\ up[0] = 0 /\ up[n] = Len(subj)
          /\ \A k \in 1..n : up[k] = k /\ up[k - 1] = k - 1
        BY <1>1, <2>1
    <2> HIDE DEF up
    <2>3. ASSUME NEW k \in DOMAIN pattern
          PROVE  IF pattern[k] = "*" THEN up[k] >= up[k - 1]
                 ELSE up[k] = up[k - 1] + 1 /\ subj[up[k]] = pattern[k]
        <3>1. k \in 1..n /\ up[k] = k /\ up[k - 1] = k - 1
            BY <1>1, <2>2
        <3> QED BY <2>1, <3>1
    <2> QED BY <2>2, <2>3 DEF Matches
<1>3. CASE N # 1
    <2>1. left # NoMatch /\ HasSuffix(left, last)
        BY <1>3 DEF glob
    <2>2. PICK ends : Splits(parts, pattern, n, ends)
        BY PartsIs
    <2> HIDE DEF parts
    <2>3. N \in Nat /\ N > 1 /\ Len(last) \in Nat
        <3>1. N \in Nat /\ N >= 1 /\ parts \in [1..N -> Seq(STRING)]
            BY <2>2, LenProperties DEF Splits
        <3>2. last \in Seq(STRING)
            BY <3>1
        <3> HIDE DEF last
        <3> QED BY <1>3, <3>1, <3>2, LenProperties
    <2> DEFINE a == ends[N - 1]
               x == Len(subj) - Len(last)
    <2>0. /\ ends \in [0..N -> Nat] /\ ends[N] = n + 1 /\ parts \in [1..N -> Seq(STRING)]
          /\ \A i \in 1..N :
               /\ ends[i] = ends[i - 1] + 1 + Len(parts[i])
               /\ \A k \in 1..Len(parts[i]) : pattern[ends[i - 1] + k] = parts[i][k]
               /\ i < N => pattern[ends[i]] = "*"
        BY <2>2, LenProperties DEF Splits
    <2>4. PICK m \in 0..Len(subj) :
             /\ Reads(pattern, subj, a - 1, m)
             /\ left = SubSeq(subj, m + 1, Len(subj))
        BY <2>1, <2>2, <2>3, LeftIs
    <2>5. a \in Nat /\ a > 0 /\ pattern[a] = "*" /\ a + Len(last) = n
          /\ \A k \in 1..Len(last) : pattern[a + k] = last[k]
        <3> HIDE DEF N
        <3>0. N - 1 \in 1..N /\ N \in 1..N /\ (N - 1) - 1 \in 0..N /\ N - 1 \in 0..N /\ N - 1 < N
            BY <2>3
        <3>1. /\ a \in Nat /\ ends[(N - 1) - 1] \in Nat /\ ends[N] = n + 1 /\ pattern[a] = "*"
              /\ ends[N] = a + 1 + Len(last) /\ \A k \in 1..Len(last) : pattern[a + k] = last[k]
            BY <2>0, <3>0
        <3>2. a = ends[(N - 1) - 1] + 1 + Len(parts[N - 1])
            BY <2>0, <3>0
        <3>3. Len(parts[N - 1]) \in Nat
            BY <2>0, <3>0, LenProperties
        <3> HIDE DEF a, last
        <3>4. a > 0 /\ a + Len(last) = n
            <4> DEFINE b == ends[(N - 1) - 1]
                       c == Len(parts[N - 1])
                       d == Len(last)
            <4>1. a \in Nat /\ b \in Nat /\ c \in Nat /\ d \in Nat /\ a = b + 1 + c /\ n + 1 = a + 1 + d
                BY <2>3, <3>1, <3>2, <3>3
            <4> HIDE DEF a, b, c, d
            <4>2. a > 0 /\ a + d = n
                <5>1. a > 0
                    BY <4>1
                <5>2. a + d = n
                    <6> HIDE DEF n
                    <6> QED BY <1>1, <4>1
                <5> QED BY <5>1, <5>2
            <4> QED BY <4>2 DEF d
        <3> QED BY <3>1, <3>4
    <2> HIDE DEF a, last, N, left
    <2>6. /\ Len(left) = Len(subj) - m /\ \A k \in 1..Len(left) : left[k] = subj[m + k]
        <3>1. m \in Nat /\ 0 \in Nat /\ m + 0 <= Len(subj)
            BY <1>1
        <3> QED BY <1>1, <2>4, <3>1, BehindBehind
    <2>7. /\ x \in Nat /\ m <= x /\ x + Len(last) = Len(subj)
        BY <1>1, <2>1, <2>3, <2>6 DEF HasSuffix
    <2>8. ASSUME NEW k \in 1..Len(last) PROVE subj[x + k] = last[k]
        <3> DEFINE b == Len(left) - Len(last)
        <3>1. b \in Nat /\ b + 1 \in Int /\ Len(left) \in Int /\ last = SubSeq(left, b + 1, Len(left))
              /\ b + k \in 1..Len(left) /\ (b + 1) + k - 1 = b + k /\ m + (b + k) = x + k
            BY <1>1, <2>1, <2>3, <2>6, <2>7 DEF HasSuffix
        <3> HIDE DEF b
        <3>2. last[k] = left[(b + 1) + k - 1]
            BY <3>1, SubSeqIs
        <3> QED BY <2>6, <3>1, <3>2
    <2>9. Reads(pattern, subj, a + Len(last), x + Len(last))
        <3> HIDE DEF x
        <3>1. m \in Nat /\ m <= x /\ x + Len(last) <= Len(subj)
            BY <1>1, <2>4, <2>7
        <3>2. Len(subj) \in Nat
            BY <1>1
        <3>3. PartAt(last, pattern, a) /\ PartAt(last, subj, x)
            BY <2>5, <2>8 DEF PartAt
        <3> QED BY <2>3, <2>4, <2>5, <2>7, <3>1, <3>2, <3>3, GoesOn
    <2>10. Reads(pattern, subj, n, Len(subj))
        BY <2>5, <2>7, <2>9
    <2> QED BY <1>1, <2>10 DEF Matches, Reads, Follows
<1> QED BY <1>2, <1>3

=============================================================================
