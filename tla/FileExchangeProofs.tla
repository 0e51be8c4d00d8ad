-------------------------- MODULE FileExchangeProofs -------------------------
(***************************************************************************)
(* That the protocol files are read as they were written, that whatever is *)
(* accepted fits the classes that hold it and can be passed on, and that   *)
(* no file is accepted that was cut or extended.                           *)
(*                                                                         *)
(* What reads a field is characterised by three predicates: Local, it does *)
(* not look behind its bytes; Yields, what it gives; and Reads, it reads   *)
(* what was written as what it stood for.  They hold of numbers, codes,    *)
(* strings and ratios, pass to records (InOrder) and lists (ListOf), and   *)
(* so to every kind of file.                                               *)
(***************************************************************************)
EXTENDS FileExchange, FiniteSetTheorems, WellFoundedInduction, SequenceTheorems,
        TLAPS

(* Induction over the natural numbers for a set: the library states it for *)
(* a predicate.                                                            *)
LEMMA Induct ==
  ASSUME NEW S, 0 \in S, \A n \in Nat : n \in S => n + 1 \in S
  PROVE  Nat \subseteq S
<1> SUFFICES ASSUME Nat \ S # {} PROVE FALSE
  OBVIOUS
<1> DEFINE R == OpToRel(<, Nat)
<1>1. IsWellFoundedOn(R, Nat)
  BY NatLessThanWellFounded
<1>2. \E n \in Nat \ S : \A m \in Nat \ S : <<m, n>> \notin R
  <2> HIDE DEF R
  <2> QED BY <1>1, WFMin
<1>3. PICK n \in Nat \ S : \A m \in Nat \ S : <<m, n>> \notin R
  BY <1>2
<1>4. \A m \in Nat : m < n => <<m, n>> \in R
  BY DEF OpToRel
<1>5. n # 0 /\ n - 1 \in Nat /\ n - 1 < n /\ (n - 1) + 1 = n
  OBVIOUS
<1>6. n - 1 \in S
  BY <1>3, <1>4, <1>5
<1> QED
  BY <1>5, <1>6

(* The function by which FlattenSeq is defined exists.                     *)
LEMMA Flattening ==
  ASSUME NEW seqs, Len(seqs) \in Nat
  PROVE  \E flatten : flatten =
           [i \in 1 .. Len(seqs) |->
             IF i = 1 THEN seqs[i] ELSE flatten[i - 1] \o seqs[i]]
<1> DEFINE N == Len(seqs)
           G(i, h) == IF i = 1 THEN seqs[i] ELSE h \o seqs[i]
           Good(k, f) == f = [i \in 1 .. k |-> G(i, f[i - 1])]
           S == {k \in Nat : \E f : Good(k, f)}
<1>1. 0 \in S
  <2> DEFINE f == [i \in 1 .. 0 |-> 0]
  <2> HIDE DEF G
  <2>1. Good(0, f)
    OBVIOUS
  <2> QED BY <2>1
<1>2. ASSUME NEW k \in Nat, k \in S PROVE k + 1 \in S
  <2>1. PICK g : Good(k, g)
    BY <1>2
  <2> DEFINE f == [i \in 1 .. k + 1 |->
                     IF i = k + 1 THEN G(i, g[i - 1]) ELSE g[i]]
  <2>2. ASSUME NEW i \in 1 .. k + 1 PROVE f[i] = G(i, f[i - 1])
    <3>1. CASE i = 1
      <4>1. \A h : G(i, h) = seqs[i]
        BY <3>1
      <4> HIDE DEF G
      <4>2. CASE k = 0
        BY <3>1, <4>1, <4>2
      <4>3. CASE k # 0
        <5>1. i \in 1 .. k /\ i # k + 1
          BY <3>1, <4>3
        <5>2. g[i] = G(i, g[i - 1])
          BY <2>1, <5>1
        <5> QED BY <5>1, <5>2, <4>1
      <4> QED BY <4>2, <4>3
    <3>2. CASE i # 1
      <4>1. i - 1 \in 1 .. k + 1 /\ i - 1 # k + 1
        BY <3>2
      <4>2. f[i - 1] = g[i - 1]
        BY <4>1
      <4> HIDE DEF G
      <4>3. CASE i = k + 1
        BY <4>2, <4>3
      <4>4. CASE i # k + 1
        <5>1. i \in 1 .. k
          BY <4>4
        <5>2. g[i] = G(i, g[i - 1])
          BY <2>1, <5>1
        <5> QED BY <4>2, <4>4, <5>2
      <4> QED BY <4>3, <4>4
    <3> QED BY <3>1, <3>2
  <2> HIDE DEF G
  <2>3. Good(k + 1, f)
    BY <2>2
  <2>4. k + 1 \in Nat /\ \E h : Good(k + 1, h)
    <3> HIDE DEF Good, f
    <3> QED BY <2>3
  <2> QED BY <2>4
<1>3. \E f : Good(N, f)
  <2> HIDE DEF Good
  <2>1. Nat \subseteq S
    <3> HIDE DEF S
    <3> QED BY <1>1, <1>2, Induct
  <2> QED BY <2>1
<1> QED
  BY <1>3

(* What FlattenSeq is.                                                     *)
LEMMA FlattenIs ==
  ASSUME NEW seqs, Len(seqs) \in Nat \ {0}
  PROVE  \E flatten :
           /\ flatten = [i \in 1 .. Len(seqs) |->
                IF i = 1 THEN seqs[i] ELSE flatten[i - 1] \o seqs[i]]
           /\ FlattenSeq(seqs) = flatten[Len(seqs)]
<1>1. Len(seqs) # 0 /\ Len(seqs) \in Nat
  OBVIOUS
<1> QED
  BY <1>1, Flattening, Zenon DEF FlattenSeq

(* Nothing written one behind the other is nothing.                        *)
LEMMA FlattenEmpty == FlattenSeq(<<>>) = <<>>
BY DEF FlattenSeq

(* Bytes behind bytes.                                                     *)
LEMMA Joins ==
  /\ \A a, b \in Bytes : a \o b \in Bytes /\ Len(a \o b) = Len(a) + Len(b)
  /\ \A a, b, c \in Bytes : (a \o b) \o c = a \o (b \o c)
  /\ \A a \in Bytes : a \o <<>> = a /\ <<>> \o a = a /\ Len(a) \in Nat
  /\ <<>> \in Bytes
<1>1. ASSUME NEW a \in Bytes, NEW b \in Bytes
      PROVE  a \o b \in Bytes /\ Len(a \o b) = Len(a) + Len(b)
  BY ConcatProperties DEF Bytes
<1>2. ASSUME NEW a \in Bytes, NEW b \in Bytes, NEW c \in Bytes
      PROVE  (a \o b) \o c = a \o (b \o c)
  BY ConcatAssociative DEF Bytes
<1>3. ASSUME NEW a \in Bytes
      PROVE  a \o <<>> = a /\ <<>> \o a = a /\ Len(a) \in Nat
  BY ConcatEmptySeq DEF Bytes
<1>4. <<>> \in Bytes
  BY EmptySeq DEF Bytes
<1> QED
  BY <1>1, <1>2, <1>3, <1>4

(* The same for two sequences of bytes that are named.                     *)
LEMMA Join ==
  ASSUME NEW a \in Bytes, NEW b \in Bytes
  PROVE  /\ a \o b \in Bytes /\ Len(a \o b) = Len(a) + Len(b)
         /\ Len(a) \in Nat /\ Len(b) \in Nat
BY Joins

(* What is appended to the parts is written behind them.                   *)
LEMMA FlattenAppend ==
  ASSUME NEW ss \in Seq(Bytes), NEW s \in Bytes
  PROVE  /\ FlattenSeq(ss) \in Bytes
         /\ FlattenSeq(Append(ss, s)) = FlattenSeq(ss) \o s
<1> DEFINE N == Len(ss)
           all == Append(ss, s)
<1>1. /\ N \in Nat /\ Len(all) = N + 1 /\ all[N + 1] = s
      /\ \A i \in 1 .. N : all[i] = ss[i] /\ ss[i] \in Bytes
  BY AppendProperties, ElementOfSeq, LenProperties
<1>2. PICK g : /\ g = [i \in 1 .. Len(all) |->
                         IF i = 1 THEN all[i] ELSE g[i - 1] \o all[i]]
               /\ FlattenSeq(all) = g[Len(all)]
  <2> HIDE DEF all
  <2>1. Len(all) \in Nat \ {0}
    BY <1>1
  <2> QED BY <2>1, FlattenIs
<1> HIDE DEF all
<1>3. \A i \in 1 .. N + 1 : g[i] = IF i = 1 THEN all[i] ELSE g[i - 1] \o all[i]
  BY <1>1, <1>2
<1>4. CASE N = 0
  <2>1. ss = <<>>
    BY <1>4, EmptySeq
  <2>2. FlattenSeq(all) = s
    <3>1. 1 \in 1 .. N + 1 /\ N + 1 = 1
      BY <1>4
    <3> QED BY <1>1, <1>2, <1>3, <3>1
  <2>3. FlattenSeq(ss) = <<>>
    BY <2>1, FlattenEmpty
  <2> QED BY <2>2, <2>3, Joins DEF all
<1>5. CASE N # 0
  <2>0. Len(ss) \in Nat \ {0}
    BY <1>1, <1>5
  <2>1. PICK f : /\ f = [i \in 1 .. N |->
                         IF i = 1 THEN ss[i] ELSE f[i - 1] \o ss[i]]
                 /\ FlattenSeq(ss) = f[N]
    BY <2>0, FlattenIs
  <2>2. \A i \in 1 .. N : f[i] = IF i = 1 THEN ss[i] ELSE f[i - 1] \o ss[i]
    BY <1>1, <2>1
  <2> HIDE DEF N
  <2> DEFINE Same(i) == f[i] = g[i] /\ f[i] \in Bytes
             T == {k \in Nat : k + 1 <= N => Same(k + 1)}
  <2>3. 0 \in T
    <3> SUFFICES ASSUME 0 + 1 <= N PROVE Same(1)
      OBVIOUS
    <3>1. 1 \in 1 .. N /\ 1 \in 1 .. N + 1
      BY <1>1
    <3>2. f[1] = ss[1] /\ g[1] = all[1]
      BY <1>3, <2>2, <3>1
    <3> QED BY <1>1, <3>1, <3>2
  <2>4. ASSUME NEW k \in Nat, k \in T PROVE k + 1 \in T
    <3> DEFINE i == k + 2
    <3> SUFFICES ASSUME i <= N PROVE Same(i)
      OBVIOUS
    <3>1. /\ i \in 1 .. N /\ i # 1 /\ i - 1 = k + 1 /\ i \in 1 .. N + 1
          /\ k + 1 <= N
      BY <1>1
    <3>2. f[k + 1] = g[k + 1] /\ f[k + 1] \in Bytes
      BY <2>4, <3>1
    <3> HIDE DEF i
    <3>3. f[i] = f[k + 1] \o ss[i]
      BY <2>2, <3>1
    <3>4. g[i] = g[k + 1] \o ss[i]
      BY <1>1, <1>3, <3>1
    <3>5. ss[i] \in Bytes
      BY <1>1, <3>1
    <3> QED BY <3>2, <3>3, <3>4, <3>5, Joins
  <2>5. Same(N)
    <3>1. Nat \subseteq T
      <4> HIDE DEF T
      <4> QED BY <2>3, <2>4, Induct
    <3>2. N - 1 \in Nat /\ (N - 1) + 1 = N
      BY <1>1, <1>5
    <3>3. N - 1 \in T
      BY <3>1, <3>2
    <3>4. (N - 1) + 1 <= N => Same((N - 1) + 1)
      <4> HIDE DEF Same
      <4> QED BY <3>3
    <3> QED BY <1>1, <3>2, <3>4
  <2>6. g[N + 1] = g[N] \o s
    <3>1. N + 1 \in 1 .. N + 1 /\ N + 1 # 1 /\ (N + 1) - 1 = N
      BY <1>1, <1>5
    <3> QED BY <1>1, <1>3, <3>1
  <2>7. FlattenSeq(ss) = f[N] /\ FlattenSeq(Append(ss, s)) = g[N + 1]
    BY <1>1, <1>2, <2>1 DEF all
  <2> QED BY <2>5, <2>6, <2>7
<1> QED
  BY <1>4, <1>5

(* Appending to the second of two sequences is appending to both.          *)
LEMMA AppendBehind ==
  ASSUME NEW S, NEW s \in Seq(S), NEW t \in Seq(S), NEW e \in S
  PROVE  s \o Append(t, e) = Append(s \o t, e)
<1>1. Append(t, e) = t \o <<e>> /\ <<e>> \in Seq(S)
  BY AppendIsConcat
<1>2. s \o t \in Seq(S)
  OBVIOUS
<1>3. Append(s \o t, e) = (s \o t) \o <<e>>
  BY <1>2, AppendIsConcat
<1> QED
  BY <1>1, <1>3, ConcatAssociative

(* The first part is written before the others.                            *)
LEMMA FlattenCons ==
  ASSUME NEW ss \in Seq(Bytes), NEW s \in Bytes
  PROVE  FlattenSeq(<<s>> \o ss) = s \o FlattenSeq(ss)
<1> DEFINE Splits(tt) == FlattenSeq(<<s>> \o tt) = s \o FlattenSeq(tt)
           T == {n \in Nat : \A tt \in Seq(Bytes) : Len(tt) = n => Splits(tt)}
<1>0. <<s>> \in Seq(Bytes)
  OBVIOUS
<1>1. Splits(<<>>)
  <2>1. <<s>> \o <<>> = Append(<<>>, s) /\ <<>> \in Seq(Bytes)
    BY <1>0, ConcatEmptySeq, EmptySeq
  <2>2. FlattenSeq(<<s>> \o <<>>) = <<>> \o s
    BY <2>1, FlattenAppend, FlattenEmpty
  <2> QED BY <2>2, FlattenEmpty, Joins
<1>2. ASSUME NEW pp \in Seq(Bytes), NEW e \in Bytes, Splits(pp)
      PROVE  Splits(Append(pp, e))
  <2>1. <<s>> \o pp \in Seq(Bytes)
    BY <1>0, ConcatProperties
  <2>2. <<s>> \o Append(pp, e) = Append(<<s>> \o pp, e)
    BY <1>0, AppendBehind
  <2>3. FlattenSeq(<<s>> \o Append(pp, e)) = FlattenSeq(<<s>> \o pp) \o e
    BY <2>1, <2>2, FlattenAppend
  <2>4. FlattenSeq(<<s>> \o pp) = s \o FlattenSeq(pp)
    BY <1>2
  <2>5. FlattenSeq(pp) \in Bytes
    BY FlattenAppend
  <2>6. FlattenSeq(Append(pp, e)) = FlattenSeq(pp) \o e
    BY FlattenAppend
  <2>7. (s \o FlattenSeq(pp)) \o e = s \o (FlattenSeq(pp) \o e)
    BY <2>5, Joins
  <2> QED BY <2>3, <2>4, <2>6, <2>7
<1> HIDE DEF Splits
<1>3. 0 \in T
  BY <1>1, EmptySeq
<1>4. ASSUME NEW k \in Nat, k \in T PROVE k + 1 \in T
  <2> SUFFICES ASSUME NEW tt \in Seq(Bytes), Len(tt) = k + 1 PROVE Splits(tt)
    OBVIOUS
  <2>1. tt # <<>>
    BY EmptySeq
  <2>2. PICK pp \in Seq(Bytes), e \in Bytes : tt = Append(pp, e)
    BY <2>1, SequenceEmptyOrAppend
  <2>3. Len(pp) = k
    BY <2>2, AppendProperties, LenProperties
  <2> QED BY <1>2, <1>4, <2>2, <2>3
<1>5. Nat \subseteq T
  <2> HIDE DEF T
  <2> QED BY <1>3, <1>4, Induct
<1>6. Len(ss) \in T
  BY <1>5, LenProperties
<1> QED BY <1>6 DEF Splits

(* The function by which InOrder is defined exists: it is given from the   *)
(* last field to the first.                                                *)
LEMMA FromExists ==
  ASSUME NEW fields, Len(fields) \in Nat
  PROVE  \E from : from =
           [i \in 1 .. Len(fields) + 1 |->
             [b \in Bytes |->
               IF i > Len(fields) THEN Got(<<>>, b)
               ELSE Followed(fields[i][b], from[i + 1])]]
<1> DEFINE N == Len(fields)
           G(i, h) == [b \in Bytes |-> IF i > N THEN Got(<<>>, b)
                                       ELSE Followed(fields[i][b], h)]
           Good(k, f) == f = [i \in N + 1 - k .. N + 1 |-> G(i, f[i + 1])]
           S == {k \in Nat : k <= N => \E f : Good(k, f)}
<1>1. 0 \in S
  <2> DEFINE f == [i \in N + 1 .. N + 1 |-> [b \in Bytes |-> Got(<<>>, b)]]
  <2>1. \A i \in N + 1 .. N + 1 : i > N /\ G(i, f[i + 1]) = [b \in Bytes |-> Got(<<>>, b)]
    OBVIOUS
  <2>2. N + 1 - 0 = N + 1
    OBVIOUS
  <2>3. Good(0, f)
    <3> HIDE DEF G
    <3> QED BY <2>1, <2>2
  <2> QED BY <2>3
<1>2. ASSUME NEW k \in Nat, k \in S PROVE k + 1 \in S
  <2> SUFFICES ASSUME k + 1 <= N PROVE \E f : Good(k + 1, f)
    OBVIOUS
  <2>1. PICK g : Good(k, g)
    BY <1>2
  <2> DEFINE f == [i \in N + 1 - (k + 1) .. N + 1 |->
                     IF i = N - k THEN G(i, g[i + 1]) ELSE g[i]]
  <2> HIDE DEF G
  <2>2. ASSUME NEW i \in N + 1 - (k + 1) .. N + 1, i <= N PROVE f[i + 1] = g[i + 1]
    <3>1. i + 1 \in N + 1 - (k + 1) .. N + 1 /\ i + 1 # N - k
      BY <2>2
    <3> QED BY <3>1
  <2>3. ASSUME NEW i \in N + 1 - (k + 1) .. N + 1 PROVE f[i] = G(i, f[i + 1])
    <3>1. CASE i = N - k
      BY <2>2, <3>1
    <3>2. CASE i # N - k /\ i <= N
      <4>1. i \in N + 1 - k .. N + 1
        BY <3>2
      <4>2. g[i] = G(i, g[i + 1])
        BY <2>1, <4>1
      <4>3. f[i] = g[i]
        BY <3>2
      <4> QED BY <2>2, <3>2, <4>2, <4>3
    <3>3. CASE i = N + 1
      <4>0. i \in N + 1 - k .. N + 1 /\ i # N - k
        BY <3>3
      <4>1. g[i] = G(i, g[i + 1]) /\ f[i] = g[i]
        BY <2>1, <4>0
      <4>2. \A h : G(i, h) = [b \in Bytes |-> Got(<<>>, b)]
        BY <3>3 DEF G
      <4>3. G(i, g[i + 1]) = G(i, f[i + 1])
        BY <4>2
      <4> QED BY <4>1, <4>3
    <3> QED BY <3>1, <3>2, <3>3
  <2>4. Good(k + 1, f)
    BY <2>3
  <2> QED BY <2>4
<1>3. \E f : Good(N, f)
  <2> HIDE DEF Good
  <2>1. Nat \subseteq S
    <3> HIDE DEF S
    <3> QED BY <1>1, <1>2, Induct
  <2> QED BY <2>1
<1> QED
  BY <1>3

(* What InOrder is.                                                        *)
LEMMA InOrderIs ==
  ASSUME NEW fields, Len(fields) \in Nat
  PROVE  \E from :
           /\ from =
                [i \in 1 .. Len(fields) + 1 |->
                  [b \in Bytes |->
                    IF i > Len(fields) THEN Got(<<>>, b)
                    ELSE Followed(fields[i][b], from[i + 1])]]
           /\ InOrder(fields) = from[1]
<1> DEFINE Given(from) ==
             from = [i \in 1 .. Len(fields) + 1 |->
                      [b \in Bytes |->
                        IF i > Len(fields) THEN Got(<<>>, b)
                        ELSE Followed(fields[i][b], from[i + 1])]]
           chosen == CHOOSE from : Given(from)
<1>1. \E from : Given(from)
  BY FromExists
<1>2. Given(chosen)
  <2> HIDE DEF Given
  <2> QED BY <1>1
<1>3. InOrder(fields) = chosen[1]
  BY DEF InOrder
<1> HIDE DEF chosen
<1> QED BY <1>2, <1>3

-----------------------------------------------------------------------------
(* The bytes of a sequence stay where they are, whatever stands behind it. *)
LEMMA Parts ==
  ASSUME NEW a \in Bytes, NEW t \in Bytes
  PROVE  /\ \A i \in 1 .. Len(a) : (a \o t)[i] = a[i] /\ a[i] \in Byte
         /\ \A n \in 0 .. Len(a) :
              /\ Behind(a, n) \in Bytes
              /\ Len(Behind(a, n)) = Len(a) - n
              /\ Behind(a \o t, n) = Behind(a, n) \o t
         /\ \A m \in Nat \ {0}, n \in 0 .. Len(a) :
              /\ SubSeq(a \o t, m, n) = SubSeq(a, m, n)
              /\ SubSeq(a, m, n) \in Bytes
              /\ Len(SubSeq(a, m, n)) = IF m <= n THEN n - m + 1 ELSE 0
         /\ Behind(a \o t, Len(a)) = t
         /\ SubSeq(a \o t, 1, Len(a)) = a
<1> DEFINE at == a \o t
<1>1. /\ Len(a) \in Nat /\ Len(t) \in Nat /\ Len(at) = Len(a) + Len(t)
      /\ at \in Seq(Byte) /\ a \in Seq(Byte) /\ t \in Seq(Byte)
      /\ \A i \in 1 .. Len(a) + Len(t) :
           at[i] = IF i <= Len(a) THEN a[i] ELSE t[i - Len(a)]
      /\ \A i \in 1 .. Len(a) : a[i] \in Byte
      /\ \A i \in 1 .. Len(at) : at[i] \in Byte
  BY ConcatProperties, ElementOfSeq, LenProperties DEF Bytes
<1> HIDE DEF at
<1>0. /\ Len(a) \in Nat /\ Len(t) \in Nat /\ Len(at) = Len(a) + Len(t)
      /\ at \in Seq(Byte) /\ a \in Seq(Byte) /\ t \in Seq(Byte)
  BY <1>1
<1>2. ASSUME NEW m \in Nat \ {0}, NEW n \in 0 .. Len(a)
      PROVE  /\ SubSeq(a, m, n) \in Seq(Byte)
             /\ Len(SubSeq(a, m, n)) = IF m <= n THEN n - m + 1 ELSE 0
             /\ \A i \in 1 .. n - m + 1 : SubSeq(a, m, n)[i] = a[m + i - 1]
  <2>1. \A i \in m .. n : a[i] \in Byte
    BY <1>1
  <2> QED BY <2>1, SubSeqProperties
<1>3. ASSUME NEW m \in Nat \ {0}, NEW n \in 0 .. Len(at)
      PROVE  /\ SubSeq(at, m, n) \in Seq(Byte)
             /\ Len(SubSeq(at, m, n)) = IF m <= n THEN n - m + 1 ELSE 0
             /\ \A i \in 1 .. n - m + 1 : SubSeq(at, m, n)[i] = at[m + i - 1]
  <2>1. \A i \in m .. n : at[i] \in Byte
    BY <1>1
  <2> QED BY <2>1, SubSeqProperties
<1>4. ASSUME NEW m \in Nat \ {0}, NEW n \in 0 .. Len(a)
      PROVE  SubSeq(at, m, n) = SubSeq(a, m, n)
  <2>1. n \in 0 .. Len(at)
    BY <1>1
  <2>2. Len(SubSeq(at, m, n)) = Len(SubSeq(a, m, n))
    BY <1>2, <1>3, <2>1
  <2>3. ASSUME NEW i \in 1 .. Len(SubSeq(at, m, n))
        PROVE  SubSeq(at, m, n)[i] = SubSeq(a, m, n)[i]
    <3>1. i \in 1 .. n - m + 1
      BY <1>3, <2>1
    <3>2. SubSeq(at, m, n)[i] = at[m + i - 1] /\ SubSeq(a, m, n)[i] = a[m + i - 1]
      BY <1>2, <1>3, <2>1, <3>1
    <3>3. m + i - 1 \in 1 .. Len(a)
      BY <1>1, <3>1
    <3> QED BY <1>1, <3>2, <3>3
  <2>4. SubSeq(at, m, n) \in Seq(Byte) /\ SubSeq(a, m, n) \in Seq(Byte)
    BY <1>2, <1>3, <2>1
  <2> QED BY <2>2, <2>3, <2>4, SeqEqual
<1>5. ASSUME NEW n \in 0 .. Len(a)
      PROVE  /\ Behind(a, n) \in Seq(Byte)
             /\ Len(Behind(a, n)) = Len(a) - n
             /\ Behind(at, n) = Behind(a, n) \o t
  <2>1. /\ n + 1 \in Nat \ {0} /\ Len(a) \in 0 .. Len(a)
        /\ Len(at) \in 0 .. Len(at)
    BY <1>1
  <2>2. /\ Behind(a, n) \in Seq(Byte)
        /\ Len(Behind(a, n)) = Len(a) - n
        /\ \A i \in 1 .. Len(a) - n : Behind(a, n)[i] = a[n + i]
    BY <1>1, <1>2, <2>1 DEF Behind
  <2>3. /\ Behind(at, n) \in Seq(Byte)
        /\ Len(Behind(at, n)) = Len(at) - n
        /\ \A i \in 1 .. Len(at) - n : Behind(at, n)[i] = at[n + i]
    BY <1>1, <1>3, <2>1 DEF Behind
  <2> DEFINE left == Behind(a, n)
             all == Behind(at, n)
             k == Len(a) - n
  <2>4. /\ left \in Seq(Byte) /\ Len(left) = k /\ k \in Nat
        /\ all \in Seq(Byte) /\ Len(all) = k + Len(t)
        /\ \A i \in 1 .. k : left[i] = a[n + i]
        /\ \A i \in 1 .. k + Len(t) : all[i] = at[n + i]
    BY <1>1, <2>2, <2>3
  <2> HIDE DEF left, all
  <2>5. /\ left \o t \in Seq(Byte) /\ Len(left \o t) = k + Len(t)
        /\ \A i \in 1 .. k + Len(t) :
             (left \o t)[i] = IF i <= k THEN left[i] ELSE t[i - k]
    <3>1. Len(left \o t) = Len(left) + Len(t)
      BY <1>0, <2>4, ConcatProperties
    <3>2. left \o t \in Seq(Byte)
      BY <1>0, <2>4, ConcatProperties
    <3>3. \A i \in 1 .. Len(left) + Len(t) : (left \o t)[i] =
            IF i <= Len(left) THEN left[i] ELSE t[i - Len(left)]
      BY <1>0, <2>4, ConcatProperties
    <3> QED BY <2>4, <3>1, <3>2, <3>3
  <2>6. ASSUME NEW i \in 1 .. k + Len(t) PROVE (left \o t)[i] = all[i]
    <3>1. n + i \in 1 .. Len(a) + Len(t)
      BY <1>0
    <3>4. all[i] = at[n + i]
      BY <2>4
    <3>2. CASE i <= k
      <4>1. n + i <= Len(a) /\ i \in 1 .. k
        BY <1>1, <3>2
      <4> QED BY <1>1, <2>4, <2>5, <3>1, <3>4, <4>1
    <3>3. CASE ~(i <= k)
      <4>1. ~(n + i <= Len(a)) /\ (n + i) - Len(a) = i - k
        BY <1>1, <3>3
      <4> QED BY <1>1, <2>5, <3>1, <3>3, <3>4, <4>1
    <3> QED BY <3>2, <3>3
  <2>7. left \o t = all
    BY <2>4, <2>5, <2>6, SeqEqual
  <2> QED BY <2>2, <2>7 DEF left, all
<1>6. Behind(at, Len(a)) = t
  <2>1. Len(a) \in 0 .. Len(a)
    BY <1>1
  <2>2. Behind(a, Len(a)) = <<>>
    BY <1>1, SubSeqEmpty DEF Behind
  <2> QED BY <1>5, <2>1, <2>2, Joins
<1>7. SubSeq(at, 1, Len(a)) = a
  BY <1>1, <1>4, SubSeqFull
<1>8. /\ \A n \in 0 .. Len(a) :
           /\ Behind(a, n) \in Bytes
           /\ Len(Behind(a, n)) = Len(a) - n
           /\ Behind(at, n) = Behind(a, n) \o t
      /\ \A m \in Nat \ {0}, n \in 0 .. Len(a) :
           /\ SubSeq(at, m, n) = SubSeq(a, m, n)
           /\ SubSeq(a, m, n) \in Bytes
           /\ Len(SubSeq(a, m, n)) = IF m <= n THEN n - m + 1 ELSE 0
  BY <1>2, <1>4, <1>5 DEF Bytes
<1>9. \A i \in 1 .. Len(a) : at[i] = a[i] /\ a[i] \in Byte
  BY <1>1
<1> QED
  BY <1>6, <1>7, <1>8, <1>9 DEF at

(* Induction from the last index to the first.                             *)
LEMMA Downward ==
  ASSUME NEW N \in Nat, NEW S, N + 1 \in S,
         \A i \in 1 .. N : i + 1 \in S => i \in S
  PROVE  1 \in S
<1> DEFINE T == {k \in Nat : k <= N => N + 1 - k \in S}
<1>1. 0 \in T
  OBVIOUS
<1>2. ASSUME NEW k \in Nat, k \in T PROVE k + 1 \in T
  <2> SUFFICES ASSUME k + 1 <= N PROVE N + 1 - (k + 1) \in S
    OBVIOUS
  <2>1. N + 1 - k \in S
    BY <1>2
  <2>2. N + 1 - (k + 1) \in 1 .. N /\ (N + 1 - (k + 1)) + 1 = N + 1 - k
    OBVIOUS
  <2> QED BY <2>1, <2>2
<1>3. N \in T
  <2> HIDE DEF T
  <2> QED BY <1>1, <1>2, Induct
<1>4. N + 1 - N = 1
  OBVIOUS
<1> QED BY <1>3, <1>4

(* The bytes behind the n-th, with more bytes at the end.                  *)
LEMMA PartBehind ==
  ASSUME NEW a \in Bytes, NEW t \in Bytes, NEW n \in 0 .. Len(a)
  PROVE  /\ Behind(a, n) \in Bytes /\ Len(Behind(a, n)) = Len(a) - n
         /\ Behind(a \o t, n) = Behind(a, n) \o t
BY Parts

(* Bytes from the middle, with more bytes at the end.                      *)
LEMMA PartSub ==
  ASSUME NEW a \in Bytes, NEW t \in Bytes, NEW m \in Nat \ {0},
         NEW n \in 0 .. Len(a)
  PROVE  /\ SubSeq(a \o t, m, n) = SubSeq(a, m, n)
         /\ SubSeq(a, m, n) \in Bytes
         /\ Len(SubSeq(a, m, n)) = IF m <= n THEN n - m + 1 ELSE 0
BY Parts

(* The two parts of bytes behind bytes.                                    *)
LEMMA PartFront ==
  ASSUME NEW a \in Bytes, NEW t \in Bytes
  PROVE  /\ Behind(a \o t, Len(a)) = t
         /\ SubSeq(a \o t, 1, Len(a)) = a
         /\ \A i \in 1 .. Len(a) : (a \o t)[i] = a[i] /\ a[i] \in Byte
BY Parts

(* What stands behind the bytes of a field does not matter to it.          *)
Local(f) ==
  \A b \in Bytes : f[b].ok =>
    /\ f[b].rest \in Bytes
    /\ f[b] = Got(f[b].value, f[b].rest)
    /\ \A t \in Bytes : f[b \o t] = Got(f[b].value, f[b].rest \o t)

(* The values of a field.                                                  *)
Yields(f, V) ==
  \A b \in Bytes : f[b].ok => f[b].rest \in Bytes /\ f[b].value \in V

(* The bytes s are read as v.                                              *)
Reads(f, s, v) == s \in Bytes /\ \A t \in Bytes : f[s \o t] = Got(v, t)

(* The fields of a result.                                                 *)
LEMMA Results ==
  /\ \A v, r : /\ Got(v, r).ok /\ Got(v, r).value = v /\ Got(v, r).rest = r
  /\ ~Refusal.ok
BY DEF Got, Refusal

(* A local field and local fields behind it are local together.            *)
LEMMA FollowedLocal ==
  ASSUME NEW f, NEW g, Local(f), Local(g),
         NEW h, \A b \in Bytes : h[b] = Followed(f[b], g)
  PROVE  Local(h)
<1> SUFFICES ASSUME NEW b \in Bytes, h[b].ok
             PROVE  /\ h[b].rest \in Bytes
                    /\ h[b] = Got(h[b].value, h[b].rest)
                    /\ \A t \in Bytes :
                         h[b \o t] = Got(h[b].value, h[b].rest \o t)
  BY DEF Local
<1> DEFINE r == f[b].rest
           w == <<f[b].value>> \o g[r].value
<1>1. f[b].ok /\ g[r].ok /\ h[b] = Got(w, g[r].rest)
  BY Results DEF Followed
<1>2. r \in Bytes /\ \A t \in Bytes : f[b \o t] = Got(f[b].value, r \o t)
  BY <1>1 DEF Local
<1>3. /\ g[r].rest \in Bytes
      /\ \A t \in Bytes : g[r \o t] = Got(g[r].value, g[r].rest \o t)
  BY <1>1, <1>2 DEF Local
<1>4. ASSUME NEW t \in Bytes
      PROVE  h[b \o t] = Got(w, g[r].rest \o t)
  <2>1. b \o t \in Bytes
    BY Joins
  <2>2. h[b \o t] = Followed(f[b \o t], g)
    BY <2>1
  <2>3. f[b \o t] = Got(f[b].value, r \o t)
    BY <1>2
  <2>4. g[r \o t] = Got(g[r].value, g[r].rest \o t)
    BY <1>3
  <2> QED BY <2>2, <2>3, <2>4, Results DEF Followed
<1> HIDE DEF w, r
<1>5. h[b].value = w /\ h[b].rest = g[r].rest
  BY <1>1, Results
<1> QED
  BY <1>1, <1>3, <1>4, <1>5

(* from, as InOrder uses it.                                               *)
Recursion(fields, from) ==
  /\ \A b \in Bytes : from[Len(fields) + 1][b] = Got(<<>>, b)
  /\ \A i \in 1 .. Len(fields) : \A b \in Bytes :
       from[i][b] = Followed(fields[i][b], from[i + 1])
  /\ InOrder(fields) = from[1]

(* InOrder by its recursion.                                               *)
LEMMA InOrderRecursion ==
  ASSUME NEW fields, Len(fields) \in Nat
  PROVE  \E from : Recursion(fields, from)
<1> DEFINE N == Len(fields)
<1>1. PICK from :
        /\ from =
             [i \in 1 .. N + 1 |->
               [b \in Bytes |->
                 IF i > N THEN Got(<<>>, b)
                 ELSE Followed(fields[i][b], from[i + 1])]]
        /\ InOrder(fields) = from[1]
  BY InOrderIs
<1>2. \A i \in 1 .. N + 1 : \A b \in Bytes :
        from[i][b] = IF i > N THEN Got(<<>>, b)
                     ELSE Followed(fields[i][b], from[i + 1])
  <2>1. ASSUME NEW i \in 1 .. N + 1
        PROVE  from[i] = [b \in Bytes |->
                           IF i > N THEN Got(<<>>, b)
                           ELSE Followed(fields[i][b], from[i + 1])]
    BY <1>1
  <2> QED BY <2>1
<1>3. /\ N + 1 \in 1 .. N + 1 /\ N + 1 > N
      /\ \A i \in 1 .. N : i \in 1 .. N + 1 /\ ~(i > N)
  OBVIOUS
<1>4. Recursion(fields, from)
  BY <1>1, <1>2, <1>3 DEF Recursion
<1> QED BY <1>4

(* Local fields one behind the other are local together.                   *)
LEMMA InOrderLocal ==
  ASSUME NEW fields, Len(fields) \in Nat,
         \A i \in 1 .. Len(fields) : Local(fields[i])
  PROVE  Local(InOrder(fields))
<1>1. PICK from : Recursion(fields, from)
  BY InOrderRecursion
<1> DEFINE N == Len(fields)
           S == {i \in 1 .. N + 1 : Local(from[i])}
<1>2. N + 1 \in S
  <2>1. \A b \in Bytes : from[N + 1][b] = Got(<<>>, b)
    BY <1>1 DEF Recursion
  <2>2. Local(from[N + 1])
    BY <2>1, Results, Joins DEF Local
  <2> QED BY <2>2
<1>3. ASSUME NEW i \in 1 .. N, i + 1 \in S PROVE i \in S
  <2>1. \A b \in Bytes : from[i][b] = Followed(fields[i][b], from[i + 1])
    BY <1>1 DEF Recursion
  <2>2. Local(from[i])
    BY <1>3, <2>1, FollowedLocal
  <2> QED BY <2>2
<1>4. 1 \in S
  <2> HIDE DEF S
  <2> QED BY <1>2, <1>3, Downward
<1> QED BY <1>1, <1>4 DEF Recursion

Tuples(Vs) ==
  {v \in Seq(UNION {Vs[i] : i \in 1 .. Len(Vs)}) :
     Len(v) = Len(Vs) /\ \A i \in 1 .. Len(Vs) : v[i] \in Vs[i]}

(* Fields one behind the other give the tuple of their values.             *)
LEMMA InOrderYields ==
  ASSUME NEW fields, Len(fields) \in Nat, NEW Vs, Len(Vs) = Len(fields),
         \A i \in 1 .. Len(fields) : Yields(fields[i], Vs[i])
  PROVE  Yields(InOrder(fields), Tuples(Vs))
<1>1. PICK from : Recursion(fields, from)
  BY InOrderRecursion
<1> DEFINE N == Len(fields)
           U == UNION {Vs[i] : i \in 1 .. Len(Vs)}
           Fits(i, v) == /\ v \in Seq(U) /\ Len(v) = N + 1 - i
                         /\ \A j \in 1 .. N + 1 - i : v[j] \in Vs[i + j - 1]
           Q(i) == \A b \in Bytes : from[i][b].ok =>
                     from[i][b].rest \in Bytes /\ Fits(i, from[i][b].value)
           S == {i \in 1 .. N + 1 : Q(i)}
<1>2. N + 1 \in S
  <2>1. \A b \in Bytes : from[N + 1][b] = Got(<<>>, b)
    BY <1>1 DEF Recursion
  <2>2. Fits(N + 1, <<>>)
    BY EmptySeq
  <2> HIDE DEF Fits
  <2>3. Q(N + 1)
    BY <2>1, <2>2, Results
  <2> QED BY <2>3
<1>3. ASSUME NEW i \in 1 .. N, i + 1 \in S PROVE i \in S
  <2> HIDE DEF Fits
  <2> SUFFICES ASSUME NEW b \in Bytes, from[i][b].ok
               PROVE  from[i][b].rest \in Bytes /\ Fits(i, from[i][b].value)
    OBVIOUS
  <2> DEFINE r == fields[i][b].rest
             x == fields[i][b].value
             w == from[i + 1][r].value
  <2>1. from[i][b] = Followed(fields[i][b], from[i + 1])
    BY <1>1 DEF Recursion
  <2>2. /\ fields[i][b].ok /\ from[i + 1][r].ok
        /\ from[i][b] = Got(<<x>> \o w, from[i + 1][r].rest)
    BY <2>1, Results DEF Followed
  <2>3. r \in Bytes /\ x \in Vs[i]
    BY <2>2 DEF Yields
  <2>4. from[i + 1][r].rest \in Bytes /\ Fits(i + 1, w)
    BY <1>3, <2>2, <2>3
  <2>5. x \in U
    BY <2>3
  <2> HIDE DEF U
  <2>6. <<x>> \in Seq(U) /\ Len(<<x>>) = 1 /\ <<x>>[1] = x
    BY <2>5
  <2>7. w \in Seq(U) /\ Len(w) = N - i
        /\ \A j \in 1 .. N - i : w[j] \in Vs[i + j]
    <3>1. /\ N + 1 - (i + 1) = N - i
          /\ \A j \in 1 .. N - i : (i + 1) + j - 1 = i + j
      OBVIOUS
    <3> QED BY <2>4, <3>1 DEF Fits
  <2>8. /\ <<x>> \o w \in Seq(U) /\ Len(<<x>> \o w) = 1 + (N - i)
        /\ \A j \in 1 .. 1 + (N - i) :
             (<<x>> \o w)[j] = IF j <= 1 THEN x ELSE w[j - 1]
    <3> HIDE DEF w, x
    <3>1. <<x>> \o w \in Seq(U) /\ Len(<<x>> \o w) = Len(<<x>>) + Len(w)
      BY <2>6, <2>7, ConcatProperties
    <3>2. \A j \in 1 .. Len(<<x>>) + Len(w) : (<<x>> \o w)[j] =
            IF j <= Len(<<x>>) THEN <<x>>[j] ELSE w[j - Len(<<x>>)]
      BY <2>6, <2>7, ConcatProperties
    <3> QED BY <2>6, <2>7, <3>1, <3>2
  <2>9. ASSUME NEW j \in 1 .. N + 1 - i
        PROVE  (<<x>> \o w)[j] \in Vs[i + j - 1]
    <3> HIDE DEF w, x
    <3>1. CASE j = 1
      <4>1. i + j - 1 = i
        BY <3>1
      <4> QED BY <2>3, <2>8, <3>1, <4>1
    <3>2. CASE j # 1
      <4>1. j - 1 \in 1 .. N - i /\ i + (j - 1) = i + j - 1
            /\ j \in 1 .. 1 + (N - i) /\ ~(j <= 1)
        BY <3>2
      <4>2. w[j - 1] \in Vs[i + (j - 1)]
        BY <2>7, <4>1
      <4> QED BY <2>8, <4>1, <4>2
    <3> QED BY <3>1, <3>2
  <2>10. Fits(i, <<x>> \o w)
    <3> HIDE DEF w, x
    <3>1. 1 + (N - i) = N + 1 - i
      OBVIOUS
    <3> QED BY <2>8, <2>9, <3>1 DEF Fits
  <2> HIDE DEF w, x
  <2> QED BY <2>2, <2>4, <2>10, Results
<1>4. 1 \in S
  <2> HIDE DEF S
  <2> QED BY <1>2, <1>3, Downward
<1>5. Q(1)
  BY <1>4
<1>6. ASSUME NEW v, Fits(1, v) PROVE v \in Tuples(Vs)
  <2>1. N + 1 - 1 = Len(Vs) /\ \A j \in 1 .. Len(Vs) : 1 + j - 1 = j
    OBVIOUS
  <2>2. v \in Seq(U) /\ Len(v) = Len(Vs) /\ \A j \in 1 .. Len(Vs) : v[j] \in Vs[j]
    BY <1>6, <2>1
  <2> QED BY <2>2 DEF Tuples
<1> HIDE DEF Fits
<1> QED BY <1>1, <1>5, <1>6 DEF Recursion, Yields

(* One step of reading fields one behind the other.                        *)
LEMMA FollowedReads ==
  ASSUME NEW f, NEW g, NEW h, NEW s \in Bytes, NEW u \in Bytes, NEW t,
         NEW x, NEW w,
         \A b \in Bytes : h[b] = Followed(f[b], g),
         f[s \o u] = Got(x, u), g[u] = Got(w, t)
  PROVE  h[s \o u] = Got(<<x>> \o w, t)
<1>1. h[s \o u] = Followed(Got(x, u), g)
  BY Joins
<1> QED BY <1>1, Results DEF Followed

(* Each field reads its part; the last may look at t, which stands behind  *)
(* it.                                                                     *)
InTurn(fields, ss, vs, N, t) ==
  \A i \in 1 .. N : \A u \in Bytes :
    i < N \/ u = t => fields[i][ss[i] \o u] = Got(vs[i], u)

(* Fields that read their bytes in turn read all of them, and give all     *)
(* values.                                                                 *)
LEMMA InOrderReads ==
  ASSUME NEW fields, NEW N \in Nat, Len(fields) = N,
         NEW ss \in Seq(Bytes), Len(ss) = N,
         NEW V, NEW vs \in Seq(V), Len(vs) = N,
         NEW t \in Bytes, InTurn(fields, ss, vs, N, t)
  PROVE  InOrder(fields)[FlattenSeq(ss) \o t] = Got(vs, t)
<1>1. PICK from : Recursion(fields, from)
  BY InOrderRecursion
<1> DEFINE tail(i) == FlattenSeq(SubSeq(ss, i, N))
           rest(i) == SubSeq(vs, i, N)
           Q(i) == tail(i) \in Bytes /\ from[i][tail(i) \o t] = Got(rest(i), t)
           S == {i \in 1 .. N + 1 : Q(i)}
<1>2. N + 1 \in S
  <2>1. \A b \in Bytes : from[N + 1][b] = Got(<<>>, b)
    BY <1>1 DEF Recursion
  <2>2. tail(N + 1) = <<>> /\ rest(N + 1) = <<>>
    <3>1. N < N + 1 /\ N + 1 \in Int /\ N \in Int
      OBVIOUS
    <3>2. SubSeq(ss, N + 1, N) = <<>> /\ SubSeq(vs, N + 1, N) = <<>>
      BY <3>1, SubSeqEmpty
    <3> QED BY <3>2, FlattenEmpty
  <2> HIDE DEF tail, rest
  <2>3. Q(N + 1)
    BY <2>1, <2>2, Joins
  <2> QED BY <2>3
<1>3. ASSUME NEW i \in 1 .. N, i + 1 \in S PROVE i \in S
  <2>1. \A b \in Bytes : from[i][b] = Followed(fields[i][b], from[i + 1])
    BY <1>1 DEF Recursion
  <2>2. SubSeq(ss, i, N) = <<ss[i]>> \o SubSeq(ss, i + 1, N)
    BY SubSeqRecursiveFirst
  <2>3. SubSeq(ss, i + 1, N) \in Seq(Bytes) /\ ss[i] \in Bytes
    <3>1. \A j \in i + 1 .. N : ss[j] \in Bytes
      BY ElementOfSeq
    <3> QED BY <3>1, SubSeqProperties, ElementOfSeq
  <2>4. tail(i) = ss[i] \o tail(i + 1)
    BY <2>2, <2>3, FlattenCons
  <2>5. rest(i) = <<vs[i]>> \o rest(i + 1)
    BY SubSeqRecursiveFirst
  <2>6. i = N => tail(i + 1) = <<>>
    <3> SUFFICES ASSUME i = N PROVE FlattenSeq(SubSeq(ss, i + 1, N)) = <<>>
      OBVIOUS
    <3>1. N < i + 1 /\ i + 1 \in Int /\ N \in Int
      OBVIOUS
    <3>2. SubSeq(ss, i + 1, N) = <<>>
      BY <3>1, SubSeqEmpty
    <3> QED BY <3>2, FlattenEmpty
  <2> HIDE DEF tail, rest
  <2>7. tail(i + 1) \in Bytes /\ from[i + 1][tail(i + 1) \o t] = Got(rest(i + 1), t)
    BY <1>3
  <2> DEFINE u == tail(i + 1) \o t
  <2>8. u \in Bytes /\ tail(i) \o t = ss[i] \o u /\ tail(i) \in Bytes
    <3>1. u \in Bytes /\ ss[i] \in Bytes /\ tail(i + 1) \in Bytes
      BY <2>3, <2>7, Joins
    <3>2. (ss[i] \o tail(i + 1)) \o t = ss[i] \o (tail(i + 1) \o t)
      BY <3>1, Joins
    <3>3. ss[i] \o tail(i + 1) \in Bytes
      BY <3>1, Joins
    <3> QED BY <2>4, <3>1, <3>2, <3>3
  <2>9. i < N \/ u = t
    <3>1. CASE i = N
      BY <2>6, <3>1, Joins
    <3>2. CASE i # N
      BY <3>2
    <3> QED BY <3>1, <3>2
  <2> HIDE DEF u
  <2>10. fields[i][ss[i] \o u] = Got(vs[i], u)
    BY <2>8, <2>9 DEF InTurn
  <2>11. from[i + 1][u] = Got(rest(i + 1), t)
    BY <2>7 DEF u
  <2>12. from[i][ss[i] \o u] = Got(<<vs[i]>> \o rest(i + 1), t)
    <3> DEFINE f == fields[i]
               g == from[i + 1]
               h == from[i]
               s == ss[i]
    <3>1. /\ \A b \in Bytes : h[b] = Followed(f[b], g)
          /\ s \in Bytes /\ u \in Bytes /\ f[s \o u] = Got(vs[i], u)
          /\ g[u] = Got(rest(i + 1), t)
      BY <2>1, <2>3, <2>8, <2>10, <2>11
    <3> HIDE DEF f, g, h, s
    <3>2. h[s \o u] = Got(<<vs[i]>> \o rest(i + 1), t)
      BY <3>1, FollowedReads
    <3> QED BY <3>2 DEF h, s
  <2>13. Q(i)
    BY <2>5, <2>8, <2>12
  <2> QED BY <2>13
<1>4. Q(1)
  <2> HIDE DEF Q
  <2>1. 1 \in S
    <3> HIDE DEF S
    <3> QED BY <1>2, <1>3, Downward
  <2> QED BY <2>1
<1>5. tail(1) = FlattenSeq(ss) /\ rest(1) = vs
  BY SubSeqFull
<1> HIDE DEF tail, rest
<1> QED BY <1>1, <1>4, <1>5 DEF Recursion

-----------------------------------------------------------------------------
(* The bounds of the numbers.                                              *)
LEMMA Widths ==
  /\ Word = 65536
  /\ \A k : k \in Byte <=> k \in Int /\ 0 <= k /\ k <= 255
  /\ \A k : k \in Count <=> k \in Int /\ 0 <= k /\ k <= 65535
  /\ \A k : k \in Short <=> k \in Int /\ -32768 <= k /\ k <= 32767
<1>1. Word = 65536
  BY SMT DEF Word
<1>2. Word \in Int
  BY SMT DEF Word
<1>3. Word \div 2 = 32768
  BY SMT DEF Word
<1>4. \A k : k \in Byte <=> k \in Int /\ 0 <= k /\ k <= 255
  BY SMT DEF Byte
<1>5. \A k : k \in Count <=> k \in Int /\ 0 <= k /\ k <= 65535
  <2>1. \A k : k \in Count <=> k \in Int /\ 0 <= k /\ k < Word
    BY <1>2, SMT DEF Count
  <2> QED BY <2>1, <1>1, SMT
<1>6. \A k : k \in Short <=> k \in Int /\ -32768 <= k /\ k <= 32767
  <2> DEFINE h == Word \div 2
  <2>1. h = 32768
    BY <1>3, SMT
  <2>2. Short = -h .. h - 1
    BY SMT DEF Short
  <2> HIDE DEF h
  <2>3. h \in Int
    BY <2>1, SMT
  <2>4. \A k : k \in Short <=> k \in Int /\ -h <= k /\ k <= h - 1
    BY <2>2, <2>3, SMT
  <2>5. -h = -32768 /\ h - 1 = 32767
    BY <2>1, SMT
  <2> QED BY <2>4, <2>5, SMT
<1> QED BY <1>1, <1>4, <1>5, <1>6, SMT

(* A number and its lowest eight bits, and a number and its lowest sixteen.*)
LEMMA Bits ==
  /\ \A n \in Int : /\ (n % 256) \in Byte
                    /\ (n \div 256) \in Int
                    /\ n = 256 * (n \div 256) + (n % 256)
  /\ \A n \in Count : (n % Word) = n
  /\ \A n \in Short : IF n < 0 THEN (n % Word) = n + Word ELSE (n % Word) = n
  /\ \A n \in Int : (n % Word) \in Count
  /\ \A p \in Int, r \in Count : (Word * p + r) % Word = r
<1>1. \A n \in Int : /\ (n % 256) \in Byte
                     /\ (n \div 256) \in Int
                     /\ n = 256 * (n \div 256) + (n % 256)
  BY Widths, SMT
<1>2. \A n \in Count : (n % Word) = n
  BY Widths, SMT
<1>3. \A n \in Short : IF n < 0 THEN (n % Word) = n + Word ELSE (n % Word) = n
  BY Widths, SMT
<1>4. \A n \in Int : (n % Word) \in Count
  BY Widths, SMT
<1>5. \A p \in Int, r \in Count : (Word * p + r) % Word = r
  BY Widths, SMT
<1> QED BY <1>1, <1>2, <1>3, <1>4, <1>5, Zenon

(* Two bytes are the number of sixteen bits with this quotient and         *)
(* remainder.                                                              *)
LEMMA TwoBytes ==
  ASSUME NEW a \in Byte, NEW b \in Byte
  PROVE  /\ 256 * a + b \in Count
         /\ \A n, p, q \in Int :
              n = 256 * q + b /\ q = 256 * p + a => n = Word * p + (256 * a + b)
<1>1. 256 * a + b \in Count
  BY Widths, SMT
<1>2. a \in Int /\ b \in Int
  BY Widths, SMT
<1>3. ASSUME NEW n \in Int, NEW p \in Int, NEW q \in Int,
             n = 256 * q + b, q = 256 * p + a
      PROVE  n = Word * p + (256 * a + b)
  BY <1>2, <1>3, Widths, SMT
<1> QED BY <1>1, <1>3, SMT

(* Writing a number and reading it again.                                  *)
LEMMA NumberIsU16 ==
  /\ \A n \in Int : U16(n) \in Bytes /\ Len(U16(n)) = 2
  /\ \A n \in Int : \A t \in Bytes : Number(U16(n) \o t) = (n % Word)
  /\ \A b \in Bytes : Len(b) >= 2 => Number(b) \in Count
<1>1. ASSUME NEW n \in Int
      PROVE  /\ U16(n) \in Bytes /\ Len(U16(n)) = 2
             /\ U16(n)[1] = (n \div 256) % 256 /\ U16(n)[2] = (n % 256)
  <2> DEFINE q == n \div 256
             a == q % 256
             b == n % 256
  <2>1. q \in Int /\ b \in Byte
    BY Bits
  <2> HIDE DEF q
  <2>2. a \in Byte
    BY <2>1, Bits
  <2>3. U16(n) = <<a, b>>
    BY DEF U16, q
  <2> HIDE DEF a, b
  <2>4. <<a, b>> \in Bytes /\ Len(<<a, b>>) = 2 /\ <<a, b>>[1] = a /\ <<a, b>>[2] = b
    BY <2>1, <2>2 DEF Bytes
  <2>5. U16(n) \in Bytes /\ Len(U16(n)) = 2 /\ U16(n)[1] = a /\ U16(n)[2] = b
    BY <2>3, <2>4
  <2> QED BY <2>5 DEF a, b, q
<1>2. ASSUME NEW n \in Int, NEW t \in Bytes
      PROVE  Number(U16(n) \o t) = (n % Word)
  <2> DEFINE q == n \div 256
             p == q \div 256
             a == q % 256
             b == n % 256
  <2>1. (U16(n) \o t)[1] = a /\ (U16(n) \o t)[2] = b
    <3> DEFINE s == U16(n)
    <3>0. s \in Bytes /\ Len(s) = 2 /\ s[1] = a /\ s[2] = b
      BY <1>1
    <3> HIDE DEF s, a, b
    <3>1. 1 \in 1 .. Len(s) /\ 2 \in 1 .. Len(s)
      BY <3>0
    <3>2. (s \o t)[1] = a /\ (s \o t)[2] = b
      BY <3>0, <3>1, Parts
    <3> QED BY <3>2 DEF s
  <2>2. /\ q \in Int /\ p \in Int /\ a \in Byte /\ b \in Byte
        /\ n = 256 * q + b /\ q = 256 * p + a
    <3>1. q \in Int /\ b \in Byte /\ n = 256 * q + b
      BY Bits, SMT
    <3> HIDE DEF q, b
    <3>2. p \in Int /\ a \in Byte /\ q = 256 * p + a
      BY <3>1, Bits, SMT
    <3> QED BY <3>1, <3>2
  <2> HIDE DEF q, p, a, b
  <2>3. n = Word * p + (256 * a + b) /\ 256 * a + b \in Count
    BY <2>2, TwoBytes, SMT
  <2>4. (n % Word) = 256 * a + b
    BY <2>2, <2>3, Bits, SMT
  <2> DEFINE s == U16(n) \o t
  <2>5. s[1] = a /\ s[2] = b
    BY <2>1
  <2> HIDE DEF s
  <2>6. Number(s) = 256 * a + b
    BY <2>5 DEF Number
  <2> QED BY <2>4, <2>6 DEF s
<1>3. ASSUME NEW b \in Bytes, Len(b) >= 2 PROVE Number(b) \in Count
  <2>1. b[1] \in Byte /\ b[2] \in Byte
    BY <1>3 DEF Bytes
  <2> QED BY <2>1, TwoBytes, Zenon DEF Number
<1> QED BY <1>1, <1>2, <1>3, Zenon

(* The first two bytes are those of the field.                             *)
LEMMA TwoFirst ==
  ASSUME NEW b \in Bytes, NEW t \in Bytes, Len(b) >= 2
  PROVE  /\ b \o t \in Bytes /\ ~(Len(b \o t) < 2) /\ ~(Len(b) < 2)
         /\ Number(b \o t) = Number(b) /\ Number(b) \in Count
         /\ Behind(b, 2) \in Bytes
         /\ Behind(b \o t, 2) = Behind(b, 2) \o t
<1>1. b \o t \in Bytes /\ Len(b \o t) = Len(b) + Len(t) /\ Len(b) \in Nat /\ Len(t) \in Nat
  BY Joins
<1>2. 1 \in 1 .. Len(b) /\ 2 \in 1 .. Len(b) /\ 2 \in 0 .. Len(b)
  BY <1>1
<1>3. (b \o t)[1] = b[1] /\ (b \o t)[2] = b[2]
  BY <1>2, PartFront
<1>4. Number(b \o t) = Number(b)
  BY <1>3 DEF Number
<1>5. Behind(b, 2) \in Bytes /\ Behind(b \o t, 2) = Behind(b, 2) \o t
  BY <1>2, PartBehind
<1>6. Number(b) \in Count
  BY NumberIsU16
<1>7. ~(Len(b \o t) < 2) /\ ~(Len(b) < 2)
  BY <1>1
<1> QED BY <1>1, <1>4, <1>5, <1>6, <1>7

(* A field of two bytes.                                                   *)
LEMMA WordField ==
  ASSUME NEW h, NEW D, NEW F,
         \A b \in Bytes : h[b] = IF Len(b) < 2 \/ Number(b) \notin D THEN Refusal
                                 ELSE Got(F[Number(b)], Behind(b, 2))
  PROVE  /\ Local(h)
         /\ \A V : (\A n \in D : F[n] \in V) => Yields(h, V)
         /\ \A n \in Int : (n % Word) \in D => Reads(h, U16(n), F[n % Word])
<1>1. ASSUME NEW b \in Bytes, h[b].ok
      PROVE  /\ Len(b) >= 2 /\ Number(b) \in D
             /\ h[b] = Got(F[Number(b)], Behind(b, 2))
             /\ h[b].value = F[Number(b)] /\ h[b].rest = Behind(b, 2)
             /\ Behind(b, 2) \in Bytes
  <2>1. ~(Len(b) < 2 \/ Number(b) \notin D)
    BY <1>1, Results
  <2>2. Len(b) >= 2
    BY <2>1, Joins
  <2>3. h[b] = Got(F[Number(b)], Behind(b, 2))
    BY <2>1
  <2>4. Behind(b, 2) \in Bytes
    BY <2>2, TwoFirst, Joins
  <2> QED BY <2>1, <2>2, <2>3, <2>4, Results
<1>2. ASSUME NEW b \in Bytes, NEW t \in Bytes, h[b].ok
      PROVE  h[b \o t] = Got(F[Number(b)], Behind(b, 2) \o t)
  <2>1. Len(b) >= 2 /\ Number(b) \in D
    BY <1>1, <1>2
  <2>2. /\ b \o t \in Bytes /\ ~(Len(b \o t) < 2)
        /\ Number(b \o t) = Number(b) /\ Behind(b \o t, 2) = Behind(b, 2) \o t
    BY <2>1, TwoFirst
  <2> QED BY <2>1, <2>2
<1>3. Local(h)
  BY <1>1, <1>2 DEF Local
<1>4. ASSUME NEW V, \A n \in D : F[n] \in V PROVE Yields(h, V)
  BY <1>1, <1>4 DEF Yields
<1>5. ASSUME NEW n \in Int, (n % Word) \in D PROVE Reads(h, U16(n), F[n % Word])
  <2>1. U16(n) \in Bytes /\ Len(U16(n)) = 2
    BY NumberIsU16
  <2>2. ASSUME NEW t \in Bytes
        PROVE  h[U16(n) \o t] = Got(F[n % Word], t)
    <3> DEFINE s == U16(n)
    <3>1. s \in Bytes /\ Len(s) = 2 /\ Number(s \o t) = (n % Word)
      BY NumberIsU16
    <3> HIDE DEF s
    <3>2. s \o t \in Bytes /\ Len(s \o t) = Len(s) + Len(t) /\ Len(t) \in Nat
      BY <3>1, Joins
    <3>3. Behind(s \o t, Len(s)) = t
      BY <3>1, Parts
    <3>4. ~(Len(s \o t) < 2)
      BY <3>1, <3>2
    <3>5. Number(s \o t) \in D /\ Behind(s \o t, 2) = t
      BY <1>5, <3>1, <3>3
    <3>6. h[s \o t] = Got(F[Number(s \o t)], Behind(s \o t, 2))
      BY <3>2, <3>4, <3>5
    <3> HIDE DEF Number
    <3>7. h[s \o t] = Got(F[n % Word], t)
      BY <3>1, <3>5, <3>6
    <3> QED BY <3>7 DEF s
  <2> QED BY <2>1, <2>2 DEF Reads
<1> QED BY <1>3, <1>4, <1>5

(* The fields that are numbers.                                            *)
LEMMA NumberFields ==
  /\ Local(NumberField) /\ Yields(NumberField, Count)
  /\ \A n \in Count : Reads(NumberField, U16(n), n)
<1> DEFINE F == [n \in Count |-> n]
<1>1. \A b \in Bytes : NumberField[b] =
        IF Len(b) < 2 \/ Number(b) \notin Count THEN Refusal
        ELSE Got(F[Number(b)], Behind(b, 2))
  <2> SUFFICES ASSUME NEW b \in Bytes
               PROVE  NumberField[b] =
                        IF Len(b) < 2 \/ Number(b) \notin Count THEN Refusal
                        ELSE Got(F[Number(b)], Behind(b, 2))
    OBVIOUS
  <2>1. Len(b) < 2 \/ Number(b) \in Count
    BY NumberIsU16, Joins
  <2> QED BY <2>1 DEF NumberField
<1>2. \A n \in Count : F[n] \in Count /\ F[n] = n /\ n \in Int /\ (n % Word) = n
  BY Bits, Widths
<1> HIDE DEF F
<1>3. Local(NumberField) /\ Yields(NumberField, Count)
  BY <1>1, <1>2, WordField
<1>4. \A n \in Int : (n % Word) \in Count => Reads(NumberField, U16(n), F[n % Word])
  BY <1>1, WordField
<1> QED BY <1>2, <1>3, <1>4

(* The same for a signed number, in two's complement.                      *)
LEMMA SignedFields ==
  /\ Local(SignedField) /\ Yields(SignedField, Short)
  /\ \A n \in Short : Reads(SignedField, U16(n), n)
<1> DEFINE F == [n \in Count |-> IF n \in Short THEN n ELSE n - Word]
<1>1. \A b \in Bytes : SignedField[b] =
        IF Len(b) < 2 \/ Number(b) \notin Count THEN Refusal
        ELSE Got(F[Number(b)], Behind(b, 2))
  <2> SUFFICES ASSUME NEW b \in Bytes
               PROVE  SignedField[b] =
                        IF Len(b) < 2 \/ Number(b) \notin Count THEN Refusal
                        ELSE Got(F[Number(b)], Behind(b, 2))
    OBVIOUS
  <2>1. Len(b) < 2 \/ Number(b) \in Count
    BY NumberIsU16, Joins
  <2> QED BY <2>1 DEF SignedField
<1>2. \A n \in Count : F[n] \in Short
  BY Widths, SMT
<1>3. \A n \in Short : n \in Int /\ (n % Word) \in Count /\ F[n % Word] = n
  <2> SUFFICES ASSUME NEW n \in Short
               PROVE  n \in Int /\ (n % Word) \in Count /\ F[n % Word] = n
    OBVIOUS
  <2>1. n \in Int
    BY Widths
  <2>2. (n % Word) \in Count
    BY <2>1, Bits
  <2>3. CASE n < 0
    <3>1. (n % Word) = n + Word
      BY <2>3, Bits
    <3>2. n + Word \notin Short /\ (n + Word) - Word = n
      BY <2>1, <2>3, Widths, SMT
    <3> QED BY <2>1, <2>2, <3>1, <3>2
  <2>4. CASE ~(n < 0)
    <3>1. (n % Word) = n
      BY <2>4, Bits
    <3> QED BY <2>1, <2>2, <3>1
  <2> QED BY <2>3, <2>4
<1> HIDE DEF F
<1>4. Local(SignedField) /\ Yields(SignedField, Short)
  BY <1>1, <1>2, WordField
<1>5. \A n \in Int : (n % Word) \in Count => Reads(SignedField, U16(n), F[n % Word])
  BY <1>1, WordField
<1> QED BY <1>3, <1>4, <1>5

(* The same for a code, of which others are refused.                       *)
LEMMA CodeFields ==
  ASSUME NEW codes, codes \subseteq Count
  PROVE  /\ Local(CodeField(codes)) /\ Yields(CodeField(codes), codes)
         /\ \A n \in codes : Reads(CodeField(codes), U16(n), n)
<1> DEFINE F == [n \in codes |-> n]
<1>1. \A b \in Bytes : CodeField(codes)[b] =
        IF Len(b) < 2 \/ Number(b) \notin codes THEN Refusal
        ELSE Got(F[Number(b)], Behind(b, 2))
  BY DEF CodeField
<1>2. \A n \in codes : F[n] \in codes /\ F[n] = n /\ n \in Int /\ (n % Word) = n
  BY Bits, Widths
<1> HIDE DEF F
<1>3. Local(CodeField(codes)) /\ Yields(CodeField(codes), codes)
  BY <1>1, <1>2, WordField
<1>4. \A n \in Int : (n % Word) \in codes => Reads(CodeField(codes), U16(n), F[n % Word])
  BY <1>1, WordField
<1> QED BY <1>2, <1>3, <1>4

-----------------------------------------------------------------------------
(* The longest prefix with characters of a set, given its length.          *)
LEMMA LeadingIs ==
  ASSUME NEW b \in Bytes, NEW chars, NEW n \in 0 .. Len(b),
         \A i \in 1 .. n : b[i] \in chars, n < Len(b) => b[n + 1] \notin chars
  PROVE  Leading(b, chars) = SubSeq(b, 1, n)
<1> DEFINE others == {i \in 1 .. Len(b) : b[i] \notin chars}
<1>0. Len(b) \in Nat
  BY Joins
<1>1. CASE n = Len(b)
  <2>1. others = {}
    BY <1>0, <1>1
  <2>2. SubSeq(b, 1, n) = b
    BY <1>1, SubSeqFull DEF Bytes
  <2> QED BY <2>1, <2>2 DEF Leading
<1>2. CASE n # Len(b)
  <2>1. n + 1 \in others /\ \A i \in others : n + 1 <= i
    BY <1>0, <1>2
  <2> HIDE DEF others
  <2>2. \A x \in others : (\A y \in others : x <= y) => x = n + 1
    <3>1. others \subseteq Int
      BY DEF others
    <3> QED BY <2>1, <3>1
  <2>3. Min(others) \in others /\ \A y \in others : Min(others) <= y
    BY <2>1, Zenon DEF Min
  <2>4. Min(others) = n + 1
    BY <2>2, <2>3
  <2>5. others # {}
    BY <2>1
  <2>6. Leading(b, chars) = SubSeq(b, 1, Min(others) - 1)
    BY <2>5 DEF others, Leading
  <2> QED BY <2>4, <2>6
<1> QED BY <1>1, <1>2

(* The longest prefix has a length.                                        *)
LEMMA LeadingExists ==
  ASSUME NEW b \in Bytes, NEW chars
  PROVE  \E n \in 0 .. Len(b) :
           /\ \A i \in 1 .. n : b[i] \in chars
           /\ n < Len(b) => b[n + 1] \notin chars
           /\ Leading(b, chars) = SubSeq(b, 1, n)
<1> DEFINE All(n) == n <= Len(b) /\ \A i \in 1 .. n : b[i] \in chars
           Ends(n) == n < Len(b) => b[n + 1] \notin chars
           S == {n \in Nat : All(n)}
<1>0. Len(b) \in Nat
  BY Joins
<1>1. \E n \in Nat : All(n) /\ Ends(n)
  <2> SUFFICES ASSUME \A n \in Nat : All(n) => ~Ends(n) PROVE FALSE
    OBVIOUS
  <2>1. 0 \in S
    BY <1>0
  <2>2. ASSUME NEW n \in Nat, n \in S PROVE n + 1 \in S
    <3>1. n < Len(b) /\ b[n + 1] \in chars
      BY <2>2
    <3> QED BY <1>0, <2>2, <3>1
  <2>3. Len(b) + 1 \in S
    <3> HIDE DEF S
    <3>1. Nat \subseteq S
      BY <2>1, <2>2, Induct
    <3> QED BY <1>0, <3>1
  <2> QED BY <1>0, <2>3
<1>2. PICK n \in Nat : All(n) /\ Ends(n)
  BY <1>1
<1>3. n \in 0 .. Len(b)
  BY <1>0, <1>2
<1>4. Leading(b, chars) = SubSeq(b, 1, n)
  BY <1>2, <1>3, LeadingIs
<1> QED BY <1>2, <1>3, <1>4

(* The first n bytes.                                                      *)
LEMMA SubSeqOne ==
  ASSUME NEW b \in Bytes, NEW n \in 0 .. Len(b)
  PROVE  /\ SubSeq(b, 1, n) \in Bytes /\ Len(SubSeq(b, 1, n)) = n
         /\ \A i \in 1 .. n : SubSeq(b, 1, n)[i] = b[i]
<1>1. Len(b) \in Nat /\ n \in Int /\ \A i \in 1 .. n : b[i] \in Byte
  BY LenProperties, ElementOfSeq DEF Bytes
<1>2. /\ SubSeq(b, 1, n) \in Seq(Byte)
      /\ Len(SubSeq(b, 1, n)) = IF 1 <= n THEN n - 1 + 1 ELSE 0
      /\ \A i \in 1 .. n - 1 + 1 : SubSeq(b, 1, n)[i] = b[1 + i - 1]
  BY <1>1, SubSeqProperties
<1>3. n - 1 + 1 = n /\ \A i \in 1 .. n : 1 + i - 1 = i
  OBVIOUS
<1> QED BY <1>2, <1>3 DEF Bytes

(* Strings read from a file.                                               *)
Readable == {s \in Strings : Len(s) <= 254}

(* What stands before the first terminator is a string.                    *)
LEMMA LeadingString ==
  ASSUME NEW b \in Bytes
  PROVE  /\ Leading(b, Chars) \in Strings /\ Len(Leading(b, Chars)) \in 0 .. Len(b)
         /\ 0 \in ToSet(b) => Len(Leading(b, Chars)) < Len(b)
<1>1. PICK n \in 0 .. Len(b) : /\ \A i \in 1 .. n : b[i] \in Chars
                               /\ n < Len(b) => b[n + 1] \notin Chars
                               /\ Leading(b, Chars) = SubSeq(b, 1, n)
  BY LeadingExists
<1>2. Len(SubSeq(b, 1, n)) = n
  BY SubSeqOne
<1>3. SubSeq(b, 1, n) \in Strings
  BY <1>1, SubSeqProperties DEF Strings
<1>4. ASSUME 0 \in ToSet(b) PROVE n < Len(b)
  <2>1. PICK i \in 1 .. Len(b) : b[i] = 0
    <3>1. DOMAIN b = 1 .. Len(b)
      BY LenProperties DEF Bytes
    <3> QED BY <1>4, <3>1 DEF ToSet
  <2>2. 0 \notin Chars
    BY DEF Chars
  <2>3. ~(i \in 1 .. n)
    BY <1>1, <2>1, <2>2
  <2> QED BY <2>3, Joins
<1> QED BY <1>1, <1>2, <1>3, <1>4

(* String_decode() looks at the bytes of its string only, and gives no     *)
(* terminators and at most 254 characters.                                 *)
LEMMA TextFields ==
  /\ Local(TextField) /\ Yields(TextField, Readable)
<1> DEFINE raw(b) == SubSeq(b, 2, b[1] + 1)
<1>1. ASSUME NEW b \in Bytes, TextField[b].ok, NEW t \in Bytes
      PROVE  /\ b # <<>> /\ ~(Len(b) <= b[1])
             /\ ~(raw(b) # <<>> /\ 0 \notin ToSet(raw(b)))
             /\ TextField[b] = Got(Leading(raw(b), Chars), Behind(b, b[1] + 1))
  BY <1>1, Results DEF TextField
<1>2. ASSUME NEW b \in Bytes, TextField[b].ok
      PROVE  /\ b[1] \in Byte /\ b[1] \in Int /\ 1 \in 1 .. Len(b)
             /\ b[1] + 1 \in 0 .. Len(b) /\ 0 <= b[1] /\ b[1] <= 255
  <2>1. Len(b) \in Nat /\ Len(b) # 0
    BY <1>1, <1>2, EmptySeq, Joins DEF Bytes
  <2>2. b[1] \in Byte
    BY <2>1, ElementOfSeq DEF Bytes
  <2>3. b[1] \in Int /\ 0 <= b[1] /\ b[1] <= 255
    BY <2>2, Widths
  <2>4. ~(Len(b) <= b[1])
    BY <1>1, <1>2, Joins
  <2> QED BY <2>1, <2>2, <2>3, <2>4
<1>3. ASSUME NEW b \in Bytes, TextField[b].ok, NEW t \in Bytes
      PROVE  TextField[b \o t] = Got(Leading(raw(b), Chars), Behind(b, b[1] + 1) \o t)
  <2> DEFINE n == b[1]
             u == b \o t
  <2>1. n \in Int /\ n + 1 \in 0 .. Len(b) /\ 0 <= n
    BY <1>2, <1>3
  <2>2. u[1] = n
    BY <1>2, <1>3, PartFront
  <2>3. Len(u) = Len(b) + Len(t) /\ Len(t) \in Nat /\ Len(b) \in Nat /\ u \in Bytes
    BY Joins
  <2> DEFINE k == n + 1
  <2> HIDE DEF k
  <2>4a. k \in 0 .. Len(b) /\ 2 \in Nat \ {0}
    BY <2>1 DEF k
  <2>4b. SubSeq(u, 2, k) = SubSeq(b, 2, k) /\ Behind(u, k) = Behind(b, k) \o t
    BY <2>4a, PartSub, PartBehind
  <2>4. SubSeq(u, 2, n + 1) = SubSeq(b, 2, n + 1)
    BY <2>4b DEF k
  <2>5. Behind(u, n + 1) = Behind(b, n + 1) \o t
    BY <2>4b DEF k
  <2>6. ~(raw(b) # <<>> /\ 0 \notin ToSet(raw(b)))
    BY <1>1, <1>3, Joins
  <2> HIDE DEF n, u
  <2>7. u # <<>> /\ ~(Len(u) <= n)
    BY <2>1, <2>3, EmptySeq
  <2>8. SubSeq(u, 2, u[1] + 1) = raw(b)
    BY <2>2, <2>4 DEF n
  <2>9. TextField[u] = Got(Leading(raw(b), Chars), Behind(u, n + 1))
    <3> HIDE DEF raw
    <3> QED BY <2>2, <2>3, <2>6, <2>7, <2>8 DEF TextField
  <2> QED BY <2>5, <2>9 DEF n, u
<1>4. ASSUME NEW b \in Bytes, TextField[b].ok
      PROVE  /\ TextField[b].rest \in Bytes /\ TextField[b].rest = Behind(b, b[1] + 1)
             /\ TextField[b].value = Leading(raw(b), Chars)
             /\ TextField[b] = Got(TextField[b].value, TextField[b].rest)
  <2>1. TextField[b] = Got(Leading(raw(b), Chars), Behind(b, b[1] + 1))
    BY <1>1, <1>4, Joins
  <2>2. Behind(b, b[1] + 1) \in Bytes
    BY <1>2, <1>4, Joins, PartBehind
  <2> HIDE DEF raw
  <2> QED BY <2>1, <2>2, Results
<1>5. Local(TextField)
  <2> HIDE DEF raw
  <2> QED BY <1>3, <1>4 DEF Local
<1>6. ASSUME NEW b \in Bytes, TextField[b].ok
      PROVE  Leading(raw(b), Chars) \in Readable
  <2>1. /\ raw(b) \in Bytes
        /\ Len(raw(b)) = IF 2 <= b[1] + 1 THEN (b[1] + 1) - 2 + 1 ELSE 0
    <3> DEFINE n == b[1] + 1
    <3>1. n \in 0 .. Len(b) /\ 2 \in Nat \ {0} /\ <<>> \in Bytes
      BY <1>2, <1>6, Joins
    <3> HIDE DEF n
    <3>2. /\ SubSeq(b, 2, n) \in Bytes
          /\ Len(SubSeq(b, 2, n)) = IF 2 <= n THEN n - 2 + 1 ELSE 0
      BY <3>1, PartSub
    <3> QED BY <3>2 DEF n
  <2>2. Len(raw(b)) <= 255 /\ (raw(b) = <<>> \/ 0 \in ToSet(raw(b)))
    <3>1. Len(raw(b)) <= 255
      <4> HIDE DEF raw
      <4> QED BY <1>2, <1>6, <2>1
    <3>2. raw(b) = <<>> \/ 0 \in ToSet(raw(b))
      BY <1>1, <1>6, Joins
    <3> QED BY <3>1, <3>2
  <2> HIDE DEF raw
  <2>3. /\ Leading(raw(b), Chars) \in Strings
        /\ Len(Leading(raw(b), Chars)) \in 0 .. Len(raw(b))
        /\ 0 \in ToSet(raw(b)) => Len(Leading(raw(b), Chars)) < Len(raw(b))
    BY <2>1, LeadingString
  <2>4. raw(b) = <<>> => Len(raw(b)) = 0
    BY EmptySeq
  <2> QED BY <2>2, <2>3, <2>4, Joins DEF Readable
<1>7. Yields(TextField, Readable)
  <2> HIDE DEF raw
  <2> QED BY <1>4, <1>6 DEF Yields
<1> QED BY <1>5, <1>7

(* The characters of a string are bytes.                                   *)
LEMMA StringBytes ==
  ASSUME NEW s \in Strings
  PROVE  /\ s \in Bytes /\ Len(s) \in Nat
         /\ \A i \in 1 .. Len(s) : s[i] \in Chars
<1>1. Chars \subseteq Byte
  BY Widths DEF Chars
<1> QED BY <1>1, SeqMonotonic, LenProperties, ElementOfSeq DEF Strings, Bytes

(* A string ends at its terminator, whatever stands behind it.             *)
LEMMA LeadingOfString ==
  ASSUME NEW s \in Strings, NEW t \in Bytes
  PROVE  Leading((s \o <<0>>) \o t, Chars) = s
<1> DEFINE b == (s \o <<0>>) \o t
           n == Len(s)
<1>1. /\ s \in Bytes /\ n \in Nat /\ <<0>> \in Bytes /\ Len(<<0>>) = 1
      /\ \A i \in 1 .. n : s[i] \in Chars
  BY StringBytes, Widths DEF Bytes
<1>2. b = s \o (<<0>> \o t) /\ <<0>> \o t \in Bytes /\ b \in Bytes
  BY <1>1, Joins
<1>3. SubSeq(b, 1, n) = s /\ \A i \in 1 .. n : b[i] = s[i]
  <2> HIDE DEF b
  <2> QED BY <1>1, <1>2, PartFront
<1>4. s \o <<0>> \in Bytes /\ Len(s \o <<0>>) = n + 1
  BY <1>1, Joins
<1>5. b[n + 1] = 0 /\ Len(b) = n + 1 + Len(t)
  <2>1. (s \o <<0>>)[n + 1] = 0
    <3>1. n + 1 \in 1 .. Len(s) + Len(<<0>>)
      BY <1>1
    <3>2. (s \o <<0>>)[n + 1] = <<0>>[n + 1 - n]
      BY <1>1, <3>1, ConcatProperties DEF Bytes
    <3> QED BY <1>1, <3>2
  <2>2. n + 1 \in 1 .. Len(s \o <<0>>)
    BY <1>1, <1>4
  <2>3. b[n + 1] = (s \o <<0>>)[n + 1]
    BY <1>4, <2>2, PartFront
  <2> QED BY <1>4, <2>1, <2>3, Joins
<1>6. 0 \notin Chars
  BY DEF Chars
<1> HIDE DEF b, n
<1>7. n \in 0 .. Len(b)
  BY <1>1, <1>5, Joins
<1>8. Leading(b, Chars) = SubSeq(b, 1, n)
  BY <1>1, <1>2, <1>3, <1>5, <1>6, <1>7, LeadingIs
<1> QED BY <1>3, <1>8 DEF b

(* String_decode() reads what String_encode() wrote.                       *)
LEMMA TextReads ==
  ASSUME NEW s \in Strings, TextFits(s)
  PROVE  Reads(TextField, Text(s), s)
<1>1. /\ s \in Bytes /\ Len(s) \in Nat /\ <<0>> \in Bytes /\ Len(<<0>>) = 1
  BY StringBytes, Widths DEF Bytes
<1>2. CASE s = <<>>
  <2>1. Text(s) = <<0>>
    BY <1>2 DEF Text
  <2>2. ASSUME NEW t \in Bytes PROVE TextField[<<0>> \o t] = Got(<<>>, t)
    <3> DEFINE z == <<0>>
               b == z \o t
    <3>1. z \in Bytes /\ Len(z) = 1 /\ z[1] = 0 /\ 1 \in 1 .. Len(z)
      BY <1>1
    <3> HIDE DEF z
    <3>2. b[1] = 0 /\ Behind(b, 1) = t
      BY <3>1, PartFront
    <3>3. b \in Bytes /\ Len(b) = 1 + Len(t) /\ Len(t) \in Nat
      <4>1. z \o t \in Bytes /\ Len(z \o t) = Len(z) + Len(t) /\ Len(t) \in Nat
        BY <3>1, Join
      <4> QED BY <3>1, <4>1
    <3> HIDE DEF b
    <3>4. b # <<>> /\ ~(Len(b) <= b[1])
      BY <3>2, <3>3, EmptySeq
    <3>5. SubSeq(b, 2, b[1] + 1) = <<>>
      BY <3>2, SubSeqEmpty
    <3>6. Leading(<<>>, Chars) = <<>>
      <4>1. <<>> \in Bytes /\ Len(<<>>) = 0
        BY Joins, EmptySeq
      <4>2. 0 \in 0 .. Len(<<>>) /\ ~(0 < Len(<<>>)) /\ \A i \in 1 .. 0 : <<>>[i] \in Chars
        BY <4>1
      <4>3. Leading(<<>>, Chars) = SubSeq(<<>>, 1, 0)
        BY <4>1, <4>2, LeadingIs
      <4> QED BY <4>3, SubSeqEmpty
    <3>7. TextField[b] = Got(Leading(<<>>, Chars), Behind(b, b[1] + 1))
      BY <3>3, <3>4, <3>5 DEF TextField
    <3>8. b[1] + 1 = 1
      BY <3>2
    <3>9. TextField[b] = Got(<<>>, t)
      BY <3>2, <3>6, <3>7, <3>8
    <3> QED BY <3>9 DEF b, z
  <2> QED BY <1>1, <1>2, <2>1, <2>2 DEF Reads
<1>3. CASE s # <<>>
  <2> DEFINE n == Len(s) + 1
             head == <<n>>
             raw == s \o <<0>>
             all == head \o raw
  <2>1. n \in Byte /\ n \in Int /\ 1 < n /\ n <= 254
    <3>1. Len(s) + 1 < 255 /\ Len(s) # 0
      BY <1>1, <1>3, EmptySeq DEF TextFits, Bytes
    <3>2. n \in Int /\ 1 < n /\ n <= 254
      BY <1>1, <3>1
    <3> QED BY <3>2, Widths
  <2>2. head \in Bytes /\ Len(head) = 1 /\ head[1] = n
    BY <2>1 DEF Bytes
  <2>3. raw \in Bytes /\ Len(raw) = n /\ raw # <<>>
    <3>1. raw \in Bytes /\ Len(raw) = n
      BY <1>1, Joins
    <3> QED BY <2>1, <3>1, EmptySeq
  <2>4. 0 \in ToSet(raw)
    <3>1. n \in 1 .. Len(s) + Len(<<0>>)
      BY <1>1
    <3>2. raw[n] = <<0>>[n - Len(s)] /\ n - Len(s) = 1
      BY <1>1, <3>1, ConcatProperties DEF Bytes
    <3>3. n \in DOMAIN raw
      BY <1>1, <2>1, <2>3, LenProperties DEF Bytes
    <3> QED BY <3>2, <3>3 DEF ToSet
  <2>5. Leading(raw, Chars) = s
    <3>1. raw \o <<>> = raw /\ <<>> \in Bytes
      BY <2>3, Joins
    <3> QED BY <3>1, LeadingOfString
  <2>6. Text(s) = all
    BY <1>1, <1>3, Joins, <2>2 DEF Text
  <2> HIDE DEF n, head, raw
  <2>7. all \in Bytes /\ Len(all) = n + 1
    <3>1. head \o raw \in Bytes /\ Len(head \o raw) = Len(head) + Len(raw)
      BY <2>2, <2>3, Join
    <3> QED BY <2>1, <2>2, <2>3, <3>1
  <2>8. ASSUME NEW t \in Bytes PROVE TextField[all \o t] = Got(s, t)
    <3> DEFINE b == all \o t
    <3>1. b \in Bytes /\ Len(b) = n + 1 + Len(t) /\ Len(t) \in Nat
      BY <2>7, Joins
    <3>2. b = head \o (raw \o t) /\ raw \o t \in Bytes
      BY <2>2, <2>3, Joins
    <3> HIDE DEF all
    <3>3. b[1] = n
      <4> HIDE DEF b
      <4>1. 1 \in 1 .. Len(head)
        BY <2>2
      <4> QED BY <2>2, <3>2, <4>1, PartFront
    <3>4. Behind(b, n + 1) = t
      BY <2>7, PartFront
    <3>5. SubSeq(b, 2, n + 1) = raw
      <4>1. SubSeq(b, 2, n + 1) = SubSeq(all, 2, n + 1)
        <5>1. n + 1 \in 0 .. Len(all) /\ 2 \in Nat \ {0}
          BY <2>1, <2>7
        <5> QED BY <2>7, <5>1, PartSub
      <4>2. SubSeq(all, 2, n + 1) = Behind(all, 1)
        BY <2>7 DEF Behind
      <4>3. Behind(all, 1) = raw
        BY <2>2, <2>3, PartFront DEF all
      <4> QED BY <4>1, <4>2, <4>3
    <3> HIDE DEF b
    <3>6. b # <<>> /\ ~(Len(b) <= b[1])
      BY <2>1, <3>1, <3>3, EmptySeq
    <3>7. TextField[b] = Got(Leading(raw, Chars), Behind(b, b[1] + 1))
      BY <2>4, <3>1, <3>3, <3>5, <3>6 DEF TextField
    <3>8. TextField[b] = Got(s, t)
      BY <2>5, <3>3, <3>4, <3>7
    <3> QED BY <3>8 DEF b
  <2> QED BY <2>6, <2>7, <2>8 DEF Reads
<1> QED BY <1>2, <1>3

(* A list with so many entries is read as long as each of them is.         *)
LEMMA SeqSpread ==
  ASSUME NEW V, NEW n \in Nat, NEW v \in Tuples([i \in 1 .. n |-> V])
  PROVE  v \in Seq(V) /\ Len(v) = n
<1> DEFINE Vs == [i \in 1 .. n |-> V]
<1>1. Len(Vs) = n /\ \A i \in 1 .. n : Vs[i] = V
  OBVIOUS
<1> HIDE DEF Vs
<1>2. UNION {Vs[i] : i \in 1 .. Len(Vs)} \subseteq V
  BY <1>1
<1>3. v \in Seq(UNION {Vs[i] : i \in 1 .. Len(Vs)}) /\ Len(v) = Len(Vs)
  BY DEF Tuples, Vs
<1> QED BY <1>1, <1>2, <1>3, SeqMonotonic

-----------------------------------------------------------------------------
(* A list of local entries is local, and gives a list of what the entries  *)
(* give.                                                                   *)
LEMMA ListFields ==
  ASSUME NEW entry, Local(entry)
  PROVE  /\ Local(ListOf(entry))
         /\ \A V : Yields(entry, V) => Yields(ListOf(entry), Seq(V))
<1> DEFINE h == ListOf(entry)
           rep(n) == [i \in 1 .. n |-> entry]
<1>1. \A n \in Count : Len(rep(n)) = n /\ n \in Nat /\ \A i \in 1 .. n : rep(n)[i] = entry
  BY Widths
<1>2. \A b \in Bytes : h[b] = IF Len(b) < 2 THEN Refusal
                               ELSE InOrder(rep(Number(b)))[Behind(b, 2)]
  BY DEF ListOf
<1> HIDE DEF h, rep
<1>3. \A n \in Count : Local(InOrder(rep(n)))
  BY <1>1, InOrderLocal
<1>4. ASSUME NEW b \in Bytes, h[b].ok
      PROVE  /\ Len(b) >= 2 /\ Number(b) \in Count /\ Behind(b, 2) \in Bytes
             /\ InOrder(rep(Number(b)))[Behind(b, 2)].ok
             /\ h[b] = InOrder(rep(Number(b)))[Behind(b, 2)]
  <2>1. ~(Len(b) < 2)
    BY <1>2, <1>4, Results
  <2>2. Len(b) >= 2
    BY <2>1, Joins
  <2> QED BY <1>2, <1>4, <2>1, <2>2, TwoFirst, Joins
<1>5. Local(h)
  <2> SUFFICES ASSUME NEW b \in Bytes, h[b].ok
               PROVE  /\ h[b].rest \in Bytes
                      /\ h[b] = Got(h[b].value, h[b].rest)
                      /\ \A t \in Bytes : h[b \o t] = Got(h[b].value, h[b].rest \o t)
    BY DEF Local
  <2> DEFINE g == InOrder(rep(Number(b)))
             r == Behind(b, 2)
  <2>1. Local(g) /\ r \in Bytes /\ g[r].ok /\ h[b] = g[r] /\ Len(b) >= 2
    BY <1>3, <1>4
  <2>2. ASSUME NEW t \in Bytes PROVE h[b \o t] = g[r \o t]
    <3>1. /\ b \o t \in Bytes /\ ~(Len(b \o t) < 2)
          /\ Number(b \o t) = Number(b) /\ Behind(b \o t, 2) = Behind(b, 2) \o t
      BY <2>1, TwoFirst
    <3> QED BY <1>2, <3>1
  <2> HIDE DEF g, r
  <2>3. /\ g[r].rest \in Bytes /\ g[r] = Got(g[r].value, g[r].rest)
        /\ \A t \in Bytes : g[r \o t] = Got(g[r].value, g[r].rest \o t)
    BY <2>1 DEF Local
  <2> QED BY <2>1, <2>2, <2>3
<1>6. ASSUME NEW V, Yields(entry, V) PROVE Yields(h, Seq(V))
  <2> SUFFICES ASSUME NEW b \in Bytes, h[b].ok
               PROVE  h[b].rest \in Bytes /\ h[b].value \in Seq(V)
    BY DEF Yields
  <2> DEFINE n == Number(b)
             Vs == [i \in 1 .. n |-> V]
  <2>1. n \in Count /\ n \in Nat /\ Len(rep(n)) = n /\ Behind(b, 2) \in Bytes
        /\ InOrder(rep(n))[Behind(b, 2)].ok /\ h[b] = InOrder(rep(n))[Behind(b, 2)]
    BY <1>1, <1>4
  <2> HIDE DEF n
  <2>2. Len(Vs) = n /\ \A i \in 1 .. n : Vs[i] = V
    BY <2>1
  <2> HIDE DEF Vs
  <2>3. \A i \in 1 .. Len(rep(n)) : Yields(rep(n)[i], Vs[i])
    BY <1>1, <1>6, <2>1, <2>2
  <2>4. Yields(InOrder(rep(n)), Tuples(Vs))
    BY <2>1, <2>2, <2>3, InOrderYields
  <2>5. h[b].rest \in Bytes /\ h[b].value \in Tuples(Vs)
    BY <2>1, <2>4 DEF Yields
  <2> QED BY <2>1, <2>5, SeqSpread DEF Vs
<1> QED BY <1>5, <1>6 DEF h

(* A list is read as what was written if each of its entries is.           *)
LEMMA ListReads ==
  ASSUME NEW entry, NEW V, NEW list \in Seq(V), Len(list) < Word,
         NEW ss \in Seq(Bytes), Len(ss) = Len(list),
         \A i \in 1 .. Len(list) : Reads(entry, ss[i], list[i])
  PROVE  Reads(ListOf(entry), U16(Len(list)) \o FlattenSeq(ss), list)
<1> DEFINE n == Len(list)
           rep == [i \in 1 .. n |-> entry]
           s == U16(n)
           flat == FlattenSeq(ss)
<1>1. n \in Nat /\ n \in Int /\ n \in Count
  BY LenProperties, Widths
<1>2. s \in Bytes /\ Len(s) = 2 /\ flat \in Bytes
  BY <1>1, NumberIsU16, FlattenAppend, Joins
<1>3. ASSUME NEW t \in Bytes PROVE ListOf(entry)[(s \o flat) \o t] = Got(list, t)
  <2>1. Len(rep) = n /\ \A i \in 1 .. n : rep[i] = entry
    BY <1>1
  <2>2. InOrder(rep)[flat \o t] = Got(list, t)
    <3> HIDE DEF rep
    <3>1. InTurn(rep, ss, list, n, t)
      BY <2>1 DEF Reads, InTurn
    <3>2. Len(ss) = n /\ Len(list) = n
      OBVIOUS
    <3> HIDE DEF n
    <3> QED BY <1>1, <2>1, <3>1, <3>2, InOrderReads
  <2> DEFINE b == s \o (flat \o t)
  <2>3. (s \o flat) \o t = b /\ flat \o t \in Bytes
    BY <1>2, Joins
  <2>4. Number(b) = n
    <3>1. Number(b) = (n % Word)
      BY <1>1, <2>3, NumberIsU16
    <3> QED BY <1>1, <3>1, Bits
  <2> HIDE DEF s, flat, n, rep
  <2>5. b \in Bytes /\ Len(b) = Len(s) + Len(flat \o t) /\ Len(flat \o t) \in Nat
    BY <1>2, <2>3, Join
  <2>6. Behind(b, 2) = flat \o t
    <3>1. Behind(s \o (flat \o t), Len(s)) = flat \o t
      BY <1>2, <2>3, PartFront
    <3> QED BY <1>2, <3>1
  <2> HIDE DEF b
  <2>7. ListOf(entry)[b] = InOrder(rep)[flat \o t]
    <3>1. ~(Len(b) < 2)
      BY <1>2, <2>5
    <3>2. ListOf(entry)[b] =
            InOrder([i \in 1 .. Number(b) |-> entry])[Behind(b, 2)]
      BY <2>5, <3>1 DEF ListOf
    <3>3. [i \in 1 .. Number(b) |-> entry] = rep
      BY <2>4 DEF rep
    <3> QED BY <2>6, <3>2, <3>3
  <2> QED BY <2>2, <2>3, <2>7
<1> QED BY <1>2, <1>3, Join DEF Reads

-----------------------------------------------------------------------------
(* Ratio_decode() looks at three bytes only, and gives a number within 100 *)
(* percent.                                                                *)
LEMMA RatioFields ==
  Local(RatioField) /\ Yields(RatioField, Percent)
<1> DEFINE word(b) == Unblanked(SubSeq(b, 1, 3))
           digits(b) == LeadingDigits(word(b))
           n(b) == Decimal(digits(b))
           Bad(b) == \/ digits(b) = <<>>
                     \/ n(b) \notin Percent
                     \/ word(b)[1] = 45 /\ n(b) # 0
<1>1. \A b \in Bytes : RatioField[b] =
        IF Len(b) < 3 THEN Refusal
        ELSE IF Bad(b) THEN Refusal ELSE Got(n(b), Behind(b, 3))
  BY Zenon DEF RatioField
<1>2. \A b, c : SubSeq(b, 1, 3) = SubSeq(c, 1, 3) => (Bad(b) <=> Bad(c)) /\ n(b) = n(c)
  BY Zenon
<1>3. \A b : ~Bad(b) => n(b) \in Percent
  OBVIOUS
<1> HIDE DEF Bad, n
<1>4. ASSUME NEW b \in Bytes, RatioField[b].ok
      PROVE  /\ 3 \in 0 .. Len(b) /\ Len(b) >= 3 /\ ~Bad(b)
             /\ RatioField[b] = Got(n(b), Behind(b, 3))
  <2>1. ~(Len(b) < 3) /\ ~Bad(b)
    BY <1>1, <1>4, Results
  <2> QED BY <1>1, <2>1, Joins
<1>5. ASSUME NEW b \in Bytes, RatioField[b].ok, NEW t \in Bytes
      PROVE  RatioField[b \o t] = Got(n(b), Behind(b, 3) \o t)
  <2> DEFINE u == b \o t
  <2>1. 3 \in 0 .. Len(b) /\ Len(b) >= 3 /\ ~Bad(b) /\ 1 \in Nat \ {0}
    BY <1>4, <1>5
  <2>2. u \in Bytes /\ Len(u) = Len(b) + Len(t) /\ Len(b) \in Nat /\ Len(t) \in Nat
    BY Join
  <2>3. SubSeq(u, 1, 3) = SubSeq(b, 1, 3)
    BY <2>1, PartSub
  <2>4. Behind(u, 3) = Behind(b, 3) \o t
    BY <2>1, PartBehind
  <2> HIDE DEF u
  <2>5. ~(Len(u) < 3)
    BY <2>1, <2>2
  <2>6. ~Bad(u) /\ n(u) = n(b)
    BY <1>2, <2>1, <2>3
  <2>7. RatioField[u] = Got(n(b), Behind(b, 3) \o t)
    BY <1>1, <2>2, <2>4, <2>5, <2>6
  <2> QED BY <2>7 DEF u
<1>6. ASSUME NEW b \in Bytes, RatioField[b].ok
      PROVE  /\ RatioField[b].rest \in Bytes /\ RatioField[b].rest = Behind(b, 3)
             /\ RatioField[b].value = n(b) /\ n(b) \in Percent
             /\ RatioField[b] = Got(RatioField[b].value, RatioField[b].rest)
  <2>1. 3 \in 0 .. Len(b) /\ ~Bad(b) /\ RatioField[b] = Got(n(b), Behind(b, 3))
    BY <1>4, <1>6
  <2>2. Behind(b, 3) \in Bytes
    BY <2>1, PartBehind, Joins
  <2> QED BY <1>3, <2>1, <2>2, Results
<1>7. Local(RatioField)
  BY <1>5, <1>6 DEF Local
<1>8. Yields(RatioField, Percent)
  BY <1>6 DEF Yields
<1> QED BY <1>7, <1>8

(* Up to three characters with a prefix of a set.                          *)
LEMMA Short3 ==
  ASSUME NEW x \in Byte, NEW y \in Byte, NEW z \in Byte
  PROVE  /\ <<x, y, z>> \in Bytes /\ Len(<<x, y, z>>) = 3
         /\ <<y, z>> \in Bytes /\ Len(<<y, z>>) = 2
         /\ <<z>> \in Bytes /\ Len(<<z>>) = 1
         /\ SubSeq(<<x, y, z>>, 1, 3) = <<x, y, z>>
         /\ SubSeq(<<x, y, z>>, 2, 3) = <<y, z>>
         /\ SubSeq(<<x, y, z>>, 3, 3) = <<z>>
<1>1. /\ <<x, y, z>> \in Bytes /\ Len(<<x, y, z>>) = 3
      /\ <<y, z>> \in Bytes /\ Len(<<y, z>>) = 2
      /\ <<z>> \in Bytes /\ Len(<<z>>) = 1
  BY DEF Bytes
<1> DEFINE s == <<x, y, z>>
<1>2. s \in Bytes /\ Len(s) = 3 /\ s[1] = x /\ s[2] = y /\ s[3] = z
  BY <1>1
<1> HIDE DEF s
<1>3. SubSeq(s, 1, 3) = s
  BY <1>2, SubSeqFull DEF Bytes
<1>4. \A i \in 1 .. 3 : s[i] \in Byte
  BY <1>2
<1>5. SubSeq(s, 2, 3) = <<y, z>>
  <2>1. /\ SubSeq(s, 2, 3) \in Seq(Byte)
        /\ Len(SubSeq(s, 2, 3)) = IF 2 <= 3 THEN 3 - 2 + 1 ELSE 0
        /\ \A i \in 1 .. 3 - 2 + 1 : SubSeq(s, 2, 3)[i] = s[2 + i - 1]
    <3>1. \A i \in 2 .. 3 : s[i] \in Byte
      BY <1>4
    <3> QED BY <3>1, SubSeqProperties
  <2> DEFINE u == SubSeq(s, 2, 3)
  <2>2. u \in Seq(Byte) /\ Len(u) = 2 /\ u[1] = y /\ u[2] = z
    BY <1>2, <2>1
  <2> HIDE DEF u
  <2> DEFINE v == <<y, z>>
  <2>3. v \in Seq(Byte) /\ Len(v) = 2 /\ v[1] = y /\ v[2] = z
    OBVIOUS
  <2> HIDE DEF v
  <2>4. u = v
    BY <2>2, <2>3, SeqEqual
  <2> QED BY <2>4 DEF u, v
<1>6. SubSeq(s, 3, 3) = <<z>>
  <2>1. /\ SubSeq(s, 3, 3) \in Seq(Byte)
        /\ Len(SubSeq(s, 3, 3)) = IF 3 <= 3 THEN 3 - 3 + 1 ELSE 0
        /\ \A i \in 1 .. 3 - 3 + 1 : SubSeq(s, 3, 3)[i] = s[3 + i - 1]
    <3>1. \A i \in 3 .. 3 : s[i] \in Byte
      BY <1>4
    <3> QED BY <3>1, SubSeqProperties
  <2> DEFINE u == SubSeq(s, 3, 3)
  <2>2. u \in Seq(Byte) /\ Len(u) = 1 /\ u[1] = z
    BY <1>2, <2>1
  <2> HIDE DEF u
  <2> DEFINE v == <<z>>
  <2>3. v \in Seq(Byte) /\ Len(v) = 1 /\ v[1] = z
    OBVIOUS
  <2> HIDE DEF v
  <2>4. u = v
    BY <2>2, <2>3, SeqEqual
  <2> QED BY <2>4 DEF u, v
<1> QED BY <1>1, <1>2, <1>3, <1>5, <1>6 DEF s

(* A prefix that stops at once.                                            *)
LEMMA LeadingNone ==
  ASSUME NEW b \in Bytes, NEW chars, Len(b) >= 1, b[1] \notin chars
  PROVE  Leading(b, chars) = <<>>
<1>1. 0 \in 0 .. Len(b) /\ \A i \in 1 .. 0 : b[i] \in chars
  BY Joins
<1>2. Leading(b, chars) = SubSeq(b, 1, 0)
  BY <1>1, LeadingIs
<1> QED BY <1>2, SubSeqEmpty

(* A prefix that never stops.                                              *)
LEMMA LeadingAll ==
  ASSUME NEW b \in Bytes, NEW chars, \A i \in 1 .. Len(b) : b[i] \in chars
  PROVE  Leading(b, chars) = b
<1>1. Len(b) \in 0 .. Len(b) /\ ~(Len(b) < Len(b))
  BY Joins
<1>2. Leading(b, chars) = SubSeq(b, 1, Len(b))
  BY <1>1, LeadingIs
<1> QED BY <1>2, SubSeqFull DEF Bytes

(* Digits alone are all read, and are neither a sign nor blanks.           *)
LEMMA DigitsRead ==
  ASSUME NEW d \in Bytes, d # <<>>, \A i \in 1 .. Len(d) : d[i] \in Digits
  PROVE  LeadingDigits(d) = d /\ d[1] # 45 /\ d[1] \notin Blanks
<1>1. Len(d) \in Nat /\ Len(d) # 0
  BY Joins, EmptySeq DEF Bytes
<1>2. d[1] \in Digits
  BY <1>1
<1>3. d[1] \notin Signs /\ d[1] # 45 /\ d[1] \notin Blanks
  BY <1>2 DEF Digits, Signs, Blanks
<1> QED BY <1>3, LeadingAll DEF LeadingDigits

(* Ratio_decode() reads what Ratio_encode() wrote: one, two or three       *)
(* digits, right aligned.                                                  *)
LEMMA RatioReads ==
  ASSUME NEW n \in Percent
  PROVE  Reads(RatioField, RatioText(n), n)
<1> DEFINE c == RatioText(n)
<1>1. /\ c \in Bytes /\ Len(c) = 3
      /\ \E d \in Bytes : /\ Unblanked(c) = d /\ d # <<>> /\ Decimal(d) = n
                          /\ \A i \in 1 .. Len(d) : d[i] \in Digits
  <2>0. n \in Int /\ 0 <= n /\ n <= 100
    BY SMT DEF Percent
  <2>1. /\ (n % 10) \in Int /\ 0 <= (n % 10) /\ (n % 10) <= 9
        /\ (n \div 10) \in Int /\ n = 10 * (n \div 10) + (n % 10)
    BY <2>0, SMT
  <2> DEFINE z == 48 + (n % 10)
  <2>2. z \in Byte /\ z \in Digits /\ z \in Int /\ z - 48 = (n % 10)
    <3>1. z \in Int /\ 48 <= z /\ z <= 57 /\ z - 48 = (n % 10)
      BY <2>1
    <3> HIDE DEF z
    <3>2. z \in Byte /\ z \in Digits
      BY <3>1, Widths DEF Digits
    <3> QED BY <3>1, <3>2
  <2>3. 32 \in Byte /\ 32 \in Blanks /\ 48 \in Byte /\ 49 \in Byte
        /\ 48 \in Digits /\ 49 \in Digits
    BY Widths DEF Blanks, Digits
  <2>4. CASE n = 100
    <3>1. c = <<49, 48, 48>>
      BY <2>4, SMT DEF RatioText
    <3>2. c \in Bytes /\ Len(c) = 3 /\ SubSeq(c, 1, 3) = c
      <4>1. /\ <<49, 48, 48>> \in Bytes /\ Len(<<49, 48, 48>>) = 3
            /\ SubSeq(<<49, 48, 48>>, 1, 3) = <<49, 48, 48>>
        BY <2>3, Short3
      <4> HIDE DEF c
      <4> QED BY <3>1, <4>1
    <3>3. c[1] = 49 /\ c[2] = 48 /\ c[3] = 48
      BY <3>1
    <3>4. 49 \notin Blanks
      BY DEF Blanks
    <3> HIDE DEF c
    <3>5. Leading(c, Blanks) = <<>>
      BY <3>2, <3>3, <3>4, LeadingNone
    <3>6. Unblanked(c) = c
      BY <3>2, <3>5, EmptySeq DEF Unblanked, Behind
    <3>7. c # <<>> /\ \A i \in 1 .. Len(c) : c[i] \in Digits
      <4>1. \A i \in 1 .. Len(c) : i = 1 \/ i = 2 \/ i = 3
        BY <3>2
      <4>0. Len(c) = 3
        BY <3>2
      <4>2. c # <<>>
        BY <4>0, EmptySeq
      <4> QED BY <2>3, <3>3, <4>1, <4>2
    <3>8. Decimal(c) = n
      <4>1. Decimal(c) = 100 * (49 - 48) + 10 * (48 - 48) + 48 - 48
        BY <3>2, <3>3 DEF Decimal
      <4> QED BY <2>4, <4>1
    <3> QED BY <3>2, <3>6, <3>7, <3>8
  <2>5. CASE n < 100 /\ n >= 10
    <3> DEFINE y == 48 + ((n \div 10) % 10)
    <3>1. y \in Byte /\ y \in Digits /\ y \in Int /\ y - 48 = (n \div 10)
      <4>1. (n \div 10) \in Int /\ 1 <= (n \div 10) /\ (n \div 10) <= 9
        BY <2>0, <2>1, <2>5
      <4>2. ((n \div 10) % 10) = (n \div 10)
        BY <4>1
      <4>3. y \in Int /\ 48 <= y /\ y <= 57 /\ y - 48 = (n \div 10)
        BY <4>1, <4>2
      <4> HIDE DEF y
      <4>4. y \in Byte /\ y \in Digits
        BY <4>3, Widths DEF Digits
      <4> QED BY <4>3, <4>4
    <3>2. c = <<32, y, z>>
      <4>1. ~(n >= 100) /\ n >= 10
        BY <2>0, <2>5
      <4> QED BY <4>1 DEF RatioText
    <3> HIDE DEF c, y, z
    <3> DEFINE d == <<y, z>>
    <3>3. c \in Bytes /\ Len(c) = 3 /\ d \in Bytes /\ Len(d) = 2
          /\ SubSeq(c, 2, 3) = d
      <4>1. /\ <<32, y, z>> \in Bytes /\ Len(<<32, y, z>>) = 3
            /\ <<y, z>> \in Bytes /\ Len(<<y, z>>) = 2
            /\ SubSeq(<<32, y, z>>, 2, 3) = <<y, z>>
        <5>1. 32 \in Byte /\ y \in Byte /\ z \in Byte
          BY <2>2, <2>3, <3>1
        <5> QED BY <5>1, Short3
      <4> QED BY <3>2, <4>1
    <3>4. c[1] = 32 /\ c[2] = y /\ d[1] = y /\ d[2] = z
      BY <3>2
    <3>5. y \notin Blanks
      BY <3>1 DEF Blanks, Digits
    <3>6. Leading(c, Blanks) = SubSeq(c, 1, 1) /\ Len(SubSeq(c, 1, 1)) = 1
      <4>1. 1 \in 0 .. Len(c) /\ \A i \in 1 .. 1 : c[i] \in Blanks
        BY <2>3, <3>3, <3>4
      <4>2. c[1 + 1] \notin Blanks
        BY <3>4, <3>5
      <4>3. Leading(c, Blanks) = SubSeq(c, 1, 1)
        BY <3>3, <4>1, <4>2, LeadingIs
      <4>4. Len(SubSeq(c, 1, 1)) = 1
        BY <3>3, <4>1, SubSeqOne
      <4> QED BY <4>3, <4>4
    <3>7. Unblanked(c) = d
      <4>1. Unblanked(c) = Behind(c, 1)
        BY <3>6 DEF Unblanked
      <4>2. Behind(c, 1) = SubSeq(c, 2, 3)
        BY <3>3 DEF Behind
      <4> QED BY <3>3, <4>1, <4>2
    <3> HIDE DEF d
    <3>8. d # <<>> /\ \A i \in 1 .. Len(d) : d[i] \in Digits
      <4>1. d # <<>>
        BY <3>3, EmptySeq
      <4>2. d[1] \in Digits /\ d[2] \in Digits
        BY <2>2, <3>1, <3>4
      <4>3. \A i \in 1 .. 2 : i = 1 \/ i = 2
        OBVIOUS
      <4> QED BY <3>3, <4>1, <4>2, <4>3
    <3>9. Decimal(d) = n
      <4>1. Decimal(d) = 10 * (y - 48) + z - 48
        BY <3>3, <3>4 DEF Decimal
      <4> QED BY <2>1, <2>2, <3>1, <4>1
    <3> QED BY <3>3, <3>7, <3>8, <3>9
  <2>6. CASE n < 10
    <3>1. c = <<32, 32, z>> /\ (n % 10) = n
      BY <2>0, <2>6 DEF RatioText
    <3> HIDE DEF c, z
    <3> DEFINE d == <<z>>
    <3>2. c \in Bytes /\ Len(c) = 3 /\ d \in Bytes /\ Len(d) = 1
          /\ SubSeq(c, 3, 3) = d
      <4>1. 32 \in Byte /\ z \in Byte
        BY <2>2, <2>3
      <4>2. /\ <<32, 32, z>> \in Bytes /\ Len(<<32, 32, z>>) = 3
            /\ <<z>> \in Bytes /\ Len(<<z>>) = 1
            /\ SubSeq(<<32, 32, z>>, 3, 3) = <<z>>
        BY <4>1, Short3
      <4> QED BY <3>1, <4>2
    <3>3. c[1] = 32 /\ c[2] = 32 /\ c[3] = z /\ d[1] = z
      BY <3>1
    <3>4. z \notin Blanks
      BY <2>2 DEF Blanks, Digits
    <3>5. Leading(c, Blanks) = SubSeq(c, 1, 2) /\ Len(SubSeq(c, 1, 2)) = 2
      <4>1. 2 \in 0 .. Len(c) /\ \A i \in 1 .. 2 : c[i] \in Blanks
        BY <2>3, <3>2, <3>3
      <4>2. c[2 + 1] \notin Blanks
        BY <3>3, <3>4
      <4>3. Leading(c, Blanks) = SubSeq(c, 1, 2)
        BY <3>2, <4>1, <4>2, LeadingIs
      <4>4. Len(SubSeq(c, 1, 2)) = 2
        BY <3>2, <4>1, SubSeqOne
      <4> QED BY <4>3, <4>4
    <3>6. Unblanked(c) = d
      <4>1. Unblanked(c) = Behind(c, 2)
        BY <3>5 DEF Unblanked
      <4>2. Behind(c, 2) = SubSeq(c, 3, 3)
        BY <3>2 DEF Behind
      <4> QED BY <3>2, <4>1, <4>2
    <3> HIDE DEF d
    <3>7. d # <<>> /\ \A i \in 1 .. Len(d) : d[i] \in Digits
      BY <2>2, <3>2, <3>3, EmptySeq
    <3>8. Decimal(d) = n
      <4>1. Decimal(d) = z - 48
        BY <3>2, <3>3 DEF Decimal
      <4> QED BY <2>2, <3>1, <4>1
    <3> QED BY <3>2, <3>6, <3>7, <3>8
  <2> QED BY <2>0, <2>4, <2>5, <2>6
<1> HIDE DEF c
<1>2. PICK d \in Bytes : /\ Unblanked(c) = d /\ d # <<>> /\ Decimal(d) = n
                         /\ \A i \in 1 .. Len(d) : d[i] \in Digits
  BY <1>1
<1>3. LeadingDigits(d) = d /\ d[1] # 45
  BY <1>2, DigitsRead
<1>4. ASSUME NEW t \in Bytes PROVE RatioField[c \o t] = Got(n, t)
  <2> DEFINE b == c \o t
  <2>1. b \in Bytes /\ Len(b) = 3 + Len(t) /\ Len(t) \in Nat
    <3>1. Len(c \o t) = Len(c) + Len(t) /\ c \o t \in Bytes /\ Len(t) \in Nat
      BY <1>1, Join
    <3> QED BY <1>1, <3>1
  <2>2. SubSeq(b, 1, 3) = c /\ Behind(b, 3) = t
    <3>1. SubSeq(b, 1, Len(c)) = c /\ Behind(b, Len(c)) = t
      BY <1>1, PartFront
    <3> QED BY <1>1, <3>1
  <2> HIDE DEF b
  <2>3. ~(Len(b) < 3)
    BY <2>1
  <2>4. RatioField[b] =
          IF \/ LeadingDigits(Unblanked(c)) = <<>>
             \/ Decimal(LeadingDigits(Unblanked(c))) \notin Percent
             \/ Unblanked(c)[1] = 45 /\ Decimal(LeadingDigits(Unblanked(c))) # 0
          THEN Refusal ELSE Got(Decimal(LeadingDigits(Unblanked(c))), t)
    BY <2>1, <2>2, <2>3, Zenon DEF RatioField
  <2>5. RatioField[b] = Got(n, t)
    BY <1>2, <1>3, <2>4, Zenon
  <2> QED BY <2>5 DEF b
<1> QED BY <1>1, <1>4 DEF Reads, c

-----------------------------------------------------------------------------
(* A record is read as what was written if each of its fields is.          *)
LEMMA RecordReads ==
  ASSUME NEW fields, NEW N \in Nat, Len(fields) = N,
         NEW ss \in Seq(Bytes), Len(ss) = N,
         NEW V, NEW vs \in Seq(V), Len(vs) = N,
         \A i \in 1 .. N : Reads(fields[i], ss[i], vs[i])
  PROVE  Reads(InOrder(fields), FlattenSeq(ss), vs)
<1>1. ASSUME NEW t \in Bytes PROVE InOrder(fields)[FlattenSeq(ss) \o t] = Got(vs, t)
  <2>1. InTurn(fields, ss, vs, N, t)
    BY DEF Reads, InTurn
  <2> QED BY <2>1, InOrderReads
<1>2. FlattenSeq(ss) \in Bytes
  BY FlattenAppend, Joins
<1> QED BY <1>1, <1>2 DEF Reads

(* One part.                                                               *)
LEMMA FlattenOne ==
  ASSUME NEW s \in Bytes
  PROVE  FlattenSeq(<<s>>) = s
<1>1. <<s>> = Append(<<>>, s) /\ <<>> \in Seq(Bytes)
  BY EmptySeq
<1>2. FlattenSeq(Append(<<>>, s)) = FlattenSeq(<<>>) \o s
  BY <1>1, FlattenAppend
<1>3. <<>> \o s = s
  BY Joins
<1> QED BY <1>1, <1>2, <1>3, FlattenEmpty

(* What append does to a sequence.                                         *)
LEMMA Appended ==
  ASSUME NEW S, NEW ss \in Seq(S), NEW s \in S
  PROVE  /\ Append(ss, s) \in Seq(S) /\ Len(Append(ss, s)) = Len(ss) + 1
         /\ \A i \in 1 .. Len(ss) : Append(ss, s)[i] = ss[i]
         /\ Append(ss, s)[Len(ss) + 1] = s
BY AppendProperties

(* Two parts.                                                              *)
LEMMA FlattenTwo ==
  ASSUME NEW s1 \in Bytes, NEW s2 \in Bytes
  PROVE  FlattenSeq(<<s1, s2>>) = s1 \o s2
<1> DEFINE one == <<s1>>
           both == <<s1, s2>>
           more == Append(one, s2)
<1>1. /\ one \in Seq(Bytes) /\ Len(one) = 1 /\ one[1] = s1
      /\ both \in Seq(Bytes) /\ Len(both) = 2 /\ both[1] = s1 /\ both[2] = s2
  OBVIOUS
<1> HIDE DEF one, both
<1>2. /\ more \in Seq(Bytes) /\ Len(more) = 2 /\ more[1] = s1 /\ more[2] = s2
  <2>1. 1 \in 1 .. Len(one) /\ Len(one) + 1 = 2
    BY <1>1
  <2> QED BY <1>1, <2>1, Appended
<1> HIDE DEF more
<1>3. \A i \in 1 .. Len(both) : both[i] = more[i]
  BY <1>1, <1>2
<1>4. both = more
  BY <1>1, <1>2, <1>3, SeqEqual
<1>5. FlattenSeq(more) = FlattenSeq(one) \o s2
  BY <1>1, FlattenAppend DEF more
<1> QED BY <1>4, <1>5, FlattenOne DEF one, both

(* A record of one field.                                                  *)
LEMMA OneReads ==
  ASSUME NEW f, NEW s, NEW v, Reads(f, s, v)
  PROVE  Reads(InOrder(<<f>>), s, <<v>>)
<1>1. s \in Bytes
  BY DEF Reads
<1> DEFINE ss == <<s>>
           vs == <<v>>
           fields == <<f>>
<1>2. ss \in Seq(Bytes) /\ Len(ss) = 1 /\ vs \in Seq({v}) /\ Len(vs) = 1
      /\ Len(fields) = 1 /\ ss[1] = s /\ vs[1] = v /\ fields[1] = f
  BY <1>1
<1> HIDE DEF ss, vs, fields
<1>3. \A i \in 1 .. 1 : Reads(fields[i], ss[i], vs[i])
  BY <1>2
<1>4. Reads(InOrder(fields), FlattenSeq(ss), vs)
  BY <1>2, <1>3, RecordReads
<1> QED BY <1>1, <1>4, FlattenOne DEF ss, vs, fields

(* A record of two fields.                                                 *)
LEMMA TwoReads ==
  ASSUME NEW f1, NEW s1, NEW v1, Reads(f1, s1, v1),
         NEW f2, NEW s2, NEW v2, Reads(f2, s2, v2)
  PROVE  Reads(InOrder(<<f1, f2>>), FlattenSeq(<<s1, s2>>), <<v1, v2>>)
<1>1. s1 \in Bytes /\ s2 \in Bytes
  BY DEF Reads
<1> DEFINE ss == <<s1, s2>>
           vs == <<v1, v2>>
           fields == <<f1, f2>>
<1>2. /\ ss \in Seq(Bytes) /\ Len(ss) = 2 /\ Len(vs) = 2 /\ Len(fields) = 2
      /\ ss[1] = s1 /\ vs[1] = v1 /\ fields[1] = f1
      /\ ss[2] = s2 /\ vs[2] = v2 /\ fields[2] = f2
  BY <1>1
<1>3. vs \in Seq({v1, v2})
  OBVIOUS
<1> HIDE DEF ss, vs, fields
<1>4. \A i \in 1 .. 2 : Reads(fields[i], ss[i], vs[i])
  BY <1>2
<1>5. Reads(InOrder(fields), FlattenSeq(ss), vs)
  BY <1>2, <1>3, <1>4, RecordReads
<1> QED BY <1>5 DEF ss, vs, fields

(* A record of three fields.                                               *)
LEMMA ThreeReads ==
  ASSUME NEW f1, NEW s1, NEW v1, Reads(f1, s1, v1),
         NEW f2, NEW s2, NEW v2, Reads(f2, s2, v2),
         NEW f3, NEW s3, NEW v3, Reads(f3, s3, v3)
  PROVE  Reads(InOrder(<<f1, f2, f3>>), FlattenSeq(<<s1, s2, s3>>), <<v1, v2, v3>>)
<1>1. s1 \in Bytes /\ s2 \in Bytes /\ s3 \in Bytes
  BY DEF Reads
<1> DEFINE ss == <<s1, s2, s3>>
           vs == <<v1, v2, v3>>
           fields == <<f1, f2, f3>>
<1>2. /\ ss \in Seq(Bytes) /\ Len(ss) = 3 /\ Len(vs) = 3 /\ Len(fields) = 3
      /\ ss[1] = s1 /\ vs[1] = v1 /\ fields[1] = f1
      /\ ss[2] = s2 /\ vs[2] = v2 /\ fields[2] = f2
      /\ ss[3] = s3 /\ vs[3] = v3 /\ fields[3] = f3
  BY <1>1
<1>3. vs \in Seq({v1, v2, v3})
  OBVIOUS
<1> HIDE DEF ss, vs, fields
<1>4. \A i \in 1 .. 3 : Reads(fields[i], ss[i], vs[i])
  BY <1>2
<1>5. Reads(InOrder(fields), FlattenSeq(ss), vs)
  BY <1>2, <1>3, <1>4, RecordReads
<1> QED BY <1>5 DEF ss, vs, fields

(* A record of five fields.                                                *)
LEMMA FiveReads ==
  ASSUME NEW f1, NEW s1, NEW v1, Reads(f1, s1, v1),
         NEW f2, NEW s2, NEW v2, Reads(f2, s2, v2),
         NEW f3, NEW s3, NEW v3, Reads(f3, s3, v3),
         NEW f4, NEW s4, NEW v4, Reads(f4, s4, v4),
         NEW f5, NEW s5, NEW v5, Reads(f5, s5, v5)
  PROVE  Reads(InOrder(<<f1, f2, f3, f4, f5>>),
               FlattenSeq(<<s1, s2, s3, s4, s5>>), <<v1, v2, v3, v4, v5>>)
<1>1. s1 \in Bytes /\ s2 \in Bytes /\ s3 \in Bytes /\ s4 \in Bytes /\ s5 \in Bytes
  BY DEF Reads
<1> DEFINE ss == <<s1, s2, s3, s4, s5>>
           vs == <<v1, v2, v3, v4, v5>>
           fields == <<f1, f2, f3, f4, f5>>
<1>2. /\ ss \in Seq(Bytes) /\ Len(ss) = 5 /\ Len(vs) = 5 /\ Len(fields) = 5
      /\ ss[1] = s1 /\ vs[1] = v1 /\ fields[1] = f1
      /\ ss[2] = s2 /\ vs[2] = v2 /\ fields[2] = f2
      /\ ss[3] = s3 /\ vs[3] = v3 /\ fields[3] = f3
      /\ ss[4] = s4 /\ vs[4] = v4 /\ fields[4] = f4
      /\ ss[5] = s5 /\ vs[5] = v5 /\ fields[5] = f5
  BY <1>1
<1>3. vs \in Seq({v1, v2, v3, v4, v5})
  OBVIOUS
<1> HIDE DEF ss, vs, fields
<1>4. \A i \in 1 .. 5 : Reads(fields[i], ss[i], vs[i])
  BY <1>2
<1>5. Reads(InOrder(fields), FlattenSeq(ss), vs)
  BY <1>2, <1>3, <1>4, RecordReads
<1> QED BY <1>5 DEF ss, vs, fields

(* A record of seven fields.                                               *)
LEMMA SevenReads ==
  ASSUME NEW f1, NEW s1, NEW v1, Reads(f1, s1, v1),
         NEW f2, NEW s2, NEW v2, Reads(f2, s2, v2),
         NEW f3, NEW s3, NEW v3, Reads(f3, s3, v3),
         NEW f4, NEW s4, NEW v4, Reads(f4, s4, v4),
         NEW f5, NEW s5, NEW v5, Reads(f5, s5, v5),
         NEW f6, NEW s6, NEW v6, Reads(f6, s6, v6),
         NEW f7, NEW s7, NEW v7, Reads(f7, s7, v7)
  PROVE  Reads(InOrder(<<f1, f2, f3, f4, f5, f6, f7>>),
               FlattenSeq(<<s1, s2, s3, s4, s5, s6, s7>>),
               <<v1, v2, v3, v4, v5, v6, v7>>)
<1>1. /\ s1 \in Bytes /\ s2 \in Bytes /\ s3 \in Bytes /\ s4 \in Bytes
      /\ s5 \in Bytes /\ s6 \in Bytes /\ s7 \in Bytes
  BY DEF Reads
<1> DEFINE ss == <<s1, s2, s3, s4, s5, s6, s7>>
           vs == <<v1, v2, v3, v4, v5, v6, v7>>
           fields == <<f1, f2, f3, f4, f5, f6, f7>>
<1>2. /\ ss \in Seq(Bytes) /\ Len(ss) = 7 /\ Len(vs) = 7 /\ Len(fields) = 7
      /\ ss[1] = s1 /\ vs[1] = v1 /\ fields[1] = f1
      /\ ss[2] = s2 /\ vs[2] = v2 /\ fields[2] = f2
      /\ ss[3] = s3 /\ vs[3] = v3 /\ fields[3] = f3
      /\ ss[4] = s4 /\ vs[4] = v4 /\ fields[4] = f4
      /\ ss[5] = s5 /\ vs[5] = v5 /\ fields[5] = f5
      /\ ss[6] = s6 /\ vs[6] = v6 /\ fields[6] = f6
      /\ ss[7] = s7 /\ vs[7] = v7 /\ fields[7] = f7
  BY <1>1
<1>3. vs \in Seq({v1, v2, v3, v4, v5, v6, v7})
  OBVIOUS
<1> HIDE DEF ss, vs, fields
<1>4. \A i \in 1 .. 7 : Reads(fields[i], ss[i], vs[i])
  BY <1>2
<1>5. Reads(InOrder(fields), FlattenSeq(ss), vs)
  BY <1>2, <1>3, <1>4, RecordReads
<1> QED BY <1>5 DEF ss, vs, fields

(* The tuples of two, three, five and seven values, and of one list.       *)
LEMMA TuplesAre ==
  /\ \A A, B : Tuples(<<A, B>>) \subseteq A \X B
  /\ \A A, B, C : Tuples(<<A, B, C>>) \subseteq A \X B \X C
  /\ \A A, B, C, D, E : Tuples(<<A, B, C, D, E>>) \subseteq A \X B \X C \X D \X E
  /\ \A A, B, C, D, E, F, G :
       Tuples(<<A, B, C, D, E, F, G>>) \subseteq A \X B \X C \X D \X E \X F \X G
  /\ \A A : Tuples(<<Seq(A)>>) \subseteq Alone(A)
<1>1. ASSUME NEW A, NEW B PROVE Tuples(<<A, B>>) \subseteq A \X B
  BY DEF Tuples
<1>2. ASSUME NEW A, NEW B, NEW C PROVE Tuples(<<A, B, C>>) \subseteq A \X B \X C
  BY DEF Tuples
<1>3. ASSUME NEW A, NEW B, NEW C, NEW D, NEW E
      PROVE  Tuples(<<A, B, C, D, E>>) \subseteq A \X B \X C \X D \X E
  BY DEF Tuples
<1>4. ASSUME NEW A, NEW B, NEW C, NEW D, NEW E, NEW F, NEW G
      PROVE  Tuples(<<A, B, C, D, E, F, G>>) \subseteq A \X B \X C \X D \X E \X F \X G
  BY DEF Tuples
<1>5. ASSUME NEW A PROVE Tuples(<<Seq(A)>>) \subseteq Alone(A)
  BY DEF Tuples, Alone
<1> QED BY <1>1, <1>2, <1>3, <1>4, <1>5

(* What a record of one field gives.                                       *)
LEMMA OneYield ==
  ASSUME NEW f1, NEW A, Yields(f1, A)
  PROVE  Yields(InOrder(<<f1>>), Tuples(<<A>>))
<1> DEFINE fields == <<f1>>
           Vs == <<A>>
<1>1. /\ Len(fields) = 1 /\ Len(Vs) = 1
      /\ fields[1] = f1 /\ Vs[1] = A
  OBVIOUS
<1> HIDE DEF fields, Vs
<1>2. \A i \in 1 .. Len(fields) : Yields(fields[i], Vs[i])
  BY <1>1
<1>3. Yields(InOrder(fields), Tuples(Vs))
  BY <1>1, <1>2, InOrderYields
<1> QED BY <1>3 DEF Yields, fields, Vs

(* A record of one local field.                                            *)
LEMMA OneLocal ==
  ASSUME NEW f1, Local(f1)
  PROVE  Local(InOrder(<<f1>>))
<1> DEFINE fields == <<f1>>
<1>1. /\ Len(fields) = 1
      /\ fields[1] = f1
  OBVIOUS
<1> HIDE DEF fields
<1>2. \A i \in 1 .. Len(fields) : Local(fields[i])
  BY <1>1
<1>3. Local(InOrder(fields))
  BY <1>1, <1>2, InOrderLocal
<1> QED BY <1>3 DEF fields

(* What a record of two fields gives.                                      *)
LEMMA TwoYield ==
  ASSUME NEW f1, NEW A, Yields(f1, A),
         NEW f2, NEW B, Yields(f2, B)
  PROVE  Yields(InOrder(<<f1, f2>>), A \X B)
<1> DEFINE fields == <<f1, f2>>
           Vs == <<A, B>>
<1>1. /\ Len(fields) = 2 /\ Len(Vs) = 2
      /\ fields[1] = f1 /\ Vs[1] = A
      /\ fields[2] = f2 /\ Vs[2] = B
  OBVIOUS
<1> HIDE DEF fields, Vs
<1>2. \A i \in 1 .. Len(fields) : Yields(fields[i], Vs[i])
  BY <1>1
<1>3. Yields(InOrder(fields), Tuples(Vs))
  BY <1>1, <1>2, InOrderYields
<1>4. Tuples(Vs) \subseteq A \X B
  BY TuplesAre DEF Vs
<1> QED BY <1>3, <1>4 DEF Yields, fields

(* A record of two local fields.                                           *)
LEMMA TwoLocal ==
  ASSUME NEW f1, Local(f1),
         NEW f2, Local(f2)
  PROVE  Local(InOrder(<<f1, f2>>))
<1> DEFINE fields == <<f1, f2>>
<1>1. /\ Len(fields) = 2
      /\ fields[1] = f1
      /\ fields[2] = f2
  OBVIOUS
<1> HIDE DEF fields
<1>2. \A i \in 1 .. Len(fields) : Local(fields[i])
  BY <1>1
<1>3. Local(InOrder(fields))
  BY <1>1, <1>2, InOrderLocal
<1> QED BY <1>3 DEF fields

(* What a record of three fields gives.                                    *)
LEMMA ThreeYield ==
  ASSUME NEW f1, NEW A, Yields(f1, A),
         NEW f2, NEW B, Yields(f2, B),
         NEW f3, NEW C, Yields(f3, C)
  PROVE  Yields(InOrder(<<f1, f2, f3>>), A \X B \X C)
<1> DEFINE fields == <<f1, f2, f3>>
           Vs == <<A, B, C>>
<1>1. /\ Len(fields) = 3 /\ Len(Vs) = 3
      /\ fields[1] = f1 /\ Vs[1] = A
      /\ fields[2] = f2 /\ Vs[2] = B
      /\ fields[3] = f3 /\ Vs[3] = C
  OBVIOUS
<1> HIDE DEF fields, Vs
<1>2. \A i \in 1 .. Len(fields) : Yields(fields[i], Vs[i])
  BY <1>1
<1>3. Yields(InOrder(fields), Tuples(Vs))
  BY <1>1, <1>2, InOrderYields
<1>4. Tuples(Vs) \subseteq A \X B \X C
  BY TuplesAre DEF Vs
<1> QED BY <1>3, <1>4 DEF Yields, fields

(* A record of three local fields.                                         *)
LEMMA ThreeLocal ==
  ASSUME NEW f1, Local(f1),
         NEW f2, Local(f2),
         NEW f3, Local(f3)
  PROVE  Local(InOrder(<<f1, f2, f3>>))
<1> DEFINE fields == <<f1, f2, f3>>
<1>1. /\ Len(fields) = 3
      /\ fields[1] = f1
      /\ fields[2] = f2
      /\ fields[3] = f3
  OBVIOUS
<1> HIDE DEF fields
<1>2. \A i \in 1 .. Len(fields) : Local(fields[i])
  BY <1>1
<1>3. Local(InOrder(fields))
  BY <1>1, <1>2, InOrderLocal
<1> QED BY <1>3 DEF fields

(* What a record of five fields gives.                                     *)
LEMMA FiveYield ==
  ASSUME NEW f1, NEW A, Yields(f1, A),
         NEW f2, NEW B, Yields(f2, B),
         NEW f3, NEW C, Yields(f3, C),
         NEW f4, NEW D, Yields(f4, D),
         NEW f5, NEW E, Yields(f5, E)
  PROVE  Yields(InOrder(<<f1, f2, f3, f4, f5>>), A \X B \X C \X D \X E)
<1> DEFINE fields == <<f1, f2, f3, f4, f5>>
           Vs == <<A, B, C, D, E>>
<1>1. /\ Len(fields) = 5 /\ Len(Vs) = 5
      /\ fields[1] = f1 /\ Vs[1] = A
      /\ fields[2] = f2 /\ Vs[2] = B
      /\ fields[3] = f3 /\ Vs[3] = C
      /\ fields[4] = f4 /\ Vs[4] = D
      /\ fields[5] = f5 /\ Vs[5] = E
  OBVIOUS
<1> HIDE DEF fields, Vs
<1>2. \A i \in 1 .. Len(fields) : Yields(fields[i], Vs[i])
  BY <1>1
<1>3. Yields(InOrder(fields), Tuples(Vs))
  BY <1>1, <1>2, InOrderYields
<1>4. Tuples(Vs) \subseteq A \X B \X C \X D \X E
  BY TuplesAre DEF Vs
<1> QED BY <1>3, <1>4 DEF Yields, fields

(* A record of five local fields.                                          *)
LEMMA FiveLocal ==
  ASSUME NEW f1, Local(f1),
         NEW f2, Local(f2),
         NEW f3, Local(f3),
         NEW f4, Local(f4),
         NEW f5, Local(f5)
  PROVE  Local(InOrder(<<f1, f2, f3, f4, f5>>))
<1> DEFINE fields == <<f1, f2, f3, f4, f5>>
<1>1. /\ Len(fields) = 5
      /\ fields[1] = f1
      /\ fields[2] = f2
      /\ fields[3] = f3
      /\ fields[4] = f4
      /\ fields[5] = f5
  OBVIOUS
<1> HIDE DEF fields
<1>2. \A i \in 1 .. Len(fields) : Local(fields[i])
  BY <1>1
<1>3. Local(InOrder(fields))
  BY <1>1, <1>2, InOrderLocal
<1> QED BY <1>3 DEF fields

(* What a record of seven fields gives.                                    *)
LEMMA SevenYield ==
  ASSUME NEW f1, NEW A, Yields(f1, A),
         NEW f2, NEW B, Yields(f2, B),
         NEW f3, NEW C, Yields(f3, C),
         NEW f4, NEW D, Yields(f4, D),
         NEW f5, NEW E, Yields(f5, E),
         NEW f6, NEW F, Yields(f6, F),
         NEW f7, NEW G, Yields(f7, G)
  PROVE  Yields(InOrder(<<f1, f2, f3, f4, f5, f6, f7>>), A \X B \X C \X D \X E \X F \X G)
<1> DEFINE fields == <<f1, f2, f3, f4, f5, f6, f7>>
           Vs == <<A, B, C, D, E, F, G>>
<1>1. /\ Len(fields) = 7 /\ Len(Vs) = 7
      /\ fields[1] = f1 /\ Vs[1] = A
      /\ fields[2] = f2 /\ Vs[2] = B
      /\ fields[3] = f3 /\ Vs[3] = C
      /\ fields[4] = f4 /\ Vs[4] = D
      /\ fields[5] = f5 /\ Vs[5] = E
      /\ fields[6] = f6 /\ Vs[6] = F
      /\ fields[7] = f7 /\ Vs[7] = G
  OBVIOUS
<1> HIDE DEF fields, Vs
<1>2. \A i \in 1 .. Len(fields) : Yields(fields[i], Vs[i])
  BY <1>1
<1>3. Yields(InOrder(fields), Tuples(Vs))
  BY <1>1, <1>2, InOrderYields
<1>4. Tuples(Vs) \subseteq A \X B \X C \X D \X E \X F \X G
  BY TuplesAre DEF Vs
<1> QED BY <1>3, <1>4 DEF Yields, fields

(* A record of seven local fields.                                         *)
LEMMA SevenLocal ==
  ASSUME NEW f1, Local(f1),
         NEW f2, Local(f2),
         NEW f3, Local(f3),
         NEW f4, Local(f4),
         NEW f5, Local(f5),
         NEW f6, Local(f6),
         NEW f7, Local(f7)
  PROVE  Local(InOrder(<<f1, f2, f3, f4, f5, f6, f7>>))
<1> DEFINE fields == <<f1, f2, f3, f4, f5, f6, f7>>
<1>1. /\ Len(fields) = 7
      /\ fields[1] = f1
      /\ fields[2] = f2
      /\ fields[3] = f3
      /\ fields[4] = f4
      /\ fields[5] = f5
      /\ fields[6] = f6
      /\ fields[7] = f7
  OBVIOUS
<1> HIDE DEF fields
<1>2. \A i \in 1 .. Len(fields) : Local(fields[i])
  BY <1>1
<1>3. Local(InOrder(fields))
  BY <1>1, <1>2, InOrderLocal
<1> QED BY <1>3 DEF fields

(* The fields of the entries and of the files yield what their class holds.*)
LEMMA EntriesYield ==
  /\ Yields(PartNumberFields, PartNumbers(Readable)) /\ Local(PartNumberFields)
  /\ Yields(HardwareFields, Hardware(Readable)) /\ Local(HardwareFields)
  /\ Yields(LoadStatusFields, LoadStatuses(Readable)) /\ Local(LoadStatusFields)
  /\ Yields(FileStatusFields, FileStatuses(Readable)) /\ Local(FileStatusFields)
  /\ Yields(PairFields, Pairs(Readable)) /\ Local(PairFields)
<1>1. StatusCodes \subseteq Count
  BY Widths DEF StatusCodes
<1>2. Yields(CodeField(StatusCodes), StatusCodes) /\ Local(CodeField(StatusCodes))
  BY <1>1, CodeFields
<1>3. Yields(PartNumberFields, PartNumbers(Readable)) /\ Local(PartNumberFields)
  BY TextFields, ThreeYield, ThreeLocal DEF PartNumberFields, PartNumbers
<1>4. Yields(ListOf(PartNumberFields), Seq(PartNumbers(Readable)))
      /\ Local(ListOf(PartNumberFields))
  BY <1>3, ListFields
<1>5. Yields(HardwareFields, Hardware(Readable)) /\ Local(HardwareFields)
  BY <1>4, TextFields, ThreeYield, ThreeLocal DEF HardwareFields, Hardware
<1>6. Yields(LoadStatusFields, LoadStatuses(Readable)) /\ Local(LoadStatusFields)
  BY <1>2, TextFields, RatioFields, FiveYield, FiveLocal
     DEF LoadStatusFields, LoadStatuses
<1>7. Yields(FileStatusFields, FileStatuses(Readable)) /\ Local(FileStatusFields)
  BY <1>2, TextFields, ThreeYield, ThreeLocal DEF FileStatusFields, FileStatuses
<1>8. Yields(PairFields, Pairs(Readable)) /\ Local(PairFields)
  BY TextFields, TwoYield, TwoLocal DEF PairFields, Pairs
<1> QED BY <1>3, <1>5, <1>6, <1>7, <1>8

Plain == Kinds \ {"FindPacket"}

(* A file that is one list.                                                *)
LEMMA ListsYield ==
  ASSUME NEW f, NEW V, Yields(f, V), Local(f)
  PROVE  Yields(InOrder(<<ListOf(f)>>), Alone(V)) /\ Local(InOrder(<<ListOf(f)>>))
<1>1. Yields(ListOf(f), Seq(V)) /\ Local(ListOf(f))
  BY ListFields
<1>2. Yields(InOrder(<<ListOf(f)>>), Tuples(<<Seq(V)>>))
  BY <1>1, OneYield
<1>3. Yields(InOrder(<<ListOf(f)>>), Alone(V))
  BY <1>2, TuplesAre DEF Yields
<1> QED BY <1>1, <1>3, OneLocal

-----------------------------------------------------------------------------
(* The user defined data is bytes.                                         *)
LEMMA UserDataYields == Yields(UserDefinedDataField, Bytes)
<1> SUFFICES ASSUME NEW b \in Bytes, UserDefinedDataField[b].ok
             PROVE  /\ UserDefinedDataField[b].rest \in Bytes
                    /\ UserDefinedDataField[b].value \in Bytes
  BY DEF Yields
<1>1. b # <<>> /\ UserDefinedDataField[b] = Got(Tail(b), <<>>)
  BY Results DEF UserDefinedDataField
<1>2. Tail(b) \in Bytes
  BY <1>1, HeadTailProperties DEF Bytes
<1> QED BY <1>1, <1>2, Joins, Results

(* decode() of every kind of file gives what its class can hold.  All but  *)
(* the download request, whose last field is all that is left, look at the *)
(* bytes of their fields only.                                             *)
LEMMA FilesYield ==
  ASSUME NEW k \in Plain
  PROVE  /\ Yields(Fields(k), Files(Readable)[k])
         /\ k # "DownloadRequest" => Local(Fields(k))
<1>1. StatusCodes \subseteq Count /\ AcceptanceCodes \subseteq Count
  BY Widths DEF StatusCodes, AcceptanceCodes
<1>2. Yields(CodeField(StatusCodes), StatusCodes) /\ Local(CodeField(StatusCodes))
  BY <1>1, CodeFields
<1>3. Yields(CodeField(AcceptanceCodes), Count) /\ Local(CodeField(AcceptanceCodes))
  BY <1>1, CodeFields DEF Yields
<1>4. CASE k = "Initialization"
  <2>1. Yields(InitializationFields, Count \X Readable) /\ Local(InitializationFields)
    BY <1>3, TextFields, TwoYield, TwoLocal DEF InitializationFields
  <2> QED BY <1>4, <2>1 DEF Fields, Files
<1>5. CASE k = "InformationStatus"
  <2>1. /\ Yields(InformationStatusFields,
                  Count \X StatusCodes \X Count \X Short \X Readable)
        /\ Local(InformationStatusFields)
    BY <1>2, NumberFields, SignedFields, TextFields, FiveYield, FiveLocal
       DEF InformationStatusFields
  <2> QED BY <1>5, <2>1 DEF Fields, Files
<1>6. CASE k = "LoadConfigurationList"
  <2>1. /\ Yields(LoadConfigurationListFields, Alone(Hardware(Readable)))
        /\ Local(LoadConfigurationListFields)
    BY EntriesYield, ListsYield DEF LoadConfigurationListFields
  <2> QED BY <1>6, <2>1 DEF Fields, Files
<1>7. CASE k = "UploadStatus"
  <2>1. /\ Yields(ListOf(LoadStatusFields), Seq(LoadStatuses(Readable)))
        /\ Local(ListOf(LoadStatusFields))
    BY EntriesYield, ListFields
  <2>2. /\ Yields(UploadStatusFields, Status(Readable, LoadStatuses(Readable)))
        /\ Local(UploadStatusFields)
    BY <1>2, <2>1, NumberFields, SignedFields, TextFields, RatioFields,
       SevenYield, SevenLocal DEF UploadStatusFields, Status
  <2> QED BY <1>7, <2>2 DEF Fields, Files
<1>8. CASE k = "DownloadStatus"
  <2>1. /\ Yields(ListOf(FileStatusFields), Seq(FileStatuses(Readable)))
        /\ Local(ListOf(FileStatusFields))
    BY EntriesYield, ListFields
  <2>2. /\ Yields(DownloadStatusFields, Status(Readable, FileStatuses(Readable)))
        /\ Local(DownloadStatusFields)
    BY <1>2, <2>1, NumberFields, SignedFields, TextFields, RatioFields,
       SevenYield, SevenLocal DEF DownloadStatusFields, Status
  <2> QED BY <1>8, <2>2 DEF Fields, Files
<1>9. CASE k = "UploadRequest" \/ k = "DownloadList"
  <2>1. /\ Yields(UploadRequestFields, Alone(Pairs(Readable)))
        /\ Local(UploadRequestFields)
    BY EntriesYield, ListsYield DEF UploadRequestFields
  <2>2. /\ Yields(DownloadListFields, Alone(Pairs(Readable)))
        /\ Local(DownloadListFields)
    BY EntriesYield, ListsYield DEF DownloadListFields
  <2> QED BY <1>9, <2>1, <2>2 DEF Fields, Files
<1>10. CASE k = "DownloadRequest"
  <2>1. Yields(ListOf(TextField), Seq(Readable))
    BY TextFields, ListFields
  <2>2. Yields(DownloadRequestFields, Seq(Readable) \X Bytes)
    BY <2>1, UserDataYields, TwoYield DEF DownloadRequestFields
  <2> QED BY <1>10, <2>2 DEF Fields, Files
<1>11. CASE k = "DownloadAnswer"
  <2>1. /\ Yields(DownloadAnswerFields, Alone(Readable))
        /\ Local(DownloadAnswerFields)
    BY TextFields, ListsYield DEF DownloadAnswerFields
  <2> QED BY <1>11, <2>1 DEF Fields, Files
<1> QED BY <1>4, <1>5, <1>6, <1>7, <1>8, <1>9, <1>10, <1>11 DEF Plain, Kinds

(* The header of a file that its length field can tell is accepted, and    *)
(* the body stands behind it.                                              *)
LEMMA HeaderReads ==
  ASSUME NEW version \in Versions, NEW body \in Bytes,
         NEW b, b = InsertHeader(version, body)
  PROVE  /\ b \in Bytes /\ Len(b) = HeaderSize + Len(body) /\ Len(body) \in Nat
         /\ Behind(b, HeaderSize) = body
         /\ HeaderAccepted(b) <=> ~TooLarge(HeaderSize + Len(body))
<1> DEFINE n == HeaderSize + Len(body)
           high == U16(n \div Word)
           low == U16(n)
           size == high \o low
           mark == U16(version)
           head == size \o mark
<1>1. n \in Nat /\ Len(body) \in Nat /\ (n \div Word) \in Int /\ version \in Count
  <2>1. version \in Count
    BY Widths DEF Versions
  <2>2. n \in Nat /\ Len(body) \in Nat
    BY Joins DEF HeaderSize
  <2> QED BY <2>1, <2>2, Widths
<1>2. /\ high \in Bytes /\ Len(high) = 2
      /\ low \in Bytes /\ Len(low) = 2
      /\ mark \in Bytes /\ Len(mark) = 2 /\ Number(mark) = version
  <2>1. version \in Int /\ (version % Word) = version /\ n \in Int
    BY <1>1, Bits, Widths
  <2>2. mark \o <<>> = mark /\ <<>> \in Bytes
    BY <2>1, NumberIsU16, Joins
  <2> QED BY <1>1, <2>1, <2>2, NumberIsU16
<1>3. b = (size \o mark) \o body
  <2>1. U32(n) = size
    BY DEF U32
  <2>2. b = (size \o mark) \o body \/ b = size \o (mark \o body)
    BY <2>1, Zenon DEF InsertHeader
  <2> HIDE DEF high, low, mark
  <2>3. size \in Bytes
    BY <1>2, Joins
  <2> HIDE DEF size
  <2>4. (size \o mark) \o body = size \o (mark \o body)
    BY <1>2, <2>3, Joins
  <2> QED BY <2>2, <2>4
<1>4. U32(n) = size
  BY DEF U32
<1> HIDE DEF n, high, low, mark
<1>5. size \in Bytes /\ Len(size) = 4
  <2>1. size \in Bytes /\ Len(size) = Len(high) + Len(low)
    BY <1>2, Join
  <2> QED BY <1>2, <2>1
<1> HIDE DEF size
<1>6. head \in Bytes /\ Len(head) = 6
  <2>1. head \in Bytes /\ Len(head) = Len(size) + Len(mark)
    BY <1>2, <1>5, Join
  <2> QED BY <1>2, <1>5, <2>1
<1>7. b = head \o body
  BY <1>3
<1>8. SubSeq(head, 1, 4) = size /\ SubSeq(head, 5, 6) = mark
  <2>1. SubSeq(head, 1, 4) = size /\ Behind(head, 4) = mark
    <3>1. SubSeq(head, 1, Len(size)) = size /\ Behind(head, Len(size)) = mark
      BY <1>2, <1>5, PartFront
    <3> QED BY <1>5, <3>1
  <2> HIDE DEF head
  <2>2. Behind(head, 4) = SubSeq(head, 5, 6)
    BY <1>6 DEF Behind
  <2> QED BY <2>1, <2>2
<1> HIDE DEF head
<1>9. /\ SubSeq(b, 1, 4) = size /\ SubSeq(b, 5, 6) = mark
      /\ b \in Bytes /\ Len(b) = n /\ Behind(b, 6) = body
  <2>1. /\ 4 \in 0 .. Len(head) /\ 6 \in 0 .. Len(head)
        /\ 1 \in Nat \ {0} /\ 5 \in Nat \ {0}
    BY <1>6
  <2>2. /\ SubSeq(head \o body, 1, 4) = SubSeq(head, 1, 4)
        /\ SubSeq(head \o body, 5, 6) = SubSeq(head, 5, 6)
    BY <1>6, <2>1, PartSub
  <2>3. head \o body \in Bytes /\ Len(head \o body) = Len(head) + Len(body)
    BY <1>6, Join
  <2>4. Behind(head \o body, Len(head)) = body
    BY <1>6, PartFront
  <2>5. n = 6 + Len(body)
    BY DEF n, HeaderSize
  <2> QED BY <1>6, <1>7, <1>8, <2>2, <2>3, <2>4, <2>5
<1>10. n >= HeaderSize /\ version \in Versions
  BY <1>1 DEF n, HeaderSize
<1>11. HeaderAccepted(b) <=> ~TooLarge(n)
  <2> HIDE DEF U32
  <2> QED BY <1>2, <1>4, <1>9, <1>10, Zenon DEF HeaderAccepted
<1> QED BY <1>1, <1>9, <1>11 DEF n, HeaderSize

-----------------------------------------------------------------------------
(* How long the parts of a file are together.                              *)
LEMMA FlattenGrows ==
  ASSUME NEW ss \in Seq(Bytes), NEW i \in 1 .. Len(ss)
  PROVE  /\ Len(FlattenSeq(SubSeq(ss, 1, i - 1))) \in Nat
         /\ Len(FlattenSeq(SubSeq(ss, 1, i))) =
              Len(FlattenSeq(SubSeq(ss, 1, i - 1))) + Len(ss[i])
<1> DEFINE front == SubSeq(ss, 1, i - 1)
           s == ss[i]
<1>1. s \in Bytes /\ front \in Seq(Bytes)
  <2>1. \A j \in 1 .. i - 1 : ss[j] \in Bytes
    BY ElementOfSeq
  <2>2. front \in Seq(Bytes)
    BY <2>1, SubSeqProperties
  <2> QED BY <2>2, ElementOfSeq
<1>2. SubSeq(ss, 1, i) = front \o <<s>>
  <2>1. 1 \in 1 .. Len(ss) /\ i \in 1 .. Len(ss)
    BY LenProperties
  <2> QED BY <2>1, SubSeqRecursiveSecond
<1> HIDE DEF front, s
<1>3. front \o <<s>> = Append(front, s)
  BY <1>1, AppendIsConcat
<1>4. FlattenSeq(Append(front, s)) = FlattenSeq(front) \o s /\ FlattenSeq(front) \in Bytes
  BY <1>1, FlattenAppend
<1> DEFINE before == FlattenSeq(front)
<1>5. /\ before \o s \in Bytes /\ Len(before) \in Nat
      /\ Len(before \o s) = Len(before) + Len(s)
  <2> HIDE DEF before
  <2>1. before \in Bytes
    BY <1>4 DEF before
  <2> QED BY <1>1, <2>1, Join
<1>6. FlattenSeq(SubSeq(ss, 1, i)) = before \o s
  BY <1>2, <1>3, <1>4
<1> HIDE DEF before
<1>7. Len(FlattenSeq(SubSeq(ss, 1, i))) = Len(before) + Len(s)
  BY <1>5, <1>6
<1> QED BY <1>5, <1>7 DEF before, front, s

(* The length of five parts.                                               *)
LEMMA FiveParts ==
  ASSUME NEW ss \in Seq(Bytes), Len(ss) = 5
  PROVE  /\ \A i \in 1 .. 5 : Len(ss[i]) \in Nat
         /\ Len(FlattenSeq(ss)) =
             Len(ss[1]) + Len(ss[2]) + Len(ss[3]) + Len(ss[4]) + Len(ss[5])
<1> DEFINE size(i) == Len(FlattenSeq(SubSeq(ss, 1, i)))
<1>2. SubSeq(ss, 1, 0) = <<>> /\ SubSeq(ss, 1, 5) = ss
  BY SubSeqEmpty, SubSeqFull
<1>3. \A i \in 1 .. 5 : size(i) = size(i - 1) + Len(ss[i])
  BY FlattenGrows
<1>4. size(0) = 0
  BY <1>2, FlattenEmpty, EmptySeq
<1>5. size(5) = Len(FlattenSeq(ss))
  BY <1>2
<1>6. \A i \in 1 .. 5 : Len(ss[i]) \in Nat
  BY ElementOfSeq, Joins
<1> HIDE DEF size
<1>7. /\ size(1) = size(0) + Len(ss[1]) /\ size(2) = size(1) + Len(ss[2])
      /\ size(3) = size(2) + Len(ss[3]) /\ size(4) = size(3) + Len(ss[4])
      /\ size(5) = size(4) + Len(ss[5])
  <2>1. size(1) = size(0) + Len(ss[1])
    BY <1>3
  <2>2. size(2) = size(1) + Len(ss[2])
    BY <1>3
  <2>3. size(3) = size(2) + Len(ss[3])
    BY <1>3
  <2>4. size(4) = size(3) + Len(ss[4])
    BY <1>3
  <2>5. size(5) = size(4) + Len(ss[5])
    BY <1>3
  <2> QED BY <2>1, <2>2, <2>3, <2>4, <2>5
<1> QED BY <1>4, <1>5, <1>6, <1>7

(* The length of seven parts.                                              *)
LEMMA SevenParts ==
  ASSUME NEW ss \in Seq(Bytes), Len(ss) = 7
  PROVE  /\ \A i \in 1 .. 7 : Len(ss[i]) \in Nat
         /\ Len(FlattenSeq(ss)) =
             Len(ss[1]) + Len(ss[2]) + Len(ss[3]) + Len(ss[4]) + Len(ss[5])
             + Len(ss[6]) + Len(ss[7])
<1> DEFINE size(i) == Len(FlattenSeq(SubSeq(ss, 1, i)))
<1>2. SubSeq(ss, 1, 0) = <<>> /\ SubSeq(ss, 1, 7) = ss
  BY SubSeqEmpty, SubSeqFull
<1>3. \A i \in 1 .. 7 : size(i) = size(i - 1) + Len(ss[i])
  BY FlattenGrows
<1>4. size(0) = 0
  BY <1>2, FlattenEmpty, EmptySeq
<1>5. size(7) = Len(FlattenSeq(ss))
  BY <1>2
<1>6. \A i \in 1 .. 7 : Len(ss[i]) \in Nat
  BY ElementOfSeq, Joins
<1> HIDE DEF size
<1>7. /\ size(1) = size(0) + Len(ss[1]) /\ size(2) = size(1) + Len(ss[2])
      /\ size(3) = size(2) + Len(ss[3]) /\ size(4) = size(3) + Len(ss[4])
      /\ size(5) = size(4) + Len(ss[5]) /\ size(6) = size(5) + Len(ss[6])
      /\ size(7) = size(6) + Len(ss[7])
  <2>1. size(1) = size(0) + Len(ss[1])
    BY <1>3
  <2>2. size(2) = size(1) + Len(ss[2])
    BY <1>3
  <2>3. size(3) = size(2) + Len(ss[3])
    BY <1>3
  <2>4. size(4) = size(3) + Len(ss[4])
    BY <1>3
  <2>5. size(5) = size(4) + Len(ss[5])
    BY <1>3
  <2>6. size(6) = size(5) + Len(ss[6])
    BY <1>3
  <2>7. size(7) = size(6) + Len(ss[7])
    BY <1>3
  <2> QED BY <2>1, <2>2, <2>3, <2>4, <2>5, <2>6, <2>7
<1>8. /\ Len(ss[1]) \in Nat /\ Len(ss[2]) \in Nat /\ Len(ss[3]) \in Nat
      /\ Len(ss[4]) \in Nat /\ Len(ss[5]) \in Nat /\ Len(ss[6]) \in Nat
      /\ Len(ss[7]) \in Nat
  BY <1>6
<1>9. size(7) = Len(ss[1]) + Len(ss[2]) + Len(ss[3]) + Len(ss[4]) + Len(ss[5])
                + Len(ss[6]) + Len(ss[7])
  <2>1. size(2) = Len(ss[1]) + Len(ss[2])
    BY <1>4, <1>7, <1>8
  <2>2. size(3) = Len(ss[1]) + Len(ss[2]) + Len(ss[3])
    BY <1>7, <2>1
  <2>3. size(4) = Len(ss[1]) + Len(ss[2]) + Len(ss[3]) + Len(ss[4])
    BY <1>7, <2>2
  <2>4. size(5) = Len(ss[1]) + Len(ss[2]) + Len(ss[3]) + Len(ss[4]) + Len(ss[5])
    BY <1>7, <2>3
  <2>5. size(6) = Len(ss[1]) + Len(ss[2]) + Len(ss[3]) + Len(ss[4]) + Len(ss[5])
                  + Len(ss[6])
    BY <1>7, <2>4
  <2> QED BY <1>7, <2>5
<1> QED BY <1>5, <1>6, <1>9

(* What String_encode() writes.                                            *)
LEMMA TextBytes ==
  ASSUME NEW s \in Strings, TextFits(s)
  PROVE  Text(s) \in Bytes /\ Len(Text(s)) \in Nat /\ Len(Text(s)) >= 1
<1> DEFINE b == Text(s)
<1>1. Reads(TextField, b, s)
  BY TextReads
<1> HIDE DEF b
<1>2. b \in Bytes /\ b \o <<>> = b /\ <<>> \in Bytes
  BY <1>1, Joins DEF Reads
<1>3. TextField[b] = Got(s, <<>>)
  BY <1>1, <1>2 DEF Reads
<1>4. b # <<>>
  BY <1>2, <1>3, Results DEF TextField
<1>5. Len(b) \in Nat /\ Len(b) # 0
  BY <1>2, <1>4, Joins, EmptySeq DEF Bytes
<1> QED BY <1>2, <1>5 DEF b

(* The same for a list that is given as a function of its indexes.         *)
LEMMA EncodedListReads ==
  ASSUME NEW entry, NEW V, NEW list \in Seq(V), Len(list) < Word,
         NEW ss, ss = [i \in 1 .. Len(list) |-> ss[i]],
         \A i \in 1 .. Len(list) : Reads(entry, ss[i], list[i])
  PROVE  /\ Reads(ListOf(entry), Listed(ss), list)
         /\ Listed(ss) \in Bytes
         /\ Len(Listed(ss)) >= 2
<1>1. Len(list) \in Nat /\ Len(list) \in Int
  BY LenProperties
<1>2. \A i \in 1 .. Len(list) : ss[i] \in Bytes
  BY DEF Reads
<1>3. ss \in Seq(Bytes) /\ Len(ss) = Len(list)
  BY <1>1, <1>2
<1> DEFINE front == U16(Len(list))
           flat == FlattenSeq(ss)
<1>4. front \in Bytes /\ Len(front) = 2 /\ flat \in Bytes
  BY <1>1, <1>3, NumberIsU16, FlattenAppend, Joins
<1>5. Reads(ListOf(entry), front \o flat, list)
  BY <1>3, ListReads
<1> HIDE DEF front, flat
<1>6. front \o flat \in Bytes /\ Len(front \o flat) >= 2
  <2>1. /\ front \o flat \in Bytes /\ Len(front \o flat) = Len(front) + Len(flat)
        /\ Len(flat) \in Nat
    BY <1>4, Join
  <2> QED BY <1>4, <2>1
<1>7. Listed(ss) = front \o flat
  BY <1>3 DEF Listed, front, flat
<1> QED BY <1>5, <1>6, <1>7

(* A header filename and part number, or a filename and description.       *)
LEMMA PairReads ==
  ASSUME NEW e \in Pairs(Strings), TextFits(e[1]), TextFits(e[2])
  PROVE  Reads(PairFields, EncodePair(e), e)
<1>1. e = <<e[1], e[2]>> /\ e[1] \in Strings /\ e[2] \in Strings
  BY DEF Pairs
<1>2. Reads(TextField, Text(e[1]), e[1]) /\ Reads(TextField, Text(e[2]), e[2])
  BY <1>1, TextReads
<1>3. Reads(PairFields, EncodePair(e), <<e[1], e[2]>>)
  BY <1>2, TwoReads DEF PairFields, EncodePair
<1> QED BY <1>1, <1>3

(* An entry of the part numbers of a target hardware.                      *)
LEMMA PartNumberReads ==
  ASSUME NEW p \in PartNumbers(Strings),
         TextFits(p[1]), TextFits(p[2]), TextFits(p[3])
  PROVE  Reads(PartNumberFields, EncodePartNumber(p), p)
<1>1. /\ p = <<p[1], p[2], p[3]>>
      /\ p[1] \in Strings /\ p[2] \in Strings /\ p[3] \in Strings
  BY DEF PartNumbers
<1>2. /\ Reads(TextField, Text(p[1]), p[1]) /\ Reads(TextField, Text(p[2]), p[2])
      /\ Reads(TextField, Text(p[3]), p[3])
  BY <1>1, TextReads
<1>3. Reads(PartNumberFields, EncodePartNumber(p), <<p[1], p[2], p[3]>>)
  BY <1>2, ThreeReads DEF PartNumberFields, EncodePartNumber
<1> QED BY <1>1, <1>3

(* An entry of a download status.                                          *)
LEMMA FileStatusReads ==
  ASSUME NEW f \in FileStatuses(Strings), TextFits(f[1]), TextFits(f[3])
  PROVE  Reads(FileStatusFields, EncodeFileStatus(f), f)
<1>1. /\ f = <<f[1], f[2], f[3]>>
      /\ f[1] \in Strings /\ f[2] \in StatusCodes /\ f[3] \in Strings
  BY DEF FileStatuses
<1>2. /\ Reads(TextField, Text(f[1]), f[1]) /\ Reads(TextField, Text(f[3]), f[3])
  BY <1>1, TextReads
<1>3. Reads(CodeField(StatusCodes), U16(f[2]), f[2])
  <2>1. StatusCodes \subseteq Count
    BY Widths DEF StatusCodes
  <2> QED BY <1>1, <2>1, CodeFields
<1>4. Reads(FileStatusFields, EncodeFileStatus(f), <<f[1], f[2], f[3]>>)
  BY <1>2, <1>3, ThreeReads DEF FileStatusFields, EncodeFileStatus
<1> QED BY <1>1, <1>4

(* An entry of an upload status.                                           *)
LEMMA LoadStatusReads ==
  ASSUME NEW l \in LoadStatuses(Strings),
         TextFits(l[1]), TextFits(l[2]), TextFits(l[5])
  PROVE  Reads(LoadStatusFields, EncodeLoadStatus(l), l)
<1>1. /\ l = <<l[1], l[2], l[3], l[4], l[5]>>
      /\ l[1] \in Strings /\ l[2] \in Strings /\ l[3] \in Percent
      /\ l[4] \in StatusCodes /\ l[5] \in Strings
  BY DEF LoadStatuses
<1>2. /\ Reads(TextField, Text(l[1]), l[1]) /\ Reads(TextField, Text(l[2]), l[2])
      /\ Reads(TextField, Text(l[5]), l[5])
  BY <1>1, TextReads
<1>3. Reads(CodeField(StatusCodes), U16(l[4]), l[4])
  <2>1. StatusCodes \subseteq Count
    BY Widths DEF StatusCodes
  <2> QED BY <1>1, <2>1, CodeFields
<1>4. Reads(RatioField, RatioText(l[3]), l[3])
  BY <1>1, RatioReads
<1>5. Reads(LoadStatusFields, EncodeLoadStatus(l),
            <<l[1], l[2], l[3], l[4], l[5]>>)
  BY <1>2, <1>3, <1>4, FiveReads DEF LoadStatusFields, EncodeLoadStatus
<1> QED BY <1>1, <1>5

(* A target hardware with its part numbers.                                *)
LEMMA HardwareReads ==
  ASSUME NEW h \in Hardware(Strings), TextFits(h[1]), TextFits(h[2]),
         Len(h[3]) < Word,
         \A i \in 1 .. Len(h[3]) : /\ TextFits(h[3][i][1])
                                   /\ TextFits(h[3][i][2])
                                   /\ TextFits(h[3][i][3])
  PROVE  Reads(HardwareFields, EncodeHardware(h), h)
<1>1. /\ h = <<h[1], h[2], h[3]>>
      /\ h[1] \in Strings /\ h[2] \in Strings /\ h[3] \in Seq(PartNumbers(Strings))
  BY DEF Hardware
<1>2. /\ Reads(TextField, Text(h[1]), h[1]) /\ Reads(TextField, Text(h[2]), h[2])
  BY <1>1, TextReads
<1> DEFINE list == h[3]
           ss == [i \in DOMAIN list |-> EncodePartNumber(list[i])]
<1>3. Reads(ListOf(PartNumberFields),
           Listed([i \in DOMAIN list |-> EncodePartNumber(list[i])]), list)
  <2>1. DOMAIN list = 1 .. Len(list)
    BY <1>1, LenProperties
  <2>2. ss = [i \in 1 .. Len(list) |-> ss[i]]
    BY <2>1
  <2>3. \A i \in 1 .. Len(list) : Reads(PartNumberFields, ss[i], list[i])
    <3> SUFFICES ASSUME NEW i \in 1 .. Len(list)
                 PROVE  Reads(PartNumberFields, EncodePartNumber(list[i]), list[i])
      BY <2>1
    <3>1. list[i] \in PartNumbers(Strings)
      BY <1>1, ElementOfSeq
    <3> QED BY <3>1, PartNumberReads
  <2> HIDE DEF ss
  <2>4. Reads(ListOf(PartNumberFields), Listed(ss), list)
    BY <1>1, <2>2, <2>3, EncodedListReads
  <2> QED BY <2>4 DEF ss
<1> HIDE DEF list
<1>4. Reads(HardwareFields,
            FlattenSeq(<<Text(h[1]), Text(h[2]),
                         Listed([i \in DOMAIN list |-> EncodePartNumber(list[i])])>>),
            <<h[1], h[2], list>>)
  BY <1>2, <1>3, ThreeReads DEF HardwareFields
<1> QED BY <1>1, <1>4 DEF EncodeHardware, list

(* The entries of a list.                                                  *)
LEMMA InList ==
  ASSUME NEW V, NEW list \in Seq(V)
  PROVE  /\ DOMAIN list = 1 .. Len(list)
         /\ \A i \in 1 .. Len(list) : list[i] \in ToSet(list) /\ list[i] \in V
BY LenProperties, ElementOfSeq DEF ToSet

(* The upload request and the download list.                               *)
LEMMA PairListReads ==
  ASSUME NEW k \in {"UploadRequest", "DownloadList"},
         NEW c \in Files(Strings)[k], Encodable(k, c)
  PROVE  /\ Reads(InOrder(<<ListOf(PairFields)>>),
                  Listed([i \in DOMAIN c[1] |-> EncodePair(c[1][i])]), c)
         /\ Len(Listed([i \in DOMAIN c[1] |-> EncodePair(c[1][i])])) >= 2
<1> DEFINE list == c[1]
           ss == [i \in DOMAIN list |-> EncodePair(list[i])]
<1>1. c = <<list>> /\ list \in Seq(Pairs(Strings))
  BY DEF Files, Alone
<1>2. Len(list) < Word
  BY DEF Encodable, Lists
<1>3. \A e \in ToSet(list) : TextFits(e[1]) /\ TextFits(e[2])
  BY DEF Encodable, Texts
<1> HIDE DEF list
<1>4. ss = [i \in 1 .. Len(list) |-> ss[i]]
  BY <1>1, InList
<1>5. \A i \in 1 .. Len(list) : Reads(PairFields, ss[i], list[i])
  <2> SUFFICES ASSUME NEW i \in 1 .. Len(list)
               PROVE  Reads(PairFields, EncodePair(list[i]), list[i])
    BY <1>1, InList
  <2>1. list[i] \in ToSet(list) /\ list[i] \in Pairs(Strings)
    BY <1>1, InList
  <2> QED BY <1>3, <2>1, PairReads
<1> HIDE DEF ss
<1>6. /\ Reads(ListOf(PairFields), Listed(ss), list)
      /\ Len(Listed(ss)) >= 2
  BY <1>1, <1>2, <1>4, <1>5, EncodedListReads
<1>7. Reads(InOrder(<<ListOf(PairFields)>>), Listed(ss), <<list>>)
  BY <1>6, OneReads
<1> QED BY <1>1, <1>6, <1>7 DEF ss, list

(* A list of names.                                                        *)
LEMMA StringListReads ==
  ASSUME NEW list \in Seq(Strings), Len(list) < Word,
         \A s \in ToSet(list) : TextFits(s)
  PROVE  /\ Reads(ListOf(TextField), Listed([i \in DOMAIN list |-> Text(list[i])]), list)
         /\ Listed([i \in DOMAIN list |-> Text(list[i])]) \in Bytes
         /\ Len(Listed([i \in DOMAIN list |-> Text(list[i])])) >= 2
<1> DEFINE ss == [i \in DOMAIN list |-> Text(list[i])]
<1>1. ss = [i \in 1 .. Len(list) |-> ss[i]]
  BY InList
<1>2. \A i \in 1 .. Len(list) : Reads(TextField, ss[i], list[i])
  <2> SUFFICES ASSUME NEW i \in 1 .. Len(list)
               PROVE  Reads(TextField, Text(list[i]), list[i])
    BY InList
  <2>1. list[i] \in ToSet(list) /\ list[i] \in Strings
    BY InList
  <2> QED BY <2>1, TextReads
<1> HIDE DEF ss
<1>3. /\ Reads(ListOf(TextField), Listed(ss), list)
      /\ Listed(ss) \in Bytes
      /\ Len(Listed(ss)) >= 2
  BY <1>1, <1>2, EncodedListReads
<1> QED BY <1>3 DEF ss

(* The load configuration list.                                            *)
LEMMA HardwareListReads ==
  ASSUME NEW c \in Files(Strings)["LoadConfigurationList"],
         Encodable("LoadConfigurationList", c)
  PROVE  Reads(LoadConfigurationListFields, EncodeLoadConfigurationList(c), c)
<1> DEFINE list == c[1]
           ss == [i \in DOMAIN list |-> EncodeHardware(list[i])]
<1>1. c = <<list>> /\ list \in Seq(Hardware(Strings))
  BY DEF Files, Alone
<1>2. Len(list) < Word /\ \A h \in ToSet(list) : Len(h[3]) < Word
  BY DEF Encodable, Lists
<1>3. \A h \in ToSet(list) :
        /\ TextFits(h[1]) /\ TextFits(h[2])
        /\ \A p \in ToSet(h[3]) : TextFits(p[1]) /\ TextFits(p[2]) /\ TextFits(p[3])
  <2>1. \A s \in UNION {{h[1], h[2]} \cup UNION {{p[1], p[2], p[3]} : p \in ToSet(h[3])}
                        : h \in ToSet(list)} : TextFits(s)
    BY DEF Encodable, Texts
  <2> HIDE DEF list
  <2>2. ASSUME NEW h \in ToSet(list)
        PROVE  \A s \in {h[1], h[2]} \cup UNION {{p[1], p[2], p[3]} : p \in ToSet(h[3])} :
                 TextFits(s)
    BY <2>1
  <2> QED BY <2>2
<1> HIDE DEF list
<1>4. ss = [i \in 1 .. Len(list) |-> ss[i]]
  BY <1>1, InList
<1>5. \A i \in 1 .. Len(list) : Reads(HardwareFields, ss[i], list[i])
  <2> SUFFICES ASSUME NEW i \in 1 .. Len(list)
               PROVE  Reads(HardwareFields, EncodeHardware(list[i]), list[i])
    BY <1>1, InList
  <2> DEFINE h == list[i]
  <2>1. h \in ToSet(list) /\ h \in Hardware(Strings)
    BY <1>1, InList
  <2> HIDE DEF h
  <2>2. h[3] \in Seq(PartNumbers(Strings))
    BY <2>1 DEF Hardware
  <2>3. \A j \in 1 .. Len(h[3]) : h[3][j] \in ToSet(h[3])
    BY <2>2, InList
  <2>4. Reads(HardwareFields, EncodeHardware(h), h)
    BY <1>2, <1>3, <2>1, <2>3, HardwareReads
  <2> QED BY <2>4 DEF h
<1> HIDE DEF ss
<1>6. Reads(ListOf(HardwareFields), Listed(ss), list)
  BY <1>1, <1>2, <1>4, <1>5, EncodedListReads
<1>7. Reads(InOrder(<<ListOf(HardwareFields)>>), Listed(ss), <<list>>)
  BY <1>6, OneReads
<1> QED BY <1>1, <1>7
       DEF LoadConfigurationListFields, EncodeLoadConfigurationList, ss, list

(* The upload status file.                                                 *)
LEMMA UploadStatusReads ==
  ASSUME NEW c \in Files(Strings)["UploadStatus"], Encodable("UploadStatus", c)
  PROVE  /\ Reads(UploadStatusFields, EncodeUploadStatus(c), c)
         /\ Len(EncodeUploadStatus(c)) >= 9
<1> DEFINE list == c[7]
           ss == [i \in DOMAIN list |-> EncodeLoadStatus(list[i])]
<1>1. /\ c = <<c[1], c[2], c[3], c[4], c[5], c[6], list>>
      /\ c[1] \in StatusCodes /\ c[2] \in Strings /\ c[3] \in Count
      /\ c[4] \in Count /\ c[5] \in Short /\ c[6] \in Percent
      /\ list \in Seq(LoadStatuses(Strings))
  BY DEF Files, Status
<1>2. Len(list) < Word
  BY DEF Encodable, Lists
<1>3. /\ TextFits(c[2])
      /\ \A l \in ToSet(list) : TextFits(l[1]) /\ TextFits(l[2]) /\ TextFits(l[5])
  BY DEF Encodable, Texts
<1> HIDE DEF list
<1>4. ss = [i \in 1 .. Len(list) |-> ss[i]]
  BY <1>1, InList
<1>5. \A i \in 1 .. Len(list) : Reads(LoadStatusFields, ss[i], list[i])
  <2> SUFFICES ASSUME NEW i \in 1 .. Len(list)
               PROVE  Reads(LoadStatusFields, EncodeLoadStatus(list[i]), list[i])
    BY <1>1, InList
  <2>1. list[i] \in ToSet(list) /\ list[i] \in LoadStatuses(Strings)
    BY <1>1, InList
  <2> QED BY <1>3, <2>1, LoadStatusReads
<1> HIDE DEF ss
<1>6. /\ Reads(ListOf(LoadStatusFields), Listed(ss), list)
      /\ Listed(ss) \in Bytes
  BY <1>1, <1>2, <1>4, <1>5, EncodedListReads
<1>7. /\ Reads(CodeField(StatusCodes), U16(c[1]), c[1])
      /\ Reads(TextField, Text(c[2]), c[2])
      /\ Reads(NumberField, U16(c[3]), c[3]) /\ Reads(NumberField, U16(c[4]), c[4])
      /\ Reads(SignedField, U16(c[5]), c[5]) /\ Reads(RatioField, RatioText(c[6]), c[6])
  <2>1. StatusCodes \subseteq Count
    BY Widths DEF StatusCodes
  <2> QED BY <1>1, <1>3, <2>1, CodeFields, TextReads, NumberFields, SignedFields,
             RatioReads
<1> DEFINE enc == Listed(ss)
<1>8. Listed([i \in DOMAIN list |-> EncodeLoadStatus(list[i])]) = enc
  BY DEF ss
<1> HIDE DEF enc
<1>9. Reads(InOrder(<<CodeField(StatusCodes), TextField, NumberField, NumberField,
                      SignedField, RatioField, ListOf(LoadStatusFields)>>),
            FlattenSeq(<<U16(c[1]), Text(c[2]), U16(c[3]), U16(c[4]), U16(c[5]),
                         RatioText(c[6]), enc>>),
            <<c[1], c[2], c[3], c[4], c[5], c[6], list>>)
  BY <1>6, <1>7, SevenReads DEF enc
<1> DEFINE s1 == U16(c[1])
           s2 == Text(c[2])
           s3 == U16(c[3])
           s4 == U16(c[4])
           s5 == U16(c[5])
           s6 == RatioText(c[6])
<1>10. Len(FlattenSeq(<<s1, s2, s3, s4, s5, s6, enc>>)) >= 9
  <2>1. /\ s1 \in Bytes /\ Len(s1) = 2 /\ s3 \in Bytes /\ Len(s3) = 2
        /\ s4 \in Bytes /\ Len(s4) = 2 /\ s5 \in Bytes /\ Len(s5) = 2
    <3>1. c[1] \in Int /\ c[3] \in Int /\ c[4] \in Int /\ c[5] \in Int
      BY <1>1, Widths DEF StatusCodes
    <3> QED BY <3>1, NumberIsU16
  <2>2. s2 \in Bytes /\ Len(s2) >= 1 /\ Len(s2) \in Nat
    BY <1>1, <1>3, TextBytes
  <2>3. s6 \in Bytes /\ enc \in Bytes
    BY <1>6, <1>7 DEF Reads, enc
  <2> HIDE DEF s1, s2, s3, s4, s5, s6
  <2>4. Len(s6) \in Nat /\ Len(enc) \in Nat
    BY <2>3, Joins
  <2>5. /\ s1 \in Bytes /\ s2 \in Bytes /\ s3 \in Bytes /\ s4 \in Bytes
        /\ s5 \in Bytes /\ s6 \in Bytes /\ enc \in Bytes
    BY <2>1, <2>2, <2>3
  <2>6. Len(FlattenSeq(<<s1, s2, s3, s4, s5, s6, enc>>)) =
          Len(s1) + Len(s2) + Len(s3) + Len(s4) + Len(s5) + Len(s6) + Len(enc)
    <3> DEFINE parts == <<s1, s2, s3, s4, s5, s6, enc>>
    <3>1. /\ parts \in Seq(Bytes) /\ Len(parts) = 7
          /\ parts[1] = s1 /\ parts[2] = s2 /\ parts[3] = s3 /\ parts[4] = s4 /\ parts[5] = s5
          /\ parts[6] = s6 /\ parts[7] = enc
      BY <2>5
    <3> HIDE DEF parts
    <3> QED BY <3>1, SevenParts DEF parts
  <2> QED BY <2>1, <2>2, <2>4, <2>6
<1> QED BY <1>1, <1>8, <1>9, <1>10 DEF UploadStatusFields, EncodeUploadStatus, list

(* The download status file.                                               *)
LEMMA DownloadStatusReads ==
  ASSUME NEW c \in Files(Strings)["DownloadStatus"], Encodable("DownloadStatus", c)
  PROVE  /\ Reads(DownloadStatusFields, EncodeDownloadStatus(c), c)
         /\ Len(EncodeDownloadStatus(c)) >= 9
<1> DEFINE list == c[7]
           ss == [i \in DOMAIN list |-> EncodeFileStatus(list[i])]
<1>1. /\ c = <<c[1], c[2], c[3], c[4], c[5], c[6], list>>
      /\ c[1] \in StatusCodes /\ c[2] \in Strings /\ c[3] \in Count
      /\ c[4] \in Count /\ c[5] \in Short /\ c[6] \in Percent
      /\ list \in Seq(FileStatuses(Strings))
  BY DEF Files, Status
<1>2. Len(list) < Word
  BY DEF Encodable, Lists
<1>3. /\ TextFits(c[2])
      /\ \A f \in ToSet(list) : TextFits(f[1]) /\ TextFits(f[3])
  BY DEF Encodable, Texts
<1> HIDE DEF list
<1>4. ss = [i \in 1 .. Len(list) |-> ss[i]]
  BY <1>1, InList
<1>5. \A i \in 1 .. Len(list) : Reads(FileStatusFields, ss[i], list[i])
  <2> SUFFICES ASSUME NEW i \in 1 .. Len(list)
               PROVE  Reads(FileStatusFields, EncodeFileStatus(list[i]), list[i])
    BY <1>1, InList
  <2>1. list[i] \in ToSet(list) /\ list[i] \in FileStatuses(Strings)
    BY <1>1, InList
  <2> QED BY <1>3, <2>1, FileStatusReads
<1> HIDE DEF ss
<1>6. /\ Reads(ListOf(FileStatusFields), Listed(ss), list)
      /\ Listed(ss) \in Bytes
  BY <1>1, <1>2, <1>4, <1>5, EncodedListReads
<1>7. /\ Reads(CodeField(StatusCodes), U16(c[1]), c[1])
      /\ Reads(TextField, Text(c[2]), c[2])
      /\ Reads(NumberField, U16(c[3]), c[3]) /\ Reads(NumberField, U16(c[4]), c[4])
      /\ Reads(SignedField, U16(c[5]), c[5]) /\ Reads(RatioField, RatioText(c[6]), c[6])
  <2>1. StatusCodes \subseteq Count
    BY Widths DEF StatusCodes
  <2> QED BY <1>1, <1>3, <2>1, CodeFields, TextReads, NumberFields, SignedFields,
             RatioReads
<1> DEFINE enc == Listed(ss)
<1>8. Listed([i \in DOMAIN list |-> EncodeFileStatus(list[i])]) = enc
  BY DEF ss
<1> HIDE DEF enc
<1>9. Reads(InOrder(<<CodeField(StatusCodes), TextField, NumberField, NumberField,
                      SignedField, RatioField, ListOf(FileStatusFields)>>),
            FlattenSeq(<<U16(c[1]), Text(c[2]), U16(c[3]), U16(c[4]), U16(c[5]),
                         RatioText(c[6]), enc>>),
            <<c[1], c[2], c[3], c[4], c[5], c[6], list>>)
  BY <1>6, <1>7, SevenReads DEF enc
<1> DEFINE s1 == U16(c[1])
           s2 == Text(c[2])
           s3 == U16(c[3])
           s4 == U16(c[4])
           s5 == U16(c[5])
           s6 == RatioText(c[6])
<1>10. Len(FlattenSeq(<<s1, s2, s3, s4, s5, s6, enc>>)) >= 9
  <2>1. /\ s1 \in Bytes /\ Len(s1) = 2 /\ s3 \in Bytes /\ Len(s3) = 2
        /\ s4 \in Bytes /\ Len(s4) = 2 /\ s5 \in Bytes /\ Len(s5) = 2
    <3>1. c[1] \in Int /\ c[3] \in Int /\ c[4] \in Int /\ c[5] \in Int
      BY <1>1, Widths DEF StatusCodes
    <3> QED BY <3>1, NumberIsU16
  <2>2. s2 \in Bytes /\ Len(s2) >= 1 /\ Len(s2) \in Nat
    BY <1>1, <1>3, TextBytes
  <2>3. s6 \in Bytes /\ enc \in Bytes
    BY <1>6, <1>7 DEF Reads, enc
  <2> HIDE DEF s1, s2, s3, s4, s5, s6
  <2>4. Len(s6) \in Nat /\ Len(enc) \in Nat
    BY <2>3, Joins
  <2>5. /\ s1 \in Bytes /\ s2 \in Bytes /\ s3 \in Bytes /\ s4 \in Bytes
        /\ s5 \in Bytes /\ s6 \in Bytes /\ enc \in Bytes
    BY <2>1, <2>2, <2>3
  <2>6. Len(FlattenSeq(<<s1, s2, s3, s4, s5, s6, enc>>)) =
          Len(s1) + Len(s2) + Len(s3) + Len(s4) + Len(s5) + Len(s6) + Len(enc)
    <3> DEFINE parts == <<s1, s2, s3, s4, s5, s6, enc>>
    <3>1. /\ parts \in Seq(Bytes) /\ Len(parts) = 7
          /\ parts[1] = s1 /\ parts[2] = s2 /\ parts[3] = s3 /\ parts[4] = s4 /\ parts[5] = s5
          /\ parts[6] = s6 /\ parts[7] = enc
      BY <2>5
    <3> HIDE DEF parts
    <3> QED BY <3>1, SevenParts DEF parts
  <2> QED BY <2>1, <2>2, <2>4, <2>6
<1> QED BY <1>1, <1>8, <1>9, <1>10 DEF DownloadStatusFields, EncodeDownloadStatus, list

(* The user defined data with its length.                                  *)
LEMMA UserDataReads ==
  ASSUME NEW d \in Bytes, Len(d) <= 255
  PROVE  /\ <<Len(d)>> \o d \in Bytes /\ Len(<<Len(d)>> \o d) >= 1
         /\ UserDefinedDataField[<<Len(d)>> \o d] = Got(d, <<>>)
<1> DEFINE n == Len(d)
           head == <<n>>
           b == head \o d
<1>1. n \in Nat /\ n \in Byte
  BY Joins, Widths
<1>2. head \in Bytes /\ Len(head) = 1 /\ head[1] = n
  BY <1>1 DEF Bytes
<1> HIDE DEF head, n
<1>3. b \in Bytes /\ Len(b) = 1 + n
  BY <1>2, Join DEF n
<1>4. b[1] = n
  <2>1. 1 \in 1 .. Len(head)
    BY <1>2
  <2> QED BY <1>2, <2>1, PartFront
<1>5. Behind(b, 1) = d
  <2>1. Behind(head \o d, Len(head)) = d
    BY <1>2, PartFront
  <2> QED BY <1>2, <2>1
<1>6. Tail(b) = d /\ b # <<>>
  <2> HIDE DEF b
  <2>1. b # <<>>
    BY <1>1, <1>3, EmptySeq
  <2>2. Tail(b) = SubSeq(b, 2, Len(b))
    BY <1>3, <2>1, TailIsSubSeq DEF Bytes
  <2>3. Behind(b, 1) = SubSeq(b, 2, Len(b))
    BY DEF Behind
  <2> QED BY <1>5, <2>1, <2>2, <2>3
<1> HIDE DEF b
<1>7. UserDefinedDataField[b] = Got(d, <<>>)
  <2>1. b[1] = Len(b) - 1
    BY <1>1, <1>3, <1>4
  <2> QED BY <1>3, <1>6, <2>1 DEF UserDefinedDataField
<1>8. Len(b) >= 1
  BY <1>1, <1>3
<1> QED BY <1>3, <1>7, <1>8 DEF b, head, n

(* The information status file.                                            *)
LEMMA InformationStatusReads ==
  ASSUME NEW c \in Files(Strings)["InformationStatus"],
         Encodable("InformationStatus", c)
  PROVE  /\ Reads(InformationStatusFields, EncodeInformationStatus(c), c)
         /\ Len(EncodeInformationStatus(c)) >= 9
<1>1. /\ c = <<c[1], c[2], c[3], c[4], c[5]>>
      /\ c[1] \in Count /\ c[2] \in StatusCodes /\ c[3] \in Count
      /\ c[4] \in Short /\ c[5] \in Strings
  BY DEF Files
<1>2. TextFits(c[5])
  BY DEF Encodable, Texts
<1>3. /\ Reads(NumberField, U16(c[1]), c[1])
      /\ Reads(CodeField(StatusCodes), U16(c[2]), c[2])
      /\ Reads(NumberField, U16(c[3]), c[3]) /\ Reads(SignedField, U16(c[4]), c[4])
      /\ Reads(TextField, Text(c[5]), c[5])
  <2>1. StatusCodes \subseteq Count
    BY Widths DEF StatusCodes
  <2> QED BY <1>1, <1>2, <2>1, CodeFields, TextReads, NumberFields, SignedFields
<1>4. Reads(InformationStatusFields, EncodeInformationStatus(c),
            <<c[1], c[2], c[3], c[4], c[5]>>)
  BY <1>3, FiveReads DEF InformationStatusFields, EncodeInformationStatus
<1> DEFINE s1 == U16(c[1])
           s2 == U16(c[2])
           s3 == U16(c[3])
           s4 == U16(c[4])
           s5 == Text(c[5])
<1>5. Len(FlattenSeq(<<s1, s2, s3, s4, s5>>)) >= 9
  <2>1. /\ s1 \in Bytes /\ Len(s1) = 2 /\ s2 \in Bytes /\ Len(s2) = 2
        /\ s3 \in Bytes /\ Len(s3) = 2 /\ s4 \in Bytes /\ Len(s4) = 2
    <3>1. c[1] \in Int /\ c[2] \in Int /\ c[3] \in Int /\ c[4] \in Int
      BY <1>1, Widths DEF StatusCodes
    <3> QED BY <3>1, NumberIsU16
  <2>2. s5 \in Bytes /\ Len(s5) >= 1 /\ Len(s5) \in Nat
    BY <1>1, <1>2, TextBytes
  <2> HIDE DEF s1, s2, s3, s4, s5
  <2>4. /\ s1 \in Bytes /\ s2 \in Bytes /\ s3 \in Bytes /\ s4 \in Bytes
        /\ s5 \in Bytes
    BY <2>1, <2>2
  <2>3. Len(FlattenSeq(<<s1, s2, s3, s4, s5>>)) =
          Len(s1) + Len(s2) + Len(s3) + Len(s4) + Len(s5)
    <3> DEFINE ss == <<s1, s2, s3, s4, s5>>
    <3>1. /\ ss \in Seq(Bytes) /\ Len(ss) = 5
          /\ ss[1] = s1 /\ ss[2] = s2 /\ ss[3] = s3 /\ ss[4] = s4 /\ ss[5] = s5
      BY <2>4
    <3> HIDE DEF ss
    <3> QED BY <3>1, FiveParts DEF ss
  <2> QED BY <2>1, <2>2, <2>3
<1> QED BY <1>1, <1>4, <1>5 DEF EncodeInformationStatus

(* The initialization file, for a code that is read.                       *)
LEMMA InitializationReads ==
  ASSUME NEW c \in Files(Strings)["Initialization"], Encodable("Initialization", c)
  PROVE  /\ EncodeInitialization(c) = U16(c[1]) \o Text(c[2])
         /\ U16(c[1]) \in Bytes /\ Text(c[2]) \in Bytes /\ c[1] \in Count
         /\ Len(EncodeInitialization(c)) >= 3
         /\ c[1] \in AcceptanceCodes =>
              Reads(InitializationFields, EncodeInitialization(c), c)
<1>1. c = <<c[1], c[2]>> /\ c[1] \in Count /\ c[2] \in Strings
  BY DEF Files
<1>2. TextFits(c[2])
  BY DEF Encodable, Texts
<1>3. Reads(TextField, Text(c[2]), c[2])
  BY <1>1, <1>2, TextReads
<1>4. U16(c[1]) \in Bytes /\ Text(c[2]) \in Bytes
  BY <1>1, <1>3, NumberIsU16, Widths DEF Reads
<1>5. EncodeInitialization(c) = U16(c[1]) \o Text(c[2])
  <2> DEFINE s1 == U16(c[1])
             s2 == Text(c[2])
  <2>1. s1 \in Bytes /\ s2 \in Bytes
    BY <1>4
  <2> HIDE DEF s1, s2
  <2>4. FlattenSeq(<<s1, s2>>) = s1 \o s2
    BY <2>1, FlattenTwo
  <2> QED BY <2>4 DEF EncodeInitialization, s1, s2
<1>6. ASSUME c[1] \in AcceptanceCodes
      PROVE  Reads(InitializationFields, EncodeInitialization(c), c)
  <2>1. AcceptanceCodes \subseteq Count
    BY Widths DEF AcceptanceCodes
  <2>2. Reads(CodeField(AcceptanceCodes), U16(c[1]), c[1])
    BY <1>6, <2>1, CodeFields
  <2>3. Reads(InitializationFields, EncodeInitialization(c), <<c[1], c[2]>>)
    BY <1>3, <2>2, TwoReads DEF InitializationFields, EncodeInitialization
  <2> QED BY <1>1, <2>3
<1>7. Len(EncodeInitialization(c)) >= 3
  <2> DEFINE s1 == U16(c[1])
             s2 == Text(c[2])
  <2>1. /\ s1 \in Bytes /\ Len(s1) = 2
        /\ s2 \in Bytes /\ Len(s2) \in Nat /\ Len(s2) >= 1
    BY <1>1, <1>2, NumberIsU16, Widths, TextBytes
  <2>2. EncodeInitialization(c) = s1 \o s2
    BY <1>5
  <2> HIDE DEF s1, s2
  <2>3. Len(s1 \o s2) = Len(s1) + Len(s2)
    BY <2>1, Join
  <2> QED BY <2>1, <2>2, <2>3
<1> QED BY <1>1, <1>4, <1>5, <1>6, <1>7

(* The download request file.                                              *)
LEMMA DownloadRequestReads ==
  ASSUME NEW c \in Files(Strings)["DownloadRequest"], Encodable("DownloadRequest", c)
  PROVE  /\ c[1] \in Seq(Strings) /\ c[2] \in Bytes /\ Len(c[2]) <= 255
         /\ Reads(ListOf(TextField), Listed([i \in DOMAIN c[1] |-> Text(c[1][i])]), c[1])
         /\ EncodeDownloadRequest(c) =
              Listed([i \in DOMAIN c[1] |-> Text(c[1][i])]) \o (<<Len(c[2])>> \o c[2])
         /\ EncodeDownloadRequest(c) \in Bytes /\ Len(EncodeDownloadRequest(c)) >= 3
         /\ DownloadRequestFields[EncodeDownloadRequest(c)] = Got(c, <<>>)
<1> DEFINE d == c[2]
           list == c[1]
           s1 == Listed([i \in DOMAIN list |-> Text(list[i])])
           s2 == <<Len(d)>> \o d
           ss == <<s1, s2>>
           vs == <<list, d>>
           fields == <<ListOf(TextField), UserDefinedDataField>>
<1>1. c = <<list, d>> /\ list \in Seq(Strings) /\ d \in Bytes
  BY DEF Files
<1>2. Len(list) < Word /\ Len(d) <= 255 /\ \A s \in ToSet(list) : TextFits(s)
  BY DEF Encodable, Lists, Texts
<1>3. Reads(ListOf(TextField), s1, list) /\ Len(s1) >= 2
  BY <1>1, <1>2, StringListReads
<1>4. s2 \in Bytes /\ UserDefinedDataField[s2] = Got(d, <<>>) /\ s1 \in Bytes
  BY <1>1, <1>2, <1>3, UserDataReads DEF Reads
<1>4a. Len(s2) >= 1
  BY <1>1, <1>2, UserDataReads
<1> HIDE DEF s1, s2, d, list
<1>5. /\ ss \in Seq(Bytes) /\ Len(ss) = 2 /\ Len(vs) = 2 /\ Len(fields) = 2
      /\ vs \in Seq({list, d}) /\ <<>> \in Bytes
  BY <1>4, Joins
<1>6. \A i \in 1 .. 2 : \A u \in Bytes :
        i < 2 \/ u = <<>> => fields[i][ss[i] \o u] = Got(vs[i], u)
  <2> SUFFICES ASSUME NEW i \in 1 .. 2, NEW u \in Bytes, i < 2 \/ u = <<>>
               PROVE  fields[i][ss[i] \o u] = Got(vs[i], u)
    OBVIOUS
  <2>1. CASE i = 1
    BY <1>3, <2>1 DEF Reads
  <2>2. CASE i = 2
    <3>1. u = <<>> /\ s2 \o <<>> = s2
      BY <1>4, <2>2, Joins
    <3> QED BY <1>4, <2>2, <3>1
  <2> QED BY <2>1, <2>2
<1> DEFINE flat == FlattenSeq(ss)
<1>7. flat = s1 \o s2 /\ flat \in Bytes /\ Len(flat) >= 3
  <2>1. /\ flat = s1 \o s2 /\ flat \in Bytes /\ Len(flat) = Len(s1) + Len(s2)
        /\ Len(s1) \in Nat /\ Len(s2) \in Nat
    BY <1>4, FlattenTwo, Join
  <2> HIDE DEF flat
  <2>2. Len(s1) >= 2 /\ Len(s2) >= 1
    BY <1>3, <1>4a
  <2> QED BY <2>1, <2>2
<1> HIDE DEF ss, vs, fields
<1>8. InOrder(fields)[flat \o <<>>] = Got(vs, <<>>)
  <2> DEFINE last == <<>>
             N == 2
             V == {list, d}
  <2>1. last \in Bytes /\ N \in Nat /\ last = <<>>
    BY <1>5
  <2>2. ss \in Seq(Bytes) /\ Len(ss) = N /\ Len(vs) = N /\ Len(fields) = N
        /\ vs \in Seq(V)
    BY <1>5
  <2>3. InTurn(fields, ss, vs, N, last)
    BY <1>6 DEF InTurn
  <2> HIDE DEF last, N, V
  <2>4. InOrder(fields)[FlattenSeq(ss) \o last] = Got(vs, last)
    BY <2>1, <2>2, <2>3, InOrderReads, ZenonT(60)
  <2> QED BY <2>4 DEF last
<1>9. flat \o <<>> = flat
  BY <1>7, Joins
<1>10. EncodeDownloadRequest(c) = flat
  BY DEF EncodeDownloadRequest, flat, ss, s1, s2, d, list
<1>11. DownloadRequestFields = InOrder(fields)
  BY DEF DownloadRequestFields, fields
<1> HIDE DEF flat
<1>12. DownloadRequestFields[flat] = Got(<<list, d>>, <<>>)
  BY <1>8, <1>9, <1>11 DEF vs
<1>13. DownloadRequestFields[EncodeDownloadRequest(c)] = Got(c, <<>>)
  BY <1>1, <1>10, <1>12
<1> QED BY <1>1, <1>2, <1>3, <1>7, <1>10, <1>13 DEF s1, s2, d, list

(* Of all files only a load configuration list may be smaller than what    *)
(* decode() asks for.                                                      *)
LEMMA BodySize ==
  ASSUME NEW k \in Plain, k # "LoadConfigurationList",
         NEW c \in Files(Strings)[k], Encodable(k, c), Body(k, c) \in Bytes
  PROVE  HeaderSize + Len(Body(k, c)) >= MinimumSize(k)
<1>1. Len(Body(k, c)) \in Nat
  BY Joins
<1>2. CASE k = "Initialization"
  <2>1. Len(Body(k, c)) >= 3
    <3> HIDE DEF EncodeInitialization
    <3> QED BY <1>2, InitializationReads DEF Body
  <2> QED BY <1>1, <1>2, <2>1 DEF MinimumSize, HeaderSize
<1>3. CASE k = "InformationStatus"
  <2>1. Len(Body(k, c)) >= 9
    BY <1>3, InformationStatusReads DEF Body
  <2> QED BY <1>1, <1>3, <2>1 DEF MinimumSize, HeaderSize
<1>4. CASE k = "UploadStatus"
  <2>1. Len(Body(k, c)) >= 9
    BY <1>4, UploadStatusReads DEF Body
  <2> QED BY <1>1, <1>4, <2>1 DEF MinimumSize, HeaderSize
<1>5. CASE k = "DownloadStatus"
  <2>1. Len(Body(k, c)) >= 9
    BY <1>5, DownloadStatusReads DEF Body
  <2> QED BY <1>1, <1>5, <2>1 DEF MinimumSize, HeaderSize
<1>6. CASE k = "DownloadRequest"
  <2>1. Len(Body(k, c)) >= 3
    BY <1>6, DownloadRequestReads DEF Body
  <2> QED BY <1>1, <1>6, <2>1 DEF MinimumSize, HeaderSize
<1>7. CASE k = "UploadRequest" \/ k = "DownloadList"
  <2>1. Body(k, c) = Listed([i \in DOMAIN c[1] |-> EncodePair(c[1][i])])
    BY <1>7 DEF Body, EncodeUploadRequest, EncodeDownloadList
  <2>2. Len(Body(k, c)) >= 2
    BY <1>7, <2>1, PairListReads
  <2> QED BY <1>1, <1>7, <2>2 DEF MinimumSize, HeaderSize
<1>8. CASE k = "DownloadAnswer"
  <2>1. c[1] \in Seq(Strings)
    BY <1>8 DEF Files, Alone
  <2>2. Len(c[1]) < Word /\ \A s \in ToSet(c[1]) : TextFits(s)
    BY <1>8 DEF Encodable, Lists, Texts
  <2>3. Len(Listed([i \in DOMAIN c[1] |-> Text(c[1][i])])) >= 2
    BY <2>1, <2>2, StringListReads
  <2>4. Body(k, c) = Listed([i \in DOMAIN c[1] |-> Text(c[1][i])])
    BY <1>8 DEF Body, EncodeDownloadAnswer
  <2> QED BY <1>1, <1>8, <2>3, <2>4 DEF MinimumSize, HeaderSize
<1> QED BY <1>2, <1>3, <1>4, <1>5, <1>6, <1>7, <1>8 DEF Plain, Kinds

(* What was written behind the header is read as what was written.         *)
LEMMA BodyReads ==
  ASSUME NEW k \in Plain, NEW c \in Files(Strings)[k], Encodable(k, c)
  PROVE  /\ Body(k, c) \in Bytes
         /\ k = "Initialization" /\ c[1] \notin AcceptanceCodes =>
              \A t \in Bytes : ~Fields(k)[Body(k, c) \o t].ok
         /\ ~(k = "Initialization" /\ c[1] \notin AcceptanceCodes) =>
              Fields(k)[Body(k, c)] = Got(c, <<>>)
<1>1. ASSUME NEW f, NEW s, NEW v, Reads(f, s, v)
      PROVE  s \in Bytes /\ f[s] = Got(v, <<>>)
  <2>1. s \o <<>> = s /\ <<>> \in Bytes
    BY <1>1, Joins DEF Reads
  <2> QED BY <1>1, <2>1 DEF Reads
<1>2. CASE k = "Initialization"
  <2>1. /\ Body(k, c) = EncodeInitialization(c) /\ Fields(k) = InitializationFields
    BY <1>2 DEF Body, Fields
  <2> DEFINE s1 == U16(c[1])
             s2 == Text(c[2])
             b == EncodeInitialization(c)
  <2>2. /\ b = s1 \o s2 /\ s1 \in Bytes /\ s2 \in Bytes /\ c[1] \in Count
        /\ c[1] \in AcceptanceCodes => Reads(InitializationFields, b, c)
    BY <1>2, InitializationReads
  <2>3. \A t \in Bytes : Number(s1 \o t) = c[1]
    <3>1. c[1] \in Int /\ (c[1] % Word) = c[1]
      BY <2>2, Bits, Widths
    <3> QED BY <3>1, NumberIsU16
  <2> HIDE DEF s1, s2, b
  <2>4. ASSUME c[1] \notin AcceptanceCodes, NEW t \in Bytes
        PROVE  ~InitializationFields[b \o t].ok
    <3>1. b \o t = s1 \o (s2 \o t) /\ s2 \o t \in Bytes /\ b \o t \in Bytes
      BY <2>2, Joins
    <3>2. Number(b \o t) = c[1]
      BY <2>3, <3>1
    <3>3. ~CodeField(AcceptanceCodes)[b \o t].ok
      BY <2>4, <3>1, <3>2, Results DEF CodeField
    <3> DEFINE fields == <<CodeField(AcceptanceCodes), TextField>>
    <3>4. PICK from : Recursion(fields, from)
      BY InOrderRecursion
    <3>5. Len(fields) = 2 /\ fields[1] = CodeField(AcceptanceCodes)
      OBVIOUS
    <3>6. InitializationFields = InOrder(fields)
      BY DEF InitializationFields
    <3> HIDE DEF fields
    <3>7. from[1][b \o t] = Followed(fields[1][b \o t], from[2])
      <4>1. 1 \in 1 .. Len(fields)
        BY <3>5
      <4> QED BY <3>1, <3>4, <4>1 DEF Recursion
    <3>8. InOrder(fields) = from[1]
      BY <3>4 DEF Recursion
    <3>9. InitializationFields[b \o t] = Refusal
      BY <3>3, <3>5, <3>6, <3>7, <3>8 DEF Followed
    <3> QED BY <3>9, Results
  <2>5. b \in Bytes
    BY <2>2, Join
  <2> QED BY <1>1, <1>2, <2>1, <2>2, <2>4, <2>5 DEF b
<1>3. CASE k = "InformationStatus"
  BY <1>1, <1>3, InformationStatusReads DEF Body, Fields
<1>4. CASE k = "LoadConfigurationList"
  BY <1>1, <1>4, HardwareListReads DEF Body, Fields
<1>5. CASE k = "UploadStatus"
  BY <1>1, <1>5, UploadStatusReads DEF Body, Fields
<1>6. CASE k = "DownloadStatus"
  BY <1>1, <1>6, DownloadStatusReads DEF Body, Fields
<1>7. CASE k = "UploadRequest" \/ k = "DownloadList"
  <2>1. Reads(InOrder(<<ListOf(PairFields)>>),
              Listed([i \in DOMAIN c[1] |-> EncodePair(c[1][i])]), c)
    BY <1>7, PairListReads
  <2>2. Body(k, c) = Listed([i \in DOMAIN c[1] |-> EncodePair(c[1][i])])
    BY <1>7 DEF Body, EncodeUploadRequest, EncodeDownloadList
  <2>3. Fields(k) = InOrder(<<ListOf(PairFields)>>)
    BY <1>7 DEF Fields, UploadRequestFields, DownloadListFields
  <2> QED BY <1>1, <1>7, <2>1, <2>2, <2>3
<1>8. CASE k = "DownloadRequest"
  BY <1>8, DownloadRequestReads DEF Body, Fields
<1>9. CASE k = "DownloadAnswer"
  <2>1. c = <<c[1]>> /\ c[1] \in Seq(Strings)
    BY <1>9 DEF Files, Alone
  <2>2. Len(c[1]) < Word /\ \A s \in ToSet(c[1]) : TextFits(s)
    BY <1>9 DEF Encodable, Lists, Texts
  <2>3. Reads(ListOf(TextField), Listed([i \in DOMAIN c[1] |-> Text(c[1][i])]), c[1])
    BY <2>1, <2>2, StringListReads
  <2>4. Reads(InOrder(<<ListOf(TextField)>>),
              Listed([i \in DOMAIN c[1] |-> Text(c[1][i])]), <<c[1]>>)
    BY <2>3, OneReads
  <2>5. Body(k, c) = Listed([i \in DOMAIN c[1] |-> Text(c[1][i])])
        /\ Fields(k) = InOrder(<<ListOf(TextField)>>)
    BY <1>9 DEF Body, Fields, EncodeDownloadAnswer, DownloadAnswerFields
  <2> QED BY <1>1, <1>9, <2>1, <2>4, <2>5
<1> QED BY <1>2, <1>3, <1>4, <1>5, <1>6, <1>7, <1>8, <1>9 DEF Plain, Kinds

(* A protocol file is read as what was written, unless it is Unreadable.   *)
LEMMA PlainRoundTrip ==
  ASSUME NEW k \in Plain, NEW c \in Files(Strings)[k], Encodable(k, c),
         NEW version \in Versions
  PROVE  /\ Encode(k, version, c) \in Bytes
         /\ Unreadable(k, c) => ~Decode(k, Encode(k, version, c)).ok
         /\ ~Unreadable(k, c) => Decode(k, Encode(k, version, c)) = Got(c, <<>>)
<1> DEFINE body == Body(k, c)
           b == InsertHeader(version, body)
           bad == k = "Initialization" /\ c[1] \notin AcceptanceCodes
           size == HeaderSize + Len(body)
<1>1. /\ body \in Bytes
      /\ bad => ~Fields(k)[body].ok
      /\ ~bad => Fields(k)[body] = Got(c, <<>>)
  <2>1. body \o <<>> = body /\ <<>> \in Bytes
    BY BodyReads, Joins
  <2> HIDE DEF body
  <2>2. bad => \A t \in Bytes : ~Fields(k)[body \o t].ok
    BY BodyReads DEF body
  <2>3. body \in Bytes /\ (~bad => Fields(k)[body] = Got(c, <<>>))
    BY BodyReads DEF body
  <2> QED BY <2>1, <2>2, <2>3
<1>2. k = "LoadConfigurationList" \/ size >= MinimumSize(k)
  BY <1>1, BodySize
<1> HIDE DEF body
<1>3. /\ b \in Bytes /\ Len(b) = size /\ Behind(b, HeaderSize) = body
      /\ HeaderAccepted(b) <=> ~TooLarge(size)
  BY <1>1, HeaderReads
<1>4. Encode(k, version, c) = b /\ k # "FindPacket"
  BY DEF Encode, body, Plain
<1>5. Unreadable(k, c) <=>
        \/ k = "LoadConfigurationList" /\ size < MinimumSize(k)
        \/ bad
        \/ TooLarge(size)
  BY <1>4 DEF Unreadable, body
<1>6. size \in Int /\ MinimumSize(k) \in Int
  <2>1. Len(body) \in Nat
    BY <1>1, Joins
  <2> QED BY <2>1 DEF HeaderSize, MinimumSize
<1> HIDE DEF b, size
<1>7. Decode(k, b) =
        IF size < MinimumSize(k) \/ TooLarge(size) THEN Refusal
        ELSE IF Fields(k)[body].ok /\ Fields(k)[body].rest = <<>>
             THEN Fields(k)[body] ELSE Refusal
  BY <1>3, <1>4, Zenon DEF Decode
<1> HIDE DEF bad
<1>8. CASE Unreadable(k, c)
  <2>1. ~Decode(k, b).ok
    BY <1>1, <1>5, <1>7, <1>8, Results
  <2> QED BY <1>3, <1>4, <1>8, <2>1
<1>9. CASE ~Unreadable(k, c)
  <2>1. ~(size < MinimumSize(k)) /\ ~TooLarge(size) /\ ~bad
    BY <1>2, <1>5, <1>6, <1>9
  <2>2. Decode(k, b) = Got(c, <<>>)
    BY <1>1, <1>7, <2>1, Results
  <2> QED BY <1>3, <1>4, <1>9, <2>2
<1> QED BY <1>8, <1>9

-----------------------------------------------------------------------------
(* A sequence over a set is one over a larger set.                         *)
LEMMA SeqWidens ==
  ASSUME NEW S, NEW T, S \subseteq T
  PROVE  Seq(S) \subseteq Seq(T)
<1> SUFFICES ASSUME NEW s \in Seq(S) PROVE s \in Seq(T)
  OBVIOUS
<1>1. Len(s) \in Nat /\ s = [i \in 1 .. Len(s) |-> s[i]] /\ \A i \in 1 .. Len(s) : s[i] \in T
  BY LenProperties, ElementOfSeq
<1> QED BY <1>1

(* Strings that were read can be held.                                     *)
LEMMA FilesWiden ==
  ASSUME NEW k \in Kinds
  PROVE  Files(Readable)[k] \subseteq Files(Strings)[k]
<1>1. Readable \subseteq Strings
  BY DEF Readable
<1>2. Seq(Readable) \subseteq Seq(Strings)
  BY <1>1, SeqWidens
<1>3. Seq(Pairs(Readable)) \subseteq Seq(Pairs(Strings))
  <2>1. Pairs(Readable) \subseteq Pairs(Strings)
    BY <1>1 DEF Pairs
  <2> QED BY <2>1, SeqWidens
<1>4. Seq(Hardware(Readable)) \subseteq Seq(Hardware(Strings))
  <2>1. PartNumbers(Readable) \subseteq PartNumbers(Strings)
    BY <1>1 DEF PartNumbers
  <2>2. Seq(PartNumbers(Readable)) \subseteq Seq(PartNumbers(Strings))
    BY <2>1, SeqWidens
  <2>3. Hardware(Readable) \subseteq Hardware(Strings)
    BY <1>1, <2>2 DEF Hardware
  <2> QED BY <2>3, SeqWidens
<1>5. Seq(LoadStatuses(Readable)) \subseteq Seq(LoadStatuses(Strings))
  <2>1. LoadStatuses(Readable) \subseteq LoadStatuses(Strings)
    BY <1>1 DEF LoadStatuses
  <2> QED BY <2>1, SeqWidens
<1>6. Seq(FileStatuses(Readable)) \subseteq Seq(FileStatuses(Strings))
  <2>1. FileStatuses(Readable) \subseteq FileStatuses(Strings)
    BY <1>1 DEF FileStatuses
  <2> QED BY <2>1, SeqWidens
<1>7. CASE k = "Initialization" \/ k = "InformationStatus"
  BY <1>1, <1>7 DEF Files
<1>8. CASE k = "LoadConfigurationList"
  BY <1>4, <1>8 DEF Files, Alone
<1>9. CASE k = "UploadStatus"
  BY <1>1, <1>5, <1>9 DEF Files, Status
<1>10. CASE k = "DownloadStatus"
  BY <1>1, <1>6, <1>10 DEF Files, Status
<1>11. CASE k = "UploadRequest" \/ k = "DownloadList"
  BY <1>3, <1>11 DEF Files, Alone
<1>12. CASE k = "DownloadRequest"
  BY <1>2, <1>12 DEF Files
<1>13. CASE k = "DownloadAnswer"
  BY <1>1, <1>2, <1>13 DEF Files, Alone
<1>14. CASE k = "FindPacket"
  BY <1>14 DEF Files
<1> QED BY <1>7, <1>8, <1>9, <1>10, <1>11, <1>12, <1>13, <1>14 DEF Kinds

(* The terminators of a packet.                                            *)
Zeros(b) == {j \in DOMAIN b : b[j] = 0}

(* The characters of a string are the bytes but the terminator.            *)
LEMMA CharsAre == \A k : k \in Chars <=> k \in Byte /\ k # 0
<1>1. \A k : k \in Chars <=> k \in Int /\ 1 <= k /\ k <= 255
  BY DEF Chars
<1> QED BY <1>1, Widths

(* The terminators with one more byte.                                     *)
LEMMA ZerosAppend ==
  ASSUME NEW a \in Bytes, NEW e \in Byte, IsFiniteSet(Zeros(a))
  PROVE  /\ IsFiniteSet(Zeros(Append(a, e)))
         /\ Cardinality(Zeros(Append(a, e))) =
              IF e = 0 THEN Cardinality(Zeros(a)) + 1 ELSE Cardinality(Zeros(a))
<1> DEFINE n == Len(a)
           all == Append(a, e)
<1>1. /\ n \in Nat /\ all \in Seq(Byte) /\ Len(all) = n + 1
      /\ \A i \in 1 .. n : all[i] = a[i]
      /\ all[n + 1] = e /\ DOMAIN a = 1 .. n
  BY Appended, LenProperties DEF Bytes
<1>2. DOMAIN all = 1 .. n + 1
  BY <1>1, LenProperties
<1> HIDE DEF all, n
<1>3. CASE e = 0
  <2>1. Zeros(all) = Zeros(a) \cup {n + 1} /\ n + 1 \notin Zeros(a)
    BY <1>1, <1>2, <1>3 DEF Zeros
  <2> QED BY <1>3, <2>1, FS_AddElement DEF all
<1>4. CASE e # 0
  <2>1. Zeros(all) = Zeros(a)
    BY <1>1, <1>2, <1>4 DEF Zeros
  <2> QED BY <1>4, <2>1 DEF all
<1> QED BY <1>3, <1>4

(* No bytes have no terminators.                                           *)
LEMMA ZerosOfNone == Zeros(<<>>) = {} /\ IsFiniteSet(Zeros(<<>>)) /\ Cardinality(Zeros(<<>>)) = 0
<1>1. Zeros(<<>>) = {}
  BY DEF Zeros
<1> QED BY <1>1, FS_EmptySet

(* Packets behind each other have the terminators of both.                 *)
LEMMA ZerosJoin ==
  ASSUME NEW a \in Bytes, NEW t \in Bytes
  PROVE  /\ IsFiniteSet(Zeros(a)) /\ Cardinality(Zeros(a)) \in Nat
         /\ Cardinality(Zeros(a \o t)) = Cardinality(Zeros(a)) + Cardinality(Zeros(t))
<1> DEFINE Finite(x) == IsFiniteSet(Zeros(x)) /\ Cardinality(Zeros(x)) \in Nat
           T == {n \in Nat : \A x \in Bytes : Len(x) = n => Finite(x)}
           Adds(x) == Cardinality(Zeros(a \o x)) = Cardinality(Zeros(a)) + Cardinality(Zeros(x))
           U == {n \in Nat : \A x \in Bytes : Len(x) = n => Adds(x)}
<1>1. ASSUME NEW x \in Bytes, NEW k \in Nat, Len(x) = k + 1
      PROVE  \E y \in Bytes, e \in Byte : x = Append(y, e) /\ Len(y) = k
  <2>1. x # <<>> /\ x \in Seq(Byte)
    BY <1>1, EmptySeq DEF Bytes
  <2>2. PICK y \in Seq(Byte), e \in Byte : x = Append(y, e)
    BY <2>1, SequenceEmptyOrAppend
  <2>3. Len(x) = Len(y) + 1 /\ Len(y) \in Nat
    BY <2>2, Appended, LenProperties
  <2> QED BY <1>1, <2>2, <2>3 DEF Bytes
<1>2. ASSUME NEW x \in Bytes, Len(x) = 0 PROVE x = <<>>
  BY <1>2, EmptySeq DEF Bytes
<1>3. \A x \in Bytes : Finite(x)
  <2>1. 0 \in T
    BY <1>2, ZerosOfNone
  <2>2. ASSUME NEW k \in Nat, k \in T PROVE k + 1 \in T
    <3> SUFFICES ASSUME NEW x \in Bytes, Len(x) = k + 1 PROVE Finite(x)
      OBVIOUS
    <3>1. PICK y \in Bytes, e \in Byte : x = Append(y, e) /\ Len(y) = k
      BY <1>1
    <3>2. Finite(y)
      BY <2>2, <3>1
    <3> QED BY <3>1, <3>2, ZerosAppend
  <2>3. Nat \subseteq T
    <3> HIDE DEF T
    <3> QED BY <2>1, <2>2, Induct
  <2> HIDE DEF Finite
  <2> QED BY <2>3, Joins
<1>4. Adds(<<>>)
  <2>1. a \o <<>> = a /\ Cardinality(Zeros(a)) \in Nat
    BY <1>3, Joins
  <2> QED BY <2>1, ZerosOfNone
<1>5. ASSUME NEW y \in Bytes, NEW e \in Byte, Adds(y) PROVE Adds(Append(y, e))
  <2>1. a \o Append(y, e) = Append(a \o y, e)
    BY AppendBehind DEF Bytes
  <2>2. a \o y \in Bytes
    BY Joins
  <2>3. Finite(a) /\ Finite(y) /\ Finite(a \o y)
    BY <1>3, <2>2
  <2>4. Cardinality(Zeros(Append(a \o y, e))) =
          IF e = 0 THEN Cardinality(Zeros(a \o y)) + 1 ELSE Cardinality(Zeros(a \o y))
    BY <2>2, <2>3, ZerosAppend
  <2>5. Cardinality(Zeros(Append(y, e))) =
          IF e = 0 THEN Cardinality(Zeros(y)) + 1 ELSE Cardinality(Zeros(y))
    BY <2>3, ZerosAppend
  <2>6. Cardinality(Zeros(a \o y)) = Cardinality(Zeros(a)) + Cardinality(Zeros(y))
    BY <1>5
  <2> QED BY <2>1, <2>3, <2>4, <2>5, <2>6
<1> HIDE DEF Adds
<1>6. 0 \in U
  BY <1>2, <1>4
<1>7. ASSUME NEW k \in Nat, k \in U PROVE k + 1 \in U
  <2> SUFFICES ASSUME NEW x \in Bytes, Len(x) = k + 1 PROVE Adds(x)
    OBVIOUS
  <2>1. PICK y \in Bytes, e \in Byte : x = Append(y, e) /\ Len(y) = k
    BY <1>1
  <2> QED BY <1>5, <1>7, <2>1
<1>8. Nat \subseteq U
  <2> HIDE DEF U
  <2> QED BY <1>6, <1>7, Induct
<1>9. Adds(t)
  BY <1>8, Joins
<1> QED BY <1>3, <1>9 DEF Adds

(* A string with its terminator.                                           *)
LEMMA TerminatedIs ==
  ASSUME NEW s \in Strings
  PROVE  /\ Terminated(s) = s \o <<0>> /\ Terminated(s) \in Bytes
         /\ Len(Terminated(s)) = Len(s) + 1 /\ Len(s) \in Nat
         /\ Cardinality(Zeros(Terminated(s))) = 1
<1>1. s \in Bytes /\ s \in Seq(Byte) /\ Len(s) \in Nat /\ 0 \in Byte
      /\ \A i \in 1 .. Len(s) : s[i] \in Chars
  BY StringBytes, Widths DEF Bytes
<1>2. /\ Append(s, 0) = s \o <<0>> /\ Append(s, 0) \in Bytes
      /\ Len(Append(s, 0)) = Len(s) + 1
  BY <1>1, AppendIsConcat, Appended DEF Bytes
<1>3. Zeros(s) = {}
  <2>1. DOMAIN s = 1 .. Len(s)
    BY <1>1, LenProperties
  <2>2. \A i \in 1 .. Len(s) : s[i] # 0
    BY <1>1, CharsAre
  <2> QED BY <2>1, <2>2 DEF Zeros
<1>4. Cardinality(Zeros(Append(s, 0))) = 1
  <2>1. IsFiniteSet(Zeros(s)) /\ Cardinality(Zeros(s)) = 0
    BY <1>3, FS_EmptySet
  <2>2. Cardinality(Zeros(Append(s, 0))) =
          IF 0 = 0 THEN Cardinality(Zeros(s)) + 1 ELSE Cardinality(Zeros(s))
    BY <1>1, <2>1, ZerosAppend
  <2> QED BY <2>1, <2>2
<1> QED BY <1>1, <1>2, <1>4 DEF Terminated

(* A parameter of a packet is read as what was written.                    *)
LEMMA TerminatedReads ==
  ASSUME NEW s \in Strings
  PROVE  Reads(TerminatedField, Terminated(s), s)
<1> DEFINE z == Terminated(s)
<1>1. z = s \o <<0>> /\ z \in Bytes /\ Len(z) = Len(s) + 1 /\ Len(s) \in Nat
  BY TerminatedIs
<1>2. z[Len(s) + 1] = 0
  <2>1. s \in Seq(Byte) /\ 0 \in Byte
    BY StringBytes, Widths DEF Bytes
  <2> QED BY <2>1, Appended DEF Terminated
<1>3. ASSUME NEW t \in Bytes PROVE TerminatedField[z \o t] = Got(s, t)
  <2> DEFINE b == z \o t
  <2>1. b \in Bytes /\ Len(b) = Len(z) + Len(t) /\ Len(t) \in Nat
    BY <1>1, Join
  <2>2. Leading(b, Chars) = s
    BY <1>1, LeadingOfString
  <2> HIDE DEF z
  <2>3. b[Len(s) + 1] = 0 /\ Behind(b, Len(s) + 1) = t
    <3>1. Len(s) + 1 \in 1 .. Len(z)
      BY <1>1
    <3>2. b[Len(s) + 1] = z[Len(s) + 1] /\ Behind(b, Len(z)) = t
      BY <1>1, <3>1, PartFront
    <3> QED BY <1>1, <1>2, <3>2
  <2> HIDE DEF b
  <2>4. 0 \in ToSet(b)
    <3>1. Len(s) + 1 \in 1 .. Len(b)
      BY <1>1, <2>1
    <3>2. Len(s) + 1 \in DOMAIN b
      BY <2>1, <3>1, LenProperties DEF Bytes
    <3> QED BY <2>3, <3>2 DEF ToSet
  <2>5. TerminatedField[b] = Got(s, t)
    BY <2>1, <2>2, <2>3, <2>4 DEF TerminatedField
  <2> QED BY <2>5 DEF b
<1> QED BY <1>1, <1>3 DEF Reads

(* What stands before the first terminator is taken off, with it.          *)
LEMMA TerminatedTakes ==
  ASSUME NEW b \in Bytes, Zeros(b) # {}
  PROVE  LET s == Leading(b, Chars) r == Behind(b, Len(s) + 1)
         IN  /\ TerminatedField[b] = Got(s, r)
             /\ s \in Strings /\ r \in Bytes
             /\ Cardinality(Zeros(b)) = 1 + Cardinality(Zeros(r))
<1> DEFINE s == Leading(b, Chars)
           n == Len(s)
           r == Behind(b, n + 1)
<1>1. 0 \in ToSet(b) /\ Len(b) \in Nat /\ b \in Seq(Byte)
  BY Joins DEF Zeros, ToSet, Bytes
<1>2. s \in Strings /\ n \in Nat /\ n < Len(b)
  BY <1>1, LeadingString
<1>3. s = SubSeq(b, 1, n) /\ b[n + 1] \notin Chars
  <2>1. PICK m \in 0 .. Len(b) : /\ m < Len(b) => b[m + 1] \notin Chars
                                 /\ Leading(b, Chars) = SubSeq(b, 1, m)
    BY LeadingExists
  <2>2. Len(SubSeq(b, 1, m)) = m
    <3>1. 1 \in Nat \ {0} /\ <<>> \in Bytes
      BY Joins
    <3>2. Len(SubSeq(b, 1, m)) = IF 1 <= m THEN m - 1 + 1 ELSE 0
      BY <1>1, <3>1, PartSub
    <3> QED BY <1>1, <3>2
  <2>3. m = n
    BY <2>1, <2>2
  <2> QED BY <1>2, <2>1, <2>3
<1> HIDE DEF s, n
<1>4. b[n + 1] = 0
  <2>1. n + 1 \in 1 .. Len(b)
    BY <1>1, <1>2
  <2>2. b[n + 1] \in Byte
    BY <1>1, <2>1, ElementOfSeq
  <2> QED BY <1>3, <2>2, CharsAre
<1>5. r \in Bytes /\ Len(r) = Len(b) - (n + 1)
  <2>1. n + 1 \in 0 .. Len(b) /\ <<>> \in Bytes
    BY <1>1, <1>2, Joins
  <2> QED BY <2>1, PartBehind
<1>6. TerminatedField[b] = Got(s, r)
  BY <1>1 DEF TerminatedField, s, n
<1>7. b = Terminated(s) \o r
  <2> DEFINE z == Terminated(s)
             c == z \o r
  <2>1. z \in Bytes /\ Len(z) = n + 1 /\ z = Append(s, 0)
    BY <1>2, TerminatedIs DEF n, Terminated
  <2>2. c \in Seq(Byte) /\ Len(c) = Len(b)
        /\ \A i \in 1 .. Len(b) : c[i] = IF i <= n + 1 THEN z[i] ELSE r[i - (n + 1)]
    <3> HIDE DEF z, r
    <3>1. /\ c \in Seq(Byte) /\ Len(c) = Len(z) + Len(r)
          /\ \A i \in 1 .. Len(z) + Len(r) :
               c[i] = IF i <= Len(z) THEN z[i] ELSE r[i - Len(z)]
      BY <1>5, <2>1, ConcatProperties DEF Bytes
    <3>2. Len(z) + Len(r) = Len(b)
      BY <1>1, <1>2, <1>5, <2>1
    <3> QED BY <2>1, <3>1, <3>2
  <2>3. \A i \in 1 .. n : s[i] = b[i]
    <3>1. \A i \in 1 .. n : b[i] \in Byte
      BY <1>1, <1>2, ElementOfSeq
    <3>2. \A i \in 1 .. n - 1 + 1 : SubSeq(b, 1, n)[i] = b[1 + i - 1]
      BY <1>2, <3>1, SubSeqProperties
    <3>3. \A i \in 1 .. n : i \in 1 .. n - 1 + 1 /\ 1 + i - 1 = i
      BY <1>2
    <3>4. \A i \in 1 .. n : SubSeq(b, 1, n)[i] = b[i]
      BY <3>2, <3>3
    <3> QED BY <1>3, <3>4
  <2>4. \A i \in 1 .. n : z[i] = s[i]
    <3>1. s \in Seq(Byte) /\ 0 \in Byte
      BY <1>2, StringBytes, Widths DEF Bytes
    <3> QED BY <2>1, <3>1, Appended DEF n
  <2>5. z[n + 1] = 0
    <3>1. s \in Seq(Byte) /\ 0 \in Byte
      BY <1>2, StringBytes, Widths DEF Bytes
    <3> QED BY <2>1, <3>1, Appended DEF n
  <2>6. \A i \in 1 .. Len(b) - (n + 1) : r[i] = b[n + 1 + i]
    <3>1. \A i \in n + 2 .. Len(b) : b[i] \in Byte
      BY <1>1, <1>2, ElementOfSeq
    <3>2. n + 2 \in Nat \ {0} /\ r = SubSeq(b, n + 2, Len(b))
      BY <1>2 DEF Behind
    <3>3. \A i \in 1 .. Len(b) - (n + 2) + 1 :
            SubSeq(b, n + 2, Len(b))[i] = b[n + 2 + i - 1]
      BY <1>1, <1>2, <3>1, <3>2, SubSeqProperties
    <3>4. /\ Len(b) - (n + 2) + 1 = Len(b) - (n + 1)
          /\ \A i \in 1 .. Len(b) - (n + 1) : n + 2 + i - 1 = n + 1 + i
      BY <1>1, <1>2
    <3> HIDE DEF r
    <3> QED BY <3>2, <3>3, <3>4
  <2> HIDE DEF z, r
  <2>7. ASSUME NEW i \in 1 .. Len(b) PROVE c[i] = b[i]
    <3>1. CASE i <= n
      <4>1. i \in 1 .. n /\ i <= n + 1
        BY <1>2, <3>1
      <4> QED BY <2>2, <2>3, <2>4, <4>1
    <3>2. CASE i = n + 1
      <4>1. i <= n + 1
        BY <1>2, <3>2
      <4> QED BY <1>4, <2>2, <2>5, <3>2, <4>1
    <3>3. CASE n + 1 < i
      <4>1. /\ i - (n + 1) \in 1 .. Len(b) - (n + 1) /\ ~(i <= n + 1)
            /\ n + 1 + (i - (n + 1)) = i
        BY <1>1, <1>2, <3>3
      <4> QED BY <2>2, <2>6, <4>1
    <3>4. i <= n \/ i = n + 1 \/ n + 1 < i
      BY <1>2
    <3> QED BY <3>1, <3>2, <3>3, <3>4
  <2> HIDE DEF c
  <2>8. c = b
    BY <1>1, <2>2, <2>7, SeqEqual
  <2> QED BY <2>8 DEF c, z
<1>8. Cardinality(Zeros(b)) = 1 + Cardinality(Zeros(r))
  <2>1. Terminated(s) \in Bytes /\ Cardinality(Zeros(Terminated(s))) = 1
    BY <1>2, TerminatedIs
  <2> HIDE DEF r
  <2> QED BY <1>5, <1>7, <2>1, ZerosJoin
<1> QED BY <1>2, <1>5, <1>6, <1>8 DEF s, n, r

(* Sequences behind each other.                                            *)
LEMMA Concatenated ==
  ASSUME NEW S, NEW a \in Seq(S), NEW b \in Seq(S)
  PROVE  a \o b \in Seq(S) /\ Len(a \o b) = Len(a) + Len(b)
BY ConcatProperties

(* As many strings are read as there are terminators.                      *)
LEMMA ParametersYield ==
  ASSUME NEW b \in Bytes
  PROVE  /\ Parameters(b).ok /\ Parameters(b).value \in Seq(Strings)
         /\ Len(Parameters(b).value) = Cardinality(Zeros(b))
<1> DEFINE N == Cardinality(Zeros(b))
           fields == [i \in 1 .. N |-> TerminatedField]
<1>1. N \in Nat
  BY ZerosJoin, Joins
<1>2. Parameters(b) = InOrder(fields)[b]
  BY DEF Parameters, Zeros
<1>3. Len(fields) = N /\ \A i \in 1 .. N : fields[i] = TerminatedField
  BY <1>1
<1> HIDE DEF fields
<1>4. PICK from : Recursion(fields, from)
  BY <1>1, <1>3, InOrderRecursion
<1> HIDE DEF N
<1> DEFINE Fits(k, g) == g.ok /\ g.value \in Seq(Strings) /\ Len(g.value) = k
           Q(i) == \A x \in Bytes : Cardinality(Zeros(x)) = N + 1 - i =>
                     Fits(N + 1 - i, from[i][x])
           S == {i \in 1 .. N + 1 : Q(i)}
<1>5. N + 1 \in S
  <2>1. \A x \in Bytes : from[N + 1][x] = Got(<<>>, x)
    BY <1>3, <1>4 DEF Recursion
  <2>2. <<>> \in Seq(Strings) /\ Len(<<>>) = 0 /\ N + 1 - (N + 1) = 0
    BY <1>1, EmptySeq
  <2>3. \A x : Fits(0, Got(<<>>, x))
    BY <2>2, Results
  <2> HIDE DEF Fits
  <2>4. Q(N + 1)
    BY <2>1, <2>2, <2>3
  <2> QED BY <1>1, <2>4
<1>6. ASSUME NEW i \in 1 .. N, i + 1 \in S PROVE i \in S
  <2> HIDE DEF Fits
  <2> SUFFICES ASSUME NEW x \in Bytes, Cardinality(Zeros(x)) = N + 1 - i
               PROVE  Fits(N + 1 - i, from[i][x])
    BY <1>1
  <2> DEFINE s == Leading(x, Chars)
             r == Behind(x, Len(s) + 1)
             k == N + 1 - (i + 1)
             g == from[i + 1][r]
  <2>1. k \in Nat /\ N + 1 - i = 1 + k
    BY <1>1
  <2>2. Zeros(x) # {}
    BY <2>1, FS_EmptySet
  <2>3. /\ TerminatedField[x] = Got(s, r) /\ s \in Strings /\ r \in Bytes
        /\ Cardinality(Zeros(x)) = 1 + Cardinality(Zeros(r))
    BY <2>2, TerminatedTakes
  <2>4. Cardinality(Zeros(r)) = k
    <3>1. Cardinality(Zeros(r)) \in Nat
      <4> HIDE DEF r
      <4> QED BY <2>3, ZerosJoin, Joins
    <3> QED BY <2>1, <2>3, <3>1
  <2>5. from[i][x] = Followed(Got(s, r), from[i + 1])
    BY <1>3, <1>4, <2>3 DEF Recursion
  <2> HIDE DEF s, r, k
  <2>6. Fits(k, g)
    BY <1>6, <2>3, <2>4 DEF k
  <2>7. g.ok /\ g.value \in Seq(Strings) /\ Len(g.value) = k
    BY <2>6 DEF Fits
  <2>8. from[i][x] = Got(<<s>> \o g.value, g.rest)
    BY <2>5, <2>7, Results DEF Followed
  <2> DEFINE one == <<s>>
             w == g.value
  <2>9. one \in Seq(Strings) /\ Len(one) = 1
    BY <2>3
  <2> HIDE DEF one, w
  <2>10. w \in Seq(Strings) /\ Len(w) = k
    BY <2>7 DEF w
  <2>11. one \o w \in Seq(Strings) /\ Len(one \o w) = 1 + k
    <3>1. one \o w \in Seq(Strings) /\ Len(one \o w) = Len(one) + Len(w)
      BY <2>9, <2>10, Concatenated
    <3> QED BY <2>9, <2>10, <3>1
  <2>12. from[i][x] = Got(one \o w, g.rest)
    BY <2>8 DEF one, w
  <2> HIDE DEF g
  <2>13. Fits(1 + k, from[i][x])
    <3> DEFINE v == one \o w
    <3>1. v \in Seq(Strings) /\ Len(v) = 1 + k /\ from[i][x] = Got(v, g.rest)
      BY <2>11, <2>12
    <3> HIDE DEF v
    <3>2. from[i][x].ok /\ from[i][x].value = v
      BY <3>1, Results
    <3> QED BY <3>1, <3>2 DEF Fits
  <2> QED BY <2>1, <2>13 DEF k
<1>7. 1 \in S
  <2> HIDE DEF S
  <2> QED BY <1>1, <1>5, <1>6, Downward
<1>8. Fits(N, from[1][b])
  <2>1. Q(1) /\ N + 1 - 1 = N
    BY <1>1, <1>7
  <2> HIDE DEF Fits
  <2> QED BY <2>1 DEF N
<1> QED BY <1>2, <1>4, <1>8 DEF Recursion, N

(* What a packet can hold is read from it.                                 *)
LEMMA FindYields ==
  ASSUME NEW b \in Bytes, DecodeFindPacket(b).ok
  PROVE  DecodeFindPacket(b).value \in Files(Readable)["FindPacket"]
<1> DEFINE n == Len(b)
           p == SubSeq(b, 3, n - 1)
           r == Parameters(p)
<1>1. /\ ~(n <= 3) /\ Number(b) \in {1, 2} /\ b[n - 1] = 0
      /\ DecodeFindPacket(b) = Got(<<Number(b), r.value>>, r.rest)
  BY Results DEF DecodeFindPacket
<1>2. n \in Nat /\ b \in Seq(Byte)
  BY Joins DEF Bytes
<1>3. p \in Bytes /\ Len(p) = n - 3 /\ p[n - 3] = 0
  <2>1. \A i \in 3 .. n - 1 : b[i] \in Byte
    BY <1>2, ElementOfSeq
  <2>2. 3 \in Int /\ n - 1 \in Int /\ 3 <= n - 1
    BY <1>1, <1>2
  <2>3. /\ p \in Seq(Byte) /\ Len(p) = n - 1 - 3 + 1
        /\ \A i \in 1 .. n - 1 - 3 + 1 : p[i] = b[3 + i - 1]
    BY <1>2, <2>1, <2>2, SubSeqProperties
  <2>4. n - 3 \in 1 .. n - 1 - 3 + 1 /\ 3 + (n - 3) - 1 = n - 1
    BY <1>1, <1>2
  <2> HIDE DEF p
  <2>5. p[n - 3] = b[3 + (n - 3) - 1]
    BY <2>3, <2>4
  <2> QED BY <1>1, <1>2, <2>3, <2>4, <2>5 DEF Bytes
<1> HIDE DEF p
<1>4. Zeros(p) # {}
  <2>1. n - 3 \in DOMAIN p
    <3>1. n - 3 \in 1 .. Len(p)
      BY <1>1, <1>2, <1>3
    <3> QED BY <1>3, <3>1, LenProperties DEF Bytes
  <2> QED BY <1>3, <2>1 DEF Zeros
<1>5. Cardinality(Zeros(p)) # 0
  BY <1>3, <1>4, ZerosJoin, FS_EmptySet
<1>6. r.value \in Seq(Strings) /\ Len(r.value) # 0
  BY <1>3, <1>5, ParametersYield
<1>7. r.value # <<>>
  BY <1>6, EmptySeq
<1> HIDE DEF r
<1> QED BY <1>1, <1>6, <1>7, Results DEF Files

(* As many strings with one terminator each have as many terminators.      *)
LEMMA ZerosFlatten ==
  ASSUME NEW ss \in Seq(Bytes),
         \A i \in 1 .. Len(ss) : Cardinality(Zeros(ss[i])) = 1
  PROVE  Cardinality(Zeros(FlattenSeq(ss))) = Len(ss)
<1> DEFINE One(tt) == \A i \in 1 .. Len(tt) : Cardinality(Zeros(tt[i])) = 1
           Counts(tt) == Cardinality(Zeros(FlattenSeq(tt))) = Len(tt)
           T == {n \in Nat : \A tt \in Seq(Bytes) : Len(tt) = n /\ One(tt) => Counts(tt)}
<1>1. 0 \in T
  <2> SUFFICES ASSUME NEW tt \in Seq(Bytes), Len(tt) = 0 PROVE Counts(tt)
    OBVIOUS
  <2>1. tt = <<>>
    BY EmptySeq
  <2> QED BY <2>1, FlattenEmpty, ZerosOfNone
<1>2. ASSUME NEW k \in Nat, k \in T PROVE k + 1 \in T
  <2> SUFFICES ASSUME NEW tt \in Seq(Bytes), Len(tt) = k + 1, One(tt) PROVE Counts(tt)
    OBVIOUS
  <2>1. tt # <<>>
    BY EmptySeq
  <2>2. PICK pp \in Seq(Bytes), e \in Bytes : tt = Append(pp, e)
    BY <2>1, SequenceEmptyOrAppend
  <2>3. /\ Len(tt) = Len(pp) + 1 /\ Len(pp) \in Nat /\ tt[Len(pp) + 1] = e
        /\ \A i \in 1 .. Len(pp) : tt[i] = pp[i]
    BY <2>2, Appended, LenProperties
  <2>4. Len(pp) = k /\ One(pp) /\ Cardinality(Zeros(e)) = 1
    BY <2>3
  <2>5. Counts(pp)
    <3> HIDE DEF Counts, One
    <3> QED BY <1>2, <2>4
  <2>6. FlattenSeq(tt) = FlattenSeq(pp) \o e /\ FlattenSeq(pp) \in Bytes
    BY <2>2, FlattenAppend
  <2>7. Cardinality(Zeros(FlattenSeq(tt))) =
          Cardinality(Zeros(FlattenSeq(pp))) + Cardinality(Zeros(e))
    BY <2>6, ZerosJoin
  <2> QED BY <2>3, <2>4, <2>5, <2>7
<1>3. Nat \subseteq T
  <2> HIDE DEF T
  <2> QED BY <1>1, <1>2, Induct
<1> HIDE DEF One, Counts
<1>4. Len(ss) \in T
  BY <1>3, LenProperties
<1>5. One(ss)
  BY DEF One
<1>6. Counts(ss)
  BY <1>4, <1>5
<1> QED BY <1>6 DEF Counts

(* A packet is read as what was written.                                   *)
LEMMA FindRoundTrip ==
  ASSUME NEW c \in Files(Strings)["FindPacket"]
  PROVE  EncodeFindPacket(c) \in Bytes /\ DecodeFindPacket(EncodeFindPacket(c)) = Got(c, <<>>)
<1> DEFINE p == c[2]
           op == c[1]
           ss == [i \in DOMAIN p |-> Terminated(p[i])]
           flat == FlattenSeq(ss)
           mark == U16(op)
           end == <<PacketTerminator>>
           front == mark \o flat
           b == front \o end
<1>1. c = <<op, p>> /\ op \in {1, 2} /\ p \in Seq(Strings) /\ p # <<>>
  BY DEF Files
<1>2. EncodeFindPacket(c) = b
  BY DEF EncodeFindPacket
<1> HIDE DEF p, op
<1>3. /\ Len(p) \in Nat \ {0} /\ DOMAIN p = 1 .. Len(p)
      /\ \A i \in 1 .. Len(p) : p[i] \in Strings
  BY <1>1, EmptySeq, LenProperties, ElementOfSeq
<1>4. /\ ss \in Seq(Bytes) /\ Len(ss) = Len(p)
      /\ \A i \in 1 .. Len(p) : ss[i] = Terminated(p[i])
  <2>1. \A i \in 1 .. Len(p) : Terminated(p[i]) \in Bytes
    BY <1>3, TerminatedIs
  <2> QED BY <1>3, <2>1
<1> HIDE DEF ss
<1>5. Cardinality(Zeros(flat)) = Len(p)
  <2>1. \A i \in 1 .. Len(ss) : Cardinality(Zeros(ss[i])) = 1
    BY <1>3, <1>4, TerminatedIs
  <2> QED BY <1>4, <2>1, ZerosFlatten
<1>6. \E x \in Bytes : flat = x \o <<0>>
  <2>1. ss # <<>>
    BY <1>3, <1>4, EmptySeq
  <2>2. PICK tt \in Seq(Bytes), e \in Bytes : ss = Append(tt, e)
    BY <1>4, <2>1, SequenceEmptyOrAppend
  <2>3. Len(ss) = Len(tt) + 1 /\ ss[Len(tt) + 1] = e /\ Len(tt) \in Nat
    BY <2>2, Appended, LenProperties
  <2> DEFINE s == p[Len(p)]
             y == FlattenSeq(tt)
             z == <<0>>
  <2>4. e = s \o z /\ s \in Bytes /\ z \in Bytes
    <3>1. Len(p) \in 1 .. Len(p)
      BY <1>3
    <3>2. e = Terminated(s) /\ s \in Strings
      BY <1>3, <1>4, <2>3, <3>1
    <3>3. 0 \in Byte
      BY Widths
    <3>4. s \in Bytes
      BY <3>2, StringBytes
    <3>5. e = s \o z
      BY <3>2, TerminatedIs
    <3>6. z \in Bytes
      BY <3>3 DEF Bytes
    <3> QED BY <3>4, <3>5, <3>6
  <2>5. flat = y \o e /\ y \in Bytes
    BY <2>2, FlattenAppend
  <2> HIDE DEF s, y, z
  <2>6. flat = (y \o s) \o z /\ y \o s \in Bytes
    <3>1. flat = y \o (s \o z)
      BY <2>4, <2>5
    <3>2. (y \o s) \o z = y \o (s \o z) /\ y \o s \in Bytes
      BY <2>4, <2>5, Joins
    <3> QED BY <3>1, <3>2
  <2> QED BY <2>6 DEF z
<1>7. PICK x \in Bytes : flat = x \o <<0>>
  BY <1>6
<1>8. /\ <<0>> \in Bytes /\ Len(<<0>>) = 1 /\ <<0>>[1] = 0
      /\ end \in Bytes /\ Len(end) = 1 /\ end[1] = PacketTerminator
  BY Widths DEF Bytes, PacketTerminator
<1>9. mark \in Bytes /\ Len(mark) = 2
  <2>1. op \in Int
    BY <1>1
  <2> QED BY <2>1, NumberIsU16
<1>10. Reads(InOrder([i \in 1 .. Len(p) |-> TerminatedField]), flat, p)
  <2> DEFINE fields == [i \in 1 .. Len(p) |-> TerminatedField]
             N == Len(p)
  <2>1. N \in Nat /\ Len(fields) = N /\ Len(ss) = N /\ Len(p) = N
    BY <1>3, <1>4
  <2>2. \A i \in 1 .. N : Reads(fields[i], ss[i], p[i])
    BY <1>3, <1>4, TerminatedReads
  <2> HIDE DEF fields, N
  <2>3. Reads(InOrder(fields), FlattenSeq(ss), p)
    BY <1>1, <1>4, <2>1, <2>2, RecordReads
  <2> QED BY <2>3 DEF fields
<1> HIDE DEF flat, mark, end
<1>11. flat \in Bytes /\ Parameters(flat) = Got(p, <<>>)
  <2>1. flat \in Bytes /\ flat \o <<>> = flat /\ <<>> \in Bytes
    BY <1>10, Joins DEF Reads
  <2>2. InOrder([i \in 1 .. Len(p) |-> TerminatedField])[flat] = Got(p, <<>>)
    BY <1>10, <2>1 DEF Reads
  <2>3. Parameters(flat) =
          InOrder([i \in 1 .. Cardinality(Zeros(flat)) |-> TerminatedField])[flat]
    BY DEF Parameters, Zeros
  <2> QED BY <1>5, <2>1, <2>2, <2>3
<1>12. /\ front \in Bytes /\ Len(front) = 2 + Len(flat) /\ Behind(front, 2) = flat
       /\ Len(flat) \in Nat /\ Len(flat) >= 1
  <2>1. front \in Bytes /\ Len(front) = Len(mark) + Len(flat)
    BY <1>9, <1>11, Join
  <2>2. Behind(front, Len(mark)) = flat
    BY <1>9, <1>11, PartFront
  <2>3. Len(x \o <<0>>) = Len(x) + 1 /\ Len(x) \in Nat
    BY <1>8, Joins
  <2> QED BY <1>7, <1>9, <2>1, <2>2, <2>3
<1>13. front = (mark \o x) \o <<0>> /\ mark \o x \in Bytes
  BY <1>7, <1>8, <1>9, Joins
<1> HIDE DEF front
<1>14. front[Len(front)] = 0
  <2> DEFINE y == mark \o x
  <2>1. y \in Bytes /\ front = y \o <<0>>
    BY <1>13
  <2> HIDE DEF y
  <2>2. Len(front) = Len(y) + 1 /\ Len(y) \in Nat /\ y \in Seq(Byte) /\ <<0>> \in Seq(Byte)
    BY <1>8, <2>1, Joins DEF Bytes
  <2>3. Len(y) + 1 \in 1 .. Len(y) + Len(<<0>>) /\ ~(Len(y) + 1 <= Len(y))
        /\ Len(y) + 1 - Len(y) = 1
    BY <1>8, <2>2
  <2>4. (y \o <<0>>)[Len(y) + 1] = <<0>>[Len(y) + 1 - Len(y)]
    BY <2>2, <2>3, ConcatProperties
  <2> QED BY <1>8, <2>1, <2>2, <2>3, <2>4
<1>15. b \in Bytes /\ Len(b) = Len(front) + 1
  <2>1. front \o end \in Bytes /\ Len(front \o end) = Len(front) + Len(end)
    BY <1>8, <1>12, Join
  <2> QED BY <1>8, <2>1
<1>16. b[Len(b) - 1] = 0 /\ b[Len(b)] = PacketTerminator
  <2>1. Len(b) - 1 = Len(front) /\ Len(front) \in 1 .. Len(front)
    BY <1>12, <1>15
  <2>2. b[Len(front)] = front[Len(front)]
    BY <1>8, <1>12, <2>1, PartFront
  <2>3. front \in Seq(Byte) /\ end \in Seq(Byte) /\ Len(front) \in Nat
    BY <1>8, <1>12 DEF Bytes
  <2>4. Len(front) + 1 \in 1 .. Len(front) + Len(end) /\ ~(Len(front) + 1 <= Len(front))
        /\ Len(front) + 1 - Len(front) = 1
    BY <1>8, <2>3
  <2>5. b[Len(front) + 1] = end[Len(front) + 1 - Len(front)]
    BY <2>3, <2>4, ConcatProperties
  <2> QED BY <1>8, <1>14, <1>15, <2>1, <2>2, <2>4, <2>5
<1>17. Number(b) = op
  <2>1. op \in Int /\ op \in Count
    BY <1>1, Widths
  <2>2. b = mark \o (flat \o end) /\ flat \o end \in Bytes
    BY <1>8, <1>9, <1>11, Joins DEF front
  <2>3. Number(b) = (op % Word)
    <3> HIDE DEF b
    <3> QED BY <2>1, <2>2, NumberIsU16 DEF mark
  <2> QED BY <2>1, <2>3, Bits
<1>18. SubSeq(b, 3, Len(b) - 1) = flat
  <2>1. Len(b) - 1 = Len(front) /\ 3 \in Nat \ {0} /\ Len(front) \in 0 .. Len(front)
    BY <1>12, <1>15
  <2>2. SubSeq(b, 3, Len(front)) = SubSeq(front, 3, Len(front))
    BY <1>8, <1>12, <2>1, PartSub
  <2>3. SubSeq(front, 3, Len(front)) = Behind(front, 2)
    BY DEF Behind
  <2> QED BY <1>12, <2>1, <2>2, <2>3
<1> HIDE DEF b
<1>19. ~(Len(b) <= 3)
  BY <1>12, <1>15
<1>20. DecodeFindPacket(b) = Got(<<op, p>>, <<>>)
  <2> DEFINE r == Parameters(SubSeq(b, 3, Len(b) - 1))
  <2>1. r = Got(p, <<>>)
    BY <1>11, <1>18
  <2>2. r.value = p /\ r.rest = <<>>
    BY <2>1, Results
  <2>3. Number(b) \in {1, 2}
    BY <1>1, <1>17
  <2>4. DecodeFindPacket(b) = Got(<<Number(b), r.value>>, r.rest)
    BY <1>16, <1>19, <2>3, Zenon DEF DecodeFindPacket
  <2> HIDE DEF r
  <2> QED BY <1>17, <2>2, <2>4
<1> QED BY <1>1, <1>2, <1>15, <1>20

-----------------------------------------------------------------------------
(* What was written is read, and as what was written.                      *)
LEMMA RoundTrip ==
  ASSUME NEW k \in Kinds, NEW c \in Files(Strings)[k], Encodable(k, c),
         NEW version \in Versions
  PROVE  /\ Encode(k, version, c) \in Bytes
         /\ Unreadable(k, c) => ~Decode(k, Encode(k, version, c)).ok
         /\ ~Unreadable(k, c) => Decode(k, Encode(k, version, c)) = Got(c, <<>>)
<1>1. CASE k = "FindPacket"
  <2>1. ~Unreadable(k, c)
    BY <1>1 DEF Unreadable
  <2> QED BY <1>1, <2>1, FindRoundTrip DEF Encode, Decode
<1>2. CASE k # "FindPacket"
  <2>1. k \in Plain
    BY <1>2 DEF Plain
  <2> QED BY <2>1, PlainRoundTrip
<1> QED BY <1>1, <1>2

(* Whatever is read, its content is one that the classes can hold.         *)
LEMMA DecodeYields ==
  ASSUME NEW k \in Kinds, NEW b \in Bytes, Decode(k, b).ok
  PROVE  /\ Decode(k, b).value \in Files(Readable)[k]
         /\ k = "Initialization" => Decode(k, b).value[1] \in AcceptanceCodes
<1>1. CASE k = "FindPacket"
  BY <1>1, FindYields DEF Decode
<1>2. CASE k # "FindPacket"
  <2> DEFINE r == Behind(b, HeaderSize)
  <2>1. HeaderAccepted(b) /\ Decode(k, b) = Fields(k)[r] /\ Fields(k)[r].ok
    BY <1>2, Results DEF Decode
  <2>2. Len(b) >= HeaderSize /\ Len(b) \in Nat
    BY <2>1, Joins DEF HeaderAccepted
  <2>3. r \in Bytes
    <3>1. HeaderSize \in 0 .. Len(b) /\ <<>> \in Bytes
      BY <2>2, Joins DEF HeaderSize
    <3> QED BY <3>1, PartBehind
  <2>4. k \in Plain
    BY <1>2 DEF Plain
  <2> HIDE DEF r
  <2>5. Fields(k)[r].value \in Files(Readable)[k]
    BY <2>1, <2>3, <2>4, FilesYield DEF Yields
  <2>6. ASSUME k = "Initialization" PROVE Fields(k)[r].value[1] \in AcceptanceCodes
    <3>1. AcceptanceCodes \subseteq Count
      BY Widths DEF AcceptanceCodes
    <3>2. Yields(CodeField(AcceptanceCodes), AcceptanceCodes)
      BY <3>1, CodeFields
    <3>3. Yields(InitializationFields, AcceptanceCodes \X Readable)
      BY <3>2, TextFields, TwoYield DEF InitializationFields
    <3>4. Fields(k) = InitializationFields
      BY <2>6 DEF Fields
    <3>5. Fields(k)[r].value \in AcceptanceCodes \X Readable
      BY <2>1, <2>3, <3>3, <3>4 DEF Yields
    <3> QED BY <3>5
  <2> QED BY <2>1, <2>5, <2>6
<1> QED BY <1>1, <1>2

-----------------------------------------------------------------------------

(* What an object holds after an assignment.                               *)
LEMMA ConcatSuffix ==
  ASSUME NEW S, NEW s \in Seq(S), NEW o \in Seq(S)
  PROVE  IsSuffix(s, o \o s)
<1> DEFINE t == o \o s
           m == Len(o)
           n == Len(s)
           rs == Reverse(s)
           rt == Reverse(t)
<1>1. /\ m \in Nat /\ n \in Nat /\ Len(t) = m + n /\ t \in Seq(S)
      /\ \A i \in 1 .. m + n : t[i] = IF i <= m THEN o[i] ELSE s[i - m]
      /\ \A i \in 1 .. n : s[i] \in S
      /\ \A i \in 1 .. m + n : t[i] \in S
  <2>1. /\ Len(t) = m + n /\ t \in Seq(S) /\ m \in Nat /\ n \in Nat
        /\ \A i \in 1 .. m + n : t[i] = IF i <= m THEN o[i] ELSE s[i - m]
    BY ConcatProperties, LenProperties
  <2> HIDE DEF t
  <2> QED BY <2>1, ElementOfSeq
<1> HIDE DEF t, m, n
<1>2. /\ rs \in Seq(S) /\ Len(rs) = n
      /\ \A i \in 1 .. n : rs[i] = s[(n - i) + 1]
  <2>1. \A i \in 1 .. n : (n - i) + 1 \in 1 .. n
    BY <1>1
  <2>2. rs = [i \in 1 .. n |-> s[(n - i) + 1]]
    BY DEF Reverse, n
  <2> QED BY <1>1, <2>1, <2>2
<1>3. /\ rt \in Seq(S) /\ Len(rt) = m + n
      /\ \A i \in 1 .. m + n : rt[i] = t[((m + n) - i) + 1]
  <2>1. \A i \in 1 .. m + n : ((m + n) - i) + 1 \in 1 .. m + n
    BY <1>1
  <2>2. rt = [i \in 1 .. m + n |-> t[((m + n) - i) + 1]]
    BY <1>1 DEF Reverse
  <2> QED BY <1>1, <2>1, <2>2
<1> HIDE DEF rs, rt
<1>4. ASSUME NEW i \in 1 .. n PROVE rt[i] = rs[i]
  <2>1. /\ i \in 1 .. m + n /\ ((m + n) - i) + 1 \in 1 .. m + n
        /\ ~(((m + n) - i) + 1 <= m) /\ ((m + n) - i) + 1 - m = (n - i) + 1
    BY <1>1
  <2> DEFINE j == ((m + n) - i) + 1
  <2>2. rt[i] = t[j]
    BY <1>3, <2>1
  <2>3. rs[i] = s[j - m]
    <3>1. j - m = (n - i) + 1
      BY <1>1
    <3>2. rs[i] = s[(n - i) + 1]
      BY <1>2
    <3> HIDE DEF j
    <3> QED BY <3>1, <3>2, Zenon
  <2>4. j \in 1 .. m + n /\ ~(j <= m)
    BY <2>1
  <2> HIDE DEF j
  <2> QED BY <1>1, <2>2, <2>3, <2>4
<1>5. SubSeq(rs, 1, n) = rs
  BY <1>2, SubSeqFull
<1>6. SubSeq(rt, 1, n) = rs
  <2> DEFINE front == SubSeq(rt, 1, n)
  <2>1. \A i \in 1 .. n : rt[i] \in S
    BY <1>1, <1>3, ElementOfSeq
  <2>2. /\ front \in Seq(S) /\ Len(front) = IF 1 <= n THEN n - 1 + 1 ELSE 0
        /\ \A i \in 1 .. n - 1 + 1 : front[i] = rt[1 + i - 1]
    BY <1>1, <2>1, SubSeqProperties
  <2> HIDE DEF front
  <2>3. Len(front) = n /\ \A i \in 1 .. n : front[i] = rt[i]
    <3>1. n - 1 + 1 = n /\ \A i \in 1 .. n : 1 + i - 1 = i
      BY <1>1
    <3> QED BY <1>1, <2>2, <3>1
  <2>4. front = rs
    BY <1>2, <1>4, <2>2, <2>3, SeqEqual
  <2> QED BY <2>4 DEF front
<1>7. Len(rs) <= Len(rt)
  BY <1>1, <1>2, <1>3
<1>8. IsPrefix(rs, rt)
  BY <1>2, <1>5, <1>6, <1>7 DEF IsPrefix
<1> QED BY <1>8 DEF IsSuffix, rs, rt, t

(* A list that is assigned to a list is appended to it; what stands beside *)
(* the list is replaced.                                                   *)
LEMMA Extends ==
  ASSUME NEW k \in Extending \ {"FindPacket"},
         NEW o \in Files(Readable)[k], NEW v \in Files(Readable)[k]
  PROVE  LET w == [v EXCEPT ![1] = o[1] \o @]
         IN  /\ w \in Files(Readable)[k]
             /\ IsSuffix(v[1], w[1]) /\ Tail(w) = Tail(v)
<1> DEFINE w == [v EXCEPT ![1] = o[1] \o @]
<1>1. ASSUME NEW V, o \in Alone(V), v \in Alone(V)
      PROVE  w \in Alone(V) /\ IsSuffix(v[1], w[1]) /\ Tail(w) = Tail(v)
  <2>1. o[1] \in Seq(V) /\ v[1] \in Seq(V) /\ v = [i \in {1} |-> v[i]]
    BY <1>1 DEF Alone
  <2> DEFINE x == v[1]
             y == o[1]
  <2>2. y \o x \in Seq(V) /\ IsSuffix(x, y \o x)
    BY <2>1, Concatenated, ConcatSuffix
  <2>3. w[1] = y \o x /\ w = [i \in {1} |-> y \o x] /\ v = [i \in {1} |-> x]
    BY <2>1
  <2> HIDE DEF x, y, w
  <2>4. w \in Alone(V)
    BY <2>2, <2>3 DEF Alone
  <2>5. \A z : [i \in {1} |-> z] = <<z>>
    <3>1. \A z : [i \in 1 .. 1 |-> z] = <<z>>
      OBVIOUS
    <3>2. 1 .. 1 = {1}
      OBVIOUS
    <3> QED BY <3>1, <3>2
  <2>6. Tail(w) = Tail(v)
    <3>1. w = <<y \o x>> /\ v = <<x>>
      BY <2>3, <2>5
    <3>2. \A z : Tail(<<z>>) = <<>>
      OBVIOUS
    <3> QED BY <3>1, <3>2
  <2> QED BY <2>2, <2>3, <2>4, <2>6 DEF x
<1>2. CASE k = "LoadConfigurationList"
  <2>1. Files(Readable)[k] = Alone(Hardware(Readable))
    BY <1>2 DEF Files
  <2> QED BY <1>1, <2>1
<1>3. CASE k = "UploadRequest" \/ k = "DownloadList"
  <2>1. Files(Readable)[k] = Alone(Pairs(Readable))
    BY <1>3 DEF Files
  <2> QED BY <1>1, <2>1
<1>4. CASE k = "DownloadAnswer"
  <2>1. Files(Readable)[k] = Alone(Readable)
    BY <1>4 DEF Files
  <2> QED BY <1>1, <2>1
<1>5. CASE k = "DownloadRequest"
  <2> DEFINE x == v[1]
             y == o[1]
             d == v[2]
  <2>1. v = <<x, d>> /\ x \in Seq(Readable) /\ d \in Bytes /\ y \in Seq(Readable)
    BY <1>5 DEF Files
  <2>2. y \o x \in Seq(Readable) /\ IsSuffix(x, y \o x)
    BY <2>1, Concatenated, ConcatSuffix
  <2> DEFINE z == y \o x
  <2>3. w = <<z, d>>
    <3>1. \A e, f, g : [<<e, f>> EXCEPT ![1] = g] = <<g, f>>
      OBVIOUS
    <3>2. w = [v EXCEPT ![1] = z]
      OBVIOUS
    <3> HIDE DEF w, x, d, z
    <3> QED BY <2>1, <3>1, <3>2
  <2> HIDE DEF x, y, d, w, z
  <2>4. w \in Files(Readable)[k]
    BY <1>5, <2>1, <2>2, <2>3 DEF Files, z
  <2>5. Tail(w) = <<d>> /\ Tail(v) = <<d>>
    <3>1. \A e, f : Tail(<<e, f>>) = <<f>>
      OBVIOUS
    <3> QED BY <2>1, <2>3, <3>1
  <2>6. w[1] = z
    BY <2>3
  <2> QED BY <2>2, <2>4, <2>5, <2>6 DEF w, x, z
<1> QED BY <1>2, <1>3, <1>4, <1>5 DEF Extending

-----------------------------------------------------------------------------
(* The object holds what the classes can hold.                             *)
HeldIsReadable ==
  object # <<>> =>
    /\ object \in Files(Readable)[kind]
    /\ kind = "Initialization" => object[1] \in AcceptanceCodes

(* A packet is never assigned to.                                          *)
FoundIsNew == kind = "FindPacket" /\ phase # "Read" => object = <<>>

(* A file that is as it was written is the encoding of its content.        *)
OnItsWay ==
  phase = "Written" =>
    /\ assigned = IF object = <<>> THEN "New" ELSE "Assigned"
    /\ damages = <<>> =>
         /\ content \in Contents[kind] /\ content \in Files(Strings)[kind]
         /\ Encodable(kind, content)
         /\ \E version \in Versions : bytes = Encode(kind, version, content)

(* The inductive invariant.                                                *)
ExchangeInv ==
  /\ kind \in Kinds /\ bytes \in Bytes /\ damages \in Seq({"Cut", "Extended", "Altered"})
  /\ phase = "Read" => object # <<>>
  /\ HeldIsReadable
  /\ FoundIsNew
  /\ OnItsWay
  /\ ReadAsWritten

(* A file before it is written.                                            *)
LEMMA BytesEmpty == <<>> \in Bytes /\ <<>> \in Seq({"Cut", "Extended", "Altered"})
BY Joins, EmptySeq

(* The first file, or the next one.                                        *)
LEMMA Begins ==
  ASSUME ExchangeInv, NEW c \in Contents[kind], Begin(c)
  PROVE  /\ c \in Files(Strings)[kind] /\ content' = c /\ kind' = kind /\ kind \in Kinds
         /\ object' = object /\ damages' = <<>>
         /\ assigned' = IF object = <<>> THEN "New" ELSE "Assigned"
         /\ HeldIsReadable /\ (kind = "FindPacket" => object = <<>>)
<1>1. kind \in Kinds
  BY DEF ExchangeInv
<1>2. c \in Files(Strings)[kind]
  BY <1>1, ContentsAssumption
<1>3. kind = "FindPacket" => object = <<>>
  BY DEF ExchangeInv, FoundIsNew, Begin
<1> QED BY <1>1, <1>2, <1>3 DEF Begin, ExchangeInv

(* An object that is left alone holds what it held.                        *)
LEMMA ObjectUnchanged ==
  ASSUME object' = object, kind' = kind, HeldIsReadable
  PROVE  HeldIsReadable'
BY DEF HeldIsReadable

(* encode() keeps the invariant.                                           *)
LEMMA WriteKeeps ==
  ASSUME ExchangeInv, Write
  PROVE  ExchangeInv'
<1>1. PICK c \in Contents[kind], version \in Versions :
        /\ Begin(c) /\ Encodable(kind, c)
        /\ bytes' = Encode(kind, version, c) /\ phase' = "Written"
  BY DEF Write
<1>2. /\ c \in Files(Strings)[kind] /\ content' = c /\ kind' = kind /\ kind \in Kinds
      /\ object' = object /\ damages' = <<>>
      /\ assigned' = IF object = <<>> THEN "New" ELSE "Assigned"
      /\ HeldIsReadable /\ (kind = "FindPacket" => object = <<>>)
  BY <1>1, Begins
<1>3. bytes' \in Bytes
  BY <1>1, <1>2, RoundTrip
<1>4. HeldIsReadable'
  BY <1>2, ObjectUnchanged
<1>5. FoundIsNew'
  BY <1>2 DEF FoundIsNew
<1>6. OnItsWay'
  BY <1>1, <1>2 DEF OnItsWay
<1>7. ReadAsWritten'
  BY <1>1 DEF ReadAsWritten
<1> QED BY <1>1, <1>2, <1>3, <1>4, <1>5, <1>6, <1>7, BytesEmpty DEF ExchangeInv

(* So does an encode() that throws.                                        *)
LEMMA WriteFailsKeeps ==
  ASSUME ExchangeInv, WriteFails
  PROVE  ExchangeInv'
<1>1. PICK c \in Contents[kind] :
        Begin(c) /\ bytes' = <<>> /\ phase' = "Unwritable"
  BY DEF WriteFails
<1>2. /\ kind' = kind /\ kind \in Kinds /\ object' = object /\ damages' = <<>>
      /\ HeldIsReadable /\ (kind = "FindPacket" => object = <<>>)
  BY <1>1, Begins
<1>3. HeldIsReadable'
  BY <1>2, ObjectUnchanged
<1>4. FoundIsNew' /\ OnItsWay' /\ ReadAsWritten'
  BY <1>1, <1>2 DEF FoundIsNew, OnItsWay, ReadAsWritten
<1> QED BY <1>1, <1>2, <1>3, <1>4, BytesEmpty DEF ExchangeInv

(* A damage leaves bytes, whether or not the length field is adapted.      *)
LEMMA DamageKeeps ==
  ASSUME ExchangeInv, NEW what \in {"Cut", "Extended", "Altered"}, NEW b \in Bytes,
         Damage(what, b)
  PROVE  ExchangeInv'
<1>1. Relabelled(b) \in Bytes
  <2>1. CASE kind = "FindPacket" \/ Len(b) < HeaderSize
    BY <2>1 DEF Relabelled
  <2>2. CASE ~(kind = "FindPacket" \/ Len(b) < HeaderSize)
    <3> DEFINE high == U16(Len(b) \div Word)
               low == U16(Len(b))
               rest == SubSeq(b, 5, Len(b))
    <3>1. Len(b) \in Nat /\ (Len(b) \div Word) \in Int
      BY Joins, Widths
    <3>2. high \in Bytes /\ low \in Bytes
      BY <3>1, NumberIsU16
    <3>3. rest \in Bytes
      <4>1. Len(b) \in 0 .. Len(b) /\ 5 \in Nat \ {0} /\ <<>> \in Bytes
        BY <3>1, Joins
      <4> QED BY <4>1, PartSub
    <3>4. Relabelled(b) = (high \o low) \o rest
      BY <2>2 DEF Relabelled, U32
    <3> HIDE DEF high, low, rest
    <3> QED BY <3>2, <3>3, <3>4, Joins
  <2> QED BY <2>1, <2>2
<1>2. /\ phase = "Written" /\ phase' = "Written" /\ bytes' \in Bytes
      /\ kind' = kind /\ object' = object /\ assigned' = assigned
      /\ damages' = Append(damages, what)
  BY <1>1 DEF Damage
<1>3. damages' \in Seq({"Cut", "Extended", "Altered"}) /\ damages' # <<>>
  <2>1. damages \in Seq({"Cut", "Extended", "Altered"})
    BY DEF ExchangeInv
  <2> QED BY <1>2, <2>1, AppendProperties
<1>4. HeldIsReadable'
  BY <1>2, ObjectUnchanged DEF ExchangeInv
<1>5. FoundIsNew' /\ OnItsWay' /\ ReadAsWritten'
  BY <1>2, <1>3 DEF FoundIsNew, OnItsWay, ReadAsWritten, ExchangeInv
<1> QED BY <1>2, <1>3, <1>4, <1>5 DEF ExchangeInv

(* Cut, extended and altered files are damaged.                            *)
LEMMA DamagesKeep ==
  ASSUME ExchangeInv, Truncate \/ Extend \/ Alter
  PROVE  ExchangeInv'
<1>1. bytes \in Bytes /\ bytes \in Seq(Byte) /\ Len(bytes) \in Nat
  BY Joins DEF ExchangeInv, Bytes
<1>2. CASE Truncate
  <2>1. PICK n \in 0 .. Len(bytes) - 1 : Damage("Cut", SubSeq(bytes, 1, n))
    BY <1>2 DEF Truncate
  <2>2. SubSeq(bytes, 1, n) \in Bytes
    <3>1. n \in 0 .. Len(bytes) /\ 1 \in Nat \ {0} /\ <<>> \in Bytes
      BY <1>1, Joins
    <3> QED BY <1>1, <3>1, PartSub
  <2> QED BY <2>1, <2>2, DamageKeeps
<1>3. CASE Extend
  <2>1. PICK b \in DamageBytes : Damage("Extended", Append(bytes, b))
    BY <1>3 DEF Extend
  <2>2. Append(bytes, b) \in Bytes
    BY <1>1, DamageBytesAssumption, Appended DEF Bytes
  <2> QED BY <2>1, <2>2, DamageKeeps
<1>4. CASE Alter
  <2>1. PICK i \in 1 .. Len(bytes), b \in DamageBytes :
          Damage("Altered", [bytes EXCEPT ![i] = b])
    BY <1>4 DEF Alter
  <2>2. [bytes EXCEPT ![i] = b] \in Bytes
    BY <1>1, DamageBytesAssumption, ExceptSeq DEF Bytes
  <2> QED BY <2>1, <2>2, DamageKeeps
<1> QED BY <1>2, <1>3, <1>4

(* No content is the empty tuple, which stands for no object.              *)
LEMMA NoneIsEmpty ==
  ASSUME NEW k \in Kinds, NEW o \in Files(Readable)[k]
  PROVE  o # <<>>
<1> SUFFICES ASSUME o = <<>> PROVE FALSE
  OBVIOUS
<1>1. \A S, T : <<>> \notin S \X T
  OBVIOUS
<1>2. \A S, T, U, V, W : <<>> \notin S \X T \X U \X V \X W
  OBVIOUS
<1>3. \A S, T, U, V, W, X, Y : <<>> \notin S \X T \X U \X V \X W \X X \X Y
  OBVIOUS
<1>4. \A S : <<>> \notin Alone(S)
  <2> SUFFICES ASSUME NEW S, <<>> \in [{1} -> Seq(S)] PROVE FALSE
    BY DEF Alone
  <2>1. 1 \in DOMAIN <<>>
    OBVIOUS
  <2>2. DOMAIN <<>> = {}
    OBVIOUS
  <2> QED BY <2>1, <2>2, Zenon
<1>5. CASE k \in {"Initialization", "DownloadRequest", "FindPacket"}
  BY <1>1, <1>5 DEF Files
<1>6. CASE k = "InformationStatus"
  BY <1>2, <1>6 DEF Files
<1>7. CASE k \in {"UploadStatus", "DownloadStatus"}
  <2>1. \A S, T : <<>> \notin Status(S, T)
    BY <1>3 DEF Status
  <2> QED BY <2>1, <1>7 DEF Files
<1>8. CASE k \in {"LoadConfigurationList", "UploadRequest", "DownloadList",
                  "DownloadAnswer"}
  BY <1>4, <1>8 DEF Files
<1> QED BY <1>5, <1>6, <1>7, <1>8 DEF Kinds

(* decode() keeps the invariant: what it gives is what was written, by     *)
(* RoundTrip, and fits the class, by DecodeYields; the object takes it     *)
(* over or appends it.                                                     *)
LEMMA ReadKeeps ==
  ASSUME ExchangeInv, Read
  PROVE  ExchangeInv'
<1> DEFINE v == Decode(kind, bytes).value
<1>1. /\ phase = "Written" /\ Decode(kind, bytes).ok /\ phase' = "Read"
      /\ object' = Assigned(v) /\ kind' = kind /\ content' = content
      /\ bytes' = bytes /\ damages' = damages /\ assigned' = assigned
  BY DEF Read
<1>2. kind \in Kinds /\ bytes \in Bytes /\ HeldIsReadable /\ FoundIsNew /\ OnItsWay
  BY DEF ExchangeInv
<1>3. /\ v \in Files(Readable)[kind]
      /\ kind = "Initialization" => v[1] \in AcceptanceCodes
  BY <1>1, <1>2, DecodeYields
<1> HIDE DEF v
<1> DEFINE w == [v EXCEPT ![1] = object[1] \o @]
<1>4. object' = IF object = <<>> \/ kind \notin Extending THEN v ELSE w
  BY <1>1 DEF Assigned
<1>5. ASSUME object # <<>>, kind \in Extending
      PROVE  /\ kind \in Extending \ {"FindPacket"}
             /\ w \in Files(Readable)[kind]
             /\ IsSuffix(v[1], w[1]) /\ Tail(w) = Tail(v)
  <2>1. kind # "FindPacket" /\ object \in Files(Readable)[kind]
    BY <1>1, <1>2, <1>5 DEF FoundIsNew, HeldIsReadable
  <2> QED BY <1>3, <1>5, <2>1, Extends
<1> HIDE DEF w
<1>6. object' \in Files(Readable)[kind]
  BY <1>3, <1>4, <1>5
<1>7. object' # <<>>
  BY <1>2, <1>6, NoneIsEmpty
<1>8. HeldIsReadable'
  <2>1. kind = "Initialization" => kind \notin Extending
    BY DEF Extending
  <2> QED BY <1>1, <1>3, <1>4, <1>6, <2>1 DEF HeldIsReadable
<1>9. ReadAsWritten'
  <2> SUFFICES ASSUME damages = <<>>
               PROVE  IF assigned = "Assigned" /\ kind \in Extending
                      THEN /\ IsSuffix(content[1], object'[1])
                           /\ Tail(object') = Tail(content)
                      ELSE object' = content
    BY <1>1 DEF ReadAsWritten
  <2>1. /\ assigned = IF object = <<>> THEN "New" ELSE "Assigned"
        /\ content \in Files(Strings)[kind] /\ Encodable(kind, content)
        /\ \E version \in Versions : bytes = Encode(kind, version, content)
    BY <1>1, <1>2 DEF OnItsWay
  <2>2. PICK version \in Versions : bytes = Encode(kind, version, content)
    BY <2>1
  <2>3. Decode(kind, bytes) = Got(content, <<>>)
    BY <1>1, <1>2, <2>1, <2>2, RoundTrip
  <2>4. v = content
    BY <2>3, Results DEF v
  <2> QED BY <1>4, <1>5, <2>1, <2>4
<1>10. FoundIsNew' /\ OnItsWay'
  BY <1>1 DEF FoundIsNew, OnItsWay
<1> QED BY <1>1, <1>2, <1>6, <1>7, <1>8, <1>9, <1>10 DEF ExchangeInv

(* A file that was not damaged is refused only if it is Unreadable.        *)
LEMMA RefuseKeeps ==
  ASSUME ExchangeInv, Refuse
  PROVE  ExchangeInv'
<1>1. /\ phase = "Written" /\ ~Decode(kind, bytes).ok /\ phase' = "Refused"
      /\ object' = <<>> /\ kind' = kind /\ content' = content
      /\ bytes' = bytes /\ damages' = damages
  BY DEF Refuse
<1>2. kind \in Kinds /\ OnItsWay
  BY DEF ExchangeInv
<1>3. ReadAsWritten'
  <2> SUFFICES ASSUME damages = <<>> PROVE Unreadable(kind, content)
    BY <1>1 DEF ReadAsWritten
  <2>1. /\ content \in Files(Strings)[kind] /\ Encodable(kind, content)
        /\ \E version \in Versions : bytes = Encode(kind, version, content)
    BY <1>1, <1>2 DEF OnItsWay
  <2>2. PICK version \in Versions : bytes = Encode(kind, version, content)
    BY <2>1
  <2> QED BY <1>1, <1>2, <2>1, <2>2, RoundTrip, Results
<1>4. HeldIsReadable' /\ FoundIsNew' /\ OnItsWay'
  BY <1>1 DEF HeldIsReadable, FoundIsNew, OnItsWay
<1> QED BY <1>1, <1>3, <1>4 DEF ExchangeInv

(* No step at all keeps the invariant.                                     *)
LEMMA StutterKeeps ==
  ASSUME ExchangeInv, UNCHANGED vars
  PROVE  ExchangeInv'
<1>1. /\ phase' = phase /\ kind' = kind /\ content' = content /\ bytes' = bytes
      /\ damages' = damages /\ object' = object /\ assigned' = assigned
  BY DEF vars
<1>2. HeldIsReadable' /\ FoundIsNew' /\ OnItsWay' /\ ReadAsWritten'
  BY <1>1 DEF HeldIsReadable, FoundIsNew, OnItsWay, ReadAsWritten, ExchangeInv
<1> QED BY <1>1, <1>2 DEF ExchangeInv

(* The invariant is inductive.                                             *)
LEMMA ExchangeInvHolds == Spec => []ExchangeInv
<1>1. Init => ExchangeInv
  BY BytesEmpty DEF Init, ExchangeInv, HeldIsReadable, FoundIsNew, OnItsWay, ReadAsWritten
<1>2. ExchangeInv /\ [Next]_vars => ExchangeInv'
  BY WriteKeeps, WriteFailsKeeps, DamagesKeep, ReadKeeps, RefuseKeeps, StutterKeeps DEF Next
<1> QED BY <1>1, <1>2, PTL DEF Spec

(* A file that arrives as it was written is read as what was written, for  *)
(* every content that the classes can hold: numbers of sixteen bits,       *)
(* strings of any length that encode() takes, lists of any length that     *)
(* their count can tell.  Encoders and decoders are separate code; this is *)
(* what makes host and target of this program understand each other, and   *)
(* what an object reused for the next file must not break.                 *)
THEOREM WrittenIsRead == Spec => []ReadAsWritten
<1>1. ExchangeInv => ReadAsWritten
  BY DEF ExchangeInv
<1> QED BY <1>1, ExchangeInvHolds, PTL

(* The elements of a sequence.                                             *)
LEMMA ElementsOf ==
  ASSUME NEW S, NEW s \in Seq(S)
  PROVE  ToSet(s) \subseteq S
BY ElementOfSeq DEF ToSet

-----------------------------------------------------------------------------

(* The fields of what the classes can hold.                                *)
LEMMA CodesRead ==
  ASSUME NEW k \in Kinds, NEW o \in Files(Readable)[k]
  PROVE  /\ k \in {"UploadStatus", "DownloadStatus"} =>
              /\ o[1] \in StatusCodes
              /\ o[3] \in Count
              /\ o[5] \in Short
              /\ o[6] \in Percent
         /\ k = "UploadStatus" =>
              \A l \in ToSet(o[7]) : l[3] \in Percent /\ l[4] \in StatusCodes
         /\ k = "DownloadStatus" =>
              \A f \in ToSet(o[7]) : f[2] \in StatusCodes
         /\ k = "InformationStatus" =>
              o[2] \in StatusCodes /\ o[4] \in Short
<1>1. \A E : \A c \in Status(Readable, E) :
        /\ c[1] \in StatusCodes /\ c[3] \in Count /\ c[5] \in Short
        /\ c[6] \in Percent /\ c[7] \in Seq(E)
  BY DEF Status
<1>2. CASE k = "UploadStatus"
  <2>1. o \in Status(Readable, LoadStatuses(Readable))
    BY <1>2 DEF Files
  <2>2. ToSet(o[7]) \subseteq LoadStatuses(Readable)
    BY <1>1, <2>1, ElementsOf
  <2>3. \A l \in LoadStatuses(Readable) : l[3] \in Percent /\ l[4] \in StatusCodes
    BY DEF LoadStatuses
  <2> QED BY <1>1, <1>2, <2>1, <2>2, <2>3
<1>3. CASE k = "DownloadStatus"
  <2>1. o \in Status(Readable, FileStatuses(Readable))
    BY <1>3 DEF Files
  <2>2. ToSet(o[7]) \subseteq FileStatuses(Readable)
    BY <1>1, <2>1, ElementsOf
  <2>3. \A f \in FileStatuses(Readable) : f[2] \in StatusCodes
    BY DEF FileStatuses
  <2> QED BY <1>1, <1>3, <2>1, <2>2, <2>3
<1>4. CASE k = "InformationStatus"
  <2>1. o \in Count \X StatusCodes \X Count \X Short \X Readable
    BY <1>4 DEF Files
  <2> QED BY <1>4, <2>1
<1> QED BY <1>2, <1>3, <1>4

(* The strings of what the classes can hold.                               *)
LEMMA TextsRead ==
  ASSUME NEW k \in Kinds, NEW o \in Files(Readable)[k], NEW s \in Texts(k, o)
  PROVE  Terminable(s)
<1>1. \A t \in Readable : Terminable(t)
  <2> SUFFICES ASSUME NEW t \in Readable PROVE 0 \notin ToSet(t) /\ Len(t) <= 254
    BY DEF Terminable
  <2>1. t \in Seq(Chars) /\ Len(t) <= 254
    BY DEF Readable, Strings
  <2>2. ToSet(t) \subseteq Chars
    BY <2>1, ElementsOf
  <2>3. 0 \notin Chars
    BY CharsAre
  <2> QED BY <2>1, <2>2, <2>3
<1>2. s \in Readable
  <2>1. CASE k = "Initialization"
    <3>1. o \in Count \X Readable /\ Texts(k, o) = {o[2]}
      BY <2>1 DEF Files, Texts
    <3> QED BY <3>1
  <2>2. CASE k = "InformationStatus"
    <3>1. /\ o \in Count \X StatusCodes \X Count \X Short \X Readable
          /\ Texts(k, o) = {o[5]}
      BY <2>2 DEF Files, Texts
    <3> QED BY <3>1
  <2>3. CASE k = "LoadConfigurationList"
    <3>1. /\ o[1] \in Seq(Hardware(Readable))
          /\ Texts(k, o) =
               UNION {{h[1], h[2]} \cup UNION {{p[1], p[2], p[3]} : p \in ToSet(h[3])}
                      : h \in ToSet(o[1])}
      BY <2>3 DEF Files, Alone, Texts
    <3>2. PICK h \in ToSet(o[1]) :
            s \in {h[1], h[2]} \cup UNION {{p[1], p[2], p[3]} : p \in ToSet(h[3])}
      BY <3>1
    <3>3. h \in Hardware(Readable)
      BY <3>1, ElementsOf
    <3>4. h[1] \in Readable /\ h[2] \in Readable /\ h[3] \in Seq(PartNumbers(Readable))
      BY <3>3 DEF Hardware
    <3>5. CASE s \in {h[1], h[2]}
      BY <3>4, <3>5
    <3>6. CASE s \in UNION {{p[1], p[2], p[3]} : p \in ToSet(h[3])}
      <4>1. PICK p \in ToSet(h[3]) : s \in {p[1], p[2], p[3]}
        BY <3>6
      <4>2. p \in Readable \X Readable \X Readable
        BY <3>4, ElementsOf DEF PartNumbers
      <4> QED BY <4>1, <4>2
    <3> QED BY <3>2, <3>5, <3>6
  <2>4. CASE k = "UploadStatus"
    <3>1. /\ o[2] \in Readable /\ o[7] \in Seq(LoadStatuses(Readable))
          /\ Texts(k, o) = {o[2]} \cup UNION {{l[1], l[2], l[5]} : l \in ToSet(o[7])}
      BY <2>4 DEF Files, Status, Texts
    <3>2. CASE s = o[2]
      BY <3>1, <3>2
    <3>3. CASE s \in UNION {{l[1], l[2], l[5]} : l \in ToSet(o[7])}
      <4>1. PICK l \in ToSet(o[7]) : s \in {l[1], l[2], l[5]}
        BY <3>3
      <4>2. l \in Readable \X Readable \X Percent \X StatusCodes \X Readable
        BY <3>1, ElementsOf DEF LoadStatuses
      <4> QED BY <4>1, <4>2
    <3> QED BY <3>1, <3>2, <3>3
  <2>5. CASE k = "DownloadStatus"
    <3>1. /\ o[2] \in Readable /\ o[7] \in Seq(FileStatuses(Readable))
          /\ Texts(k, o) = {o[2]} \cup UNION {{f[1], f[3]} : f \in ToSet(o[7])}
      BY <2>5 DEF Files, Status, Texts
    <3>2. CASE s = o[2]
      BY <3>1, <3>2
    <3>3. CASE s \in UNION {{f[1], f[3]} : f \in ToSet(o[7])}
      <4>1. PICK f \in ToSet(o[7]) : s \in {f[1], f[3]}
        BY <3>3
      <4>2. f \in Readable \X StatusCodes \X Readable
        BY <3>1, ElementsOf DEF FileStatuses
      <4> QED BY <4>1, <4>2
    <3> QED BY <3>1, <3>2, <3>3
  <2>6. CASE k \in {"UploadRequest", "DownloadList"}
    <3>1. /\ o[1] \in Seq(Pairs(Readable))
          /\ Texts(k, o) = UNION {{e[1], e[2]} : e \in ToSet(o[1])}
      BY <2>6 DEF Files, Alone, Texts
    <3>2. PICK e \in ToSet(o[1]) : s \in {e[1], e[2]}
      BY <3>1
    <3>3. e \in Readable \X Readable
      BY <3>1, ElementsOf DEF Pairs
    <3> QED BY <3>2, <3>3
  <2>7. CASE k \in {"DownloadRequest", "DownloadAnswer"}
    <3>1. o[1] \in Seq(Readable) /\ Texts(k, o) = ToSet(o[1])
      BY <2>7 DEF Files, Alone, Texts
    <3> QED BY <3>1, ElementsOf
  <2>8. CASE k = "FindPacket"
    BY <2>8 DEF Texts
  <2> QED BY <2>1, <2>2, <2>3, <2>4, <2>5, <2>6, <2>7, <2>8 DEF Kinds
<1> QED BY <1>1, <1>2

(* Whatever bytes arrive, what is accepted has codes of the enumerations,  *)
(* ratios within 100 percent, signed times within 16 bits and strings      *)
(* without terminators, as statusCode(), Ratio_decode() and                *)
(* String_decode() promise.                                                *)
THEOREM AcceptedFits == Spec => []AcceptedIsWellFormed
<1>1. ASSUME ExchangeInv PROVE AcceptedIsWellFormed
  <2> SUFFICES ASSUME phase = "Read" PROVE AcceptedIsWellFormed
    BY DEF AcceptedIsWellFormed
  <2>1. /\ kind \in Kinds /\ object \in Files(Readable)[kind]
        /\ kind = "Initialization" => object[1] \in AcceptanceCodes
    BY <1>1 DEF ExchangeInv, HeldIsReadable
  <2> DEFINE Coded ==
        /\ kind \in {"UploadStatus", "DownloadStatus"} =>
             /\ object[1] \in StatusCodes
             /\ object[3] \in Count
             /\ object[5] \in Short
             /\ object[6] \in Percent
        /\ kind = "UploadStatus" =>
             \A l \in ToSet(object[7]) : l[3] \in Percent /\ l[4] \in StatusCodes
        /\ kind = "DownloadStatus" =>
             \A f \in ToSet(object[7]) : f[2] \in StatusCodes
        /\ kind = "InformationStatus" =>
             object[2] \in StatusCodes /\ object[4] \in Short
  <2>2. Coded
    BY <2>1, CodesRead
  <2>3. \A s \in Texts(kind, object) : Terminable(s)
    BY <2>1, TextsRead
  <2> HIDE DEF Coded
  <2>4. QED
    BY <2>1, <2>2, <2>3 DEF AcceptedIsWellFormed, Coded
<1> QED BY <1>1, ExchangeInvHolds, PTL

(* What was accepted can be written again and is then read as the same     *)
(* content: decode() after encode() of what decode() gave changes nothing. *)
THEOREM AcceptedIsKept == Spec => []AcceptedIsPreserved
<1>1. ASSUME ExchangeInv PROVE AcceptedIsPreserved
  <2> SUFFICES ASSUME phase = "Read", Encodable(kind, object), ~Unreadable(kind, object)
               PROVE  Decode(kind, Encode(kind, 16692, object)) = Got(object, <<>>)
    BY Results DEF AcceptedIsPreserved
  <2>1. kind \in Kinds /\ object \in Files(Readable)[kind]
    BY <1>1 DEF ExchangeInv, HeldIsReadable
  <2>2. object \in Files(Strings)[kind]
    BY <2>1, FilesWiden
  <2>3. 16692 \in Versions
    BY DEF Versions
  <2> QED BY <2>1, <2>2, <2>3, RoundTrip
<1> QED BY <1>1, ExchangeInvHolds, PTL

-----------------------------------------------------------------------------
(* A field that ends a file is guarded: what it read to the last byte, it  *)
(* does not read to the last byte with more bytes behind it.               *)
Complete(r) == r.ok /\ r.rest = <<>>

Guarded(f) ==
  \A b, t \in Bytes : Complete(f[b]) /\ t # <<>> => ~Complete(f[b \o t])

(* A local field leaves the bytes behind it.                               *)
LEMMA LocalGuards ==
  ASSUME NEW f, Local(f)
  PROVE  Guarded(f)
<1> SUFFICES ASSUME NEW b \in Bytes, NEW t \in Bytes, Complete(f[b]), t # <<>>
             PROVE  ~Complete(f[b \o t])
  BY DEF Guarded
<1>1. f[b].ok /\ f[b].rest = <<>>
  BY DEF Complete
<1>2. f[b \o t] = Got(f[b].value, f[b].rest \o t)
  <2>1. \A u \in Bytes : f[b \o u] = Got(f[b].value, f[b].rest \o u)
    BY <1>1 DEF Local
  <2> QED BY <2>1
<1>3. <<>> \o t = t
  BY Joins
<1>4. f[b \o t].rest = t
  BY <1>1, <1>2, <1>3, Results
<1> QED BY <1>4 DEF Complete

(* The user defined data is all that is left, but tells its length.        *)
LEMMA UserDataGuards == Guarded(UserDefinedDataField)
<1> SUFFICES ASSUME NEW b \in Bytes, NEW t \in Bytes, Complete(UserDefinedDataField[b]),
                    t # <<>>, Complete(UserDefinedDataField[b \o t])
             PROVE  FALSE
  BY DEF Guarded
<1>1. \A x \in Bytes : Complete(UserDefinedDataField[x]) =>
        x # <<>> /\ x[1] = Len(x) - 1
  BY Results DEF Complete, UserDefinedDataField
<1>2. /\ b \o t \in Bytes /\ Len(b \o t) = Len(b) + Len(t)
      /\ Len(b) \in Nat /\ Len(t) \in Nat
  BY Join
<1>3. b # <<>> /\ b[1] = Len(b) - 1 /\ (b \o t)[1] = Len(b \o t) - 1
  BY <1>1, <1>2
<1>4. Len(b) # 0 /\ Len(t) # 0
  BY <1>3, EmptySeq DEF Bytes
<1>5. (b \o t)[1] = b[1]
  <2>1. 1 \in 1 .. Len(b)
    BY <1>2, <1>4
  <2> QED BY <2>1, PartFront
<1> QED BY <1>2, <1>3, <1>4, <1>5

(* Two fields read to the last byte what the second one does.              *)
LEMMA TwoComplete ==
  ASSUME NEW f, NEW g, NEW V, NEW W, Yields(f, V), Yields(g, W), NEW b \in Bytes
  PROVE  Complete(InOrder(<<f, g>>)[b]) => f[b].ok /\ Complete(g[f[b].rest])
<1> DEFINE fields == <<f, g>>
           r == f[b].rest
<1>1. Len(fields) = 2 /\ fields[1] = f /\ fields[2] = g
  OBVIOUS
<1>2. PICK from : Recursion(fields, from)
  BY <1>1, InOrderRecursion
<1> HIDE DEF fields
<1>3. /\ \A x \in Bytes : from[3][x] = Got(<<>>, x)
      /\ from[1][b] = Followed(f[b], from[2])
      /\ \A x \in Bytes : from[2][x] = Followed(g[x], from[3])
      /\ InOrder(fields) = from[1]
  BY <1>1, <1>2 DEF Recursion
<1> SUFFICES ASSUME Complete(from[1][b]) PROVE f[b].ok /\ Complete(g[r])
  BY <1>3 DEF fields
<1>4. f[b].ok
  BY <1>3, Results DEF Followed, Complete
<1>5. r \in Bytes
  BY <1>4 DEF Yields
<1> HIDE DEF r
<1>6. from[2][r].ok /\ from[2][r].rest = <<>>
  <2>1. from[1][b] = IF ~from[2][r].ok THEN Refusal
                     ELSE Got(<<f[b].value>> \o from[2][r].value, from[2][r].rest)
    BY <1>3, <1>4 DEF Followed, r
  <2> QED BY <2>1, Results DEF Complete
<1>7. g[r].ok
  BY <1>3, <1>5, <1>6, Results DEF Followed
<1>8. g[r].rest \in Bytes
  BY <1>5, <1>7 DEF Yields
<1>9. from[2][r] = Got(<<g[r].value>> \o <<>>, g[r].rest)
  <2>1. from[3][g[r].rest] = Got(<<>>, g[r].rest)
    BY <1>3, <1>8
  <2>2. from[2][r] = Followed(g[r], from[3])
    BY <1>3, <1>5
  <2> DEFINE last == from[3][g[r].rest]
  <2>3. last.ok /\ last.value = <<>> /\ last.rest = g[r].rest
    BY <2>1, Results
  <2> HIDE DEF last
  <2>4. Followed(g[r], from[3]) = Got(<<g[r].value>> \o last.value, last.rest)
    BY <1>7, <2>3 DEF Followed, last
  <2> QED BY <2>2, <2>3, <2>4
<1>10. g[r].rest = <<>>
  BY <1>6, <1>9, Results
<1> QED BY <1>4, <1>7, <1>10 DEF Complete, r

(* What one field leaves to a guarded one is guarded.                      *)
LEMMA TwoGuard ==
  ASSUME NEW f, NEW g, NEW V, NEW W, Yields(f, V), Yields(g, W), Local(f), Guarded(g)
  PROVE  Guarded(InOrder(<<f, g>>))
<1> DEFINE h == InOrder(<<f, g>>)
<1> SUFFICES ASSUME NEW b \in Bytes, NEW t \in Bytes, Complete(h[b]), t # <<>>,
                    Complete(h[b \o t])
             PROVE  FALSE
  BY DEF Guarded
<1>1. b \o t \in Bytes
  BY Joins
<1>2. f[b].ok /\ Complete(g[f[b].rest])
  BY TwoComplete
<1>3. f[b \o t].ok /\ Complete(g[f[b \o t].rest])
  BY <1>1, TwoComplete
<1>4. f[b \o t].rest = f[b].rest \o t /\ f[b].rest \in Bytes
  <2> DEFINE left == f[b].rest \o t
             first == f[b].value
  <2>1. f[b].rest \in Bytes /\ f[b \o t] = Got(first, left)
    BY <1>2 DEF Local
  <2>2. left = f[b].rest \o t
    OBVIOUS
  <2> HIDE DEF left, first, h
  <2>3. Got(first, left).rest = left
    BY Results
  <2> QED BY <2>1, <2>2, <2>3
<1> QED BY <1>2, <1>3, <1>4 DEF Guarded

(* No file that is accepted is accepted with more bytes behind it,         *)
(* whatever bytes the two are.                                             *)
LEMMA FilesGuard ==
  ASSUME NEW k \in Plain
  PROVE  Guarded(Fields(k))
<1>1. CASE k # "DownloadRequest"
  BY <1>1, FilesYield, LocalGuards
<1>2. CASE k = "DownloadRequest"
  <2>1. Local(ListOf(TextField)) /\ Yields(ListOf(TextField), Seq(Readable))
    BY TextFields, ListFields
  <2>2. Guarded(DownloadRequestFields)
    BY <2>1, UserDataYields, UserDataGuards, TwoGuard DEF DownloadRequestFields
  <2> QED BY <1>2, <2>2 DEF Fields
<1> QED BY <1>1, <1>2

(* A body that was written is not accepted when it was cut or extended.    *)
LEMMA BodyGuarded ==
  ASSUME NEW k \in Plain, NEW c \in Files(Strings)[k], Encodable(k, c),
         NEW x \in Bytes, NEW z \in Bytes, z # <<>>,
         x \o z = Body(k, c) \/ x = Body(k, c) \o z
  PROVE  ~Complete(Fields(k)[x])
<1> DEFINE body == Body(k, c)
           bad == k = "Initialization" /\ c[1] \notin AcceptanceCodes
<1>1. /\ body \in Bytes
      /\ bad => \A t \in Bytes : ~Fields(k)[body \o t].ok
      /\ ~bad => Fields(k)[body] = Got(c, <<>>)
  BY BodyReads
<1>2. x \o z = body \/ x = body \o z
  OBVIOUS
<1> HIDE DEF body
<1>3. CASE bad
  <2>1. k # "DownloadRequest" /\ body \o <<>> = body /\ <<>> \in Bytes
    BY <1>1, <1>3, Joins
  <2>2. Local(Fields(k))
    BY <2>1, FilesYield
  <2> HIDE DEF bad
  <2>3. CASE x = body \o z
    BY <1>1, <1>3, <2>3 DEF Complete
  <2>4. CASE x \o z = body
    <3> SUFFICES ASSUME Fields(k)[x].ok PROVE FALSE
      BY DEF Complete
    <3>1. Fields(k)[x \o z].ok
      BY <2>2, Results DEF Local
    <3>2. ~Fields(k)[body].ok
      BY <1>1, <1>3, <2>1
    <3> QED BY <2>4, <3>1, <3>2
  <2> QED BY <1>2, <2>3, <2>4
<1>4. CASE ~bad
  <2>1. Complete(Fields(k)[body])
    BY <1>1, <1>4, Results DEF Complete
  <2> QED BY <1>1, <1>2, <2>1, FilesGuard DEF Guarded
<1> QED BY <1>3, <1>4

(* The bytes up to a place and those behind it.                            *)
LEMMA FrontAndBehind ==
  ASSUME NEW b \in Bytes, NEW n \in 0 .. Len(b)
  PROVE  /\ SubSeq(b, 1, n) \in Bytes /\ Len(SubSeq(b, 1, n)) = n
         /\ Behind(b, n) \in Bytes /\ Len(Behind(b, n)) = Len(b) - n
         /\ SubSeq(b, 1, n) \o Behind(b, n) = b
<1>1. Len(b) \in Nat /\ b \in Seq(Byte) /\ <<>> \in Bytes /\ 1 \in Nat \ {0}
  BY Joins DEF Bytes
<1>2. SubSeq(b, 1, n) \in Bytes /\ Len(SubSeq(b, 1, n)) = IF 1 <= n THEN n - 1 + 1 ELSE 0
  BY <1>1, PartSub
<1>3. Behind(b, n) \in Bytes /\ Len(Behind(b, n)) = Len(b) - n
  BY <1>1, PartBehind
<1>4. SubSeq(b, 1, n) \o SubSeq(b, n + 1, Len(b)) = SubSeq(b, 1, Len(b))
  <2>1. 1 \in 1 .. Len(b) + 1 /\ n \in 1 - 1 .. Len(b) /\ Len(b) \in n .. Len(b)
    BY <1>1
  <2> QED BY <1>1, <2>1, ConcatAdjacentSubSeq
<1>5. SubSeq(b, 1, Len(b)) = b
  BY <1>1, SubSeqFull
<1>6. Len(SubSeq(b, 1, n)) = n
  BY <1>1, <1>2
<1> QED BY <1>2, <1>3, <1>4, <1>5, <1>6 DEF Behind

(* A protocol file that was cut or extended is refused, whether or not its *)
(* length field was adapted.                                               *)
LEMMA DamagedFile ==
  ASSUME NEW k \in Plain, NEW c \in Files(Strings)[k], Encodable(k, c),
         NEW version \in Versions,
         NEW x \in Bytes, NEW z \in Bytes, z # <<>>,
         \/ x \o z = Encode(k, version, c)
         \/ x = Encode(k, version, c) \o z,
         NEW b,
         \/ b = x
         \/ Len(x) >= HeaderSize /\ b = U32(Len(x)) \o SubSeq(x, 5, Len(x))
  PROVE  ~Decode(k, b).ok
<1> DEFINE body == Body(k, c)
           file == InsertHeader(version, body)
<1>1. body \in Bytes
  BY BodyReads
<1>2. file \in Bytes /\ Len(file) = HeaderSize + Len(body) /\ Behind(file, HeaderSize) = body
      /\ Len(body) \in Nat
  <2> HIDE DEF body
  <2> QED BY <1>1, HeaderReads
<1>3. Encode(k, version, c) = file /\ k # "FindPacket"
  BY DEF Encode, Plain
<1> HIDE DEF file, body
<1> SUFFICES ASSUME Decode(k, b).ok PROVE FALSE
  OBVIOUS
<1>4. HeaderAccepted(b) /\ Complete(Fields(k)[Behind(b, HeaderSize)])
  BY <1>3, Results DEF Decode, Complete
<1>5. Len(b) = Len(x) /\ Behind(b, HeaderSize) = Behind(x, HeaderSize)
      /\ Len(x) >= HeaderSize
  <2>1. CASE b = x
    BY <1>4, <2>1 DEF HeaderAccepted
  <2>2. CASE Len(x) >= HeaderSize /\ b = U32(Len(x)) \o SubSeq(x, 5, Len(x))
    <3> DEFINE length == U32(Len(x))
               rest == Behind(x, 4)
    <3>1. Len(x) \in Nat /\ 4 \in 0 .. Len(x) /\ 2 \in 0 .. Len(x) - 4 /\ <<>> \in Bytes
          /\ HeaderSize \in 0 .. Len(x)
      BY <2>2, Joins DEF HeaderSize
    <3>2. length \in Bytes /\ Len(length) = 4
      <4> DEFINE high == U16(Len(x) \div Word)
                 low == U16(Len(x))
      <4>1. (Len(x) \div Word) \in Int
        BY <3>1, Widths
      <4>2. high \in Bytes /\ Len(high) = 2 /\ low \in Bytes /\ Len(low) = 2
        BY <3>1, <4>1, NumberIsU16
      <4>3. length = high \o low
        BY DEF U32
      <4> HIDE DEF high, low, length
      <4>4. high \o low \in Bytes /\ Len(high \o low) = Len(high) + Len(low)
        BY <4>2, Join
      <4> QED BY <4>2, <4>3, <4>4
    <3>3. rest \in Bytes /\ Len(rest) = Len(x) - 4
      BY <3>1, PartBehind
    <3>4. b = length \o rest
      BY <2>2 DEF Behind
    <3>5. Len(b) = Len(x)
      <4> HIDE DEF length, rest
      <4>1. Len(length \o rest) = Len(length) + Len(rest)
        BY <3>2, <3>3, Join
      <4> QED BY <3>1, <3>2, <3>3, <3>4, <4>1
    <3>6. b \in Bytes
      <4> HIDE DEF length, rest
      <4> QED BY <3>2, <3>3, <3>4, Join
    <3>7. \A i \in 7 .. Len(x) : b[i] = x[i]
      <4> SUFFICES ASSUME NEW i \in 7 .. Len(x) PROVE b[i] = x[i]
        OBVIOUS
      <4>1. x \in Seq(Byte) /\ length \in Seq(Byte) /\ rest \in Seq(Byte)
        BY <3>2, <3>3 DEF Bytes
      <4>2. i \in 1 .. Len(length) + Len(rest) /\ ~(i <= Len(length)) /\ i - Len(length) = i - 4
        BY <3>1, <3>2, <3>3
      <4>3. b[i] = rest[i - 4]
        <5> HIDE DEF length, rest
        <5> QED BY <3>4, <4>1, <4>2, ConcatProperties
      <4>4. rest[i - 4] = x[i]
        <5>1. /\ 4 + 1 \in Int /\ Len(x) \in Int /\ i - 4 \in 1 .. Len(x) - (4 + 1) + 1
              /\ 4 + 1 + (i - 4) - 1 = i
          BY <3>1
        <5>2. \A j \in 4 + 1 .. Len(x) : x[j] \in Byte
          BY <3>1, <4>1, ElementOfSeq
        <5>3. SubSeq(x, 4 + 1, Len(x))[i - 4] = x[4 + 1 + (i - 4) - 1]
          BY <5>1, <5>2, SubSeqProperties
        <5> QED BY <5>1, <5>3 DEF Behind
      <4> QED BY <4>3, <4>4
    <3>8. Behind(b, HeaderSize) = Behind(x, HeaderSize)
      <4> DEFINE u == Behind(b, HeaderSize)
                 v == Behind(x, HeaderSize)
      <4>1. u \in Bytes /\ v \in Bytes /\ Len(u) = Len(x) - HeaderSize
            /\ Len(v) = Len(x) - HeaderSize
        BY <3>1, <3>5, <3>6, PartBehind
      <4>2. \A y \in Bytes : Len(y) = Len(x) =>
              \A i \in 1 .. Len(x) - HeaderSize : Behind(y, HeaderSize)[i] = y[6 + i]
        <5> SUFFICES ASSUME NEW y \in Bytes, Len(y) = Len(x),
                            NEW i \in 1 .. Len(x) - HeaderSize
                     PROVE  Behind(y, HeaderSize)[i] = y[6 + i]
          OBVIOUS
        <5>1. /\ 6 + 1 \in Int /\ Len(y) \in Int /\ i \in 1 .. Len(y) - (6 + 1) + 1
              /\ 6 + 1 + i - 1 = 6 + i
          BY <3>1 DEF HeaderSize
        <5>2. \A j \in 6 + 1 .. Len(y) : y[j] \in Byte
          BY <3>1, ElementOfSeq DEF Bytes
        <5>3. SubSeq(y, 6 + 1, Len(y))[i] = y[6 + 1 + i - 1]
          BY <5>1, <5>2, SubSeqProperties
        <5> QED BY <5>1, <5>3 DEF Behind, HeaderSize
      <4>3. \A i \in 1 .. Len(x) - HeaderSize : u[i] = v[i]
        <5>1. \A i \in 1 .. Len(x) - HeaderSize : 6 + i \in 7 .. Len(x)
          BY <3>1 DEF HeaderSize
        <5> QED BY <3>5, <3>6, <3>7, <4>2, <5>1
      <4> HIDE DEF u, v
      <4> QED BY <4>1, <4>3, SeqEqual DEF Bytes, u, v
    <3> QED BY <2>2, <3>5, <3>8
  <2> QED BY <2>1, <2>2
<1> DEFINE y == Behind(x, HeaderSize)
<1>6. y \in Bytes /\ Behind(x \o z, HeaderSize) = y \o z
  <2>1. HeaderSize \in 0 .. Len(x)
    BY <1>5, Joins DEF HeaderSize
  <2> QED BY <2>1, PartBehind
<1>7. Behind(file \o z, HeaderSize) = body \o z
  <2>1. HeaderSize \in 0 .. Len(file)
    BY <1>2 DEF HeaderSize
  <2> QED BY <1>2, <2>1, PartBehind
<1>8. y \o z = body \/ y = body \o z
  BY <1>2, <1>3, <1>6, <1>7
<1> HIDE DEF y
<1>9. ~Complete(Fields(k)[y])
  BY <1>6, <1>8, BodyGuarded DEF body
<1> QED BY <1>4, <1>5, <1>9 DEF y

-----------------------------------------------------------------------------
(* No string of the bytes begins with the terminator of a packet.          *)
Unmarked(b) ==
  /\ b # <<>> => b[1] # PacketTerminator
  /\ \A i \in 1 .. Len(b) - 1 : b[i] = 0 => b[i + 1] # PacketTerminator

(* The parameters that a packet can carry without being cut short.         *)
UnmarkedContent(c) ==
  \A i \in DOMAIN c[2] : c[2][i] # <<>> => c[2][i][1] # PacketTerminator

(* Such bytes behind each other.                                           *)
LEMMA UnmarkedJoin ==
  ASSUME NEW a \in Bytes, NEW e \in Bytes, Unmarked(a), Unmarked(e)
  PROVE  Unmarked(a \o e)
<1> DEFINE m == Len(a)
           n == Len(e)
           b == a \o e
<1>1. /\ m \in Nat /\ n \in Nat /\ b \in Bytes /\ Len(b) = m + n
      /\ \A i \in 1 .. m + n : b[i] = IF i <= m THEN a[i] ELSE e[i - m]
  <2>1. a \in Seq(Byte) /\ e \in Seq(Byte)
    BY DEF Bytes
  <2>2. \A i \in 1 .. m + n : b[i] = IF i <= m THEN a[i] ELSE e[i - m]
    BY <2>1, ConcatProperties
  <2> QED BY <2>2, Join
<1> HIDE DEF b
<1>2. ASSUME b # <<>> PROVE b[1] # PacketTerminator
  <2>1. 1 \in 1 .. m + n
    BY <1>1, <1>2, EmptySeq DEF Bytes
  <2>2. CASE m = 0
    <3>1. e # <<>> /\ b[1] = e[1]
      BY <1>1, <2>1, <2>2, EmptySeq DEF Bytes
    <3> QED BY <3>1 DEF Unmarked
  <2>3. CASE m # 0
    <3>1. a # <<>> /\ b[1] = a[1]
      BY <1>1, <2>1, <2>3, EmptySeq DEF Bytes
    <3> QED BY <3>1 DEF Unmarked
  <2> QED BY <2>2, <2>3
<1>3. ASSUME NEW i \in 1 .. (m + n) - 1, b[i] = 0 PROVE b[i + 1] # PacketTerminator
  <2>1. i \in 1 .. m + n /\ i + 1 \in 1 .. m + n
    BY <1>1
  <2>2. CASE i + 1 <= m
    <3>1. i \in 1 .. Len(a) - 1 /\ a[i] = b[i] /\ b[i + 1] = a[i + 1]
      BY <1>1, <2>1, <2>2
    <3> QED BY <1>3, <3>1 DEF Unmarked
  <2>3. CASE i = m
    <3>1. e # <<>>
      BY <1>1, <2>1, <2>3, EmptySeq DEF Bytes
    <3>2. b[i + 1] = e[1]
      <4>1. ~(i + 1 <= m) /\ i + 1 - m = 1
        BY <1>1, <2>3
      <4> QED BY <1>1, <2>1, <4>1
    <3> QED BY <3>1, <3>2 DEF Unmarked
  <2>4. CASE i > m
    <3> DEFINE j == i - m
    <3>1. j \in 1 .. Len(e) - 1 /\ ~(i <= m) /\ ~(i + 1 <= m) /\ i + 1 - m = j + 1
      BY <1>1, <2>1, <2>4
    <3>2. b[i] = e[j] /\ b[i + 1] = e[j + 1]
      <4>1. b[i] = e[i - m] /\ b[i + 1] = e[i + 1 - m]
        BY <1>1, <2>1, <3>1
      <4> QED BY <3>1, <4>1
    <3> HIDE DEF j
    <3> QED BY <1>3, <3>1, <3>2 DEF Unmarked
  <2> QED BY <1>1, <2>2, <2>3, <2>4
<1>4. \A i \in 1 .. Len(b) - 1 : b[i] = 0 => b[i + 1] # PacketTerminator
  BY <1>1, <1>3
<1> QED BY <1>2, <1>4 DEF Unmarked, b

(* A parameter with its terminator.                                        *)
LEMMA UnmarkedParameter ==
  ASSUME NEW s \in Strings, s # <<>> => s[1] # PacketTerminator
  PROVE  Unmarked(Terminated(s))
<1> DEFINE b == Terminated(s)
<1>1. /\ Len(s) \in Nat /\ Len(b) = Len(s) + 1 /\ b[Len(s) + 1] = 0
      /\ \A i \in 1 .. Len(s) : b[i] = s[i] /\ s[i] # 0
  <2>1. s \in Seq(Chars) /\ s \in Seq(Byte) /\ 0 \in Byte
    BY StringBytes, Widths DEF Strings, Bytes
  <2>2. \A i \in 1 .. Len(s) : s[i] # 0
    BY <2>1, CharsAre, ElementOfSeq
  <2> QED BY <2>1, <2>2, Appended, LenProperties DEF Terminated
<1> HIDE DEF b
<1>2. b[1] # PacketTerminator
  <2>1. CASE s = <<>>
    <3>1. Len(s) + 1 = 1
      BY <2>1
    <3> QED BY <1>1, <3>1 DEF PacketTerminator
  <2>2. CASE s # <<>>
    <3>1. 1 \in 1 .. Len(s)
      BY <1>1, <2>2, EmptySeq DEF Strings
    <3> QED BY <1>1, <2>2, <3>1
  <2> QED BY <2>1, <2>2
<1>3. \A i \in 1 .. Len(b) - 1 : b[i] # 0
  BY <1>1
<1> QED BY <1>2, <1>3 DEF Unmarked, b

(* All parameters behind each other.                                       *)
LEMMA UnmarkedFlatten ==
  ASSUME NEW ss \in Seq(Bytes), \A i \in 1 .. Len(ss) : Unmarked(ss[i])
  PROVE  Unmarked(FlattenSeq(ss))
<1> DEFINE All(tt) == \A i \in 1 .. Len(tt) : Unmarked(tt[i])
           Flat(tt) == Unmarked(FlattenSeq(tt))
           T == {n \in Nat : \A tt \in Seq(Bytes) : Len(tt) = n /\ All(tt) => Flat(tt)}
<1>1. 0 \in T
  <2> SUFFICES ASSUME NEW tt \in Seq(Bytes), Len(tt) = 0 PROVE Flat(tt)
    OBVIOUS
  <2>1. tt = <<>> /\ FlattenSeq(tt) = <<>> /\ ~(1 \in 1 .. Len(<<>>) - 1)
    BY EmptySeq, FlattenEmpty
  <2>2. \A i \in 1 .. Len(<<>>) - 1 : FALSE
    OBVIOUS
  <2> QED BY <2>1, <2>2 DEF Unmarked
<1>2. ASSUME NEW k \in Nat, k \in T PROVE k + 1 \in T
  <2> SUFFICES ASSUME NEW tt \in Seq(Bytes), Len(tt) = k + 1, All(tt) PROVE Flat(tt)
    OBVIOUS
  <2>1. tt # <<>>
    BY EmptySeq
  <2>2. PICK pp \in Seq(Bytes), e \in Bytes : tt = Append(pp, e)
    BY <2>1, SequenceEmptyOrAppend
  <2>3. /\ Len(tt) = Len(pp) + 1 /\ Len(pp) \in Nat /\ tt[Len(pp) + 1] = e
        /\ \A i \in 1 .. Len(pp) : tt[i] = pp[i]
    BY <2>2, Appended, LenProperties
  <2>4. Len(pp) = k /\ All(pp) /\ Unmarked(e)
    BY <2>3
  <2>5. Flat(pp)
    <3> HIDE DEF Flat, All
    <3> QED BY <1>2, <2>4
  <2>6. FlattenSeq(tt) = FlattenSeq(pp) \o e /\ FlattenSeq(pp) \in Bytes
    BY <2>2, FlattenAppend
  <2> QED BY <2>4, <2>5, <2>6, UnmarkedJoin
<1>3. Nat \subseteq T
  <2> HIDE DEF T
  <2> QED BY <1>1, <1>2, Induct
<1> HIDE DEF All, Flat
<1>4. Len(ss) \in T
  BY <1>3, LenProperties
<1>5. All(ss)
  BY DEF All
<1>6. Flat(ss)
  BY <1>4, <1>5
<1> QED BY <1>6 DEF Flat

(* A packet: its opcode, its parameters and its terminator.                *)
LEMMA FindShape ==
  ASSUME NEW c \in Files(Strings)["FindPacket"], UnmarkedContent(c),
         NEW b, b = EncodeFindPacket(c)
  PROVE  \E flat \in Bytes :
           /\ Unmarked(flat)
           /\ b \in Bytes /\ Len(b) = Len(flat) + 3 /\ b[Len(b)] = PacketTerminator
           /\ \A i \in 1 .. Len(flat) : b[i + 2] = flat[i]
<1> DEFINE p == c[2]
           ss == [i \in DOMAIN p |-> Terminated(p[i])]
           flat == FlattenSeq(ss)
           mark == U16(c[1])
           end == <<PacketTerminator>>
<1>1. c = <<c[1], p>> /\ c[1] \in {1, 2} /\ p \in Seq(Strings)
  BY DEF Files
<1>2. EncodeFindPacket(c) = (mark \o flat) \o end
  BY DEF EncodeFindPacket
<1>3. \A i \in DOMAIN p : p[i] # <<>> => p[i][1] # PacketTerminator
  BY DEF UnmarkedContent
<1> HIDE DEF p
<1>4. /\ Len(p) \in Nat /\ DOMAIN p = 1 .. Len(p)
      /\ \A i \in 1 .. Len(p) : p[i] \in Strings
  BY <1>1, LenProperties, ElementOfSeq
<1>5. /\ ss \in Seq(Bytes) /\ Len(ss) = Len(p)
      /\ \A i \in 1 .. Len(p) : ss[i] = Terminated(p[i])
  <2>1. \A i \in 1 .. Len(p) : Terminated(p[i]) \in Bytes
    BY <1>4, TerminatedIs
  <2> QED BY <1>4, <2>1
<1> HIDE DEF ss
<1>6. flat \in Bytes /\ Unmarked(flat)
  <2>1. \A i \in 1 .. Len(ss) : Unmarked(ss[i])
    BY <1>3, <1>4, <1>5, UnmarkedParameter
  <2>2. FlattenSeq(ss) \in Bytes
    BY <1>5, FlattenAppend, Joins
  <2> QED BY <1>5, <2>1, <2>2, UnmarkedFlatten
<1>7. mark \in Bytes /\ Len(mark) = 2
  <2>1. c[1] \in Int
    BY <1>1
  <2> QED BY <2>1, NumberIsU16
<1>8. end \in Bytes /\ Len(end) = 1 /\ end[1] = PacketTerminator
  BY Widths DEF Bytes, PacketTerminator
<1> HIDE DEF flat, mark, end
<1> DEFINE front == mark \o flat
<1>9. /\ front \in Bytes /\ Len(front) = 2 + Len(flat) /\ Len(flat) \in Nat
      /\ \A i \in 1 .. Len(flat) : front[i + 2] = flat[i]
  <2>1. front \in Bytes /\ Len(front) = 2 + Len(flat) /\ Len(flat) \in Nat
    BY <1>6, <1>7, Join
  <2>2. ASSUME NEW i \in 1 .. Len(flat) PROVE front[i + 2] = flat[i]
    <3>1. /\ i + 2 \in 1 .. Len(mark) + Len(flat) /\ ~(i + 2 <= Len(mark))
          /\ i + 2 - Len(mark) = i
      BY <1>7, <2>1
    <3>2. mark \in Seq(Byte) /\ flat \in Seq(Byte)
      BY <1>6, <1>7 DEF Bytes
    <3>3. front[i + 2] = flat[i + 2 - Len(mark)]
      BY <3>1, <3>2, ConcatProperties
    <3> QED BY <3>1, <3>3
  <2> QED BY <2>1, <2>2
<1>10. b = front \o end
  BY <1>2
<1> HIDE DEF front
<1>11. /\ b \in Bytes /\ Len(b) = Len(front) + 1 /\ b[Len(front) + 1] = end[1]
       /\ \A i \in 1 .. Len(front) : b[i] = front[i]
  <2>1. front \o end \in Bytes /\ Len(front \o end) = Len(front) + Len(end)
    BY <1>8, <1>9, Join
  <2>2. \A i \in 1 .. Len(front) : (front \o end)[i] = front[i]
    BY <1>8, <1>9, PartFront
  <2>3. /\ Len(front) + 1 \in 1 .. Len(front) + Len(end) /\ ~(Len(front) + 1 <= Len(front))
        /\ Len(front) + 1 - Len(front) = 1
    BY <1>8, <1>9
  <2>4. front \in Seq(Byte) /\ end \in Seq(Byte)
    BY <1>8, <1>9 DEF Bytes
  <2>5. (front \o end)[Len(front) + 1] = end[Len(front) + 1 - Len(front)]
    BY <2>3, <2>4, ConcatProperties
  <2> QED BY <1>8, <1>10, <2>1, <2>2, <2>3, <2>5
<1>12. \A i \in 1 .. Len(flat) : b[i + 2] = flat[i]
  <2>1. \A i \in 1 .. Len(flat) : i + 2 \in 1 .. Len(front)
    BY <1>9
  <2> QED BY <1>9, <1>11, <2>1
<1>13. Len(b) = Len(flat) + 3 /\ b[Len(b)] = PacketTerminator
  BY <1>8, <1>9, <1>11
<1> QED BY <1>6, <1>11, <1>12, <1>13

(* A packet that was cut or extended is refused.                           *)
LEMMA DamagedPacket ==
  ASSUME NEW c \in Files(Strings)["FindPacket"], UnmarkedContent(c),
         NEW b, b = EncodeFindPacket(c)
  PROVE  /\ \A n \in 0 .. Len(b) - 1 : ~DecodeFindPacket(SubSeq(b, 1, n)).ok
         /\ \A e \in Byte : ~DecodeFindPacket(Append(b, e)).ok
<1>1. PICK flat \in Bytes :
        /\ Unmarked(flat)
        /\ b \in Bytes /\ Len(b) = Len(flat) + 3 /\ b[Len(b)] = PacketTerminator
        /\ \A i \in 1 .. Len(flat) : b[i + 2] = flat[i]
  BY FindShape
<1>2. Len(flat) \in Nat /\ Len(b) \in Nat
  BY <1>1, Joins
<1>3. \A x : DecodeFindPacket(x).ok =>
        ~(Len(x) <= 3) /\ x[Len(x)] = PacketTerminator /\ x[Len(x) - 1] = 0
  BY Results DEF DecodeFindPacket
<1>4. ASSUME NEW n \in 0 .. Len(b) - 1, DecodeFindPacket(SubSeq(b, 1, n)).ok
      PROVE  FALSE
  <2> DEFINE x == SubSeq(b, 1, n)
             z == Behind(b, n)
  <2>1. Len(x) = n /\ x \in Bytes /\ z \in Bytes /\ x \o z = b
    <3>1. n \in 0 .. Len(b)
      BY <1>2
    <3> QED BY <1>1, <3>1, FrontAndBehind
  <2>2. ~(Len(x) <= 3) /\ x[Len(x)] = PacketTerminator /\ x[Len(x) - 1] = 0
    BY <1>3, <1>4
  <2> HIDE DEF x, z
  <2>3. \A i \in 1 .. n : b[i] = x[i]
    <3>1. \A i \in 1 .. Len(x) : (x \o z)[i] = x[i]
      BY <2>1, PartFront
    <3> QED BY <2>1, <3>1
  <2> DEFINE i == n - 3
  <2>4. /\ n \in 1 .. n /\ n - 1 \in 1 .. n /\ i \in 1 .. Len(flat) - 1
        /\ i \in 1 .. Len(flat) /\ i + 1 \in 1 .. Len(flat)
        /\ i + 2 = n - 1 /\ i + 1 + 2 = n
    BY <1>1, <1>2, <2>1, <2>2
  <2>5. b[n - 1] = 0 /\ b[n] = PacketTerminator
    BY <2>1, <2>2, <2>3, <2>4
  <2>6. flat[i] = 0 /\ flat[i + 1] = PacketTerminator
    <3>1. b[i + 2] = flat[i] /\ b[i + 1 + 2] = flat[i + 1]
      BY <1>1, <2>4
    <3> QED BY <2>4, <2>5, <3>1
  <2> HIDE DEF i
  <2> QED BY <1>1, <2>4, <2>6 DEF Unmarked
<1>5. ASSUME NEW e \in Byte, DecodeFindPacket(Append(b, e)).ok
      PROVE  FALSE
  <2> DEFINE x == Append(b, e)
  <2>1. Len(x) = Len(b) + 1 /\ \A i \in 1 .. Len(b) : x[i] = b[i]
    BY <1>1, Appended DEF Bytes
  <2>2. x[Len(x) - 1] = 0
    BY <1>3, <1>5
  <2> HIDE DEF x
  <2>3. Len(b) \in 1 .. Len(b) /\ Len(x) - 1 = Len(b)
    BY <1>1, <1>2, <2>1
  <2>4. x[Len(b)] = b[Len(b)]
    BY <2>1, <2>3
  <2> QED BY <1>1, <2>2, <2>3, <2>4 DEF PacketTerminator
<1> QED BY <1>4, <1>5

(* A file that was cut or extended is refused when it arrives.             *)
DamageShows ==
  /\ Len(damages) <= MaxDamages
  /\ (\E i \in DOMAIN damages : damages[i] \in {"Cut", "Extended"}) =>
       /\ phase \in {"Written", "Refused"}
       /\ phase = "Written" => ~Decode(kind, bytes).ok

(* Cutting and extending, where there was no damage before.                *)
LEMMA DamageRefused ==
  ASSUME \A c \in Contents["FindPacket"] : UnmarkedContent(c),
         ExchangeInv, damages = <<>>, phase = "Written", NEW x,
         \/ \E n \in 0 .. Len(bytes) - 1 : x = SubSeq(bytes, 1, n)
         \/ \E e \in DamageBytes : x = Append(bytes, e),
         NEW b \in {x, Relabelled(x)}
  PROVE  ~Decode(kind, b).ok
<1>1. kind \in Kinds /\ bytes \in Bytes /\ OnItsWay
  BY DEF ExchangeInv
<1>2. PICK version \in Versions : bytes = Encode(kind, version, content)
  BY <1>1 DEF OnItsWay
<1>3. /\ content \in Contents[kind] /\ content \in Files(Strings)[kind]
      /\ Encodable(kind, content)
  BY <1>1 DEF OnItsWay
<1>4. CASE kind = "FindPacket"
  <2>1. b = x /\ Decode(kind, b) = DecodeFindPacket(b)
    BY <1>4 DEF Relabelled, Decode
  <2>2. bytes = EncodeFindPacket(content)
    BY <1>2, <1>4 DEF Encode
  <2>3. UnmarkedContent(content)
    BY <1>3, <1>4
  <2> QED BY <1>3, <1>4, <2>1, <2>2, <2>3, DamagedPacket, DamageBytesAssumption
<1>5. CASE kind # "FindPacket"
  <2>1. kind \in Plain
    BY <1>1, <1>5 DEF Plain
  <2>2. /\ x \in Bytes
        /\ \E z \in Bytes : z # <<>> /\ (x \o z = bytes \/ x = bytes \o z)
    <3>1. Len(bytes) \in Nat
      BY <1>1, Joins
    <3>2. CASE \E n \in 0 .. Len(bytes) - 1 : x = SubSeq(bytes, 1, n)
      <4>1. PICK n \in 0 .. Len(bytes) - 1 : x = SubSeq(bytes, 1, n)
        BY <3>2
      <4> DEFINE z == Behind(bytes, n)
      <4>2. n \in 0 .. Len(bytes)
        BY <3>1
      <4>3. x \in Bytes /\ z \in Bytes /\ Len(z) = Len(bytes) - n /\ x \o z = bytes
        BY <1>1, <4>1, <4>2, FrontAndBehind
      <4> HIDE DEF z
      <4>4. Len(z) # 0
        BY <3>1, <4>1, <4>3
      <4>5. z # <<>>
        BY <4>4
      <4> QED BY <4>3, <4>5
    <3>3. CASE \E e \in DamageBytes : x = Append(bytes, e)
      <4>1. PICK e \in DamageBytes : x = Append(bytes, e)
        BY <3>3
      <4>2. e \in Byte /\ <<e>> \in Bytes /\ <<e>> # <<>>
        BY DamageBytesAssumption DEF Bytes
      <4>3. x = bytes \o <<e>>
        BY <1>1, <4>1, <4>2, AppendIsConcat DEF Bytes
      <4> QED BY <1>1, <4>2, <4>3, Join
    <3> QED BY <3>2, <3>3
  <2>3. PICK z \in Bytes : z # <<>> /\ (x \o z = bytes \/ x = bytes \o z)
    BY <2>2
  <2>4. \/ b = x
        \/ Len(x) >= HeaderSize /\ b = U32(Len(x)) \o SubSeq(x, 5, Len(x))
    <3>1. Len(x) \in Nat /\ HeaderSize \in Nat
      BY <2>2, Joins DEF HeaderSize
    <3> QED BY <1>5, <3>1 DEF Relabelled
  <2> QED BY <1>2, <1>3, <2>1, <2>2, <2>3, <2>4, DamagedFile
<1> QED BY <1>4, <1>5

(* Whatever is cut off or put behind a file on its way, it is refused:     *)
(* the counts, the lengths and the check for more data behind the last     *)
(* field leave no shorter and no longer file that decode() accepts, not    *)
(* even with the length in the header put right.  With two damages the     *)
(* second one can undo the first; a parameter of a packet that begins with *)
(* the terminator of the packet lets a shorter packet be read.             *)
THEOREM LengthsGuard ==
  ASSUME MaxDamages <= 1, \A c \in Contents["FindPacket"] : UnmarkedContent(c)
  PROVE  Spec => []LengthsAreGuarded
<1>1. Init => DamageShows
  <2>1. 0 <= MaxDamages /\ Len(<<>>) = 0 /\ DOMAIN <<>> = {}
    BY ExchangeBoundsAssumption
  <2> QED BY <2>1 DEF Init, DamageShows
<1>2. ExchangeInv /\ DamageShows /\ [Next]_vars => DamageShows'
  <2> SUFFICES ASSUME ExchangeInv, DamageShows, [Next]_vars PROVE DamageShows'
    OBVIOUS
  <2>1. ASSUME NEW c, Begin(c) PROVE DamageShows'
    <3>1. 0 <= MaxDamages /\ Len(<<>>) = 0 /\ DOMAIN <<>> = {}
      BY ExchangeBoundsAssumption
    <3>2. damages' = <<>>
      BY <2>1 DEF Begin
    <3> QED BY <3>1, <3>2 DEF DamageShows
  <2>2. ASSUME NEW what \in {"Cut", "Extended", "Altered"}, NEW x, Damage(what, x),
               what \in {"Cut", "Extended"} =>
                 \/ \E n \in 0 .. Len(bytes) - 1 : x = SubSeq(bytes, 1, n)
                 \/ \E e \in DamageBytes : x = Append(bytes, e)
        PROVE  DamageShows'
    <3>1. /\ phase = "Written" /\ phase' = "Written" /\ kind' = kind
          /\ Len(damages) < MaxDamages /\ damages' = Append(damages, what)
          /\ bytes' \in {x, Relabelled(x)}
      BY <2>2 DEF Damage
    <3>2. damages \in Seq({"Cut", "Extended", "Altered"})
      BY DEF ExchangeInv
    <3>3. Len(damages) \in Nat /\ MaxDamages \in Nat
      BY <3>2, ExchangeBoundsAssumption, LenProperties
    <3>4. damages = <<>> /\ MaxDamages = 1
      <4>1. Len(damages) = 0 /\ MaxDamages = 1
        BY <3>1, <3>3
      <4> QED BY <3>2, <4>1, EmptySeq
    <3>5. damages' = <<what>> /\ Len(<<what>>) = 1 /\ DOMAIN <<what>> = {1} /\ <<what>>[1] = what
      BY <3>1, <3>4
    <3>6. what \in {"Cut", "Extended"} => ~Decode(kind, bytes').ok
      BY <2>2, <3>1, <3>4, DamageRefused
    <3> QED BY <3>1, <3>4, <3>5, <3>6 DEF DamageShows
  <2>3. CASE Write \/ WriteFails
    BY <2>1, <2>3 DEF Write, WriteFails
  <2>4. CASE Truncate
    BY <2>2, <2>4 DEF Truncate
  <2>5. CASE Extend
    BY <2>2, <2>5 DEF Extend
  <2>6. CASE Alter
    BY <2>2, <2>6 DEF Alter
  <2>7. CASE Read
    BY <2>7 DEF Read, DamageShows
  <2>8. CASE Refuse
    BY <2>8 DEF Refuse, DamageShows
  <2>9. CASE UNCHANGED vars
    BY <2>9 DEF vars, DamageShows
  <2> QED BY <2>3, <2>4, <2>5, <2>6, <2>7, <2>8, <2>9 DEF Next
<1>3. DamageShows => LengthsAreGuarded
  BY DEF DamageShows, LengthsAreGuarded
<1> QED BY <1>1, <1>2, <1>3, ExchangeInvHolds, PTL DEF Spec
=============================================================================
