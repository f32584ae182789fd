----------------------------- MODULE ItemsProofs -----------------------------
(***************************************************************************)
(* What the checks of item definitions let through, for every text and     *)
(* every length of names, what that makes of the registered definitions,   *)
(* for every set of requests, what a reader of CSV finds in the records of *)
(* the items that are let in, and that an answer accounts for every item.  *)
(***************************************************************************)
EXTENDS Items, SequenceTheorems, FiniteSetTheorems, TLAPS

-----------------------------------------------------------------------------
(* Least and greatest numbers.                                             *)

\* A set of naturals that is not empty has a least member.
LEMMA LeastMember ==
  ASSUME NEW S \in SUBSET Nat, S # {}
  PROVE  Min(S) \in S /\ \A y \in S : Min(S) <= y
<1> DEFINE Less == {ss \in Nat \X Nat : ss[1] < ss[2]}
<1>1. IsWellFoundedOn(Less, Nat)
  BY NatLessThanWellFounded, Zenon DEF OpToRel
<1> HIDE DEF Less
<1>2. PICK x \in S : \A y \in S : <<y, x>> \notin Less
  BY <1>1, WFMin
<1>3. ASSUME NEW y \in S
      PROVE  x <= y
  <2>1. <<y, x>> \in Nat \X Nat /\ <<y, x>> \notin Less
    BY <1>2
  <2>2. ~(y < x)
    BY <2>1 DEF Less
  <2> QED BY <2>2
<1> QED BY <1>3 DEF Min

\* One that is bounded has a greatest.
LEMMA GreatestMember ==
  ASSUME NEW n \in Nat, NEW S \in SUBSET (0..n), S # {}
  PROVE  Max(S) \in S /\ \A y \in S : Max(S) >= y
<1> DEFINE Rest == {k \in Nat : n - k \in S}
           m == n - Min(Rest)
<1>1. \A y \in S : n - y \in Rest
  <2> SUFFICES ASSUME NEW y \in S
               PROVE  n - y \in Nat /\ n - (n - y) = y
    OBVIOUS
  <2>1. y \in 0..n
    OBVIOUS
  <2> QED BY <2>1
<1>2. Min(Rest) \in Rest /\ \A k \in Rest : Min(Rest) <= k
  <2>1. Rest \in SUBSET Nat /\ Rest # {}
    BY <1>1
  <2> HIDE DEF Rest
  <2> QED BY <2>1, LeastMember
<1>3. m \in S /\ Min(Rest) \in Nat
  BY <1>2
<1>4. ASSUME NEW y \in S
      PROVE  m >= y
  <2>1. Min(Rest) <= n - y /\ y \in 0..n
    BY <1>1, <1>2
  <2> HIDE DEF Rest
  <2> QED BY <1>3, <2>1
<1> HIDE DEF m
<1>5. \E x \in S : \A y \in S : x >= y
  BY <1>3, <1>4
<1> QED BY <1>5 DEF Max

-----------------------------------------------------------------------------
(* Induction and recursion over the places of a sequence.                  *)

\* A set with 0 in it, and with each number up to n whose predecessor is in it, has
\* all numbers up to n.
LEMMA CountingUp ==
  ASSUME NEW n \in Nat, NEW S, 0 \in S, \A i \in 1..n : i - 1 \in S => i \in S
  PROVE  0..n \subseteq S
<1> DEFINE Missing == {i \in 0..n : i \notin S}
           m == Min(Missing)
<1>1. SUFFICES ASSUME Missing # {}
               PROVE  FALSE
  OBVIOUS
<1>2. m \in Missing /\ \A i \in Missing : m <= i
  <2>1. Missing \in SUBSET Nat
    OBVIOUS
  <2> HIDE DEF Missing
  <2> QED BY <1>1, <2>1, LeastMember
<1>3. m \in 1..n
  BY <1>2
<1>4. m - 1 \in 0..n /\ ~(m <= m - 1)
  BY <1>3
<1>5. m - 1 \in S
  BY <1>2, <1>4
<1> QED BY <1>2, <1>3, <1>5

\* So a set of sequences has them all when it has the empty one and, with each one that
\* it has, every one that is longer by an element.
LEMMA ByAppending ==
  ASSUME NEW T, NEW P, <<>> \in P, \A s \in Seq(T), e \in T : s \in P => Append(s, e) \in P
  PROVE  Seq(T) \subseteq P
<1> SUFFICES ASSUME NEW seq \in Seq(T)
             PROVE  seq \in P
  OBVIOUS
<1> DEFINE Lengths == {n \in Nat : \A s \in Seq(T) : Len(s) = n => s \in P}
<1>1. Len(seq) \in Nat
  BY LenProperties
<1>2. 0 \in Lengths
  <2> SUFFICES ASSUME NEW s \in Seq(T), Len(s) = 0
               PROVE  s = <<>>
    OBVIOUS
  <2> QED BY EmptySeq
<1>3. ASSUME NEW n \in 1..Len(seq), n - 1 \in Lengths
      PROVE  n \in Lengths
  <2> SUFFICES ASSUME NEW s \in Seq(T), Len(s) = n
               PROVE  s \in P
    BY <1>1
  <2>1. s # <<>>
    BY EmptySeq
  <2>2. PICK front \in Seq(T), e \in T : s = Append(front, e)
    BY <2>1, SequenceEmptyOrAppend
  <2>3. Len(s) = Len(front) + 1 /\ Len(front) \in Nat
    BY <2>2, AppendProperties, LenProperties
  <2>4. Len(front) = n - 1
    BY <2>3
  <2> QED BY <1>3, <2>2, <2>4
<1> HIDE DEF Lengths
<1>4. 0..Len(seq) \subseteq Lengths
  BY <1>1, <1>2, <1>3, CountingUp
<1>5. Len(seq) \in Lengths
  BY <1>1, <1>4
<1> QED BY <1>5 DEF Lengths

\* f holds the values that start with b, of which step makes each from the one before.
Follows(f, n, T, b, step) == f \in [0..n -> T] /\ f[0] = b /\ \A i \in 1..n : f[i] = step[i][f[i - 1]]

\* There always are such values.
LEMMA Recursion ==
  ASSUME NEW n \in Nat, NEW T, NEW b \in T, NEW step \in [1..n -> [T -> T]]
  PROVE  \E f : Follows(f, n, T, b, step)
<1> DEFINE Done == {m \in 0..n : \E f \in [0..m -> T] : f[0] = b /\ \A i \in 1..m : f[i] = step[i][f[i - 1]]}
<1>1. 0 \in Done
  <2> DEFINE f == [k \in 0..0 |-> b]
  <2>1. f \in [0..0 -> T] /\ f[0] = b
    OBVIOUS
  <2>2. \A i \in 1..0 : FALSE
    OBVIOUS
  <2> HIDE DEF f
  <2> QED BY <2>1, <2>2
<1>2. ASSUME NEW m \in 1..n, m - 1 \in Done
      PROVE  m \in Done
  <2>1. PICK g \in [0..(m - 1) -> T] : g[0] = b /\ \A i \in 1..(m - 1) : g[i] = step[i][g[i - 1]]
    BY <1>2
  <2> DEFINE f == [k \in 0..m |-> IF k = m THEN step[m][g[m - 1]] ELSE g[k]]
  <2>2. \A k \in 0..m : k = m \/ k \in 0..(m - 1)
    OBVIOUS
  <2>3. g[m - 1] \in T /\ step[m] \in [T -> T]
    OBVIOUS
  <2>4. f \in [0..m -> T]
    BY <2>2, <2>3
  <2>5. f[0] = b
    BY <2>1
  <2>6. ASSUME NEW i \in 1..m
        PROVE  f[i] = step[i][f[i - 1]]
    <3>1. i - 1 \in 0..m /\ i - 1 # m /\ f[i - 1] = g[i - 1]
      OBVIOUS
    <3>2. CASE i = m
      BY <3>1, <3>2
    <3>3. CASE i # m
      <4>1. i \in 1..(m - 1) /\ i \in 0..m
        BY <3>3
      <4>2. f[i] = g[i]
        BY <3>3, <4>1
      <4> QED BY <2>1, <3>1, <4>1, <4>2
    <3> QED BY <3>2, <3>3
  <2> HIDE DEF f
  <2>7. m \in 0..n
    OBVIOUS
  <2> QED BY <2>4, <2>5, <2>6, <2>7
<1> HIDE DEF Done
<1>3. n \in Done
  <2>1. 0..n \subseteq Done
    BY <1>1, <1>2, CountingUp
  <2> QED BY <2>1
<1> QED BY <1>3 DEF Done, Follows

\* Sequences put together, one after the other.
LEMMA FlattenSteps ==
  ASSUME NEW T, NEW seqs \in Seq(Seq(T))
  PROVE  \E g \in [0..Len(seqs) -> Seq(T)] :
           /\ g[0] = <<>> /\ \A i \in 1..Len(seqs) : g[i] = g[i - 1] \o seqs[i]
           /\ FlattenSeq(seqs) = g[Len(seqs)]
<1> DEFINE n == Len(seqs)
           Texts == Seq(T)
           step == [i \in 1..n |-> [x \in Texts |-> x \o seqs[i]]]
           Flat(f) == f = [i \in 1..n |-> IF i = 1 THEN seqs[i] ELSE f[i - 1] \o seqs[i]]
<1>1. n \in Nat /\ <<>> \in Texts /\ \A i \in 1..n : seqs[i] \in Texts
  BY LenProperties, EmptySeq, ElementOfSeq
<1>2. \A x, y \in Texts : x \o y \in Texts
  BY ConcatProperties
<1>3. step \in [1..n -> [Texts -> Texts]]
  <2>1. \A i \in 1..n : [x \in Texts |-> x \o seqs[i]] \in [Texts -> Texts]
    BY <1>1, <1>2
  <2> HIDE DEF n, Texts
  <2> QED BY <2>1
<1>4. \A g : \A i \in 1..n : g \in [0..n -> Texts] => step[i][g[i - 1]] = g[i - 1] \o seqs[i]
  <2>1. \A i \in 1..n : i - 1 \in 0..n
    BY <1>1
  <2> HIDE DEF n, Texts
  <2> QED BY <2>1
<1> HIDE DEF n, Texts, step
<1>5. PICK g \in [0..n -> Texts] : g[0] = <<>> /\ \A i \in 1..n : g[i] = step[i][g[i - 1]]
  <2>1. \E g : Follows(g, n, Texts, <<>>, step)
    BY <1>1, <1>3, Recursion
  <2> QED BY <2>1 DEF Follows
<1>6. \A i \in 1..n : g[i] = g[i - 1] \o seqs[i]
  BY <1>4, <1>5
<1>7. CASE n = 0
  <2>1. seqs = <<>>
    BY <1>7, EmptySeq DEF n
  <2>2. FlattenSeq(seqs) = seqs
    BY <1>7 DEF FlattenSeq, n
  <2> QED BY <1>5, <1>6, <1>7, <2>1, <2>2 DEF n, Texts
<1>8. CASE n # 0
  <2> DEFINE h == [i \in 1..n |-> g[i]]
  <2>1. Flat(h)
    <3>1. 1 \in 1..n /\ \A i \in 1..n : i # 1 => i - 1 \in 1..n
      BY <1>1, <1>8
    <3>2. g[1] = seqs[1]
      <4>1. g[1] = g[1 - 1] \o seqs[1]
        BY <1>6, <3>1
      <4>2. 1 - 1 = 0 /\ g[0] = <<>>
        BY <1>5
      <4>3. seqs[1] \in Texts
        BY <1>1, <3>1
      <4> QED BY <4>1, <4>2, <4>3, ConcatEmptySeq DEF Texts
    <3>3. \A i \in 1..n : g[i] = IF i = 1 THEN seqs[i] ELSE h[i - 1] \o seqs[i]
      BY <1>6, <3>1, <3>2
    <3> QED BY <3>3
  <2> DEFINE f == CHOOSE f : Flat(f)
  <2>2. Flat(f)
    BY <2>1
  <2>3. FlattenSeq(seqs) = f[n]
    BY <1>8 DEF FlattenSeq, n
  <2> HIDE DEF f
  <2>4. \A i \in 1..n : f[i] = IF i = 1 THEN seqs[i] ELSE f[i - 1] \o seqs[i]
    BY <2>2
  <2> HIDE DEF Flat
  <2> DEFINE Same == {i \in 0..n : i = 0 \/ f[i] = g[i]}
  <2>5. 0 \in Same
    BY <1>1
  <2>6. ASSUME NEW i \in 1..n, i - 1 \in Same
        PROVE  i \in Same
    <3>1. i \in 0..n
      BY <1>1
    <3>2. CASE i = 1
      <4>1. h[1] = seqs[1]
        BY <2>1, <3>2 DEF Flat
      <4> QED BY <2>4, <3>1, <3>2, <4>1
    <3>3. CASE i # 1
      <4>1. i - 1 # 0
        BY <3>3
      <4>2. f[i - 1] = g[i - 1]
        BY <2>6, <4>1
      <4> QED BY <1>6, <2>4, <3>1, <3>3, <4>2
    <3> QED BY <3>2, <3>3
  <2> HIDE DEF Same
  <2>7. 0..n \subseteq Same
    BY <1>1, <2>5, <2>6, CountingUp
  <2>8. n \in Same
    BY <1>1, <2>7
  <2>9. f[n] = g[n]
    BY <1>8, <2>8 DEF Same
  <2> QED BY <1>5, <1>6, <2>3, <2>9 DEF n, Texts
<1> QED BY <1>7, <1>8

\* One sequence more is put at the end.
LEMMA FlattenAppend ==
  ASSUME NEW T, NEW seqs \in Seq(Seq(T)), NEW s \in Seq(T)
  PROVE  /\ FlattenSeq(<<>>) = <<>>
         /\ FlattenSeq(seqs) \in Seq(T)
         /\ FlattenSeq(Append(seqs, s)) = FlattenSeq(seqs) \o s
<1> DEFINE n == Len(seqs)
           longer == Append(seqs, s)
<1>1. n \in Nat
  BY LenProperties
<1>2. /\ longer \in Seq(Seq(T)) /\ Len(longer) = n + 1
      /\ \A i \in 1..n : longer[i] = seqs[i]
      /\ longer[n + 1] = s
  BY AppendProperties
<1>3. PICK g \in [0..Len(seqs) -> Seq(T)] :
        /\ g[0] = <<>> /\ \A i \in 1..Len(seqs) : g[i] = g[i - 1] \o seqs[i]
        /\ FlattenSeq(seqs) = g[Len(seqs)]
  BY FlattenSteps
<1>4. PICK h \in [0..Len(longer) -> Seq(T)] :
        /\ h[0] = <<>> /\ \A i \in 1..Len(longer) : h[i] = h[i - 1] \o longer[i]
        /\ FlattenSeq(longer) = h[Len(longer)]
  BY <1>2, FlattenSteps
<1>5. FlattenSeq(<<>>) = <<>>
  BY EmptySeq DEF FlattenSeq
<1> DEFINE Same == {i \in 0..n : h[i] = g[i]}
<1>6. 0 \in Same
  BY <1>1, <1>3, <1>4
<1> HIDE DEF longer
<1>7. ASSUME NEW i \in 1..n, i - 1 \in Same
      PROVE  i \in Same
  <2>1. i \in 0..n /\ i \in 1..Len(longer)
    <3> HIDE DEF n
    <3> QED BY <1>1, <1>2
  <2>2. h[i] = h[i - 1] \o longer[i] /\ g[i] = g[i - 1] \o seqs[i]
    BY <1>3, <1>4, <2>1
  <2>3. h[i - 1] = g[i - 1]
    BY <1>7
  <2> QED BY <1>2, <2>1, <2>2, <2>3
<1> HIDE DEF Same
<1>8. 0..n \subseteq Same
  <2> HIDE DEF n
  <2> QED BY <1>1, <1>6, <1>7, CountingUp
<1>9. h[n] = g[n] /\ g[n] \in Seq(T)
  <2>1. n \in 0..n
    <3> HIDE DEF n
    <3> QED BY <1>1
  <2>2. n \in Same
    BY <1>8, <2>1
  <2> QED BY <1>3, <2>1, <2>2 DEF Same
<1>10. n + 1 \in 1..(n + 1) /\ (n + 1) - 1 = n
  <2> HIDE DEF n
  <2> QED BY <1>1
<1>11. h[n + 1] = h[n] \o s
  BY <1>2, <1>4, <1>10
<1> QED BY <1>2, <1>3, <1>4, <1>5, <1>9, <1>11 DEF longer

-----------------------------------------------------------------------------
(* The reader of CSV.                                                      *)

Readings(T) == [fields : Seq(Seq(T)), field : Seq(T), mode : {"start", "plain", "quoted", "closing", "broken"}]

\* A step of the reader.
LEMMA ReadCharType ==
  ASSUME NEW T, NEW r \in Readings(T), NEW c \in T
  PROVE  ReadChar(r, c) \in Readings(T)
<1> DEFINE Texts == Seq(T)
<1>1. r.fields \in Seq(Texts) /\ r.field \in Texts
  BY DEF Readings
<1>2. Append(r.field, c) \in Texts /\ <<>> \in Texts
  BY <1>1, AppendProperties, EmptySeq
<1>3. Append(r.fields, r.field) \in Seq(Texts)
  BY <1>1, AppendProperties
<1> HIDE DEF Texts
<1> DEFINE All == [fields : Seq(Texts), field : Texts, mode : {"start", "plain", "quoted", "closing", "broken"}]
<1>4. r \in All
  BY DEF Readings, Texts
<1>5. [r EXCEPT !.field = Append(@, c)] \in All
  BY <1>2, <1>4
<1>6. /\ [r EXCEPT !.mode = "closing"] \in All
      /\ [r EXCEPT !.mode = "quoted"] \in All
      /\ [r EXCEPT !.mode = "broken"] \in All
  BY <1>4
<1>7. /\ [r EXCEPT !.mode = "quoted", !.field = Append(@, c)] \in All
      /\ [r EXCEPT !.mode = "plain", !.field = Append(@, c)] \in All
  BY <1>2, <1>4
<1>8. Reading(Append(r.fields, r.field), <<>>, "start") \in All
  BY <1>2, <1>3 DEF Reading
<1> HIDE DEF All
<1>9. ReadChar(r, c) \in All
  BY <1>5, <1>6, <1>7, <1>8 DEF ReadChar
<1> QED BY <1>9 DEF All, Readings, Texts

\* The reader's way through a text.
LEMMA ReadSteps ==
  ASSUME NEW T, NEW start \in Readings(T), NEW t \in Seq(T)
  PROVE  \E g \in [0..Len(t) -> Readings(T)] :
           /\ g[0] = start /\ \A i \in 1..Len(t) : g[i] = ReadChar(g[i - 1], t[i])
           /\ ReadFrom(start, t) = g[Len(t)]
<1> DEFINE n == Len(t)
           All == Readings(T)
           step == [i \in 1..n |-> [r \in All |-> ReadChar(r, t[i])]]
           Goes(f) == f = [i \in 0..n |-> IF i = 0 THEN start ELSE ReadChar(f[i - 1], t[i])]
<1>1. n \in Nat /\ \A i \in 1..n : t[i] \in T
  BY LenProperties, ElementOfSeq
<1>2. \A i \in 1..n : \A r \in All : ReadChar(r, t[i]) \in All
  BY <1>1, ReadCharType
<1>3. step \in [1..n -> [All -> All]] /\ start \in All
  <2> HIDE DEF n, All
  <2>1. \A i \in 1..n : [r \in All |-> ReadChar(r, t[i])] \in [All -> All]
    BY <1>2
  <2> QED BY <2>1 DEF All
<1>4. ASSUME NEW g \in [0..n -> All], NEW i \in 1..n
      PROVE  step[i][g[i - 1]] = ReadChar(g[i - 1], t[i])
  <2> HIDE DEF n, All
  <2>1. i - 1 \in 0..n
    BY <1>1
  <2> QED BY <2>1
<1> HIDE DEF n, All, step
<1>5. PICK g : Follows(g, n, All, start, step)
  BY <1>1, <1>3, Recursion
<1>6. /\ g \in [0..n -> All] /\ g[0] = start
      /\ \A i \in 1..n : g[i] = ReadChar(g[i - 1], t[i])
  BY <1>4, <1>5 DEF Follows
<1>7. Goes(g)
  <2>1. \A i \in 0..n : i # 0 => i \in 1..n
    BY <1>1
  <2>2. g = [i \in 0..n |-> g[i]]
    BY <1>6
  <2>3. \A i \in 0..n : g[i] = IF i = 0 THEN start ELSE ReadChar(g[i - 1], t[i])
    BY <1>6, <2>1
  <2> QED BY <2>2, <2>3
<1> DEFINE f == CHOOSE f : Goes(f)
<1>8. Goes(f)
  BY <1>7
<1>9. ReadFrom(start, t) = f[n]
  BY DEF ReadFrom, n
<1> HIDE DEF f
<1>10. f[0] = start /\ \A i \in 1..n : f[i] = ReadChar(f[i - 1], t[i])
  <2>1. 0 \in 0..n /\ \A i \in 1..n : i \in 0..n /\ i # 0
    BY <1>1
  <2> QED BY <1>8, <2>1
<1> DEFINE Same == {i \in 0..n : f[i] = g[i]}
<1>11. 0 \in Same
  BY <1>1, <1>6, <1>10
<1>12. ASSUME NEW i \in 1..n, i - 1 \in Same
       PROVE  i \in Same
  <2>1. i \in 0..n
    BY <1>1
  <2>2. f[i - 1] = g[i - 1]
    BY <1>12
  <2> QED BY <1>6, <1>10, <2>1, <2>2
<1> HIDE DEF Same, Goes
<1>13. 0..n \subseteq Same
  BY <1>1, <1>11, <1>12, CountingUp
<1>14. n \in Same
  BY <1>1, <1>13
<1>15. f[n] = g[n]
  BY <1>14 DEF Same
<1> QED BY <1>6, <1>9, <1>15 DEF n, All

\* Where it gets.
LEMMA ReadType ==
  ASSUME NEW T, NEW start \in Readings(T), NEW t \in Seq(T)
  PROVE  ReadFrom(start, t) \in Readings(T) /\ ReadFrom(start, <<>>) = start
<1>1. PICK g \in [0..Len(t) -> Readings(T)] :
        /\ g[0] = start /\ \A i \in 1..Len(t) : g[i] = ReadChar(g[i - 1], t[i])
        /\ ReadFrom(start, t) = g[Len(t)]
  BY ReadSteps
<1>2. Len(t) \in 0..Len(t)
  <2> DEFINE n == Len(t)
  <2>1. n \in Nat
    BY LenProperties
  <2> HIDE DEF n
  <2>2. n \in 0..n
    BY <2>1
  <2> QED BY <2>2 DEF n
<1> DEFINE e == <<>>
<1>3. e \in Seq(T) /\ Len(e) = 0
  BY EmptySeq
<1> HIDE DEF e
<1>4. PICK h \in [0..Len(e) -> Readings(T)] :
        /\ h[0] = start /\ \A i \in 1..Len(e) : h[i] = ReadChar(h[i - 1], e[i])
        /\ ReadFrom(start, e) = h[Len(e)]
  BY <1>3, ReadSteps
<1>5. ReadFrom(start, e) = start
  BY <1>3, <1>4
<1> QED BY <1>1, <1>2, <1>5 DEF e

\* One character more.
LEMMA ReadAppend ==
  ASSUME NEW T, NEW start \in Readings(T), NEW t \in Seq(T), NEW c \in T
  PROVE  ReadFrom(start, Append(t, c)) = ReadChar(ReadFrom(start, t), c)
<1> DEFINE n == Len(t)
           longer == Append(t, c)
<1>1. n \in Nat
  BY LenProperties
<1>2. /\ longer \in Seq(T) /\ Len(longer) = n + 1
      /\ \A i \in 1..n : longer[i] = t[i]
      /\ longer[n + 1] = c
  BY AppendProperties
<1>3. PICK g \in [0..Len(t) -> Readings(T)] :
        /\ g[0] = start /\ \A i \in 1..Len(t) : g[i] = ReadChar(g[i - 1], t[i])
        /\ ReadFrom(start, t) = g[Len(t)]
  BY ReadSteps
<1>4. PICK h \in [0..Len(longer) -> Readings(T)] :
        /\ h[0] = start /\ \A i \in 1..Len(longer) : h[i] = ReadChar(h[i - 1], longer[i])
        /\ ReadFrom(start, longer) = h[Len(longer)]
  BY <1>2, ReadSteps
<1> DEFINE Same == {i \in 0..n : h[i] = g[i]}
<1>6. 0 \in Same
  BY <1>1, <1>3, <1>4
<1> HIDE DEF longer
<1>7. ASSUME NEW i \in 1..n, i - 1 \in Same
      PROVE  i \in Same
  <2>1. i \in 0..n /\ i \in 1..Len(longer)
    <3> HIDE DEF n
    <3> QED BY <1>1, <1>2
  <2>2. h[i] = ReadChar(h[i - 1], longer[i]) /\ g[i] = ReadChar(g[i - 1], t[i])
    BY <1>3, <1>4, <2>1
  <2>3. h[i - 1] = g[i - 1]
    BY <1>7
  <2> QED BY <1>2, <2>1, <2>2, <2>3
<1> HIDE DEF Same
<1>8. 0..n \subseteq Same
  <2> HIDE DEF n
  <2> QED BY <1>1, <1>6, <1>7, CountingUp
<1>9. h[n] = g[n] /\ g[n] \in Readings(T)
  <2>1. n \in 0..n
    <3> HIDE DEF n
    <3> QED BY <1>1
  <2>2. n \in Same
    BY <1>8, <2>1
  <2> QED BY <1>3, <2>1, <2>2 DEF Same
<1>10. n + 1 \in 1..(n + 1) /\ (n + 1) - 1 = n
  <2> HIDE DEF n
  <2> QED BY <1>1
<1>11. h[n + 1] = ReadChar(h[n], c)
  BY <1>2, <1>4, <1>10
<1> QED BY <1>2, <1>3, <1>4, <1>9, <1>11 DEF longer

\* The reader reads the second text on from where it is after the first.
LEMMA ReadConcat ==
  ASSUME NEW T, NEW start \in Readings(T), NEW s \in Seq(T), NEW t \in Seq(T)
  PROVE  ReadFrom(start, s \o t) = ReadFrom(ReadFrom(start, s), t)
<1> DEFINE there == ReadFrom(start, s)
           On == {u \in Seq(T) : ReadFrom(start, s \o u) = ReadFrom(there, u)}
<1>1. there \in Readings(T)
  BY ReadType
<1>2. <<>> \in On
  <2>1. s \o <<>> = s /\ <<>> \in Seq(T)
    BY ConcatEmptySeq, EmptySeq
  <2>2. ReadFrom(there, <<>>) = there
    BY <1>1, ReadType
  <2> QED BY <2>1, <2>2
<1> HIDE DEF there
<1>3. ASSUME NEW u \in Seq(T), NEW c \in T, u \in On
      PROVE  Append(u, c) \in On
  <2>1. /\ Append(u, c) \in Seq(T) /\ s \o u \in Seq(T) /\ <<c>> \in Seq(T)
        /\ Append(u, c) = u \o <<c>> /\ Append(s \o u, c) = (s \o u) \o <<c>>
    BY AppendProperties, ConcatProperties, AppendIsConcat
  <2>2. s \o Append(u, c) = Append(s \o u, c)
    BY <2>1, ConcatAssociative
  <2>3. ReadFrom(start, Append(s \o u, c)) = ReadChar(ReadFrom(start, s \o u), c)
    <3> DEFINE su == s \o u
    <3>1. su \in Seq(T)
      BY <2>1
    <3> HIDE DEF su
    <3>2. ReadFrom(start, Append(su, c)) = ReadChar(ReadFrom(start, su), c)
      BY <3>1, ReadAppend
    <3> QED BY <3>2 DEF su
  <2>4. ReadFrom(there, Append(u, c)) = ReadChar(ReadFrom(there, u), c)
    BY <1>1, ReadAppend
  <2>5. ReadFrom(start, s \o u) = ReadFrom(there, u)
    BY <1>3
  <2> QED BY <2>1, <2>2, <2>3, <2>4, <2>5
<1> HIDE DEF On
<1>4. Seq(T) \subseteq On
  BY <1>2, <1>3, ByAppending
<1> QED BY <1>4 DEF On, there

-----------------------------------------------------------------------------
(* What the operators on sequences do with one element more.               *)

Mapped(s, m) == [i \in DOMAIN s |-> m[s[i]]]
IsMap(m, T, U) == m \in [T -> U]

\* The images of the elements.
LEMMA MappedProperties ==
  ASSUME NEW T, NEW U, NEW m, IsMap(m, T, U), NEW s \in Seq(T)
  PROVE  /\ Mapped(s, m) \in Seq(U) /\ Len(Mapped(s, m)) = Len(s)
         /\ \A i \in 1..Len(s) : Mapped(s, m)[i] = m[s[i]]
<1> DEFINE n == Len(s)
<1>1. n \in Nat /\ DOMAIN s = 1..n /\ \A i \in 1..n : s[i] \in T
  BY LenProperties, ElementOfSeq
<1> HIDE DEF n
<1>2. Mapped(s, m) \in [1..n -> U] /\ \A i \in 1..n : Mapped(s, m)[i] = m[s[i]]
  BY <1>1 DEF Mapped, IsMap
<1>3. Mapped(s, m) \in Seq(U) /\ Len(Mapped(s, m)) = n
  BY <1>1, <1>2
<1> QED BY <1>2, <1>3 DEF n

\* The image of one element more.
LEMMA MappedAppend ==
  ASSUME NEW T, NEW U, NEW m, IsMap(m, T, U), NEW s \in Seq(T), NEW e \in T
  PROVE  /\ Mapped(<<>>, m) = <<>> /\ m[e] \in U
         /\ Mapped(Append(s, e), m) = Append(Mapped(s, m), m[e])
<1> DEFINE of == Mapped(s, m)
           se == Append(s, e)
           longer == Mapped(se, m)
           n == Len(s)
<1>1. Mapped(<<>>, m) = <<>>
  BY DEF Mapped
<1>2. m[e] \in U
  BY DEF IsMap
<1>3. n \in Nat /\ se \in Seq(T) /\ Len(se) = n + 1
  BY LenProperties, AppendProperties
<1>4. (\A i \in 1..n : se[i] = s[i]) /\ se[n + 1] = e
  BY AppendProperties
<1>5. of \in Seq(U) /\ Len(of) = n /\ \A i \in 1..n : of[i] = m[s[i]]
  BY MappedProperties
<1> HIDE DEF se, n
<1>6. longer \in Seq(U) /\ Len(longer) = n + 1 /\ \A i \in 1..(n + 1) : longer[i] = m[se[i]]
  <2>1. longer \in Seq(U) /\ Len(longer) = Len(se) /\ \A i \in 1..Len(se) : longer[i] = m[se[i]]
    BY <1>3, MappedProperties
  <2> QED BY <1>3, <2>1
<1> DEFINE both == Append(of, m[e])
<1> HIDE DEF of, longer
<1>7. /\ both \in Seq(U) /\ Len(both) = n + 1
      /\ \A i \in 1..n : both[i] = of[i]
      /\ both[n + 1] = m[e]
  BY <1>2, <1>5, AppendProperties
<1> HIDE DEF both
<1>8. ASSUME NEW i \in 1..(n + 1)
      PROVE  longer[i] = both[i]
  <2>1. CASE i \in 1..n
    <3>1. longer[i] = m[s[i]]
      BY <1>4, <1>6, <2>1
    <3> QED BY <1>5, <1>7, <2>1, <3>1
  <2>2. CASE i = n + 1
    BY <1>4, <1>6, <1>7, <2>2
  <2> QED BY <1>3, <2>1, <2>2
<1>9. longer = both
  BY <1>6, <1>7, <1>8, SeqEqual
<1> QED BY <1>1, <1>2, <1>9 DEF of, se, longer, both

\* The pieces that the elements become, put together.
LEMMA FlattenMapped ==
  ASSUME NEW T, NEW U, NEW m, IsMap(m, T, Seq(U)), NEW s \in Seq(T), NEW e \in T
  PROVE  /\ FlattenSeq(Mapped(<<>>, m)) = <<>>
         /\ FlattenSeq(Mapped(s, m)) \in Seq(U)
         /\ FlattenSeq(Mapped(Append(s, e), m)) = FlattenSeq(Mapped(s, m)) \o m[e]
<1> DEFINE Texts == Seq(U)
           of == Mapped(s, m)
<1>1. IsMap(m, T, Texts)
  OBVIOUS
<1> HIDE DEF Texts
<1>2. Mapped(<<>>, m) = <<>> /\ m[e] \in Texts /\ Mapped(Append(s, e), m) = Append(of, m[e])
  BY <1>1, MappedAppend
<1>3. of \in Seq(Seq(U)) /\ m[e] \in Seq(U)
  <2>1. of \in Seq(Texts)
    BY <1>1, MappedProperties
  <2> QED BY <1>2, <2>1 DEF Texts
<1> HIDE DEF of
<1>4. FlattenSeq(<<>>) = <<>> /\ FlattenSeq(of) \in Seq(U) /\ FlattenSeq(Append(of, m[e])) = FlattenSeq(of) \o m[e]
  BY <1>3, FlattenAppend
<1> QED BY <1>2, <1>4 DEF of

\* Keep goes on with an element of the set, and leaves any other out.
LEMMA KeepAppend ==
  ASSUME NEW T, NEW S, NEW s \in Seq(T), NEW e \in T
  PROVE  /\ Keep(<<>>, S) = <<>>
         /\ Keep(s, S) \in Seq(T)
         /\ Keep(Append(s, e), S) = IF e \in S THEN Append(Keep(s, S), e) ELSE Keep(s, S)
<1> DEFINE m == [x \in T |-> IF x \in S THEN <<x>> ELSE <<>>]
<1>1. IsMap(m, T, Seq(T))
  <2>1. \A x \in T : <<x>> \in Seq(T) /\ <<>> \in Seq(T)
    BY EmptySeq
  <2> QED BY <2>1 DEF IsMap
<1>2. ASSUME NEW u \in Seq(T)
      PROVE  Keep(u, S) = FlattenSeq(Mapped(u, m))
  <2>1. \A i \in DOMAIN u : u[i] \in T
    BY LenProperties, ElementOfSeq
  <2>2. Mapped(u, m) = [i \in DOMAIN u |-> IF u[i] \in S THEN <<u[i]>> ELSE <<>>]
    BY <2>1 DEF Mapped
  <2> QED BY <2>2 DEF Keep
<1>3. Append(s, e) \in Seq(T) /\ <<>> \in Seq(T)
  BY AppendProperties, EmptySeq
<1>4. m[e] = IF e \in S THEN <<e>> ELSE <<>>
  OBVIOUS
<1> HIDE DEF m
<1>5. /\ FlattenSeq(Mapped(<<>>, m)) = <<>>
      /\ FlattenSeq(Mapped(s, m)) \in Seq(T)
      /\ FlattenSeq(Mapped(Append(s, e), m)) = FlattenSeq(Mapped(s, m)) \o m[e]
  BY <1>1, FlattenMapped
<1>6. /\ Keep(<<>>, S) = <<>> /\ Keep(s, S) \in Seq(T)
      /\ Keep(Append(s, e), S) = Keep(s, S) \o m[e]
  BY <1>2, <1>3, <1>5
<1>7. Keep(s, S) \o <<>> = Keep(s, S) /\ Keep(s, S) \o <<e>> = Append(Keep(s, S), e)
  BY <1>6, ConcatEmptySeq, AppendIsConcat
<1> QED BY <1>4, <1>6, <1>7

\* Escaped, but for the quotes around the text.
Doubled(t) == FlattenSeq([i \in DOMAIN t |-> IF t[i] = Quote THEN <<Quote, Quote>> ELSE <<t[i]>>])

\* Each quote becomes two.
LEMMA DoubledAppend ==
  ASSUME NEW T, Quote \in T, NEW t \in Seq(T), NEW c \in T
  PROVE  /\ Doubled(<<>>) = <<>>
         /\ Doubled(t) \in Seq(T)
         /\ Doubled(Append(t, c)) = Doubled(t) \o (IF c = Quote THEN <<Quote, Quote>> ELSE <<c>>)
<1> DEFINE m == [x \in T |-> IF x = Quote THEN <<Quote, Quote>> ELSE <<x>>]
<1>1. IsMap(m, T, Seq(T))
  <2>1. <<Quote, Quote>> \in Seq(T) /\ \A x \in T : <<x>> \in Seq(T)
    OBVIOUS
  <2> QED BY <2>1 DEF IsMap
<1>2. ASSUME NEW u \in Seq(T)
      PROVE  Doubled(u) = FlattenSeq(Mapped(u, m))
  <2>1. \A i \in DOMAIN u : u[i] \in T
    BY LenProperties, ElementOfSeq
  <2>2. Mapped(u, m) = [i \in DOMAIN u |-> IF u[i] = Quote THEN <<Quote, Quote>> ELSE <<u[i]>>]
    BY <2>1 DEF Mapped
  <2> QED BY <2>2 DEF Doubled
<1>3. Append(t, c) \in Seq(T) /\ <<>> \in Seq(T)
  BY AppendProperties, EmptySeq
<1>4. m[c] = IF c = Quote THEN <<Quote, Quote>> ELSE <<c>>
  OBVIOUS
<1> HIDE DEF m
<1>5. /\ FlattenSeq(Mapped(<<>>, m)) = <<>>
      /\ FlattenSeq(Mapped(t, m)) \in Seq(T)
      /\ FlattenSeq(Mapped(Append(t, c), m)) = FlattenSeq(Mapped(t, m)) \o m[c]
  BY <1>1, FlattenMapped
<1> QED BY <1>2, <1>3, <1>4, <1>5

\* A field behind a comma.
Commas(T) == [x \in Seq(T) |-> <<Comma>> \o x]

\* The line is its first field and the others, each behind a comma.
LEMMA JoinMapped ==
  ASSUME NEW T, Comma \in T, NEW first, NEW rest \in Seq(Seq(T))
  PROVE  Join(first, rest) = first \o FlattenSeq(Mapped(rest, Commas(T)))
<1> DEFINE Texts == Seq(T)
<1>1. \A i \in DOMAIN rest : rest[i] \in Texts
  BY LenProperties, ElementOfSeq
<1>2. Mapped(rest, Commas(T)) = [i \in DOMAIN rest |-> <<Comma>> \o rest[i]]
  BY <1>1 DEF Mapped, Commas
<1> QED BY <1>2 DEF Join

\* What Commas makes of a field.
LEMMA CommasType ==
  ASSUME NEW T, Comma \in T
  PROVE  IsMap(Commas(T), Seq(T), Seq(T)) /\ \A x \in Seq(T) : Commas(T)[x] = <<Comma>> \o x
<1>1. <<Comma>> \in Seq(T)
  OBVIOUS
<1>2. \A x \in Seq(T) : <<Comma>> \o x \in Seq(T)
  BY <1>1, ConcatProperties
<1> QED BY <1>2 DEF IsMap, Commas

\* Join is a text.
LEMMA JoinType ==
  ASSUME NEW T, Comma \in T, NEW first \in Seq(T), NEW rest \in Seq(Seq(T))
  PROVE  Join(first, <<>>) = first /\ Join(first, rest) \in Seq(T)
<1> DEFINE m == Commas(T)
           Texts == Seq(T)
           e == <<>>
<1>1. IsMap(m, Texts, Seq(T)) /\ e \in Texts /\ e \in Seq(Texts) /\ rest \in Seq(Texts)
  BY CommasType, EmptySeq
<1>2. Join(first, rest) = first \o FlattenSeq(Mapped(rest, m)) /\ Join(first, e) = first \o FlattenSeq(Mapped(e, m))
  BY <1>1, JoinMapped
<1> HIDE DEF m, Texts, e
<1>3. FlattenSeq(Mapped(<<>>, m)) = <<>> /\ FlattenSeq(Mapped(rest, m)) \in Seq(T)
  <2>1. /\ FlattenSeq(Mapped(<<>>, m)) = <<>>
        /\ FlattenSeq(Mapped(rest, m)) \in Seq(T)
        /\ FlattenSeq(Mapped(Append(rest, e), m)) = FlattenSeq(Mapped(rest, m)) \o m[e]
    BY <1>1, FlattenMapped
  <2> QED BY <2>1
<1> DEFINE tail == FlattenSeq(Mapped(rest, m))
<1>4. tail \in Seq(T)
  BY <1>3
<1> HIDE DEF tail
<1>5. first \o <<>> = first /\ first \o tail \in Seq(T)
  BY <1>4, ConcatEmptySeq, ConcatProperties
<1> QED BY <1>2, <1>3, <1>5 DEF tail, e

\* Join puts a comma before each further field.
LEMMA JoinAppend ==
  ASSUME NEW T, Comma \in T, NEW first \in Seq(T), NEW rest \in Seq(Seq(T)), NEW field \in Seq(T)
  PROVE  Join(first, Append(rest, field)) = Join(first, rest) \o Commas(T)[field]
<1> DEFINE m == Commas(T)
           Texts == Seq(T)
           more == Append(rest, field)
           tail == FlattenSeq(Mapped(rest, m))
           piece == m[field]
<1>1. IsMap(m, Texts, Seq(T))
  BY CommasType
<1>2. field \in Texts /\ rest \in Seq(Texts) /\ more \in Seq(Texts)
  BY AppendProperties
<1>3. piece \in Seq(T)
  BY <1>1, <1>2 DEF IsMap
<1>4. Join(first, rest) = first \o tail
  BY JoinMapped
<1>5. Join(first, more) = first \o FlattenSeq(Mapped(more, m))
  <2>1. more \in Seq(Seq(T))
    BY <1>2
  <2> HIDE DEF more
  <2> QED BY <2>1, JoinMapped
<1> HIDE DEF m, Texts
<1>6. tail \in Seq(T) /\ FlattenSeq(Mapped(more, m)) = tail \o piece
  <2>1. /\ FlattenSeq(Mapped(<<>>, m)) = <<>>
        /\ FlattenSeq(Mapped(rest, m)) \in Seq(T)
        /\ FlattenSeq(Mapped(Append(rest, field), m)) = FlattenSeq(Mapped(rest, m)) \o m[field]
    <3>1. field \in Texts /\ rest \in Seq(Texts)
      BY <1>2
    <3> QED BY <1>1, <3>1, FlattenMapped
  <2> QED BY <2>1
<1> HIDE DEF tail, piece
<1>7. first \o (tail \o piece) = (first \o tail) \o piece
  BY <1>3, <1>6, ConcatAssociative
<1>8. Join(first, more) = (first \o tail) \o piece
  BY <1>5, <1>6, <1>7
<1> QED BY <1>4, <1>8 DEF piece, m

-----------------------------------------------------------------------------
(* What the reader makes of a field.                                       *)

\* The reader's steps, by its modes.
LEMMA ReadCharIs ==
  ASSUME NEW fs, NEW x, NEW c
  PROVE  /\ c # Quote => ReadChar(Reading(fs, x, "quoted"), c) = Reading(fs, Append(x, c), "quoted")
         /\ ReadChar(Reading(fs, x, "quoted"), Quote) = Reading(fs, x, "closing")
         /\ ReadChar(Reading(fs, x, "closing"), Quote) = Reading(fs, Append(x, Quote), "quoted")
         /\ ReadChar(Reading(fs, x, "start"), Quote) = Reading(fs, x, "quoted")
         /\ \A mode \in {"start", "plain"} :
              c \notin Special => ReadChar(Reading(fs, x, mode), c) = Reading(fs, Append(x, c), "plain")
         /\ \A mode \in {"start", "plain", "closing"} :
              ReadChar(Reading(fs, x, mode), Comma) = Reading(Append(fs, x), <<>>, "start")
<1>1. Quote \in Special /\ Comma \in Special /\ Comma # Quote
  BY DEF Special, Comma, Quote
<1> QED BY <1>1 DEF ReadChar, Reading

\* Where the reader may be.
LEMMA ReadingType ==
  ASSUME NEW T, NEW fs \in Seq(Seq(T)), NEW x \in Seq(T)
  PROVE  \A mode \in {"start", "plain", "quoted", "closing"} : Reading(fs, x, mode) \in Readings(T)
BY DEF Reading, Readings

\* Inside quotes the doubled quotes are single ones, and every character counts.
LEMMA ReadDoubled ==
  ASSUME NEW T, Quote \in T, NEW fs \in Seq(Seq(T)), NEW t \in Seq(T)
  PROVE  ReadFrom(Reading(fs, <<>>, "quoted"), Doubled(t)) = Reading(fs, t, "quoted")
<1> DEFINE start == Reading(fs, <<>>, "quoted")
           Right == {u \in Seq(T) : ReadFrom(start, Doubled(u)) = Reading(fs, u, "quoted")}
<1>1. start \in Readings(T)
  BY EmptySeq, ReadingType
<1>2. <<>> \in Right
  <2>1. <<>> \in Seq(T) /\ Doubled(<<>>) = <<>>
    BY EmptySeq, DoubledAppend
  <2>2. ReadFrom(start, <<>>) = start
    BY <1>1, <2>1, ReadType
  <2> QED BY <2>1, <2>2
<1> HIDE DEF start
<1>3. ASSUME NEW u \in Seq(T), NEW c \in T, u \in Right
      PROVE  Append(u, c) \in Right
  <2> DEFINE before == Doubled(u)
  <2>1. before \in Seq(T) /\ Append(u, c) \in Seq(T)
    BY DoubledAppend, AppendProperties
  <2>2. ReadFrom(start, before) = Reading(fs, u, "quoted")
    BY <1>3
  <2>3. CASE c = Quote
    <3>1. Doubled(Append(u, c)) = before \o <<Quote, Quote>>
      BY <2>3, DoubledAppend
    <3> HIDE DEF before
    <3>2. Append(before, Quote) \in Seq(T) /\ Append(before, Quote) = before \o <<Quote>>
      BY <2>1, AppendProperties, AppendIsConcat
    <3>3. before \o <<Quote, Quote>> = Append(Append(before, Quote), Quote)
      BY <2>1
    <3>4. ReadFrom(start, Append(before, Quote)) = Reading(fs, u, "closing")
      <4>1. ReadFrom(start, Append(before, Quote)) = ReadChar(ReadFrom(start, before), Quote)
        BY <1>1, <2>1, ReadAppend
      <4> QED BY <2>2, <4>1, ReadCharIs
    <3>5. ReadFrom(start, Append(Append(before, Quote), Quote)) = Reading(fs, Append(u, Quote), "quoted")
      <4>1. ReadFrom(start, Append(Append(before, Quote), Quote)) = ReadChar(ReadFrom(start, Append(before, Quote)), Quote)
        <5> DEFINE b == Append(before, Quote)
        <5>1. b \in Seq(T)
          BY <3>2
        <5> HIDE DEF b
        <5>2. ReadFrom(start, Append(b, Quote)) = ReadChar(ReadFrom(start, b), Quote)
          BY <1>1, <5>1, ReadAppend
        <5> QED BY <5>2 DEF b
      <4> QED BY <3>4, <4>1, ReadCharIs
    <3> QED BY <2>1, <2>3, <3>1, <3>3, <3>5
  <2>4. CASE c # Quote
    <3>1. Doubled(Append(u, c)) = Append(before, c)
      <4>1. Doubled(Append(u, c)) = before \o <<c>>
        BY <2>4, DoubledAppend
      <4> HIDE DEF before
      <4>2. Append(before, c) = before \o <<c>>
        BY <2>1, AppendIsConcat
      <4> QED BY <4>1, <4>2
    <3> HIDE DEF before
    <3>2. ReadFrom(start, Append(before, c)) = ReadChar(ReadFrom(start, before), c)
      BY <1>1, <2>1, ReadAppend
    <3>3. ReadChar(Reading(fs, u, "quoted"), c) = Reading(fs, Append(u, c), "quoted")
      BY <2>4, ReadCharIs
    <3> QED BY <2>1, <2>2, <3>1, <3>2, <3>3
  <2> QED BY <2>3, <2>4
<1> HIDE DEF Right
<1>4. Seq(T) \subseteq Right
  BY <1>2, <1>3, ByAppending
<1> QED BY <1>4 DEF Right, start

\* So a text in quotes is read as the text, whatever it holds.
LEMMA ReadEscaped ==
  ASSUME NEW T, Quote \in T, NEW fs \in Seq(Seq(T)), NEW t \in Seq(T)
  PROVE  /\ Escaped(t) \in Seq(T)
         /\ ReadFrom(Reading(fs, <<>>, "start"), Escaped(t)) = Reading(fs, t, "closing")
<1> DEFINE start == Reading(fs, <<>>, "start")
           inside == Doubled(t)
           opened == <<Quote>> \o inside
<1>1. inside \in Seq(T) /\ <<Quote>> \in Seq(T)
  <2>1. Doubled(Append(t, Quote)) = Doubled(t) \o <<Quote, Quote>> /\ Doubled(t) \in Seq(T)
    BY DoubledAppend
  <2> QED BY <2>1
<1>2. Escaped(t) = opened \o <<Quote>>
  BY DEF Escaped, Doubled
<1> HIDE DEF inside
<1>3. opened \in Seq(T)
  BY <1>1, ConcatProperties
<1>4. start \in Readings(T)
  BY EmptySeq, ReadingType
<1>5. ReadFrom(start, <<Quote>>) = Reading(fs, <<>>, "quoted")
  <2> HIDE DEF start
  <2>1. <<>> \in Seq(T) /\ Append(<<>>, Quote) = <<Quote>>
    BY EmptySeq
  <2>2. ReadFrom(start, <<>>) = start
    BY <1>4, <2>1, ReadType
  <2>3. ReadFrom(start, Append(<<>>, Quote)) = ReadChar(ReadFrom(start, <<>>), Quote)
    <3> DEFINE e == <<>>
    <3>1. e \in Seq(T)
      BY <2>1
    <3> HIDE DEF e
    <3>2. ReadFrom(start, Append(e, Quote)) = ReadChar(ReadFrom(start, e), Quote)
      BY <1>4, <3>1, ReadAppend
    <3> QED BY <3>2 DEF e
  <2>4. ReadChar(start, Quote) = Reading(fs, <<>>, "quoted")
    BY ReadCharIs DEF start
  <2> QED BY <2>1, <2>2, <2>3, <2>4
<1>6. ReadFrom(start, opened) = Reading(fs, t, "quoted")
  <2> HIDE DEF start
  <2>1. ReadFrom(start, opened) = ReadFrom(ReadFrom(start, <<Quote>>), inside)
    <3> DEFINE q == <<Quote>>
    <3>1. q \in Seq(T)
      BY <1>1
    <3> HIDE DEF q
    <3>2. ReadFrom(start, q \o inside) = ReadFrom(ReadFrom(start, q), inside)
      BY <1>1, <1>4, <3>1, ReadConcat
    <3> QED BY <3>2 DEF q
  <2>2. ReadFrom(Reading(fs, <<>>, "quoted"), inside) = Reading(fs, t, "quoted")
    BY ReadDoubled DEF inside
  <2> QED BY <1>5, <2>1, <2>2
<1> HIDE DEF opened, start
<1>7. Append(opened, Quote) = opened \o <<Quote>> /\ Append(opened, Quote) \in Seq(T)
  BY <1>3, AppendIsConcat, AppendProperties
<1>8. ReadFrom(start, Append(opened, Quote)) = ReadChar(ReadFrom(start, opened), Quote)
  BY <1>3, <1>4, ReadAppend
<1>9. ReadChar(Reading(fs, t, "quoted"), Quote) = Reading(fs, t, "closing")
  BY ReadCharIs
<1> QED BY <1>2, <1>6, <1>7, <1>8, <1>9 DEF start

\* A text without commas, quotes and newlines is read as it is.
LEMMA ReadPlain ==
  ASSUME NEW T, NEW fs \in Seq(Seq(T)), NEW t \in Seq(T \ Special)
  PROVE  \E mode \in {"start", "plain"} : ReadFrom(Reading(fs, <<>>, "start"), t) = Reading(fs, t, mode)
<1> DEFINE start == Reading(fs, <<>>, "start")
           P == T \ Special
           Right == {u \in Seq(P) : \E mode \in {"start", "plain"} : ReadFrom(start, u) = Reading(fs, u, mode)}
<1>1. start \in Readings(T)
  BY EmptySeq, ReadingType
<1>2. \A u \in Seq(P) : u \in Seq(T)
  BY SeqMonotonic
<1>3. <<>> \in Right
  <2>1. <<>> \in Seq(T) /\ <<>> \in Seq(P)
    BY EmptySeq
  <2>2. ReadFrom(start, <<>>) = start
    BY <1>1, <2>1, ReadType
  <2> QED BY <2>1, <2>2
<1> HIDE DEF start
<1>4. ASSUME NEW u \in Seq(P), NEW c \in P, u \in Right
      PROVE  Append(u, c) \in Right
  <2>1. Append(u, c) \in Seq(P)
    BY AppendProperties
  <2>2. PICK mode \in {"start", "plain"} : ReadFrom(start, u) = Reading(fs, u, mode)
    BY <1>4
  <2>3. ReadFrom(start, Append(u, c)) = ReadChar(ReadFrom(start, u), c)
    BY <1>1, <1>2, ReadAppend
  <2>4. ReadChar(Reading(fs, u, mode), c) = Reading(fs, Append(u, c), "plain")
    BY ReadCharIs
  <2> QED BY <2>1, <2>2, <2>3, <2>4
<1> HIDE DEF Right, P
<1>5. Seq(P) \subseteq Right
  BY <1>3, <1>4, ByAppending
<1> QED BY <1>5 DEF Right, P, start

\* Between commas the reader makes the field x of the text f.
ReadsAs(T, f, x) ==
  /\ f \in Seq(T) /\ x \in Seq(T)
  /\ \A fs \in Seq(Seq(T)) : \E mode \in {"start", "plain", "closing"} :
       ReadFrom(Reading(fs, <<>>, "start"), f) = Reading(fs, x, mode)

\* Texts that are written as they are, and texts in quotes.
LEMMA FieldsRead ==
  ASSUME NEW T, Quote \in T, NEW t \in Seq(T)
  PROVE  /\ ~NeedsQuotes(t) => ReadsAs(T, t, t)
         /\ ReadsAs(T, Escaped(t), t)
<1>1. ASSUME ~NeedsQuotes(t)
      PROVE  ReadsAs(T, t, t)
  <2> DEFINE P == T \ Special
             n == Len(t)
  <2>1. n \in Nat /\ DOMAIN t = 1..n /\ t \in [1..n -> T] /\ \A i \in 1..n : t[i] \in T
    BY LenProperties
  <2>2. \A i \in 1..n : t[i] \in P
    BY <1>1, <2>1 DEF NeedsQuotes
  <2> HIDE DEF P, n
  <2>3. t \in [1..n -> P]
    BY <2>1, <2>2
  <2>4. t \in Seq(P)
    BY <2>1, <2>3
  <2>5. t \in Seq(T \ Special)
    BY <2>4 DEF P
  <2>6. ASSUME NEW fs \in Seq(Seq(T))
        PROVE  \E mode \in {"start", "plain", "closing"} : ReadFrom(Reading(fs, <<>>, "start"), t) = Reading(fs, t, mode)
    BY <2>5, ReadPlain
  <2> QED BY <2>6 DEF ReadsAs
<1>2. ASSUME NEW fs \in Seq(Seq(T))
      PROVE  ReadFrom(Reading(fs, <<>>, "start"), Escaped(t)) = Reading(fs, t, "closing")
  BY ReadEscaped
<1>3. Escaped(t) \in Seq(T)
  <2>1. <<>> \in Seq(Seq(T))
    BY EmptySeq
  <2> QED BY <2>1, ReadEscaped
<1>4. ReadsAs(T, Escaped(t), t)
  BY <1>2, <1>3 DEF ReadsAs
<1> QED BY <1>1, <1>4

\* What the reader returns where it is between fields or at the end of one.
LEMMA ReadReturns ==
  ASSUME NEW line, NEW fs, NEW x, NEW mode \in {"start", "plain", "closing"},
         ReadFrom(Reading(<<>>, <<>>, "start"), line) = Reading(fs, x, mode)
  PROVE  Read(line) = Append(fs, x)
<1> DEFINE r == ReadFrom(Reading(<<>>, <<>>, "start"), line)
<1>1. r = [fields |-> fs, field |-> x, mode |-> mode]
  BY DEF Reading
<1>2. Read(line) = IF r.mode \in {"quoted", "broken"} THEN <<>> ELSE Append(r.fields, r.field)
  BY DEF Read
<1> HIDE DEF r
<1> QED BY <1>1, <1>2

\* A text alone on a line is the one field of it.
LEMMA ReadAlone ==
  ASSUME NEW T, NEW f, NEW x, ReadsAs(T, f, x)
  PROVE  Read(f) = <<x>>
<1>1. <<>> \in Seq(Seq(T))
  BY EmptySeq
<1>2. PICK mode \in {"start", "plain", "closing"} :
        ReadFrom(Reading(<<>>, <<>>, "start"), f) = Reading(<<>>, x, mode)
  BY <1>1 DEF ReadsAs
<1>3. Append(<<>>, x) = <<x>>
  OBVIOUS
<1> QED BY <1>2, <1>3, ReadReturns

\* The pairs of a text and the field that the reader makes of it.
ReadPairs(T) == {p \in Seq(T) \X Seq(T) : ReadsAs(T, p[1], p[2])}

Written(ps) == [i \in DOMAIN ps |-> ps[i][1]]
ReadBack(ps) == [i \in DOMAIN ps |-> ps[i][2]]

\* ConcatAssociative, of all sequences over a set.
LEMMA ConcatsAssociate ==
  ASSUME NEW T
  PROVE  \A a, b, c \in Seq(T) : (a \o b) \o c = a \o (b \o c)
BY ConcatAssociative

\* A line of fields is read as these fields.
LEMMA ReadJoined ==
  ASSUME NEW T, Comma \in T, NEW first, NEW x0, ReadsAs(T, first, x0), NEW ps \in Seq(ReadPairs(T))
  PROVE  Read(Join(first, Written(ps))) = <<x0>> \o ReadBack(ps)
<1> DEFINE Texts == Seq(T)
           Pairs == ReadPairs(T)
           one == [p \in Pairs |-> p[1]]
           two == [p \in Pairs |-> p[2]]
           start == Reading(<<>>, <<>>, "start")
           There(fields, u) == \E fs \in Seq(Texts), x \in Texts, mode \in {"start", "plain", "closing"} :
                                 ReadFrom(start, u) = Reading(fs, x, mode) /\ Append(fs, x) = fields
           Right == {qs \in Seq(Pairs) : There(<<x0>> \o Mapped(qs, two), Join(first, Mapped(qs, one)))}
<1>1. IsMap(one, Pairs, Texts) /\ IsMap(two, Pairs, Texts)
  BY DEF ReadPairs, IsMap
<1>2. ASSUME NEW p \in Pairs
      PROVE  one[p] \in Texts /\ two[p] \in Texts /\ ReadsAs(T, one[p], two[p])
  BY DEF ReadPairs
<1>3. \A qs \in Seq(Pairs) : Mapped(qs, one) = Written(qs) /\ Mapped(qs, two) = ReadBack(qs)
  <2> SUFFICES ASSUME NEW qs \in Seq(Pairs)
               PROVE  Mapped(qs, one) = Written(qs) /\ Mapped(qs, two) = ReadBack(qs)
    OBVIOUS
  <2>1. \A i \in DOMAIN qs : qs[i] \in Pairs
    BY LenProperties, ElementOfSeq
  <2> HIDE DEF Pairs
  <2> QED BY <2>1 DEF Mapped, Written, ReadBack
<1>4. start \in Readings(T) /\ <<>> \in Seq(Seq(T))
  BY EmptySeq, ReadingType
<1>5. first \in Texts /\ x0 \in Texts
  BY DEF ReadsAs
<1> HIDE DEF one, two
<1>6. <<>> \in Right
  <2>1. PICK mode \in {"start", "plain", "closing"} : ReadFrom(start, first) = Reading(<<>>, x0, mode)
    BY <1>4 DEF ReadsAs
  <2>2. Mapped(<<>>, one) = <<>> /\ Mapped(<<>>, two) = <<>> /\ <<>> \in Seq(Pairs)
    BY EmptySeq DEF Mapped
  <2>3. Join(first, <<>>) = first
    <3> DEFINE e == <<>>
    <3>1. e \in Seq(Seq(T)) /\ first \in Seq(T)
      BY <1>4, <1>5
    <3> HIDE DEF e
    <3>2. Join(first, <<>>) = first
      BY <3>1, JoinType
    <3> QED BY <3>2
  <2>4. <<x0>> \o <<>> = <<x0>> /\ Append(<<>>, x0) = <<x0>>
    BY <1>5
  <2> QED BY <1>4, <1>5, <2>1, <2>2, <2>3, <2>4
<1> HIDE DEF start
<1>7. ASSUME NEW qs \in Seq(Pairs), NEW p \in Pairs, qs \in Right
      PROVE  Append(qs, p) \in Right
  <2> DEFINE line == Join(first, Mapped(qs, one))
             fields == <<x0>> \o Mapped(qs, two)
             f == one[p]
             y == two[p]
  <2>1. PICK fs \in Seq(Texts), x \in Texts, mode \in {"start", "plain", "closing"} :
          ReadFrom(start, line) = Reading(fs, x, mode) /\ Append(fs, x) = fields
    BY <1>7
  <2>2. f \in Texts /\ y \in Texts /\ ReadsAs(T, f, y) /\ Append(qs, p) \in Seq(Pairs)
    BY <1>2, AppendProperties
  <2>3. Mapped(qs, one) \in Seq(Texts) /\ Mapped(qs, two) \in Seq(Texts)
    <3> HIDE DEF Texts, Pairs
    <3> QED BY <1>1, MappedProperties
  <2>4. Mapped(Append(qs, p), one) = Append(Mapped(qs, one), f) /\ Mapped(Append(qs, p), two) = Append(Mapped(qs, two), y)
    <3> HIDE DEF Texts, Pairs
    <3> QED BY <1>1, MappedAppend
  <2> HIDE DEF f, y, fields, Pairs
  <2>5. line \in Seq(T) /\ Join(first, Append(Mapped(qs, one), f)) = line \o (<<Comma>> \o f)
    <3> DEFINE rest == Mapped(qs, one)
    <3>1. rest \in Seq(Seq(T)) /\ f \in Seq(T) /\ first \in Seq(T)
      BY <1>5, <2>2, <2>3
    <3> HIDE DEF rest
    <3>2. Join(first, Append(rest, f)) = Join(first, rest) \o Commas(T)[f]
      BY <3>1, JoinAppend
    <3>3. Commas(T)[f] = <<Comma>> \o f
      BY <3>1, CommasType
    <3>4. Join(first, rest) \in Seq(T)
      BY <3>1, JoinType
    <3> QED BY <3>2, <3>3, <3>4 DEF rest
  <2> HIDE DEF line
  <2>6. line \o (<<Comma>> \o f) = Append(line, Comma) \o f
    <3> DEFINE comma == <<Comma>>
    <3>1. comma \in Seq(T) /\ Append(line, Comma) = line \o comma
      BY <2>5, AppendIsConcat
    <3>2. line \in Seq(T) /\ f \in Seq(T)
      BY <2>2, <2>5
    <3> HIDE DEF comma, Texts
    <3>3. \A a, b, c \in Seq(T) : (a \o b) \o c = a \o (b \o c)
      BY ConcatsAssociate
    <3>4. (line \o comma) \o f = line \o (comma \o f)
      BY <3>1, <3>2, <3>3
    <3> QED BY <3>1, <3>4 DEF comma
  <2>7. Append(line, Comma) \in Seq(T)
    BY <2>5, AppendProperties
  <2>8. ReadFrom(start, Append(line, Comma)) = Reading(fields, <<>>, "start")
    <3>1. ReadFrom(start, Append(line, Comma)) = ReadChar(ReadFrom(start, line), Comma)
      BY <1>4, <2>5, ReadAppend
    <3>2. ReadChar(Reading(fs, x, mode), Comma) = Reading(Append(fs, x), <<>>, "start")
      BY ReadCharIs
    <3> QED BY <2>1, <3>1, <3>2
  <2>9. ReadFrom(start, Append(line, Comma) \o f) = ReadFrom(Reading(fields, <<>>, "start"), f)
    <3> DEFINE l == Append(line, Comma)
    <3>1. l \in Seq(T) /\ f \in Seq(T)
      BY <2>2, <2>7
    <3>2. ReadFrom(start, l) = Reading(fields, <<>>, "start")
      BY <2>8
    <3> HIDE DEF l
    <3>3. ReadFrom(start, l \o f) = ReadFrom(ReadFrom(start, l), f)
      BY <1>4, <3>1, ReadConcat
    <3> QED BY <3>2, <3>3 DEF l
  <2>10. fields \in Seq(Seq(T))
    <3>1. <<x0>> \in Seq(Texts)
      BY <1>5
    <3> HIDE DEF Texts
    <3>2. <<x0>> \o Mapped(qs, two) \in Seq(Texts)
      BY <2>3, <3>1, ConcatProperties
    <3> QED BY <3>2 DEF fields, Texts
  <2>11. PICK mode2 \in {"start", "plain", "closing"} :
           ReadFrom(Reading(fields, <<>>, "start"), f) = Reading(fields, y, mode2)
    BY <2>2, <2>10 DEF ReadsAs
  <2>12. Append(fields, y) = <<x0>> \o Append(Mapped(qs, two), y)
    <3> DEFINE rest == Mapped(qs, two)
    <3>1. rest \in Seq(Texts) /\ <<x0>> \in Seq(Texts) /\ <<y>> \in Seq(Texts)
      BY <1>5, <2>2, <2>3
    <3> HIDE DEF rest, Texts
    <3>2. <<x0>> \o rest \in Seq(Texts)
      BY <3>1, ConcatProperties
    <3>3. Append(<<x0>> \o rest, y) = (<<x0>> \o rest) \o <<y>> /\ Append(rest, y) = rest \o <<y>>
      BY <2>2, <3>1, <3>2, AppendIsConcat
    <3>4. (<<x0>> \o rest) \o <<y>> = <<x0>> \o (rest \o <<y>>)
      BY <3>1, ConcatAssociative
    <3> QED BY <3>3, <3>4 DEF rest, fields
  <2> HIDE DEF Texts
  <2>13. ReadFrom(start, Join(first, Mapped(Append(qs, p), one))) = Reading(fields, y, mode2)
    BY <2>4, <2>5, <2>6, <2>9, <2>11
  <2>14. Append(fields, y) = <<x0>> \o Mapped(Append(qs, p), two)
    BY <2>4, <2>12
  <2>15. There(<<x0>> \o Mapped(Append(qs, p), two), Join(first, Mapped(Append(qs, p), one)))
    BY <2>2, <2>10, <2>13, <2>14 DEF Texts
  <2> HIDE DEF There
  <2> QED BY <2>2, <2>15
<1> HIDE DEF Right, There
<1>8. ps \in Right
  <2>1. ps \in Seq(Pairs) /\ Seq(Pairs) \subseteq Right
    BY <1>6, <1>7, ByAppending
  <2> QED BY <2>1
<1>9. There(<<x0>> \o ReadBack(ps), Join(first, Written(ps)))
  <2>1. There(<<x0>> \o Mapped(ps, two), Join(first, Mapped(ps, one))) /\ ps \in Seq(Pairs)
    BY <1>8 DEF Right
  <2> QED BY <1>3, <2>1
<1>10. PICK fs \in Seq(Texts), x \in Texts, mode \in {"start", "plain", "closing"} :
         ReadFrom(start, Join(first, Written(ps))) = Reading(fs, x, mode) /\ Append(fs, x) = <<x0>> \o ReadBack(ps)
  BY <1>9 DEF There
<1> QED BY <1>10, ReadReturns DEF start

\* A text of a string column as it is written.
InQuotes(t) == IF NeedsQuotes(t) THEN Escaped(t) ELSE t

\* Whatever texts are written to a row as the fields of string columns are, with quotes
\* where a comma, quote or newline calls for them, a reader finds the same texts, as
\* many and in that order: no text runs into the next column or loses its quotes.
THEOREM RowsReadBack ==
  ASSUME NEW T, {Comma, Quote} \subseteq T, NEW first \in Seq(T), NEW texts \in Seq(Seq(T))
  PROVE  Read(Join(InQuotes(first), [i \in DOMAIN texts |-> InQuotes(texts[i])])) = <<first>> \o texts
<1> DEFINE Pairs == ReadPairs(T)
           n == Len(texts)
           ps == [i \in 1..n |-> <<InQuotes(texts[i]), texts[i]>>]
<1>1. Comma \in T /\ Quote \in T
  OBVIOUS
<1>2. ASSUME NEW t \in Seq(T)
      PROVE  ReadsAs(T, InQuotes(t), t)
  BY <1>1, FieldsRead DEF InQuotes
<1>3. n \in Nat /\ DOMAIN texts = 1..n /\ texts = [i \in 1..n |-> texts[i]] /\ \A i \in 1..n : texts[i] \in Seq(T)
  <2>1. texts \in [1..n -> Seq(T)]
    BY LenProperties
  <2> QED BY <2>1, LenProperties, ElementOfSeq
<1> HIDE DEF n
<1>4. ASSUME NEW i \in 1..n
      PROVE  <<InQuotes(texts[i]), texts[i]>> \in Pairs
  <2> DEFINE x == texts[i]
             f == InQuotes(x)
  <2>1. x \in Seq(T) /\ ReadsAs(T, f, x)
    BY <1>2, <1>3
  <2> HIDE DEF f, x
  <2>2. f \in Seq(T)
    BY <2>1 DEF ReadsAs
  <2>3. <<f, x>> \in Pairs
    BY <2>1, <2>2 DEF ReadPairs
  <2> QED BY <2>3 DEF f, x
<1>5. ps \in Seq(Pairs)
  <2> HIDE DEF Pairs
  <2>1. ps \in [1..n -> Pairs]
    BY <1>4
  <2> HIDE DEF ps
  <2>2. n \in Nat
    BY <1>3
  <2> QED BY <2>1, <2>2
<1>6. Written(ps) = [i \in DOMAIN texts |-> InQuotes(texts[i])] /\ ReadBack(ps) = texts
  BY <1>3 DEF Written, ReadBack
<1> HIDE DEF ps
<1> DEFINE text == InQuotes(first)
<1>7. ReadsAs(T, text, first)
  BY <1>2
<1> HIDE DEF text
<1>8. Read(Join(text, Written(ps))) = <<first>> \o ReadBack(ps)
  BY <1>1, <1>5, <1>7, ReadJoined
<1> QED BY <1>6, <1>8 DEF text

-----------------------------------------------------------------------------
(* What Keep leaves.                                                       *)

\* Sets that have the same of the elements keep the same.
LEMMA KeepSame ==
  ASSUME NEW T, NEW A, NEW B, NEW s \in Seq(T), \A i \in 1..Len(s) : s[i] \in A <=> s[i] \in B
  PROVE  Keep(s, A) = Keep(s, B)
<1>1. DOMAIN s = 1..Len(s)
  BY LenProperties
<1>2. [i \in DOMAIN s |-> IF s[i] \in A THEN <<s[i]>> ELSE <<>>] = [i \in DOMAIN s |-> IF s[i] \in B THEN <<s[i]>> ELSE <<>>]
  BY <1>1
<1> QED BY <1>2 DEF Keep

\* Nothing is kept of no elements.
LEMMA KeepOfNone ==
  ASSUME NEW S
  PROVE  Keep(<<>>, S) = <<>>
BY EmptySeq DEF Keep, FlattenSeq

\* What is kept is in the set.
LEMMA KeepType ==
  ASSUME NEW T, NEW A, NEW s \in Seq(T)
  PROVE  Keep(s, A) \in Seq(T \cap A)
<1> DEFINE TA == T \cap A
           Right == {u \in Seq(T) : Keep(u, A) \in Seq(TA)}
<1>1. <<>> \in Right
  BY EmptySeq, KeepOfNone
<1>2. ASSUME NEW u \in Seq(T), NEW e \in T, u \in Right
      PROVE  Append(u, e) \in Right
  <2>1. Append(u, e) \in Seq(T) /\ Keep(u, A) \in Seq(TA)
    BY <1>2, AppendProperties
  <2>2. Keep(Append(u, e), A) = IF e \in A THEN Append(Keep(u, A), e) ELSE Keep(u, A)
    BY KeepAppend
  <2>3. e \in A => e \in TA
    OBVIOUS
  <2> HIDE DEF TA
  <2>4. e \in A => Append(Keep(u, A), e) \in Seq(TA)
    BY <2>1, <2>3, AppendProperties
  <2> QED BY <2>1, <2>2, <2>4
<1> HIDE DEF Right
<1>3. Seq(T) \subseteq Right
  BY <1>1, <1>2, ByAppending
<1> QED BY <1>3 DEF Right

\* Kept twice is kept for both reasons.
LEMMA KeepBoth ==
  ASSUME NEW T, NEW A, NEW B, NEW s \in Seq(T)
  PROVE  Keep(Keep(s, A), B) = Keep(s, A \cap B)
<1> DEFINE Right == {u \in Seq(T) : Keep(Keep(u, A), B) = Keep(u, A \cap B)}
<1>1. <<>> \in Right
  BY EmptySeq, KeepOfNone
<1>2. ASSUME NEW u \in Seq(T), NEW e \in T, u \in Right
      PROVE  Append(u, e) \in Right
  <2> DEFINE kept == Keep(u, A)
  <2>1. Append(u, e) \in Seq(T) /\ Keep(kept, B) = Keep(u, A \cap B)
    BY <1>2, AppendProperties
  <2>2. Keep(Append(u, e), A) = IF e \in A THEN Append(kept, e) ELSE kept
    BY KeepAppend
  <2>3. Keep(Append(u, e), A \cap B) = IF e \in A \cap B THEN Append(Keep(u, A \cap B), e) ELSE Keep(u, A \cap B)
    <3> DEFINE AB == A \cap B
    <3> HIDE DEF AB
    <3>1. Keep(Append(u, e), AB) = IF e \in AB THEN Append(Keep(u, AB), e) ELSE Keep(u, AB)
      BY KeepAppend
    <3> QED BY <3>1 DEF AB
  <2>4. kept \in Seq(T)
    <3>1. kept \in Seq(T \cap A) /\ T \cap A \subseteq T
      BY KeepType
    <3> QED BY <3>1, SeqMonotonic
  <2> HIDE DEF kept
  <2>5. Keep(Append(kept, e), B) = IF e \in B THEN Append(Keep(kept, B), e) ELSE Keep(kept, B)
    BY <2>4, KeepAppend
  <2>6. Keep(Keep(Append(u, e), A), B) = Keep(Append(u, e), A \cap B)
    <3>1. CASE e \in A
      <4>1. Keep(Append(u, e), A) = Append(kept, e) /\ (e \in A \cap B <=> e \in B)
        BY <2>2, <3>1
      <4> QED BY <2>1, <2>3, <2>5, <4>1
    <3>2. CASE e \notin A
      <4>1. Keep(Append(u, e), A) = kept /\ e \notin A \cap B
        BY <2>2, <3>2
      <4> QED BY <2>1, <2>3, <4>1
    <3> QED BY <3>1, <3>2
  <2> QED BY <2>1, <2>6
<1> HIDE DEF Right
<1>3. Seq(T) \subseteq Right
  BY <1>1, <1>2, ByAppending
<1> QED BY <1>3 DEF Right

\* As many are kept as there are places with an element of the set.
LEMMA KeepCounts ==
  ASSUME NEW T, NEW A, NEW s \in Seq(T)
  PROVE  /\ Keep(s, A) \in Seq(T)
         /\ IsFiniteSet({i \in DOMAIN s : s[i] \in A})
         /\ Len(Keep(s, A)) = Cardinality({i \in DOMAIN s : s[i] \in A})
<1> DEFINE In(u) == {i \in DOMAIN u : u[i] \in A}
           Right == {u \in Seq(T) : IsFiniteSet(In(u)) /\ Len(Keep(u, A)) = Cardinality(In(u))}
<1>0. \A u \in Seq(T) : Keep(u, A) \in Seq(T)
  <2> SUFFICES ASSUME NEW u \in Seq(T)
               PROVE  Keep(u, A) \in Seq(T)
    OBVIOUS
  <2>1. Keep(u, A) \in Seq(T \cap A) /\ T \cap A \subseteq T
    BY KeepType
  <2> QED BY <2>1, SeqMonotonic
<1>1. <<>> \in Right
  <2>1. In(<<>>) = {} /\ <<>> \in Seq(T) /\ Len(<<>>) = 0
    BY EmptySeq
  <2> QED BY <2>1, KeepOfNone, FS_EmptySet
<1>2. ASSUME NEW u \in Seq(T), NEW e \in T, u \in Right
      PROVE  Append(u, e) \in Right
  <2> DEFINE n == Len(u)
             ue == Append(u, e)
             kept == Keep(u, A)
  <2>1. /\ n \in Nat /\ DOMAIN u = 1..n /\ ue \in Seq(T) /\ Len(ue) = n + 1
        /\ ue[n + 1] = e /\ \A i \in 1..n : ue[i] = u[i]
    BY LenProperties, AppendProperties
  <2>2. DOMAIN ue = 1..(n + 1)
    BY <2>1, LenProperties
  <2>3. IsFiniteSet(In(u)) /\ Len(kept) = Cardinality(In(u)) /\ kept \in Seq(T) /\ In(u) \subseteq 1..n
    BY <1>0, <1>2, <2>1
  <2>4. Keep(ue, A) = IF e \in A THEN Append(kept, e) ELSE kept
    BY KeepAppend
  <2> HIDE DEF ue, n, kept
  <2>5. 1..(n + 1) = 1..n \cup {n + 1} /\ n + 1 \notin 1..n
    BY <2>1
  <2>6. In(ue) = IF e \in A THEN In(u) \cup {n + 1} ELSE In(u)
    BY <2>1, <2>2, <2>5
  <2>7. n + 1 \notin In(u)
    BY <2>3, <2>5
  <2> HIDE DEF In
  <2>8. CASE e \in A
    <3>1. IsFiniteSet(In(ue)) /\ Cardinality(In(ue)) = Cardinality(In(u)) + 1
      BY <2>3, <2>6, <2>7, <2>8, FS_AddElement
    <3>2. Len(Append(kept, e)) = Len(kept) + 1
      BY <2>3, AppendProperties
    <3> QED BY <2>1, <2>3, <2>4, <2>8, <3>1, <3>2 DEF ue
  <2>9. CASE e \notin A
    BY <2>1, <2>3, <2>4, <2>6, <2>9 DEF ue
  <2> QED BY <2>8, <2>9
<1> HIDE DEF Right
<1>3. Seq(T) \subseteq Right
  BY <1>1, <1>2, ByAppending
<1>4. s \in Right
  BY <1>3
<1> QED BY <1>0, <1>4 DEF Right

\* What is kept for a set and what is kept for the rest are all elements.
LEMMA KeepSplits ==
  ASSUME NEW T, NEW A, NEW B, NEW s \in Seq(T), \A i \in 1..Len(s) : s[i] \in A <=> s[i] \notin B
  PROVE  Len(Keep(s, A)) + Len(Keep(s, B)) = Len(s)
<1> DEFINE n == Len(s)
           InA == {i \in DOMAIN s : s[i] \in A}
           InB == {i \in DOMAIN s : s[i] \in B}
<1>1. n \in Nat /\ DOMAIN s = 1..n
  BY LenProperties
<1>2. /\ IsFiniteSet(InA) /\ Len(Keep(s, A)) = Cardinality(InA)
      /\ IsFiniteSet(InB) /\ Len(Keep(s, B)) = Cardinality(InB)
  BY KeepCounts
<1>3. InA \cap InB = {} /\ InA \cup InB = 1..n
  BY <1>1
<1> HIDE DEF InA, InB, n
<1>4. Cardinality(1..n) = n
  <2>1. 1 \in Int /\ n \in Int
    BY <1>1
  <2>2. Cardinality(1..n) = IF 1 > n THEN 0 ELSE n - 1 + 1
    BY <2>1, FS_Interval
  <2> QED BY <1>1, <2>2
<1>5. Cardinality(InA \cup InB) = Cardinality(InA) + Cardinality(InB) - Cardinality(InA \cap InB)
  BY <1>2, FS_Union
<1>6. Cardinality(InA \cap InB) = 0 /\ Cardinality(InA) \in Nat /\ Cardinality(InB) \in Nat
  BY <1>2, <1>3, FS_EmptySet, FS_CardinalityType
<1>7. n = Cardinality(InA) + Cardinality(InB)
  <2>1. n = Cardinality(InA) + Cardinality(InB) - 0
    BY <1>3, <1>4, <1>5, <1>6
  <2> QED BY <1>6, <2>1
<1> QED BY <1>2, <1>7 DEF n

\* A larger set keeps no less.
LEMMA KeepGrows ==
  ASSUME NEW T, NEW A, NEW B, NEW s \in Seq(T), \A i \in 1..Len(s) : s[i] \in A => s[i] \in B
  PROVE  Len(Keep(s, A)) <= Len(Keep(s, B))
<1> DEFINE InA == {i \in DOMAIN s : s[i] \in A}
           InB == {i \in DOMAIN s : s[i] \in B}
<1>1. DOMAIN s = 1..Len(s)
  BY LenProperties
<1>2. /\ IsFiniteSet(InA) /\ Len(Keep(s, A)) = Cardinality(InA)
      /\ IsFiniteSet(InB) /\ Len(Keep(s, B)) = Cardinality(InB)
  BY KeepCounts
<1>3. InA \subseteq InB
  BY <1>1
<1> HIDE DEF InA, InB
<1> QED BY <1>2, <1>3, FS_Subset

-----------------------------------------------------------------------------
(* The checks on texts and the rules that their comments state.            *)

\* CheckFileName's checks on length, ends and characters let through exactly the names
\* of the rule in its comment: letters and digits, with single hyphens between them.
THEOREM NameCheckIsRule ==
  ASSUME NEW t \in Seq(STRING)
  PROVE  CheckFileName(t) <=> ContainerName(t)
<1>0. Len(t) \in Nat /\ DOMAIN t = 1..Len(t) /\ MinName \in Nat /\ MinName >= 1 /\ MaxName \in Nat
  BY LenProperties, ItemsAssumption
<1>1. ~Lower("-")
  BY DEF Lower
<1>2. ASSUME CheckFileName(t)
      PROVE  ContainerName(t)
  <2> DEFINE n == Len(t)
  <2>1. /\ n \in Nat /\ n \in MinName..MaxName /\ Lower(t[1]) /\ Lower(t[n])
        /\ \A i \in 1..n : Lower(t[i]) \/ t[i] = "-"
        /\ \A i \in 1..n : t[i] = "-" /\ i > 1 => t[i - 1] # "-"
    BY <1>0, <1>2 DEF CheckFileName, Last
  <2>2. ASSUME NEW i \in 1..n, ~Lower(t[i])
        PROVE  t[i] = "-" /\ i \in 2..(n - 1) /\ Lower(t[i - 1]) /\ Lower(t[i + 1])
    <3> HIDE DEF n
    <3>1. t[i] = "-" /\ i # 1 /\ i # n
      BY <2>1, <2>2
    <3>2. i > 1 /\ i - 1 \in 1..n /\ i + 1 \in 1..n /\ i \in 2..(n - 1)
      BY <2>1, <3>1
    <3>3. t[i - 1] # "-"
      BY <2>1, <3>1, <3>2
    <3>4. ASSUME t[i + 1] = "-"
          PROVE  FALSE
      <4>1. i + 1 > 1 /\ (i + 1) - 1 = i
        BY <3>2
      <4>2. t[(i + 1) - 1] # "-"
        BY <2>1, <3>2, <3>4, <4>1
      <4> QED BY <3>1, <4>1, <4>2
    <3> QED BY <2>1, <3>1, <3>2, <3>3, <3>4
  <2> QED BY <1>0, <2>1, <2>2 DEF ContainerName
<1>3. ASSUME ContainerName(t)
      PROVE  CheckFileName(t)
  <2>1. /\ Len(t) \in MinName..MaxName
        /\ \A i \in 1..Len(t) :
             Lower(t[i]) \/ (t[i] = "-" /\ i \in 2..(Len(t) - 1) /\ Lower(t[i - 1]) /\ Lower(t[i + 1]))
    BY <1>0, <1>3 DEF ContainerName
  <2>2. Len(t) >= MinName /\ Len(t) <= MaxName /\ Len(t) >= 1
    BY <1>0, <2>1
  <2>3. t # <<>> /\ 1 \in 1..Len(t) /\ Len(t) \in 1..Len(t)
    BY <1>0, <2>2
  <2>4. Lower(t[1]) /\ Lower(t[Len(t)])
    BY <1>0, <2>1, <2>3
  <2>5. ASSUME NEW i \in 1..Len(t)
        PROVE  /\ Lower(t[i]) \/ t[i] = "-"
               /\ t[i] = "-" /\ i > 1 => t[i - 1] # "-"
    BY <1>1, <2>1
  <2> QED BY <1>0, <2>2, <2>3, <2>4, <2>5 DEF CheckFileName, Last
<1> QED BY <1>2, <1>3

\* A number has no letters.
LEMMA NumbersHaveDigits ==
  ASSUME NEW t \in Seq(STRING), NumberText(t), NEW i \in 1..Len(t)
  PROVE  t[i] \in Digits
BY LenProperties DEF NumberText, Range

\* A part of a text.
LEMMA PartOf ==
  ASSUME NEW t \in Seq(STRING), NEW from \in 1..(Len(t) + 1), NEW to \in 0..Len(t)
  PROVE  /\ SubSeq(t, from, to) \in Seq(STRING)
         /\ Len(SubSeq(t, from, to)) = IF from <= to THEN (to - from) + 1 ELSE 0
         /\ \A i \in 1..((to - from) + 1) : SubSeq(t, from, to)[i] = t[(from + i) - 1]
<1>1. Len(t) \in Nat
  BY LenProperties
<1>2. \A i \in from..to : t[i] \in STRING
  BY <1>1, ElementOfSeq
<1> QED BY <1>1, <1>2, SubSeqProperties

\* In a Go duration whatever comes before a unit is a digit.
LEMMA DurationsHaveDigits ==
  ASSUME NEW t \in Seq(STRING), ParseDuration(t), NEW p \in 1..Len(t)
  PROVE  t[p] = "h" \/ t[p] \in Digits
<1> DEFINE units == {i \in DOMAIN t : t[i] = "h"}
           Later == {u \in units : u > p}
           u == Min(Later)
           Before == {0} \cup {v \in units : v < u}
           from == Max(Before)
<1>0. Len(t) \in Nat /\ DOMAIN t = 1..Len(t) /\ p <= Len(t)
  BY LenProperties
<1>1. Len(t) \in units /\ \A i \in units : NumberText(SubSeq(t, Max({0} \cup {v \in units : v < i}) + 1, i - 1))
  <2>1. t # <<>> /\ t[Len(t)] = "h"
    BY DEF ParseDuration, Last
  <2>2. Len(t) \in DOMAIN t
    BY <1>0, <2>1, EmptySeq
  <2> QED BY <2>1, <2>2 DEF ParseDuration
<1>2. SUFFICES ASSUME t[p] # "h"
               PROVE  t[p] \in Digits
  OBVIOUS
<1>3. p # Len(t) /\ p \notin units /\ \A i \in units : i \in 1..Len(t)
  BY <1>0, <1>1, <1>2
<1>4. u \in Later /\ \A v \in Later : u <= v
  <2>1. Later \in SUBSET Nat
    BY <1>0
  <2>2. Len(t) \in Later
    <3> DEFINE n == Len(t)
    <3>1. n \in Nat /\ p \in 1..n /\ p # n
      BY <1>0, <1>3
    <3>2. n > p
      <4> HIDE DEF n
      <4> QED BY <3>1
    <3> QED BY <1>1, <3>2
  <2> HIDE DEF Later
  <2> QED BY <2>1, <2>2, LeastMember
<1>5. u \in units /\ u > p /\ u \in 1..Len(t)
  <2>1. u \in units /\ u > p
    BY <1>4
  <2> QED BY <1>3, <2>1
<1>6. NumberText(SubSeq(t, from + 1, u - 1))
  BY <1>1, <1>5
<1> HIDE DEF units, u
<1>7. from \in Before /\ from \in 0..Len(t)
  <2>1. Before \in SUBSET (0..Len(t)) /\ Before # {}
    <3>1. \A n \in Nat : 0 \in 0..n /\ \A v \in 1..n : v \in 0..n
      OBVIOUS
    <3>2. 0 \in 0..Len(t) /\ \A v \in units : v \in 0..Len(t)
      BY <1>0, <1>3, <3>1
    <3> QED BY <3>2
  <2> HIDE DEF Before
  <2> QED BY <1>0, <2>1, GreatestMember
<1>8. from < p
  <2>1. CASE from = 0
    BY <2>1
  <2>2. CASE from \in units /\ from < u
    <3>1. ~(from > p)
      <4>1. from > p => u <= from
        BY <1>4, <2>2
      <4> QED BY <1>5, <1>7, <2>2, <4>1
    <3>2. from # p
      BY <1>3, <2>2
    <3> QED BY <1>0, <1>7, <3>1, <3>2
  <2> QED BY <1>7, <2>1, <2>2
<1> HIDE DEF from, Before
<1> DEFINE run == SubSeq(t, from + 1, u - 1)
           q == p - from
<1>9. from + 1 \in 1..(Len(t) + 1) /\ u - 1 \in 0..Len(t)
  BY <1>0, <1>5, <1>7
<1>10. q \in 1..(((u - 1) - (from + 1)) + 1) /\ ((from + 1) + q) - 1 = p /\ from + 1 <= u - 1
  BY <1>0, <1>5, <1>7, <1>8
<1>11. run \in Seq(STRING) /\ q \in 1..Len(run) /\ run[q] = t[p]
  <2>1. run \in Seq(STRING) /\ Len(run) = ((u - 1) - (from + 1)) + 1
    BY <1>9, <1>10, PartOf
  <2>2. run[q] = t[((from + 1) + q) - 1]
    BY <1>9, <1>10, PartOf
  <2> HIDE DEF run, q
  <2> QED BY <1>10, <2>1, <2>2
<1> HIDE DEF q
<1>12. NumberText(run)
  BY <1>6
<1> HIDE DEF run
<1>13. t[p] \in Digits
  BY <1>11, <1>12, NumbersHaveDigits
<1> QED BY <1>13

\* So it has no "d".
LEMMA DurationsHaveNoDays ==
  ASSUME NEW t \in Seq(STRING), ParseDuration(t), NEW p \in 1..Len(t)
  PROVE  t[p] # "d"
<1>1. t[p] = "h" \/ t[p] \in Digits
  BY DurationsHaveDigits
<1> QED BY <1>1 DEF Digits

\* The digits at the front of a text, and what stands behind them.
LEMMA LeadOf ==
  ASSUME NEW t \in Seq(STRING)
  PROVE  LET lead == Max({n \in 0..Len(t) : \A i \in 1..n : t[i] \in Digits})
         IN  /\ lead \in 0..Len(t) /\ \A i \in 1..lead : t[i] \in Digits
             /\ \A k \in 1..Len(t) : (\A i \in 1..(k - 1) : t[i] \in Digits) /\ t[k] \notin Digits => lead = k - 1
<1> DEFINE len == Len(t)
           Fronts == {n \in 0..len : \A i \in 1..n : t[i] \in Digits}
           lead == Max(Fronts)
<1>1. len \in Nat
  BY LenProperties
<1> HIDE DEF len
<1>2. lead \in Fronts /\ \A n \in Fronts : lead >= n
  <2>1. Fronts \in SUBSET (0..len) /\ 0 \in Fronts
    BY <1>1
  <2> HIDE DEF Fronts
  <2> QED BY <1>1, <2>1, GreatestMember
<1> HIDE DEF lead
<1>3. ASSUME NEW k \in 1..len, \A i \in 1..(k - 1) : t[i] \in Digits, t[k] \notin Digits
      PROVE  lead = k - 1
  <2>1. k - 1 \in Fronts
    BY <1>1, <1>3
  <2>2. ~(k <= lead)
    BY <1>1, <1>2, <1>3
  <2>3. lead \in 0..len /\ lead >= k - 1
    BY <1>2, <2>1
  <2> HIDE DEF Fronts
  <2> QED BY <1>1, <2>2, <2>3
<1> QED BY <1>2, <1>3 DEF lead, len

\* Every text of the rule passes CheckTimeSpan.
LEMMA TimespansPass ==
  ASSUME NEW t \in Seq(STRING), Timespan(t)
  PROVE  CheckTimeSpan(t)
<1> DEFINE len == Len(t)
           lead == Max({n \in 0..Len(t) : \A i \in 1..n : t[i] \in Digits})
           days == 0 < lead /\ lead < Len(t) /\ t[lead + 1] = "d"
<1>1. len \in Nat /\ DOMAIN t = 1..len
  BY LenProperties
<1>2. /\ lead \in 0..len /\ \A i \in 1..lead : t[i] \in Digits
      /\ \A k \in 1..len : (\A i \in 1..(k - 1) : t[i] \in Digits) /\ t[k] \notin Digits => lead = k - 1
  BY LeadOf
<1>3. CheckTimeSpan(t) <=> /\ t # <<>>
                           /\ days => \E i \in 1..lead : t[i] = "1"
                           /\ LET rest == IF days THEN SubSeq(t, lead + 2, len) ELSE t
                              IN  rest = <<>> \/ ParseDuration(rest)
  BY DEF CheckTimeSpan
<1>4. CASE ParseDuration(t)
  <2>1. t # <<>>
    BY <1>4 DEF ParseDuration
  <2>2. ~days
    <3> SUFFICES ASSUME days
                 PROVE  FALSE
      OBVIOUS
    <3>1. lead + 1 \in 1..Len(t)
      <4> DEFINE l == lead
      <4>1. l \in 0..len /\ l < len
        BY <1>2
      <4> HIDE DEF len, l
      <4>2. l + 1 \in 1..len
        BY <1>1, <4>1
      <4> QED BY <4>2 DEF len, l
    <3> HIDE DEF lead
    <3> QED BY <1>4, <3>1, DurationsHaveNoDays DEF days
  <2> HIDE DEF days, lead
  <2> QED BY <1>3, <1>4, <2>1, <2>2
<1>5. ASSUME NEW k \in DOMAIN t, t[k] = "d", NumberText(SubSeq(t, 1, k - 1)),
             k = Len(t) \/ ParseDuration(SubSeq(t, k + 1, Len(t)))
      PROVE  CheckTimeSpan(t)
  <2> DEFINE number == SubSeq(t, 1, k - 1)
  <2> HIDE DEF len
  <2>1. k \in 1..len /\ k - 1 \in 0..len
    BY <1>1
  <2>2. number \in Seq(STRING) /\ Len(number) = k - 1 /\ \A i \in 1..(k - 1) : number[i] = t[i]
    <3>1. /\ number \in Seq(STRING)
          /\ Len(number) = IF 1 <= k - 1 THEN (k - 1 - 1) + 1 ELSE 0
          /\ \A i \in 1..((k - 1 - 1) + 1) : number[i] = t[(1 + i) - 1]
      <4>1. 1 \in 1..(len + 1)
        BY <1>1
      <4> QED BY <2>1, <4>1, PartOf DEF len
    <3> HIDE DEF number
    <3> QED BY <1>1, <2>1, <3>1
  <2>3. NumberText(number)
    BY <1>5
  <2> HIDE DEF number
  <2>4. \A i \in 1..(k - 1) : t[i] \in Digits
    BY <2>2, <2>3, NumbersHaveDigits
  <2>5. t[k] \notin Digits
    BY <1>5 DEF Digits
  <2>6. lead = k - 1
    BY <1>2, <2>1, <2>4, <2>5
  <2>7. \E i \in 1..(k - 1) : t[i] = "1"
    BY <2>2, <2>3, LenProperties DEF NumberText, Range
  <2> DEFINE l == lead
  <2>8. l = k - 1 /\ 0 < l /\ l < len /\ l + 1 = k /\ l + 2 = k + 1
    <3>1. l = k - 1
      BY <2>6
    <3> HIDE DEF l
    <3> QED BY <1>1, <2>1, <2>7, <3>1
  <2> HIDE DEF lead
  <2>9. days
    BY <1>5, <2>8 DEF len
  <2>10. k = len => SubSeq(t, k + 1, len) = <<>>
    BY <1>1, SubSeqEmpty
  <2>11. SubSeq(t, lead + 2, len) = <<>> \/ ParseDuration(SubSeq(t, lead + 2, len))
    BY <1>5, <2>8, <2>10 DEF len
  <2>12. t # <<>>
    BY <2>1, <1>1
  <2> HIDE DEF days
  <2> QED BY <1>3, <2>6, <2>7, <2>9, <2>11, <2>12
<1> QED BY <1>4, <1>5 DEF Timespan

\* What passes follows the rule, or has a number of days with more than one point.
LEMMA PassedAreTimespans ==
  ASSUME NEW t \in Seq(STRING), CheckTimeSpan(t), ~ManyDots(t)
  PROVE  Timespan(t)
<1> DEFINE len == Len(t)
           lead == Max({n \in 0..Len(t) : \A i \in 1..n : t[i] \in Digits})
           days == 0 < lead /\ lead < Len(t) /\ t[lead + 1] = "d"
<1>1. len \in Nat /\ DOMAIN t = 1..len
  BY LenProperties
<1>2. lead \in 0..len /\ \A i \in 1..lead : t[i] \in Digits
  BY LeadOf
<1>3. /\ t # <<>>
      /\ days => \E i \in 1..lead : t[i] = "1"
      /\ LET rest == IF days THEN SubSeq(t, lead + 2, len) ELSE t
         IN  rest = <<>> \/ ParseDuration(rest)
  BY DEF CheckTimeSpan
<1>4. CASE ~days
  BY <1>3, <1>4 DEF Timespan
<1>5. CASE days
  <2> DEFINE l == lead
             k == l + 1
             number == SubSeq(t, 1, l)
  <2>1. l \in 0..len /\ 0 < l /\ l < len /\ t[k] = "d" /\ \E i \in 1..l : t[i] = "1"
    BY <1>2, <1>3, <1>5
  <2>2. SubSeq(t, l + 2, len) = <<>> \/ ParseDuration(SubSeq(t, l + 2, len))
    BY <1>3, <1>5
  <2>3. \A i \in 1..l : t[i] \in Digits
    BY <1>2
  <2> HIDE DEF days, lead, l, len
  <2>4. k \in 1..len /\ k - 1 = l /\ k + 1 = l + 2
    BY <1>1, <2>1
  <2>5. number \in Seq(STRING) /\ Len(number) = l /\ \A i \in 1..l : number[i] = t[i]
    <3>1. /\ number \in Seq(STRING)
          /\ Len(number) = IF 1 <= l THEN (l - 1) + 1 ELSE 0
          /\ \A i \in 1..((l - 1) + 1) : number[i] = t[(1 + i) - 1]
      <4>1. 1 \in 1..(len + 1)
        BY <1>1
      <4> QED BY <2>1, <4>1, PartOf DEF len
    <3> HIDE DEF number
    <3> QED BY <1>1, <2>1, <3>1
  <2> HIDE DEF number
  <2>6. DOMAIN number = 1..l
    BY <2>5, LenProperties
  <2>7. Cardinality({i \in DOMAIN number : number[i] = "."}) <= 1
    <3> DEFINE A == {i \in DOMAIN number : number[i] = "."}
               D == {i \in DOMAIN t : t[i] = "."}
    <3>1. IsFiniteSet(D) /\ Cardinality(D) \in Nat
      <4>1. IsFiniteSet(1..len)
        BY <1>1, FS_Interval
      <4> QED BY <1>1, <4>1, FS_Subset, FS_CardinalityType
    <3>2. A \subseteq D
      <4>1. \A i \in 1..l : i \in 1..len
        BY <1>1, <2>1
      <4> QED BY <1>1, <2>5, <2>6, <4>1
    <3>3. Cardinality(A) <= Cardinality(D) /\ Cardinality(A) \in Nat
      BY <3>1, <3>2, FS_Subset, FS_CardinalityType
    <3>4. ~(Cardinality(D) > 1)
      BY DEF ManyDots
    <3> QED BY <3>1, <3>3, <3>4
  <2>8. NumberText(number)
    BY <2>1, <2>3, <2>5, <2>6, <2>7 DEF NumberText, Range
  <2>9. k = len \/ ParseDuration(SubSeq(t, k + 1, len))
    <3> SUFFICES ASSUME k # len, SubSeq(t, k + 1, len) = <<>>
                 PROVE  FALSE
      BY <2>2, <2>4
    <3>1. k + 1 \in 1..(len + 1) /\ len \in 0..len /\ k + 1 <= len
      BY <1>1, <2>4
    <3>2. Len(SubSeq(t, k + 1, len)) = (len - (k + 1)) + 1
      BY <3>1, PartOf DEF len
    <3>3. Len(SubSeq(t, k + 1, len)) = 0
      BY EmptySeq
    <3> QED BY <1>1, <2>4, <3>1, <3>2, <3>3
  <2>10. number = SubSeq(t, 1, k - 1)
    BY <2>4 DEF number
  <2> HIDE DEF k
  <2> QED BY <1>1, <2>1, <2>4, <2>8, <2>9, <2>10 DEF Timespan, len
<1> QED BY <1>4, <1>5

\* CheckTimeSpan finds the days by looking for digits and a "d" and parses only the
\* rest; yet it lets through exactly the texts of the rule in its comments, but for a
\* number of days with more than one point.
THEOREM TimespanCheckIsRule ==
  ASSUME NEW t \in Seq(STRING)
  PROVE  /\ Timespan(t) => CheckTimeSpan(t)
         /\ CheckTimeSpan(t) => Timespan(t) \/ ManyDots(t)
BY TimespansPass, PassedAreTimespans

-----------------------------------------------------------------------------
(* What the checks of a definition leave.                                  *)

\* The answer of a list of checks is "ok" when none fails, and else that of one that
\* fails.
LEMMA AnswerOfChecks ==
  ASSUME NEW n \in Nat, NEW checks, DOMAIN checks = 1..n
  PROVE  \/ FirstError(checks) = "ok" /\ \A i \in 1..n : checks[i][1]
         \/ \E i \in 1..n : ~checks[i][1] /\ FirstError(checks) = checks[i][2]
<1> DEFINE failed == {i \in DOMAIN checks : ~checks[i][1]}
<1>1. CASE failed = {}
  BY <1>1 DEF FirstError
<1>2. CASE failed # {}
  <2>1. failed \in SUBSET Nat
    OBVIOUS
  <2>2. FirstError(checks) = checks[Min(failed)][2]
    BY <1>2 DEF FirstError
  <2> HIDE DEF failed
  <2>3. Min(failed) \in failed
    BY <1>2, <2>1, LeastMember
  <2> QED BY <2>2, <2>3 DEF failed
<1> QED BY <1>1, <1>2

\* An object of a request as the decoder gives it has values with texts for its keys.
LEMMA ValuesOfObjects ==
  ASSUME NEW m, IsObject(m), NEW key
  PROVE  Get(m, key) \in Value
<1>1. Null \in Value
  <2>1. <<>> \in Seq(STRING)
    BY EmptySeq
  <2> QED BY <2>1 DEF Null, Value
<1> QED BY <1>1 DEF Get, IsObject

\* What GetColumnDefinition can answer about a column.
ColumnAnswers ==
  {"ok", "ErrInvalidColumnName", "ErrReservedName", "ErrMissingColumnType", "ErrUnsupportedColumnType",
   "ErrInconsistentDefaultValue"}

\* The six checks of GetColumnDefinition, one by one.
LEMMA AnswerOfColumn ==
  ASSUME NEW input
  PROVE  LET m == input.keys
             r == GetColumnDefinition(input)
         IN  /\ r.err \in ColumnAnswers
             /\ r.err # "ok" => input.object
             /\ r.err = "ErrInconsistentDefaultValue" =>
                  \/ "defaultValue" \in DOMAIN m /\ ~DefaultFits(TypeOf(m), m["defaultValue"])
                  \/ Get(m, "optional").kind \notin {"bool", "null"}
             /\ r.err = "ok" /\ input.object =>
                  /\ IsNamed(m) /\ Get(m, "name").text # IngestTime /\ TypeOf(m) \in ColumnTypes
                  /\ "defaultValue" \in DOMAIN m => DefaultFits(TypeOf(m), m["defaultValue"])
                  /\ r.column = [name |-> m["name"].text, type |-> TypeOf(m), default |-> AsText(Get(m, "defaultValue")),
                                 hasDefault |-> "defaultValue" \in DOMAIN m,
                                 optional |-> Get(m, "optional").text = <<"true">>]
             /\ r.err = "ok" /\ ~input.object => r.column = ZeroColumn
<1> DEFINE m == input.keys
           defaultOK == TypeOf(m) \in ColumnTypes /\ "defaultValue" \in DOMAIN m => DefaultFits(TypeOf(m), m["defaultValue"])
           checks == <<
             <<IsNamed(m), "ErrInvalidColumnName">>,
             <<Get(m, "name").text # IngestTime, "ErrReservedName">>,
             <<Get(m, "type").kind = "string", "ErrMissingColumnType">>,
             <<TypeOf(m) \in ColumnTypes, "ErrUnsupportedColumnType">>,
             <<defaultOK, "ErrInconsistentDefaultValue">>,
             <<Get(m, "optional").kind \in {"bool", "null"}, "ErrInconsistentDefaultValue">> >>
           err == FirstError(checks)
           made == [name |-> m["name"].text, type |-> TypeOf(m), default |-> AsText(Get(m, "defaultValue")),
                    hasDefault |-> "defaultValue" \in DOMAIN m, optional |-> Get(m, "optional").text = <<"true">>]
<1>1. GetColumnDefinition(input) = IF ~input.object THEN [err |-> "ok", column |-> ZeroColumn]
                                   ELSE IF err # "ok" THEN [err |-> err, column |-> ZeroColumn]
                                   ELSE [err |-> "ok", column |-> made]
  BY DEF GetColumnDefinition
<1>2. \/ err = "ok" /\ \A i \in 1..6 : checks[i][1]
      \/ \E i \in 1..6 : ~checks[i][1] /\ err = checks[i][2]
  <2>1. DOMAIN checks = 1..6
    OBVIOUS
  <2> HIDE DEF checks
  <2> QED BY <2>1, AnswerOfChecks
<1> HIDE DEF err, made
<1>3. \/ /\ err = "ok" /\ IsNamed(m) /\ Get(m, "name").text # IngestTime /\ TypeOf(m) \in ColumnTypes
         /\ defaultOK
      \/ err \in ColumnAnswers \ {"ok", "ErrInconsistentDefaultValue"}
      \/ err = "ErrInconsistentDefaultValue" /\ ~defaultOK
      \/ err = "ErrInconsistentDefaultValue" /\ Get(m, "optional").kind \notin {"bool", "null"}
  <2> HIDE DEF defaultOK
  <2>1. CASE err = "ok" /\ \A i \in 1..6 : checks[i][1]
    <3>1. checks[1][1] /\ checks[2][1] /\ checks[4][1] /\ checks[5][1]
      BY <2>1
    <3> QED BY <2>1, <3>1
  <2>2. ASSUME NEW i \in 1..6, ~checks[i][1], err = checks[i][2]
        PROVE  \/ err \in ColumnAnswers \ {"ok", "ErrInconsistentDefaultValue"}
               \/ err = "ErrInconsistentDefaultValue" /\ ~defaultOK
               \/ err = "ErrInconsistentDefaultValue" /\ Get(m, "optional").kind \notin {"bool", "null"}
    <3>1. CASE i \in 1..4
      BY <2>2, <3>1 DEF ColumnAnswers
    <3>2. CASE i = 5
      BY <2>2, <3>2
    <3>3. CASE i = 6
      BY <2>2, <3>3
    <3> QED BY <3>1, <3>2, <3>3
  <2> QED BY <1>2, <2>1, <2>2
<1> HIDE DEF checks
<1>4. CASE ~input.object
  BY <1>1, <1>4 DEF ColumnAnswers
<1>5. CASE input.object /\ err = "ok"
  BY <1>1, <1>3, <1>5 DEF ColumnAnswers, made
<1>6. CASE input.object /\ err # "ok"
  <2>1. GetColumnDefinition(input).err = err
    BY <1>1, <1>6
  <2> QED BY <1>3, <1>6, <2>1 DEF ColumnAnswers
<1> QED BY <1>4, <1>5, <1>6

\* The loop over the columns: which answers it can have, what "ok" says of all columns,
\* and that any other answer but a repeated name is that of a column.
LEMMA AnswerOfColumns ==
  ASSUME NEW n \in Nat, NEW inputs, DOMAIN inputs = 1..n
  PROVE  LET of(i) == GetColumnDefinition(inputs[i])
             err == ColumnErrors(inputs)
         IN  /\ err \in ColumnAnswers \cup {"ErrDuplicateColumnName"}
             /\ err = "ok" => \A i \in 1..n : /\ of(i).err = "ok"
                                              /\ \A j \in 1..(i - 1) : of(j).column.name # of(i).column.name
             /\ err \notin {"ok", "ErrDuplicateColumnName"} => \E i \in 1..n : of(i).err = err
<1> DEFINE parsed == [i \in DOMAIN inputs |-> GetColumnDefinition(inputs[i])]
           fresh(i) == \A j \in 1..(i - 1) : parsed[j].column.name # parsed[i].column.name
           checks == [i \in DOMAIN inputs |-> IF parsed[i].err # "ok" THEN <<FALSE, parsed[i].err>>
                                              ELSE <<fresh(i), "ErrDuplicateColumnName">>]
           err == ColumnErrors(inputs)
<1>1. err = FirstError(checks)
  BY DEF ColumnErrors
<1>2. \A i \in 1..n : parsed[i].err \in ColumnAnswers
  BY AnswerOfColumn
<1>3. \A i \in 1..n : checks[i] = IF parsed[i].err # "ok" THEN <<FALSE, parsed[i].err>>
                                  ELSE <<fresh(i), "ErrDuplicateColumnName">>
  OBVIOUS
<1>4. \/ err = "ok" /\ \A i \in 1..n : checks[i][1]
      \/ \E i \in 1..n : ~checks[i][1] /\ err = checks[i][2]
  <2>1. DOMAIN checks = 1..n
    OBVIOUS
  <2> HIDE DEF checks, err
  <2> QED BY <1>1, <2>1, AnswerOfChecks
<1> HIDE DEF parsed, fresh, checks, err
<1>5. ASSUME NEW i \in 1..n, checks[i][1]
      PROVE  parsed[i].err = "ok" /\ fresh(i)
  <2>1. CASE parsed[i].err # "ok"
    <3>1. checks[i] = <<FALSE, parsed[i].err>>
      BY <1>3, <2>1
    <3>2. checks[i][1] = FALSE
      BY <3>1
    <3> QED BY <1>5, <3>2, Zenon
  <2>2. CASE parsed[i].err = "ok"
    <3>1. checks[i] = <<fresh(i), "ErrDuplicateColumnName">>
      BY <1>3, <2>2
    <3>2. checks[i][1] = fresh(i)
      BY <3>1
    <3> QED BY <1>5, <2>2, <3>2, Zenon
  <2> QED BY <2>1, <2>2
<1>6. ASSUME NEW i \in 1..n
      PROVE  checks[i][2] = "ErrDuplicateColumnName" \/ (parsed[i].err # "ok" /\ checks[i][2] = parsed[i].err)
  <2>1. CASE parsed[i].err # "ok"
    <3>1. checks[i] = <<FALSE, parsed[i].err>>
      BY <1>3, <2>1
    <3> QED BY <2>1, <3>1
  <2>2. CASE parsed[i].err = "ok"
    <3>1. checks[i] = <<fresh(i), "ErrDuplicateColumnName">>
      BY <1>3, <2>2
    <3> QED BY <3>1
  <2> QED BY <2>1, <2>2
<1>7. CASE err = "ok" /\ \A i \in 1..n : checks[i][1]
  <2>1. \A i \in 1..n : parsed[i].err = "ok" /\ fresh(i)
    BY <1>5, <1>7
  <2>2. \A i \in 1..n : parsed[i] = GetColumnDefinition(inputs[i])
    BY DEF parsed
  <2>3. ASSUME NEW i \in 1..n, NEW j \in 1..(i - 1)
        PROVE  GetColumnDefinition(inputs[j]).column.name # GetColumnDefinition(inputs[i]).column.name
    <3>1. j \in 1..n
      OBVIOUS
    <3>2. parsed[j].column.name # parsed[i].column.name
      BY <2>1 DEF fresh
    <3> QED BY <2>2, <3>1, <3>2
  <2>4. \A i \in 1..n : GetColumnDefinition(inputs[i]).err = "ok"
    BY <2>1, <2>2
  <2>5. err \in ColumnAnswers \cup {"ErrDuplicateColumnName"}
    BY <1>7 DEF ColumnAnswers
  <2> QED BY <1>7, <2>3, <2>4, <2>5 DEF err
<1>8. ASSUME NEW i \in 1..n, err = checks[i][2]
      PROVE  /\ err \in (ColumnAnswers \cup {"ErrDuplicateColumnName"}) \ {"ok"}
             /\ err # "ErrDuplicateColumnName" => parsed[i].err = err
  BY <1>2, <1>6, <1>8 DEF ColumnAnswers
<1>9. CASE \E i \in 1..n : ~checks[i][1] /\ err = checks[i][2]
  <2>1. PICK i \in 1..n : err = checks[i][2]
    BY <1>9
  <2>2. /\ err \in (ColumnAnswers \cup {"ErrDuplicateColumnName"}) \ {"ok"}
        /\ err # "ErrDuplicateColumnName" => parsed[i].err = err
    BY <1>8, <2>1
  <2>3. parsed[i] = GetColumnDefinition(inputs[i])
    BY DEF parsed
  <2> QED BY <2>2, <2>3 DEF err
<1> QED BY <1>4, <1>7, <1>9

\* The ten checks of CreateItemDefinition: what a definition that passes them all is,
\* and where two of its answers come from.
LEMMA AnswerOfDefinition ==
  ASSUME NEW input, NEW n \in Nat, DOMAIN input.columns = 1..n
  PROVE  LET m == input.keys
             latency == Get(m, "latencyMinutes")
             r == CreateItemDefinition(input)
         IN  /\ r.err = "ErrInvalidFileName" => ~CheckFileName(Get(m, "name").text)
             /\ r.err = "ErrInconsistentDefaultValue" => ColumnErrors(input.columns) = r.err
             /\ r.err # "ErrDefinitionAlreadyExists"
             /\ r.err = "ok" =>
                  /\ IsNamed(m) /\ CheckFileName(Get(m, "name").text)
                  /\ \/ Get(m, "folder").kind = "null"
                     \/ Get(m, "folder").kind = "string" /\ CheckFileName(Get(m, "folder").text)
                  /\ LatencyError(latency) = "ok" /\ input.columns # <<>> /\ ColumnErrors(input.columns) = "ok"
                  /\ r.definition =
                       [typeName |-> m["name"].text,
                        folder |-> IF Get(m, "folder").kind = "null" THEN m["name"].text ELSE m["folder"].text,
                        latency |-> IF latency.kind = "null" THEN 1 ELSE Float64(latency.num),
                        columns |-> [i \in DOMAIN input.columns |-> GetColumnDefinition(input.columns[i]).column]]
<1> DEFINE m == input.keys
           latency == Get(m, "latencyMinutes")
           nameOK == CheckFileName(Get(m, "name").text)
           folderOK == \/ Get(m, "folder").kind = "null"
                       \/ Get(m, "folder").kind = "string" /\ CheckFileName(Get(m, "folder").text)
           latencyErr == LatencyError(latency)
           columnErr == ColumnErrors(input.columns)
           made == [typeName |-> m["name"].text,
                    folder |-> IF Get(m, "folder").kind = "null" THEN m["name"].text ELSE m["folder"].text,
                    latency |-> IF latency.kind = "null" THEN 1 ELSE Float64(latency.num),
                    columns |-> [i \in DOMAIN input.columns |-> GetColumnDefinition(input.columns[i]).column]]
           checks == <<
             <<input.object, "not a JSON object">>,
             <<IsNamed(m), "ErrMissingNameField">>,
             <<Get(m, "name").text # IngestTime, "ErrReservedName">>,
             <<nameOK, "ErrInvalidFileName">>,
             <<Get(m, "documentation").kind \in {"string", "null"}, "ErrInvalidDocumentation">>,
             <<folderOK, "ErrInvalidFolderField">>,
             <<latencyErr = "ok", latencyErr>>,
             <<input.hasColumns, "ErrMissingColumns">>,
             <<input.columns # <<>>, "ErrEmptyColumns">>,
             <<columnErr = "ok", columnErr>> >>
           err == FirstError(checks)
<1>1. CreateItemDefinition(input) = [err |-> err, definition |-> IF err # "ok" THEN NoDefinition ELSE made]
  BY DEF CreateItemDefinition
<1>2. latencyErr \in {"ok", "ErrInvalidLatency", "ErrNegativeLatency"}
  BY DEF LatencyError, IsInt64
<1>3. columnErr \in ColumnAnswers \cup {"ErrDuplicateColumnName"}
  BY AnswerOfColumns
<1>4. \/ err = "ok" /\ \A i \in 1..10 : checks[i][1]
      \/ \E i \in 1..10 : ~checks[i][1] /\ err = checks[i][2]
  <2>1. DOMAIN checks = 1..10
    OBVIOUS
  <2> HIDE DEF checks
  <2> QED BY <2>1, AnswerOfChecks
<1> HIDE DEF err, made, nameOK, folderOK, latencyErr, columnErr
<1>5. CASE err = "ok" /\ \A i \in 1..10 : checks[i][1]
  <2>1. checks[2][1] /\ checks[4][1] /\ checks[6][1] /\ checks[7][1] /\ checks[9][1] /\ checks[10][1]
    BY <1>5
  <2>2. IsNamed(m) /\ nameOK /\ folderOK /\ latencyErr = "ok" /\ input.columns # <<>> /\ columnErr = "ok"
    BY <2>1
  <2> HIDE DEF checks
  <2>3. CreateItemDefinition(input).err = "ok" /\ CreateItemDefinition(input).definition = made
    BY <1>1, <1>5
  <2> QED BY <2>2, <2>3 DEF made, nameOK, folderOK, latencyErr, columnErr
<1>6. ASSUME NEW i \in 1..10, ~checks[i][1], err = checks[i][2]
      PROVE  /\ err \notin {"ok", "ErrDefinitionAlreadyExists"}
             /\ err = "ErrInvalidFileName" => ~nameOK
             /\ err = "ErrInconsistentDefaultValue" => columnErr = err
  <2>1. /\ checks[1][2] = "not a JSON object" /\ checks[2][2] = "ErrMissingNameField"
        /\ checks[3][2] = "ErrReservedName" /\ checks[4][2] = "ErrInvalidFileName"
        /\ checks[5][2] = "ErrInvalidDocumentation" /\ checks[6][2] = "ErrInvalidFolderField"
        /\ checks[7][2] = latencyErr /\ checks[8][2] = "ErrMissingColumns"
        /\ checks[9][2] = "ErrEmptyColumns" /\ checks[10][2] = columnErr
    OBVIOUS
  <2>2. /\ checks[4][1] = nameOK /\ checks[7][1] = (latencyErr = "ok") /\ checks[10][1] = (columnErr = "ok")
    OBVIOUS
  <2>3. i \in {1, 2, 3, 4, 5, 6, 7, 8, 9, 10}
    OBVIOUS
  <2> HIDE DEF checks
  <2>4. CASE i = 4
    <3>1. ~nameOK
      BY <1>6, <2>2, <2>4, Zenon
    <3> QED BY <1>6, <2>1, <2>4, <3>1
  <2>5. CASE i = 7
    <3>1. latencyErr # "ok"
      BY <1>6, <2>2, <2>5, Zenon
    <3> QED BY <1>2, <1>6, <2>1, <2>5, <3>1
  <2>6. CASE i = 10
    <3>1. columnErr # "ok"
      BY <1>6, <2>2, <2>6, Zenon
    <3> QED BY <1>3, <1>6, <2>1, <2>6, <3>1 DEF ColumnAnswers
  <2>7. CASE i \in {1, 2, 3, 5, 6, 8, 9}
    BY <1>6, <2>1, <2>7
  <2> QED BY <2>3, <2>4, <2>5, <2>6, <2>7
<1>7. CASE \E i \in 1..10 : ~checks[i][1] /\ err = checks[i][2]
  <2>1. /\ err \notin {"ok", "ErrDefinitionAlreadyExists"}
        /\ err = "ErrInvalidFileName" => ~nameOK
        /\ err = "ErrInconsistentDefaultValue" => columnErr = err
    BY <1>6, <1>7
  <2>2. CreateItemDefinition(input).err = err
    BY <1>1
  <2> QED BY <2>1, <2>2 DEF nameOK, columnErr
<1> QED BY <1>4, <1>5, <1>7

-----------------------------------------------------------------------------
(* The registered definitions.                                             *)

\* The shape of a request, as InputAssumption has it.
LEMMA ShapeOfInput ==
  ASSUME NEW input \in DefinitionInput
  PROVE  /\ input.object \in BOOLEAN /\ IsObject(input.keys)
         /\ Len(input.columns) \in Nat /\ DOMAIN input.columns = 1..Len(input.columns)
         /\ \A i \in DOMAIN input.columns : input.columns[i].object \in BOOLEAN /\ IsObject(input.columns[i].keys)
<1>1. /\ {input.object, input.hasColumns} \subseteq BOOLEAN /\ IsObject(input.keys)
      /\ input.columns \in Seq(Range(input.columns))
      /\ \A i \in DOMAIN input.columns : input.columns[i].object \in BOOLEAN /\ IsObject(input.columns[i].keys)
  BY InputAssumption
<1> QED BY <1>1, LenProperties

\* A key with a value of its own is there.
LEMMA KeyIsThere ==
  ASSUME NEW m, NEW key, Get(m, key).kind # "null"
  PROVE  key \in DOMAIN m /\ m[key] = Get(m, key)
BY DEF Get, Null

\* A definition that is made has a type and a folder that follow the rule for names.
LEMMA MadeNamesFollowRule ==
  ASSUME NEW input \in DefinitionInput, CreateItemDefinition(input).err = "ok"
  PROVE  LET def == CreateItemDefinition(input).definition
         IN  ContainerName(def.typeName) /\ ContainerName(def.folder)
<1> DEFINE m == input.keys
           def == CreateItemDefinition(input).definition
           name == Get(m, "name")
           folder == Get(m, "folder")
<1>1. /\ IsObject(m) /\ IsNamed(m) /\ CheckFileName(name.text)
      /\ folder.kind = "null" \/ (folder.kind = "string" /\ CheckFileName(folder.text))
      /\ def.typeName = m["name"].text
      /\ def.folder = IF folder.kind = "null" THEN m["name"].text ELSE m["folder"].text
  <2>1. PICK n \in Nat : DOMAIN input.columns = 1..n
    BY ShapeOfInput
  <2>2. /\ IsNamed(m) /\ CheckFileName(name.text)
        /\ folder.kind = "null" \/ (folder.kind = "string" /\ CheckFileName(folder.text))
        /\ def = [typeName |-> m["name"].text,
                  folder |-> IF folder.kind = "null" THEN m["name"].text ELSE m["folder"].text,
                  latency |-> IF Get(m, "latencyMinutes").kind = "null" THEN 1 ELSE Float64(Get(m, "latencyMinutes").num),
                  columns |-> [i \in DOMAIN input.columns |-> GetColumnDefinition(input.columns[i]).column]]
    BY <2>1, AnswerOfDefinition
  <2> HIDE DEF def
  <2> QED BY <2>2, ShapeOfInput
<1> HIDE DEF def
<1>2. name \in Value /\ folder \in Value
  BY <1>1, ValuesOfObjects
<1>3. def.typeName = name.text /\ ContainerName(name.text)
  <2>1. m["name"] = name
    BY <1>1, KeyIsThere DEF IsNamed
  <2>2. name.text \in Seq(STRING)
    BY <1>2 DEF Value
  <2> QED BY <1>1, <2>1, <2>2, NameCheckIsRule
<1>4. ASSUME folder.kind = "null"
      PROVE  ContainerName(def.folder)
  <2>1. def.folder = m["name"].text /\ def.typeName = m["name"].text
    BY <1>1, <1>4
  <2> QED BY <1>3, <2>1
<1>5. ASSUME folder.kind = "string"
      PROVE  ContainerName(def.folder)
  <2>1. m["folder"] = folder
    BY <1>5, KeyIsThere
  <2>2. folder.text \in Seq(STRING)
    BY <1>2 DEF Value
  <2> HIDE DEF folder
  <2>3. CheckFileName(folder.text) /\ def.folder = folder.text
    BY <1>1, <1>5, <2>1
  <2> QED BY <2>2, <2>3, NameCheckIsRule
<1> QED BY <1>1, <1>3, <1>4, <1>5 DEF def

\* What the answer to a definition/add request says about its texts, as in
\* TextChecksAgree.
TextsAnswered(input, err) ==
  /\ err = "ErrInvalidFileName" => ~ContainerName(Get(input.keys, "name").text)
  /\ \A c \in DOMAIN input.columns :
       LET m == input.columns[c].keys
           text == Get(m, "defaultValue").text
       IN  input.columns[c].object /\ TypeOf(m) = "timespan" /\ Get(m, "defaultValue").kind = "string" =>
             /\ err = "ok" => Timespan(text) \/ ManyDots(text)
             /\ err = "ErrInconsistentDefaultValue" =>
                  \/ ~Timespan(text)
                  \/ Get(m, "optional").kind \notin {"bool", "null"}
                  \/ \E b \in DOMAIN input.columns \ {c} : GetColumnDefinition(input.columns[b]).err = err

\* handleDefinitionAdd answers with the checks' answer, or, if all pass, with "ok" or a
\* conflict: either way it says of the texts what TextChecksAgree claims.
LEMMA AnswersAgree ==
  ASSUME NEW input \in DefinitionInput,
         NEW err, err = CreateItemDefinition(input).err \/ err = "ErrDefinitionAlreadyExists"
  PROVE  TextsAnswered(input, err)
<1> DEFINE columns == input.columns
           n == Len(columns)
<1>1. /\ IsObject(input.keys) /\ n \in Nat /\ DOMAIN columns = 1..n
      /\ \A i \in DOMAIN columns : columns[i].object \in BOOLEAN /\ IsObject(columns[i].keys)
  BY ShapeOfInput
<1>2. /\ err = "ErrInvalidFileName" => ~CheckFileName(Get(input.keys, "name").text)
      /\ err \in {"ok", "ErrInconsistentDefaultValue"} => ColumnErrors(columns) = err
  BY <1>1, AnswerOfDefinition
<1> HIDE DEF n
<1>3. err = "ErrInvalidFileName" => ~ContainerName(Get(input.keys, "name").text)
  <2>1. Get(input.keys, "name").text \in Seq(STRING)
    BY <1>1, ValuesOfObjects DEF Value
  <2> QED BY <1>2, <2>1, NameCheckIsRule
<1>4. ASSUME NEW c \in DOMAIN columns, columns[c].object, TypeOf(columns[c].keys) = "timespan",
             Get(columns[c].keys, "defaultValue").kind = "string"
      PROVE  LET m == columns[c].keys
                 text == Get(m, "defaultValue").text
             IN  /\ err = "ok" => Timespan(text) \/ ManyDots(text)
                 /\ err = "ErrInconsistentDefaultValue" =>
                      \/ ~Timespan(text)
                      \/ Get(m, "optional").kind \notin {"bool", "null"}
                      \/ \E b \in DOMAIN columns \ {c} : GetColumnDefinition(columns[b]).err = err
  <2> DEFINE m == columns[c].keys
             text == Get(m, "defaultValue").text
             r == GetColumnDefinition(columns[c])
  <2>1. text \in Seq(STRING)
    BY <1>1, ValuesOfObjects DEF Value
  <2>2. DefaultFits(TypeOf(m), m["defaultValue"]) <=> CheckTimeSpan(text)
    <3>1. m["defaultValue"] = Get(m, "defaultValue")
      BY <1>4, KeyIsThere
    <3>2. TypeOf(m) = "timespan" /\ m["defaultValue"].kind = "string"
      BY <1>4, <3>1
    <3>3. DefaultFits("timespan", m["defaultValue"]) <=> CheckTimeSpan(m["defaultValue"].text)
      BY <3>2 DEF DefaultFits
    <3> QED BY <3>1, <3>2, <3>3
  <2>3. "defaultValue" \in DOMAIN m
    BY <1>4, KeyIsThere
  <2>4. /\ r.err = "ok" => DefaultFits(TypeOf(m), m["defaultValue"])
        /\ r.err = "ErrInconsistentDefaultValue" =>
             \/ ~DefaultFits(TypeOf(m), m["defaultValue"])
             \/ Get(m, "optional").kind \notin {"bool", "null"}
    BY <1>4, <2>3, AnswerOfColumn
  <2>5. err = "ok" => r.err = "ok"
    BY <1>1, <1>2, AnswerOfColumns
  <2>6. err = "ErrInconsistentDefaultValue" => \E b \in DOMAIN columns : GetColumnDefinition(columns[b]).err = err
    BY <1>1, <1>2, AnswerOfColumns
  <2>7. err = "ok" => Timespan(text) \/ ManyDots(text)
    BY <2>1, <2>2, <2>4, <2>5, TimespanCheckIsRule
  <2>8. ASSUME err = "ErrInconsistentDefaultValue"
        PROVE  \/ ~Timespan(text)
               \/ Get(m, "optional").kind \notin {"bool", "null"}
               \/ \E b \in DOMAIN columns \ {c} : GetColumnDefinition(columns[b]).err = err
    <3>1. PICK b \in DOMAIN columns : GetColumnDefinition(columns[b]).err = err
      BY <2>6, <2>8
    <3>2. CASE b = c
      BY <2>1, <2>2, <2>4, <2>8, <3>1, <3>2, TimespanCheckIsRule
    <3>3. CASE b # c
      BY <3>1, <3>3
    <3> QED BY <3>2, <3>3
  <2> QED BY <2>7, <2>8
<1> QED BY <1>3, <1>4 DEF TextsAnswered

\* definitions after a type is added, and after one is removed.
LEMMA WithDefinition ==
  ASSUME NEW name, NEW def, name \notin Names
  PROVE  LET with == Put(definitions, name, def)
         IN  /\ DOMAIN with = Names \cup {name}
             /\ \A other \in Names : with[other] = definitions[other]
             /\ with[name] = def
BY DEF Put, Names

LEMMA WithoutDefinition ==
  ASSUME NEW name
  PROVE  LET without == Restrict(definitions, Names \ {name})
         IN  /\ DOMAIN without = Names \ {name}
             /\ \A other \in Names \ {name} : without[other] = definitions[other]
BY DEF Restrict, Names

\* A definition/add request either registers the definition it made under a new name,
\* and then has no error, or leaves definitions alone; its answer is that of the checks
\* or a conflict.
LEMMA AddDefinitionDoes ==
  ASSUME NEW input, AddDefinition(input)
  PROVE  LET made == CreateItemDefinition(input)
             def  == made.definition
         IN  \E err : /\ added' = <<[input |-> input, err |-> err]>> /\ UNCHANGED answered /\ Ready
                      /\ err = made.err \/ err = "ErrDefinitionAlreadyExists"
                      /\ \/ UNCHANGED definitions
                         \/ /\ made.err = "ok" /\ def.typeName \notin Names /\ Cardinality(Names) < MaxTypes
                            /\ Names' = Names \cup {def.typeName}
                            /\ \A other \in Names : definitions'[other] = definitions[other]
                            /\ definitions'[def.typeName] = def
<1> DEFINE made == CreateItemDefinition(input)
           def  == made.definition
           err  == IF made.err # "ok" THEN made.err
                   ELSE IF made.definition.typeName \in Names THEN "ErrDefinitionAlreadyExists" ELSE "ok"
<1>1. /\ Ready /\ (err = "ok" => Cardinality(Names) < MaxTypes)
      /\ definitions' = IF err = "ok" THEN Put(definitions, made.definition.typeName, made.definition)
                                      ELSE definitions
      /\ added' = <<[input |-> input, err |-> err]>>
      /\ UNCHANGED answered
  BY DEF AddDefinition
<1>2. err = made.err \/ err = "ErrDefinitionAlreadyExists"
  OBVIOUS
<1>3. err = "ok" => made.err = "ok" /\ def.typeName \notin Names
  OBVIOUS
<1> HIDE DEF made, err
<1>4. CASE err # "ok"
  BY <1>1, <1>2, <1>4 DEF made
<1>5. CASE err = "ok"
  <2>1. definitions' = Put(definitions, def.typeName, def)
    BY <1>1, <1>5
  <2>2. /\ Names' = Names \cup {def.typeName}
        /\ \A other \in Names : definitions'[other] = definitions[other]
        /\ definitions'[def.typeName] = def
    <3> DEFINE name == def.typeName
    <3>1. name \notin Names /\ definitions' = Put(definitions, name, def)
      BY <1>3, <1>5, <2>1
    <3> HIDE DEF name, def
    <3>2. /\ DOMAIN definitions' = Names \cup {name}
          /\ \A other \in Names : definitions'[other] = definitions[other]
          /\ definitions'[name] = def
      <4>1. /\ DOMAIN Put(definitions, name, def) = Names \cup {name}
            /\ \A other \in Names : Put(definitions, name, def)[other] = definitions[other]
            /\ Put(definitions, name, def)[name] = def
        BY <3>1, WithDefinition
      <4> QED BY <3>1, <4>1
    <3> QED BY <3>2 DEF Names, name
  <2> QED BY <1>1, <1>2, <1>3, <1>5, <2>2 DEF made
<1> QED BY <1>4, <1>5

\* For every set of requests: registered types and folders follow the rule for names,
\* and what the service answers to a definition agrees with the rules for names and
\* timespans.
THEOREM TextChecksAlwaysAgree == Spec => []TextChecksAgree
<1> DEFINE NamesFollowRule == \A name \in Names : ContainerName(name) /\ ContainerName(definitions[name].folder)
           AnswersFollowRule == \A i \in DOMAIN added : TextsAnswered(added[i].input, added[i].err)
<1>1. TextChecksAgree <=> NamesFollowRule /\ AnswersFollowRule
  BY DEF TextChecksAgree, TextsAnswered
<1>2. Init => TextChecksAgree
  <2>1. Init => Names = {} /\ DOMAIN added = {}
    BY DEF Init, Names
  <2> QED BY <1>1, <2>1
<1>3. NamesFollowRule /\ AnswersFollowRule /\ [Next]_vars => (NamesFollowRule /\ AnswersFollowRule)'
  <2> SUFFICES ASSUME NamesFollowRule, AnswersFollowRule, [Next]_vars
               PROVE  NamesFollowRule' /\ AnswersFollowRule'
    OBVIOUS
  <2>1. ASSUME NEW input \in DefinitionInput, AddDefinition(input)
        PROVE  NamesFollowRule' /\ AnswersFollowRule'
    <3> DEFINE made == CreateItemDefinition(input)
               def  == made.definition
    <3>1. PICK err : /\ added' = <<[input |-> input, err |-> err]>>
                     /\ err = made.err \/ err = "ErrDefinitionAlreadyExists"
                     /\ \/ UNCHANGED definitions
                        \/ /\ made.err = "ok" /\ Names' = Names \cup {def.typeName}
                           /\ \A other \in Names : definitions'[other] = definitions[other]
                           /\ definitions'[def.typeName] = def
      BY <2>1, AddDefinitionDoes
    <3>2. AnswersFollowRule'
      <4>1. TextsAnswered(input, err)
        BY <3>1, AnswersAgree
      <4>2. DOMAIN added' = {1} /\ added'[1].input = input /\ added'[1].err = err
        BY <3>1
      <4> QED BY <4>1, <4>2
    <3>3. made.err = "ok" => ContainerName(def.typeName) /\ ContainerName(def.folder)
      BY MadeNamesFollowRule
    <3> HIDE DEF made
    <3>4. NamesFollowRule'
      <4>1. CASE UNCHANGED definitions
        BY <4>1 DEF Names
      <4>2. CASE ~UNCHANGED definitions
        BY <3>1, <3>3, <4>2
      <4> QED BY <4>1, <4>2
    <3> QED BY <3>2, <3>4
  <2>2. ASSUME NEW name \in Names, RemoveDefinition(name)
        PROVE  NamesFollowRule' /\ AnswersFollowRule'
    <3>1. /\ definitions' = Restrict(definitions, Names \ {name})
          /\ UNCHANGED added
      BY <2>2 DEF RemoveDefinition
    <3>2. Names' = Names \ {name} /\ \A other \in Names \ {name} : definitions'[other] = definitions[other]
      BY <3>1, WithoutDefinition DEF Names
    <3>3. NamesFollowRule'
      BY <3>2
    <3> QED BY <3>1, <3>3
  <2>3. ASSUME NEW body \in ItemInput, Ingest(body)
        PROVE  NamesFollowRule' /\ AnswersFollowRule'
    BY <2>3 DEF Ingest, Names
  <2>4. CASE Receive
    <3>1. added' = <<>> /\ UNCHANGED definitions
      BY <2>4 DEF Receive
    <3> QED BY <3>1 DEF Names
  <2>5. CASE UNCHANGED vars
    BY <2>5 DEF vars, Names
  <2> QED BY <2>1, <2>2, <2>3, <2>4, <2>5 DEF Next
<1> QED
  <2>1. TextChecksAgree /\ [Next]_vars => TextChecksAgree'
    <3>1. TextChecksAgree' <=> (NamesFollowRule /\ AnswersFollowRule)'
      BY DEF TextChecksAgree, TextsAnswered
    <3> QED BY <1>1, <1>3, <3>1
  <2> QED BY <1>2, <2>1, PTL DEF Spec

\* The numbers of JSON that fmt writes are texts, as they are for TLC.
NumbersHaveTexts == \A n \in Int : ToString(n) \in STRING

\* The text of a default is a text.
LEMMA DefaultIsText ==
  ASSUME NumbersHaveTexts, NEW v \in Value
  PROVE  AsText(v) \in Seq(STRING)
<1>1. v.num \in Int /\ v.text \in Seq(STRING)
  BY DEF Value
<1>2. Float64(v.num) \in Int
  <2> DEFINE n == v.num
  <2>1. n \in Int /\ Exact \in Int
    BY <1>1, ItemsAssumption
  <2> HIDE DEF n
  <2>2. Float64(n) \in {n, n - 1, n + 1}
    BY DEF Float64
  <2> QED BY <2>1, <2>2 DEF n
<1>3. ASSUME NEW s \in STRING
      PROVE  <<s>> \in Seq(STRING) /\ <<s, ".5">> \in Seq(STRING)
  <2> DEFINE Texts == STRING
  <2>1. s \in Texts /\ ".5" \in Texts
    BY TextAssumption
  <2> HIDE DEF Texts
  <2>2. <<s>> \in Seq(Texts) /\ <<s, ".5">> \in Seq(Texts)
    BY <2>1
  <2> QED BY <2>2 DEF Texts
<1> QED BY <1>1, <1>2, <1>3 DEF AsText, Formatted, NumbersHaveTexts

\* A latency that is not negative stays so as a float64.
LEMMA LatencyIsNat ==
  ASSUME NEW n \in Nat
  PROVE  Float64(n) \in Nat
<1>1. n % 2 # 0 => n - 1 \in Nat
  BY Z3
<1>2. CASE n \in -Exact..Exact \/ n % 2 = 0
  BY <1>2 DEF Float64
<1>3. CASE ~(n \in -Exact..Exact \/ n % 2 = 0)
  BY <1>1, <1>3 DEF Float64
<1> QED BY <1>2, <1>3

\* A column that passes its checks is of the type the code declares and has another
\* name than the column of the ingestion time.
LEMMA ColumnIsColumn ==
  ASSUME NumbersHaveTexts, NEW input, input.object \in BOOLEAN, IsObject(input.keys),
         GetColumnDefinition(input).err = "ok"
  PROVE  LET column == GetColumnDefinition(input).column
         IN  column \in Column /\ column.name # IngestTime
<1> DEFINE m == input.keys
           column == GetColumnDefinition(input).column
<1>1. <<>> \in Seq(STRING) /\ <<>> # IngestTime
  BY EmptySeq DEF IngestTime
<1>2. CASE ~input.object
  <2>1. column = ZeroColumn
    BY <1>2, AnswerOfColumn
  <2> HIDE DEF column
  <2>2. column \in Column /\ column.name # IngestTime
    BY <1>1, <2>1 DEF ZeroColumn, Column, ColumnTypes
  <2> QED BY <2>2 DEF column
<1>3. CASE input.object
  <2> DEFINE name == m["name"].text
             type == TypeOf(m)
             default == AsText(Get(m, "defaultValue"))
             hasDefault == "defaultValue" \in DOMAIN m
             optional == Get(m, "optional").text = <<"true">>
  <2>1. /\ IsNamed(m) /\ Get(m, "name").text # IngestTime /\ type \in ColumnTypes
        /\ column = [name |-> name, type |-> type, default |-> default,
                     hasDefault |-> hasDefault, optional |-> optional]
    BY <1>3, AnswerOfColumn
  <2>2. name = Get(m, "name").text
    BY <2>1, KeyIsThere DEF IsNamed
  <2>3. name \in Seq(STRING) /\ default \in Seq(STRING)
    BY <2>2, ValuesOfObjects, DefaultIsText DEF Value
  <2>4. hasDefault \in BOOLEAN /\ optional \in BOOLEAN
    <3>1. hasDefault \in BOOLEAN
      OBVIOUS
    <3>2. optional \in BOOLEAN
      OBVIOUS
    <3> QED BY <3>1, <3>2
  <2> HIDE DEF column, name, type, default, hasDefault, optional
  <2>5. column \in Column /\ column.name # IngestTime
    BY <2>1, <2>2, <2>3, <2>4 DEF Column
  <2> QED BY <2>5 DEF column
<1> QED BY <1>2, <1>3

\* The columns of a registered definition, as ItemsTypeOK describes them.
ColumnsAreStored(def) ==
  LET stored == StoredItemDefinition(def)
  IN  /\ def.latency \in Nat /\ def.columns \in Seq(Column) \ {<<>>}
      /\ \A p, q \in DOMAIN stored : stored[p].name = stored[q].name => p = q

LEMMA MadeColumnsAreStored ==
  ASSUME NumbersHaveTexts, NEW input \in DefinitionInput, CreateItemDefinition(input).err = "ok"
  PROVE  ColumnsAreStored(CreateItemDefinition(input).definition)
<1> DEFINE inputs == input.columns
           n == Len(inputs)
           of(i) == GetColumnDefinition(inputs[i])
           def == CreateItemDefinition(input).definition
           latency == Get(input.keys, "latencyMinutes")
           columns == [i \in 1..n |-> of(i).column]
<1>1. /\ IsObject(input.keys) /\ n \in Nat /\ DOMAIN inputs = 1..n
      /\ \A i \in 1..n : inputs[i].object \in BOOLEAN /\ IsObject(inputs[i].keys)
  BY ShapeOfInput
<1> HIDE DEF n
<1>2. /\ LatencyError(latency) = "ok" /\ inputs # <<>> /\ ColumnErrors(inputs) = "ok"
      /\ def.latency = IF latency.kind = "null" THEN 1 ELSE Float64(latency.num)
      /\ def.columns = columns
  <2>1. /\ LatencyError(latency) = "ok" /\ inputs # <<>> /\ ColumnErrors(inputs) = "ok"
        /\ def = [typeName |-> input.keys["name"].text,
                  folder |-> IF Get(input.keys, "folder").kind = "null" THEN input.keys["name"].text
                                                                         ELSE input.keys["folder"].text,
                  latency |-> IF latency.kind = "null" THEN 1 ELSE Float64(latency.num),
                  columns |-> [i \in DOMAIN inputs |-> of(i).column]]
    BY <1>1, AnswerOfDefinition
  <2> HIDE DEF def, latency
  <2> QED BY <1>1, <2>1
<1>3. /\ \A i \in 1..n : of(i).err = "ok"
      /\ \A i \in 1..n : \A j \in 1..(i - 1) : of(j).column.name # of(i).column.name
  BY <1>1, <1>2, AnswerOfColumns
<1>4. \A i \in 1..n : of(i).column \in Column /\ of(i).column.name # IngestTime
  BY <1>1, <1>3, ColumnIsColumn
<1>5. def.latency \in Nat
  <2>1. latency \in Value
    BY <1>1, ValuesOfObjects
  <2> HIDE DEF latency, def
  <2>2. CASE latency.kind = "null"
    BY <1>2, <2>2
  <2>3. CASE latency.kind # "null"
    <3>1. latency.num \in Nat
      BY <1>2, <2>1, <2>3 DEF LatencyError, IsInt64, Value
    <3> QED BY <1>2, <2>3, <3>1, LatencyIsNat
  <2> QED BY <2>2, <2>3
<1> HIDE DEF def, of
<1>6. columns \in Seq(Column) /\ Len(columns) = n /\ columns # <<>>
  <2>1. columns \in [1..n -> Column]
    BY <1>4
  <2>2. n # 0
    BY <1>1, <1>2, EmptySeq DEF n
  <2> QED BY <1>1, <2>1, <2>2
<1>7. \A i, j \in 1..n : columns[i].name = columns[j].name => i = j
  <2> SUFFICES ASSUME NEW i \in 1..n, NEW j \in 1..n, i # j
               PROVE  of(i).column.name # of(j).column.name
    OBVIOUS
  <2>1. CASE i < j
    <3>1. i \in 1..(j - 1)
      BY <1>1, <2>1
    <3> QED BY <1>3, <3>1
  <2>2. CASE j < i
    <3>1. j \in 1..(i - 1)
      BY <1>1, <2>2
    <3> QED BY <1>3, <3>1
  <2> QED BY <1>1, <2>1, <2>2
<1> DEFINE own == [i \in DOMAIN columns |-> [name |-> columns[i].name, type |-> columns[i].type]]
           time == << [name |-> IngestTime, type |-> "datetime"] >>
           stored == time \o own
<1>8. StoredItemDefinition(def) = stored
  BY <1>2 DEF StoredItemDefinition
<1>9. /\ DOMAIN stored = 1..(n + 1) /\ stored[1].name = IngestTime
      /\ \A p \in 2..(n + 1) : stored[p].name = columns[p - 1].name
  <2>1. own = [i \in 1..n |-> [name |-> columns[i].name, type |-> columns[i].type]]
    BY <1>1
  <2> DEFINE Stored == [name : Seq(STRING), type : ColumnTypes]
  <2>2. own \in Seq(Stored) /\ Len(own) = n
    <3>1. \A i \in 1..n : columns[i] \in Column
      BY <1>4
    <3>2. own \in [1..n -> Stored]
      BY <2>1, <3>1 DEF Column
    <3> HIDE DEF own, Stored
    <3> QED BY <1>1, <3>2
  <2>3. \A i \in 1..n : own[i].name = columns[i].name
    BY <2>1
  <2>4. time \in Seq(Stored) /\ Len(time) = 1 /\ time[1].name = IngestTime
    <3>1. IngestTime \in Seq(STRING)
      <4> DEFINE Texts == STRING
      <4>1. "ingest_time" \in Texts
        BY TextAssumption
      <4> HIDE DEF Texts
      <4>2. <<"ingest_time">> \in Seq(Texts)
        BY <4>1
      <4> QED BY <4>2 DEF IngestTime, Texts
    <3>2. [name |-> IngestTime, type |-> "datetime"] \in Stored
      BY <3>1 DEF ColumnTypes
    <3> QED BY <3>2
  <2> HIDE DEF own, time, columns, Stored
  <2>5. /\ stored \in Seq(Stored) /\ Len(stored) = 1 + n
        /\ \A p \in 1..(1 + n) : stored[p] = IF p <= 1 THEN time[p] ELSE own[p - 1]
    <3>1. /\ stored \in Seq(Stored) /\ Len(stored) = Len(time) + Len(own)
          /\ \A p \in 1..(Len(time) + Len(own)) : stored[p] = IF p <= Len(time) THEN time[p] ELSE own[p - Len(time)]
      BY <2>2, <2>4, ConcatProperties
    <3> HIDE DEF stored
    <3> QED BY <1>1, <2>2, <2>4, <3>1
  <2>6. DOMAIN stored = 1..(1 + n)
    BY <2>5, LenProperties
  <2> HIDE DEF stored
  <2>7. 1 \in 1..(1 + n) /\ 1..(1 + n) = 1..(n + 1)
    BY <1>1
  <2>8. \A p \in 2..(n + 1) : p \in 1..(1 + n) /\ ~(p <= 1) /\ p - 1 \in 1..n
    BY <1>1
  <2> QED BY <2>3, <2>4, <2>5, <2>6, <2>7, <2>8
<1>10. \A p, q \in DOMAIN stored : stored[p].name = stored[q].name => p = q
  <2> SUFFICES ASSUME NEW p \in 1..(n + 1), NEW q \in 1..(n + 1), stored[p].name = stored[q].name
               PROVE  p = q
    BY <1>9
  <2>0. \A r \in 2..(n + 1) : r - 1 \in 1..n
    BY <1>1
  <2>1. \A i \in 1..n : columns[i].name # IngestTime
    BY <1>4
  <2> HIDE DEF columns, stored
  <2>2. CASE p = 1 /\ q = 1
    BY <2>2
  <2>3. CASE p = 1 /\ q # 1
    BY <1>9, <2>0, <2>1, <2>3
  <2>4. CASE p # 1 /\ q = 1
    BY <1>9, <2>0, <2>1, <2>4
  <2>5. CASE p # 1 /\ q # 1
    <3>1. p - 1 = q - 1
      BY <1>7, <1>9, <2>0, <2>5
    <3> QED BY <1>1, <3>1
  <2> QED BY <2>2, <2>3, <2>4, <2>5
<1> QED BY <1>2, <1>5, <1>6, <1>8, <1>10 DEF ColumnsAreStored, def

\* For every set of requests, every float64 precision and every bound on types: the
\* registered definitions are of the types the code declares, and no column of a stored
\* schema hides another.  The hypothesis is about TLC's ToString alone, of which the
\* provers know nothing.
THEOREM ItemsTypeAlwaysOK ==
  ASSUME NumbersHaveTexts
  PROVE  Spec => []ItemsTypeOK
<1> DEFINE Stored == \A name \in Names : definitions[name].typeName = name /\ ColumnsAreStored(definitions[name])
           Counted == IsFiniteSet(Names) /\ Cardinality(Names) <= MaxTypes
           Answers == Len(added) + Len(answered) <= 1
           Inv == Stored /\ Counted /\ Answers
<1>1. Inv => ItemsTypeOK
  BY DEF ItemsTypeOK, ColumnsAreStored
<1>2. Init => Inv
  <2> SUFFICES ASSUME Init
               PROVE  Inv
    OBVIOUS
  <2>1. Names = {} /\ added = <<>> /\ answered = <<>>
    BY DEF Init, Names
  <2>2. Counted
    BY <2>1, FS_EmptySet, ItemsAssumption
  <2>3. Answers
    BY <2>1
  <2> QED BY <2>1, <2>2, <2>3
<1>3. Inv /\ [Next]_vars => Inv'
  <2> SUFFICES ASSUME Inv, [Next]_vars
               PROVE  Inv'
    OBVIOUS
  <2>1. Cardinality(Names) \in Nat /\ MaxTypes \in Nat
    BY FS_CardinalityType, ItemsAssumption
  <2>2. ASSUME NEW input \in DefinitionInput, AddDefinition(input)
        PROVE  Inv'
    <3> DEFINE made == CreateItemDefinition(input)
               def  == made.definition
    <3>1. PICK err : /\ added' = <<[input |-> input, err |-> err]>> /\ UNCHANGED answered /\ Ready
                     /\ \/ UNCHANGED definitions
                        \/ /\ made.err = "ok" /\ def.typeName \notin Names /\ Cardinality(Names) < MaxTypes
                           /\ Names' = Names \cup {def.typeName}
                           /\ \A other \in Names : definitions'[other] = definitions[other]
                           /\ definitions'[def.typeName] = def
      BY <2>2, AddDefinitionDoes
    <3>2. made.err = "ok" => ColumnsAreStored(def)
      BY MadeColumnsAreStored
    <3> HIDE DEF made
    <3>3. Answers'
      <4>1. Len(added') = 1 /\ Len(answered') = 0
        BY <3>1 DEF Ready
      <4> QED BY <4>1
    <3>4. CASE UNCHANGED definitions
      BY <3>3, <3>4 DEF Names
    <3>5. CASE ~UNCHANGED definitions
      <4> DEFINE name == def.typeName
      <4>1. /\ made.err = "ok" /\ name \notin Names /\ Cardinality(Names) < MaxTypes
            /\ Names' = Names \cup {name}
            /\ \A other \in Names : definitions'[other] = definitions[other]
            /\ definitions'[name] = def
        BY <3>1, <3>5
      <4>2. Stored'
        BY <3>2, <4>1
      <4> HIDE DEF name
      <4>3. IsFiniteSet(Names') /\ Cardinality(Names') = Cardinality(Names) + 1
        BY <4>1, FS_AddElement
      <4>4. Counted'
        BY <2>1, <4>1, <4>3
      <4> QED BY <3>3, <4>2, <4>4
    <3> QED BY <3>4, <3>5
  <2>3. ASSUME NEW name \in Names, RemoveDefinition(name)
        PROVE  Inv'
    <3>1. /\ definitions' = Restrict(definitions, Names \ {name})
          /\ UNCHANGED <<added, answered>>
      BY <2>3 DEF RemoveDefinition
    <3>2. Names' = Names \ {name} /\ \A other \in Names \ {name} : definitions'[other] = definitions[other]
      BY <3>1, WithoutDefinition DEF Names
    <3>3. Stored'
      BY <3>2
    <3>4. IsFiniteSet(Names') /\ Cardinality(Names') = Cardinality(Names) - 1
      BY <3>2, FS_RemoveElement
    <3>5. Counted'
      BY <2>1, <3>4
    <3>6. Answers'
      BY <3>1
    <3> QED BY <3>3, <3>5, <3>6
  <2>4. ASSUME NEW body \in ItemInput, Ingest(body)
        PROVE  Inv'
    <3>1. Len(answered') = 1 /\ added' = <<>> /\ UNCHANGED definitions
      BY <2>4 DEF Ingest, Ready
    <3> QED BY <3>1 DEF Names
  <2>5. CASE Receive
    <3>1. added' = <<>> /\ answered' = <<>> /\ UNCHANGED definitions
      BY <2>5 DEF Receive
    <3>2. Answers'
      BY <3>1
    <3> QED BY <3>1, <3>2 DEF Names
  <2>6. CASE UNCHANGED vars
    BY <2>6 DEF vars, Names
  <2> QED BY <2>2, <2>3, <2>4, <2>5, <2>6 DEF Next
<1> QED
  <2> HIDE DEF Inv
  <2> QED BY <1>1, <1>2, <1>3, PTL DEF Spec

\* A value that a column accepts as default is one that it accepts in an item, and is
\* written there as the default is, but for the quotes of a dynamic column.
LEMMA DefaultIsField ==
  ASSUME NEW input, input.object, GetColumnDefinition(input).err = "ok",
         GetColumnDefinition(input).column.hasDefault, ~NeedsQuotes(GetColumnDefinition(input).column.default)
  PROVE  LET column == GetColumnDefinition(input).column
             given == GivenField(column.type, input.keys["defaultValue"])
         IN  given = Good(column.default)
               \/ (given = Good(Escaped(column.default)) /\ column.default \in {<<"{", "}">>, <<"null">>})
<1> DEFINE m == input.keys
           v == m["defaultValue"]
           type == TypeOf(m)
           column == GetColumnDefinition(input).column
           hasDefault == "defaultValue" \in DOMAIN m
           optional == Get(m, "optional").text = <<"true">>
<1>1. /\ type \in ColumnTypes /\ (hasDefault => DefaultFits(type, v))
      /\ column = [name |-> m["name"].text, type |-> type, default |-> AsText(Get(m, "defaultValue")),
                   hasDefault |-> hasDefault, optional |-> optional]
  BY AnswerOfColumn
<1>2. column.hasDefault
  OBVIOUS
<1>3. ~NeedsQuotes(column.default)
  OBVIOUS
<1> HIDE DEF column, optional
<1>4. hasDefault
  <2> HIDE DEF hasDefault
  <2>1. column.hasDefault = hasDefault
    BY <1>1
  <2> QED BY <1>2, <2>1, Zenon
<1>5. column.type = type /\ column.default = AsText(v)
  <2>1. Get(m, "defaultValue") = v
    BY <1>4 DEF Get
  <2> HIDE DEF type, v, hasDefault
  <2> QED BY <1>1, <2>1
<1>6. DefaultFits(type, v)
  BY <1>1, <1>4
<1> HIDE DEF type, v
<1>7. v.kind # "number" => AsText(v) = v.text
  BY DEF AsText
<1>8. type \in {"bool", "datetime", "dynamic", "int", "real", "string", "timespan"}
  BY <1>1 DEF ColumnTypes
<1>9. \/ GivenField(type, v) = Good(AsText(v))
      \/ GivenField(type, v) = Good(Escaped(AsText(v))) /\ AsText(v) \in {<<"{", "}">>, <<"null">>}
  <2>1. CASE type = "bool"
    BY <1>6, <1>7, <2>1 DEF GivenField, DefaultFits
  <2>2. CASE type = "int"
    BY <1>6, <2>2 DEF GivenField, DefaultFits
  <2>3. CASE type = "real"
    BY <1>6, <2>3 DEF GivenField, DefaultFits
  <2>4. CASE type = "datetime"
    <3>1. v.kind = "string" /\ CheckDateTime(v.text) /\ AsText(v) = v.text
      BY <1>6, <1>7, <2>4 DEF DefaultFits
    <3> QED BY <2>4, <3>1 DEF GivenField, StringField
  <2>5. CASE type = "timespan"
    <3>1. v.kind = "string" /\ CheckTimeSpan(v.text) /\ AsText(v) = v.text
      BY <1>6, <1>7, <2>5 DEF DefaultFits
    <3> QED BY <2>5, <3>1 DEF GivenField, StringField
  <2>6. CASE type = "string"
    <3>1. v.kind = "string" /\ AsText(v) = v.text /\ ~NeedsQuotes(v.text)
      BY <1>3, <1>5, <1>6, <1>7, <2>6 DEF DefaultFits
    <3> QED BY <2>6, <3>1 DEF GivenField, StringField
  <2>7. CASE type = "dynamic"
    <3>1. v.kind = "string" /\ JsonObject(v.text) /\ AsText(v) = v.text /\ ~NeedsQuotes(v.text)
      BY <1>3, <1>5, <1>6, <1>7, <2>7 DEF DefaultFits
    <3>2. v.text \in {<<"{", "}">>, <<"null">>}
      <4> DEFINE quoted == <<"{", Quote, "a", Quote, ":", "1", Comma, Quote, "d", Quote, ":", "1", "}">>
      <4>1. 2 \in DOMAIN quoted /\ quoted[2] \in Special
        BY DEF Special
      <4> HIDE DEF quoted
      <4>2. NeedsQuotes(quoted)
        BY <4>1 DEF NeedsQuotes
      <4>3. v.text \in {<<"{", "}">>, quoted, <<"null">>}
        BY <3>1 DEF JsonObject, quoted
      <4> QED BY <3>1, <4>2, <4>3
    <3>3. GivenField(type, v) = Good(Escaped(v.text))
      BY <2>7, <3>1 DEF GivenField, StringField, JsonValid
    <3> QED BY <3>1, <3>2, <3>3
  <2> QED BY <1>8, <2>1, <2>2, <2>3, <2>4, <2>5, <2>6, <2>7
<1> QED BY <1>5, <1>9 DEF column, v

\* For every set of requests: of an accepted definition, a required column that is left
\* out is written as if its default had been sent, for every default that needs no
\* quotes.
THEOREM DefaultAlwaysActsAsExplicit == Spec => []DefaultActsAsExplicit
<1> DEFINE Explicit(input) ==
             \A c \in DOMAIN input.columns :
               LET m == input.columns[c].keys
                   column == GetColumnDefinition(input.columns[c]).column
               IN  column.hasDefault /\ ~column.optional /\ ~NeedsQuotes(column.default) =>
                     LET given == GivenField(column.type, m["defaultValue"])
                     IN  given.err = "ok" /\ Read(MissingField(column).text) = Read(given.text)
           Answer == \A i \in DOMAIN added : added[i].err = "ok" => Explicit(added[i].input)
<1>1. ASSUME NEW input \in DefinitionInput, CreateItemDefinition(input).err = "ok"
      PROVE  Explicit(input)
  <2> DEFINE columns == input.columns
  <2>1. PICK n \in Nat : DOMAIN columns = 1..n
    BY ShapeOfInput
  <2>2. ColumnErrors(columns) = "ok"
    BY <1>1, <2>1, AnswerOfDefinition
  <2>3. \A c \in DOMAIN columns : GetColumnDefinition(columns[c]).err = "ok" /\ columns[c].object \in BOOLEAN
    BY <2>1, <2>2, AnswerOfColumns, ShapeOfInput
  <2> SUFFICES ASSUME NEW c \in DOMAIN columns,
                      GetColumnDefinition(columns[c]).column.hasDefault,
                      ~GetColumnDefinition(columns[c]).column.optional,
                      ~NeedsQuotes(GetColumnDefinition(columns[c]).column.default)
               PROVE  LET column == GetColumnDefinition(columns[c]).column
                          given == GivenField(column.type, columns[c].keys["defaultValue"])
                      IN  given.err = "ok" /\ Read(MissingField(column).text) = Read(given.text)
    OBVIOUS
  <2> DEFINE column == GetColumnDefinition(columns[c]).column
             given == GivenField(column.type, columns[c].keys["defaultValue"])
  <2>4. columns[c].object
    <3>1. ~columns[c].object => column = ZeroColumn
      BY <2>3, AnswerOfColumn
    <3>2. ZeroColumn.hasDefault = FALSE
      BY DEF ZeroColumn
    <3> HIDE DEF column
    <3>3. column.hasDefault
      BY DEF column
    <3> QED BY <3>1, <3>2, <3>3
  <2>5. \/ given = Good(column.default)
        \/ given = Good(Escaped(column.default)) /\ column.default \in {<<"{", "}">>, <<"null">>}
    BY <2>3, <2>4, DefaultIsField
  <2>6. MissingField(column) = Good(column.default)
    BY DEF MissingField
  <2>7. ~NeedsQuotes(column.default)
    OBVIOUS
  <2> HIDE DEF given, column
  <2>8. given.err = "ok" /\ (given.text = column.default \/ Read(given.text) = Read(column.default))
    <3>1. CASE given = Good(column.default)
      BY <3>1 DEF Good
    <3>2. CASE given = Good(Escaped(column.default)) /\ column.default \in {<<"{", "}">>, <<"null">>}
      <4>1. Read(Escaped(column.default)) = Read(column.default)
        <5> DEFINE T == {"{", "}", "null"} \cup {Quote}
                   t == column.default
                   a == "{"
                   b == "}"
                   c0 == "null"
        <5>1. a \in T /\ b \in T /\ c0 \in T /\ Quote \in T
          OBVIOUS
        <5>2. t = <<a, b>> \/ t = <<c0>>
          BY <3>2
        <5> HIDE DEF T, t, a, b, c0
        <5>3. t \in Seq(T)
          <6>1. <<a, b>> \in Seq(T)
            BY <5>1
          <6>2. <<c0>> \in Seq(T)
            BY <5>1
          <6> QED BY <5>2, <6>1, <6>2
        <5>4. Read(Escaped(t)) = <<t>>
          BY <5>1, <5>3, FieldsRead, ReadAlone
        <5>5. Read(t) = <<t>>
          BY <2>7, <5>1, <5>3, FieldsRead, ReadAlone DEF t
        <5> QED BY <5>4, <5>5 DEF t
      <4>2. given.err = "ok" /\ given.text = Escaped(column.default)
        BY <3>2 DEF Good
      <4> QED BY <4>1, <4>2
    <3> QED BY <2>5, <3>1, <3>2
  <2>9. MissingField(column).text = column.default
    BY <2>6 DEF Good
  <2>10. Read(MissingField(column).text) = Read(given.text)
    BY <2>8, <2>9
  <2> QED BY <2>8, <2>10 DEF given, column
<1>2. DefaultActsAsExplicit <=> Answer
  BY DEF DefaultActsAsExplicit
<1>3. Init => Answer
  BY DEF Init
<1> HIDE DEF Explicit
<1>4. Answer /\ [Next]_vars => Answer'
  <2> SUFFICES ASSUME Answer, [Next]_vars
               PROVE  Answer'
    OBVIOUS
  <2>1. ASSUME NEW input \in DefinitionInput, AddDefinition(input)
        PROVE  Answer'
    <3>1. PICK err : /\ added' = <<[input |-> input, err |-> err]>>
                     /\ err = CreateItemDefinition(input).err \/ err = "ErrDefinitionAlreadyExists"
      BY <2>1, AddDefinitionDoes
    <3>2. err = "ok" => Explicit(input)
      BY <1>1, <3>1
    <3>3. DOMAIN added' = {1} /\ added'[1].input = input /\ added'[1].err = err
      BY <3>1
    <3> QED BY <3>2, <3>3
  <2>2. ASSUME NEW name \in Names, RemoveDefinition(name)
        PROVE  Answer'
    BY <2>2 DEF RemoveDefinition
  <2>3. ASSUME NEW body \in ItemInput, Ingest(body)
        PROVE  Answer'
    BY <2>3 DEF Ingest
  <2>4. CASE Receive
    <3>1. added' = <<>>
      BY <2>4 DEF Receive
    <3> QED BY <3>1
  <2>5. CASE UNCHANGED vars
    BY <2>5 DEF vars
  <2> QED BY <2>1, <2>2, <2>3, <2>4, <2>5 DEF Next
<1> QED
  <2>1. DefaultActsAsExplicit' <=> Answer'
    BY DEF DefaultActsAsExplicit, Explicit
  <2> HIDE DEF Answer
  <2> QED BY <1>2, <1>3, <1>4, <2>1, PTL DEF Spec

-----------------------------------------------------------------------------
(* The fields of an item.                                                  *)

\* A text that CheckTimeSpan lets through has digits, "d" and "h" only.
LEMMA TimespansArePlain ==
  ASSUME NEW t \in Seq(STRING), CheckTimeSpan(t)
  PROVE  ~NeedsQuotes(t)
<1> DEFINE len == Len(t)
           lead == Max({n \in 0..Len(t) : \A i \in 1..n : t[i] \in Digits})
           days == 0 < lead /\ lead < Len(t) /\ t[lead + 1] = "d"
           Fine(c) == c \in Digits \/ c = "d" \/ c = "h"
<1>1. len \in Nat /\ DOMAIN t = 1..len
  BY LenProperties
<1>2. lead \in 0..len /\ \A i \in 1..lead : t[i] \in Digits
  BY LeadOf
<1>3. /\ t # <<>>
      /\ LET rest == IF days THEN SubSeq(t, lead + 2, len) ELSE t
         IN  rest = <<>> \/ ParseDuration(rest)
  BY DEF CheckTimeSpan
<1>4. ASSUME NEW c, Fine(c)
      PROVE  c \notin Special
  BY <1>4 DEF Digits, Special, Comma, Quote, Newline
<1>5. ASSUME NEW p \in 1..len
      PROVE  Fine(t[p])
  <2>1. CASE ~days
    <3>1. ParseDuration(t)
      <4> HIDE DEF days
      <4> QED BY <1>3, <2>1
    <3> QED BY <3>1, DurationsHaveDigits
  <2>2. CASE days
    <3> DEFINE rest == SubSeq(t, lead + 2, len)
               l == lead
    <3>1. rest = <<>> \/ ParseDuration(rest)
      <4> HIDE DEF days
      <4> QED BY <1>3, <2>2
    <3>2. l \in 0..len /\ t[l + 1] = "d" /\ l < len
      BY <1>2, <2>2
    <3> HIDE DEF lead, len
    <3>3. CASE p <= l
      <4>1. p \in 1..lead
        BY <1>1, <3>2, <3>3 DEF l
      <4> QED BY <1>2, <4>1
    <3>4. CASE p = l + 1
      BY <3>2, <3>4
    <3>5. CASE p > l + 1
      <4>1. l + 2 \in 1..(len + 1) /\ len \in 0..len /\ l + 2 <= len /\ p - (l + 1) \in 1..((len - (l + 2)) + 1)
        BY <1>1, <3>2, <3>5
      <4> HIDE DEF l
      <4>2. /\ SubSeq(t, l + 2, len) \in Seq(STRING) /\ Len(SubSeq(t, l + 2, len)) = (len - (l + 2)) + 1
            /\ SubSeq(t, l + 2, len)[p - (l + 1)] = t[((l + 2) + (p - (l + 1))) - 1]
        BY <4>1, PartOf DEF len
      <4>3. ((l + 2) + (p - (l + 1))) - 1 = p
        BY <1>1, <3>2
      <4>4. rest \in Seq(STRING) /\ p - (l + 1) \in 1..Len(rest) /\ rest[p - (l + 1)] = t[p]
        BY <4>1, <4>2, <4>3 DEF l
      <4> HIDE DEF rest
      <4>5. rest # <<>>
        <5>1. Len(rest) # 0
          BY <1>1, <3>2, <4>4
        <5> QED BY <5>1, EmptySeq
      <4>6. rest[p - (l + 1)] = "h" \/ rest[p - (l + 1)] \in Digits
        BY <3>1, <4>4, <4>5, DurationsHaveDigits
      <4> QED BY <4>4, <4>6
    <3>6. p <= l \/ p = l + 1 \/ p > l + 1
      BY <1>1, <3>2
    <3> QED BY <3>3, <3>4, <3>5, <3>6
  <2> QED BY <2>1, <2>2
<1> HIDE DEF Fine, len
<1> QED BY <1>1, <1>4, <1>5 DEF NeedsQuotes

\* What ToString makes of a number is no comma, quote or newline.
NumbersArePlain == \A n \in Int : ToString(n) \notin Special

\* What the fields of items and the line are made of.
Chars == STRING \cup Special \cup {"date", ".", "ms"}

\* A value of an item as the decoder gives it.
Decoded(v) == v \in Value /\ (v.kind = "bool" => v.text \in {<<"true">>, <<"false">>})

\* A number as fmt writes it.
LEMMA FormattedIsPlain ==
  ASSUME NumbersHaveTexts, NumbersArePlain, NEW n \in Int, NEW frac \in BOOLEAN
  PROVE  Formatted(n, frac) \in Seq(Chars) /\ ~NeedsQuotes(Formatted(n, frac))
<1> DEFINE d == ToString(n)
<1>1. d \in Chars /\ d \notin Special /\ ".5" \in Chars
  BY TextAssumption DEF NumbersHaveTexts, NumbersArePlain, Chars
<1>2. ".5" \notin Special
  BY DEF Special, Comma, Quote, Newline
<1> HIDE DEF d
<1>3. <<d>> \in Seq(Chars) /\ <<d, ".5">> \in Seq(Chars)
  BY <1>1
<1>4. ~NeedsQuotes(<<d>>) /\ ~NeedsQuotes(<<d, ".5">>)
  BY <1>1, <1>2 DEF NeedsQuotes
<1> QED BY <1>3, <1>4 DEF Formatted, d

\* A given field that is accepted is read back as the value that was sent.
LEMMA GivenFieldReads ==
  ASSUME NumbersHaveTexts, NumbersArePlain, NEW type \in ColumnTypes, NEW v, Decoded(v),
         GivenField(type, v).err = "ok", type = "datetime" => ~NeedsQuotes(v.text), v.num \in -Exact..Exact
  PROVE  ReadsAs(Chars, GivenField(type, v).text, IF v.kind = "number" THEN Formatted(v.num, v.frac) ELSE v.text)
<1> DEFINE sent == IF v.kind = "number" THEN Formatted(v.num, v.frac) ELSE v.text
           text == GivenField(type, v).text
<1>1. Quote \in Chars /\ v.num \in Int /\ v.frac \in BOOLEAN /\ v.text \in Seq(STRING)
  BY DEF Chars, Special, Decoded, Value
<1>2. v.text \in Seq(Chars)
  <2>1. STRING \subseteq Chars
    BY DEF Chars
  <2> QED BY <1>1, <2>1, SeqMonotonic
<1>3. sent \in Seq(Chars)
  BY <1>1, <1>2, FormattedIsPlain
<1>4. text = Escaped(sent) \/ (text = sent /\ ~NeedsQuotes(sent))
  <2>1. CASE type = "bool"
    <3>1. v.kind = "bool" /\ text = v.text
      BY <2>1 DEF GivenField, Good, Bad
    <3>2. v.text \in {<<"true">>, <<"false">>}
      BY <3>1 DEF Decoded
    <3>3. ~NeedsQuotes(<<"true">>) /\ ~NeedsQuotes(<<"false">>)
      <4>1. "true" \notin Special /\ "false" \notin Special
        BY DEF Special, Comma, Quote, Newline
      <4>2. \A c : c \notin Special => ~NeedsQuotes(<<c>>)
        BY DEF NeedsQuotes
      <4> QED BY <4>1, <4>2
    <3> QED BY <3>1, <3>2, <3>3
  <2>2. CASE type \in {"int", "real"}
    <3>1. v.kind = "number" /\ text = AsText(v)
      BY <2>2 DEF GivenField, IsInt64, Good, Bad
    <3>2. AsText(v) = Formatted(v.num, v.frac)
      BY <3>1 DEF AsText, Float64
    <3>3. ~NeedsQuotes(Formatted(v.num, v.frac))
      BY <1>1, FormattedIsPlain
    <3> QED BY <3>1, <3>2, <3>3
  <2>3. CASE type = "datetime"
    <3>1. v.kind = "string" /\ text = v.text
      BY <2>3 DEF GivenField, StringField, Good, Bad
    <3> QED BY <2>3, <3>1
  <2>4. CASE type = "dynamic"
    <3>1. v.kind = "string" /\ text = Escaped(v.text)
      BY <2>4 DEF GivenField, StringField, Good, Bad
    <3> QED BY <3>1
  <2>5. CASE type = "string"
    <3>1. v.kind = "string" /\ text = IF NeedsQuotes(v.text) THEN Escaped(v.text) ELSE v.text
      BY <2>5 DEF GivenField, StringField, Good, Bad
    <3> QED BY <3>1
  <2>6. CASE type = "timespan"
    <3>1. v.kind = "string" /\ text = v.text /\ CheckTimeSpan(v.text)
      BY <2>6 DEF GivenField, StringField, Good, Bad
    <3>2. ~NeedsQuotes(v.text)
      BY <1>1, <3>1, TimespansArePlain
    <3> QED BY <3>1, <3>2
  <2> QED BY <2>1, <2>2, <2>3, <2>4, <2>5, <2>6 DEF ColumnTypes
<1> HIDE DEF sent, text
<1>5. ReadsAs(Chars, text, sent)
  BY <1>1, <1>3, <1>4, FieldsRead
<1> QED BY <1>5 DEF sent, text

\* So is each field of a converted item, also one that takes the default.
LEMMA FieldReads ==
  ASSUME NumbersHaveTexts, NumbersArePlain, NEW column \in Column, NEW data, \A key \in DOMAIN data : Decoded(data[key]),
         Field(column, data).err = "ok", ~Unquoted(column, data), ~Inexact(column, data)
  PROVE  ReadsAs(Chars, Field(column, data).text, Sent(column, data))
<1>1. column.type \in ColumnTypes /\ column.default \in Seq(STRING)
  BY DEF Column
<1>2. CASE column.name \in DOMAIN data
  <2> DEFINE v == data[column.name]
  <2>1. /\ Decoded(v) /\ Field(column, data) = GivenField(column.type, v)
        /\ Sent(column, data) = IF v.kind = "number" THEN Formatted(v.num, v.frac) ELSE v.text
    BY <1>2 DEF Field, Sent
  <2>2. v.num \in -Exact..Exact
    BY <1>2 DEF Inexact
  <2>3. GivenField(column.type, v).err = "ok"
    BY <2>1
  <2>4. column.type = "datetime" => ~NeedsQuotes(v.text)
    <3> SUFFICES ASSUME column.type = "datetime"
                 PROVE  ~NeedsQuotes(v.text)
      OBVIOUS
    <3>1. v.kind = "string"
      BY <2>3 DEF GivenField, StringField, Good, Bad
    <3>2. Sent(column, data) = v.text
      BY <2>1, <3>1
    <3> QED BY <3>2 DEF Unquoted
  <2> HIDE DEF v
  <2> QED BY <1>1, <2>1, <2>2, <2>3, <2>4, GivenFieldReads
<1>3. CASE column.name \notin DOMAIN data
  <2>1. Sent(column, data) = IF column.optional THEN <<>> ELSE column.default
    BY <1>3 DEF Sent
  <2>2. Field(column, data).text = Sent(column, data)
    <3>1. Field(column, data) = MissingField(column) /\ MissingField(column).err = "ok"
      BY <1>3 DEF Field
    <3>2. MissingField(column).text = IF column.optional THEN <<>> ELSE column.default
      BY <3>1 DEF MissingField, Good, Bad
    <3> QED BY <2>1, <3>1, <3>2
  <2>3. ~NeedsQuotes(Sent(column, data))
    BY <1>3 DEF Unquoted
  <2>4. Sent(column, data) \in Seq(Chars) /\ Quote \in Chars
    <3>1. STRING \subseteq Chars /\ Quote \in Chars
      BY DEF Chars, Special
    <3>2. column.default \in Seq(Chars) /\ <<>> \in Seq(Chars)
      BY <1>1, <3>1, SeqMonotonic, EmptySeq
    <3> QED BY <2>1, <3>1, <3>2
  <2> QED BY <2>2, <2>3, <2>4, FieldsRead
<1> QED BY <1>2, <1>3

\* A field is accepted when its value fits its column, or it may be left out.
LEMMA FieldFits ==
  ASSUME NEW column \in Column, NEW data, \A key \in DOMAIN data : Decoded(data[key])
  PROVE  Field(column, data).err = "ok" <=>
           IF column.name \in DOMAIN data THEN Fits(column.type, data[column.name])
                                          ELSE column.optional \/ column.hasDefault
<1>1. column.type \in ColumnTypes /\ column.optional \in BOOLEAN /\ column.hasDefault \in BOOLEAN
  BY DEF Column
<1>2. CASE column.name \in DOMAIN data
  <2> DEFINE v == data[column.name]
             type == column.type
  <2>1. Field(column, data) = GivenField(type, v)
    BY <1>2 DEF Field
  <2>2. v.frac \in BOOLEAN
    BY <1>2 DEF Decoded, Value
  <2>3. type \in ColumnTypes
    BY <1>1
  <2> HIDE DEF v, type
  <2>4. GivenField(type, v).err = "ok" <=> Fits(type, v)
    <3>1. CASE type = "bool"
      BY <3>1 DEF GivenField, Good, Bad, Fits, DefaultFits
    <3>2. CASE type = "int"
      BY <3>2 DEF GivenField, Good, Bad, Fits, DefaultFits, IsInt64
    <3>3. CASE type = "real"
      BY <3>3 DEF GivenField, Good, Bad, Fits, DefaultFits
    <3>4. CASE type = "datetime"
      BY <3>4 DEF GivenField, StringField, Good, Bad, Fits, DefaultFits
    <3>5. CASE type = "dynamic"
      BY <3>5 DEF GivenField, StringField, Good, Bad, Fits, DefaultFits, JsonValid
    <3>6. CASE type = "string"
      BY <3>6 DEF GivenField, StringField, Good, Bad, Fits, DefaultFits
    <3>7. CASE type = "timespan"
      BY <3>7 DEF GivenField, StringField, Good, Bad, Fits, DefaultFits
    <3> QED BY <2>3, <3>1, <3>2, <3>3, <3>4, <3>5, <3>6, <3>7 DEF ColumnTypes
  <2> QED BY <1>2, <2>1, <2>4 DEF v, type
<1>3. CASE column.name \notin DOMAIN data
  <2>1. Field(column, data) = MissingField(column)
    BY <1>3 DEF Field
  <2>2. MissingField(column).err = "ok" <=> column.optional \/ column.hasDefault
    BY <1>1 DEF MissingField, Good, Bad
  <2> QED BY <1>3, <2>1, <2>2
<1> QED BY <1>2, <1>3

\* The errors of an item are those of its fields.
LEMMA ErrorsOfFields ==
  ASSUME NEW T, NEW errs \in Seq(T)
  PROVE  LET errors == Keep(errs, Range(errs) \ {"ok"})
             bad == {i \in 1..Len(errs) : errs[i] # "ok"}
         IN  /\ IsFiniteSet(bad) /\ Len(errors) = Cardinality(bad)
             /\ errors = <<>> <=> \A i \in 1..Len(errs) : errs[i] = "ok"
<1> DEFINE S == Range(errs) \ {"ok"}
           errors == Keep(errs, S)
           bad == {i \in 1..Len(errs) : errs[i] # "ok"}
           In == {i \in DOMAIN errs : errs[i] \in S}
<1>1. DOMAIN errs = 1..Len(errs)
  BY LenProperties
<1>2. In = bad
  BY <1>1 DEF Range
<1> HIDE DEF S
<1>3. errors \in Seq(T) /\ IsFiniteSet(In) /\ Len(errors) = Cardinality(In)
  BY KeepCounts
<1> HIDE DEF In, errors
<1>4. errors = <<>> <=> Len(errors) = 0
  BY <1>3, EmptySeq
<1>5. Cardinality(In) = 0 <=> In = {}
  BY <1>3, FS_EmptySet
<1>6. In = {} <=> \A i \in 1..Len(errs) : errs[i] = "ok"
  BY <1>2
<1>7. /\ IsFiniteSet(bad) /\ Len(errors) = Cardinality(bad)
      /\ errors = <<>> <=> \A i \in 1..Len(errs) : errs[i] = "ok"
  BY <1>2, <1>3, <1>4, <1>5, <1>6
<1> QED BY <1>7 DEF errors, S

\* What ConvertItem makes of an item, by its fields.
LEMMA ConvertItemDoes ==
  ASSUME NEW list, NEW item, item.typeName \in DOMAIN list, NEW n \in Nat,
         DOMAIN list[item.typeName].columns = 1..n
  PROVE  LET columns == list[item.typeName].columns
             converted == ConvertItem(item, list)
             bad == {i \in 1..n : Field(columns[i], item.data).err # "ok"}
         IN  /\ IsFiniteSet(bad) /\ Len(converted.errors) = Cardinality(bad)
             /\ converted.errors = <<>> <=> \A i \in 1..n : Field(columns[i], item.data).err = "ok"
             /\ converted.errors = <<>> =>
                  converted.line = Join(Stamp, [i \in 1..n |-> Field(columns[i], item.data).text])
<1> DEFINE columns == list[item.typeName].columns
           fields == [i \in 1..n |-> Field(columns[i], item.data)]
           errs   == [i \in 1..n |-> fields[i].err]
           errors == Keep(errs, Range(errs) \ {"ok"})
           texts == [i \in 1..n |-> fields[i].text]
           bad == {i \in 1..n : errs[i] # "ok"}
           converted == ConvertItem(item, list)
<1>1. converted = IF errors # <<>> THEN [line |-> <<>>, errors |-> errors]
                  ELSE [line |-> Join(Stamp, texts), errors |-> <<>>]
  <2>1. fields = [i \in DOMAIN columns |-> Field(columns[i], item.data)] /\ DOMAIN fields = 1..n
    OBVIOUS
  <2> HIDE DEF fields
  <2> QED BY <2>1 DEF ConvertItem
<1> DEFINE T == {errs[i] : i \in 1..n}
<1>2. errs \in Seq(T) /\ Len(errs) = n
  <2>1. errs \in [1..n -> T]
    OBVIOUS
  <2> HIDE DEF T, errs
  <2> QED BY <2>1
<1>3. /\ \A i \in 1..n : errs[i] = Field(columns[i], item.data).err
      /\ texts = [i \in 1..n |-> Field(columns[i], item.data).text]
  OBVIOUS
<1> HIDE DEF errs, texts, T
<1>4. /\ IsFiniteSet(bad) /\ Len(errors) = Cardinality(bad)
      /\ errors = <<>> <=> \A i \in 1..n : errs[i] = "ok"
  BY <1>2, ErrorsOfFields
<1>5. bad = {i \in 1..n : Field(columns[i], item.data).err # "ok"}
  BY <1>3
<1> HIDE DEF errors, bad, columns, converted
<1>6. converted.errors = errors /\ (errors = <<>> => converted.line = Join(Stamp, texts))
  BY <1>1
<1> QED BY <1>3, <1>4, <1>5, <1>6 DEF columns, converted

\* The line of an item is read back as the stamp and the values sent.
LEMMA LineReadsBack ==
  ASSUME NumbersHaveTexts, NumbersArePlain, NEW n \in Nat, NEW columns, DOMAIN columns = 1..n,
         \A c \in 1..n : columns[c] \in Column, NEW data, \A key \in DOMAIN data : Decoded(data[key]),
         \A c \in 1..n : /\ Field(columns[c], data).err = "ok"
                         /\ ~Unquoted(columns[c], data) /\ ~Inexact(columns[c], data)
  PROVE  Read(Join(Stamp, [c \in 1..n |-> Field(columns[c], data).text]))
           = <<Stamp>> \o [c \in 1..n |-> Sent(columns[c], data)]
<1> DEFINE Pairs == ReadPairs(Chars)
           ps == [c \in 1..n |-> <<Field(columns[c], data).text, Sent(columns[c], data)>>]
<1>1. ASSUME NEW c \in 1..n
      PROVE  <<Field(columns[c], data).text, Sent(columns[c], data)>> \in Pairs
  <2> DEFINE f == Field(columns[c], data).text
             x == Sent(columns[c], data)
  <2>1. ReadsAs(Chars, f, x)
    BY FieldReads
  <2> HIDE DEF f, x
  <2>2. f \in Seq(Chars) /\ x \in Seq(Chars)
    BY <2>1 DEF ReadsAs
  <2>3. <<f, x>> \in Pairs
    BY <2>1, <2>2 DEF ReadPairs
  <2> QED BY <2>3 DEF f, x
<1>2. ps \in Seq(Pairs)
  <2> HIDE DEF Pairs
  <2>1. ps \in [1..n -> Pairs]
    BY <1>1
  <2> HIDE DEF ps
  <2> QED BY <2>1
<1>3. ReadsAs(Chars, Stamp, Stamp) /\ Comma \in Chars
  <2>1. {"date", ".", "ms", Comma, Quote} \subseteq Chars
    BY DEF Chars, Special
  <2>2. "date" \notin Special /\ "." \notin Special /\ "ms" \notin Special
    BY DEF Special, Comma, Quote, Newline
  <2>3. Stamp \in Seq(Chars)
    <3> DEFINE A == "date"
               B == "."
               D == "ms"
    <3>1. A \in Chars /\ B \in Chars /\ D \in Chars
      BY <2>1
    <3> HIDE DEF A, B, D
    <3>2. <<A, B, D>> \in Seq(Chars)
      BY <3>1
    <3> QED BY <3>2 DEF Stamp, A, B, D
  <2>4. ~NeedsQuotes(Stamp)
    <3>1. DOMAIN Stamp = 1..3 /\ Stamp[1] = "date" /\ Stamp[2] = "." /\ Stamp[3] = "ms"
      BY DEF Stamp
    <3>2. \A i \in 1..3 : i = 1 \/ i = 2 \/ i = 3
      OBVIOUS
    <3> QED BY <2>2, <3>1, <3>2 DEF NeedsQuotes
  <2> QED BY <2>1, <2>3, <2>4, FieldsRead
<1>4. Written(ps) = [c \in 1..n |-> Field(columns[c], data).text] /\ ReadBack(ps) = [c \in 1..n |-> Sent(columns[c], data)]
  BY DEF Written, ReadBack
<1> HIDE DEF ps
<1>5. Read(Join(Stamp, Written(ps))) = <<Stamp>> \o ReadBack(ps)
  BY <1>2, <1>3, ReadJoined
<1> QED BY <1>4, <1>5

\* The stored schema has the columns and one more.
LEMMA StoredHasOneMore ==
  ASSUME NEW def, NEW n \in Nat, DOMAIN def.columns = 1..n
  PROVE  Len(StoredItemDefinition(def)) = n + 1
<1> DEFINE own == [i \in 1..n |-> [name |-> def.columns[i].name, type |-> def.columns[i].type]]
           first == [name |-> IngestTime, type |-> "datetime"]
           T == {own[i] : i \in 1..n} \cup {first}
<1>1. StoredItemDefinition(def) = <<first>> \o own
  BY DEF StoredItemDefinition
<1>2. own \in [1..n -> T] /\ first \in T
  OBVIOUS
<1> HIDE DEF own, first, T
<1>3. own \in Seq(T) /\ Len(own) = n /\ <<first>> \in Seq(T) /\ Len(<<first>>) = 1
  BY <1>2
<1>4. Len(<<first>> \o own) = 1 + n
  BY <1>3, ConcatProperties
<1> QED BY <1>1, <1>4

-----------------------------------------------------------------------------
(* The answer to an ingest request.                                        *)

Elements(body) == Range(body.elements)
Parsed(body) == Keep(body.elements, {e \in Elements(body) : ~Rejects(e)})
Unparsed(body) == Keep(body.elements, {e \in Elements(body) : Rejects(e)})
Converting(body) == {e \in Elements(body) : ConvertItem(e, definitions).errors = <<>>}
GoodItems(body) == Keep(Parsed(body), Converting(body))
BadItems(body) == Keep(Parsed(body), Elements(body) \ Converting(body))

\* The sequences that a request is divided into have its elements.
LEMMA PartsOfBody ==
  ASSUME NEW body \in ItemInput
  PROVE  /\ body.elements \in Seq(Elements(body))
         /\ Parsed(body) \in Seq(Elements(body)) /\ Unparsed(body) \in Seq(Elements(body))
         /\ GoodItems(body) \in Seq(Elements(body)) /\ GoodItems(body) \in Seq(Elements(body) \cap Converting(body))
         /\ BadItems(body) \in Seq(Elements(body))
<1> DEFINE T == Elements(body)
           Fine == {e \in T : ~Rejects(e)}
           Poor == {e \in T : Rejects(e)}
           C == Converting(body)
           N == T \ C
<1>1. body.elements \in Seq(T)
  BY BodyAssumption DEF Elements
<1> HIDE DEF Fine, Poor, C, N, T
<1>2. Keep(body.elements, Fine) \in Seq(T) /\ Keep(body.elements, Poor) \in Seq(T)
  BY <1>1, KeepCounts
<1>3. Parsed(body) \in Seq(T) /\ Unparsed(body) \in Seq(T)
  BY <1>2 DEF Parsed, Unparsed, Fine, Poor, T
<1>4. Keep(Parsed(body), C) \in Seq(T) /\ Keep(Parsed(body), C) \in Seq(T \cap C) /\ Keep(Parsed(body), N) \in Seq(T)
  BY <1>3, KeepCounts, KeepType
<1> QED BY <1>1, <1>3, <1>4 DEF GoodItems, BadItems, T, C, N

\* What the answer to an ingest request says.
AnswersWith(body, a) ==
  /\ a.body = body
  /\ ~body.array => a.ingested = <<>>
  /\ body.array =>
       /\ a.ingested = [i \in DOMAIN GoodItems(body) |->
                          [item |-> GoodItems(body)[i], line |-> ConvertItem(GoodItems(body)[i], definitions).line]]
       /\ a.status = 400 => Parsed(body) = <<>>
       /\ DOMAIN a.rejected = 1..(Len(Unparsed(body)) + Len(BadItems(body)))
       /\ Len(a.rejected) = Len(Unparsed(body)) + Len(BadItems(body))
       /\ \A i \in 1..Len(BadItems(body)) :
            a.rejected[Len(Unparsed(body)) + i].errors = ConvertItem(BadItems(body)[i], definitions).errors

\* What an ingest request does.
LEMMA IngestDoes ==
  ASSUME NEW body \in ItemInput, Ingest(body)
  PROVE  /\ Ready /\ UNCHANGED <<definitions, added>>
         /\ \E a : answered' = <<a>> /\ AnswersWith(body, a)
<1> DEFINE T == Elements(body)
           split == SplitInput(body)
           converts == {item \in Range(split.items) : ConvertItem(item, definitions).errors = <<>>}
           good == Keep(split.items, converts)
           bad  == Keep(split.items, Range(split.items) \ converts)
           status == IF split.items = <<>> THEN 400 ELSE 200
           ingested == [i \in DOMAIN good |-> [item |-> good[i], line |-> ConvertItem(good[i], definitions).line]]
           first == [i \in DOMAIN split.errors |-> [errors |-> <<split.errors[i]>>]]
           second == [i \in DOMAIN bad |-> [errors |-> ConvertItem(bad[i], definitions).errors]]
           a == [body |-> body, status |-> status, ingested |-> ingested, rejected |-> first \o second]
<1>1. Ready /\ answered' = <<a>> /\ UNCHANGED <<definitions, added>>
  BY DEF Ingest
<1>2. a.body = body /\ a.status = status /\ a.ingested = ingested /\ a.rejected = first \o second
  OBVIOUS
<1>3. ASSUME ~body.array
      PROVE  ingested = <<>>
  <2>1. split.items = <<>>
    BY <1>3 DEF SplitInput
  <2>2. good = <<>>
    <3> HIDE DEF converts
    <3> QED BY <2>1, KeepOfNone
  <2> HIDE DEF good
  <2> QED BY <2>2
<1>4. ASSUME body.array
      PROVE  /\ split.items = Parsed(body) /\ good = GoodItems(body) /\ bad = BadItems(body)
             /\ DOMAIN split.errors = 1..Len(Unparsed(body))
  <2> DEFINE items == Parsed(body)
  <2>1. split.items = items /\ DOMAIN split.errors = DOMAIN Unparsed(body)
    BY <1>4 DEF SplitInput, Parsed, Unparsed, Elements
  <2>2. items \in Seq(T) /\ Unparsed(body) \in Seq(T)
    BY PartsOfBody
  <2>3. \A i \in 1..Len(items) : items[i] \in T /\ items[i] \in Range(items)
    BY <2>2, LenProperties DEF Range
  <2>4. \A i \in 1..Len(items) : items[i] \in converts <=> items[i] \in Converting(body)
    BY <2>1, <2>3 DEF Converting
  <2>5. \A i \in 1..Len(items) : items[i] \in Range(split.items) \ converts <=> items[i] \in T \ Converting(body)
    BY <2>1, <2>3, <2>4
  <2>6. good = Keep(items, converts) /\ bad = Keep(items, Range(split.items) \ converts)
    BY <2>1
  <2> HIDE DEF items, split, T, good, bad
  <2>7. Keep(items, converts) = Keep(items, Converting(body))
    <3> HIDE DEF converts
    <3> QED BY <2>2, <2>4, KeepSame
  <2>8. Keep(items, Range(split.items) \ converts) = Keep(items, T \ Converting(body))
    <3> DEFINE A == Range(split.items) \ converts
               B == T \ Converting(body)
    <3>1. \A i \in 1..Len(items) : items[i] \in A <=> items[i] \in B
      BY <2>5
    <3> HIDE DEF A, B
    <3>2. Keep(items, A) = Keep(items, B)
      BY <2>2, <3>1, KeepSame
    <3> QED BY <3>2 DEF A, B
  <2>9. DOMAIN Unparsed(body) = 1..Len(Unparsed(body))
    BY <2>2, LenProperties
  <2> QED BY <2>1, <2>6, <2>7, <2>8, <2>9 DEF items, GoodItems, BadItems, T
<1>5. ASSUME body.array
      PROVE  /\ DOMAIN (first \o second) = 1..(Len(Unparsed(body)) + Len(BadItems(body)))
             /\ Len(first \o second) = Len(Unparsed(body)) + Len(BadItems(body))
             /\ \A i \in 1..Len(BadItems(body)) :
                  (first \o second)[Len(Unparsed(body)) + i].errors = ConvertItem(BadItems(body)[i], definitions).errors
  <2> DEFINE u == Len(Unparsed(body))
             b == Len(BadItems(body))
             R == {first[i] : i \in 1..u} \cup {second[i] : i \in 1..b}
  <2>1. u \in Nat /\ b \in Nat /\ DOMAIN BadItems(body) = 1..b
    BY PartsOfBody, LenProperties
  <2>2. DOMAIN first = 1..u /\ DOMAIN second = 1..b /\ \A i \in 1..b : second[i].errors = ConvertItem(BadItems(body)[i], definitions).errors
    <3>1. bad = BadItems(body) /\ DOMAIN split.errors = 1..u
      BY <1>4, <1>5
    <3> HIDE DEF bad, split, u, b
    <3> QED BY <2>1, <3>1
  <2>3. first = [i \in 1..u |-> first[i]] /\ second = [i \in 1..b |-> second[i]]
    <3>1. \A s : first = [i \in DOMAIN first |-> first[i]] /\ second = [i \in DOMAIN second |-> second[i]]
      <4> HIDE DEF split, bad
      <4> QED OBVIOUS
    <3> QED BY <2>2, <3>1
  <2> HIDE DEF u, b, first, second
  <2>4. first \in [1..u -> R] /\ second \in [1..b -> R]
    <3>1. \A i \in 1..u : first[i] \in R
      OBVIOUS
    <3>2. \A i \in 1..b : second[i] \in R
      OBVIOUS
    <3> HIDE DEF R
    <3>3. [i \in 1..u |-> first[i]] \in [1..u -> R] /\ [i \in 1..b |-> second[i]] \in [1..b -> R]
      BY <3>1, <3>2
    <3> QED BY <2>3, <3>3, Zenon
  <2> HIDE DEF R
  <2>5. first \in Seq(R) /\ second \in Seq(R) /\ Len(first) = u /\ Len(second) = b
    BY <2>1, <2>4
  <2>6. /\ first \o second \in Seq(R) /\ Len(first \o second) = u + b
        /\ \A i \in 1..(u + b) : (first \o second)[i] = IF i <= u THEN first[i] ELSE second[i - u]
    <3>1. /\ first \o second \in Seq(R) /\ Len(first \o second) = Len(first) + Len(second)
          /\ \A i \in 1..(Len(first) + Len(second)) :
               (first \o second)[i] = IF i <= Len(first) THEN first[i] ELSE second[i - Len(first)]
      BY <2>5, ConcatProperties
    <3> QED BY <2>5, <3>1
  <2> DEFINE all == first \o second
  <2>7. DOMAIN all = 1..(u + b)
    BY <2>6, LenProperties
  <2> HIDE DEF all
  <2>8. ASSUME NEW i \in 1..b
        PROVE  all[u + i].errors = ConvertItem(BadItems(body)[i], definitions).errors
    <3>1. u + i \in 1..(u + b) /\ ~(u + i <= u) /\ (u + i) - u = i
      BY <2>1
    <3>2. all[u + i] = second[i]
      BY <2>6, <3>1 DEF all
    <3> QED BY <2>2, <3>2
  <2> QED BY <2>6, <2>7, <2>8 DEF all, u, b
<1>6. ASSUME body.array
      PROVE  /\ ingested = [i \in DOMAIN GoodItems(body) |->
                             [item |-> GoodItems(body)[i], line |-> ConvertItem(GoodItems(body)[i], definitions).line]]
             /\ status = 400 => Parsed(body) = <<>>
  <2>1. good = GoodItems(body) /\ split.items = Parsed(body)
    BY <1>4, <1>6
  <2> HIDE DEF good, split
  <2> QED BY <2>1
<1> HIDE DEF a, split, good, bad, status, ingested, first, second
<1>7. AnswersWith(body, a)
  <2>1. ~body.array => a.ingested = <<>>
    BY <1>2, <1>3
  <2> DEFINE rejected == a.rejected
  <2>2. rejected = first \o second
    BY <1>2
  <2>3. body.array =>
          /\ DOMAIN rejected = 1..(Len(Unparsed(body)) + Len(BadItems(body)))
          /\ Len(rejected) = Len(Unparsed(body)) + Len(BadItems(body))
          /\ \A i \in 1..Len(BadItems(body)) :
               rejected[Len(Unparsed(body)) + i].errors = ConvertItem(BadItems(body)[i], definitions).errors
    <3> HIDE DEF rejected
    <3> DEFINE all == first \o second
    <3>1. body.array =>
            /\ DOMAIN all = 1..(Len(Unparsed(body)) + Len(BadItems(body)))
            /\ Len(all) = Len(Unparsed(body)) + Len(BadItems(body))
            /\ \A i \in 1..Len(BadItems(body)) :
                 all[Len(Unparsed(body)) + i].errors = ConvertItem(BadItems(body)[i], definitions).errors
      BY <1>5, Zenon
    <3> HIDE DEF all
    <3>2. rejected = all
      BY <2>2 DEF all
    <3> QED BY <3>1, <3>2, Zenon
  <2>4. body.array =>
          /\ a.ingested = [i \in DOMAIN GoodItems(body) |->
                             [item |-> GoodItems(body)[i], line |-> ConvertItem(GoodItems(body)[i], definitions).line]]
          /\ a.status = 400 => Parsed(body) = <<>>
    BY <1>2, <1>6, Zenon
  <2>5. a.body = body
    BY <1>2
  <2> QED BY <2>1, <2>3, <2>4, <2>5, Zenon DEF AnswersWith
<1> QED BY <1>1, <1>7, Zenon

\* A registered definition has columns.
LEMMA ColumnsOfDefinition ==
  ASSUME ItemsTypeOK, NEW name \in Names
  PROVE  \E n \in Nat : /\ DOMAIN definitions[name].columns = 1..n
                        /\ \A c \in 1..n : definitions[name].columns[c] \in Column
<1> DEFINE columns == definitions[name].columns
<1>1. columns \in Seq(Column)
  BY DEF ItemsTypeOK
<1> HIDE DEF columns
<1>2. Len(columns) \in Nat /\ DOMAIN columns = 1..Len(columns) /\ \A c \in 1..Len(columns) : columns[c] \in Column
  BY <1>1, LenProperties, ElementOfSeq
<1> QED BY <1>2 DEF columns

\* The values of the items in a request are those a JSON text can have.
LEMMA ElementsAreDecoded ==
  ASSUME NEW body \in ItemInput, NEW e \in Elements(body)
  PROVE  \A key \in DOMAIN e.data : Decoded(e.data[key])
BY BodyAssumption DEF Elements, Decoded

\* An item is converted if its type is registered and each of its fields fits; if
\* not, each field that does not gives one error.
LEMMA ItemConverts ==
  ASSUME ItemsTypeOK, NEW body \in ItemInput, NEW e \in Elements(body)
  PROVE  /\ e \in Converting(body) <=> e.typeName \in Names /\ BadColumns(e) = {}
         /\ e.typeName \in Names => /\ IsFiniteSet(BadColumns(e))
                                    /\ Len(ConvertItem(e, definitions).errors) = Cardinality(BadColumns(e))
<1> DEFINE converted == ConvertItem(e, definitions)
<1>1. e \in Converting(body) <=> converted.errors = <<>>
  BY DEF Converting
<1>2. CASE e.typeName \notin Names
  <2>1. converted.errors = <<"ErrItemTypeNotDefined">>
    BY <1>2 DEF ConvertItem, Names
  <2> HIDE DEF converted
  <2> QED BY <1>1, <1>2, <2>1
<1>3. CASE e.typeName \in Names
  <2> DEFINE columns == definitions[e.typeName].columns
  <2>1. PICK n \in Nat : DOMAIN columns = 1..n /\ \A c \in 1..n : columns[c] \in Column
    BY <1>3, ColumnsOfDefinition
  <2> DEFINE bad == {i \in 1..n : Field(columns[i], e.data).err # "ok"}
  <2>2. /\ IsFiniteSet(bad) /\ Len(converted.errors) = Cardinality(bad)
        /\ converted.errors = <<>> <=> \A i \in 1..n : Field(columns[i], e.data).err = "ok"
    BY <1>3, <2>1, ConvertItemDoes DEF Names
  <2>3. bad = BadColumns(e)
    <3> DEFINE Misfit(i) == IF columns[i].name \in DOMAIN e.data
                            THEN ~Fits(columns[i].type, e.data[columns[i].name])
                            ELSE ~columns[i].optional /\ ~columns[i].hasDefault
    <3>1. BadColumns(e) = {i \in 1..n : Misfit(i)}
      BY <2>1 DEF BadColumns, Definition
    <3>2. ASSUME NEW i \in 1..n
          PROVE  Field(columns[i], e.data).err # "ok" <=> Misfit(i)
      <4> DEFINE column == columns[i]
                 data == e.data
      <4>1. column \in Column /\ \A key \in DOMAIN data : Decoded(data[key])
        BY <2>1, ElementsAreDecoded
      <4> HIDE DEF column, data
      <4>2. Field(column, data).err = "ok" <=>
              IF column.name \in DOMAIN data THEN Fits(column.type, data[column.name])
                                             ELSE column.optional \/ column.hasDefault
        BY <4>1, FieldFits
      <4> QED BY <4>2 DEF column, data
    <3> HIDE DEF Misfit, columns
    <3> QED BY <3>1, <3>2
  <2>4. bad = {} <=> \A i \in 1..n : Field(columns[i], e.data).err = "ok"
    OBVIOUS
  <2> HIDE DEF bad, columns, converted
  <2> QED BY <1>1, <1>3, <2>2, <2>3, <2>4 DEF converted
<1> QED BY <1>2, <1>3

\* What RecordReadsBack says of one answer, with the definitions it was made by.
RecordsOf(a, list) ==
  \A k \in DOMAIN a.ingested :
    LET item == a.ingested[k].item
        def  == list[item.typeName]
        sent == [c \in DOMAIN def.columns |-> Sent(def.columns[c], item.data)]
    IN  \/ \E c \in DOMAIN def.columns : Unquoted(def.columns[c], item.data) \/ Inexact(def.columns[c], item.data)
        \/ /\ Read(a.ingested[k].line) = <<Stamp>> \o sent
           /\ Len(sent) + 1 = Len(StoredItemDefinition(def))

\* The record of an item that was converted.
LEMMA ConvertedReadsBack ==
  ASSUME NumbersHaveTexts, NumbersArePlain, ItemsTypeOK,
         NEW body \in ItemInput, NEW e \in Elements(body), e \in Converting(body)
  PROVE  LET def  == definitions[e.typeName]
             sent == [c \in DOMAIN def.columns |-> Sent(def.columns[c], e.data)]
         IN  \/ \E c \in DOMAIN def.columns : Unquoted(def.columns[c], e.data) \/ Inexact(def.columns[c], e.data)
             \/ /\ Read(ConvertItem(e, definitions).line) = <<Stamp>> \o sent
                /\ Len(sent) + 1 = Len(StoredItemDefinition(def))
<1> DEFINE def == definitions[e.typeName]
           columns == def.columns
           data == e.data
           sent == [c \in DOMAIN columns |-> Sent(columns[c], data)]
           converted == ConvertItem(e, definitions)
<1>1. e.typeName \in Names /\ converted.errors = <<>>
  BY ItemConverts DEF Converting
<1>2. PICK n \in Nat : DOMAIN columns = 1..n /\ \A c \in 1..n : columns[c] \in Column
  BY <1>1, ColumnsOfDefinition
<1>3. /\ \A c \in 1..n : Field(columns[c], data).err = "ok"
      /\ converted.line = Join(Stamp, [c \in 1..n |-> Field(columns[c], data).text])
  BY <1>1, <1>2, ConvertItemDoes DEF Names
<1>4. \A key \in DOMAIN data : Decoded(data[key])
  BY ElementsAreDecoded
<1>5. Len(StoredItemDefinition(def)) = n + 1
  BY <1>2, StoredHasOneMore
<1>6. sent = [c \in 1..n |-> Sent(columns[c], data)]
  BY <1>2
<1> HIDE DEF def, sent, data, converted
<1>7. Len(sent) = n
  <2> DEFINE T == {Sent(columns[c], data) : c \in 1..n}
  <2>1. sent \in [1..n -> T]
    BY <1>6
  <2> HIDE DEF T
  <2> QED BY <2>1
<1>8. ASSUME \A c \in 1..n : ~Unquoted(columns[c], data) /\ ~Inexact(columns[c], data)
      PROVE  Read(converted.line) = <<Stamp>> \o sent
  <2> HIDE DEF columns
  <2>1. Read(Join(Stamp, [c \in 1..n |-> Field(columns[c], data).text])) = <<Stamp>> \o [c \in 1..n |-> Sent(columns[c], data)]
    BY <1>2, <1>3, <1>4, <1>8, LineReadsBack
  <2> QED BY <1>3, <1>6, <2>1
<1>9. \/ \E c \in DOMAIN columns : Unquoted(columns[c], data) \/ Inexact(columns[c], data)
      \/ Read(converted.line) = <<Stamp>> \o sent /\ Len(sent) + 1 = Len(StoredItemDefinition(def))
  <2> HIDE DEF columns
  <2>1. Len(sent) + 1 = Len(StoredItemDefinition(def))
    BY <1>5, <1>7
  <2> QED BY <1>2, <1>8, <2>1
<1> QED BY <1>9 DEF def, sent, data, converted

\* README, "Storage": each accepted item is one CSV record of its definition, for
\* every set of definitions and bodies: with a column that the code leaves unquoted
\* or an integer without a float64 of its own aside, a reader finds in it the
\* columns of the stored schema with the values sent or defaulted.
THEOREM RecordsAlwaysReadBack ==
  ASSUME NumbersHaveTexts, NumbersArePlain
  PROVE  Spec => []RecordReadsBack
<1> DEFINE Records == \A i \in DOMAIN answered : RecordsOf(answered[i], definitions)
<1>1. RecordReadsBack <=> Records
  BY DEF RecordReadsBack, RecordsOf, Definition
<1>2. Init => Records
  BY DEF Init
<1>3. ItemsTypeOK /\ Records /\ [Next]_vars => Records'
  <2> SUFFICES ASSUME ItemsTypeOK, Records, [Next]_vars
               PROVE  Records'
    OBVIOUS
  <2>1. ASSUME Ready, UNCHANGED answered
        PROVE  Records'
    BY <2>1 DEF Ready
  <2>2. ASSUME NEW input \in DefinitionInput, AddDefinition(input)
        PROVE  Records'
    BY <2>1, <2>2 DEF AddDefinition
  <2>3. ASSUME NEW name \in Names, RemoveDefinition(name)
        PROVE  Records'
    BY <2>1, <2>3 DEF RemoveDefinition
  <2>4. ASSUME NEW body \in ItemInput, Ingest(body)
        PROVE  Records'
    <3>1. PICK a : answered' = <<a>> /\ AnswersWith(body, a)
      BY <2>4, IngestDoes
    <3>2. UNCHANGED definitions
      BY <2>4, IngestDoes
    <3>3. RecordsOf(a, definitions)
      <4>1. CASE ~body.array
        <5>1. a.ingested = <<>>
          BY <3>1, <4>1 DEF AnswersWith
        <5>2. DOMAIN a.ingested = {}
          BY <5>1
        <5> QED BY <5>2, Zenon DEF RecordsOf
      <4>2. CASE body.array
        <5> DEFINE good == GoodItems(body)
        <5>1. a.ingested = [i \in DOMAIN good |-> [item |-> good[i], line |-> ConvertItem(good[i], definitions).line]]
          BY <3>1, <4>2 DEF AnswersWith
        <5>2. \A k \in DOMAIN good : good[k] \in Elements(body) /\ good[k] \in Converting(body)
          <6>1. good \in Seq(Elements(body) \cap Converting(body))
            BY PartsOfBody
          <6> HIDE DEF good
          <6> QED BY <6>1, LenProperties, ElementOfSeq
        <5> HIDE DEF good
        <5>3. ASSUME NEW k \in DOMAIN a.ingested
              PROVE  a.ingested[k].item \in Elements(body) /\ a.ingested[k].item \in Converting(body)
                     /\ a.ingested[k].line = ConvertItem(a.ingested[k].item, definitions).line
          BY <5>1, <5>2
        <5> QED BY <5>3, ConvertedReadsBack, Zenon DEF RecordsOf
      <4> QED BY <4>1, <4>2
    <3> QED BY <3>1, <3>2, <3>3
  <2>5. CASE Receive
    BY <2>5 DEF Receive
  <2>6. CASE UNCHANGED vars
    BY <2>6 DEF vars
  <2> QED BY <2>2, <2>3, <2>4, <2>5, <2>6 DEF Next
<1> QED
  <2>1. RecordReadsBack' <=> Records'
    BY DEF RecordReadsBack, RecordsOf, Definition
  <2> HIDE DEF Records
  <2> QED BY <1>1, <1>2, <1>3, <2>1, ItemsTypeAlwaysOK, PTL DEF Spec

-----------------------------------------------------------------------------
(* Every element of a request is accounted for.                            *)

\* The columns of an item that do not fit, the elements of a request that go in and
\* those that have a field that does not fit: BadColumns, Acceptable and
\* Convertible, with the definitions that the request is answered by.
BadColumnsBy(item, list) ==
  LET columns == list[item.typeName].columns
  IN  {i \in DOMAIN columns : IF columns[i].name \in DOMAIN item.data
                              THEN ~Fits(columns[i].type, item.data[columns[i].name])
                              ELSE ~columns[i].optional /\ ~columns[i].hasDefault}
Fitting(body, list) ==
  {e \in Elements(body) : ~Rejects(e) /\ e.typeName \in DOMAIN list /\ BadColumnsBy(e, list) = {}}
Misfitting(body, list) ==
  {e \in Elements(body) : ~Rejects(e) /\ e.typeName \in DOMAIN list /\ BadColumnsBy(e, list) # {}}

\* What ItemsAccounted says of one answer.
Accounts(a, list) ==
  LET misfits == Keep(a.body.elements, Misfitting(a.body, list))
  IN  a.body.array =>
        /\ [k \in DOMAIN a.ingested |-> a.ingested[k].item] = Keep(a.body.elements, Fitting(a.body, list))
        /\ Len(a.ingested) + Len(a.rejected) = Len(a.body.elements)
        /\ \A n \in 1..4 : Cardinality({k \in DOMAIN misfits : Cardinality(BadColumnsBy(misfits[k], list)) = n})
                             <= Cardinality({k \in DOMAIN a.rejected : Len(a.rejected[k].errors) = n})
        /\ a.status = 400 => a.ingested = <<>>

\* Every element is ingested or rejected, once.
LEMMA PartsAddUp ==
  ASSUME NEW body \in ItemInput
  PROVE  /\ Len(GoodItems(body)) \in Nat /\ Len(BadItems(body)) \in Nat /\ Len(Unparsed(body)) \in Nat
         /\ Len(GoodItems(body)) + (Len(Unparsed(body)) + Len(BadItems(body))) = Len(body.elements)
<1> DEFINE T == Elements(body)
           s == body.elements
           C == Converting(body)
           N == T \ C
           Fine == {e \in T : ~Rejects(e)}
           Poor == {e \in T : Rejects(e)}
           parsed == Parsed(body)
<1>1. s \in Seq(T) /\ parsed \in Seq(T) /\ Unparsed(body) \in Seq(T) /\ GoodItems(body) \in Seq(T) /\ BadItems(body) \in Seq(T)
  BY PartsOfBody
<1>2. /\ parsed = Keep(s, Fine) /\ Unparsed(body) = Keep(s, Poor)
      /\ GoodItems(body) = Keep(parsed, C) /\ BadItems(body) = Keep(parsed, N)
  BY DEF Parsed, Unparsed, GoodItems, BadItems
<1>3. (\A i \in 1..Len(s) : s[i] \in Fine <=> s[i] \notin Poor) /\ (\A i \in 1..Len(parsed) : parsed[i] \in C <=> parsed[i] \notin N)
  <2> HIDE DEF s, parsed, T, C
  <2>1. (\A i \in 1..Len(s) : s[i] \in T) /\ (\A i \in 1..Len(parsed) : parsed[i] \in T)
    BY <1>1, ElementOfSeq
  <2> QED BY <2>1
<1> HIDE DEF s, T, C, N, Fine, Poor, parsed
<1>4. Len(Keep(s, Fine)) + Len(Keep(s, Poor)) = Len(s)
  BY <1>1, <1>3, KeepSplits
<1>5. Len(Keep(parsed, C)) + Len(Keep(parsed, N)) = Len(parsed)
  BY <1>1, <1>3, KeepSplits
<1> DEFINE g == Len(GoodItems(body))
           b == Len(BadItems(body))
           u == Len(Unparsed(body))
<1>6. g \in Nat /\ b \in Nat /\ u \in Nat
  BY <1>1, LenProperties
<1>7. g + b = Len(parsed) /\ Len(parsed) + u = Len(s)
  BY <1>2, <1>4, <1>5
<1> HIDE DEF g, b, u
<1>8. g + (u + b) = Len(s)
  BY <1>6, <1>7
<1> QED BY <1>6, <1>8 DEF g, b, u, s

\* The elements that go in are those that fit, in their order.
LEMMA IngestedFit ==
  ASSUME ItemsTypeOK, NEW body \in ItemInput, NEW a, AnswersWith(body, a), body.array
  PROVE  /\ [k \in DOMAIN a.ingested |-> a.ingested[k].item] = Keep(body.elements, Fitting(body, definitions))
         /\ Len(a.ingested) = Len(GoodItems(body))
         /\ a.status = 400 => a.ingested = <<>>
<1> DEFINE T == Elements(body)
           s == body.elements
           C == Converting(body)
           Fine == {e \in T : ~Rejects(e)}
           Fit == Fitting(body, definitions)
           good == GoodItems(body)
           Pair(e) == [item |-> e, line |-> ConvertItem(e, definitions).line]
<1>1. a.ingested = [i \in DOMAIN good |-> Pair(good[i])] /\ (a.status = 400 => Parsed(body) = <<>>)
  BY DEF AnswersWith
<1>2. s \in Seq(T) /\ good \in Seq(T)
  BY PartsOfBody
<1>3. DOMAIN a.ingested = DOMAIN good /\ \A k \in DOMAIN good : a.ingested[k].item = good[k]
  <2> HIDE DEF good
  <2> QED BY <1>1
<1>4. good = Keep(s, Fine \cap C)
  <2> HIDE DEF T, s, Fine, C
  <2>1. Keep(Keep(s, Fine), C) = Keep(s, Fine \cap C)
    BY <1>2, KeepBoth
  <2> QED BY <2>1 DEF GoodItems, Parsed, T, s, Fine, C
<1>5. ASSUME NEW e \in T
      PROVE  e \in Fine \cap C <=> e \in Fit
  <2>1. e \in C <=> e.typeName \in Names /\ BadColumns(e) = {}
    BY ItemConverts
  <2>2. BadColumns(e) = BadColumnsBy(e, definitions)
    BY DEF BadColumns, BadColumnsBy, Definition
  <2>3. e \in Fit <=> ~Rejects(e) /\ e.typeName \in Names /\ BadColumnsBy(e, definitions) = {}
    BY Zenon DEF Fitting, Names
  <2>4. e \in Fine <=> ~Rejects(e)
    BY Zenon
  <2> HIDE DEF Fine, C, Fit
  <2> QED BY <2>1, <2>2, <2>3, <2>4
<1> DEFINE Both == Fine \cap C
<1>6. \A e \in T : e \in Both <=> e \in Fit
  BY <1>5
<1> HIDE DEF T, s, Both, Fit, good
<1>7. Keep(s, Both) = Keep(s, Fit)
  <2>1. \A i \in 1..Len(s) : s[i] \in Both <=> s[i] \in Fit
    BY <1>2, <1>6, ElementOfSeq
  <2> QED BY <1>2, <2>1, KeepSame
<1>8. DOMAIN good = 1..Len(good) /\ Len(good) \in Nat /\ good = [k \in DOMAIN good |-> good[k]]
  <2>1. good \in [1..Len(good) -> T]
    BY <1>2, LenProperties
  <2> QED BY <1>2, <2>1, LenProperties
<1>9. [k \in DOMAIN a.ingested |-> a.ingested[k].item] = Keep(s, Fit)
  <2>1. [k \in DOMAIN a.ingested |-> a.ingested[k].item] = [k \in DOMAIN good |-> good[k]]
    BY <1>3
  <2> QED BY <1>4, <1>7, <1>8, <2>1 DEF Both
<1>10. Len(a.ingested) = Len(good)
  <2> DEFINE U == {a.ingested[k] : k \in 1..Len(good)}
             n == Len(good)
             ingested == a.ingested
  <2>1. ingested \in [1..n -> U]
    <3>1. ingested = [k \in 1..n |-> Pair(good[k])]
      BY <1>1, <1>8
    <3>2. \A k \in 1..n : ingested[k] \in U
      OBVIOUS
    <3> HIDE DEF U, Pair, n, ingested
    <3> QED BY <3>1, <3>2
  <2>2. n \in Nat
    BY <1>8
  <2> HIDE DEF U, n, ingested
  <2>3. Len(ingested) = n
    BY <2>1, <2>2
  <2> QED BY <2>3 DEF ingested, n
<1>11. ASSUME a.status = 400
       PROVE  a.ingested = <<>>
  <2>1. good = Keep(<<>>, C)
    BY <1>1, <1>11 DEF GoodItems, good
  <2>2. good = <<>>
    <3> HIDE DEF C
    <3> QED BY <2>1, KeepOfNone
  <2>3. a.ingested = [i \in DOMAIN <<>> |-> Pair(good[i])]
    BY <1>1, <2>2
  <2> HIDE DEF Pair
  <2> QED BY <2>3
<1> QED BY <1>9, <1>10, <1>11 DEF s, Fit, good

\* The elements with so many fields that do not fit are among the rejected ones
\* that have as many errors.
LEMMA MisfitsAreRejected ==
  ASSUME ItemsTypeOK, NEW body \in ItemInput, NEW a, AnswersWith(body, a), body.array, NEW n \in 1..4
  PROVE  LET misfits == Keep(body.elements, Misfitting(body, definitions))
         IN  Cardinality({k \in DOMAIN misfits : Cardinality(BadColumnsBy(misfits[k], definitions)) = n})
               <= Cardinality({k \in DOMAIN a.rejected : Len(a.rejected[k].errors) = n})
<1> DEFINE T == Elements(body)
           s == body.elements
           N == T \ Converting(body)
           Fine == {e \in T : ~Rejects(e)}
           Mis == Misfitting(body, definitions)
           misfits == Keep(s, Mis)
           bad == BadItems(body)
           Columns == {e \in T : Cardinality(BadColumnsBy(e, definitions)) = n}
           Errors == {e \in T : Len(ConvertItem(e, definitions).errors) = n}
           M == {k \in DOMAIN misfits : Cardinality(BadColumnsBy(misfits[k], definitions)) = n}
           B == {k \in DOMAIN bad : bad[k] \in Errors}
           R == {k \in DOMAIN a.rejected : Len(a.rejected[k].errors) = n}
<1>1. s \in Seq(T) /\ bad \in Seq(T)
  BY PartsOfBody
<1>2. misfits \in Seq(T)
  <2> HIDE DEF T, s, Mis
  <2> QED BY <1>1, KeepCounts
<1>3. Cardinality(M) = Len(Keep(misfits, Columns))
  <2> DEFINE In == {i \in DOMAIN misfits : misfits[i] \in Columns}
  <2>1. \A k \in DOMAIN misfits : misfits[k] \in T
    <3> HIDE DEF T, misfits
    <3> QED BY <1>2, LenProperties, ElementOfSeq
  <2>2. M = In
    <3> HIDE DEF T, misfits
    <3> QED BY <2>1
  <2>3. Len(Keep(misfits, Columns)) = Cardinality(In)
    <3> HIDE DEF T, misfits, Columns
    <3> QED BY <1>2, KeepCounts
  <2> QED BY <2>2, <2>3
<1>4. Keep(misfits, Columns) = Keep(s, Mis \cap Columns)
  <2> HIDE DEF T, s, Mis, Columns
  <2> QED BY <1>1, KeepBoth
<1>5. Keep(bad, Errors) = Keep(s, (Fine \cap N) \cap Errors)
  <2> HIDE DEF T, s, Fine, N, Errors
  <2>1. Keep(Keep(s, Fine), N) = Keep(s, Fine \cap N)
    BY <1>1, KeepBoth
  <2>2. bad = Keep(s, Fine \cap N)
    BY <2>1 DEF BadItems, Parsed, T, s, Fine, N
  <2> DEFINE Both == Fine \cap N
  <2> HIDE DEF Both, bad
  <2>3. Keep(Keep(s, Both), Errors) = Keep(s, Both \cap Errors)
    BY <1>1, KeepBoth
  <2> QED BY <2>2, <2>3 DEF Both
<1>6. ASSUME NEW e \in T, e \in Mis, e \in Columns
      PROVE  e \in Fine /\ e \in N /\ e \in Errors
  <2>1. ~Rejects(e) /\ e.typeName \in Names /\ BadColumnsBy(e, definitions) # {}
    BY <1>6 DEF Misfitting, Names
  <2>2. BadColumns(e) = BadColumnsBy(e, definitions)
    BY DEF BadColumns, BadColumnsBy, Definition
  <2>3. e \notin Converting(body) /\ Len(ConvertItem(e, definitions).errors) = Cardinality(BadColumns(e))
    BY <2>1, <2>2, ItemConverts
  <2>4. Cardinality(BadColumnsBy(e, definitions)) = n
    BY <1>6
  <2> QED BY <2>1, <2>2, <2>3, <2>4, Zenon
<1>7. Len(Keep(misfits, Columns)) <= Len(Keep(bad, Errors))
  <2> DEFINE X == Mis \cap Columns
             Y == (Fine \cap N) \cap Errors
  <2>1. \A e \in T : e \in X => e \in Y
    <3> HIDE DEF Fine, Mis, Columns, Errors, N, T
    <3> QED BY <1>6
  <2> HIDE DEF X, Y, T, s
  <2>2. \A i \in 1..Len(s) : s[i] \in X => s[i] \in Y
    BY <1>1, <2>1, ElementOfSeq
  <2>3. Len(Keep(s, X)) <= Len(Keep(s, Y))
    BY <1>1, <2>2, KeepGrows
  <2> HIDE DEF misfits, bad, Columns, Errors
  <2> QED BY <1>4, <1>5, <2>3 DEF X, Y
<1>8. Len(Keep(bad, Errors)) = Cardinality(B) /\ IsFiniteSet(B)
  <2> HIDE DEF T, bad, Errors
  <2> QED BY <1>1, KeepCounts
<1>9. IsFiniteSet(R) /\ Cardinality(B) <= Cardinality(R)
  <2> DEFINE u == Len(Unparsed(body))
             b == Len(bad)
             f == [i \in B |-> u + i]
             rejected == a.rejected
  <2>1. u \in Nat /\ b \in Nat /\ DOMAIN bad = 1..b
    <3>1. Len(bad) \in Nat /\ DOMAIN bad = 1..Len(bad)
      <4> HIDE DEF bad
      <4> QED BY <1>1, LenProperties
    <3> QED BY <3>1, PartsAddUp
  <2>2. DOMAIN rejected = 1..(u + b)
    BY DEF AnswersWith
  <2>3. \A i \in 1..b : rejected[u + i].errors = ConvertItem(bad[i], definitions).errors
    BY DEF AnswersWith
  <2>4. B \subseteq 1..b /\ \A i \in B : Len(ConvertItem(bad[i], definitions).errors) = n
    BY <2>1
  <2> HIDE DEF u, b, bad, B, rejected
  <2>5. IsFiniteSet(R)
    <3>1. R \in SUBSET (1..(u + b)) /\ u + b \in Int
      BY <2>1, <2>2 DEF rejected
    <3>2. IsFiniteSet(1..(u + b))
      BY <3>1, FS_Interval
    <3> HIDE DEF R
    <3> QED BY <3>1, <3>2, FS_Subset
  <2>6. \A i \in B : f[i] \in R
    <3> SUFFICES ASSUME NEW i \in B
                 PROVE  u + i \in R
      OBVIOUS
    <3>1. u + i \in 1..(u + b)
      BY <2>1, <2>4
    <3>2. Len(rejected[u + i].errors) = n
      BY <2>3, <2>4
    <3> QED BY <2>2, <3>1, <3>2 DEF rejected
  <2>7. \A i, j \in B : f[i] = f[j] => i = j
    BY <2>1, <2>4
  <2> HIDE DEF R
  <2>8. f \in Injection(B, R)
    <3>1. f \in [B -> R] /\ DOMAIN f = B
      BY <2>6
    <3> HIDE DEF f
    <3> QED BY <2>7, <3>1 DEF Injection, IsInjective
  <2> HIDE DEF f
  <2> QED BY <2>5, <2>8, FS_Injection
<1>10. Cardinality(M) <= Cardinality(R)
  <2> HIDE DEF M, B, R, bad, misfits, Errors, Columns, T
  <2> DEFINE m == Cardinality(M)
             b == Cardinality(B)
             r == Cardinality(R)
  <2>1. b \in Nat /\ r \in Nat
    BY <1>8, <1>9, FS_CardinalityType
  <2>2. m \in Nat
    <3>1. Keep(misfits, Columns) \in Seq(T)
      BY <1>2, KeepCounts
    <3> QED BY <1>3, <3>1, LenProperties
  <2>3. m <= b /\ b <= r
    BY <1>3, <1>7, <1>8, <1>9
  <2> HIDE DEF m, b, r
  <2>4. m <= r
    BY <2>1, <2>2, <2>3
  <2> QED BY <2>4 DEF m, r
<1> QED BY <1>10

\* The answer to every ingest request accounts for every element of its array, for
\* every set of definitions and bodies: the elements without a bad field go in, in
\* their order, each other one is rejected once, with an error for each bad field,
\* and 400 is for requests that got nothing in.
THEOREM ItemsAlwaysAccounted ==
  ASSUME NumbersHaveTexts
  PROVE  Spec => []ItemsAccounted
<1> DEFINE Accounted == \A i \in DOMAIN answered : Accounts(answered[i], definitions)
<1>1. ItemsAccounted <=> Accounted
  BY Zenon DEF ItemsAccounted, Accounts, Fitting, Misfitting, Elements, BadColumns, BadColumnsBy, Definition, Names
<1>2. Init => Accounted
  BY DEF Init
<1>3. ItemsTypeOK /\ Accounted /\ [Next]_vars => Accounted'
  <2> SUFFICES ASSUME ItemsTypeOK, Accounted, [Next]_vars
               PROVE  Accounted'
    OBVIOUS
  <2>1. ASSUME Ready, UNCHANGED answered
        PROVE  Accounted'
    BY <2>1 DEF Ready
  <2>2. ASSUME NEW input \in DefinitionInput, AddDefinition(input)
        PROVE  Accounted'
    BY <2>1, <2>2 DEF AddDefinition
  <2>3. ASSUME NEW name \in Names, RemoveDefinition(name)
        PROVE  Accounted'
    BY <2>1, <2>3 DEF RemoveDefinition
  <2>4. ASSUME NEW body \in ItemInput, Ingest(body)
        PROVE  Accounted'
    <3>1. PICK a : answered' = <<a>> /\ AnswersWith(body, a)
      BY <2>4, IngestDoes
    <3>2. UNCHANGED definitions
      BY <2>4, IngestDoes
    <3>3. Accounts(a, definitions)
      <4> SUFFICES ASSUME body.array
                   PROVE  Accounts(a, definitions)
        BY <3>1 DEF AnswersWith, Accounts
      <4>1. a.body = body /\ Len(a.rejected) = Len(Unparsed(body)) + Len(BadItems(body))
        BY <3>1 DEF AnswersWith
      <4>2. /\ [k \in DOMAIN a.ingested |-> a.ingested[k].item] = Keep(body.elements, Fitting(body, definitions))
            /\ Len(a.ingested) = Len(GoodItems(body))
            /\ a.status = 400 => a.ingested = <<>>
        BY <3>1, IngestedFit
      <4>3. Len(a.ingested) + Len(a.rejected) = Len(body.elements)
        BY <4>1, <4>2, PartsAddUp
      <4> DEFINE misfits == Keep(body.elements, Misfitting(body, definitions))
      <4>4. \A n \in 1..4 : Cardinality({k \in DOMAIN misfits : Cardinality(BadColumnsBy(misfits[k], definitions)) = n})
                              <= Cardinality({k \in DOMAIN a.rejected : Len(a.rejected[k].errors) = n})
        BY <3>1, MisfitsAreRejected
      <4> QED BY <4>1, <4>2, <4>3, <4>4, Zenon DEF Accounts
    <3> QED BY <3>1, <3>2, <3>3
  <2>5. CASE Receive
    BY <2>5 DEF Receive
  <2>6. CASE UNCHANGED vars
    BY <2>6 DEF vars
  <2> QED BY <2>2, <2>3, <2>4, <2>5, <2>6 DEF Next
<1> QED
  <2>1. ItemsAccounted' <=> Accounted'
    BY Zenon DEF ItemsAccounted, Accounts, Fitting, Misfitting, Elements, BadColumns, BadColumnsBy, Definition, Names
  <2> HIDE DEF Accounted
  <2> QED BY <1>1, <1>2, <1>3, <2>1, ItemsTypeAlwaysOK, PTL DEF Spec

=============================================================================
