---------------------------- MODULE SequenceLemmas ----------------------------
(***************************************************************************)
(* Lemmas about sequences and natural numbers that the proofs about the    *)
(* queues of several components share.                                     *)
(***************************************************************************)
EXTENDS Integers, Sequences, FiniteSets, SequencesExt, SequenceTheorems,
        WellFoundedInduction, TLAPS

\* Where an element of joined sequences is counted.
LEMMA JoinedSequences ==
    ASSUME NEW S, NEW a \in Seq(S), NEW b \in Seq(S), NEW c \in Seq(S)
    PROVE  /\ (a \o b) \o c = a \o (b \o c)
           /\ a \o <<>> = a /\ <<>> \o a = a
           /\ \A e \in S : a \o Append(b, e) = Append(a \o b, e)
           /\ c # <<>> => <<Head(c)>> \o Tail(c) = c
<1>1. (a \o b) \o c = a \o (b \o c)
  BY ConcatAssociative
<1>2. a \o <<>> = a /\ <<>> \o a = a
  BY ConcatEmptySeq
<1>3. ASSUME NEW e \in S PROVE a \o Append(b, e) = Append(a \o b, e)
  OBVIOUS
<1>4. ASSUME c # <<>> PROVE <<Head(c)>> \o Tail(c) = c
  BY <1>4
<1>5. QED BY <1>1, <1>2, <1>3, <1>4

\* The parts of a sequence that is not empty.
LEMMA HeadAndTail ==
    ASSUME NEW S, NEW s \in Seq(S), s # <<>>
    PROVE  Head(s) \in S /\ Tail(s) \in Seq(S)
OBVIOUS

\* The front of joined sequences is the front of the first.
LEMMA JoinedFront ==
    ASSUME NEW S, NEW a \in Seq(S), NEW b \in Seq(S), a # <<>>
    PROVE  Tail(a \o b) = Tail(a) \o b /\ a \o b # <<>>
OBVIOUS

\* The first element is the only one that is in no other place of a tail.
LEMMA FirstElement ==
    ASSUME NEW S, NEW s \in Seq(S), s # <<>>
    PROVE  /\ ToSet(s) \ ToSet(Tail(s)) \subseteq {Head(s)}
           /\ ToSet(Tail(s)) \subseteq ToSet(s)
           /\ Head(s) \in ToSet(s)
<1>1. ASSUME NEW i \in 1..Len(s), s[i] \notin ToSet(Tail(s)) PROVE s[i] = Head(s)
  <2>1. CASE i = 1
    BY <2>1
  <2>2. CASE i # 1
    <3>1. i - 1 \in DOMAIN Tail(s) /\ Tail(s)[i - 1] = s[i]
      BY <2>2
    <3>2. QED BY <1>1, <3>1 DEF ToSet
  <2>3. QED BY <2>1, <2>2
<1>2. ToSet(s) \ ToSet(Tail(s)) \subseteq {Head(s)}
  BY <1>1 DEF ToSet
<1>3. ASSUME NEW i \in DOMAIN Tail(s) PROVE Tail(s)[i] \in ToSet(s)
  <2>1. i + 1 \in DOMAIN s /\ Tail(s)[i] = s[i + 1]
    BY <1>3
  <2>2. QED BY <2>1 DEF ToSet
<1>4. ToSet(Tail(s)) \subseteq ToSet(s)
  BY <1>3 DEF ToSet
<1>5. Head(s) \in ToSet(s)
  BY DEF ToSet
<1>6. QED BY <1>2, <1>4, <1>5

\* A set of natural numbers has a least one.  Induction takes this form here: a
\* property that holds of no least counterexample holds of every number.
LEMMA LeastNumber ==
    ASSUME NEW T, T \subseteq Nat, T # {}
    PROVE  \E x \in T : \A y \in T : x <= y
<1>1. IsWellFoundedOn(OpToRel(<, Nat), Nat)
  BY NatLessThanWellFounded
<1>2. PICK x \in T : \A y \in T : <<y, x>> \notin OpToRel(<, Nat)
  BY <1>1, WFMin
<1>3. ASSUME NEW y \in T PROVE x <= y
  <2>1. <<y, x>> \notin OpToRel(<, Nat)
    BY <1>2
  <2>2. ~ (y < x)
    BY <2>1 DEF OpToRel
  <2>3. QED BY <2>2
<1>4. QED BY <1>3

\* Induction over the numbers, for what can be written as a set of them.
LEMMA NumberInduction ==
    ASSUME NEW P, 0 \in P, \A n \in Nat : n \in P => n + 1 \in P
    PROVE  \A n \in Nat : n \in P
<1>1. SUFFICES ASSUME Nat \ P # {} PROVE FALSE
  OBVIOUS
<1>2. PICK x \in Nat \ P : \A y \in Nat \ P : x <= y
  BY <1>1, LeastNumber
<1>3. x # 0
  OBVIOUS
<1>4. x - 1 \in Nat /\ ~ (x <= x - 1)
  BY <1>3
<1>5. x - 1 \in P
  BY <1>2, <1>4
<1>6. (x - 1) + 1 = x
  OBVIOUS
<1>7. QED BY <1>4, <1>5, <1>6

\* The sums of the beginnings of a sequence of numbers: there is a function that
\* satisfies the recursive definition, and it sums up numbers.
IsSums(f, h, m) == f = [n \in 0..m |-> IF n = 0 THEN 0 ELSE f[n - 1] + h[n]]

NumbersTo(h, m) == \A i \in 1..m : h[i] \in Nat

Alike(h, k, n, d) == \A i \in 1..n : h[i] = k[i + d]

\* The sums of numbers one after the other.
LEMMA SumsExist ==
    ASSUME NEW h, NEW m \in Nat, NumbersTo(h, m)
    PROVE  \E f : IsSums(f, h, m)
<1> DEFINE P == {n \in Nat : n <= m => \E f : IsSums(f, h, n)}
<1>1. 0 \in P
  <2>1. IsSums([n \in 0..0 |-> 0], h, 0)
    BY DEF IsSums
  <2>2. QED BY <2>1
<1>2. ASSUME NEW k \in Nat, k \in P PROVE k + 1 \in P
  <2>1. SUFFICES ASSUME k + 1 <= m PROVE \E f : IsSums(f, h, k + 1)
    OBVIOUS
  <2>2. PICK f : IsSums(f, h, k)
    BY <1>2, <2>1
  <2> DEFINE g == [n \in 0..(k + 1) |-> IF n = k + 1 THEN f[k] + h[k + 1] ELSE f[n]]
  <2>3. \A n \in 0..k : g[n] = f[n] /\ f[n] = IF n = 0 THEN 0 ELSE f[n - 1] + h[n]
    BY <2>2 DEF IsSums
  <2>4. ASSUME NEW n \in 0..(k + 1) PROVE g[n] = IF n = 0 THEN 0 ELSE g[n - 1] + h[n]
    <3>1. CASE n = k + 1
      BY <2>3, <3>1
    <3>2. CASE n # k + 1
      <4>1. n \in 0..k /\ (n # 0 => n - 1 \in 0..k)
        BY <3>2
      <4> HIDE DEF g
      <4>2. QED BY <2>3, <4>1
    <3>3. QED BY <3>1, <3>2
  <2>5. g = [n \in 0..(k + 1) |-> g[n]]
    OBVIOUS
  <2> HIDE DEF g
  <2>6. IsSums(g, h, k + 1)
    BY <2>4, <2>5 DEF IsSums
  <2>7. QED BY <2>6
<1> HIDE DEF P
<1>3. m \in P
  BY <1>1, <1>2, NumberInduction
<1>4. QED BY <1>3 DEF P

\* What these sums are.
LEMMA SumsFacts ==
    ASSUME NEW h, NEW m \in Nat, NumbersTo(h, m), NEW f, IsSums(f, h, m)
    PROVE  /\ f[0] = 0
           /\ \A n \in 0..m : f[n] \in Nat
           /\ \A n \in 1..m : f[n] = f[n - 1] + h[n]
<1>1. f[0] = 0
  BY DEF IsSums
<1>2. \A n \in 1..m : f[n] = f[n - 1] + h[n]
  BY DEF IsSums
<1> DEFINE P == {n \in Nat : n <= m => f[n] \in Nat}
<1>3. 0 \in P
  BY <1>1
<1>4. ASSUME NEW k \in Nat, k \in P PROVE k + 1 \in P
  <2>1. SUFFICES ASSUME k + 1 <= m PROVE f[k + 1] \in Nat
    OBVIOUS
  <2>2. f[k + 1] = f[k] + h[k + 1] /\ h[k + 1] \in Nat
    BY <1>2, <2>1 DEF NumbersTo
  <2>3. QED BY <1>4, <2>1, <2>2
<1> HIDE DEF P
<1>5. \A n \in Nat : n \in P
  BY <1>3, <1>4, NumberInduction
<1>6. QED BY <1>1, <1>2, <1>5 DEF P

\* Sums that begin alike are alike, up to what comes before.
LEMMA SumsAgree ==
    ASSUME NEW h, NEW m \in Nat, NumbersTo(h, m), NEW f, IsSums(f, h, m),
           NEW k, NEW q \in Nat, NumbersTo(k, q), NEW g, IsSums(g, k, q),
           NEW d \in Nat, NEW n \in Nat, n <= m, n + d <= q, Alike(h, k, n, d)
    PROVE  g[n + d] = g[d] + f[n]
<1> DEFINE P == {j \in Nat : j <= n => g[j + d] = g[d] + f[j]}
<1>1. /\ f[0] = 0 /\ \A i \in 0..m : f[i] \in Nat
      /\ \A i \in 1..m : f[i] = f[i - 1] + h[i]
      /\ \A i \in 0..q : g[i] \in Nat
      /\ \A i \in 1..q : g[i] = g[i - 1] + k[i]
  BY SumsFacts
<1>2. 0 \in P
  BY <1>1
<1>3. ASSUME NEW j \in Nat, j \in P PROVE j + 1 \in P
  <2>1. SUFFICES ASSUME j + 1 <= n PROVE g[(j + 1) + d] = g[d] + f[j + 1]
    OBVIOUS
  <2>2. g[j + d] = g[d] + f[j]
    BY <1>3, <2>1
  <2>3. f[j + 1] = f[j] + h[j + 1] /\ h[j + 1] = k[(j + 1) + d]
    BY <1>1, <2>1 DEF Alike
  <2>4. g[(j + 1) + d] = g[j + d] + k[(j + 1) + d]
    <3>1. (j + 1) + d \in 1..q /\ ((j + 1) + d) - 1 = j + d
      BY <2>1
    <3>2. QED BY <1>1, <3>1
  <2>5. f[j] \in Nat /\ h[j + 1] \in Nat /\ g[d] \in Nat
    BY <1>1, <2>1 DEF NumbersTo
  <2>6. QED BY <2>2, <2>3, <2>4, <2>5
<1> HIDE DEF P
<1>4. n \in P
  BY <1>2, <1>3, NumberInduction
<1>5. QED BY <1>4 DEF P

-----------------------------------------------------------------------------
\* A sequence, of whatever elements.
IsSeq(s) == s \in Seq(ToSet(s))

\* A sequence over some set is one over its own elements.
LEMMA AnySeq ==
    ASSUME NEW T, NEW s \in Seq(T)
    PROVE  IsSeq(s)
<1>1. s \in [1..Len(s) -> T] /\ Len(s) \in Nat /\ DOMAIN s = 1..Len(s)
  OBVIOUS
<1>2. s \in [1..Len(s) -> ToSet(s)]
  BY <1>1 DEF ToSet
<1>3. QED BY <1>1, <1>2 DEF IsSeq

\* Joined sequences are a sequence, whatever their elements are.
LEMMA SeqsJoined ==
    ASSUME NEW s, NEW t, IsSeq(s), IsSeq(t)
    PROVE  IsSeq(s \o t)
<1>1. PICK T : T = ToSet(s) \cup ToSet(t)
  OBVIOUS
<1>2. s \in Seq(T) /\ t \in Seq(T)
  <2>1. \A U : U \subseteq T => Seq(U) \subseteq Seq(T)
    OBVIOUS
  <2>2. QED BY <1>1, <2>1 DEF IsSeq
<1>3. s \o t \in Seq(T)
  BY <1>2
<1>4. QED BY <1>3, AnySeq

\* So are one element, and none.
LEMMA SingleSeq ==
    ASSUME NEW e
    PROVE  IsSeq(<<e>>) /\ IsSeq(<<>>)
<1>1. <<e>> \in Seq({e}) /\ <<>> \in Seq({e})
  OBVIOUS
<1>2. QED BY <1>1, AnySeq

\* And so is a sequence with one element more.
LEMMA SeqExtended ==
    ASSUME NEW s, NEW e, IsSeq(s)
    PROVE  IsSeq(Append(s, e))
<1>1. PICK T : T = ToSet(s) \cup {e}
  OBVIOUS
<1>2. s \in Seq(T) /\ e \in T
  <2>1. \A U : U \subseteq T => Seq(U) \subseteq Seq(T)
    OBVIOUS
  <2>2. QED BY <1>1, <2>1 DEF IsSeq
<1>3. Append(s, e) \in Seq(T)
  BY <1>2
<1>4. QED BY <1>3, AnySeq

\* The elements of a sequence with one more are those and the new one.
LEMMA OneMore ==
    ASSUME NEW s, IsSeq(s), NEW e
    PROVE  \A i \in DOMAIN (s \o <<e>>) : (s \o <<e>>)[i] = e \/ (i \in DOMAIN s /\ (s \o <<e>>)[i] = s[i])
<1>1. PICK T : T = ToSet(s) \cup {e}
  OBVIOUS
<1>2. s \in Seq(T) /\ <<e>> \in Seq(T) /\ Len(<<e>>) = 1 /\ <<e>>[1] = e
  <2>1. \A U : U \subseteq T => Seq(U) \subseteq Seq(T)
    OBVIOUS
  <2>2. QED BY <1>1, <2>1 DEF IsSeq
<1>3. QED BY <1>2

\* The rest of a sequence from one of its places on.
LEMMA PartOfSeq ==
    ASSUME NEW S, NEW s \in Seq(S), NEW m \in Nat \ {0}
    PROVE  SubSeq(s, m, Len(s)) \in Seq(S)
<1>1. PICK n \in Nat : n = Len(s) /\ DOMAIN s = 1..n
  OBVIOUS
<1>2. \A i \in m..n : s[i] \in S
  BY <1>1
<1>3. SubSeq(s, m, n) \in Seq(S)
  BY <1>2, SubSeqProperties
<1>4. QED BY <1>1, <1>3

\* A bounded set of numbers has a greatest one.
LEMMA GreatestNumber ==
    ASSUME NEW T, T \subseteq Nat, T # {}, NEW b \in Nat, \A x \in T : x <= b
    PROVE  Max(T) \in T /\ \A x \in T : x <= Max(T)
<1> DEFINE Below == {b - x : x \in T}
<1>1. Below \subseteq Nat /\ Below # {}
  <2>1. ASSUME NEW x \in T PROVE b - x \in Nat
    <3>1. x \in Nat /\ x <= b
      OBVIOUS
    <3>2. QED BY <3>1
  <2>2. QED BY <2>1
<1>2. PICK y \in Below : \A z \in Below : y <= z
  BY <1>1, LeastNumber
<1>3. PICK x \in T : y = b - x
  BY <1>2
<1>4. ASSUME NEW z \in T PROVE x >= z
  <2>1. b - z \in Below
    OBVIOUS
  <2>2. y <= b - z /\ x \in Nat /\ z \in Nat /\ b \in Nat
    BY <1>2, <2>1
  <2>3. QED BY <1>3, <2>2
<1>5. Max(T) \in T /\ \A z \in T : Max(T) >= z
  BY <1>4 DEF Max
<1>6. QED BY <1>5

\* Min of numbers that have a least.
LEMMA LeastIs ==
    ASSUME NEW T, T \subseteq Nat, NEW x \in T, \A y \in T : x <= y
    PROVE  Min(T) = x
<1>1. \A z \in T : (\A y \in T : z <= y) => z = x
  OBVIOUS
<1>2. QED BY <1>1 DEF Min

\* Max of numbers that have a greatest.
LEMMA GreatestIs ==
    ASSUME NEW T, T \subseteq Nat, NEW x \in T, \A y \in T : y <= x
    PROVE  Max(T) = x
<1>1. \A z \in T : (\A y \in T : z >= y) => z = x
  OBVIOUS
<1>2. QED BY <1>1 DEF Max

\* Min of any natural numbers is one of them.
LEMMA FirstOfFinite ==
    ASSUME NEW T, T \subseteq Nat, T # {}
    PROVE  Min(T) \in T /\ Min(T) \in Nat
<1>1. PICK x \in T : \A y \in T : x <= y
  BY LeastNumber
<1>2. QED BY <1>1, LeastIs

\* A Max with 1 can be the first place of a SubSeq.
LEMMA AtLeastOne ==
    ASSUME NEW k \in Int
    PROVE  Max({1, k}) \in Nat \ {0}
<1>1. PICK T : T = {1, k}
  OBVIOUS
<1>2. \E z \in T : \A y \in T : z >= y
  BY <1>1
<1>3. \A z \in T : (\A y \in T : z >= y) => z \in Nat \ {0}
  BY <1>1
<1>4. Max(T) \in Nat \ {0}
  BY <1>2, <1>3 DEF Max
<1>5. QED BY <1>1, <1>4
=============================================================================
