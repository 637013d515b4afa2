-------------------------- MODULE AlertQueue_proofs --------------------------
(***************************************************************************)
(* Proofs about the alert queue of idsm_managerd: reading it never leaves  *)
(* the file, one process publishes an alert at most once, and without      *)
(* faults the queue implements the durable FIFO.                           *)
(***************************************************************************)
EXTENDS AlertQueue, SequenceLemmas, FiniteSetTheorems

-----------------------------------------------------------------------------
\* Lines.

LEMMA CellFacts ==
    ASSUME NEW cell \in Cells
    PROVE  /\ cell[1] \in Alerts /\ cell[2] \in 1..Size[cell[1]]
           /\ cell = <<cell[1], cell[2]>>
<1>1. PICK a \in Alerts : cell \in {<<a, j>> : j \in 1..Size[a]}
  BY DEF Cells
<1>2. PICK j \in 1..Size[a] : cell = <<a, j>>
  BY <1>1
<1>3. QED BY <1>2

LEMMA LineFacts ==
    ASSUME NEW a \in Alerts
    PROVE  /\ Size[a] \in Nat /\ Size[a] >= 2
           /\ Line(a) \in Seq(Cells) /\ Len(Line(a)) = Size[a]
           /\ \A j \in 1..Size[a] : Line(a)[j] = <<a, j>>
           /\ Body(a) \in Seq(Cells) /\ Len(Body(a)) = Size[a] - 1
           /\ Body(a)[1] = <<a, 1>> /\ Line(a)[1] = <<a, 1>>
<1>1. Size[a] \in Nat /\ Size[a] >= 2
  BY QueueAssumption
<1>2. \A j \in 1..Size[a] : <<a, j>> \in Cells
  BY DEF Cells
<1>3. Line(a) \in Seq(Cells) /\ Len(Line(a)) = Size[a]
  BY <1>1, <1>2 DEF Line
<1>4. \A j \in 1..Size[a] : Line(a)[j] = <<a, j>>
  BY DEF Line
<1>5. Body(a) \in Seq(Cells) /\ Len(Body(a)) = Size[a] - 1
  BY <1>1, <1>2 DEF Body
<1>6. Body(a)[1] = <<a, 1>> /\ Line(a)[1] = <<a, 1>>
  BY <1>1 DEF Body, Line
<1>7. QED BY <1>1, <1>3, <1>4, <1>5, <1>6

LEMMA NumbersFinite ==
    ASSUME NEW S, NEW m \in Nat, NEW n \in Nat, S \subseteq m..n
    PROVE  IsFiniteSet(S) /\ Cardinality(S) \in Nat /\ S \subseteq Nat
<1>1. IsFiniteSet(m..n)
  BY FS_Interval
<1>2. IsFiniteSet(S)
  BY <1>1, FS_Subset
<1>3. QED BY <1>2, FS_CardinalityType

\* Every number up to the size of a set of numbers is the rank of one of them.
LEMMA RanksExist ==
    \A b \in Nat : \A S \in SUBSET (1..b) :
        \A n \in 1..Cardinality(S) : \E i \in S : Cardinality(UpTo(S, i)) = n
<1> DEFINE Ranked(S) == \A n \in 1..Cardinality(S) :
                            \E i \in S : Cardinality(UpTo(S, i)) = n
           P == {b \in Nat : \A S \in SUBSET (1..b) : Ranked(S)}
<1>1. 0 \in P
  <2>1. ASSUME NEW S \in SUBSET (1..0) PROVE Ranked(S)
    <3>1. S = {} OBVIOUS
    <3>2. Cardinality(S) = 0 BY <3>1, FS_EmptySet
    <3>3. QED BY <3>2
  <2>2. QED BY <2>1
<1>2. ASSUME NEW b \in Nat, b \in P, NEW S \in SUBSET (1..(b + 1)) PROVE Ranked(S)
  <2> DEFINE T == S \ {b + 1}
  <2>1. T \in SUBSET (1..b)
    OBVIOUS
  <2>2. Ranked(T)
    BY <1>2, <2>1
  <2>3. CASE b + 1 \notin S
    BY <2>2, <2>3, T = S
  <2>4. CASE b + 1 \in S
    <3>1. IsFiniteSet(T) /\ IsFiniteSet(S) /\ Cardinality(T) \in Nat
      BY <2>1, NumbersFinite, b + 1 \in Nat
    <3>2. S = T \cup {b + 1}
      BY <2>4
    <3>3. Cardinality(S) = Cardinality(T) + 1
      BY <3>1, <3>2, FS_AddElement, b + 1 \notin T
    <3>4. ASSUME NEW n \in 1..Cardinality(S)
          PROVE  \E i \in S : Cardinality(UpTo(S, i)) = n
      <4>1. CASE n <= Cardinality(T)
        <5>1. n \in 1..Cardinality(T)
          BY <4>1, <3>1, <3>3
        <5>2. PICK i \in T : Cardinality(UpTo(T, i)) = n
          BY <5>1, <2>2
        <5>3. i <= b /\ i \in Nat
          BY <2>1
        <5>4. UpTo(S, i) = UpTo(T, i)
          BY <3>2, <5>3 DEF UpTo
        <5>5. QED BY <5>2, <5>4
      <4>2. CASE n = Cardinality(T) + 1
        <5>1. UpTo(S, b + 1) = S
          <6>1. \A i \in S : i <= b + 1
            OBVIOUS
          <6>2. QED BY <6>1 DEF UpTo
        <5>2. QED BY <5>1, <3>3, <4>2, <2>4
      <4>3. QED BY <4>1, <4>2, <3>1, <3>3
    <3>5. QED BY <3>4
  <2>5. QED BY <2>3, <2>4
<1>3. ASSUME NEW b \in Nat, b \in P PROVE b + 1 \in P
  <2>1. \A S \in SUBSET (1..(b + 1)) : Ranked(S)
    BY <1>2, <1>3
  <2> HIDE DEF Ranked
  <2>2. QED BY <2>1
<1>4. \A b \in Nat : b \in P
  <2> HIDE DEF P
  <2>1. QED BY <1>1, <1>3, NumberInduction
<1>5. QED BY <1>4

\* Different elements of a set of numbers have different ranks.
LEMMA RanksDiffer ==
    ASSUME NEW b \in Nat, NEW S \in SUBSET (1..b), NEW i \in S, NEW j \in S, i < j
    PROVE  Cardinality(UpTo(S, i)) < Cardinality(UpTo(S, j))
<1>0. i \in Nat /\ j \in Nat /\ S \subseteq Nat
  OBVIOUS
<1>1. UpTo(S, i) \subseteq UpTo(S, j) /\ j \in UpTo(S, j) /\ j \notin UpTo(S, i)
  <2>1. ASSUME NEW k \in S, k <= i PROVE k <= j
    <3>1. k \in Nat BY <1>0
    <3>2. QED BY <1>0, <2>1, <3>1
  <2>2. ~(j <= i)
    BY <1>0
  <2>3. j <= j
    BY <1>0
  <2>4. QED BY <2>1, <2>2, <2>3 DEF UpTo
<1>2. IsFiniteSet(UpTo(S, j)) /\ Cardinality(UpTo(S, j)) \in Nat
  BY NumbersFinite, 1 \in Nat, UpTo(S, j) \subseteq 1..b DEF UpTo
<1>3. IsFiniteSet(UpTo(S, i)) /\ Cardinality(UpTo(S, i)) \in Nat
  BY NumbersFinite, 1 \in Nat, UpTo(S, i) \subseteq 1..b DEF UpTo
<1>4. Cardinality(UpTo(S, i)) <= Cardinality(UpTo(S, j))
  BY <1>1, <1>2, FS_Subset
<1>5. Cardinality(UpTo(S, i)) # Cardinality(UpTo(S, j))
  BY <1>1, <1>2, FS_Subset
<1>6. QED BY <1>2, <1>3, <1>4, <1>5

-----------------------------------------------------------------------------
\* What pending() reads.

LEMMA EndsFacts ==
    ASSUME NEW f \in Seq(Cells), NEW from \in Nat
    PROVE  /\ Ends(f, from) \subseteq 1..Len(f)
           /\ \A i \in Ends(f, from) : i \in Nat /\ from < i /\ i <= Len(f)
           /\ IsFiniteSet(Ends(f, from))
           /\ \A S \in SUBSET Ends(f, from) : IsFiniteSet(S) /\ Cardinality(S) \in Nat
<1>1. \A i \in Ends(f, from) : i \in Nat /\ from < i /\ i <= Len(f)
  BY DEF Ends
<1>2. Ends(f, from) \subseteq 1..Len(f)
  BY <1>1
<1>3. IsFiniteSet(Ends(f, from))
  BY <1>2, NumbersFinite
<1>4. \A S \in SUBSET Ends(f, from) : IsFiniteSet(S) /\ Cardinality(S) \in Nat
  BY <1>3, FS_Subset, FS_CardinalityType
<1>5. QED BY <1>1, <1>2, <1>3, <1>4

\* The line that ends at i begins behind the end of the one before.
Begin(f, from, i) == Max({from} \cup {k \in Ends(f, from) : k < i}) + 1

LEMMA BeginFacts ==
    ASSUME NEW f \in Seq(Cells), NEW from \in Nat, NEW i \in Ends(f, from)
    PROVE  /\ Begin(f, from, i) \in (from + 1)..i
           /\ Begin(f, from, i) - 1 \in {from} \cup Ends(f, from)
           /\ \A k \in Ends(f, from) : k < i => k < Begin(f, from, i)
           /\ LineTo(f, from, i) = SubSeq(f, Begin(f, from, i), i)
           /\ LineTo(f, from, i) \in Seq(Cells)
           /\ Len(LineTo(f, from, i)) = i - Begin(f, from, i) + 1
           /\ \A k \in 1..(i - Begin(f, from, i) + 1) :
                  LineTo(f, from, i)[k] = f[Begin(f, from, i) + k - 1]
<1> DEFINE before == {from} \cup {k \in Ends(f, from) : k < i}
           top == Max(before)
<1>1. /\ i \in Nat /\ from < i /\ i <= Len(f) /\ Len(f) \in Nat
      /\ \A k \in Ends(f, from) : k \in Nat /\ from < k
  BY EndsFacts
<1>2. top \in before /\ \A x \in before : x <= top
  <2>0. \A x \in before : x \in Nat /\ x <= i
    <3>1. from \in Nat /\ from <= i
      BY <1>1
    <3>2. ASSUME NEW k \in Ends(f, from), k < i PROVE k \in Nat /\ k <= i
      <4>1. k \in Nat BY <1>1
      <4>2. QED BY <1>1, <3>2, <4>1
    <3>3. QED BY <3>1, <3>2
  <2>1. before \subseteq Nat /\ before # {} /\ \A x \in before : x <= i
    BY <2>0
  <2> HIDE DEF before
  <2>2. QED BY <2>1, <1>1, GreatestNumber
<1>3. top \in Nat /\ from <= top /\ top < i
  BY <1>1, <1>2
<1>4. top \in {from} \cup Ends(f, from)
  BY <1>2
<1>5. \A k \in Ends(f, from) : k < i => k <= top
  BY <1>2
<1>6. Begin(f, from, i) = top + 1
  BY DEF Begin
<1> HIDE DEF top, before
<1>7. LineTo(f, from, i) = SubSeq(f, Begin(f, from, i), i)
  BY DEF LineTo, Begin
<1>8. Begin(f, from, i) \in (from + 1)..i
  BY <1>1, <1>3, <1>6
<1>9. Begin(f, from, i) - 1 = top
  BY <1>3, <1>6
<1>10. \A k \in Ends(f, from) : k < i => k < Begin(f, from, i)
  BY <1>1, <1>3, <1>5, <1>6
<1>11. /\ SubSeq(f, Begin(f, from, i), i) \in Seq(Cells)
       /\ Len(SubSeq(f, Begin(f, from, i), i)) = i - Begin(f, from, i) + 1
       /\ \A k \in 1..(i - Begin(f, from, i) + 1) :
              SubSeq(f, Begin(f, from, i), i)[k] = f[Begin(f, from, i) + k - 1]
  BY <1>1, <1>8
<1>12. QED BY <1>4, <1>7, <1>8, <1>9, <1>10, <1>11

\* pending() stops at the end of a line, with no more lines than it may return.
LEMMA ReadEndFacts ==
    ASSUME NEW f \in Seq(Cells), NEW from \in Nat
    PROVE  /\ ReadEnd(f, from) \in {from} \cup Ends(f, from)
           /\ Cardinality(UpTo(Filled(f, from), ReadEnd(f, from))) <= MaxBatch
<1> DEFINE F == Filled(f, from)
           E == Ends(f, from)
           Full(e) == Cardinality(UpTo(F, e)) >= MaxBatch
           Stops == {e \in {from} \cup E : Full(e) \/ \A i \in E : i <= e}
           Good(e) == /\ Cardinality(UpTo(F, e)) = MaxBatch \/ \A i \in E : i <= e
                      /\ \A i \in E : i < e => Cardinality(UpTo(F, i)) < MaxBatch
<1>1. /\ MaxBatch \in Nat /\ MaxBatch >= 1
      /\ \A i \in E : i \in Nat /\ from < i /\ i <= Len(f)
      /\ F \subseteq E /\ Len(f) \in Nat
  BY QueueAssumption, EndsFacts DEF Filled
<1>2. \A e : IsFiniteSet(UpTo(F, e)) /\ Cardinality(UpTo(F, e)) \in Nat
  BY <1>1, EndsFacts DEF UpTo
<1> HIDE DEF F, E
\* One line more at most.
<1>3. ASSUME NEW e \in {from} \cup E,
             \A i \in E : i < e => Cardinality(UpTo(F, i)) < MaxBatch
      PROVE  Cardinality(UpTo(F, e)) <= MaxBatch
  <2> DEFINE T == {i \in E : i < e}
  <2>1. CASE T = {}
    <3>1. UpTo(F, e) \subseteq {e}
      BY <1>1, <2>1 DEF UpTo
    <3>2. Cardinality(UpTo(F, e)) <= 1
      <4>1. IsFiniteSet({e}) /\ Cardinality({e}) = 1
        BY FS_Singleton
      <4>2. QED BY <3>1, <4>1, FS_Subset
    <3>3. QED BY <1>1, <1>2, <3>2
  <2>2. CASE T # {}
    <3>1. T \subseteq Nat /\ \A x \in T : x <= Len(f)
      BY <1>1
    <3>2. PICK i \in T : \A x \in T : x <= i
      <4> HIDE DEF T
      <4>1. QED BY <1>1, <2>2, <3>1, GreatestNumber
    <3>3. UpTo(F, e) \subseteq UpTo(F, i) \cup {e}
      <4>1. ASSUME NEW x \in F, x <= e, x # e PROVE x <= i
        BY <1>1, <3>2, <4>1
      <4>2. QED BY <4>1 DEF UpTo
    <3>4. Cardinality(UpTo(F, i)) < MaxBatch
      BY <1>3, <3>2
    <3>5. /\ IsFiniteSet(UpTo(F, i) \cup {e})
          /\ Cardinality(UpTo(F, i) \cup {e}) <= Cardinality(UpTo(F, i)) + 1
          /\ Cardinality(UpTo(F, i) \cup {e}) \in Nat
      <4>1. IsFiniteSet(UpTo(F, i)) /\ Cardinality(UpTo(F, i)) \in Nat
        BY <1>2
      <4>2. /\ IsFiniteSet(UpTo(F, i) \cup {e})
            /\ Cardinality(UpTo(F, i) \cup {e}) =
                   IF e \in UpTo(F, i) THEN Cardinality(UpTo(F, i))
                                       ELSE Cardinality(UpTo(F, i)) + 1
        BY <4>1, FS_AddElement
      <4>3. QED BY <4>1, <4>2
    <3>6. Cardinality(UpTo(F, e)) <= Cardinality(UpTo(F, i) \cup {e})
      BY <3>3, <3>5, FS_Subset
    <3>7. QED BY ONLY <1>1, <1>2, <3>4, <3>5, <3>6
  <2>3. QED BY <2>1, <2>2
<1>4. \E e \in Stops : \A other \in Stops : e <= other
  <2>1. Stops \subseteq Nat
    BY <1>1
  <2>2. PICK e \in {from} \cup E : \A i \in {from} \cup E : i <= e
    <3>1. {from} \cup E \subseteq Nat /\ \A x \in {from} \cup E : x <= from + Len(f)
      BY <1>1
    <3>2. QED BY <1>1, <3>1, GreatestNumber, from + Len(f) \in Nat
  <2>3. e \in Stops
    BY <2>2
  <2> HIDE DEF Stops
  <2>4. QED BY <2>1, <2>3, LeastNumber
<1>5. PICK e \in Stops : \A other \in Stops : e <= other
  BY <1>4
<1>6. \A i \in E : i < e => Cardinality(UpTo(F, i)) < MaxBatch
  <2>1. ASSUME NEW i \in E, i < e PROVE ~Full(i)
    <3>1. i \notin Stops
      BY <1>1, <1>5, <2>1
    <3>2. QED BY <3>1
  <2>2. QED BY <1>1, <1>2, <2>1
<1>7. Good(e)
  BY <1>1, <1>2, <1>3, <1>5, <1>6
<1>8. e \in {from} \cup E
  BY <1>5
<1>9. ReadEnd(f, from) = CHOOSE x \in {from} \cup E : Good(x)
  BY DEF ReadEnd, E, F
<1>10. ReadEnd(f, from) \in {from} \cup E /\ Good(ReadEnd(f, from))
  <2> HIDE DEF Good
  <2>1. QED BY <1>7, <1>8, <1>9
<1>11. Cardinality(UpTo(F, ReadEnd(f, from))) <= MaxBatch
  BY <1>3, <1>10
<1>12. QED BY <1>10, <1>11 DEF E, F

\* The ends of the lines that are alerts, and of the nth of them.
Whole(f, from, to) == {i \in UpTo(Ends(f, from), to) : AlertOf(LineTo(f, from, i)) # {}}
Nth(f, from, to, n) ==
    CHOOSE i \in Whole(f, from, to) : Cardinality(UpTo(Whole(f, from, to), i)) = n

\* The alerts are those of the ends that are alerts, in order.
LEMMA AlertsAre ==
    ASSUME NEW f \in Seq(Cells), NEW from \in Nat, NEW to \in Nat
    PROVE  /\ Whole(f, from, to) \in SUBSET (1..Len(f))
           /\ Cardinality(Whole(f, from, to)) \in Nat
           /\ \A n \in 1..Cardinality(Whole(f, from, to)) :
                  /\ Nth(f, from, to, n) \in Whole(f, from, to)
                  /\ Cardinality(UpTo(Whole(f, from, to), Nth(f, from, to, n))) = n
           /\ AlertsBetween(f, from, to) =
                  [n \in 1..Cardinality(Whole(f, from, to)) |->
                      CHOOSE a \in AlertOf(LineTo(f, from, Nth(f, from, to, n))) : TRUE]
<1>1. Whole(f, from, to) \in SUBSET (1..Len(f)) /\ Len(f) \in Nat
  BY EndsFacts DEF Whole, UpTo
<1>2. Cardinality(Whole(f, from, to)) \in Nat
  BY <1>1, NumbersFinite
<1>3. ASSUME NEW n \in 1..Cardinality(Whole(f, from, to))
      PROVE  /\ Nth(f, from, to, n) \in Whole(f, from, to)
             /\ Cardinality(UpTo(Whole(f, from, to), Nth(f, from, to, n))) = n
  <2>1. \E i \in Whole(f, from, to) : Cardinality(UpTo(Whole(f, from, to), i)) = n
    BY <1>1, RanksExist
  <2>2. QED BY <2>1 DEF Nth
<1>4. AlertsBetween(f, from, to) =
          [n \in 1..Cardinality(Whole(f, from, to)) |->
              CHOOSE a \in AlertOf(LineTo(f, from, Nth(f, from, to, n))) : TRUE]
  BY DEF AlertsBetween, Whole, Nth
<1>5. QED BY <1>1, <1>2, <1>3, <1>4

\* An alert that is read has its first cell where its line begins.
LEMMA AlertRead ==
    ASSUME NEW f \in Seq(Cells), NEW from \in Nat, NEW to \in Nat,
           NEW i \in Whole(f, from, to)
    PROVE  LET a == CHOOSE b \in AlertOf(LineTo(f, from, i)) : TRUE IN
           /\ a \in Alerts
           /\ Begin(f, from, i) \in (from + 1)..i
           /\ f[Begin(f, from, i)] = <<a, 1>>
           /\ i \in Filled(f, from) /\ i <= to
<1> DEFINE a == CHOOSE b \in AlertOf(LineTo(f, from, i)) : TRUE
           line == LineTo(f, from, i)
           begin == Begin(f, from, i)
<1>1. i \in Ends(f, from) /\ i <= to /\ AlertOf(line) # {}
  BY DEF Whole, UpTo
<1>2. a \in AlertOf(line)
  BY <1>1
<1>3. a \in Alerts /\ line \in {Line(a), Body(a)}
  BY <1>2 DEF AlertOf
<1>4. /\ begin \in (from + 1)..i
      /\ \A k \in 1..(i - begin + 1) : line[k] = f[begin + k - 1]
      /\ i \in Nat
  BY <1>1, BeginFacts, EndsFacts
<1>5. line[1] = <<a, 1>>
  <2>1. Body(a)[1] = <<a, 1>> /\ Line(a)[1] = <<a, 1>>
    BY <1>3, LineFacts
  <2>2. QED BY <1>3, <2>1
<1> HIDE DEF a, line, begin
<1>6. f[begin] = <<a, 1>>
  <2>1. 1 \in 1..(i - begin + 1) /\ begin + 1 - 1 = begin
    BY <1>4
  <2>2. QED BY <1>4, <1>5, <2>1
<1>7. ~Blank(line)
  <2>1. Size[a] \in Nat /\ Size[a] >= 2
    BY <1>3, LineFacts
  <2>2. QED BY <1>5, <2>1 DEF Blank, Newline
<1>8. i \in Filled(f, from)
  BY <1>1, <1>7 DEF Filled, line
<1>9. QED BY <1>1, <1>3, <1>4, <1>6, <1>8 DEF a, line, begin

\* An alert is read where its line lies, and twice only if it is there twice.
LEMMA BatchFacts ==
    ASSUME NEW f \in Seq(Cells), NEW from \in Nat, NEW to \in Nat
    PROVE  LET b == AlertsBetween(f, from, to) IN
           /\ b \in Seq(Alerts)
           /\ Len(b) <= Cardinality(UpTo(Filled(f, from), to))
           /\ \A n \in DOMAIN b : \E p \in (from + 1)..to : f[p] = <<b[n], 1>>
           /\ IsInjective(f) => IsInjective(b)
<1> DEFINE b == AlertsBetween(f, from, to)
           W == Whole(f, from, to)
           nth(n) == Nth(f, from, to, n)
           begin(n) == Begin(f, from, nth(n))
<1>0. b = [n \in 1..Cardinality(W) |->
              CHOOSE a \in AlertOf(LineTo(f, from, nth(n))) : TRUE]
  BY AlertsAre
<1>1. /\ W \in SUBSET (1..Len(f)) /\ Len(f) \in Nat
      /\ Cardinality(W) \in Nat
      /\ \A n \in 1..Cardinality(W) : nth(n) \in W /\ Cardinality(UpTo(W, nth(n))) = n
  <2>1. Len(f) \in Nat
    OBVIOUS
  <2>2. QED BY <2>1, AlertsAre
<1>2. ASSUME NEW n \in 1..Cardinality(W)
      PROVE  /\ b[n] \in Alerts
             /\ begin(n) \in (from + 1)..nth(n)
             /\ f[begin(n)] = <<b[n], 1>>
             /\ nth(n) \in Filled(f, from) /\ nth(n) <= to
  <2>1. nth(n) \in W
    BY <1>1
  <2>2. b[n] = CHOOSE a \in AlertOf(LineTo(f, from, nth(n))) : TRUE
    BY <1>0
  <2>3. QED BY <2>1, <2>2, AlertRead
<1>3. DOMAIN b = 1..Cardinality(W) /\ b \in Seq(Alerts) /\ Len(b) = Cardinality(W)
  <2>1. DOMAIN b = 1..Cardinality(W)
    BY <1>0
  <2>2. b \in [1..Cardinality(W) -> Alerts]
    BY <1>0, <1>2
  <2>3. QED BY <1>1, <2>1, <2>2
<1>4. Len(b) <= Cardinality(UpTo(Filled(f, from), to))
  <2>1. W \subseteq UpTo(Filled(f, from), to)
    BY AlertRead DEF UpTo
  <2>2. IsFiniteSet(UpTo(Filled(f, from), to))
    BY EndsFacts, UpTo(Filled(f, from), to) \subseteq Ends(f, from) DEF UpTo, Filled
  <2>3. Cardinality(W) <= Cardinality(UpTo(Filled(f, from), to))
    BY <2>1, <2>2, FS_Subset
  <2>4. QED BY <1>3, <2>3
<1>5. ASSUME NEW n \in DOMAIN b PROVE \E p \in (from + 1)..to : f[p] = <<b[n], 1>>
  <2>1. /\ begin(n) \in (from + 1)..nth(n) /\ nth(n) <= to /\ f[begin(n)] = <<b[n], 1>>
        /\ nth(n) \in Nat
    BY <1>1, <1>2, <1>3, <1>5
  <2> HIDE DEF begin, nth, b
  <2>2. begin(n) \in (from + 1)..to
    BY <2>1
  <2>3. QED BY <2>1, <2>2
<1>6. ASSUME IsInjective(f), NEW n \in DOMAIN b, NEW m \in DOMAIN b, n < m
      PROVE  b[n] # b[m]
  <2>1. n \in 1..Cardinality(W) /\ m \in 1..Cardinality(W)
    BY <1>3
  <2>2. /\ begin(n) \in (from + 1)..nth(n) /\ f[begin(n)] = <<b[n], 1>>
        /\ begin(m) \in (from + 1)..nth(m) /\ f[begin(m)] = <<b[m], 1>>
    BY <1>2, <2>1
  <2>3. nth(n) \in W /\ nth(m) \in W
    BY <1>1, <2>1
  <2>4. nth(n) < nth(m)
    <3>1. nth(n) \in Nat /\ nth(m) \in Nat
      BY <1>1, <2>3
    <3>2. Cardinality(UpTo(W, nth(n))) = n /\ Cardinality(UpTo(W, nth(m))) = m
      BY <1>1, <2>1
    <3>3. nth(n) # nth(m)
      BY <1>6, <3>2
    <3>4. ~(nth(m) < nth(n))
      <4>1. ASSUME nth(m) < nth(n) PROVE m < n
        <5> HIDE DEF W, nth
        <5>1. Cardinality(UpTo(W, nth(m))) < Cardinality(UpTo(W, nth(n)))
          BY <1>1, <2>3, <4>1, RanksDiffer
        <5>2. QED BY <5>1, <3>2
      <4>2. n \in Nat /\ m \in Nat
        BY <2>1
      <4>3. QED BY <4>1, <4>2, <1>6
    <3> HIDE DEF nth
    <3>5. QED BY <3>1, <3>3, <3>4
  <2>5. nth(n) < begin(m)
    <3>1. nth(n) \in Ends(f, from) /\ nth(m) \in Ends(f, from)
      BY <2>3 DEF Whole, UpTo
    <3>2. QED BY <2>4, <3>1, BeginFacts
  <2>6. begin(n) # begin(m) /\ begin(n) \in DOMAIN f /\ begin(m) \in DOMAIN f
    <3>1. nth(n) \in 1..Len(f) /\ nth(m) \in 1..Len(f) /\ Len(f) \in Nat
      BY <1>1, <2>3
    <3>2. DOMAIN f = 1..Len(f)
      OBVIOUS
    <3> HIDE DEF nth, begin
    <3>3. QED BY <2>2, <2>5, <3>1, <3>2
  <2>7. f[begin(n)] # f[begin(m)]
    <3> HIDE DEF nth, begin
    <3>1. QED BY <1>6, <2>6 DEF IsInjective
  <2>8. QED BY <2>2, <2>7
<1>7. ASSUME IsInjective(f) PROVE IsInjective(b)
  <2>1. \A n, m \in DOMAIN b : n \in Nat /\ m \in Nat
    BY <1>3
  <2>2. ASSUME NEW n \in DOMAIN b, NEW m \in DOMAIN b, n # m PROVE b[n] # b[m]
    <3>1. n < m \/ m < n
      BY <2>1, <2>2
    <3>2. QED BY <3>1, <1>6, <1>7
  <2> HIDE DEF b
  <2>3. QED BY <2>2 DEF IsInjective
<1>8. QED BY <1>3, <1>4, <1>5, <1>7

-----------------------------------------------------------------------------
\* Types and cursors.

\* Where the cursors lie: in the file, but for the moment in which the file has
\* been cut and the cursor has not.
CursorsLie ==
    /\ Up /\ upc # "truncated" => cursor <= Len(file)
    /\ upc \in {"batch", "mark"} => cursor <= pendingEnd /\ pendingEnd <= Len(file)
    /\ upc = "truncated" => file = <<>>

Typed == TypeOK /\ CursorsLie

\* What the stream still holds follows the file.
held == file \o buffered

NamesIn(t, names) == \A p \in DOMAIN t : t[p][1] \in names

\* No cell is held twice, and what is held was offered.
HeldOnce ==
    /\ IsInjective(held)
    /\ NamesIn(held, offered)

Times(a, s) == Cardinality({i \in DOMAIN s : s[i] = a})

\* How far the uploader is: what lies behind was not published in this life.
Reached == CASE upc = "truncated" -> 0
             [] upc = "mark"      -> pendingEnd
             [] OTHER             -> cursor

Ahead(a) == \/ a \notin offered
            \/ \E p \in DOMAIN held : Reached < p /\ held[p] = <<a, 1>>

\* The alerts of a batch are different ones, and their lines lie between the cursors.
BatchLies ==
    upc = "batch" =>
        /\ IsInjective(batch)
        /\ \A n \in DOMAIN batch :
              \E p \in (cursor + 1)..pendingEnd : file[p] = <<batch[n], 1>>

Published ==
    /\ \A a \in Alerts : Times(a, uploaded) <= lives
    /\ Up => \A a \in Alerts : Ahead(a) => Times(a, uploaded) < lives

Once == HeldOnce /\ BatchLies /\ Published

\* A file of whole lines.
WholeLines(f) ==
    \A i \in DOMAIN f :
        /\ \A m \in 1..Size[f[i][1]] :
              i - f[i][2] + m \in DOMAIN f /\ f[i - f[i][2] + m] = <<f[i][1], m>>
        /\ i = f[i][2] \/ Newline(f[i - f[i][2]])

Newlines(f) == {i \in DOMAIN f : Newline(f[i])}
Bounds(f)   == {0} \cup Newlines(f)
After(f, c) == {i \in Newlines(f) : c < i}

\* The lines of f are the last alerts of log.
LastOf(f, log) ==
    /\ Cardinality(After(f, 0)) <= Len(log)
    /\ \A i \in Newlines(f) : f[i][1] = log[Len(log) - Cardinality(After(f, i))]

Shape(f, log) == WholeLines(f) /\ LastOf(f, log)

\* What was logged between the bounds c and d.
Logged(f, log, c, d) ==
    [n \in 1..(Cardinality(After(f, c)) - Cardinality(After(f, d))) |->
        log[Len(log) - Cardinality(After(f, c)) + n]]

\* Without faults every cursor lies at the end of a line, the file never falls
\* behind, and a batch is what was logged between the cursors.
LinesInOrder ==
    /\ buffered = <<>>
    /\ Shape(file, logged)
    /\ Up /\ upc # "truncated" =>
          cursor \in Bounds(file) /\ cursorFile \in Bounds(file) /\ cursorFile <= cursor
    /\ ~Up => cursorFile \in Bounds(file)
    /\ upc \in {"batch", "mark"} => pendingEnd \in Bounds(file)
    /\ upc = "batch" => batch = Logged(file, logged, cursor, pendingEnd)

\* A part of what the stream holds is written, and the rest stays in it.
LEMMA Parts ==
    ASSUME NEW f \in Seq(Cells), NEW c \in Seq(Cells), NEW k \in 0..Len(c)
    PROVE  /\ f \o SubSeq(c, 1, k) \in Seq(Cells) /\ SubSeq(c, k + 1, Len(c)) \in Seq(Cells)
           /\ (f \o SubSeq(c, 1, k)) \o SubSeq(c, k + 1, Len(c)) = f \o c
           /\ Len(f \o SubSeq(c, 1, k)) = Len(f) + k
           /\ \A p \in 1..(Len(f) + k) : (f \o SubSeq(c, 1, k))[p] = (f \o c)[p]
<1> DEFINE l == SubSeq(c, 1, k)
           r == SubSeq(c, k + 1, Len(c))
<1>1. Len(f) \in Nat /\ Len(c) \in Nat /\ k \in Nat /\ k <= Len(c)
  OBVIOUS
<1>2. l \in Seq(Cells) /\ Len(l) = k /\ \A p \in 1..k : l[p] = c[p]
  BY <1>1
<1>3. r \in Seq(Cells)
  BY <1>1
<1>4. l \o r = c
  <2>1. 1 \in 1..(Len(c) + 1) /\ k \in (1 - 1)..Len(c) /\ Len(c) \in k..Len(c)
    BY <1>1
  <2>2. l \o r = SubSeq(c, 1, Len(c))
    BY <2>1, ConcatAdjacentSubSeq
  <2>3. QED BY <2>2, SubSeqFull
<1> HIDE DEF l, r
<1>5. (f \o l) \o r = f \o (l \o r)
  BY SMTT(20), <1>2, <1>3, ConcatAssociative
<1>6. /\ f \o l \in Seq(Cells) /\ Len(f \o l) = Len(f) + k
      /\ \A p \in 1..(Len(f) + k) : (f \o l)[p] = IF p <= Len(f) THEN f[p] ELSE l[p - Len(f)]
  BY <1>2, ConcatProperties
<1>7. /\ f \o c \in Seq(Cells) /\ Len(f \o c) = Len(f) + Len(c)
      /\ \A p \in 1..(Len(f) + Len(c)) :
            (f \o c)[p] = IF p <= Len(f) THEN f[p] ELSE c[p - Len(f)]
  BY ConcatProperties
<1>8. ASSUME NEW p \in 1..(Len(f) + k) PROVE (f \o l)[p] = (f \o c)[p]
  <2>1. p \in 1..(Len(f) + Len(c))
    BY <1>1
  <2>2. p > Len(f) => p - Len(f) \in 1..k
    BY <1>1
  <2>3. QED BY <1>2, <1>6, <1>7, <2>1, <2>2
<1>9. QED BY <1>3, <1>4, <1>5, <1>6, <1>8 DEF l, r

\* The same of the file and of the buffer, when c is written up to k.
LEMMA PartWritten ==
    ASSUME file \in Seq(Cells), NEW c \in Seq(Cells), NEW k \in 0..Len(c),
           file' = file \o SubSeq(c, 1, k), buffered' = SubSeq(c, k + 1, Len(c))
    PROVE  /\ file' \in Seq(Cells) /\ buffered' \in Seq(Cells)
           /\ file' \o buffered' = file \o c /\ Len(file') = Len(file) + k
<1> DEFINE f == file
<1>1. f \in Seq(Cells)
  OBVIOUS
<1> HIDE DEF f
<1>2. /\ f \o SubSeq(c, 1, k) \in Seq(Cells) /\ SubSeq(c, k + 1, Len(c)) \in Seq(Cells)
      /\ (f \o SubSeq(c, 1, k)) \o SubSeq(c, k + 1, Len(c)) = f \o c
      /\ Len(f \o SubSeq(c, 1, k)) = Len(f) + k
  BY ONLY <1>1, c \in Seq(Cells), k \in 0..Len(c), Parts
<1>3. f = file /\ file' = f \o SubSeq(c, 1, k) /\ buffered' = SubSeq(c, k + 1, Len(c))
  BY DEF f
<1>4. QED BY ONLY Zenon, <1>2, <1>3

LEMMA TypedInit ==
    ASSUME Init
    PROVE  Typed
<1>1. <<>> \in Seq(Cells) /\ <<>> \in Seq(Alerts) /\ Len(<<>>) = 0 /\ 0 <= MaxBatch
  BY QueueAssumption
<1>2. 0 \in Nat /\ {} \subseteq Alerts
  OBVIOUS
<1>3. QED BY <1>1, <1>2 DEF Init, Typed, TypeOK, CursorsLie, Up

LEMMA TypedStep ==
    ASSUME Typed, [Next]_vars
    PROVE  Typed'
<1> USE DEF Typed, TypeOK, CursorsLie, Up
<1>0. /\ Len(file) \in Nat
      /\ <<>> \in Seq(Cells) /\ <<>> \in Seq(Alerts) /\ Len(<<>>) = 0 /\ 0 <= MaxBatch
  BY QueueAssumption
<1>1. CASE UNCHANGED vars
  BY <1>1 DEF vars, queue, disk, memory, history
<1>2. ASSUME UNCHANGED environment, Open
      PROVE  Typed'
  <2>1. StartCursor \in Nat /\ StartCursor <= Len(file)
    BY <1>0 DEF StartCursor
  <2>2. QED BY <1>2, <2>1 DEF Open, disk
<1>3. ASSUME UNCHANGED environment, Crash
      PROVE  Typed'
  BY <1>0, <1>3 DEF Crash, Gone, disk
<1>4. ASSUME UNCHANGED environment, Stop
      PROVE  Typed'
  BY <1>0, <1>4 DEF Stop, Gone
<1>5. ASSUME UNCHANGED environment, NEW a \in Alerts, AppendLine(a)
      PROVE  Typed'
  <2>1. Line(a) \in Seq(Cells)
    BY LineFacts
  <2>2. /\ file \o buffered \o Line(a) \in Seq(Cells)
        /\ Len(file) <= Len(file \o buffered \o Line(a))
        /\ Len(file \o buffered \o Line(a)) \in Nat
    BY <2>1
  <2>3. logged' \in Seq(Alerts) /\ offered' \subseteq Alerts
    BY <1>5 DEF AppendLine, Offer
  <2>4. QED BY <1>0, <1>5, <2>2, <2>3 DEF AppendLine, Offer, MutexFree
<1>6. ASSUME UNCHANGED environment, NEW a \in Alerts, AppendFails(a)
      PROVE  Typed'
  <2>1. Line(a) \in Seq(Cells) /\ buffered \o Line(a) \in Seq(Cells)
    BY LineFacts
  <2>2. PICK k \in 0..Len(buffered \o Line(a)) : WritePart(buffered \o Line(a), k)
    BY <1>6 DEF AppendFails
  <2>3. file' \in Seq(Cells) /\ buffered' \in Seq(Cells) /\ Len(file') = Len(file) + k
    BY <1>0, <2>1, <2>2, PartWritten DEF WritePart
  <2>4. Len(file) <= Len(file') /\ Len(file') \in Nat
    BY <1>0, <2>3
  <2>5. QED BY <1>0, <1>6, <2>3, <2>4 DEF AppendFails, Offer, MutexFree
<1>7. ASSUME UNCHANGED environment, NEW a \in Alerts, AppendTorn(a)
      PROVE  Typed'
  <2>1. Line(a) \in Seq(Cells) /\ buffered \o Line(a) \in Seq(Cells)
    BY LineFacts
  <2>2. PICK k \in 0..Len(buffered \o Line(a)) :
            /\ file' = file \o SubSeq(buffered \o Line(a), 1, k)
            /\ logged' \in {logged, Append(logged, a)}
    <3>1. PICK k \in (IF "tear" \in environment.faults
                       THEN 1..Len(buffered \o Line(a)) ELSE {Len(buffered \o Line(a))}) :
              /\ file' = file \o SubSeq(buffered \o Line(a), 1, k)
              /\ logged' = IF k = Len(buffered \o Line(a)) THEN Append(logged, a) ELSE logged
      BY <1>7 DEF AppendTorn
    <3>2. k \in 0..Len(buffered \o Line(a))
      BY <2>1, <3>1
    <3>3. QED BY <3>1, <3>2
  <2>3. file' \in Seq(Cells)
    BY <2>1, <2>2, Parts
  <2>4. logged' \in Seq(Alerts)
    <3>1. logged \in Seq(Alerts) /\ Append(logged, a) \in Seq(Alerts)
      OBVIOUS
    <3>2. QED BY ONLY <2>2, <3>1
  <2>5. QED BY <1>0, <1>7, <2>3, <2>4 DEF AppendTorn, Offer
<1>8. ASSUME UNCHANGED environment, Pending
      PROVE  Typed'
  <2>1. /\ file' \in Seq(Cells) /\ Len(file) <= Len(file') /\ Len(file') \in Nat
        /\ cursor <= Len(file')
    BY <1>0, <1>8 DEF Pending
  <2>2. /\ pendingEnd' \in {cursor} \cup Ends(file', cursor)
        /\ Cardinality(UpTo(Filled(file', cursor), pendingEnd')) <= MaxBatch
    BY <1>8, <2>1, ReadEndFacts DEF Pending
  <2>3. pendingEnd' \in Nat /\ cursor <= pendingEnd' /\ pendingEnd' <= Len(file')
    <3>1. \A i \in Ends(file', cursor) : i \in Nat /\ cursor < i /\ i <= Len(file')
      BY <2>1, EndsFacts
    <3>2. QED BY <2>1, <2>2, <3>1
  <2>4. /\ batch' \in Seq(Alerts)
        /\ Len(batch') <= Cardinality(UpTo(Filled(file', cursor), pendingEnd'))
    BY <1>8, <2>1, <2>3, BatchFacts DEF Pending
  <2>5. Len(batch') <= MaxBatch
    <3>1. Cardinality(UpTo(Filled(file', cursor), pendingEnd')) \in Nat
      BY <2>1, EndsFacts, UpTo(Filled(file', cursor), pendingEnd') \subseteq Ends(file', cursor)
         DEF UpTo, Filled
    <3>2. MaxBatch \in Nat /\ Len(batch') \in Nat
      BY <2>4, QueueAssumption
    <3>3. QED BY <2>2, <2>4, <3>1, <3>2
  <2>6. QED BY <1>8, <2>1, <2>3, <2>4, <2>5 DEF Pending, history
<1>9. ASSUME UNCHANGED environment, PendingFails
      PROVE  Typed'
  <2>1. PICK k \in 0..Len(buffered) : WritePart(buffered, k)
    BY <1>9 DEF PendingFails
  <2>2. file' \in Seq(Cells) /\ buffered' \in Seq(Cells) /\ Len(file') = Len(file) + k
    BY <2>1, Parts DEF WritePart
  <2>3. Len(file) <= Len(file') /\ Len(file') \in Nat
    BY <1>0, <2>2
  <2>4. QED BY <1>0, <1>9, <2>2, <2>3 DEF PendingFails, history
<1>10. ASSUME UNCHANGED environment, DropBatch \/ PublishAccepted \/ PublishRefused
       PROVE  Typed'
  <2>1. uploaded' \in Seq(Alerts) /\ batch' \in Seq(Alerts) /\ Len(batch') <= MaxBatch
    <3>1. uploaded \o batch \in Seq(Alerts)
      OBVIOUS
    <3>2. uploaded' \in {uploaded, uploaded \o batch} /\ batch' \in {batch, <<>>}
      BY <1>10 DEF DropBatch, PublishAccepted, PublishRefused, history
    <3>3. QED BY <1>0, <3>1, <3>2
  <2>2. QED
    BY <1>10, <2>1 DEF DropBatch, PublishAccepted, PublishRefused, history, disk
<1>11. ASSUME UNCHANGED environment, MarkAdvance \/ MarkSave
       PROVE  Typed'
  BY <1>11 DEF MarkAdvance, MarkSave, SaveCursor, history, disk
<1>12. ASSUME UNCHANGED environment, Compact \/ KeepFile \/ CompactSave
       PROVE  Typed'
  <2>1. CASE Compact
    BY <1>0, <1>12, <2>1 DEF Compact, history
  <2>2. CASE KeepFile
    BY <1>12, <2>2 DEF KeepFile, history, disk
  <2>3. CASE CompactSave
    <3>1. Len(file) = 0
      BY <1>0, <2>3 DEF CompactSave
    <3>2. QED BY <1>12, <2>3, <3>1 DEF CompactSave, SaveCursor, history
  <2>4. QED BY <1>12, <2>1, <2>2, <2>3
<1>13. QED
  BY ONLY [Next]_vars, <1>1, <1>2, <1>3, <1>4, <1>5, <1>6, <1>7, <1>8, <1>9, <1>10,
          <1>11, <1>12 DEF Next, Uploader

\* Besides the types: whatever cursor a crash has left on the disk, a running uploader
\* never reads from beyond the end of alerts.jsonl (open() of alert_queue.cpp), and
\* the end of a batch lies between its cursor and the end of the file.
THEOREM ReadsInFile == Spec => []CursorInFile
<1>1. Spec => []Typed
  BY TypedInit, TypedStep, PTL DEF Spec
<1>2. Typed => CursorInFile
  BY DEF Typed, CursorsLie, CursorInFile
<1>3. QED BY <1>1, <1>2, PTL

-----------------------------------------------------------------------------
\* One process publishes an alert at most once.

\* The cells of s are those of t from d on.
Within(s, t, d) == \A p \in DOMAIN s : p + d \in DOMAIN t /\ s[p] = t[p + d]

LEMMA PartHeldOnce ==
    ASSUME NEW s \in Seq(Cells), NEW t \in Seq(Cells), NEW d \in Nat, Within(s, t, d),
           NEW names, IsInjective(t), NamesIn(t, names)
    PROVE  IsInjective(s) /\ NamesIn(s, names)
<1>1. ASSUME NEW p \in DOMAIN s, NEW q \in DOMAIN s, s[p] = s[q] PROVE p = q
  <2>1. t[p + d] = t[q + d] /\ p + d \in DOMAIN t /\ q + d \in DOMAIN t
    BY <1>1 DEF Within
  <2>2. p + d = q + d
    BY <2>1 DEF IsInjective
  <2>3. p \in Nat /\ q \in Nat
    OBVIOUS
  <2>4. QED BY <2>2, <2>3
<1>2. QED BY <1>1 DEF Within, IsInjective, NamesIn

\* A line that was not offered before is new.
LEMMA LineHeldOnce ==
    ASSUME NEW t \in Seq(Cells), NEW names, NEW a \in Alerts, a \notin names,
           IsInjective(t), NamesIn(t, names)
    PROVE  /\ t \o Line(a) \in Seq(Cells) /\ Len(t \o Line(a)) = Len(t) + Size[a]
           /\ IsInjective(t \o Line(a))
           /\ NamesIn(t \o Line(a), names \cup {a})
           /\ \A p \in 1..Len(t) : (t \o Line(a))[p] = t[p]
           /\ \A j \in 1..Size[a] : (t \o Line(a))[Len(t) + j] = <<a, j>>
<1> DEFINE u == t \o Line(a)
<1>1. /\ Size[a] \in Nat /\ Line(a) \in Seq(Cells) /\ Len(Line(a)) = Size[a]
      /\ \A j \in 1..Size[a] : Line(a)[j] = <<a, j>>
  BY LineFacts
<1>2. /\ u \in Seq(Cells) /\ Len(u) = Len(t) + Size[a] /\ Len(t) \in Nat
      /\ \A p \in 1..(Len(t) + Size[a]) : u[p] = IF p <= Len(t) THEN t[p] ELSE Line(a)[p - Len(t)]
  BY <1>1, ConcatProperties
<1>3. DOMAIN u = 1..(Len(t) + Size[a]) /\ DOMAIN t = 1..Len(t)
  BY <1>2
<1> HIDE DEF u
<1>4. \A p \in 1..Len(t) : u[p] = t[p]
  BY <1>1, <1>2
<1>5. ASSUME NEW j \in 1..Size[a] PROVE u[Len(t) + j] = <<a, j>>
  <2>1. Len(t) + j \in 1..(Len(t) + Size[a]) /\ ~(Len(t) + j <= Len(t)) /\ Len(t) + j - Len(t) = j
    BY <1>1, <1>2
  <2>2. u[Len(t) + j] = Line(a)[j]
    BY <1>2, <2>1
  <2>3. QED BY <1>1, <2>2
<1>6. ASSUME NEW p \in DOMAIN u, p \notin 1..Len(t)
      PROVE  p - Len(t) \in 1..Size[a] /\ u[p] = <<a, p - Len(t)>>
  <2>1. p - Len(t) \in 1..Size[a] /\ Len(t) + (p - Len(t)) = p
    BY <1>1, <1>2, <1>3, <1>6
  <2>2. QED BY <1>5, <2>1
<1>7. NamesIn(u, names \cup {a})
  BY <1>3, <1>4, <1>6 DEF NamesIn
<1>8. ASSUME NEW p \in DOMAIN u, NEW q \in DOMAIN u, u[p] = u[q] PROVE p = q
  <2>1. CASE p \in 1..Len(t) /\ q \in 1..Len(t)
    BY <1>3, <1>4, <1>8, <2>1 DEF IsInjective
  <2>2. CASE p \notin 1..Len(t) /\ q \notin 1..Len(t)
    <3>1. p - Len(t) = q - Len(t)
      BY <1>6, <1>8, <2>2
    <3>2. p \in Nat /\ q \in Nat
      BY <1>3
    <3>3. QED BY <1>2, <3>1, <3>2
  <2>3. CASE p \in 1..Len(t) /\ q \notin 1..Len(t)
    BY <1>3, <1>4, <1>6, <1>8, <2>3 DEF NamesIn
  <2>4. CASE p \notin 1..Len(t) /\ q \in 1..Len(t)
    BY <1>3, <1>4, <1>6, <1>8, <2>4 DEF NamesIn
  <2>5. QED BY <2>1, <2>2, <2>3, <2>4
<1>9. IsInjective(u)
  BY <1>8 DEF IsInjective
<1>10. QED BY <1>2, <1>4, <1>5, <1>7, <1>9 DEF u

LEMMA TimesType ==
    ASSUME Typed, NEW a \in Alerts
    PROVE  Times(a, uploaded) \in Nat
<1>1. uploaded \in Seq(Alerts)
  BY DEF Typed, TypeOK
<1>2. {i \in DOMAIN uploaded : uploaded[i] = a} \subseteq 1..Len(uploaded) /\ Len(uploaded) \in Nat
  BY <1>1
<1>3. QED BY <1>2, NumbersFinite DEF Times

\* Different alerts are published once more each, the others not.
LEMMA TimesJoined ==
    ASSUME NEW s \in Seq(Alerts), NEW t \in Seq(Alerts), IsInjective(t), NEW a \in Alerts
    PROVE  /\ Times(a, s) \in Nat /\ Times(a, s \o t) \in Nat
           /\ Times(a, s \o t) <= Times(a, s) + 1
           /\ a \notin {t[n] : n \in DOMAIN t} => Times(a, s \o t) = Times(a, s)
<1> DEFINE A == {i \in DOMAIN s : s[i] = a}
           B == {i \in DOMAIN (s \o t) : (s \o t)[i] = a}
<1>1. /\ Len(s) \in Nat /\ Len(t) \in Nat /\ DOMAIN s = 1..Len(s) /\ DOMAIN t = 1..Len(t)
      /\ DOMAIN (s \o t) = 1..(Len(s) + Len(t))
      /\ \A i \in 1..(Len(s) + Len(t)) :
            (s \o t)[i] = IF i <= Len(s) THEN s[i] ELSE t[i - Len(s)]
  <2>1. s \o t \in Seq(Alerts) /\ Len(s \o t) = Len(s) + Len(t)
    BY ConcatProperties
  <2>2. QED BY <2>1, ConcatProperties
<1>2. A \subseteq 1..Len(s) /\ B \subseteq 1..(Len(s) + Len(t)) /\ Len(s) + Len(t) \in Nat
  BY <1>1
<1>3. /\ IsFiniteSet(A) /\ Cardinality(A) \in Nat
      /\ IsFiniteSet(B) /\ Cardinality(B) \in Nat
  <2> HIDE DEF A, B
  <2>1. QED BY <1>1, <1>2, NumbersFinite
<1>4. ASSUME NEW i \in B, i \notin A
      PROVE  i - Len(s) \in DOMAIN t /\ t[i - Len(s)] = a /\ i \in Nat
  BY <1>1, <1>4
<1>5. A \subseteq B
  BY <1>1
<1>0. Times(a, s) = Cardinality(A) /\ Times(a, s \o t) = Cardinality(B)
  BY DEF Times
<1>6. CASE B = A
  <2> HIDE DEF A, B
  <2>1. QED BY <1>0, <1>3, <1>6
<1>7. CASE B # A
  <2>1. PICK i \in B : i \notin A
    BY <1>5, <1>7
  <2>2. B = A \cup {i}
    <3>1. ASSUME NEW k \in B, k \notin A PROVE k = i
      <4>1. /\ i - Len(s) \in DOMAIN t /\ t[i - Len(s)] = a /\ i \in Nat
            /\ k - Len(s) \in DOMAIN t /\ t[k - Len(s)] = a /\ k \in Nat
        BY <1>4, <2>1, <3>1
      <4>2. i - Len(s) = k - Len(s)
        BY <4>1 DEF IsInjective
      <4>3. QED BY <1>1, <4>1, <4>2
    <3>2. QED BY <1>5, <2>1, <3>1
  <2>3. Cardinality(B) = Cardinality(A) + 1
    BY <1>3, <2>1, <2>2, FS_AddElement
  <2>4. a \in {t[n] : n \in DOMAIN t}
    BY <1>4, <2>1
  <2> HIDE DEF A, B
  <2>5. QED BY <1>0, <1>3, <2>3, <2>4
<1>8. QED BY <1>6, <1>7

LEMMA Shifted ==
    ASSUME NEW r \in Nat, NEW q \in Nat, NEW d \in Nat, NEW p \in Nat, r <= q + d, q < p
    PROVE  r < p + d
OBVIOUS

\* What is held now is a part of what was held: nothing is ahead that was not.
LEMMA HeldPart ==
    ASSUME Typed, Once, Typed',
           NEW d \in Nat, Within(held', held, d), UNCHANGED <<uploaded, lives>>,
           offered \subseteq offered',
           Up' => Up /\ Reached <= Reached' + d
    PROVE  HeldOnce' /\ Published'
<1>1. held \in Seq(Cells) /\ held' \in Seq(Cells)
  <2>1. file \in Seq(Cells) /\ buffered \in Seq(Cells)
    BY DEF Typed, TypeOK
  <2>2. file' \in Seq(Cells) /\ buffered' \in Seq(Cells)
    BY DEF Typed, TypeOK
  <2>3. QED BY <2>1, <2>2, ConcatProperties DEF held
<1>2. IsInjective(held) /\ NamesIn(held, offered)
  BY DEF Once, HeldOnce
<1>3. IsInjective(held') /\ NamesIn(held', offered)
  <2> HIDE DEF held
  <2>1. QED BY <1>1, <1>2, PartHeldOnce
<1>4. HeldOnce'
  BY <1>3 DEF HeldOnce, NamesIn
<1>5. ASSUME Up', NEW a \in Alerts, Ahead(a)' PROVE Ahead(a)
  <2>1. CASE a \notin offered'
    BY <2>1 DEF Ahead
  <2>2. CASE \E p \in DOMAIN held' : Reached' < p /\ held'[p] = <<a, 1>>
    <3>1. PICK p \in DOMAIN held' : Reached' < p /\ held'[p] = <<a, 1>>
      BY <2>2
    <3>2. p + d \in DOMAIN held /\ held[p + d] = <<a, 1>>
      BY <3>1 DEF Within
    <3>3. Reached < p + d
      <4>1. Reached \in Nat /\ Reached' \in Nat
        BY DEF Typed, TypeOK, Reached
      <4>2. p \in Nat
        <5>1. DOMAIN held' = 1..Len(held') /\ Len(held') \in Nat
          BY <1>1, LenProperties
        <5>2. QED BY <3>1, <5>1
      <4>3. Reached <= Reached' + d /\ Reached' < p /\ d \in Nat
        BY <1>5, <3>1
      <4>4. QED BY <4>1, <4>2, <4>3, Shifted
    <3>4. QED BY <3>2, <3>3 DEF Ahead
  <2>3. QED BY <1>5, <2>1, <2>2 DEF Ahead
<1>6. Published'
  <2>1. \A a \in Alerts : Times(a, uploaded') = Times(a, uploaded)
    OBVIOUS
  <2>2. Published
    BY DEF Once
  <2>3. QED BY <1>5, <2>1, <2>2 DEF Published
<1>7. QED BY <1>4, <1>6

\* A line that is new is held beside what was held, as far as it is written.
LEMMA HeldMore ==
    ASSUME Typed, Once, Typed', NEW a \in Alerts, a \notin offered,
           offered' = offered \cup {a},
           Within(held', held \o Line(a), 0), UNCHANGED <<uploaded, lives>>,
           Up' => Up /\ Reached <= Reached'
    PROVE  HeldOnce' /\ Published'
<1>1. held \in Seq(Cells) /\ held' \in Seq(Cells)
  <2>1. file \in Seq(Cells) /\ buffered \in Seq(Cells)
    BY DEF Typed, TypeOK
  <2>2. file' \in Seq(Cells) /\ buffered' \in Seq(Cells)
    BY DEF Typed, TypeOK
  <2>3. QED BY <2>1, <2>2, ConcatProperties DEF held
<1>2. IsInjective(held) /\ NamesIn(held, offered)
  BY DEF Once, HeldOnce
<1> DEFINE more == held \o Line(a)
<1>3. /\ more \in Seq(Cells) /\ Len(more) = Len(held) + Size[a]
      /\ IsInjective(more)
      /\ NamesIn(more, offered')
      /\ \A p \in 1..Len(held) : more[p] = held[p]
      /\ \A j \in 1..Size[a] : more[Len(held) + j] = <<a, j>>
  <2> HIDE DEF held
  <2>1. /\ more \in Seq(Cells) /\ Len(more) = Len(held) + Size[a]
        /\ IsInjective(more)
        /\ NamesIn(more, offered \cup {a})
        /\ \A p \in 1..Len(held) : more[p] = held[p]
        /\ \A j \in 1..Size[a] : more[Len(held) + j] = <<a, j>>
    BY <1>1, <1>2, LineHeldOnce
  <2>2. QED BY <2>1
<1>4. Within(held', more, 0)
  OBVIOUS
<1>5. IsInjective(held') /\ NamesIn(held', offered')
  <2> HIDE DEF held, more
  <2>1. QED BY <1>1, <1>3, <1>4, PartHeldOnce, 0 \in Nat
<1>6. HeldOnce'
  BY <1>5 DEF HeldOnce
<1>7. ASSUME Up', NEW b \in Alerts, Ahead(b)' PROVE Ahead(b)
  <2>1. CASE b \notin offered'
    BY <2>1 DEF Ahead
  <2>2. CASE \E p \in DOMAIN held' : Reached' < p /\ held'[p] = <<b, 1>>
    <3>1. PICK p \in DOMAIN held' : Reached' < p /\ held'[p] = <<b, 1>>
      BY <2>2
    <3>2. /\ DOMAIN held' = 1..Len(held') /\ DOMAIN held = 1..Len(held)
          /\ DOMAIN more = 1..(Len(held) + Size[a])
          /\ Len(held) \in Nat /\ Size[a] \in Nat
      <4> HIDE DEF held, more
      <4>1. QED BY <1>1, <1>3, LenProperties, LineFacts
    <3>3. p + 0 = p /\ p \in Nat
      BY <3>1, <3>2
    <3>4. p \in DOMAIN more /\ more[p] = <<b, 1>>
      <4> HIDE DEF held, more
      <4>1. QED BY <1>4, <3>1, <3>3 DEF Within
    <3>5. CASE p \in 1..Len(held)
      <4>1. held[p] = <<b, 1>>
        BY <1>3, <3>4, <3>5
      <4>2. Reached < p
        <5>1. Reached \in Nat /\ Reached' \in Nat
          BY DEF Typed, TypeOK, Reached
        <5>2. QED BY <1>7, <3>1, <3>3, <5>1
      <4>3. QED BY <3>2, <3>5, <4>1, <4>2 DEF Ahead
    <3>6. CASE p \notin 1..Len(held)
      <4>1. p - Len(held) \in 1..Size[a] /\ Len(held) + (p - Len(held)) = p
        BY <3>2, <3>4, <3>6
      <4>2. more[p] = <<a, p - Len(held)>>
        <5> HIDE DEF held, more
        <5>1. QED BY <1>3, <4>1
      <4>3. a = b
        BY <3>4, <4>2
      <4>4. QED BY <4>3 DEF Ahead
    <3>7. QED BY <3>5, <3>6
  <2>3. QED BY <1>7, <2>1, <2>2 DEF Ahead
<1>8. Published'
  <2>1. \A b \in Alerts : Times(b, uploaded') = Times(b, uploaded)
    OBVIOUS
  <2>2. Published
    BY DEF Once
  <2>3. QED BY <1>7, <2>1, <2>2 DEF Published
<1>9. QED BY <1>6, <1>8

\* A batch that lies where it did is the same in a file that is longer.
LEMMA BatchStays ==
    ASSUME Typed, BatchLies, UNCHANGED <<batch, cursor, pendingEnd, upc>>,
           NEW more \in Seq(Cells), file' = file \o more
    PROVE  BatchLies'
<1>1. CASE upc # "batch"
  BY <1>1 DEF BatchLies
<1>2. CASE upc = "batch"
  <2>1. /\ file \in Seq(Cells) /\ pendingEnd <= Len(file) /\ cursor \in Nat /\ pendingEnd \in Nat
        /\ IsInjective(batch)
    BY <1>2 DEF Typed, TypeOK, CursorsLie, BatchLies
  <2>2. ASSUME NEW n \in DOMAIN batch
        PROVE  \E p \in (cursor + 1)..pendingEnd : file'[p] = <<batch[n], 1>>
    <3>1. PICK p \in (cursor + 1)..pendingEnd : file[p] = <<batch[n], 1>>
      BY <1>2 DEF BatchLies
    <3>2. p \in 1..Len(file)
      BY <2>1
    <3>3. file'[p] = file[p]
      BY <2>1, <3>2
    <3>4. QED BY <3>1, <3>3
  <2>3. QED BY <2>1, <2>2 DEF BatchLies
<1>3. QED BY <1>1, <1>2

\* The part of a line that is written lies behind what was held.
LEMMA WrittenPart ==
    ASSUME Typed, NEW c \in Seq(Cells), NEW k \in 0..Len(c)
    PROVE  Within(file \o SubSeq(c, 1, k), file \o c, 0)
<1>1. file \in Seq(Cells)
  BY DEF Typed, TypeOK
<1>2. /\ file \o SubSeq(c, 1, k) \in Seq(Cells)
      /\ Len(file \o SubSeq(c, 1, k)) = Len(file) + k
      /\ \A p \in 1..(Len(file) + k) : (file \o SubSeq(c, 1, k))[p] = (file \o c)[p]
  BY <1>1, Parts
<1>3. DOMAIN (file \o SubSeq(c, 1, k)) = 1..(Len(file) + k)
  BY <1>2
<1>4. DOMAIN (file \o c) = 1..(Len(file) + Len(c)) /\ Len(file) \in Nat /\ Len(c) \in Nat
  BY <1>1, ConcatProperties, LenProperties
<1>5. ASSUME NEW p \in 1..(Len(file) + k)
      PROVE  p + 0 = p /\ p \in 1..(Len(file) + Len(c))
  BY <1>4
<1>6. QED BY <1>2, <1>3, <1>4, <1>5 DEF Within

LEMMA WithinItself ==
    ASSUME NEW t \in Seq(Cells)
    PROVE  Within(t, t, 0)
<1>1. \A p \in DOMAIN t : p + 0 = p
  OBVIOUS
<1>2. QED BY <1>1 DEF Within

LEMMA OnceInit ==
    ASSUME Init
    PROVE  Once
<1>1. held = <<>>
  BY DEF Init, held
<1>2. DOMAIN held = {}
  BY <1>1
<1>3. HeldOnce
  BY <1>2 DEF HeldOnce, IsInjective, NamesIn
<1>4. BatchLies
  BY DEF Init, BatchLies
<1>5. ASSUME NEW a \in Alerts PROVE Times(a, uploaded) = 0
  <2>1. {i \in DOMAIN uploaded : uploaded[i] = a} = {}
    BY DEF Init
  <2>2. QED BY <2>1, FS_EmptySet DEF Times
<1>6. Published
  BY <1>5 DEF Init, Published, Up
<1>7. QED BY <1>3, <1>4, <1>6 DEF Once

LEMMA OpenOnce ==
    ASSUME Typed, Once, Typed', Open
    PROVE  Once'
<1>1. held' = held /\ offered' = offered
  BY DEF Open, held, disk
<1>2. HeldOnce'
  BY <1>1 DEF Once, HeldOnce
<1>3. BatchLies'
  BY DEF Open, BatchLies
<1>4. ASSUME NEW a \in Alerts PROVE Times(a, uploaded') <= lives /\ Times(a, uploaded') \in Nat
  <2>1. uploaded' = uploaded
    BY DEF Open
  <2>2. Times(a, uploaded) <= lives
    BY DEF Once, Published
  <2>3. Times(a, uploaded) \in Nat
    BY TimesType
  <2>4. QED BY <2>1, <2>2, <2>3
<1>5. lives' = lives + 1 /\ lives \in Nat
  BY DEF Open, Typed, TypeOK
<1>6. ASSUME NEW a \in Alerts PROVE Times(a, uploaded') <= lives' /\ Times(a, uploaded') < lives'
  BY <1>4, <1>5
<1>7. Published'
  BY <1>6 DEF Published
<1>8. QED BY <1>2, <1>3, <1>7 DEF Once

\* The end of a process: what is left of held is a part of it.
LEMMA DownOnce ==
    ASSUME Typed, Once, Typed', Crash \/ Stop
    PROVE  Once'
<1>1. file \in Seq(Cells) /\ buffered \in Seq(Cells)
  BY DEF Typed, TypeOK
<1>2. file \o buffered \in Seq(Cells)
  BY <1>1, ConcatProperties
<1>3. Within(held', held, 0)
  <2>1. CASE Crash
    <3>1. held' = file
      BY <1>1, <2>1 DEF Crash, Gone, disk, held
    <3>2. SubSeq(buffered, 1, 0) = <<>> /\ file \o SubSeq(buffered, 1, 0) = file
      BY <1>1
    <3>3. 0 \in 0..Len(buffered)
      BY <1>1
    <3>4. Within(file \o SubSeq(buffered, 1, 0), file \o buffered, 0)
      BY <1>1, <3>3, WrittenPart
    <3>5. QED BY <3>1, <3>2, <3>4 DEF held
  <2>2. CASE Stop
    <3>1. held' = file \o buffered
      BY <1>2, <2>2 DEF Stop, Gone, held
    <3>2. QED BY <1>2, <3>1, WithinItself DEF held
  <2>3. QED BY <2>1, <2>2
<1>4. UNCHANGED <<uploaded, lives>> /\ offered \subseteq offered' /\ ~Up'
  BY DEF Crash, Stop, Gone, Up
<1>5. HeldOnce' /\ Published'
  BY <1>3, <1>4, HeldPart, 0 \in Nat
<1>6. BatchLies'
  BY DEF Crash, Stop, Gone, BatchLies
<1>7. QED BY <1>5, <1>6 DEF Once

LEMMA AppendOnce ==
    ASSUME Typed, Once, Typed', NEW a \in Alerts,
           AppendLine(a) \/ AppendFails(a) \/ AppendTorn(a)
    PROVE  Once'
<1> DEFINE cells == buffered \o Line(a)
<1>1. /\ file \in Seq(Cells) /\ buffered \in Seq(Cells) /\ Line(a) \in Seq(Cells)
      /\ cells \in Seq(Cells) /\ file \o buffered \in Seq(Cells)
      /\ (file \o buffered) \o Line(a) = file \o cells
  <2>1. file \in Seq(Cells) /\ buffered \in Seq(Cells) /\ Line(a) \in Seq(Cells)
    BY LineFacts DEF Typed, TypeOK
  <2>2. QED BY <2>1, ConcatProperties, ConcatAssociative
<1>2. /\ a \notin offered /\ offered' = offered \cup {a} /\ Up /\ upc # "truncated"
      /\ UNCHANGED <<uploaded, lives>>
  BY DEF AppendLine, AppendFails, AppendTorn, Offer, MutexFree
<1>3. held \o Line(a) = file \o cells /\ file \o cells \in Seq(Cells)
  BY <1>1, ConcatProperties DEF held
<1> HIDE DEF cells
<1>4. CASE AppendLine(a)
  <2>1. file' = file \o cells /\ buffered' = <<>>
    BY <1>1, <1>4 DEF AppendLine
  <2>2. held' = file \o cells
    BY <1>3, <2>1, ConcatEmptySeq DEF held
  <2>3. Within(held', held \o Line(a), 0)
    BY <1>3, <2>2, WithinItself
  <2>4. UNCHANGED <<batch, cursor, pendingEnd, upc>>
    BY <1>4 DEF AppendLine
  <2>5. Up' => Up /\ Reached <= Reached'
    <3>1. Reached' = Reached /\ Reached \in Nat
      BY <2>4 DEF Reached, Typed, TypeOK
    <3>2. QED BY <1>2, <3>1
  <2>6. HeldOnce' /\ Published'
    BY <1>2, <2>3, <2>5, HeldMore
  <2>7. BatchLies'
    BY <1>1, <2>1, <2>4, BatchStays DEF Once
  <2>8. QED BY <2>6, <2>7 DEF Once
<1>5. CASE AppendFails(a)
  <2>1. PICK k \in 0..Len(cells) :
            file' = file \o SubSeq(cells, 1, k) /\ buffered' = SubSeq(cells, k + 1, Len(cells))
    BY <1>5 DEF AppendFails, WritePart, cells
  <2>2. held' = file \o cells /\ SubSeq(cells, 1, k) \in Seq(Cells)
    <3>1. held' = file \o cells
      BY <1>1, <2>1, PartWritten DEF held
    <3>2. k \in Nat /\ k <= Len(cells) /\ Len(cells) \in Nat
      BY <1>1
    <3>3. SubSeq(cells, 1, k) \in Seq(Cells)
      BY <1>1, <3>2
    <3>4. QED BY <3>1, <3>3
  <2>3. Within(held', held \o Line(a), 0)
    BY <1>3, <2>2, WithinItself
  <2>4. UNCHANGED <<batch, cursor, pendingEnd, upc>>
    BY <1>5 DEF AppendFails
  <2>5. Up' => Up /\ Reached <= Reached'
    <3>1. Reached' = Reached /\ Reached \in Nat
      BY <2>4 DEF Reached, Typed, TypeOK
    <3>2. QED BY <1>2, <3>1
  <2>6. HeldOnce' /\ Published'
    BY <1>2, <2>3, <2>5, HeldMore
  <2>7. BatchLies'
    BY <2>1, <2>2, <2>4, BatchStays DEF Once
  <2>8. QED BY <2>6, <2>7 DEF Once
<1>6. CASE AppendTorn(a)
  <2>1. PICK k \in 0..Len(cells) :
            file' = file \o SubSeq(cells, 1, k) /\ buffered' = <<>> /\ upc' = "down"
    <3>1. PICK k \in (IF "tear" \in environment.faults THEN 1..Len(cells) ELSE {Len(cells)}) :
              file' = file \o SubSeq(cells, 1, k)
      BY <1>6 DEF AppendTorn, cells
    <3>2. k \in 0..Len(cells)
      BY <1>1, <3>1
    <3>3. QED BY <1>6, <3>1, <3>2 DEF AppendTorn
  <2>2. held' = file \o SubSeq(cells, 1, k)
    BY <1>1, <2>1, Parts, ConcatEmptySeq DEF held
  <2>3. Within(held', held \o Line(a), 0)
    BY <1>1, <1>3, <2>2, WrittenPart
  <2>4. ~Up'
    BY <2>1 DEF Up
  <2>5. HeldOnce' /\ Published'
    BY <1>2, <2>3, <2>4, HeldMore
  <2>6. BatchLies'
    BY <2>1 DEF BatchLies
  <2>7. QED BY <2>5, <2>6 DEF Once
<1>7. QED BY <1>4, <1>5, <1>6

LEMMA PendingOnce ==
    ASSUME Typed, Once, Typed', Pending \/ PendingFails
    PROVE  Once'
<1>1. file \in Seq(Cells) /\ buffered \in Seq(Cells) /\ held \in Seq(Cells)
  BY ConcatProperties DEF Typed, TypeOK, held
<1>2. held' = held
  <2>1. CASE Pending
    <3>1. file' = held /\ buffered' = <<>>
      BY <2>1 DEF Pending, held
    <3>2. QED BY <1>1, <3>1, ConcatEmptySeq DEF held
  <2>2. CASE PendingFails
    <3>1. PICK k \in 0..Len(buffered) :
              /\ file' = file \o SubSeq(buffered, 1, k)
              /\ buffered' = SubSeq(buffered, k + 1, Len(buffered))
      BY <2>2 DEF PendingFails, WritePart
    <3>2. QED BY <1>1, <3>1, PartWritten DEF held
  <2>3. QED BY <2>1, <2>2
<1>3. Within(held', held, 0)
  BY <1>1, <1>2, WithinItself
<1>4. /\ UNCHANGED <<uploaded, lives, offered, cursor>>
      /\ upc = "idle" /\ upc' \in {"idle", "batch"}
  BY DEF Pending, PendingFails, history
<1>5. Up' => Up /\ Reached <= Reached' + 0
  <2>1. Up /\ Reached = cursor /\ Reached' = cursor /\ cursor \in Nat
    BY <1>4 DEF Up, Reached, Typed, TypeOK
  <2>2. QED BY <2>1
<1>6. HeldOnce' /\ Published'
  BY <1>3, <1>4, <1>5, HeldPart, 0 \in Nat
<1>7. BatchLies'
  <2>1. CASE upc' # "batch"
    BY <2>1 DEF BatchLies
  <2>2. CASE upc' = "batch"
    <3>1. Pending
      BY <1>4, <2>2 DEF PendingFails
    <3>2. /\ file' = held /\ batch' = AlertsBetween(file', cursor, pendingEnd')
          /\ cursor \in Nat /\ pendingEnd' \in Nat
      BY <3>1 DEF Pending, held, Typed, TypeOK
    <3>3. IsInjective(file')
      BY <3>2 DEF Once, HeldOnce
    <3>4. /\ IsInjective(batch')
          /\ \A n \in DOMAIN batch' :
                \E p \in (cursor + 1)..pendingEnd' : file'[p] = <<batch'[n], 1>>
      BY <1>1, <3>2, <3>3, BatchFacts
    <3>5. QED BY <1>4, <3>4 DEF BatchLies
  <2>3. QED BY <2>1, <2>2
<1>8. QED BY <1>6, <1>7 DEF Once

\* What is published was ahead, and is behind afterwards.
LEMMA PublishOnce ==
    ASSUME Typed, Once, Typed', PublishAccepted
    PROVE  Once'
<1>1. /\ upc = "batch" /\ upc' = "mark" /\ uploaded' = uploaded \o batch
      /\ UNCHANGED <<file, buffered, cursor, pendingEnd, offered, lives>>
  BY DEF PublishAccepted, disk
<1>2. /\ cursor \in Nat /\ pendingEnd \in Nat /\ cursor <= pendingEnd /\ pendingEnd <= Len(file)
      /\ file \in Seq(Cells) /\ buffered \in Seq(Cells)
      /\ batch \in Seq(Alerts) /\ uploaded \in Seq(Alerts) /\ lives \in Nat
  BY <1>1 DEF Typed, TypeOK, CursorsLie
<1>3. held' = held
  BY <1>1 DEF held
<1>4. HeldOnce'
  BY <1>1, <1>3 DEF Once, HeldOnce
<1>5. BatchLies'
  BY <1>1 DEF BatchLies
<1>6. /\ IsInjective(held) /\ NamesIn(held, offered)
      /\ IsInjective(batch)
      /\ \A n \in DOMAIN batch :
            \E p \in (cursor + 1)..pendingEnd : file[p] = <<batch[n], 1>>
  BY <1>1 DEF Once, HeldOnce, BatchLies
<1>7. Up /\ Reached = cursor /\ Reached' = pendingEnd
  BY <1>1 DEF Up, Reached
\* A line of the batch is held between the two cursors.
<1>8. ASSUME NEW n \in DOMAIN batch
      PROVE  \E p \in DOMAIN held : cursor < p /\ p <= pendingEnd /\ held[p] = <<batch[n], 1>>
  <2>1. PICK p \in (cursor + 1)..pendingEnd : file[p] = <<batch[n], 1>>
    BY <1>6
  <2>2. p \in 1..Len(file) /\ p \in Nat /\ cursor < p /\ p <= pendingEnd
    BY <1>2
  <2>3. held[p] = file[p] /\ p \in DOMAIN held
    BY <1>2, <2>2 DEF held
  <2>4. QED BY <2>1, <2>2, <2>3
<1>9. ASSUME NEW a \in Alerts
      PROVE  Times(a, uploaded') <= lives' /\ (Ahead(a)' => Times(a, uploaded') < lives')
  <2>1. /\ Times(a, uploaded) \in Nat /\ Times(a, uploaded') \in Nat
        /\ Times(a, uploaded') <= Times(a, uploaded) + 1
        /\ a \notin {batch[n] : n \in DOMAIN batch} => Times(a, uploaded') = Times(a, uploaded)
    BY <1>1, <1>2, <1>6, TimesJoined
  <2>2. Times(a, uploaded) <= lives /\ (Ahead(a) => Times(a, uploaded) < lives)
    BY <1>7 DEF Once, Published
  <2>3. CASE a \in {batch[n] : n \in DOMAIN batch}
    <3>1. PICK n \in DOMAIN batch : batch[n] = a
      BY <2>3
    <3>2. PICK p \in DOMAIN held : cursor < p /\ p <= pendingEnd /\ held[p] = <<a, 1>>
      BY <1>8, <3>1
    <3>3. Ahead(a)
      BY <1>7, <3>2 DEF Ahead
    <3>4. ~Ahead(a)'
      <4>1. a \in offered'
        BY <1>1, <1>6, <3>2 DEF NamesIn
      <4>2. ASSUME NEW q \in DOMAIN held, pendingEnd < q, held[q] = <<a, 1>> PROVE FALSE
        <5>1. p = q
          BY <1>6, <3>2, <4>2 DEF IsInjective
        <5>2. p \in Nat
          <6>1. held \in Seq(Cells)
            BY <1>2, ConcatProperties DEF held
          <6>2. DOMAIN held = 1..Len(held) /\ Len(held) \in Nat
            BY <6>1, LenProperties
          <6>3. QED BY <6>2
        <5>3. p <= pendingEnd /\ pendingEnd < p
          BY <3>2, <4>2, <5>1
        <5>4. QED BY <1>2, <5>2, <5>3
      <4>3. QED BY <1>3, <1>7, <4>1, <4>2 DEF Ahead
    <3>5. QED BY <1>1, <1>2, <2>1, <2>2, <3>3, <3>4
  <2>4. CASE a \notin {batch[n] : n \in DOMAIN batch}
    <3>1. Ahead(a)' => Ahead(a)
      <4>1. ASSUME NEW q \in DOMAIN held, pendingEnd < q PROVE cursor < q
        <5>1. held \in Seq(Cells)
          BY <1>2, ConcatProperties DEF held
        <5>2. DOMAIN held = 1..Len(held) /\ Len(held) \in Nat
          BY <5>1, LenProperties
        <5>3. q \in Nat
          BY <5>2
        <5>4. QED BY <1>2, <4>1, <5>3
      <4>2. QED BY <1>1, <1>3, <1>7, <4>1 DEF Ahead
    <3>2. QED BY <1>1, <2>1, <2>2, <2>4, <3>1
  <2>5. QED BY <2>3, <2>4
<1>10. Published'
  BY <1>9 DEF Published
<1>11. QED BY <1>4, <1>5, <1>10 DEF Once

\* The steps of the uploader that publish nothing.
LEMMA UploaderOnce ==
    ASSUME Typed, Once, Typed',
           \/ DropBatch \/ PublishRefused \/ MarkAdvance \/ MarkSave \/ KeepFile \/ CompactSave
    PROVE  Once'
<1>1. UNCHANGED <<file, buffered, offered, uploaded, lives>> /\ upc' # "batch" /\ Up
  BY DEF DropBatch, PublishRefused, MarkAdvance, MarkSave, KeepFile, CompactSave, disk, history, Up
<1>2. held' = held /\ held \in Seq(Cells)
  BY <1>1, ConcatProperties DEF held, Typed, TypeOK
<1>3. Within(held', held, 0)
  BY <1>2, WithinItself
<1>4. Reached <= Reached' + 0
  <2>1. cursor \in Nat /\ pendingEnd \in Nat /\ cursor' \in Nat /\ pendingEnd' \in Nat
    BY DEF Typed, TypeOK
  <2>2. CASE DropBatch
    <3>1. Reached = cursor /\ Reached' = pendingEnd /\ cursor <= pendingEnd
      BY <2>2 DEF DropBatch, Reached, Typed, CursorsLie
    <3>2. QED BY <2>1, <3>1
  <2>3. CASE ~DropBatch
    <3>1. Reached' = Reached /\ Reached \in Nat
      BY <2>1, <2>3 DEF PublishRefused, MarkAdvance, MarkSave, KeepFile, CompactSave, Reached
    <3>2. QED BY <3>1
  <2>4. QED BY <2>2, <2>3
<1>5. HeldOnce' /\ Published'
  <2>1. Up' => Up /\ Reached <= Reached' + 0
    BY <1>1, <1>4
  <2>2. QED BY <1>1, <1>3, <2>1, HeldPart, 0 \in Nat
<1>6. BatchLies'
  BY <1>1 DEF BatchLies
<1>7. QED BY <1>5, <1>6 DEF Once

\* The cut of the file: what is left is what the stream holds.
LEMMA CompactOnce ==
    ASSUME Typed, Once, Typed', Compact
    PROVE  Once'
<1>1. /\ UNCHANGED <<buffered, offered, uploaded, lives>> /\ file' = <<>>
      /\ upc = "compact" /\ upc' = "truncated" /\ Len(file) = cursor
  BY DEF Compact, Drained, history
<1>2. file \in Seq(Cells) /\ buffered \in Seq(Cells) /\ cursor \in Nat
  BY DEF Typed, TypeOK
<1>3. held' = buffered
  BY <1>1, <1>2, ConcatEmptySeq DEF held
<1>4. Within(held', held, cursor)
  <2>1. ASSUME NEW p \in DOMAIN buffered
        PROVE  p + cursor \in DOMAIN held /\ held[p + cursor] = buffered[p]
    <3>1. p \in 1..Len(buffered) /\ Len(buffered) \in Nat /\ Len(file) \in Nat
      BY <1>2, LenProperties
    <3>2. DOMAIN held = 1..(Len(file) + Len(buffered))
      BY <1>2, ConcatProperties, LenProperties DEF held
    <3>3. /\ p + cursor \in 1..(Len(file) + Len(buffered)) /\ ~(p + cursor <= Len(file))
          /\ p + cursor - Len(file) = p
      BY <1>1, <1>2, <3>1
    <3>4. held[p + cursor] = IF p + cursor <= Len(file) THEN file[p + cursor]
                                                       ELSE buffered[p + cursor - Len(file)]
      BY <1>2, <3>3, ConcatProperties DEF held
    <3>5. QED BY <3>2, <3>3, <3>4
  <2>2. QED BY <1>3, <2>1 DEF Within
<1>5. Reached <= Reached' + cursor
  BY <1>1, <1>2 DEF Reached
<1>6. HeldOnce' /\ Published'
  <2>1. Up' => Up /\ Reached <= Reached' + cursor
    BY <1>1, <1>5 DEF Up
  <2>2. QED BY <1>1, <1>2, <1>4, <2>1, HeldPart
<1>7. BatchLies'
  BY <1>1 DEF BatchLies
<1>8. QED BY <1>6, <1>7 DEF Once

LEMMA OnceStep ==
    ASSUME Typed, Once, Typed', [Next]_vars
    PROVE  Once'
<1>1. CASE UNCHANGED vars
  <2>1. /\ held' = held /\ Reached' = Reached /\ Up' = Up
        /\ UNCHANGED <<offered, uploaded, lives, upc, batch, cursor, pendingEnd, file>>
    BY <1>1 DEF vars, queue, disk, memory, history, held, Reached, Up
  <2>2. \A a \in Alerts : Ahead(a)' <=> Ahead(a)
    BY <2>1 DEF Ahead
  <2>3. Published'
    BY <2>1, <2>2 DEF Once, Published
  <2>4. HeldOnce' /\ BatchLies'
    BY <2>1 DEF Once, HeldOnce, BatchLies
  <2>5. QED BY <2>3, <2>4 DEF Once
<1>2. CASE Open
  BY <1>2, OpenOnce
<1>3. CASE Crash \/ Stop
  BY <1>3, DownOnce
<1>4. ASSUME NEW a \in Alerts, AppendLine(a) \/ AppendFails(a) \/ AppendTorn(a) PROVE Once'
  BY <1>4, AppendOnce
<1>5. CASE Pending \/ PendingFails
  BY <1>5, PendingOnce
<1>6. CASE PublishAccepted
  BY <1>6, PublishOnce
<1>7. CASE \/ DropBatch \/ PublishRefused \/ MarkAdvance \/ MarkSave \/ KeepFile \/ CompactSave
  BY <1>7, UploaderOnce
<1>8. CASE Compact
  BY <1>8, CompactOnce
<1>9. QED
  BY ONLY [Next]_vars, <1>1, <1>2, <1>3, <1>4, <1>5, <1>6, <1>7, <1>8 DEF Next, Uploader

\* One process hands an alert to the MQTT library at most once, however appends that
\* fail halfway, flushes, cuts of the file and cursors that cannot be saved come
\* together: only another start of the daemon may repeat one.
THEOREM PublishedOnce == Spec => []OncePerLife
<1>1. Init => Typed /\ Once
  BY TypedInit, OnceInit
<1>2. Typed /\ Once /\ [Next]_vars => (Typed /\ Once)'
  BY TypedStep, OnceStep
<1>3. Once => OncePerLife
  BY DEF Once, Published, OncePerLife, Times
<1>4. QED BY <1>1, <1>2, <1>3, PTL DEF Spec

-----------------------------------------------------------------------------
\* Files of whole lines.

\* The first cell of a line, and what is around a cell.
LEMMA AroundCell ==
    ASSUME NEW f \in Seq(Cells), WholeLines(f), NEW i \in DOMAIN f
    PROVE  /\ f[i][1] \in Alerts /\ f[i][2] \in 1..Size[f[i][1]] /\ Size[f[i][1]] \in Nat
           /\ f[i] = <<f[i][1], f[i][2]>>
           /\ i \in 1..Len(f) /\ Len(f) \in Nat /\ f[i][2] <= i
           /\ \A m \in 1..Size[f[i][1]] :
                 i - f[i][2] + m \in 1..Len(f) /\ f[i - f[i][2] + m] = <<f[i][1], m>>
           /\ i = f[i][2] \/ Newline(f[i - f[i][2]])
<1> DEFINE a == f[i][1]
           j == f[i][2]
<1>1. f[i] \in Cells /\ DOMAIN f = 1..Len(f) /\ Len(f) \in Nat /\ i \in 1..Len(f)
  OBVIOUS
<1>2. a \in Alerts /\ j \in 1..Size[a] /\ f[i] = <<a, j>>
  BY <1>1, CellFacts
<1>3. Size[a] \in Nat
  BY <1>2, LineFacts
<1>4. /\ \A m \in 1..Size[a] : i - j + m \in 1..Len(f) /\ f[i - j + m] = <<a, m>>
      /\ i = j \/ Newline(f[i - j])
  BY <1>1 DEF WholeLines
<1> HIDE DEF a, j
<1>5. j <= i
  <2>1. 1 \in 1..Size[a]
    BY <1>2, <1>3
  <2>2. i - j + 1 \in 1..Len(f)
    BY <1>4, <2>1
  <2>3. QED BY <1>1, <1>2, <1>3, <2>2
<1>6. QED BY <1>1, <1>2, <1>3, <1>4, <1>5 DEF a, j

LEMMA LastCell ==
    ASSUME NEW f \in Seq(Cells), WholeLines(f)
    PROVE  Len(f) \in Bounds(f)
<1>1. CASE Len(f) = 0
  BY <1>1 DEF Bounds
<1>2. CASE Len(f) # 0
  <2> DEFINE n == Len(f)
             a == f[n][1]
             j == f[n][2]
  <2>1. n \in DOMAIN f /\ n \in Nat
    BY <1>2
  <2> HIDE DEF n
  <2>2. /\ j \in 1..Size[a] /\ Size[a] \in Nat
        /\ \A m \in 1..Size[a] : n - j + m \in 1..n
    BY <2>1, AroundCell DEF n
  <2> HIDE DEF a, j
  <2>3. Size[a] \in 1..Size[a]
    BY <2>2
  <2>4. n - j + Size[a] \in 1..n
    BY <2>2, <2>3
  <2>5. j = Size[a]
    BY <2>1, <2>2, <2>4
  <2>6. Newline(f[n])
    BY <2>5 DEF Newline, a, j
  <2>7. QED BY <2>1, <2>6 DEF Bounds, Newlines, n
<1>3. QED BY <1>1, <1>2

LEMMA AfterFacts ==
    ASSUME NEW f \in Seq(Cells)
    PROVE  /\ Newlines(f) \subseteq 1..Len(f)
           /\ \A c : /\ After(f, c) \subseteq Newlines(f)
                    /\ IsFiniteSet(After(f, c)) /\ Cardinality(After(f, c)) \in Nat
           /\ \A c, d \in Nat : c <= d =>
                 /\ After(f, d) \subseteq After(f, c)
                 /\ Cardinality(After(f, d)) <= Cardinality(After(f, c))
           /\ \A i \in Newlines(f) :
                 Cardinality(After(f, i)) < Cardinality(After(f, 0))
<1>1. Newlines(f) \subseteq 1..Len(f) /\ Len(f) \in Nat
  BY DEF Newlines
<1>2. ASSUME NEW c
      PROVE  /\ After(f, c) \subseteq Newlines(f)
             /\ IsFiniteSet(After(f, c)) /\ Cardinality(After(f, c)) \in Nat
  <2>1. After(f, c) \subseteq Newlines(f)
    BY DEF After
  <2>2. QED BY <1>1, <2>1, NumbersFinite
<1>3. ASSUME NEW c \in Nat, NEW d \in Nat, c <= d
      PROVE  /\ After(f, d) \subseteq After(f, c)
             /\ Cardinality(After(f, d)) <= Cardinality(After(f, c))
  <2>1. ASSUME NEW i \in Newlines(f), d < i PROVE c < i
    <3>1. i \in Nat BY <1>1
    <3>2. QED BY <1>3, <2>1, <3>1
  <2>2. After(f, d) \subseteq After(f, c)
    BY <2>1 DEF After
  <2>3. QED BY <1>2, <2>2, FS_Subset
<1>4. ASSUME NEW i \in Newlines(f)
      PROVE  Cardinality(After(f, i)) < Cardinality(After(f, 0))
  <2>1. i \in Nat /\ 0 < i /\ 0 <= i
    BY <1>1
  <2>2. After(f, i) \subseteq After(f, 0)
    BY <1>3, <2>1
  <2>3. i \in After(f, 0) /\ i \notin After(f, i)
    BY <2>1 DEF After
  <2>4. Cardinality(After(f, i)) <= Cardinality(After(f, 0))
    BY <1>2, <2>2, FS_Subset
  <2>5. Cardinality(After(f, i)) # Cardinality(After(f, 0))
    BY <1>2, <2>2, <2>3, FS_Subset
  <2>6. QED BY <1>2, <2>4, <2>5
<1>5. QED BY <1>1, <1>2, <1>3, <1>4

\* From a bound on, getline() returns the lines as they were appended.
LEMMA WholeLine ==
    ASSUME NEW f \in Seq(Cells), WholeLines(f), NEW c \in Bounds(f)
    PROVE  /\ Ends(f, c) = After(f, c)
           /\ \A i \in After(f, c) : AlertOf(LineTo(f, c, i)) = {f[i][1]}
<1>1. /\ DOMAIN f = 1..Len(f) /\ Len(f) \in Nat /\ c \in Nat /\ c <= Len(f)
      /\ Newlines(f) \subseteq 1..Len(f)
  BY DEF Bounds, Newlines
<1>2. Ends(f, c) = After(f, c)
  <2>1. ASSUME NEW i \in (c + 1)..Len(f), i = Len(f) PROVE Newline(f[i])
    <3>1. Len(f) # 0
      BY <1>1, <2>1
    <3>2. QED BY <2>1, <3>1, LastCell DEF Bounds, Newlines
  <2>2. \A i : i \in (c + 1)..Len(f) <=> i \in 1..Len(f) /\ c < i
    BY <1>1
  <2>3. QED BY <1>1, <2>1, <2>2 DEF Ends, After, Newlines
<1>3. ASSUME NEW i \in After(f, c) PROVE AlertOf(LineTo(f, c, i)) = {f[i][1]}
  <2> DEFINE a == f[i][1]
             z == Size[a]
             b == Begin(f, c, i)
  <2>1. i \in DOMAIN f /\ i \in Ends(f, c) /\ f[i][2] = z /\ c < i /\ i \in Nat
    BY <1>1, <1>2 DEF After, Newlines, Newline
  <2>2. /\ a \in Alerts /\ z \in Nat /\ z >= 2 /\ z <= i
        /\ \A m \in 1..z : f[i - z + m] = <<a, m>>
        /\ i = z \/ Newline(f[i - z])
    <3>1. /\ f[i][1] \in Alerts /\ f[i][2] <= i
          /\ \A m \in 1..Size[f[i][1]] : f[i - f[i][2] + m] = <<f[i][1], m>>
          /\ i = f[i][2] \/ Newline(f[i - f[i][2]])
      BY <2>1, AroundCell
    <3>2. QED BY <2>1, <3>1, LineFacts
  <2>3. /\ b \in (c + 1)..i /\ b - 1 \in {c} \cup Ends(f, c)
        /\ \A k \in Ends(f, c) : k < i => k < b
        /\ LineTo(f, c, i) \in Seq(Cells)
        /\ Len(LineTo(f, c, i)) = i - b + 1
        /\ \A k \in 1..(i - b + 1) : LineTo(f, c, i)[k] = f[b + k - 1]
    BY <1>1, <2>1, BeginFacts
  <2> HIDE DEF a, z, b
  <2>4. b - 1 \in Bounds(f) /\ b \in Nat /\ b >= 1
    BY <1>1, <1>2, <2>1, <2>3 DEF After, Bounds
  <2>5. ~(b - 1 > i - z)
    <3>1. ASSUME b - 1 > i - z PROVE FALSE
      <4>1. /\ b - 1 - (i - z) \in 1..z /\ i - z + (b - 1 - (i - z)) = b - 1
            /\ b - 1 - (i - z) # z /\ b - 1 # 0
        <5>1. b \in Nat /\ b <= i /\ i \in Nat /\ z \in Nat /\ z <= i /\ b - 1 > i - z
          BY <2>1, <2>2, <2>3, <2>4, <3>1
        <5>2. QED BY ONLY <5>1
      <4>2. f[b - 1] = <<a, b - 1 - (i - z)>>
        BY <2>2, <4>1
      <4>3. Newline(f[b - 1])
        BY <2>4, <4>1 DEF Bounds, Newlines
      <4>4. QED BY <4>1, <4>2, <4>3 DEF Newline, z
    <3>2. QED BY <3>1
  <2>6. i - z <= b - 1
    <3>1. CASE i = z
      BY <2>2, <2>4, <3>1
    <3>2. CASE i # z /\ i - z > c
      <4>1. i - z \in (c + 1)..Len(f) /\ i - z < i
        BY <1>1, <2>1, <2>2, <3>2
      <4>2. i - z \in Ends(f, c)
        BY <2>2, <3>2, <4>1 DEF Ends
      <4>3. i - z < b
        BY <2>3, <4>1, <4>2
      <4>4. QED BY <2>1, <2>2, <2>4, <4>3
    <3>3. CASE i - z <= c
      BY <1>1, <2>1, <2>2, <2>3, <2>4, <3>3
    <3>4. QED BY <1>1, <2>1, <2>2, <3>1, <3>2, <3>3
  <2>7. b = i - z + 1
    BY <2>1, <2>2, <2>4, <2>5, <2>6
  <2>8. LineTo(f, c, i) = Line(a)
    <3>1. Len(LineTo(f, c, i)) = z
      BY <2>1, <2>2, <2>3, <2>7
    <3>2. ASSUME NEW k \in 1..z PROVE LineTo(f, c, i)[k] = Line(a)[k]
      <4>1. k \in 1..(i - b + 1) /\ b + k - 1 = i - z + k
        <5>1. i \in Nat /\ z \in Nat /\ z <= i /\ k \in Nat /\ k >= 1 /\ k <= z
          BY <2>1, <2>2
        <5>2. QED BY ONLY <2>7, <5>1
      <4>2. LineTo(f, c, i)[k] = f[i - z + k]
        BY <2>3, <4>1
      <4>3. f[i - z + k] = <<a, k>>
        BY <2>2
      <4>4. Line(a)[k] = <<a, k>>
        BY <2>2, LineFacts DEF z
      <4>5. QED BY <4>2, <4>3, <4>4
    <3>3. Line(a) \in Seq(Cells) /\ Len(Line(a)) = z
      BY <2>2, LineFacts DEF z
    <3>4. QED BY <2>3, <3>1, <3>2, <3>3, SeqEqual
  <2>9. AlertOf(Line(a)) = {a}
    <3>1. ASSUME NEW other \in Alerts, Line(a) \in {Line(other), Body(other)}
          PROVE  other = a
      <4>1. Line(a)[1] = <<a, 1>> /\ Line(other)[1] = <<other, 1>> /\ Body(other)[1] = <<other, 1>>
        BY <2>2, LineFacts
      <4>2. QED BY <3>1, <4>1
    <3>2. QED BY <2>2, <3>1 DEF AlertOf
  <2>10. QED BY <2>8, <2>9 DEF a
<1>4. QED BY <1>2, <1>3

\* The alerts between two bounds are what was logged there.
LEMMA Slice ==
    ASSUME NEW f \in Seq(Cells), NEW log \in Seq(Alerts), Shape(f, log),
           NEW c \in Bounds(f), NEW d \in Bounds(f), c <= d
    PROVE  /\ AlertsBetween(f, c, d) = Logged(f, log, c, d)
           /\ Cardinality(After(f, c)) \in Nat /\ Cardinality(After(f, d)) \in Nat
           /\ Cardinality(After(f, d)) <= Cardinality(After(f, c))
           /\ Cardinality(After(f, c)) <= Len(log)
<1> DEFINE W == Whole(f, c, d)
           N(x) == Cardinality(After(f, x))
<1>1. /\ Newlines(f) \subseteq 1..Len(f) /\ c \in Nat /\ d \in Nat /\ Len(f) \in Nat
      /\ WholeLines(f) /\ LastOf(f, log) /\ Len(log) \in Nat
  BY AfterFacts DEF Bounds, Shape
<1>2. \A x : /\ After(f, x) \subseteq Newlines(f)
             /\ IsFiniteSet(After(f, x)) /\ N(x) \in Nat
  BY AfterFacts
<1>3. N(d) <= N(c) /\ After(f, d) \subseteq After(f, c)
  BY <1>1, AfterFacts
<1>4. N(c) <= Len(log)
  <2>1. N(c) <= N(0)
    BY <1>1, AfterFacts, 0 \in Nat, 0 <= c
  <2>2. N(0) <= Len(log)
    BY <1>1 DEF LastOf
  <2>3. QED BY <1>1, <1>2, <2>1, <2>2
<1>5. Ends(f, c) = After(f, c) /\ \A i \in After(f, c) : AlertOf(LineTo(f, c, i)) = {f[i][1]}
  BY <1>1, WholeLine
<1>6. W = After(f, c) \ After(f, d)
  <2>1. W = {i \in After(f, c) : i <= d}
    BY <1>5 DEF Whole, UpTo
  <2>2. ASSUME NEW i \in After(f, c) PROVE i <= d <=> i \notin After(f, d)
    <3>1. i \in Nat /\ i \in Newlines(f)
      BY <1>1, <1>2
    <3>2. i <= d <=> ~(d < i)
      BY <1>1, <3>1
    <3>3. QED BY <3>1, <3>2 DEF After
  <2>3. QED BY <2>1, <2>2
<1>7. Cardinality(W) = N(c) - N(d)
  <2>1. After(f, c) \cap After(f, d) = After(f, d)
    BY <1>3
  <2>2. QED BY <1>2, <1>6, <2>1, FS_Difference
<1>8. /\ \A n \in 1..Cardinality(W) :
            Nth(f, c, d, n) \in W /\ Cardinality(UpTo(W, Nth(f, c, d, n))) = n
      /\ AlertsBetween(f, c, d) = [n \in 1..Cardinality(W) |->
             CHOOSE a \in AlertOf(LineTo(f, c, Nth(f, c, d, n))) : TRUE]
  <2>1. \A n \in 1..Cardinality(W) :
            Nth(f, c, d, n) \in W /\ Cardinality(UpTo(W, Nth(f, c, d, n))) = n
    BY <1>1, AlertsAre
  <2>2. AlertsBetween(f, c, d) = [n \in 1..Cardinality(W) |->
             CHOOSE a \in AlertOf(LineTo(f, c, Nth(f, c, d, n))) : TRUE]
    BY <1>1, AlertsAre
  <2>3. QED BY <2>1, <2>2
<1>9. ASSUME NEW n \in 1..Cardinality(W)
      PROVE  (CHOOSE a \in AlertOf(LineTo(f, c, Nth(f, c, d, n))) : TRUE) = log[Len(log) - N(c) + n]
  <2> DEFINE i == Nth(f, c, d, n)
  <2>1. i \in W /\ Cardinality(UpTo(W, i)) = n
    BY <1>8
  <2> HIDE DEF i, W
  <2>2. i \in After(f, c) /\ i \notin After(f, d) /\ i \in Newlines(f) /\ i \in Nat /\ c < i
    BY <1>1, <1>2, <1>6, <2>1 DEF After
  <2>3. i <= d
    BY <1>1, <2>2 DEF After
  <2>4. UpTo(W, i) = After(f, c) \ After(f, i)
    <3>1. ASSUME NEW k \in Newlines(f), c < k
          PROVE  (k \in W /\ k <= i) <=> ~(i < k)
      <4>1. k \in Nat
        BY <1>1
      <4>2. k <= i => ~(d < k)
        BY <1>1, <2>2, <2>3, <4>1
      <4>3. k \in After(f, c) /\ (k \in After(f, d) <=> d < k)
        BY <3>1 DEF After
      <4>4. k <= i <=> ~(i < k)
        BY <2>2, <4>1
      <4>5. QED BY <1>6, <4>2, <4>3, <4>4
    <3>2. W \subseteq After(f, c)
      BY <1>6
    <3>3. QED BY <3>1, <3>2 DEF UpTo, After
  <2>5. n = N(c) - N(i)
    <3>1. c <= i
      BY <1>1, <2>2
    <3>2. After(f, c) \cap After(f, i) = After(f, i)
      BY <1>1, <2>2, <3>1, AfterFacts
    <3>3. QED BY <1>2, <2>1, <2>4, <3>2, FS_Difference
  <2>6. Len(log) - N(c) + n = Len(log) - N(i)
    <3>1. N(c) \in Nat /\ N(i) \in Nat /\ Len(log) \in Nat
      BY <1>1, <1>2
    <3> HIDE DEF N
    <3>2. QED BY ONLY <2>5, <3>1
  <2>7. AlertOf(LineTo(f, c, i)) = {log[Len(log) - N(i)]}
    BY <1>1, <1>5, <2>2 DEF LastOf
  <2>8. (CHOOSE a \in AlertOf(LineTo(f, c, i)) : TRUE) = log[Len(log) - N(i)]
    BY <2>7
  <2>9. QED BY <2>6, <2>8 DEF i
<1>10. AlertsBetween(f, c, d) = Logged(f, log, c, d)
  BY <1>7, <1>8, <1>9 DEF Logged
<1>11. QED BY <1>2, <1>3, <1>4, <1>10

\* What is left of a file from a bound on, or of an empty one.
LEMMA LeftOver ==
    ASSUME NEW f \in Seq(Cells), NEW log \in Seq(Alerts), Shape(f, log),
           NEW c \in Nat, c \in Bounds(f) \/ f = <<>>
    PROVE  /\ Len(AlertsBetween(f, c, Len(f))) = Cardinality(After(f, c))
           /\ Cardinality(After(f, c)) \in 0..Len(log)
<1>1. Len(f) \in Bounds(f) /\ Len(f) \in Nat
  BY LastCell DEF Shape
<1>2. After(f, Len(f)) = {}
  <2>1. \A i \in Newlines(f) : i \in 1..Len(f)
    BY AfterFacts
  <2>2. \A i \in Newlines(f) : ~(Len(f) < i)
    BY <1>1, <2>1
  <2>3. QED BY <2>2 DEF After
<1>3. CASE c \in Bounds(f)
  <2>1. c <= Len(f)
    BY <1>1, <1>3, AfterFacts DEF Bounds
  <2>2. /\ AlertsBetween(f, c, Len(f)) = Logged(f, log, c, Len(f))
        /\ Cardinality(After(f, c)) \in Nat
        /\ Cardinality(After(f, c)) <= Len(log)
    BY <1>1, <1>3, <2>1, Slice
  <2>3. Cardinality(After(f, Len(f))) = 0
    BY <1>2, FS_EmptySet
  <2>4. Len(Logged(f, log, c, Len(f))) = Cardinality(After(f, c))
    BY <2>2, <2>3 DEF Logged
  <2>5. Len(log) \in Nat
    OBVIOUS
  <2>6. QED BY <2>2, <2>4, <2>5
<1>4. CASE f = <<>>
  <2>1. Len(f) = 0 /\ DOMAIN f = {}
    BY <1>4
  <2>2. After(f, c) = {}
    BY <2>1 DEF After, Newlines
  <2>3. Cardinality(After(f, c)) = 0
    BY <2>2, FS_EmptySet
  <2>4. Ends(f, c) = {}
    BY <2>1 DEF Ends
  <2>5. Whole(f, c, Len(f)) = {}
    BY <2>4 DEF Whole, UpTo
  <2>6. Cardinality(Whole(f, c, Len(f))) = 0
    BY <2>5, FS_EmptySet
  <2>7. Len(AlertsBetween(f, c, Len(f))) = 0
    <3>1. ASSUME NEW to \in Nat
          PROVE  Len(AlertsBetween(f, c, to)) = Cardinality(Whole(f, c, to))
      <4>1. /\ AlertsBetween(f, c, to) =
                  [n \in 1..Cardinality(Whole(f, c, to)) |->
                      CHOOSE a \in AlertOf(LineTo(f, c, Nth(f, c, to, n))) : TRUE]
            /\ Cardinality(Whole(f, c, to)) \in Nat
        BY AlertsAre
      <4>2. QED BY <4>1
    <3>2. QED BY <1>1, <2>6, <3>1
  <2>8. Len(log) \in Nat
    OBVIOUS
  <2>9. QED BY <2>3, <2>7, <2>8
<1>5. QED BY <1>3, <1>4

\* One line more is one alert more at the end.
LEMMA LineAppended ==
    ASSUME NEW f \in Seq(Cells), NEW log \in Seq(Alerts), Shape(f, log), NEW a \in Alerts
    PROVE  /\ f \o Line(a) \in Seq(Cells)
           /\ Shape(f \o Line(a), Append(log, a))
           /\ Bounds(f) \subseteq Bounds(f \o Line(a))
           /\ \A c \in 0..Len(f) :
                 Cardinality(After(f \o Line(a), c)) = Cardinality(After(f, c)) + 1
<1> DEFINE g == f \o Line(a)
           z == Size[a]
           l == Len(f)
           N(x) == Cardinality(After(f, x))
<1>1. /\ l \in Nat /\ z \in Nat /\ z >= 2 /\ g \in Seq(Cells) /\ Len(g) = l + z
      /\ \A p \in 1..l : g[p] = f[p]
      /\ \A j \in 1..z : g[l + j] = <<a, j>>
      /\ DOMAIN f = 1..l /\ DOMAIN g = 1..(l + z)
  <2>1. /\ l \in Nat /\ z \in Nat /\ z >= 2 /\ Line(a) \in Seq(Cells) /\ Len(Line(a)) = z
        /\ \A j \in 1..z : Line(a)[j] = <<a, j>>
    BY LineFacts
  <2>2. /\ g \in Seq(Cells) /\ Len(g) = l + z
        /\ \A p \in 1..(l + z) : g[p] = IF p <= l THEN f[p] ELSE Line(a)[p - l]
    BY <2>1, ConcatProperties
  <2>3. \A p \in 1..l : g[p] = f[p]
    BY <2>1, <2>2
  <2>4. ASSUME NEW j \in 1..z PROVE g[l + j] = <<a, j>>
    <3>1. l + j \in 1..(l + z) /\ ~(l + j <= l) /\ l + j - l = j
      BY <2>1
    <3>2. g[l + j] = Line(a)[j]
      BY <2>2, <3>1
    <3>3. QED BY <2>1, <3>2
  <2>5. DOMAIN f = 1..l /\ DOMAIN g = 1..(l + z)
    BY <2>2
  <2>6. QED BY <2>1, <2>2, <2>3, <2>4, <2>5
<1>2. WholeLines(f) /\ LastOf(f, log) /\ l \in Bounds(f)
  BY LastCell DEF Shape
<1> HIDE DEF g, z, l
\* A cell of g is one of f, or one of the new line.
<1>3. ASSUME NEW p \in DOMAIN g, p \notin 1..l
      PROVE  p - l \in 1..z /\ p = l + (p - l) /\ g[p] = <<a, p - l>>
  <2>1. p - l \in 1..z /\ p = l + (p - l)
    BY <1>1, <1>3
  <2>2. QED BY <1>1, <2>1
<1>4. Newlines(g) = Newlines(f) \cup {l + z}
  <2>1. ASSUME NEW p \in 1..l PROVE p \in Newlines(g) <=> p \in Newlines(f)
    <3>1. p \in DOMAIN f /\ p \in DOMAIN g /\ g[p] = f[p]
      BY <1>1
    <3>2. QED BY <3>1 DEF Newlines
  <2>2. ASSUME NEW p \in DOMAIN g, p \notin 1..l PROVE p \in Newlines(g) <=> p = l + z
    <3>1. p - l \in 1..z /\ p = l + (p - l) /\ g[p] = <<a, p - l>>
      BY <1>3, <2>2
    <3>2. Newline(g[p]) <=> p - l = z
      BY <3>1 DEF Newline, z
    <3>3. p - l = z <=> p = l + z
      <4>1. p \in 1..(l + z) /\ l \in Nat /\ z \in Nat
        BY <1>1, <2>2
      <4>2. QED BY ONLY <4>1
    <3>4. QED BY <2>2, <3>2, <3>3 DEF Newlines
  <2>3. l + z \in DOMAIN g /\ l + z \notin 1..l
    BY <1>1
  <2>4. Newlines(f) \subseteq 1..l /\ Newlines(g) \subseteq DOMAIN g
    BY <1>1 DEF Newlines
  <2>5. QED BY <2>1, <2>2, <2>3, <2>4
<1>5. Bounds(f) \subseteq Bounds(g)
  BY <1>4 DEF Bounds
<1>6. /\ \A x : IsFiniteSet(After(f, x)) /\ N(x) \in Nat /\ After(f, x) \subseteq Newlines(f)
      /\ Newlines(f) \subseteq 1..l
      /\ \A i \in Newlines(f) : N(i) < N(0)
  BY AfterFacts DEF l
<1>7. ASSUME NEW c \in 0..l PROVE Cardinality(After(g, c)) = N(c) + 1
  <2>1. c < l + z
    BY <1>1
  <2>2. After(g, c) = After(f, c) \cup {l + z}
    BY <1>4, <2>1 DEF After
  <2>3. l + z \notin After(f, c)
    BY <1>1, <1>6
  <2>4. QED BY <1>6, <2>2, <2>3, FS_AddElement
<1>8. WholeLines(g)
  <2>1. ASSUME NEW p \in 1..l
        PROVE  /\ \A m \in 1..Size[g[p][1]] :
                     p - g[p][2] + m \in DOMAIN g /\ g[p - g[p][2] + m] = <<g[p][1], m>>
               /\ p = g[p][2] \/ Newline(g[p - g[p][2]])
    <3>1. /\ \A m \in 1..Size[f[p][1]] :
                p - f[p][2] + m \in 1..l /\ f[p - f[p][2] + m] = <<f[p][1], m>>
          /\ p = f[p][2] \/ Newline(f[p - f[p][2]])
          /\ f[p][2] \in Nat /\ f[p][2] >= 1 /\ f[p][2] <= p /\ g[p] = f[p]
      <4>1. p \in DOMAIN f
        BY <1>1
      <4>2. /\ \A m \in 1..Size[f[p][1]] :
                  p - f[p][2] + m \in 1..l /\ f[p - f[p][2] + m] = <<f[p][1], m>>
            /\ p = f[p][2] \/ Newline(f[p - f[p][2]])
        BY <1>2, <4>1, AroundCell DEF l
      <4>3. f[p][2] \in 1..Size[f[p][1]] /\ Size[f[p][1]] \in Nat /\ f[p][2] <= p
        BY <1>2, <4>1, AroundCell
      <4>4. f[p][2] \in Nat /\ f[p][2] >= 1
        BY ONLY <4>3
      <4>5. g[p] = f[p]
        BY <1>1
      <4>6. QED BY ONLY <4>2, <4>3, <4>4, <4>5
    <3>2. ASSUME NEW m \in 1..Size[f[p][1]]
          PROVE  p - f[p][2] + m \in DOMAIN g /\ g[p - f[p][2] + m] = <<f[p][1], m>>
      <4>1. p - f[p][2] + m \in 1..l /\ f[p - f[p][2] + m] = <<f[p][1], m>>
        BY <3>1
      <4>2. p - f[p][2] + m \in DOMAIN g
        BY <1>1, <4>1
      <4>3. QED BY <1>1, <4>1, <4>2
    <3>3. ASSUME p # f[p][2] PROVE Newline(g[p - f[p][2]])
      <4>1. p - f[p][2] \in 1..l
        BY <1>1, <3>1, <3>3
      <4>2. QED BY <1>1, <3>1, <3>3, <4>1
    <3>4. QED BY <3>1, <3>2, <3>3
  <2>2. ASSUME NEW p \in DOMAIN g, p \notin 1..l
        PROVE  /\ \A m \in 1..Size[g[p][1]] :
                     p - g[p][2] + m \in DOMAIN g /\ g[p - g[p][2] + m] = <<g[p][1], m>>
               /\ p = g[p][2] \/ Newline(g[p - g[p][2]])
    <3>1. p - l \in 1..z /\ g[p][1] = a /\ g[p][2] = p - l /\ p - (p - l) = l
      <4>1. p - l \in 1..z /\ g[p] = <<a, p - l>>
        BY <1>3, <2>2
      <4>2. p - (p - l) = l
        <5>1. p \in 1..(l + z) /\ l \in Nat /\ z \in Nat
          BY <1>1, <2>2
        <5>2. QED BY ONLY <5>1
      <4>3. QED BY <4>1, <4>2
    <3>2. ASSUME NEW m \in 1..z
          PROVE  l + m \in DOMAIN g /\ g[l + m] = <<a, m>>
      BY <1>1
    <3>3. l = 0 \/ Newline(g[l])
      <4>1. CASE l # 0
        <5>1. l \in DOMAIN f /\ Newline(f[l]) /\ l \in 1..l
          BY <1>1, <1>2, <4>1 DEF Bounds, Newlines
        <5>2. QED BY <1>1, <5>1
      <4>2. QED BY <4>1
    <3>4. l = 0 => p = g[p][2]
      BY <1>1, <3>1
    <3>5. QED BY <3>1, <3>2, <3>3, <3>4 DEF z
  <2>3. \A p \in DOMAIN g :
            /\ \A m \in 1..Size[g[p][1]] :
                  p - g[p][2] + m \in DOMAIN g /\ g[p - g[p][2] + m] = <<g[p][1], m>>
            /\ p = g[p][2] \/ Newline(g[p - g[p][2]])
    BY <2>1, <2>2
  <2>4. QED BY <2>3 DEF WholeLines
<1>9. LastOf(g, Append(log, a))
  <2>1. /\ Len(log) \in Nat /\ Len(Append(log, a)) = Len(log) + 1
        /\ \A n \in 1..Len(log) : Append(log, a)[n] = log[n]
        /\ Append(log, a)[Len(log) + 1] = a
    OBVIOUS
  <2>2. N(0) <= Len(log) /\ \A i \in Newlines(f) : f[i][1] = log[Len(log) - N(i)]
    BY <1>2 DEF LastOf
  <2>3. Cardinality(After(g, 0)) <= Len(log) + 1
    BY <1>1, <1>6, <1>7, <2>1, <2>2, 0 \in 0..l
  <2>4. ASSUME NEW i \in Newlines(f)
        PROVE  g[i][1] = Append(log, a)[Len(log) + 1 - Cardinality(After(g, i))]
    <3>1. i \in 1..l /\ i \in 0..l
      BY <1>1, <1>6
    <3>2. Cardinality(After(g, i)) = N(i) + 1
      BY <1>7, <3>1
    <3>3. /\ N(i) \in Nat /\ N(i) < N(0) /\ N(0) <= Len(log) /\ N(0) \in Nat
      BY <1>6, <2>2
    <3>4. Len(log) - N(i) \in 1..Len(log) /\ Len(log) + 1 - (N(i) + 1) = Len(log) - N(i)
      <4> HIDE DEF N
      <4>1. QED BY <2>1, <3>3
    <3>5. Append(log, a)[Len(log) - N(i)] = log[Len(log) - N(i)]
      BY <2>1, <3>4
    <3>6. g[i][1] = f[i][1]
      BY <1>1, <3>1
    <3>7. QED BY <2>2, <3>2, <3>4, <3>5, <3>6
  <2>5. g[l + z][1] = Append(log, a)[Len(log) + 1 - Cardinality(After(g, l + z))]
    <3>1. After(g, l + z) = {}
      <4>1. \A i \in Newlines(g) : ~(l + z < i)
        BY <1>1, <1>4, <1>6
      <4>2. QED BY <4>1 DEF After
    <3>2. Cardinality(After(g, l + z)) = 0
      BY <3>1, FS_EmptySet
    <3>3. g[l + z][1] = a
      <4>1. z \in 1..z
        BY <1>1
      <4>2. g[l + z] = <<a, z>>
        BY <1>1, <4>1
      <4>3. QED BY <4>2
    <3>4. Len(log) + 1 - 0 = Len(log) + 1
      BY <2>1
    <3>5. QED BY <2>1, <3>2, <3>3, <3>4
  <2>6. \A i \in Newlines(g) :
            g[i][1] = Append(log, a)[Len(Append(log, a)) - Cardinality(After(g, i))]
    <3> DEFINE more == Append(log, a)
               rank(i) == Cardinality(After(g, i))
    <3>1. \A i \in Newlines(g) : g[i][1] = more[Len(log) + 1 - rank(i)]
      BY <1>4, <2>4, <2>5
    <3>2. Len(more) = Len(log) + 1 /\ Len(log) \in Nat
      BY <2>1
    <3>3. ASSUME NEW i \in Newlines(g) PROVE rank(i) \in Nat
      <4>1. After(g, i) \subseteq Newlines(g)
        BY DEF After
      <4>2. QED BY <1>1, AfterFacts
    <3> HIDE DEF more, rank
    <3>4. ASSUME NEW i \in Newlines(g)
          PROVE  g[i][1] = more[Len(more) - rank(i)]
      <4>1. Len(more) - rank(i) = Len(log) + 1 - rank(i)
        BY ONLY <3>2, <3>3
      <4>2. QED BY ONLY <3>1, <4>1
    <3>5. QED BY ONLY <3>4 DEF more, rank
  <2>7. QED BY <2>1, <2>3, <2>6 DEF LastOf
<1>10. QED BY <1>1, <1>5, <1>7, <1>8, <1>9 DEF Shape, g, l

\* An alert that is logged meanwhile changes nothing of a batch.
LEMMA LoggedStays ==
    ASSUME NEW f \in Seq(Cells), NEW log \in Seq(Alerts), Shape(f, log), NEW a \in Alerts,
           NEW c \in Bounds(f), NEW d \in Bounds(f), c <= d
    PROVE  Logged(f \o Line(a), Append(log, a), c, d) = Logged(f, log, c, d)
<1> DEFINE g == f \o Line(a)
           more == Append(log, a)
           nc == Cardinality(After(f, c))
           nd == Cardinality(After(f, d))
<1>1. nc \in Nat /\ nd \in Nat /\ nd <= nc /\ nc <= Len(log)
  BY Slice
<1>2. c \in 0..Len(f) /\ d \in 0..Len(f)
  BY AfterFacts DEF Bounds
<1>3. Cardinality(After(g, c)) = nc + 1 /\ Cardinality(After(g, d)) = nd + 1
  BY <1>2, LineAppended
<1>4. /\ Len(log) \in Nat /\ Len(more) = Len(log) + 1
      /\ \A n \in 1..Len(log) : more[n] = log[n]
  OBVIOUS
<1>5. Logged(g, more, c, d) =
          [n \in 1..(Cardinality(After(g, c)) - Cardinality(After(g, d))) |->
              more[Len(more) - Cardinality(After(g, c)) + n]]
  BY DEF Logged
<1>6. Logged(f, log, c, d) = [n \in 1..(nc - nd) |-> log[Len(log) - nc + n]]
  BY DEF Logged
<1> HIDE DEF g, more, nc, nd
<1>7. Cardinality(After(g, c)) - Cardinality(After(g, d)) = nc - nd
  BY ONLY <1>1, <1>3
<1>8. ASSUME NEW n \in 1..(nc - nd)
      PROVE  more[Len(more) - Cardinality(After(g, c)) + n] = log[Len(log) - nc + n]
  <2>1. /\ Len(more) - Cardinality(After(g, c)) + n = Len(log) - nc + n
        /\ Len(log) - nc + n \in 1..Len(log)
    BY ONLY <1>1, <1>3, <1>4, n \in 1..(nc - nd)
  <2>2. QED BY ONLY <2>1, <1>4
<1>9. Logged(g, more, c, d) = Logged(f, log, c, d)
  BY ONLY <1>5, <1>6, <1>7, <1>8
<1>10. QED BY ONLY <1>9 DEF g, more

LEMMA EmptyFile ==
    ASSUME NEW log \in Seq(Alerts)
    PROVE  Shape(<<>>, log) /\ Newlines(<<>>) = {} /\ 0 \in Bounds(<<>>)
<1>1. DOMAIN <<>> = {}
  OBVIOUS
<1>2. WholeLines(<<>>) /\ Newlines(<<>>) = {}
  BY <1>1 DEF WholeLines, Newlines
<1>3. After(<<>>, 0) = {}
  BY <1>2 DEF After
<1>4. Cardinality(After(<<>>, 0)) = 0
  BY <1>3, FS_EmptySet
<1>5. Len(log) \in Nat
  OBVIOUS
<1>6. QED BY <1>2, <1>4, <1>5 DEF Shape, LastOf, Bounds

LEMMA InOrderInit ==
    ASSUME Init
    PROVE  LinesInOrder
<1>1. logged \in Seq(Alerts)
  BY DEF Init
<1>2. Shape(<<>>, logged) /\ 0 \in Bounds(<<>>)
  BY <1>1, EmptyFile
<1>3. QED BY <1>2 DEF Init, LinesInOrder, Up

\* A whole line follows the file, in a live process or in a dying one.
LEMMA AppendedInOrder ==
    ASSUME Typed, LinesInOrder, upc # "truncated", Up, NEW a \in Alerts,
           file' = file \o Line(a), logged' = Append(logged, a), buffered' = <<>>,
           UNCHANGED <<cursorFile, cursor, pendingEnd>>,
           (upc' = upc /\ batch' = batch) \/ upc' = "down"
    PROVE  LinesInOrder'
<1>1. /\ file \in Seq(Cells) /\ logged \in Seq(Alerts)
      /\ upc = "batch" => cursor <= pendingEnd
  BY DEF Typed, TypeOK, CursorsLie
<1>2. /\ Shape(file, logged)
      /\ cursor \in Bounds(file) /\ cursorFile \in Bounds(file) /\ cursorFile <= cursor
      /\ upc \in {"batch", "mark"} => pendingEnd \in Bounds(file)
      /\ upc = "batch" => batch = Logged(file, logged, cursor, pendingEnd)
  BY DEF LinesInOrder
<1>3. Shape(file', logged') /\ Bounds(file) \subseteq Bounds(file')
  BY <1>1, <1>2, LineAppended
<1>4. /\ cursor' \in Bounds(file') /\ cursorFile' \in Bounds(file') /\ cursorFile' <= cursor'
      /\ upc' \in {"batch", "mark"} => pendingEnd' \in Bounds(file')
  BY <1>2, <1>3
<1>5. ASSUME upc' = "batch"
      PROVE  batch' = Logged(file', logged', cursor', pendingEnd')
  <2>1. upc = "batch" /\ batch' = batch
    BY <1>5
  <2>2. Logged(file \o Line(a), Append(logged, a), cursor, pendingEnd)
            = Logged(file, logged, cursor, pendingEnd)
    BY <1>1, <1>2, <2>1, LoggedStays
  <2>3. Logged(file', logged', cursor', pendingEnd') = Logged(file, logged, cursor, pendingEnd)
    BY <2>2
  <2>4. QED BY <1>2, <2>1, <2>3
<1>6. QED BY <1>3, <1>4, <1>5 DEF LinesInOrder, Up

LEMMA InOrderStep ==
    ASSUME Typed, Calm, LinesInOrder, [Next]_vars
    PROVE  LinesInOrder'
<1>0. /\ "append" \notin environment.faults /\ "save" \notin environment.faults
      /\ "tear" \notin environment.faults /\ "truncated" \notin environment.crashPoints
  BY DEF Calm
<1>1. CASE UNCHANGED vars
  BY <1>1 DEF LinesInOrder, Up, vars, queue, disk, memory, history
<1>2. ASSUME UNCHANGED environment, Open
      PROVE  LinesInOrder'
  <2>1. StartCursor = cursorFile
    <3>1. cursorFile \in Bounds(file) /\ file \in Seq(Cells)
      BY <1>2 DEF Open, LinesInOrder, Typed, TypeOK
    <3>2. cursorFile <= Len(file) /\ cursorFile \in Nat /\ Len(file) \in Nat
      BY <3>1, AfterFacts DEF Bounds
    <3>3. QED BY <3>2 DEF StartCursor
  <2>2. cursorFile \in Nat /\ cursorFile <= cursorFile
    BY DEF Typed, TypeOK
  <2>3. QED BY <1>2, <2>1, <2>2 DEF Open, disk, LinesInOrder, Up
<1>3. ASSUME UNCHANGED environment, Crash
      PROVE  LinesInOrder'
  <2>1. upc # "truncated"
    BY <1>0, <1>3 DEF Crash
  <2>2. QED BY <1>3, <2>1 DEF Crash, Gone, disk, LinesInOrder, Up
<1>4. ASSUME UNCHANGED environment, Stop
      PROVE  LinesInOrder'
  <2>1. file' = file
    <3>1. file \o <<>> = file
      BY ConcatEmptySeq DEF Typed, TypeOK
    <3>2. QED BY <1>4, <3>1 DEF Stop, LinesInOrder
  <2>2. QED BY <1>4, <2>1 DEF Stop, Gone, LinesInOrder, Up
<1>5. /\ file \in Seq(Cells) /\ logged \in Seq(Alerts) /\ buffered = <<>>
      /\ cursor \in Nat /\ pendingEnd \in Nat /\ cursorFile \in Nat
      /\ \A a \in Alerts : Line(a) \in Seq(Cells) /\ <<>> \o Line(a) = Line(a)
      /\ \A a \in Alerts : file \o <<>> \o Line(a) = file \o Line(a)
      /\ file \o <<>> = file
  <2>1. file \in Seq(Cells) /\ logged \in Seq(Alerts) /\ buffered = <<>>
        /\ cursor \in Nat /\ pendingEnd \in Nat /\ cursorFile \in Nat
    BY DEF LinesInOrder, Typed, TypeOK
  <2>2. \A a \in Alerts : Line(a) \in Seq(Cells)
    BY LineFacts
  <2>3. file \o <<>> = file /\ \A a \in Alerts : <<>> \o Line(a) = Line(a)
    BY <2>1, <2>2, ConcatEmptySeq
  <2>4. \A a \in Alerts : file \o <<>> \o Line(a) = file \o Line(a)
    BY <2>3
  <2>5. QED BY <2>1, <2>2, <2>3, <2>4
<1>6. ASSUME UNCHANGED environment, NEW a \in Alerts, AppendLine(a)
      PROVE  LinesInOrder'
  <2>1. file' = file \o Line(a) /\ upc # "truncated" /\ Up
    BY <1>5, <1>6 DEF AppendLine, Offer, MutexFree
  <2>2. /\ logged' = Append(logged, a) /\ buffered' = <<>> /\ upc' = upc /\ batch' = batch
        /\ UNCHANGED <<cursorFile, cursor, pendingEnd>>
    BY <1>6 DEF AppendLine
  <2>3. QED BY <2>1, <2>2, AppendedInOrder
<1>7. ASSUME UNCHANGED environment, NEW a \in Alerts, AppendTorn(a)
      PROVE  LinesInOrder'
  <2>1. upc # "truncated" /\ Up /\ buffered' = <<>> /\ upc' = "down"
        /\ UNCHANGED <<cursorFile, cursor, pendingEnd>>
    BY <1>7 DEF AppendTorn, Offer, MutexFree
  <2>2. /\ file' = file \o SubSeq(Line(a), 1, Len(Line(a)))
        /\ logged' = Append(logged, a)
    BY <1>0, <1>5, <1>7 DEF AppendTorn
  <2>3. SubSeq(Line(a), 1, Len(Line(a))) = Line(a)
    BY <1>5, SubSeqFull
  <2>4. QED BY <2>1, <2>2, <2>3, AppendedInOrder
<1>8. ASSUME UNCHANGED environment, Pending
      PROVE  LinesInOrder'
  <2>1. /\ upc = "idle" /\ file' = file /\ buffered' = <<>>
        /\ UNCHANGED <<cursorFile, cursor, logged>>
        /\ pendingEnd' = ReadEnd(file, cursor)
        /\ batch' = AlertsBetween(file, cursor, pendingEnd')
        /\ upc' \in {"idle", "batch"}
    BY <1>5, <1>8 DEF Pending, history
  <2>2. cursor \in Bounds(file) /\ cursorFile \in Bounds(file) /\ cursorFile <= cursor
        /\ Shape(file, logged)
    BY <2>1 DEF LinesInOrder, Up
  <2>3. pendingEnd' \in {cursor} \cup Ends(file, cursor)
    BY <1>5, <2>1, ReadEndFacts
  <2>4. Ends(file, cursor) = After(file, cursor)
    BY <1>5, <2>2, WholeLine DEF Shape
  <2>5. pendingEnd' \in Bounds(file) /\ cursor <= pendingEnd'
    <3>1. \A i \in After(file, cursor) : i \in Bounds(file) /\ i \in Nat /\ cursor <= i
      <4>1. ASSUME NEW i \in After(file, cursor)
            PROVE  i \in Bounds(file) /\ i \in Nat /\ cursor <= i
        <5>1. i \in Newlines(file) /\ cursor < i
          BY DEF After
        <5>2. i \in Nat
          BY <1>5, <5>1, AfterFacts
        <5>3. QED BY <1>5, <5>1, <5>2 DEF Bounds
      <4>2. QED BY <4>1
    <3>2. cursor <= cursor
      BY <1>5
    <3>3. QED BY <2>2, <2>3, <2>4, <3>1, <3>2
  <2>6. batch' = Logged(file, logged, cursor, pendingEnd')
    BY <1>5, <2>1, <2>2, <2>5, Slice
  <2>7. QED BY <2>1, <2>2, <2>5, <2>6 DEF LinesInOrder, Up
<1>9. ASSUME UNCHANGED environment, DropBatch \/ PublishAccepted \/ PublishRefused
      PROVE  LinesInOrder'
  <2>1. /\ upc = "batch" /\ upc' \in {"mark", "idle"}
        /\ UNCHANGED <<file, cursorFile, buffered, cursor, pendingEnd, logged>>
    BY <1>9 DEF DropBatch, PublishAccepted, PublishRefused, disk, history
  <2>2. QED BY <2>1 DEF LinesInOrder, Up
<1>10. ASSUME UNCHANGED environment, MarkAdvance
       PROVE  LinesInOrder'
  <2>1. /\ upc = "mark" /\ upc' = "save" /\ cursor' = pendingEnd
        /\ UNCHANGED <<file, cursorFile, buffered, batch, logged>>
    BY <1>10 DEF MarkAdvance, disk, history
  <2>2. cursorFile <= cursor /\ cursor <= pendingEnd
    BY <2>1 DEF LinesInOrder, Up, Typed, CursorsLie
  <2>3. cursorFile <= pendingEnd
    BY <1>5, <2>2
  <2>4. QED BY <2>1, <2>3 DEF LinesInOrder, Up
<1>11. ASSUME UNCHANGED environment, MarkSave
       PROVE  LinesInOrder'
  <2>1. /\ upc = "save" /\ upc' = "compact" /\ cursorFile' = cursor
        /\ UNCHANGED <<file, cursor, buffered, pendingEnd, batch, logged>>
    BY <1>0, <1>11 DEF MarkSave, SaveCursor, history
  <2>2. cursor <= cursor
    BY <1>5
  <2>3. QED BY <2>1, <2>2 DEF LinesInOrder, Up
<1>12. ASSUME UNCHANGED environment, Compact
       PROVE  LinesInOrder'
  <2>1. /\ upc' = "truncated" /\ file' = <<>> /\ UNCHANGED <<buffered, logged>>
    BY <1>12 DEF Compact, history
  <2>2. Shape(<<>>, logged)
    BY <1>5, EmptyFile
  <2>3. QED BY <2>1, <2>2 DEF LinesInOrder, Up
<1>13. ASSUME UNCHANGED environment, KeepFile
       PROVE  LinesInOrder'
  <2>1. /\ upc = "compact" /\ upc' = "idle"
        /\ UNCHANGED <<file, cursorFile, cursor, buffered, pendingEnd, batch, logged>>
    BY <1>13 DEF KeepFile, disk, history
  <2>2. QED BY <2>1 DEF LinesInOrder, Up
<1>14. ASSUME UNCHANGED environment, CompactSave
       PROVE  LinesInOrder'
  <2>1. /\ upc = "truncated" /\ upc' = "idle" /\ cursorFile' = 0 /\ cursor' = 0
        /\ UNCHANGED <<file, buffered, pendingEnd, batch, logged>>
    BY <1>0, <1>14 DEF CompactSave, SaveCursor, history
  <2>2. 0 \in Bounds(file) /\ 0 <= 0
    BY DEF Bounds
  <2>3. QED BY <2>1, <2>2 DEF LinesInOrder, Up
\* What may fail in another environment.
<1>15. /\ ~PendingFails
       /\ \A a \in Alerts : ~AppendFails(a)
  BY <1>0 DEF PendingFails, AppendFails
<1>16. QED
  BY ONLY [Next]_vars, <1>1, <1>2, <1>3, <1>4, <1>6, <1>7, <1>8, <1>9, <1>10, <1>11,
          <1>12, <1>13, <1>14, <1>15 DEF Next, Uploader

-----------------------------------------------------------------------------
\* The queue is a durable FIFO.

\* How many alerts the uploader has before it.
Left == Cardinality(After(file, NextOffset))

NextKnown == Len(Remaining) = Left /\ Left \in 0..Len(logged) /\ Len(logged) \in Nat

LEMMA NextIs == Typed /\ LinesInOrder => NextKnown
<1>1. SUFFICES ASSUME Typed, LinesInOrder PROVE NextKnown
  OBVIOUS
<1>2. /\ file \in Seq(Cells) /\ logged \in Seq(Alerts) /\ Shape(file, logged)
      /\ cursor \in Nat /\ cursorFile \in Nat /\ pendingEnd \in Nat
  BY <1>1 DEF Typed, TypeOK, LinesInOrder
<1>3. NextOffset \in Nat /\ (NextOffset \in Bounds(file) \/ file = <<>>)
  <2>1. CASE ~Up
    <3>1. cursorFile \in Bounds(file)
      BY <1>1, <2>1 DEF LinesInOrder
    <3>2. cursorFile <= Len(file) /\ Len(file) \in Nat
      BY <1>2, <3>1, AfterFacts DEF Bounds
    <3>3. NextOffset = cursorFile
      BY <1>2, <2>1, <3>2 DEF NextOffset, StartCursor, Up
    <3>4. QED BY <1>2, <3>1, <3>3
  <2>2. CASE upc = "mark"
    <3>1. NextOffset = pendingEnd
      BY <2>2 DEF NextOffset, Up
    <3>2. QED BY <1>1, <1>2, <2>2, <3>1 DEF LinesInOrder
  <2>3. CASE Up /\ upc # "mark"
    <3>1. NextOffset = cursor
      BY <2>3 DEF NextOffset
    <3>2. QED BY <1>1, <1>2, <2>3, <3>1 DEF LinesInOrder, Typed, CursorsLie
  <2>4. QED BY <2>1, <2>2, <2>3
<1>4. Len(Remaining) = Left /\ Left \in 0..Len(logged)
  BY <1>2, <1>3, LeftOver DEF Remaining, Left
<1>5. QED BY <1>2, <1>4 DEF NextKnown

LEMMA Stutters ==
    ASSUME NextKnown, NextKnown', UNCHANGED <<logged, uploaded>>, Left' = Left
    PROVE  UNCHANGED Fifo!fifoVars
<1>1. Len(Remaining)' = Len(Remaining)
  BY DEF NextKnown
<1>2. QED BY <1>1 DEF Fifo!fifoVars

\* Nothing that was logged is passed over.
LEMMA GoesBack ==
    ASSUME NextKnown, NextKnown', UNCHANGED uploaded,
           \/ logged' = logged /\ Left <= Left'
           \/ \E a \in Alerts : logged' = Append(logged, a) /\ Left + 1 <= Left',
           logged \in Seq(Alerts)
    PROVE  Fifo!FifoNext
<1> DEFINE now  == Len(logged) - Len(Remaining)
           then == Len(logged') - Len(Remaining')
<1>1. logged' \in {logged} \cup {Append(logged, a) : a \in Alerts}
  OBVIOUS
<1>2. then \in 0..now
  <2>1. /\ Len(Remaining) = Left /\ Left \in 0..Len(logged) /\ Len(logged) \in Nat
        /\ Len(Remaining') = Left' /\ Left' \in 0..Len(logged')
        /\ Len(logged') \in Nat
    BY DEF NextKnown
  <2>2. \/ Len(logged') = Len(logged) /\ Left <= Left'
        \/ Len(logged') = Len(logged) + 1 /\ Left + 1 <= Left'
    OBVIOUS
  <2> DEFINE x == Left
             y == Left'
             n == Len(logged)
             m == Len(logged')
  <2>3. /\ x \in 0..n /\ n \in Nat /\ y \in 0..m /\ m \in Nat
        /\ (m = n /\ x <= y) \/ (m = n + 1 /\ x + 1 <= y)
        /\ now = n - x /\ then = m - y
    BY <2>1, <2>2
  <2> HIDE DEF x, y, n, m, now, then
  <2>4. QED BY ONLY <2>3
<1>3. Fifo!GoBack(then)
  BY <1>1 DEF Fifo!GoBack
<1>4. QED BY <1>2, <1>3 DEF Fifo!FifoNext

LEMMA FifoStep ==
    ASSUME Typed, LinesInOrder, NextKnown, LinesInOrder', NextKnown', Calm, [Next]_vars
    PROVE  [Fifo!FifoNext]_Fifo!fifoVars
<1>0. /\ file \in Seq(Cells) /\ logged \in Seq(Alerts) /\ uploaded \in Seq(Alerts)
      /\ cursor \in Nat /\ cursorFile \in Nat /\ pendingEnd \in Nat
      /\ batch \in Seq(Alerts) /\ Len(batch) \in 0..MaxBatch
      /\ Len(file) \in Nat
  BY QueueAssumption DEF Typed, TypeOK
\* Every cursor lies in the file, the saved one behind the others.
<1>1. upc # "truncated" =>
         /\ cursorFile \in 0..Len(file) /\ NextOffset \in 0..Len(file)
         /\ cursorFile <= NextOffset /\ StartCursor = cursorFile
  <2>1. SUFFICES ASSUME upc # "truncated"
                 PROVE  /\ cursorFile \in 0..Len(file) /\ NextOffset \in 0..Len(file)
                        /\ cursorFile <= NextOffset /\ StartCursor = cursorFile
    OBVIOUS
  <2>2. cursorFile \in Bounds(file)
    BY <2>1 DEF LinesInOrder
  <2>3. cursorFile \in 0..Len(file)
    BY <1>0, <2>2, AfterFacts DEF Bounds
  <2>4. StartCursor = cursorFile
    BY <1>0, <2>3 DEF StartCursor
  <2>5. CASE ~Up
    BY <1>0, <2>3, <2>4, <2>5 DEF NextOffset, Up
  <2>6. CASE upc = "mark"
    <3>1. cursorFile <= cursor /\ cursor <= pendingEnd /\ pendingEnd <= Len(file)
      BY <2>6 DEF LinesInOrder, Typed, CursorsLie, Up
    <3>2. NextOffset = pendingEnd
      BY <2>6 DEF NextOffset, Up
    <3>3. QED BY <1>0, <2>3, <2>4, <3>1, <3>2
  <2>7. CASE Up /\ upc # "mark"
    <3>1. cursorFile <= cursor /\ cursor <= Len(file)
      BY <2>1, <2>7 DEF LinesInOrder, Typed, CursorsLie
    <3>2. NextOffset = cursor
      BY <2>7 DEF NextOffset
    <3>3. QED BY <1>0, <2>3, <2>4, <3>1, <3>2
  <2>8. QED BY <2>5, <2>6, <2>7
<1>2. CASE UNCHANGED vars
  <2>1. UNCHANGED <<file, cursorFile, cursor, pendingEnd, upc, logged, uploaded>>
    BY <1>2 DEF vars, queue, disk, memory, history
  <2>2. Left' = Left
    BY <2>1 DEF Left, NextOffset, StartCursor, Up
  <2>3. QED BY <2>1, <2>2, Stutters
<1>3. ASSUME UNCHANGED environment, Open
      PROVE  UNCHANGED Fifo!fifoVars
  <2>1. /\ UNCHANGED <<file, logged, uploaded>> /\ ~Up /\ upc' = "idle"
        /\ cursor' = StartCursor
    BY <1>3 DEF Open, disk
  <2>2. NextOffset' = NextOffset
    BY <2>1 DEF NextOffset, Up
  <2>3. Left' = Left
    BY <2>1, <2>2 DEF Left
  <2>4. QED BY <2>1, <2>3, Stutters
\* A process that ends leaves the saved cursor.
<1>4. ASSUME UNCHANGED environment, Crash \/ Stop
      PROVE  Fifo!FifoNext
  <2>1. /\ upc # "truncated" /\ upc' = "down" /\ file' = file
        /\ UNCHANGED <<cursorFile, logged, uploaded>>
    <3>1. CASE Crash
      BY <1>4, <3>1 DEF Crash, Gone, disk, Calm
    <3>2. CASE Stop
      <4>1. file \o <<>> = file
        BY <1>0, ConcatEmptySeq
      <4>2. QED BY <1>4, <3>2, <4>1 DEF Stop, Gone, LinesInOrder
    <3>3. QED BY <1>4, <3>1, <3>2
  <2>2. NextOffset' = cursorFile
    BY <1>1, <2>1 DEF NextOffset, Up, StartCursor
  <2>3. Left <= Left'
    <3>1. Cardinality(After(file, NextOffset)) <= Cardinality(After(file, cursorFile))
      BY <1>0, <1>1, <2>1, AfterFacts
    <3>2. QED BY <2>1, <2>2, <3>1 DEF Left
  <2>4. QED BY <1>0, <2>1, <2>3, GoesBack
<1>5. ASSUME UNCHANGED environment, NEW a \in Alerts, AppendLine(a)
      PROVE  Fifo!FifoNext
  <2>1. /\ upc # "truncated" /\ upc' = upc /\ Up /\ file' = file \o Line(a)
        /\ logged' = Append(logged, a)
        /\ UNCHANGED <<cursorFile, cursor, pendingEnd, uploaded>>
    <3>1. file \o <<>> \o Line(a) = file \o Line(a)
      BY <1>0, ConcatEmptySeq
    <3>2. QED BY <1>5, <3>1 DEF AppendLine, Offer, MutexFree, LinesInOrder
  <2>2. NextOffset' = NextOffset
    BY <2>1 DEF NextOffset, Up
  <2>3. Left' = Left + 1
    <3>1. Cardinality(After(file \o Line(a), NextOffset)) = Cardinality(After(file, NextOffset)) + 1
      BY <1>0, <1>1, <2>1, LineAppended DEF LinesInOrder
    <3>2. QED BY <2>1, <2>2, <3>1 DEF Left
  <2>4. Len(logged') - Len(Remaining') = Len(logged) - Len(Remaining)
    <3>1. Len(logged') = Len(logged) + 1 /\ Len(logged) \in Nat
      BY <1>0, <2>1
    <3>2. Len(Remaining') = Len(Remaining) + 1 /\ Len(Remaining) \in Nat
      BY <2>3 DEF NextKnown
    <3>3. QED BY ONLY <3>1, <3>2
  <2>5. Fifo!LogOne(a)
    BY <2>1, <2>4 DEF Fifo!LogOne
  <2>6. QED BY <2>5 DEF Fifo!FifoNext
<1>6. ASSUME UNCHANGED environment, NEW a \in Alerts, AppendTorn(a)
      PROVE  Fifo!FifoNext
  <2>1. /\ upc # "truncated" /\ upc' = "down" /\ UNCHANGED <<cursorFile, uploaded>>
    BY <1>6 DEF AppendTorn, Offer, MutexFree
  <2>2. file' = file \o Line(a) /\ logged' = Append(logged, a)
    <3>1. buffered \o Line(a) = Line(a) /\ SubSeq(Line(a), 1, Len(Line(a))) = Line(a)
      BY LineFacts, ConcatEmptySeq, SubSeqFull DEF LinesInOrder
    <3>2. QED BY <1>6, <3>1 DEF AppendTorn, Calm
  <2>3. /\ NextOffset' = cursorFile
    <3>1. Len(file') \in Nat /\ Len(file) <= Len(file')
      BY <1>0, <2>2, LineFacts
    <3>2. ~(cursorFile > Len(file'))
      BY <1>0, <1>1, <2>1, <3>1
    <3>3. QED BY <2>1, <3>2 DEF NextOffset, Up, StartCursor
  <2>4. Left + 1 <= Left'
    <3>1. Cardinality(After(file \o Line(a), cursorFile)) = Cardinality(After(file, cursorFile)) + 1
      BY <1>0, <1>1, <2>1, LineAppended DEF LinesInOrder
    <3>2. /\ Cardinality(After(file, NextOffset)) <= Cardinality(After(file, cursorFile))
          /\ Cardinality(After(file, NextOffset)) \in Nat
          /\ Cardinality(After(file, cursorFile)) \in Nat
      BY <1>0, <1>1, <2>1, AfterFacts
    <3>3. Left' = Cardinality(After(file \o Line(a), cursorFile))
      BY <2>2, <2>3 DEF Left
    <3>4. Cardinality(After(file, NextOffset)) + 1 <= Cardinality(After(file \o Line(a), cursorFile))
      BY ONLY <3>1, <3>2
    <3>5. QED BY ONLY <3>3, <3>4 DEF Left
  <2>5. QED BY <1>0, <2>1, <2>2, <2>4, GoesBack
<1>7. ASSUME UNCHANGED environment, Pending \/ PublishRefused \/ MarkAdvance \/ MarkSave \/ KeepFile
      PROVE  UNCHANGED Fifo!fifoVars
  <2>1. file' = file /\ UNCHANGED <<logged, uploaded>>
    <3>1. file \o <<>> = file /\ buffered = <<>>
      BY <1>0, ConcatEmptySeq DEF LinesInOrder
    <3>2. QED
      BY <1>7, <3>1 DEF Pending, PublishRefused, MarkAdvance, MarkSave, KeepFile, disk, history
  <2>2. NextOffset' = NextOffset
    BY <1>7 DEF Pending, PublishRefused, MarkAdvance, MarkSave, KeepFile, NextOffset, Up
  <2>3. Left' = Left
    BY <2>1, <2>2 DEF Left
  <2>4. QED BY <2>1, <2>3, Stutters
\* Of an empty file nothing is left, and nothing of one that is read to its end.
<1>8. ASSUME UNCHANGED environment, Compact \/ CompactSave
      PROVE  UNCHANGED Fifo!fifoVars
  <2>1. UNCHANGED <<logged, uploaded>> /\ file' = <<>>
    <3>1. CASE Compact
      BY <1>8, <3>1 DEF Compact, history
    <3>2. CASE CompactSave
      BY <1>8, <3>2 DEF CompactSave, history, Typed, CursorsLie
    <3>3. QED BY <1>8, <3>1, <3>2
  <2>2. Newlines(<<>>) = {}
    BY <1>0, EmptyFile
  <2>3. \A c : Cardinality(After(<<>>, c)) = 0
    <3>1. \A c : After(<<>>, c) = {}
      BY <2>2 DEF After
    <3>2. QED BY <3>1, FS_EmptySet
  <2>4. Left' = 0
    BY <2>1, <2>3 DEF Left
  <2>5. Left = 0
    <3>1. CASE Compact
      <4>1. NextOffset = Len(file)
        BY <3>1 DEF Compact, Drained, NextOffset, Up
      <4>2. \A i \in Newlines(file) : i \in Nat /\ i <= Len(file)
        BY <1>0, AfterFacts
      <4>3. After(file, Len(file)) = {}
        <5>1. \A i \in Newlines(file) : ~(Len(file) < i)
          BY <1>0, <4>2
        <5>2. QED BY <5>1 DEF After
      <4>4. QED BY <4>1, <4>3, FS_EmptySet DEF Left
    <3>2. CASE CompactSave
      <4>1. file = <<>>
        BY <3>2 DEF CompactSave, Typed, CursorsLie
      <4>2. QED BY <2>3, <4>1 DEF Left
    <3>3. QED BY <1>8, <3>1, <3>2
  <2>6. QED BY <2>1, <2>4, <2>5, Stutters
\* A batch is what was logged from the cursor on.
<1>9. ASSUME upc = "batch"
      PROVE  LET from == Len(logged) - Left
                 left == Cardinality(After(file, pendingEnd)) IN
             /\ NextOffset = cursor /\ left \in 0..Left /\ Len(batch) = Left - left
             /\ batch = SubSeq(logged, from + 1, from + Len(batch))
  <2> DEFINE from == Len(logged) - Left
             left == Cardinality(After(file, pendingEnd))
  <2>1. NextOffset = cursor
    BY <1>9 DEF NextOffset, Up
  <2>2. /\ cursor \in Bounds(file) /\ pendingEnd \in Bounds(file) /\ cursor <= pendingEnd
        /\ Shape(file, logged) /\ batch = Logged(file, logged, cursor, pendingEnd)
    BY <1>9 DEF LinesInOrder, Up, Typed, CursorsLie
  <2>3. /\ left \in Nat /\ Left \in Nat /\ left <= Left /\ Left <= Len(logged)
        /\ Len(logged) \in Nat
    BY <1>0, <2>1, <2>2, Slice DEF Left
  <2>4. batch = [n \in 1..(Left - left) |-> logged[Len(logged) - Left + n]]
    BY <2>1, <2>2 DEF Logged, Left
  <2> HIDE DEF left
  <2>5. Len(batch) = Left - left
    BY <2>3, <2>4
  <2>6. from \in Nat /\ from + (Left - left) \in 0..Len(logged)
    <3> HIDE DEF Left
    <3>1. QED BY ONLY <2>3
  <2>7. batch = SubSeq(logged, from + 1, from + (Left - left))
    <3> DEFINE part == SubSeq(logged, from + 1, from + (Left - left))
               m == Left - left
    <3>1. m \in Nat
      BY <2>3
    <3>2. part \in Seq(Alerts) /\ Len(part) = m /\ \A n \in 1..m : part[n] = logged[from + n]
      <4> HIDE DEF Left, from
      <4>1. from + 1 \in 1..(Len(logged) + 1) /\ from + m \in from..Len(logged)
        BY <1>0, <2>3, <2>6, <3>1
      <4>2. /\ part \in Seq(Alerts) /\ Len(part) = from + m - (from + 1) + 1
            /\ \A n \in 1..(from + m - (from + 1) + 1) : part[n] = logged[from + 1 + n - 1]
        <5> HIDE DEF m
        <5>1. from + m - (from + 1) + 1 \in Nat
          BY <2>6, <3>1
        <5>2. QED BY <1>0, <2>3, <2>6, <3>1, <4>1 DEF m
      <4>3. from + m - (from + 1) + 1 = m /\ \A n \in 1..m : from + 1 + n - 1 = from + n
        <5> HIDE DEF m
        <5>1. QED BY <2>6, <3>1
      <4> HIDE DEF m, part
      <4>4. QED BY ONLY <4>2, <4>3
    <3>3. Len(batch) = m /\ \A n \in 1..m : batch[n] = logged[from + n]
      BY <2>4, <2>5
    <3> HIDE DEF m, part
    <3>4. \A n \in 1..Len(batch) : batch[n] = part[n]
      BY <3>2, <3>3
    <3>5. batch = part
      BY <1>0, <3>2, <3>3, <3>4, SeqEqual
    <3>6. QED BY <3>5 DEF part
  <2>8. QED BY <2>1, <2>3, <2>5, <2>7 DEF left
<1>10. ASSUME UNCHANGED environment, DropBatch
       PROVE  UNCHANGED Fifo!fifoVars
  <2>1. /\ UNCHANGED <<file, logged, uploaded, pendingEnd>>
        /\ upc = "batch" /\ batch = <<>> /\ upc' = "mark"
    BY <1>10 DEF DropBatch, disk, history
  <2>2. NextOffset' = pendingEnd
    BY <2>1 DEF NextOffset, Up
  <2>3. Cardinality(After(file, pendingEnd)) = Left
    <3>1. Len(batch) = 0 /\ Len(batch) = Left - Cardinality(After(file, pendingEnd))
          /\ Left \in Nat /\ Cardinality(After(file, pendingEnd)) \in 0..Left
      BY <1>9, <2>1 DEF NextKnown
    <3>2. QED BY <3>1
  <2>4. Left' = Left
    BY <2>1, <2>2, <2>3 DEF Left
  <2>5. QED BY <2>1, <2>4, Stutters
<1>11. ASSUME UNCHANGED environment, PublishAccepted
       PROVE  Fifo!FifoNext
  <2> DEFINE n == Len(batch)
             from == Len(logged) - Len(Remaining)
             left == Cardinality(After(file, pendingEnd))
  <2>1. /\ UNCHANGED <<file, logged, pendingEnd>> /\ uploaded' = uploaded \o batch
        /\ upc = "batch" /\ batch # <<>> /\ upc' = "mark"
    BY <1>11 DEF PublishAccepted, disk
  <2>2. /\ Len(Remaining) = Left /\ left \in 0..Left /\ n = Left - left
        /\ batch = SubSeq(logged, from + 1, from + n)
        /\ Left \in 0..Len(logged) /\ Len(logged) \in Nat
    BY <1>9, <2>1 DEF NextKnown
  <2>3. n \in 1..MaxBatch
    BY <1>0, <2>1, QueueAssumption
  <2>4. Len(Remaining') = left
    <3>1. NextOffset' = pendingEnd
      BY <2>1 DEF NextOffset, Up
    <3>2. Left' = left
      BY <2>1, <3>1 DEF Left
    <3>3. QED BY <3>2 DEF NextKnown
  <2>5. from + n <= Len(logged) /\ Len(logged) - left = from + n
    <3> HIDE DEF n, left, Left
    <3>1. from = Len(logged) - Left
      BY <2>2
    <3>2. QED BY ONLY <2>2, <3>1
  <2>6. Fifo!Hand(n)
    <3>1. Len(logged') - Len(Remaining') = from + n
      BY <2>1, <2>4, <2>5
    <3>2. logged' = logged /\ uploaded' = uploaded \o SubSeq(logged, from + 1, from + n)
      BY <2>1, <2>2
    <3>3. QED BY <2>5, <3>1, <3>2 DEF Fifo!Hand
  <2>7. QED BY <2>3, <2>6 DEF Fifo!FifoNext
<1>12. ~PendingFails /\ \A a \in Alerts : ~AppendFails(a)
  BY DEF Calm, PendingFails, AppendFails
<1>13. QED
  BY ONLY [Next]_vars, <1>2, <1>3, <1>4, <1>5, <1>6, <1>7, <1>8, <1>10, <1>11, <1>12
  DEF Next, Uploader

\* In a calm environment the lines are always in order.
Refined == Typed /\ (Calm => LinesInOrder)

\* Over crashes and restarts, with appends between any two steps of the uploader, the
\* queue of alert_queue.cpp is the durable FIFO its header promises to be.
THEOREM FifoImplemented == Spec => ImplementsFifo
<1>1. Init => Refined
  BY TypedInit, InOrderInit DEF Refined
<1>2. Refined /\ [Next]_vars => Refined'
  <2>1. SUFFICES ASSUME Refined, [Next]_vars PROVE Refined'
    OBVIOUS
  <2>2. Calm' = Calm
    BY <2>1 DEF Next, vars, Calm
  <2>3. QED BY <2>1, <2>2, TypedStep, InOrderStep DEF Refined
<1>3. (Typed /\ LinesInOrder => NextKnown)'
  BY NextIs, PTL
<1>4. Refined /\ Refined' /\ [Next]_vars => [Calm => Fifo!FifoNext]_Fifo!fifoVars
  <2>1. SUFFICES ASSUME Refined, Refined', [Next]_vars, Calm
                 PROVE  [Fifo!FifoNext]_Fifo!fifoVars
    OBVIOUS
  <2>2. Calm'
    BY <2>1 DEF Next, vars, Calm
  <2>3. Typed /\ LinesInOrder /\ NextKnown /\ LinesInOrder' /\ NextKnown'
    BY <1>3, <2>1, <2>2, NextIs DEF Refined
  <2>4. QED BY <2>1, <2>3, FifoStep
<1>5. Init => (Calm => Fifo!FifoInit)
  <2>1. SUFFICES ASSUME Init PROVE Fifo!FifoInit
    OBVIOUS
  <2>2. Typed /\ LinesInOrder
    BY <2>1, TypedInit, InOrderInit
  <2>3. NextKnown
    BY <2>2, NextIs
  <2>4. Len(logged) - Len(Remaining) = 0
    <3>1. Len(logged) = 0
      BY <2>1 DEF Init
    <3>2. /\ Len(Remaining) = Left /\ Left \in 0..Len(logged)
      BY <2>3 DEF NextKnown
    <3> HIDE DEF Left
    <3>3. Left = 0
      BY <3>1, <3>2
    <3>4. QED BY <3>1, <3>2, <3>3
  <2>5. QED BY <2>1, <2>4 DEF Init, Fifo!FifoInit
<1>6. QED BY <1>1, <1>2, <1>4, <1>5, PTL DEF Spec, ImplementsFifo
=============================================================================
