------------------------- MODULE ProbeFloods_proofs -------------------------
(***************************************************************************)
(* The windowed alerts of the three probes: a flood is alerted, and what   *)
(* is alerted was a flood (FloodsAlerted), for every traffic, every limit  *)
(* and every width of the windows.                                         *)
(*                                                                         *)
(* First one window of one detector, given pairs of a time and a thing     *)
(* that counts (Watching); then every window of every probe, which has     *)
(* watched over the traffic that counts in it (FloodInv).                  *)
(*                                                                         *)
(* And the types of the three probes (ProbesTypeOK), with what they say of *)
(* the table of security events, for each alert is of an event of it.      *)
(***************************************************************************)
EXTENDS Probes_proofs

-----------------------------------------------------------------------------
\* One window of one detector and one key.  What it was given are pairs of a time and
\* the thing that the limit counts; it was alerted at some of these times.

Since(came, start) == {c[2] : c \in {d \in came : d[1] >= start}}
Between(came, from, to) == {c[2] : c \in {d \in came : from <= d[1] /\ d[1] < to}}
Within(came, t, width) == {c[2] : c \in {d \in came : d[1] <= t /\ t - d[1] < width}}

Noticed(came, rang, width, limit) ==
    \A c \in came : Cardinality(Within(came, c[1], width)) >= 2 * limit - 1 =>
        \E a \in rang : a <= c[1] /\ c[1] - a < 2 * width
Real(came, rang, width, limit) ==
    \A a \in rang : Cardinality(Within(came, a, width)) >= limit

\* What came before the window fell within one width of an earlier start, and was
\* alerted if it reached the limit.
Prior(came, rang, width, limit, start) ==
    \E s \in Int :
        /\ s + width <= start
        /\ \A c \in came : c[1] < start => c[1] < s + width
        /\ limit > 0 /\ Cardinality(Between(came, s, start)) >= limit => \E a \in rang : a >= s

\* What has come when one more input has.
Grown(came, now, thing) == came \cup {<<now, thing>>}

\* The history of a key, at these times of the traffic.
History(came, rang, times) ==
    /\ IsFiniteSet(came) /\ times \subseteq Int
    /\ \A c \in came : c[1] \in times
    /\ \A a \in rang : \E c \in came : c[1] = a

\* A window that has this start, has counted n and has raised its alert or not.
Window(came, rang, width, limit, start, n, alerted) ==
    /\ n = Cardinality(Since(came, start))
    /\ alerted <=> (n > 0 /\ n >= limit)
    /\ \A c \in came : c[1] < start + width
    /\ alerted => \E a \in rang : a >= start

Watching(came, rang, times, width, limit, unset, start, n, alerted) ==
    /\ History(came, rang, times)
    /\ start = unset => came = {}
    /\ start = unset \/ start \in times
    /\ Window(came, rang, width, limit, start, n, alerted)
    /\ Prior(came, rang, width, limit, start)
    /\ Noticed(came, rang, width, limit) /\ Real(came, rang, width, limit)

\* What is told apart in some of the traffic is finite.
LEMMA ThingsFinite ==
    ASSUME NEW came, IsFiniteSet(came), NEW part, part \subseteq came
    PROVE  /\ IsFiniteSet({c[2] : c \in part}) /\ Cardinality({c[2] : c \in part}) \in Nat
           /\ \A T : T \subseteq {c[2] : c \in part} =>
                    IsFiniteSet(T) /\ Cardinality(T) \in Nat /\ Cardinality(T) <= Cardinality({c[2] : c \in part})
<1>1. IsFiniteSet(part)
  BY FS_Subset
<1>2. IsFiniteSet({c[2] : c \in part})
  <2> DEFINE f == [c \in part |-> c[2]]
  <2>1. f \in Surjection(part, {c[2] : c \in part})
    BY DEF Surjection
  <2>2. QED BY <1>1, <2>1, FS_Surjection
<1>3. QED BY <1>2, FS_Subset, FS_CardinalityType

\* What came since a time, told apart, is finite.
LEMMA SinceFinite ==
    ASSUME NEW came, IsFiniteSet(came), NEW start
    PROVE  /\ IsFiniteSet(Since(came, start)) /\ Cardinality(Since(came, start)) \in Nat
           /\ \A T : T \subseteq Since(came, start) =>
                    IsFiniteSet(T) /\ Cardinality(T) \in Nat /\ Cardinality(T) <= Cardinality(Since(came, start))
<1> DEFINE part == {d \in came : d[1] >= start}
<1>1. part \subseteq came
  OBVIOUS
<1>2. QED BY ThingsFinite, <1>1 DEF Since

\* So is what came between two times.
LEMMA BetweenFinite ==
    ASSUME NEW came, IsFiniteSet(came), NEW from, NEW to
    PROVE  IsFiniteSet(Between(came, from, to)) /\ Cardinality(Between(came, from, to)) \in Nat
<1> DEFINE part == {d \in came : from <= d[1] /\ d[1] < to}
<1>1. part \subseteq came
  OBVIOUS
<1>2. QED BY ThingsFinite, <1>1 DEF Between

\* And what came within a width.
LEMMA WithinFinite ==
    ASSUME NEW came, IsFiniteSet(came), NEW t, NEW width
    PROVE  /\ IsFiniteSet(Within(came, t, width)) /\ Cardinality(Within(came, t, width)) \in Nat
           /\ \A T : T \subseteq Within(came, t, width) =>
                    IsFiniteSet(T) /\ Cardinality(T) \in Nat /\ Cardinality(T) <= Cardinality(Within(came, t, width))
<1> DEFINE part == {d \in came : d[1] <= t /\ t - d[1] < width}
<1>1. part \subseteq came
  OBVIOUS
<1>2. QED BY ThingsFinite, <1>1 DEF Within

\* What one more input adds.
LEMMA OneAdded ==
    ASSUME NEW came, NEW now, NEW thing
    PROVE  /\ \A c \in Grown(came, now, thing) : c \in came \/ (c[1] = now /\ c[2] = thing)
           /\ came \subseteq Grown(came, now, thing)
           /\ \E c \in Grown(came, now, thing) : c[1] = now /\ c[2] = thing
<1>1. <<now, thing>>[1] = now /\ <<now, thing>>[2] = thing
  OBVIOUS
<1>2. ASSUME NEW c \in Grown(came, now, thing), c \notin came
      PROVE  c[1] = now /\ c[2] = thing
  <2>1. c = <<now, thing>>
    BY <1>2 DEF Grown
  <2>2. QED BY <2>1
<1>3. QED BY <1>1, <1>2 DEF Grown

\* Opened: a window that is not open is opened, one that is over begins anew.
Reopened(unset, now, width, start, n, alerted, start1, n1, alerted1) ==
    \/ start = unset /\ start1 = now /\ n1 = n /\ alerted1 = alerted
    \/ start # unset /\ Elapsed(start, now, width) /\ start1 = now /\ n1 = 0 /\ alerted1 = FALSE
    \/ start # unset /\ ~Elapsed(start, now, width) /\ start1 = start /\ n1 = n /\ alerted1 = alerted

\* A window that has watched has watched when it was opened, or began anew.
LEMMA OpenedWatches ==
    ASSUME NEW came, NEW rang, NEW times, NEW width \in Nat \ {0}, NEW limit \in Nat,
           NEW unset \in Int, NEW start \in Int, NEW n, NEW alerted \in BOOLEAN, NEW now \in Int,
           Watching(came, rang, times, width, limit, unset, start, n, alerted),
           \A t \in times : t <= now, now # unset \/ came = {},
           NEW start1, NEW n1, NEW alerted1 \in BOOLEAN,
           Reopened(unset, now, width, start, n, alerted, start1, n1, alerted1)
    PROVE  /\ Watching(came, rang, times \cup {now}, width, limit, unset, start1, n1, alerted1)
           /\ start1 \in Int /\ start1 <= now /\ now < start1 + width
           /\ now # unset => start1 # unset
<1>1. History(came, rang, times \cup {now})
  BY DEF Watching, History
<1>2. /\ IsFiniteSet(came) /\ \A c \in came : c[1] \in Int /\ c[1] <= now
      /\ \A a \in rang : a \in Int /\ a <= now
  BY DEF Watching, History
<1>3. Noticed(came, rang, width, limit) /\ Real(came, rang, width, limit)
  BY DEF Watching
<1>4. CASE start = unset /\ start1 = now /\ n1 = n /\ alerted1 = alerted
  <2>1. came = {}
    BY <1>4 DEF Watching
  <2>2. \A s : Since(came, s) = {} /\ \A r : Between(came, r, s) = {}
    BY <2>1 DEF Since, Between
  <2>3. n = 0
    BY <2>2, FS_EmptySet DEF Watching, Window
  <2>4. ~alerted
    BY <2>3 DEF Watching, Window
  <2>6. Since(came, start1) = {}
    BY <2>2
  <2>7. n1 = Cardinality(Since(came, start1)) /\ n1 = 0
    BY <1>4, <2>3, <2>6, FS_EmptySet
  <2>8. Window(came, rang, width, limit, start1, n1, alerted1)
    BY <1>4, <2>1, <2>4, <2>7 DEF Window
  <2>5. Prior(came, rang, width, limit, start1)
    <3>1. now - width \in Int /\ (now - width) + width <= start1
      BY <1>4
    <3>2. ~(limit > 0 /\ Cardinality(Between(came, now - width, start1)) >= limit)
      BY <2>2, FS_EmptySet
    <3>3. QED BY <3>1, <3>2, <2>1 DEF Prior
  <2>9. QED BY <1>1, <1>3, <1>4, <2>1, <2>8, <2>5 DEF Watching
<1>10. start # unset => start <= now
  BY DEF Watching
<1>5. CASE start # unset /\ Elapsed(start, now, width) /\ start1 = now /\ n1 = 0 /\ alerted1 = FALSE
  <2>10. now - start >= width
    BY <1>5, <1>10 DEF Elapsed
  <2>1. \A c \in came : c[1] < start + width /\ c[1] < now
    BY <1>5, <1>2, <2>10 DEF Watching, Window
  <2>2. Since(came, now) = {}
    BY <2>1, <1>2 DEF Since
  <2>7. n1 = Cardinality(Since(came, start1)) /\ n1 = 0
    BY <1>5, <2>2, FS_EmptySet
  <2>8. \A c \in came : c[1] < start1 + width
    BY <1>5, <2>1, <1>2
  <2>3. Window(came, rang, width, limit, start1, n1, alerted1)
    BY <1>5, <2>7, <2>8 DEF Window
  <2>4. Prior(came, rang, width, limit, start1)
    <3>1. Between(came, start, now) = Since(came, start)
      BY <2>1, <1>2 DEF Between, Since
    <3>6. Cardinality(Between(came, start, now)) \in Nat /\ Cardinality(Between(came, start, now)) = n
      BY <3>1, SinceFinite, <1>2 DEF Watching, Window
    <3>7. alerted <=> (n > 0 /\ n >= limit)
      BY DEF Watching, Window
    <3>2. limit > 0 /\ Cardinality(Between(came, start, now)) >= limit => alerted
      BY <3>6, <3>7
    <3>3. limit > 0 /\ Cardinality(Between(came, start, now)) >= limit => \E a \in rang : a >= start
      BY <3>2 DEF Watching, Window
    <3>4. start + width <= now
      BY <2>10
    <3>5. QED BY <1>5, <3>3, <3>4, <2>1 DEF Prior
  <2>5. now # unset \/ came = {}
    OBVIOUS
  <2>6. QED BY <1>1, <1>3, <1>5, <2>3, <2>4, <2>5 DEF Watching
<1>6. CASE start # unset /\ ~Elapsed(start, now, width) /\ start1 = start /\ n1 = n /\ alerted1 = alerted
  <2>1. start \in times /\ start <= now /\ now - start < width
    BY <1>6, <1>10 DEF Watching, Elapsed
  <2>2. QED BY <1>1, <1>3, <1>6, <2>1 DEF Watching
<1>7. QED BY <1>4, <1>5, <1>6 DEF Reopened

\* The traffic before an input was noticed and alerted without it.
LEMMA EarlierTimes ==
    ASSUME NEW came, \A c \in came : c[1] \in Int, NEW now \in Int, NEW thing, NEW width \in Nat
    PROVE  /\ \A t \in Int : t < now =>
                Within(Grown(came, now, thing), t, width) = Within(came, t, width)
           /\ \A t : Within(came, t, width) \subseteq Within(Grown(came, now, thing), t, width)
BY DEF Within, Grown

\* An input is counted in the window that is open.
CountedIn(came, rang, times, width, limit, unset, start, n, alerted, now, thing, came1, rang1, n1, alerted1) ==
    /\ width \in Nat \ {0} /\ limit \in Nat /\ unset \in Int /\ start \in Int
    /\ {alerted, alerted1} \subseteq BOOLEAN
    /\ now \in times /\ \A t \in times : t <= now
    /\ Watching(came, rang, times, width, limit, unset, start, n, alerted)
    /\ start # unset /\ start <= now /\ now < start + width
    /\ came1 = Grown(came, now, thing) /\ n1 = Cardinality(Since(came1, start))
    /\ alerted1 <=> (alerted \/ n1 >= limit)
    /\ rang1 = IF alerted1 /\ ~alerted THEN rang \cup {now} ELSE rang

\* The window that it falls in, and the one before, tell of every flood that it ends.
LEMMA CountedWatches ==
    ASSUME NEW came, NEW rang, NEW times, NEW width, NEW limit, NEW unset, NEW start, NEW n,
           NEW alerted, NEW now, NEW thing, NEW came1, NEW rang1, NEW n1, NEW alerted1,
           CountedIn(came, rang, times, width, limit, unset, start, n, alerted, now, thing,
                     came1, rang1, n1, alerted1)
    PROVE  Watching(came1, rang1, times, width, limit, unset, start, n1, alerted1)
<1>0. /\ width \in Nat \ {0} /\ limit \in Nat /\ unset \in Int /\ start \in Int
      /\ alerted \in BOOLEAN /\ alerted1 \in BOOLEAN
      /\ now \in times /\ \A t \in times : t <= now
      /\ Watching(came, rang, times, width, limit, unset, start, n, alerted)
      /\ start # unset /\ start <= now /\ now < start + width
      /\ came1 = Grown(came, now, thing) /\ n1 = Cardinality(Since(came1, start))
      /\ alerted1 <=> (alerted \/ n1 >= limit)
      /\ rang1 = IF alerted1 /\ ~alerted THEN rang \cup {now} ELSE rang
  BY DEF CountedIn
<1> USE <1>0
<1>1. /\ IsFiniteSet(came) /\ \A c \in came : c[1] \in times /\ c[1] \in Int /\ c[1] <= now
      /\ times \subseteq Int /\ now \in Int
  BY DEF Watching, History
<1>20. /\ \A c \in came1 : c \in came \/ (c[1] = now /\ c[2] = thing)
       /\ came \subseteq came1 /\ \E c \in came1 : c[1] = now /\ c[2] = thing
  BY OneAdded
<1>21. IsFiniteSet(came1)
  BY <1>1, FS_AddElement DEF Grown
<1>2. IsFiniteSet(came1) /\ \A c \in came1 : c[1] \in times /\ c[1] \in Int /\ c[1] <= now
  BY <1>1, <1>20, <1>21
<1>3. rang \subseteq rang1 /\ \A a \in rang1 : a \in rang \/ (a = now /\ alerted1)
  OBVIOUS
<1>4. \A a \in rang1 : a \in Int /\ a <= now
  BY <1>1, <1>3 DEF Watching, History
<1>5. History(came1, rang1, times)
  BY <1>1, <1>2, <1>3, <1>20 DEF Watching, History
<1>6. Since(came, start) \subseteq Since(came1, start) /\ thing \in Since(came1, start)
  BY <1>1, <1>20 DEF Since
<1>7. n \in Nat /\ n1 \in Nat /\ n <= n1 /\ n1 > 0
  <2>1. Since(came1, start) # {}
    BY <1>6
  <2>2. n1 \in Nat /\ n <= n1 /\ n \in Nat
    BY <1>6, <1>1, <1>2, SinceFinite DEF Watching, Window
  <2>3. n1 # 0
    BY <2>1, <1>2, SinceFinite, FS_EmptySet
  <2>4. QED BY <2>2, <2>3
<1>22. alerted <=> (n > 0 /\ n >= limit)
  BY DEF Watching, Window
<1>8. alerted1 <=> (n1 > 0 /\ n1 >= limit)
  BY <1>7, <1>22
<1>9. alerted1 => \E a \in rang1 : a >= start
  BY <1>3, <1>1 DEF Watching, Window
<1>10. Window(came1, rang1, width, limit, start, n1, alerted1)
  <2>1. \A c \in came1 : c[1] < start + width
    BY <1>1, <1>2
  <2>2. QED BY <2>1, <1>8, <1>9 DEF Window
<1>11. PICK s \in Int :
        /\ s + width <= start
        /\ \A c \in came : c[1] < start => c[1] < s + width
        /\ limit > 0 /\ Cardinality(Between(came, s, start)) >= limit => \E a \in rang : a >= s
  BY DEF Watching, Prior
<1>12. Between(came1, s, start) = Between(came, s, start)
  BY <1>1, <1>20 DEF Between
<1>13. \A c \in came1 : c[1] < start => c[1] < s + width
  BY <1>11, <1>20, <1>1
<1>14. Prior(came1, rang1, width, limit, start)
  BY <1>3, <1>11, <1>12, <1>13 DEF Prior
<1>15. Since(came1, start) \subseteq Within(came1, now, width)
  BY <1>2, <1>1 DEF Since, Within
<1>16. Real(came1, rang1, width, limit)
  <2> SUFFICES ASSUME NEW a \in rang1
               PROVE  Cardinality(Within(came1, a, width)) >= limit
    BY DEF Real
  <2>1. CASE a \in rang
    <3>1. Cardinality(Within(came, a, width)) >= limit
      BY <2>1 DEF Watching, Real
    <3>2. Within(came, a, width) \subseteq Within(came1, a, width)
      BY EarlierTimes, <1>1
    <3>3. /\ Cardinality(Within(came, a, width)) <= Cardinality(Within(came1, a, width))
          /\ Cardinality(Within(came, a, width)) \in Nat /\ Cardinality(Within(came1, a, width)) \in Nat
      BY <3>2, <1>2, WithinFinite
    <3>4. QED BY <3>1, <3>3
  <2>2. CASE a = now /\ a \notin rang
    <3>1. n1 >= limit
      BY <2>2, <1>8, <1>3
    <3>2. n1 <= Cardinality(Within(came1, now, width)) /\ Cardinality(Within(came1, now, width)) \in Nat
      BY <1>15, <1>2, WithinFinite
    <3>3. QED BY <3>1, <3>2, <2>2, <1>7
  <2>3. QED BY <2>1, <2>2, <1>3
<1>17. ASSUME Cardinality(Within(came1, now, width)) >= 2 * limit - 1
       PROVE  \E a \in rang1 : a <= now /\ now - a < 2 * width
  <2>1. CASE n1 >= limit
    <3>1. PICK a \in rang1 : a >= start
      BY <2>1, <1>7, <1>8, <1>9
    <3>2. a \in Int /\ a <= now /\ now \in Int
      BY <1>4, <1>1
    <3>3. now - a < 2 * width
      BY <3>1, <3>2
    <3>4. QED BY <3>2, <3>3
  <2>2. CASE n1 < limit
    <3> DEFINE K == Within(came1, now, width)
    <3>1. IsFiniteSet(K) /\ Cardinality(K) \in Nat /\ Cardinality(K) >= 2 * limit - 1
      BY <1>17, <1>2, WithinFinite
    <3>2. IsFiniteSet(Since(came1, start)) /\ IsFiniteSet(Between(came1, s, start))
      BY <1>2, SinceFinite, BetweenFinite
    <3>3. Cardinality(Between(came1, s, start)) \in Nat
      BY <1>2, BetweenFinite
    <3>4. K \subseteq Since(came1, start) \cup Between(came1, s, start)
      BY <1>2, <1>1, <1>11 DEF Since, Between, Within
    <3>5. Cardinality(K) <= n1 + Cardinality(Between(came1, s, start))
      <4>1. IsFiniteSet(Since(came1, start) \cup Between(came1, s, start))
        BY <3>2, FS_Union
      <4>2. Cardinality(K) <= Cardinality(Since(came1, start) \cup Between(came1, s, start))
        BY <3>4, <4>1, FS_Subset
      <4>3. Cardinality(Since(came1, start) \cup Between(came1, s, start))
             = n1 + Cardinality(Between(came1, s, start))
               - Cardinality(Since(came1, start) \cap Between(came1, s, start))
        BY <3>2, FS_Union
      <4>4. Cardinality(Since(came1, start) \cap Between(came1, s, start)) \in Nat
        BY <3>2, FS_Subset, FS_CardinalityType
      <4>5. QED BY <4>2, <4>3, <4>4, <3>1, <3>3, <1>7
    <3>6. limit > 0 /\ Cardinality(Between(came, s, start)) >= limit
      BY <3>1, <3>3, <3>5, <2>2, <1>7, <1>12
    <3>7. PICK a \in rang : a >= s
      BY <3>6, <1>11
    <3>8. ~(K \subseteq Since(came1, start))
      <4>1. SUFFICES ASSUME K \subseteq Since(came1, start)
                     PROVE  FALSE
        OBVIOUS
      <4>2. Cardinality(K) <= n1
        BY <4>1, <1>2, SinceFinite
      <4>3. QED BY <4>2, <3>1, <3>6, <2>2, <1>7
    <3>9. PICK k \in K : k \notin Since(came1, start)
      BY <3>8
    <3>10. PICK c \in came1 : c[1] <= now /\ now - c[1] < width /\ c[2] = k
      BY <3>9 DEF Within
    <3>11. c[1] < start
      BY <3>9, <3>10, <1>2 DEF Since
    <3>12. now < s + 2 * width
      BY <3>10, <3>11, <1>13, <1>2, <1>1
    <3>13. a \in rang1 /\ a \in Int /\ a <= now
      BY <1>3, <1>4
    <3>14. now - a < 2 * width
      BY <3>7, <3>12, <3>13, <1>1
    <3>15. QED BY <3>13, <3>14
  <2>4. n1 >= limit \/ n1 < limit
    BY <1>7
  <2>3. QED BY <2>1, <2>2, <2>4
<1>18. Noticed(came1, rang1, width, limit)
  <2> SUFFICES ASSUME NEW c \in came1,
                      Cardinality(Within(came1, c[1], width)) >= 2 * limit - 1
               PROVE  \E a \in rang1 : a <= c[1] /\ c[1] - a < 2 * width
    BY DEF Noticed
  <2>1. CASE c[1] = now
    BY <2>1, <1>17
  <2>2. CASE c[1] # now
    <3>1. c \in came /\ c[1] < now
      BY <2>2, <1>20, <1>1
    <3>2. Within(came1, c[1], width) = Within(came, c[1], width)
      <4>1. c[1] \in Int /\ c[1] < now
        BY <3>1, <1>1
      <4>2. width \in Nat
        OBVIOUS
      <4>3. now \in Int /\ \A d \in came : d[1] \in Int
        BY <1>1
      <4>4. \A t \in Int : t < now => Within(Grown(came, now, thing), t, width) = Within(came, t, width)
        BY ONLY <4>2, <4>3, EarlierTimes
      <4>5. QED BY <4>1, <4>4
    <3>3. QED BY <3>1, <3>2, <1>3 DEF Watching, Noticed
  <2>3. QED BY <2>1, <2>2
<1>19. QED BY <1>5, <1>10, <1>14, <1>16, <1>18 DEF Watching

\* A counter counts each input as one of its own.
LEMMA OneMoreCounted ==
    ASSUME NEW came, IsFiniteSet(came), NEW start \in Int, NEW now \in Int, start <= now, NEW thing,
           \A c \in came : c[2] # thing
    PROVE  Cardinality(Since(Grown(came, now, thing), start)) = Cardinality(Since(came, start)) + 1
<1>1. Since(Grown(came, now, thing), start) = Since(came, start) \cup {thing} /\ thing \notin Since(came, start)
  <2> DEFINE more == Grown(came, now, thing)
  <2>1. /\ \A c \in more : c \in came \/ (c[1] = now /\ c[2] = thing)
        /\ came \subseteq more /\ \E c \in more : c[1] = now /\ c[2] = thing
    BY OneAdded
  <2> HIDE DEF more
  <2>2. Since(more, start) = Since(came, start) \cup {thing} /\ thing \notin Since(came, start)
    BY <2>1 DEF Since
  <2>3. QED BY <2>2 DEF more
<1>2. QED BY <1>1, SinceFinite, FS_AddElement

\* Time that passes changes nothing of a window.
LEMMA TimesGrow ==
    ASSUME NEW came, NEW rang, NEW times, NEW more, more \subseteq Int, times \subseteq more,
           NEW width, NEW limit, NEW unset, NEW start, NEW n, NEW alerted,
           Watching(came, rang, times, width, limit, unset, start, n, alerted)
    PROVE  Watching(came, rang, more, width, limit, unset, start, n, alerted)
BY DEF Watching, History

\* What is told apart since the start of a window, with one more input.
LEMMA SinceGrown ==
    ASSUME NEW came, NEW start \in Int, NEW now \in Int, start <= now, NEW thing
    PROVE  Since(Grown(came, now, thing), start) = Since(came, start) \cup {thing}
<1> DEFINE more == Grown(came, now, thing)
<1>1. /\ \A c \in more : c \in came \/ (c[1] = now /\ c[2] = thing)
      /\ came \subseteq more /\ \E c \in more : c[1] = now /\ c[2] = thing
  BY OneAdded
<1> HIDE DEF more
<1>2. Since(more, start) = Since(came, start) \cup {thing}
  BY <1>1 DEF Since
<1>3. QED BY <1>2 DEF more

\* An input opens the window or finds it open, and is counted.
CountedOne(came, rang, times, width, limit, unset, start, n, alerted, now, thing,
        start1, n1, alerted1, n2, alerted2) ==
    /\ width \in Nat \ {0} /\ limit \in Nat /\ unset \in Int /\ start \in Int /\ now \in Int
    /\ {alerted, alerted1, alerted2} \subseteq BOOLEAN
    /\ Watching(came, rang, times, width, limit, unset, start, n, alerted)
    /\ \A t \in times : t <= now
    /\ now # unset
    /\ Reopened(unset, now, width, start, n, alerted, start1, n1, alerted1)
    /\ n2 = Cardinality(Since(Grown(came, now, thing), start1))
    /\ alerted2 <=> (alerted1 \/ n2 >= limit)

\* The two together.
LEMMA Counting ==
    ASSUME NEW came, NEW rang, NEW times, NEW width, NEW limit, NEW unset, NEW start, NEW n,
           NEW alerted, NEW now, NEW thing, NEW start1, NEW n1, NEW alerted1, NEW n2, NEW alerted2,
           CountedOne(came, rang, times, width, limit, unset, start, n, alerted, now, thing,
                   start1, n1, alerted1, n2, alerted2)
    PROVE  Watching(Grown(came, now, thing), IF alerted2 /\ ~alerted1 THEN rang \cup {now} ELSE rang,
                    times \cup {now}, width, limit, unset, start1, n2, alerted2)
<1>0. /\ width \in Nat \ {0} /\ limit \in Nat /\ unset \in Int /\ start \in Int /\ now \in Int
      /\ alerted \in BOOLEAN /\ alerted1 \in BOOLEAN /\ alerted2 \in BOOLEAN
      /\ Watching(came, rang, times, width, limit, unset, start, n, alerted)
      /\ \A t \in times : t <= now
      /\ now # unset
      /\ Reopened(unset, now, width, start, n, alerted, start1, n1, alerted1)
      /\ n2 = Cardinality(Since(Grown(came, now, thing), start1))
      /\ alerted2 <=> (alerted1 \/ n2 >= limit)
  BY DEF CountedOne
<1> USE <1>0
<1>1. now # unset \/ came = {}
  OBVIOUS
<1>2. /\ Watching(came, rang, times \cup {now}, width, limit, unset, start1, n1, alerted1)
      /\ start1 \in Int /\ start1 <= now /\ now < start1 + width /\ start1 # unset
  BY <1>1, OpenedWatches
<1>3. PICK times1 : times1 = times \cup {now}
  OBVIOUS
<1>4. now \in times1 /\ \A t \in times1 : t <= now
  BY <1>3
<1>5. PICK came1 : came1 = Grown(came, now, thing)
  OBVIOUS
<1>6. PICK rang1 : rang1 = IF alerted2 /\ ~alerted1 THEN rang \cup {now} ELSE rang
  OBVIOUS
<1>7. n2 = Cardinality(Since(came1, start1))
  BY <1>5
<1>8. Watching(came, rang, times1, width, limit, unset, start1, n1, alerted1)
  BY <1>2, <1>3
<1>9. start1 \in Int /\ start1 <= now /\ now < start1 + width /\ start1 # unset
  BY <1>2
<1>10. width \in Nat \ {0} /\ limit \in Nat /\ unset \in Int /\ alerted1 \in BOOLEAN /\ alerted2 \in BOOLEAN
  OBVIOUS
<1>11. alerted2 <=> (alerted1 \/ n2 >= limit)
  OBVIOUS
<1>12. Watching(came1, rang1, times1, width, limit, unset, start1, n2, alerted2)
  <2>1. CountedIn(came, rang, times1, width, limit, unset, start1, n1, alerted1, now, thing,
                  came1, rang1, n2, alerted2)
    BY <1>4, <1>5, <1>6, <1>7, <1>8, <1>9, <1>10, <1>11 DEF CountedIn
  <2>2. QED BY ONLY <2>1, CountedWatches
<1>13. QED BY <1>3, <1>5, <1>6, <1>12

-----------------------------------------------------------------------------
\* The windows of the detectors.

CounterType == [start : Int, count : Nat, alerted : BOOLEAN]

\* Opened and Counted give windows, and open one as Reopened says.
LEMMA CounterSteps ==
    ASSUME NEW w \in CounterType, NEW unset \in Int, NEW now \in Int, NEW width \in Nat, NEW limit \in Nat,
           NEW open, open = Opened(w, Counter(unset), now, width), NEW v, v = Counted(open, limit)
    PROVE  /\ open \in CounterType /\ v \in CounterType
           /\ Reopened(unset, now, width, w.start, w.count, w.alerted, open.start, open.count, open.alerted)
           /\ v.start = open.start /\ v.count = open.count + 1
           /\ v.alerted <=> (open.alerted \/ v.count >= limit)
<1>1. PICK fresh : fresh = [start |-> unset, count |-> 0, alerted |-> FALSE]
  OBVIOUS
<1>8. /\ fresh \in CounterType /\ fresh = Counter(unset)
      /\ fresh.start = unset /\ fresh.count = 0 /\ fresh.alerted = FALSE
  BY <1>1 DEF Counter, CounterType
<1>2. w.start \in Int
  BY DEF CounterType
<1>3. open \in CounterType /\
      Reopened(unset, now, width, w.start, w.count, w.alerted, open.start, open.count, open.alerted)
  <2>1. CASE w.start = unset
    <3>1. open = [w EXCEPT !.start = now]
      BY <1>8, <2>1 DEF Opened
    <3>2. open \in CounterType /\ open.start = now /\ open.count = w.count /\ open.alerted = w.alerted
      BY <3>1 DEF CounterType
    <3>3. QED BY <3>2, <2>1 DEF Reopened
  <2>2. CASE w.start # unset /\ Elapsed(w.start, now, width)
    <3>1. open = [fresh EXCEPT !.start = now]
      BY <1>8, <2>2 DEF Opened
    <3>2. open \in CounterType /\ open.start = now /\ open.count = 0 /\ open.alerted = FALSE
      BY <3>1, <1>8 DEF CounterType
    <3>3. QED BY <3>2, <2>2 DEF Reopened
  <2>3. CASE w.start # unset /\ ~Elapsed(w.start, now, width)
    <3>1. open = w
      BY <1>8, <2>3 DEF Opened
    <3>2. QED BY <3>1, <2>3 DEF Reopened
  <2>4. QED BY <2>1, <2>2, <2>3
<1>4. /\ v = [open EXCEPT !.count = open.count + 1,
                         !.alerted = open.alerted \/ open.count + 1 >= limit]
  BY DEF Counted
<1>5. /\ v.start = open.start /\ v.count = open.count + 1
      /\ v.alerted = (open.alerted \/ open.count + 1 >= limit)
  BY <1>3, <1>4 DEF CounterType
<1>6. v \in CounterType
  <2>1. open.count + 1 \in Nat
    BY <1>3 DEF CounterType
  <2>2. QED BY <1>3, <1>4, <2>1 DEF CounterType
<1>7. QED BY <1>3, <1>5, <1>6

\* A window that counts inputs, and an input that is counted in it.
CountsIn(came, rang, times, width, limit, unset, w, now, thing, open, v) ==
    /\ width \in Nat \ {0} /\ limit \in Nat /\ unset \in Int /\ w \in CounterType /\ now \in Int
    /\ Watching(came, rang, times, width, limit, unset, w.start, w.count, w.alerted)
    /\ \A t \in times : t <= now
    /\ now # unset
    /\ \A c \in came : c[2] # thing
    /\ open = Opened(w, Counter(unset), now, width) /\ v = Counted(open, limit)

\* It watches on.
LEMMA CounterWatches ==
    ASSUME NEW came, NEW rang, NEW times, NEW width, NEW limit, NEW unset, NEW w, NEW now, NEW thing,
           NEW open, NEW v, CountsIn(came, rang, times, width, limit, unset, w, now, thing, open, v)
    PROVE  /\ Watching(Grown(came, now, thing), IF Raised(open, v) THEN rang \cup {now} ELSE rang,
                       times \cup {now}, width, limit, unset, v.start, v.count, v.alerted)
           /\ v \in CounterType
<1>0. /\ width \in Nat /\ width \in Nat \ {0} /\ limit \in Nat /\ unset \in Int /\ w \in CounterType
      /\ now \in Int /\ Watching(came, rang, times, width, limit, unset, w.start, w.count, w.alerted)
      /\ now # unset /\ \A c \in came : c[2] # thing
      /\ open = Opened(w, Counter(unset), now, width) /\ v = Counted(open, limit)
      /\ \A t \in times : t <= now
  BY DEF CountsIn
<1> USE <1>0
<1>1. /\ open \in CounterType /\ v \in CounterType
      /\ Reopened(unset, now, width, w.start, w.count, w.alerted, open.start, open.count, open.alerted)
      /\ v.start = open.start /\ v.count = open.count + 1
      /\ v.alerted <=> (open.alerted \/ v.count >= limit)
  BY CounterSteps
<1>2. PICK start, start1, n, n1 :
        start = w.start /\ start1 = open.start /\ n = w.count /\ n1 = open.count
  OBVIOUS
<1>3. PICK alerted, alerted1, alerted2 \in BOOLEAN :
        alerted = w.alerted /\ alerted1 = open.alerted /\ alerted2 = v.alerted
  BY <1>1 DEF CounterType
<1>4. start \in Int /\ start1 \in Int
  BY <1>1, <1>2 DEF CounterType
<1>5. Watching(came, rang, times, width, limit, unset, start, n, alerted)
  BY <1>2, <1>3
<1>6. Reopened(unset, now, width, start, n, alerted, start1, n1, alerted1)
  BY <1>1, <1>2, <1>3
<1>7. now # unset \/ came = {}
  OBVIOUS
<1>8. /\ Watching(came, rang, times \cup {now}, width, limit, unset, start1, n1, alerted1)
      /\ start1 <= now
  BY <1>3, <1>4, <1>5, <1>6, <1>7, OpenedWatches
<1>9. IsFiniteSet(came) /\ n1 = Cardinality(Since(came, start1))
  BY <1>8 DEF Watching, History, Window
<1>10. Cardinality(Since(Grown(came, now, thing), start1)) = n1 + 1
  BY <1>4, <1>8, <1>9, OneMoreCounted
<1>11. PICK n2 : n2 = n1 + 1
  OBVIOUS
<1>12. n2 = Cardinality(Since(Grown(came, now, thing), start1)) /\ n2 = v.count
  BY <1>1, <1>2, <1>10, <1>11
<1>13. alerted2 <=> (alerted1 \/ n2 >= limit)
  BY <1>1, <1>3, <1>12
<1>14. Watching(Grown(came, now, thing), IF alerted2 /\ ~alerted1 THEN rang \cup {now} ELSE rang,
                times \cup {now}, width, limit, unset, start1, n2, alerted2)
  <2>1. CountedOne(came, rang, times, width, limit, unset, start, n, alerted, now, thing,
                start1, n1, alerted1, n2, alerted2)
    BY <1>3, <1>4, <1>5, <1>6, <1>12, <1>13 DEF CountedOne
  <2>2. QED BY ONLY <2>1, Counting
<1>15. v.start = start1 /\ v.count = n2 /\ v.alerted = alerted2 /\ (Raised(open, v) <=> alerted2 /\ ~alerted1)
  BY <1>1, <1>2, <1>3, <1>12 DEF Raised
<1>16. QED BY <1>1, <1>14, <1>15

-----------------------------------------------------------------------------
\* The inductive invariant.

Stamps == {traffic[i].at : i \in DOMAIN traffic}

\* What came of a kind for a key, and when it was alerted.
Came(kind, key) ==
    {<<traffic[i].at, Thing(kind, i)>> : i \in {j \in DOMAIN traffic : key \in Counts(kind, j)}}
Rang(kind, key) ==
    {alarms[n].at : n \in {m \in DOMAIN alarms : alarms[m].kind = kind /\ alarms[m].key = key}}

\* The window of a detector has watched over them; what it has counted is n.
Watches(kind, key, unset, start, n, alerted) ==
    /\ start \in Int /\ n \in Nat /\ alerted \in BOOLEAN
    /\ Watching(Came(kind, key), Rang(kind, key), Stamps, Width(kind), scenario.limits[kind],
                unset, start, n, alerted)

\* What the window of a kind and key has: its start, what it has counted or told
\* apart, and whether it has raised its alert.
State(start, n, alerted) == [start |-> start, n |-> n, alerted |-> alerted]
OfCounter(w) == State(w.start, w.count, w.alerted)

CanState(kind, key) ==
    CASE kind = "errBurst" /\ key = "bus"            -> OfCounter(can.errs)
      [] kind = "busFlood" /\ key = "bus"            -> OfCounter(can.bus)
      [] kind = "idFlood" /\ key \in CanIds          -> OfCounter(can.ids[key])
      [] kind = "diagFlood" /\ key \in DiagRequests  -> OfCounter(can.diag[key])
      [] kind = "seedFlood" /\ key \in DiagRequests  ->
            State(can.sec[key].start, can.sec[key].seeds, can.sec[key].seed_alerted)
      [] kind = "keyGuess" /\ key \in DiagRequests   ->
            State(can.sec[key].start, can.sec[key].keys, can.sec[key].key_alerted)
      [] kind = "svcScan" /\ key \in DiagRequests    ->
            State(can.scan[key].start, Cardinality(can.scan[key].things), can.scan[key].alerted)
      [] OTHER                                       -> State(0, 0, FALSE)

\* The records of the two detectors of diagnostics.
SecType == [start : Int, seeds : Nat, keys : Nat, seed_alerted : BOOLEAN, key_alerted : BOOLEAN]
IsScan(w) ==
    /\ DOMAIN w = {"start", "things", "alerted"} /\ w = [w EXCEPT !.start = w.start]
    /\ w.start \in Int /\ w.alerted \in BOOLEAN

CanTyped ==
    /\ DOMAIN can = {"cycle", "ids", "bus", "errs", "diag", "sec", "scan"}
    /\ can.errs \in CounterType /\ can.bus \in CounterType
    /\ can.ids \in [CanIds -> CounterType] /\ can.diag \in [DiagRequests -> CounterType]
    /\ can.sec \in [DiagRequests -> SecType]
    /\ DOMAIN can.scan = DiagRequests /\ \A i \in DiagRequests : IsScan(can.scan[i])

CanWatch(kind, key) ==
    LET w == CanState(kind, key) IN
    Masked(kind, key) \/
        /\ Watches(kind, key, 0, w.start, w.n, w.alerted)
        /\ kind = "svcScan" /\ key \in DiagRequests =>
                can.scan[key].things = Since(Came(kind, key), w.start)

CanFloods == CanTyped /\ \A kind \in CanKinds : \A key : CanWatch(kind, key)

HostFloods ==
    /\ "forks" \in DOMAIN host /\ host.forks \in CounterType
    /\ LET w == OfCounter(host.forks)
       IN  Watches("forkFlood", "host", NotOpen, w.start, w.n, w.alerted)
    /\ \A key : key # "host" => Rang("forkFlood", key) = {}

\* The Ethernet probe.
NewScan == [events |-> <<>>, alerted |-> FALSE]

EthTyped ==
    /\ \A key \in DOMAIN eth.rates : eth.rates[key] \in CounterType
    /\ \A key \in DOMAIN eth.storms : eth.storms[key] \in CounterType

EthWatch(kind, key, windows) ==
    LET w == OfCounter(At(windows, key, NewStorm))
    IN  Watches(kind, key, NotOpen, w.start, w.n, w.alerted)

\* The times of these do not go back.
Ascending(syns) == \A i, j \in DOMAIN syns : i <= j => syns[i].at <= syns[j].at

ScanWatch(key) ==
    LET syns == At(eth.scans, key, NewScan).events IN
    /\ IsSeq(syns) /\ Ascending(syns)
    /\ \A i \in DOMAIN syns : <<syns[i].at, syns[i].port>> \in Came("portScan", key)
    /\ Real(Came("portScan", key), Rang("portScan", key), EthWindow, scenario.limits["portScan"])

\* The frames before n that tell who has an address.
Tellings(addr, n) == {j \in 1..(n - 1) : traffic[j].input.kind = "arp" /\ traffic[j].input.src = addr}

Bound(addr) ==
    LET before == Tellings(addr, Len(traffic) + 1)
    IN  /\ addr \in DOMAIN eth.bindings <=> before # {}
        /\ before # {} => eth.bindings[addr] = traffic[Max(before)].input.mac

EthFloods ==
    /\ EthTyped
    /\ \A key : EthWatch("rateFlood", key, eth.rates) /\ EthWatch("arpStorm", key, eth.storms)
    /\ Unfragmented => \A key : ScanWatch(key)
    /\ \A addr : Bound(addr)

\* Times do not go back; live, they are those of the clock, for the poller of the
\* host probe when its pass began.
Recorded ==
    /\ scenario \in Scenarios /\ IsSeq(traffic) /\ IsSeq(alarms)
    /\ \A i \in DOMAIN traffic : traffic[i].at \in Nat
    /\ \A i, j \in DOMAIN traffic : i <= j => traffic[i].at <= traffic[j].at
    /\ scenario.live => \A t \in Stamps : t <= clock
    /\ scenario.probe = "host" /\ scenario.live =>
            /\ scan.stamp <= clock
            /\ netlink = "off" => \A t \in Stamps : t <= scan.stamp

FloodInv ==
    /\ Recorded
    /\ scenario.probe = "can" => CanFloods
    /\ scenario.probe = "host" => HostFloods
    /\ scenario.probe = "eth" => EthFloods

-----------------------------------------------------------------------------
\* What the invariant says of the floods.

\* The amount of traffic of FloodsAlerted is what came within a width.
LEMMA AmountIs ==
    ASSUME NEW kind, NEW key, NEW t
    PROVE  Amount(kind, key, t) = Cardinality(Within(Came(kind, key), t, Width(kind)))
<1> DEFINE mine == {j \in DOMAIN traffic : /\ traffic[j].at <= t /\ t - traffic[j].at < Width(kind)
                                           /\ key \in Counts(kind, j)}
           A == {Thing(kind, i) : i \in mine}
           B == Within(Came(kind, key), t, Width(kind))
<1>1. A \subseteq B
  <2> SUFFICES ASSUME NEW i \in mine PROVE Thing(kind, i) \in B
    OBVIOUS
  <2>1. PICK c : c = <<traffic[i].at, Thing(kind, i)>>
    OBVIOUS
  <2>2. c \in Came(kind, key) /\ c[1] = traffic[i].at /\ c[2] = Thing(kind, i)
    BY <2>1 DEF Came
  <2>3. QED BY <2>2 DEF Within
<1>2. B \subseteq A
  <2> SUFFICES ASSUME NEW c \in Came(kind, key), c[1] <= t, t - c[1] < Width(kind) PROVE c[2] \in A
    BY DEF Within
  <2>1. PICK i \in {j \in DOMAIN traffic : key \in Counts(kind, j)} : c = <<traffic[i].at, Thing(kind, i)>>
    BY DEF Came
  <2>2. c[1] = traffic[i].at /\ c[2] = Thing(kind, i)
    BY <2>1
  <2>3. QED BY <2>1, <2>2
<1>3. A = B
  BY <1>1, <1>2
<1>4. QED BY <1>3 DEF Amount

\* Detectors that have watched over a kind and key notice its floods.
LEMMA NoticedIs ==
    ASSUME NEW kind, NEW key, Noticed(Came(kind, key), Rang(kind, key), Width(kind), scenario.limits[kind]),
           NEW i \in DOMAIN traffic, key \in Counts(kind, i),
           Amount(kind, key, traffic[i].at) >= 2 * scenario.limits[kind] - 1
    PROVE  \E n \in DOMAIN alarms :
                /\ alarms[n].kind = kind /\ alarms[n].key = key
                /\ alarms[n].at <= traffic[i].at /\ traffic[i].at - alarms[n].at < 2 * Width(kind)
<1>1. PICK c : c = <<traffic[i].at, Thing(kind, i)>>
  OBVIOUS
<1>2. c \in Came(kind, key) /\ c[1] = traffic[i].at
  BY <1>1 DEF Came
<1>3. PICK a \in Rang(kind, key) : a <= c[1] /\ c[1] - a < 2 * Width(kind)
  BY <1>2, AmountIs DEF Noticed
<1>4. PICK n \in DOMAIN alarms : a = alarms[n].at /\ alarms[n].kind = kind /\ alarms[n].key = key
  BY DEF Rang
<1>5. QED BY <1>2, <1>3, <1>4

\* And alert no others.
LEMMA RealIs ==
    ASSUME NEW kind, NEW key, Real(Came(kind, key), Rang(kind, key), Width(kind), scenario.limits[kind]),
           NEW n \in DOMAIN alarms, alarms[n].kind = kind, alarms[n].key = key
    PROVE  Amount(kind, key, alarms[n].at) >= scenario.limits[kind]
<1>1. alarms[n].at \in Rang(kind, key)
  BY DEF Rang
<1>2. QED BY <1>1, AmountIs DEF Real

\* The widths and limits of a scenario.
LEMMA Limits ==
    ASSUME scenario \in Scenarios
    PROVE  /\ scenario.probe \in {"can", "host", "eth"}
           /\ \A kind : Width(kind) \in Nat \ {0}
           /\ scenario.probe = "can" => DOMAIN scenario.limits = CanKinds /\ \A kind : Width(kind) = CanWindow
           /\ scenario.probe = "host" => DOMAIN scenario.limits = HostKinds /\ \A kind : Width(kind) = HostWindow
           /\ scenario.probe = "eth" => DOMAIN scenario.limits = EthKinds /\ \A kind : Width(kind) = EthWindow
           /\ \A kind \in DOMAIN scenario.limits : scenario.limits[kind] \in Nat
BY ScenarioAssumption, CanAssumption, HostAssumption, EthAssumption DEF Width

\* The invariant implies the property.
LEMMA FloodsFollow ==
    ASSUME FloodInv
    PROVE  FloodNoticed /\ FloodIsReal
<1>0. scenario \in Scenarios
  BY DEF FloodInv, Recorded
<1>1. ASSUME NEW kind \in Limited, NEW key, ~Masked(kind, key)
      PROVE  /\ kind # "portScan" => Noticed(Came(kind, key), Rang(kind, key), Width(kind), scenario.limits[kind])
                                     \/ \A i \in DOMAIN traffic : key \notin Counts(kind, i)
             /\ (kind = "portScan" => Unfragmented) =>
                    Real(Came(kind, key), Rang(kind, key), Width(kind), scenario.limits[kind])
  <2>1. CASE scenario.probe = "can"
    <3>1. kind \in CanKinds
      BY <1>0, <2>1, Limits DEF Limited
    <3>2. CanWatch(kind, key)
      BY <2>1, <3>1 DEF FloodInv, CanFloods
    <3>3. QED BY <1>1, <3>2 DEF CanWatch, Watches, Watching
  <2>2. CASE scenario.probe = "host"
    <3>1. kind = "forkFlood" /\ HostFloods
      BY <1>0, <2>2, Limits DEF Limited, HostKinds, FloodInv
    <3>2. CASE key = "host"
      BY <3>1, <3>2 DEF HostFloods, Watches, Watching
    <3>3. CASE key # "host"
      <4>1. Rang(kind, key) = {}
        BY <3>1, <3>3 DEF HostFloods
      <4>2. \A i \in DOMAIN traffic : key \notin Counts(kind, i)
        BY <2>2, <3>3 DEF Counts
      <4>3. QED BY <4>1, <4>2 DEF Real
    <3>4. QED BY <3>2, <3>3
  <2>3. CASE scenario.probe = "eth"
    <3>1. kind \in EthKinds /\ EthFloods
      BY <1>0, <2>3, Limits DEF Limited, FloodInv
    <3>2. CASE kind = "rateFlood"
      BY <3>1, <3>2 DEF EthFloods, EthWatch, Watches, Watching
    <3>3. CASE kind = "arpStorm"
      BY <3>1, <3>3 DEF EthFloods, EthWatch, Watches, Watching
    <3>4. CASE kind = "portScan"
      <4>1. Width(kind) = EthWindow
        BY <1>0, <2>3, Limits
      <4>2. QED BY <3>1, <3>4, <4>1 DEF EthFloods, ScanWatch
    <3>5. QED BY <3>1, <3>2, <3>3, <3>4 DEF EthKinds
  <2>4. QED BY <1>0, <2>1, <2>2, <2>3, Limits
<1>2. FloodNoticed
  <2> SUFFICES ASSUME NEW kind \in Limited \ {"portScan"}, NEW i \in DOMAIN traffic, NEW key \in Counts(kind, i),
                      ~Masked(kind, key), Amount(kind, key, traffic[i].at) >= 2 * scenario.limits[kind] - 1
               PROVE  \E n \in DOMAIN alarms :
                         /\ alarms[n].kind = kind /\ alarms[n].key = key
                         /\ alarms[n].at <= traffic[i].at /\ traffic[i].at - alarms[n].at < 2 * Width(kind)
    BY DEF FloodNoticed
  <2>1. Noticed(Came(kind, key), Rang(kind, key), Width(kind), scenario.limits[kind])
    BY <1>1
  <2>2. QED BY <2>1, NoticedIs
<1>3. FloodIsReal
  <2> SUFFICES ASSUME NEW n \in DOMAIN alarms, NEW kind, kind = alarms[n].kind, kind \in Limited,
                      NEW key, key = alarms[n].key, ~Masked(kind, key), kind = "portScan" => Unfragmented
               PROVE  Amount(kind, key, alarms[n].at) >= scenario.limits[kind]
    BY DEF FloodIsReal
  <2>1. Real(Came(kind, key), Rang(kind, key), Width(kind), scenario.limits[kind])
    BY <1>1
  <2>2. QED BY <2>1, RealIs
<1>4. QED BY <1>2, <1>3

-----------------------------------------------------------------------------
\* An input that comes at this time, after all that came before.
Arrives(input, at) ==
    /\ scenario' = scenario /\ at \in Nat /\ Fed(input, at)
    /\ \A t \in Stamps : t <= at

\* An alert of a kind for a key is among these.
Rung(alerts, kind, key) == \E i \in DOMAIN alerts : alerts[i].kind = kind /\ alerts[i].key = key

\* A sequence and one more element.
LEMMA LengthAppended ==
    ASSUME NEW s, IsSeq(s), NEW e
    PROVE  /\ Len(s) \in Nat /\ Len(Append(s, e)) = Len(s) + 1
           /\ DOMAIN s = 1..Len(s) /\ DOMAIN Append(s, e) = 1..(Len(s) + 1)
           /\ \A i \in 1..Len(s) : Append(s, e)[i] = s[i]
           /\ Append(s, e)[Len(s) + 1] = e
<1>1. PICK T : T = ToSet(s) \cup {e}
  OBVIOUS
<1>2. \A U : U \subseteq T => Seq(U) \subseteq Seq(T)
  OBVIOUS
<1>3. s \in Seq(T) /\ e \in T
  BY <1>1, <1>2 DEF IsSeq
<1>4. QED BY <1>3

\* The traffic with one more input.
LEMMA InputArrives ==
    ASSUME Recorded, NEW input, NEW at, Arrives(input, at)
    PROVE  \E n \in Nat :
            /\ n = Len(traffic) /\ DOMAIN traffic = 1..n
            /\ IsSeq(traffic') /\ Len(traffic') = n + 1 /\ DOMAIN traffic' = 1..(n + 1)
            /\ \A i \in 1..n : traffic'[i] = traffic[i]
            /\ traffic'[n + 1].input = input /\ traffic'[n + 1].at = at
<1>1. PICK e : e = [input |-> input, at |-> at] /\ traffic' = Append(traffic, e)
  BY DEF Arrives, Fed
<1>2. e.input = input /\ e.at = at
  BY <1>1
<1>3. PICK T : traffic \in Seq(T) /\ e \in T /\ traffic' \in Seq(T)
  <2>1. PICK T : T = ToSet(traffic) \cup {e}
    OBVIOUS
  <2>2. \A U : U \subseteq T => Seq(U) \subseteq Seq(T)
    OBVIOUS
  <2>3. traffic \in Seq(T) /\ e \in T
    BY <2>1, <2>2 DEF Recorded, IsSeq
  <2>4. QED BY <1>1, <2>3
<1>4. PICK n \in Nat : /\ n = Len(traffic) /\ DOMAIN traffic = 1..n /\ Len(traffic') = n + 1
                       /\ DOMAIN traffic' = 1..(n + 1)
                       /\ \A i \in 1..n : traffic'[i] = traffic[i]
                       /\ traffic'[n + 1] = e
  BY <1>1, <1>3
<1>5. IsSeq(traffic')
  BY <1>3, AnySeq
<1>6. traffic'[n + 1].input = input /\ traffic'[n + 1].at = at
  BY <1>2, <1>4
<1> WITNESS n \in Nat
<1>7. QED BY <1>4, <1>5, <1>6

\* Its times are those before and the new one, and do not go back.
LEMMA TimesGoOn ==
    ASSUME Recorded, NEW input, NEW at, Arrives(input, at)
    PROVE  /\ Stamps' = Stamps \cup {at} /\ Stamps \subseteq Nat
           /\ \A i \in DOMAIN traffic' : traffic'[i].at \in Nat
           /\ \A i, j \in DOMAIN traffic' : i <= j => traffic'[i].at <= traffic'[j].at
<1>1. PICK n \in Nat :
            /\ n = Len(traffic) /\ DOMAIN traffic = 1..n
            /\ IsSeq(traffic') /\ Len(traffic') = n + 1 /\ DOMAIN traffic' = 1..(n + 1)
            /\ \A i \in 1..n : traffic'[i] = traffic[i]
            /\ traffic'[n + 1].input = input /\ traffic'[n + 1].at = at
  BY InputArrives
<1>2. \A i \in 1..(n + 1) : i \in 1..n \/ i = n + 1
  OBVIOUS
<1>3. \A i \in 1..n : i \in 1..(n + 1)
  OBVIOUS
<1>4. at \in Nat /\ \A i \in 1..n : traffic[i].at \in Nat /\ traffic[i].at <= at
  BY <1>1 DEF Arrives, Recorded, Stamps
<1>5. Stamps = {traffic[i].at : i \in 1..n} /\ Stamps' = {traffic'[i].at : i \in 1..(n + 1)}
  BY <1>1 DEF Stamps
<1>6. n + 1 \in 1..(n + 1)
  OBVIOUS
<1>7. Stamps' = Stamps \cup {at}
  BY <1>1, <1>2, <1>3, <1>5, <1>6
<1>8. \A i \in 1..(n + 1) : traffic'[i].at \in Nat /\ traffic'[i].at <= at
  BY <1>1, <1>2, <1>4
<1>9. ASSUME NEW i \in 1..(n + 1), NEW j \in 1..(n + 1), i <= j
      PROVE  traffic'[i].at <= traffic'[j].at
  <2>1. CASE j = n + 1
    BY <1>1, <1>8, <2>1
  <2>2. CASE j # n + 1
    <3>1. i \in 1..n /\ j \in 1..n
      BY <1>9, <2>2
    <3>2. traffic[i].at <= traffic[j].at
      BY <1>1, <1>9, <3>1 DEF Recorded
    <3>3. QED BY <1>1, <3>1, <3>2
  <2>3. QED BY <2>1, <2>2
<1>10. QED BY <1>1, <1>4, <1>5, <1>7, <1>8, <1>9

\* What came of a kind and key, with one more input.
LEMMA CameGrows ==
    ASSUME Recorded, NEW input, NEW at, Arrives(input, at), NEW kind, NEW key,
           NEW n, n = Len(traffic), \A i \in DOMAIN traffic : Counts(kind, i)' = Counts(kind, i)
    PROVE  /\ key \in Counts(kind, n + 1)' =>
                Came(kind, key)' = Grown(Came(kind, key), at, Thing(kind, n + 1)')
           /\ key \notin Counts(kind, n + 1)' => Came(kind, key)' = Came(kind, key)
<1>0. PICK thing : thing = Thing(kind, n + 1)'
  OBVIOUS
<1>1. /\ n \in Nat /\ DOMAIN traffic = 1..n /\ DOMAIN traffic' = 1..(n + 1)
      /\ \A i \in 1..n : traffic'[i] = traffic[i]
      /\ traffic'[n + 1].at = at
  BY <1>0, InputArrives
<1>2. \A i \in 1..n : Thing(kind, i)' = Thing(kind, i)
  BY <1>1 DEF Thing
<1>3. \A i \in 1..n : Counts(kind, i)' = Counts(kind, i)
  BY <1>1
<1>4. PICK P, Q, H, more :
        /\ P = {j \in 1..n : key \in Counts(kind, j)}
        /\ Q = {j \in 1..(n + 1) : key \in Counts(kind, j)'}
        /\ H = [i \in 1..n |-> <<traffic[i].at, Thing(kind, i)>>]
        /\ more = [i \in 1..(n + 1) |-> <<traffic'[i].at, Thing(kind, i)'>>]
  OBVIOUS
<1>5. \A i \in 1..n : more[i] = H[i]
  BY <1>1, <1>2, <1>4
<1>6. more[n + 1] = <<at, thing>>
  BY <1>0, <1>1, <1>4
<1>7. Came(kind, key) = {H[i] : i \in P} /\ Came(kind, key)' = {more[i] : i \in Q}
  <2>1. Came(kind, key) = {<<traffic[i].at, Thing(kind, i)>> : i \in P}
    BY <1>1, <1>4 DEF Came
  <2>2. Came(kind, key)' = {<<traffic'[i].at, Thing(kind, i)'>> : i \in Q}
    BY <1>1, <1>4 DEF Came
  <2>3. QED BY <1>4, <2>1, <2>2
<1>8. CASE key \in Counts(kind, n + 1)'
  <2>1. Q = P \cup {n + 1}
    BY <1>1, <1>3, <1>4, <1>8
  <2>2. P \subseteq 1..n
    BY <1>4
  <2>3. {more[i] : i \in Q} = {H[i] : i \in P} \cup {<<at, thing>>}
    BY <1>5, <1>6, <2>1, <2>2
  <2>4. Came(kind, key)' = Grown(Came(kind, key), at, thing)
    BY <1>7, <2>3 DEF Grown
  <2>5. QED BY <1>0, <1>8, <2>4
<1>9. CASE key \notin Counts(kind, n + 1)'
  <2>1. Q = P /\ P \subseteq 1..n
    BY <1>1, <1>3, <1>4, <1>9
  <2>2. QED BY <1>0, <1>5, <1>7, <1>9, <2>1
<1>10. QED BY <1>0, <1>8, <1>9

\* Where alerts of a kind and key were raised, with what an input raises.
LEMMA RangGrows ==
    ASSUME IsSeq(alarms), NEW alerts, IsSeq(alerts), NEW at, Report(alerts, at)
    PROVE  /\ IsSeq(alarms')
           /\ \A kind, key : Rang(kind, key)' =
                IF Rung(alerts, kind, key) THEN Rang(kind, key) \cup {at} ELSE Rang(kind, key)
<1>1. PICK more : more = [i \in DOMAIN alerts |->
                            [kind |-> alerts[i].kind, key |-> alerts[i].key, at |-> at]]
  OBVIOUS
<1>2. alarms' = alarms \o more
  BY <1>1 DEF Report
<1>3. PICK m \in Nat : DOMAIN alerts = 1..m
  BY DEF IsSeq
<1>4. DOMAIN more = 1..m /\ \A i \in 1..m : more[i].kind = alerts[i].kind /\ more[i].key = alerts[i].key
                                            /\ more[i].at = at
  BY <1>1, <1>3
<1>5. IsSeq(more)
  <2>1. more \in [1..m -> ToSet(more)]
    BY <1>1, <1>3, <1>4 DEF ToSet
  <2>2. QED BY <2>1 DEF IsSeq
<1>6. IsSeq(alarms')
  BY <1>2, <1>5, SeqsJoined
<1>7. PICK T : alarms \in Seq(T) /\ more \in Seq(T)
  <2>1. PICK T : T = ToSet(alarms) \cup ToSet(more)
    OBVIOUS
  <2>2. \A U : U \subseteq T => Seq(U) \subseteq Seq(T)
    OBVIOUS
  <2>3. QED BY <1>5, <2>1, <2>2 DEF IsSeq
<1>8. PICK n \in Nat : DOMAIN alarms = 1..n /\ n = Len(alarms)
  BY <1>7
<1>9. /\ DOMAIN alarms' = 1..(n + m)
      /\ \A i \in 1..n : alarms'[i] = alarms[i]
      /\ \A i \in 1..m : n + i \in 1..(n + m) /\ alarms'[n + i] = more[i]
      /\ \A i \in 1..(n + m) : i \in 1..n \/ (i - n \in 1..m /\ alarms'[i] = more[i - n])
  <2>1. Len(more) = m
    BY <1>4, <1>7
  <2>2. QED BY <1>2, <1>4, <1>7, <1>8, <2>1
<1>10. ASSUME NEW kind, NEW key
       PROVE  Rang(kind, key)' =
                IF Rung(alerts, kind, key) THEN Rang(kind, key) \cup {at} ELSE Rang(kind, key)
  <2>1. \A a : a \in Rang(kind, key)' <=>
            \E i \in 1..(n + m) : alarms'[i].kind = kind /\ alarms'[i].key = key /\ a = alarms'[i].at
    BY <1>9 DEF Rang
  <2>2. \A a : a \in Rang(kind, key) <=>
            \E i \in 1..n : alarms[i].kind = kind /\ alarms[i].key = key /\ a = alarms[i].at
    BY <1>8 DEF Rang
  <2>3. Rung(alerts, kind, key) <=> \E i \in 1..m : more[i].kind = kind /\ more[i].key = key
    BY <1>3, <1>4 DEF Rung
  <2>4. \A a \in Rang(kind, key)' : a \in Rang(kind, key) \/ (a = at /\ Rung(alerts, kind, key))
    BY <1>4, <1>9, <2>1, <2>2, <2>3
  <2>5. \A i \in 1..n : i \in 1..(n + m)
    BY <1>3, <1>8
  <2>6. Rang(kind, key) \subseteq Rang(kind, key)'
    BY <1>9, <2>1, <2>2, <2>5
  <2>7. Rung(alerts, kind, key) => at \in Rang(kind, key)'
    BY <1>4, <1>9, <2>1, <2>3
  <2>8. QED BY <2>4, <2>6, <2>7
<1>11. QED BY <1>6, <1>10

\* What rings in alerts one after the other, and in one that is raised or not.
LEMMA JoinedRings ==
    ASSUME NEW s, NEW t, IsSeq(s), IsSeq(t)
    PROVE  IsSeq(s \o t) /\ \A kind, key : Rung(s \o t, kind, key) <=> Rung(s, kind, key) \/ Rung(t, kind, key)
<1>1. PICK T : s \in Seq(T) /\ t \in Seq(T)
  <2>1. PICK T : T = ToSet(s) \cup ToSet(t)
    OBVIOUS
  <2>2. \A U : U \subseteq T => Seq(U) \subseteq Seq(T)
    OBVIOUS
  <2>3. QED BY <2>1, <2>2 DEF IsSeq
<1>2. PICK n \in Nat, m \in Nat : n = Len(s) /\ m = Len(t) /\ DOMAIN s = 1..n /\ DOMAIN t = 1..m
  BY <1>1
<1>3. /\ DOMAIN (s \o t) = 1..(n + m)
      /\ \A i \in 1..n : i \in 1..(n + m) /\ (s \o t)[i] = s[i]
      /\ \A i \in 1..m : n + i \in 1..(n + m) /\ (s \o t)[n + i] = t[i]
      /\ \A i \in 1..(n + m) : i \in 1..n \/ (i - n \in 1..m /\ (s \o t)[i] = t[i - n])
  BY <1>1, <1>2
<1>4. PICK u : u = s \o t
  OBVIOUS
<1>5. ASSUME NEW kind, NEW key
      PROVE  Rung(u, kind, key) <=> Rung(s, kind, key) \/ Rung(t, kind, key)
  <2>1. Rung(u, kind, key) <=> \E i \in 1..(n + m) : u[i].kind = kind /\ u[i].key = key
    BY <1>3, <1>4 DEF Rung
  <2>2. Rung(s, kind, key) <=> \E i \in 1..n : s[i].kind = kind /\ s[i].key = key
    BY <1>2 DEF Rung
  <2>3. Rung(t, kind, key) <=> \E i \in 1..m : t[i].kind = kind /\ t[i].key = key
    BY <1>2 DEF Rung
  <2>4. Rung(u, kind, key) => Rung(s, kind, key) \/ Rung(t, kind, key)
    <3> SUFFICES ASSUME NEW i \in 1..(n + m), u[i].kind = kind, u[i].key = key
                 PROVE  Rung(s, kind, key) \/ Rung(t, kind, key)
      BY <2>1
    <3>1. CASE i \in 1..n
      BY <1>3, <1>4, <2>2, <3>1
    <3>2. CASE i \notin 1..n
      <4>1. i - n \in 1..m /\ u[i] = t[i - n]
        BY <1>3, <1>4, <3>2
      <4>2. QED BY <2>3, <4>1
    <3>3. QED BY <3>1, <3>2
  <2>5. Rung(s, kind, key) => Rung(u, kind, key)
    BY <1>3, <1>4, <2>1, <2>2
  <2>6. ASSUME Rung(t, kind, key) PROVE Rung(u, kind, key)
    <3>1. PICK i \in 1..m : t[i].kind = kind /\ t[i].key = key
      BY <2>3, <2>6
    <3>2. n + i \in 1..(n + m) /\ u[n + i] = t[i]
      BY <1>3, <1>4
    <3>3. QED BY <2>1, <3>1, <3>2
  <2>7. QED BY <2>4, <2>5, <2>6
<1>6. QED BY <1>4, <1>5, SeqsJoined

\* An alert rings for its kind and key.
LEMMA WhenRings ==
    ASSUME NEW raised, NEW sev, NEW k, NEW y
    PROVE  /\ IsSeq(When(raised, sev, k, y))
           /\ \A kind, key : Rung(When(raised, sev, k, y), kind, key) <=> raised /\ kind = k /\ key = y
<1>1. PICK a : a = [sev |-> sev, kind |-> k, key |-> y]
  OBVIOUS
<1>2. a.kind = k /\ a.key = y
  BY <1>1
<1>3. DOMAIN <<a>> = {1} /\ <<a>>[1] = a /\ DOMAIN <<>> = {}
  OBVIOUS
<1>4. CASE raised
  BY <1>1, <1>2, <1>3, <1>4, WhenIsSeq DEF When, Rung
<1>5. CASE ~raised
  BY <1>3, <1>5, WhenIsSeq DEF When, Rung
<1>6. QED BY <1>4, <1>5

\* And so does one alert.
LEMMA OneRings ==
    ASSUME NEW a
    PROVE  IsSeq(<<a>>) /\ \A kind, key : Rung(<<a>>, kind, key) <=> kind = a.kind /\ key = a.key
<1>1. DOMAIN <<a>> = {1} /\ <<a>>[1] = a
  OBVIOUS
<1>2. QED BY <1>1, SingleSeq DEF Rung

-----------------------------------------------------------------------------
\* The CAN probe.

\* A frame comes, with these alerts.
CanInput(f, at, alerts) ==
    /\ Recorded /\ scenario.probe = "can" /\ CanFloods
    /\ Arrives(f, at) /\ IsSeq(alerts) /\ Report(alerts, at)

\* What the frame adds to the traffic of a kind and key.
LEMMA CanFrameComes ==
    ASSUME NEW f, NEW at, NEW alerts, CanInput(f, at, alerts), NEW kind \in CanKinds, NEW key
    PROVE  /\ at \in Nat /\ Stamps' = Stamps \cup {at} /\ \A t \in Stamps : t <= at
           /\ Stamps \subseteq Nat /\ Width(kind)' = Width(kind) /\ Width(kind) = CanWindow
           /\ scenario' = scenario /\ CanLimit(kind) \in Nat
           /\ Rang(kind, key)' = IF Rung(alerts, kind, key) THEN Rang(kind, key) \cup {at} ELSE Rang(kind, key)
           /\ key \notin CanCounts(kind, f) => Came(kind, key)' = Came(kind, key)
           /\ key \in CanCounts(kind, f) =>
                Came(kind, key)' = Grown(Came(kind, key), at,
                                         IF kind = "svcScan" THEN Service(f) ELSE Len(traffic) + 1)
           /\ kind # "svcScan" => \A c \in Came(kind, key) : c[2] # Len(traffic) + 1
           /\ Masked(kind, key) => Masked(kind, key)'
           /\ ~Masked(kind, key)' => /\ at # 0 \/ Came(kind, key) = {}
                                     /\ key \in CanCounts(kind, f) => at # 0
<1>1. Recorded /\ scenario.probe = "can" /\ Arrives(f, at) /\ scenario' = scenario /\ at \in Nat
      /\ \A t \in Stamps : t <= at
  BY DEF CanInput, Arrives
<1>2. PICK n \in Nat :
            /\ n = Len(traffic) /\ DOMAIN traffic = 1..n
            /\ IsSeq(traffic') /\ Len(traffic') = n + 1 /\ DOMAIN traffic' = 1..(n + 1)
            /\ \A i \in 1..n : traffic'[i] = traffic[i]
            /\ traffic'[n + 1].input = f /\ traffic'[n + 1].at = at
  BY <1>1, InputArrives
<1>3. \A i \in DOMAIN traffic : Counts(kind, i)' = Counts(kind, i)
  BY <1>1, <1>2 DEF Counts
<1>4. Counts(kind, n + 1)' = CanCounts(kind, f)
  <2>1. Counts(kind, n + 1)' = CanCounts(kind, traffic'[n + 1].input)
    BY <1>1 DEF Counts
  <2>2. QED BY <1>2, <2>1
<1>5. kind # "portScan"
  BY DEF CanKinds
<1>6. PICK thing : thing = (IF kind = "svcScan" THEN Service(f) ELSE n + 1)
  OBVIOUS
<1>7. thing = Thing(kind, n + 1)'
  <2>1. CASE kind = "svcScan"
    <3>1. Thing(kind, n + 1)' = Service(traffic'[n + 1].input)
      BY <2>1 DEF Thing
    <3>2. QED BY <1>2, <1>6, <2>1, <3>1
  <2>2. CASE kind # "svcScan"
    BY <1>5, <1>6, <2>2 DEF Thing
  <2>3. QED BY <2>1, <2>2
<1>8. /\ key \in CanCounts(kind, f) => Came(kind, key)' = Grown(Came(kind, key), at, thing)
      /\ key \notin CanCounts(kind, f) => Came(kind, key)' = Came(kind, key)
  <2>1. /\ key \in Counts(kind, n + 1)' => Came(kind, key)' = Grown(Came(kind, key), at, Thing(kind, n + 1)')
        /\ key \notin Counts(kind, n + 1)' => Came(kind, key)' = Came(kind, key)
    <3>1. n = Len(traffic)
      BY <1>2
    <3>2. QED BY ONLY <1>1, <3>1, <1>3, CameGrows
  <2>2. QED BY <1>4, <1>7, <2>1
<1>9. Stamps' = Stamps \cup {at} /\ Stamps \subseteq Nat
  BY <1>1, TimesGoOn
<1>10. scenario \in Scenarios /\ IsSeq(alarms)
  BY <1>1 DEF Recorded
<1>11. Width(kind)' = Width(kind) /\ Width(kind) = CanWindow /\ CanLimit(kind) \in Nat
  <2>1. Width(kind)' = Width(kind)
    BY <1>1 DEF Width
  <2>2. Width(kind) = CanWindow /\ kind \in DOMAIN scenario.limits
    BY <1>1, <1>10, Limits
  <2>3. scenario.limits[kind] \in Nat
    BY <1>10, <2>2, Limits
  <2>4. QED BY <2>1, <2>2, <2>3 DEF CanLimit
<1>12. Rang(kind, key)' = IF Rung(alerts, kind, key) THEN Rang(kind, key) \cup {at} ELSE Rang(kind, key)
  BY <1>10, RangGrows DEF CanInput
<1>13. ASSUME kind # "svcScan", NEW c \in Came(kind, key) PROVE c[2] # n + 1
  <2>1. PICK i \in DOMAIN traffic : c = <<traffic[i].at, Thing(kind, i)>>
    BY DEF Came
  <2>2. c[2] = i
    BY <1>5, <1>13, <2>1 DEF Thing
  <2>3. QED BY <1>2, <2>2
<1>14. Masked(kind, key) => Masked(kind, key)'
  <2>1. SUFFICES ASSUME Masked(kind, key) PROVE Masked(kind, key)'
    OBVIOUS
  <2>2. PICK i \in DOMAIN traffic : traffic[i].at = 0 /\ key \in Counts(kind, i)
    BY <2>1 DEF Masked
  <2>3. i \in DOMAIN traffic' /\ traffic'[i].at = 0 /\ key \in Counts(kind, i)'
    BY <1>2, <1>3, <2>2
  <2>4. QED BY <1>1, <2>3 DEF Masked
<1>15. ASSUME ~Masked(kind, key)', key \in CanCounts(kind, f) PROVE at # 0
  <2>1. n + 1 \in DOMAIN traffic'
    BY <1>2
  <2>2. QED BY <1>1, <1>2, <1>4, <1>15, <2>1 DEF Masked
<1>16. ASSUME ~Masked(kind, key)', at = 0 PROVE Came(kind, key) = {}
  <2>1. \A i \in DOMAIN traffic : traffic[i].at = 0
    <3>1. \A t \in Stamps : t = 0
      BY <1>1, <1>9, <1>16
    <3>2. QED BY <3>1 DEF Stamps
  <2>2. ~Masked(kind, key)
    BY <1>14, <1>16
  <2>3. \A i \in DOMAIN traffic : key \notin Counts(kind, i)
    BY <1>1, <2>1, <2>2 DEF Masked
  <2>4. QED BY <2>3 DEF Came
<1>17. QED BY <1>1, <1>2, <1>6, <1>8, <1>9, <1>11, <1>12, <1>13, <1>14, <1>15, <1>16

\* A window that the frame does not touch.
LEMMA CanIdle ==
    ASSUME NEW f, NEW at, NEW alerts, CanInput(f, at, alerts), NEW kind \in CanKinds, NEW key,
           key \notin CanCounts(kind, f), ~Rung(alerts, kind, key),
           CanState(kind, key)' = CanState(kind, key),
           kind = "svcScan" /\ key \in DiagRequests => can'.scan[key].things = can.scan[key].things
    PROVE  CanWatch(kind, key)'
<1>1. PICK w : w = CanState(kind, key)
  OBVIOUS
<1>2. CanWatch(kind, key)
  BY DEF CanInput, CanFloods
<1>3. /\ at \in Nat /\ Stamps' = Stamps \cup {at} /\ Stamps \subseteq Nat /\ Width(kind)' = Width(kind)
      /\ scenario' = scenario /\ Rang(kind, key)' = Rang(kind, key) /\ Came(kind, key)' = Came(kind, key)
      /\ Masked(kind, key) => Masked(kind, key)'
  BY CanFrameComes
<1>4. CASE Masked(kind, key)
  BY <1>3, <1>4 DEF CanWatch
<1>5. CASE ~Masked(kind, key)
  <2>1. /\ Watches(kind, key, 0, w.start, w.n, w.alerted)
        /\ kind = "svcScan" /\ key \in DiagRequests =>
                can.scan[key].things = Since(Came(kind, key), w.start)
    BY <1>1, <1>2, <1>5 DEF CanWatch
  <2>2. Watching(Came(kind, key), Rang(kind, key), Stamps', Width(kind), scenario.limits[kind],
                 0, w.start, w.n, w.alerted)
    <3>1. Stamps' \subseteq Int /\ Stamps \subseteq Stamps'
      BY <1>3
    <3>2. QED BY <2>1, <3>1, TimesGrow DEF Watches
  <2>3. Watches(kind, key, 0, w.start, w.n, w.alerted)'
    BY <1>3, <2>1, <2>2 DEF Watches
  <2>4. w = CanState(kind, key)'
    BY <1>1
  <2>5. kind = "svcScan" /\ key \in DiagRequests =>
                can'.scan[key].things = Since(Came(kind, key)', w.start)
    BY <1>3, <2>1
  <2>6. QED BY <2>3, <2>4, <2>5 DEF CanWatch
<1>6. QED BY <1>4, <1>5

\* A counter that the frame is counted in.
LEMMA CanCounter ==
    ASSUME NEW f, NEW at, NEW alerts, CanInput(f, at, alerts), NEW kind \in CanKinds, NEW key,
           kind # "svcScan", key \in CanCounts(kind, f),
           NEW w \in CounterType, CanState(kind, key) = OfCounter(w),
           NEW open, open = Opened(w, Counter(0), at, CanWindow), NEW v, v = Counted(open, CanLimit(kind)),
           Rung(alerts, kind, key) <=> Raised(open, v), CanState(kind, key)' = OfCounter(v)
    PROVE  CanWatch(kind, key)'
<1>2. CanWatch(kind, key)
  BY DEF CanInput, CanFloods
<1>3. /\ at \in Nat /\ Stamps' = Stamps \cup {at} /\ Stamps \subseteq Nat /\ Width(kind)' = CanWindow
      /\ \A t \in Stamps : t <= at
      /\ Width(kind) = CanWindow /\ scenario' = scenario /\ CanLimit(kind) \in Nat
      /\ Rang(kind, key)' = (IF Raised(open, v) THEN Rang(kind, key) \cup {at} ELSE Rang(kind, key))
      /\ Came(kind, key)' = Grown(Came(kind, key), at, Len(traffic) + 1)
      /\ \A c \in Came(kind, key) : c[2] # Len(traffic) + 1
      /\ Masked(kind, key) => Masked(kind, key)'
      /\ ~Masked(kind, key)' => at # 0
  BY CanFrameComes
<1>4. CASE Masked(kind, key)'
  BY <1>4 DEF CanWatch
<1>5. CASE ~Masked(kind, key)'
  <2>1. Watches(kind, key, 0, OfCounter(w).start, OfCounter(w).n, OfCounter(w).alerted)
    BY <1>2, <1>3, <1>5 DEF CanWatch
  <2>2. Watching(Came(kind, key), Rang(kind, key), Stamps, CanWindow, CanLimit(kind),
                 0, w.start, w.count, w.alerted)
    BY <1>3, <2>1 DEF Watches, OfCounter, State, CanLimit
  <2>3. CanWindow \in Nat \ {0} /\ 0 \in Int /\ at \in Int /\ at # 0 /\ CanWindow \in Nat
    BY <1>3, <1>5, CanAssumption
  <2>4. Watching(Came(kind, key)', Rang(kind, key)', Stamps', CanWindow, CanLimit(kind),
                 0, v.start, v.count, v.alerted)
    <3>1. CountsIn(Came(kind, key), Rang(kind, key), Stamps, CanWindow, CanLimit(kind), 0, w, at,
                   Len(traffic) + 1, open, v)
      BY <1>3, <2>2, <2>3 DEF CountsIn
    <3>2. Watching(Grown(Came(kind, key), at, Len(traffic) + 1),
                   IF Raised(open, v) THEN Rang(kind, key) \cup {at} ELSE Rang(kind, key),
                   Stamps \cup {at}, CanWindow, CanLimit(kind), 0, v.start, v.count, v.alerted)
      BY ONLY <3>1, CounterWatches
    <3>3. QED BY <1>3, <3>2
  <2>5. v \in CounterType
    BY <1>3, <2>3, CounterSteps
  <2>6. PICK s : s = OfCounter(v)
    OBVIOUS
  <2>7. s.start = v.start /\ s.n = v.count /\ s.alerted = v.alerted
    BY <2>6 DEF OfCounter, State
  <2>8. v.start \in Int /\ v.count \in Nat /\ v.alerted \in BOOLEAN
    BY <2>5 DEF CounterType
  <2>9. scenario.limits[kind]' = CanLimit(kind)
    BY <1>3 DEF CanLimit
  <2>10. Watches(kind, key, 0, s.start, s.n, s.alerted)'
    BY <1>3, <2>4, <2>7, <2>8, <2>9 DEF Watches
  <2>11. s = CanState(kind, key)'
    BY <2>6
  <2>12. QED BY <2>10, <2>11 DEF CanWatch
<1>6. QED BY <1>4, <1>5

\* A frame opens the window of a kind and key, or finds it open.
CanOpens(kind, key, at, start, n, alerted, start1, n1, alerted1) ==
    /\ CanState(kind, key) = State(start, n, alerted)
    /\ start \in Int /\ {alerted, alerted1} \subseteq BOOLEAN
    /\ Reopened(0, at, CanWindow, start, n, alerted, start1, n1, alerted1)

\* The window watches on.
LEMMA CanOpened ==
    ASSUME NEW f, NEW at, NEW alerts, CanInput(f, at, alerts), NEW kind \in CanKinds, NEW key,
           NEW start, NEW n, NEW alerted, NEW start1, NEW n1, NEW alerted1,
           CanOpens(kind, key, at, start, n, alerted, start1, n1, alerted1), ~Masked(kind, key)'
    PROVE  /\ Watching(Came(kind, key), Rang(kind, key), Stamps, CanWindow, CanLimit(kind),
                       0, start, n, alerted)
           /\ Watching(Came(kind, key), Rang(kind, key), Stamps \cup {at}, CanWindow, CanLimit(kind),
                       0, start1, n1, alerted1)
           /\ start1 \in Int /\ start1 <= at /\ n1 \in Nat /\ IsFiniteSet(Came(kind, key))
           /\ n1 = Cardinality(Since(Came(kind, key), start1))
           /\ kind = "svcScan" /\ key \in DiagRequests => can.scan[key].things = Since(Came(kind, key), start)
<1>1. /\ CanState(kind, key) = State(start, n, alerted) /\ start \in Int
      /\ alerted \in BOOLEAN /\ alerted1 \in BOOLEAN
      /\ Reopened(0, at, CanWindow, start, n, alerted, start1, n1, alerted1)
  BY DEF CanOpens
<1>2. CanWatch(kind, key)
  BY DEF CanInput, CanFloods
<1>3. /\ at \in Nat /\ \A t \in Stamps : t <= at
      /\ Width(kind) = CanWindow /\ CanLimit(kind) \in Nat
      /\ Masked(kind, key) => Masked(kind, key)'
      /\ ~Masked(kind, key)' => at # 0 \/ Came(kind, key) = {}
  BY CanFrameComes
<1>4. PICK s : s = State(start, n, alerted)
  OBVIOUS
<1>5. s.start = start /\ s.n = n /\ s.alerted = alerted /\ s = CanState(kind, key)
  BY <1>1, <1>4 DEF State
<1>6. /\ Watches(kind, key, 0, s.start, s.n, s.alerted)
      /\ kind = "svcScan" /\ key \in DiagRequests => can.scan[key].things = Since(Came(kind, key), s.start)
  BY <1>2, <1>3, <1>5 DEF CanWatch
<1>7. Watching(Came(kind, key), Rang(kind, key), Stamps, CanWindow, CanLimit(kind), 0, start, n, alerted)
  BY <1>3, <1>5, <1>6 DEF Watches, CanLimit
<1>8. CanWindow \in Nat \ {0} /\ 0 \in Int /\ at \in Int /\ (at # 0 \/ Came(kind, key) = {})
  BY <1>3, CanAssumption
<1>9. /\ Watching(Came(kind, key), Rang(kind, key), Stamps \cup {at}, CanWindow, CanLimit(kind),
                  0, start1, n1, alerted1)
      /\ start1 \in Int /\ start1 <= at
  <2>1. PICK came, rang, times, limit :
            /\ came = Came(kind, key) /\ rang = Rang(kind, key) /\ times = Stamps /\ limit = CanLimit(kind)
    OBVIOUS
  <2>2. Watching(came, rang, times, CanWindow, limit, 0, start, n, alerted)
    BY <1>7, <2>1
  <2>3. \A t \in times : t <= at
    BY <1>3, <2>1
  <2>4. at # 0 \/ came = {}
    BY <1>8, <2>1
  <2>5. limit \in Nat
    BY <1>3, <2>1
  <2>6. /\ Watching(came, rang, times \cup {at}, CanWindow, limit, 0, start1, n1, alerted1)
        /\ start1 \in Int /\ start1 <= at
    <3>1. CanWindow \in Nat \ {0} /\ 0 \in Int /\ at \in Int
      BY <1>8
    <3>2. /\ start \in Int /\ alerted \in BOOLEAN /\ alerted1 \in BOOLEAN
          /\ Reopened(0, at, CanWindow, start, n, alerted, start1, n1, alerted1)
      BY <1>1
    <3>3. QED BY ONLY <2>2, <2>3, <2>4, <2>5, <3>1, <3>2, OpenedWatches
  <2>7. QED BY <2>1, <2>6
<1>10. IsFiniteSet(Came(kind, key)) /\ n1 = Cardinality(Since(Came(kind, key), start1))
  BY <1>9 DEF Watching, History, Window
<1>11. n1 \in Nat
  BY <1>10, SinceFinite
<1>12. QED BY <1>5, <1>6, <1>7, <1>9, <1>10, <1>11

\* A window that the frame opens, and is not counted in.
LEMMA CanOpenedOnly ==
    ASSUME NEW f, NEW at, NEW alerts, CanInput(f, at, alerts), NEW kind \in CanKinds, NEW key,
           NEW start, NEW n, NEW alerted, NEW start1, NEW n1, NEW alerted1,
           CanOpens(kind, key, at, start, n, alerted, start1, n1, alerted1),
           kind # "svcScan", key \notin CanCounts(kind, f), ~Rung(alerts, kind, key),
           CanState(kind, key)' = State(start1, n1, alerted1)
    PROVE  CanWatch(kind, key)'
<1>1. CASE Masked(kind, key)'
  BY <1>1 DEF CanWatch
<1>2. CASE ~Masked(kind, key)'
  <2>1. /\ Stamps' = Stamps \cup {at} /\ Width(kind)' = CanWindow
        /\ scenario' = scenario /\ Rang(kind, key)' = Rang(kind, key) /\ Came(kind, key)' = Came(kind, key)
    BY CanFrameComes
  <2>2. /\ Watching(Came(kind, key), Rang(kind, key), Stamps \cup {at}, CanWindow, CanLimit(kind),
                    0, start1, n1, alerted1)
        /\ start1 \in Int /\ n1 \in Nat
    BY <1>2, CanOpened
  <2>3. PICK s : s = State(start1, n1, alerted1)
    OBVIOUS
  <2>4. s.start = start1 /\ s.n = n1 /\ s.alerted = alerted1 /\ s = CanState(kind, key)'
    BY <2>3 DEF State
  <2>5. alerted1 \in BOOLEAN /\ scenario.limits[kind]' = CanLimit(kind)
    BY <2>1 DEF CanOpens, CanLimit
  <2>6. Watches(kind, key, 0, s.start, s.n, s.alerted)'
    BY <2>1, <2>2, <2>4, <2>5 DEF Watches
  <2>7. QED BY <2>4, <2>6 DEF CanWatch
<1>3. QED BY <1>1, <1>2

\* A window that the frame opens, and is counted in.
LEMMA CanCounted ==
    ASSUME NEW f, NEW at, NEW alerts, CanInput(f, at, alerts), NEW kind \in CanKinds, NEW key,
           NEW start, NEW n, NEW alerted, NEW start1, NEW n1, NEW alerted1,
           CanOpens(kind, key, at, start, n, alerted, start1, n1, alerted1),
           NEW thing, thing = (IF kind = "svcScan" THEN Service(f) ELSE Len(traffic) + 1),
           key \in CanCounts(kind, f), NEW n2, NEW alerted2 \in BOOLEAN,
           ~Masked(kind, key)' => n2 = Cardinality(Since(Grown(Came(kind, key), at, thing), start1)),
           alerted2 <=> (alerted1 \/ n2 >= CanLimit(kind)),
           Rung(alerts, kind, key) <=> alerted2 /\ ~alerted1,
           CanState(kind, key)' = State(start1, n2, alerted2),
           kind = "svcScan" /\ key \in DiagRequests /\ ~Masked(kind, key)' =>
                can'.scan[key].things = Since(Grown(Came(kind, key), at, thing), start1)
    PROVE  CanWatch(kind, key)'
<1>1. CASE Masked(kind, key)'
  BY <1>1 DEF CanWatch
<1>2. CASE ~Masked(kind, key)'
  <2>1. /\ at \in Nat /\ \A t \in Stamps : t <= at
        /\ Stamps' = Stamps \cup {at} /\ Width(kind)' = CanWindow /\ CanLimit(kind) \in Nat
        /\ scenario' = scenario /\ at # 0
        /\ Came(kind, key)' = Grown(Came(kind, key), at, thing)
        /\ Rang(kind, key)' = (IF Rung(alerts, kind, key) THEN Rang(kind, key) \cup {at} ELSE Rang(kind, key))
    BY <1>2, CanFrameComes
  <2>2. /\ Watching(Came(kind, key), Rang(kind, key), Stamps, CanWindow, CanLimit(kind),
                    0, start, n, alerted)
        /\ start1 \in Int /\ start1 <= at /\ IsFiniteSet(Came(kind, key))
        /\ Watching(Came(kind, key), Rang(kind, key), Stamps \cup {at}, CanWindow, CanLimit(kind),
                    0, start1, n1, alerted1)
    BY <1>2, CanOpened
  <2>3. PICK s : s = State(start1, n2, alerted2)
    OBVIOUS
  <2>4. s.start = start1 /\ s.n = n2 /\ s.alerted = alerted2 /\ s = CanState(kind, key)'
    BY <2>3 DEF State
  <2>5. scenario.limits[kind]' = CanLimit(kind) /\ alerted1 \in BOOLEAN /\ alerted \in BOOLEAN /\ start \in Int
    BY <2>1 DEF CanOpens, CanLimit
  <2>6. CountedOne(Came(kind, key), Rang(kind, key), Stamps, CanWindow, CanLimit(kind), 0, start, n, alerted,
                   at, thing, start1, n1, alerted1, n2, alerted2)
    <3>1. CanWindow \in Nat \ {0} /\ 0 \in Int /\ at \in Int
      BY <2>1, CanAssumption
    <3>2. Reopened(0, at, CanWindow, start, n, alerted, start1, n1, alerted1)
      BY DEF CanOpens
    <3>3. QED BY <1>2, <2>1, <2>2, <2>5, <3>1, <3>2 DEF CountedOne
  <2>7. Watching(Grown(Came(kind, key), at, thing),
                 IF alerted2 /\ ~alerted1 THEN Rang(kind, key) \cup {at} ELSE Rang(kind, key),
                 Stamps \cup {at}, CanWindow, CanLimit(kind), 0, start1, n2, alerted2)
    BY ONLY <2>6, Counting
  <2>8. Watching(Came(kind, key)', Rang(kind, key)', Stamps', CanWindow, CanLimit(kind), 0, start1, n2, alerted2)
    <3>1. Rang(kind, key)' = IF alerted2 /\ ~alerted1 THEN Rang(kind, key) \cup {at} ELSE Rang(kind, key)
      BY <2>1
    <3>2. QED BY <2>1, <2>7, <3>1
  <2>9. n2 \in Nat
    <3>1. IsFiniteSet(Came(kind, key)')
      BY <2>8 DEF Watching, History
    <3>2. QED BY <1>2, <2>1, <3>1, SinceFinite
  <2>10. Watches(kind, key, 0, s.start, s.n, s.alerted)'
    BY <2>1, <2>2, <2>4, <2>5, <2>8, <2>9 DEF Watches
  <2>11. kind = "svcScan" /\ key \in DiagRequests => can'.scan[key].things = Since(Came(kind, key)', s.start)
    BY <1>2, <2>1, <2>4
  <2>12. QED BY <2>4, <2>10, <2>11 DEF CanWatch
<1>3. QED BY <1>1, <1>2

\* How the records of diagnostics are opened.
LEMMA SecOpens ==
    ASSUME NEW w \in SecType, NEW now \in Int, NEW width \in Nat,
           NEW open, open = Opened(w, SecAccess, now, width)
    PROVE  /\ open \in SecType
           /\ Reopened(0, now, width, w.start, w.seeds, w.seed_alerted, open.start, open.seeds, open.seed_alerted)
           /\ Reopened(0, now, width, w.start, w.keys, w.key_alerted, open.start, open.keys, open.key_alerted)
<1>1. PICK fresh : fresh = SecAccess
  OBVIOUS
<1>2. /\ fresh \in SecType /\ fresh.start = 0 /\ fresh.seeds = 0 /\ fresh.keys = 0
      /\ fresh.seed_alerted = FALSE /\ fresh.key_alerted = FALSE
  BY <1>1 DEF SecAccess, SecType
<1>3. w.start \in Int
  BY DEF SecType
<1>4. CASE w.start = 0
  <2>1. open = [w EXCEPT !.start = now]
    BY <1>1, <1>2, <1>4 DEF Opened
  <2>2. /\ open \in SecType /\ open.start = now /\ open.seeds = w.seeds /\ open.keys = w.keys
        /\ open.seed_alerted = w.seed_alerted /\ open.key_alerted = w.key_alerted
    BY <2>1 DEF SecType
  <2>3. QED BY <1>4, <2>2 DEF Reopened
<1>5. CASE w.start # 0 /\ Elapsed(w.start, now, width)
  <2>1. open = [fresh EXCEPT !.start = now]
    BY <1>1, <1>2, <1>5 DEF Opened
  <2>2. /\ open \in SecType /\ open.start = now /\ open.seeds = 0 /\ open.keys = 0
        /\ open.seed_alerted = FALSE /\ open.key_alerted = FALSE
    BY <1>2, <2>1 DEF SecType
  <2>3. QED BY <1>5, <2>2 DEF Reopened
<1>6. CASE w.start # 0 /\ ~Elapsed(w.start, now, width)
  <2>1. open = w
    BY <1>1, <1>2, <1>6 DEF Opened
  <2>2. QED BY <1>6, <2>1 DEF Reopened
<1>7. QED BY <1>4, <1>5, <1>6

\* And how those of the scans are, which open says of w.
ScanOpened(w, now, width, open) ==
    /\ IsScan(open)
    /\ \/ w.start = 0 /\ open.start = now /\ open.things = w.things /\ open.alerted = w.alerted
       \/ /\ w.start # 0 /\ Elapsed(w.start, now, width)
          /\ open.start = now /\ open.things = {} /\ open.alerted = FALSE
       \/ w.start # 0 /\ ~Elapsed(w.start, now, width) /\ open = w

OpensScan(w, now, width, open) ==
    /\ IsScan(w) /\ now \in Int /\ width \in Nat
    /\ open = Opened(w, Distinct(0), now, width)

\* The window of a scan when it is opened.
LEMMA ScanOpens ==
    ASSUME NEW w, NEW now, NEW width, NEW open, OpensScan(w, now, width, open)
    PROVE  ScanOpened(w, now, width, open)
<1>0. IsScan(w) /\ now \in Int /\ width \in Nat /\ open = Opened(w, Distinct(0), now, width)
  BY DEF OpensScan
<1> USE <1>0 DEF ScanOpened
<1>1. PICK fresh : fresh = Distinct(0)
  OBVIOUS
<1>2. /\ IsScan(fresh) /\ fresh.start = 0 /\ fresh.things = {} /\ fresh.alerted = FALSE
  BY <1>1 DEF Distinct, IsScan
<1>3. w.start \in Int
  BY DEF IsScan
<1>4. CASE w.start = 0
  <2>1. open = [w EXCEPT !.start = now]
    BY <1>1, <1>2, <1>4 DEF Opened
  <2>2. IsScan(open) /\ open.start = now /\ open.things = w.things /\ open.alerted = w.alerted
    BY <2>1 DEF IsScan
  <2>3. QED BY <1>4, <2>2
<1>5. CASE w.start # 0 /\ Elapsed(w.start, now, width)
  <2>1. open = [fresh EXCEPT !.start = now]
    BY <1>1, <1>2, <1>5 DEF Opened
  <2>2. IsScan(open) /\ open.start = now /\ open.things = {} /\ open.alerted = FALSE
    BY <1>2, <2>1 DEF IsScan
  <2>3. QED BY <1>5, <2>2
<1>6. CASE w.start # 0 /\ ~Elapsed(w.start, now, width)
  <2>1. open = w
    BY <1>1, <1>2, <1>6 DEF Opened
  <2>2. QED BY <1>6, <2>1
<1>7. QED BY <1>4, <1>5, <1>6

\* Which alerts with a limit a data frame raises.
DataRings(f, at, kind, key) ==
    \/ kind = "idFlood" /\ key = f.id /\ RaisedBy(can.ids[f.id], at, "idFlood")
    \/ kind = "busFlood" /\ key = "bus" /\ RaisedBy(can.bus, at, "busFlood")
    \/ /\ f.id \in DiagRequests /\ key = f.id
       /\ \/ kind = "diagFlood" /\ RaisedBy(can.diag[f.id], at, "diagFlood")
          \/ kind = "seedFlood" /\ SeedsRaised(f, at)
          \/ kind = "keyGuess" /\ KeysRaised(f, at)
          \/ kind = "svcScan" /\ ScanRaised(f, at)

\* What a data frame is alerted for.
LEMMA DataAlerts ==
    ASSUME NEW f, NEW at, FeedData(f, at)
    PROVE  \E alerts : /\ IsSeq(alerts) /\ Report(alerts, at)
                       /\ \A kind \in CanKinds : \A key : Rung(alerts, kind, key) <=> DataRings(f, at, kind, key)
<1>1. PICK a1, a2, a3, a4, a5, a6, a7, a8, a9 :
        /\ a1 = When(~f.legal, "dlc", "dlc", f.id)
        /\ a2 = When(Unknown(f), "unknownId", "unknownId", f.id)
        /\ a3 = When(TooSoon(f, at), "cycle", "cycle", f.id)
        /\ a4 = When(RaisedBy(can.ids[f.id], at, "idFlood"), "idFlood", "idFlood", f.id)
        /\ a5 = When(RaisedBy(can.bus, at, "busFlood"), "busFlood", "busFlood", "bus")
        /\ a6 = When(RaisedBy(can.diag[f.id], at, "diagFlood"), "diagFlood", "diagFlood", f.id)
        /\ a7 = When(SeedsRaised(f, at), "secAccess", "seedFlood", f.id)
        /\ a8 = When(KeysRaised(f, at), "secAccess", "keyGuess", f.id)
        /\ a9 = When(ScanRaised(f, at), "svcScan", "svcScan", f.id)
  OBVIOUS
<1>2. PICK others : others = (IF f.id \notin DiagRequests THEN <<>> ELSE a6 \o a7 \o a8 \o a9)
  OBVIOUS
<1>3. PICK alerts : alerts = a1 \o a2 \o a3 \o a4 \o a5 \o others
  OBVIOUS
<1>4. Report(alerts, at)
  BY <1>1, <1>2, <1>3 DEF FeedData
<1>5. \A kind \in CanKinds : \A key :
        /\ ~Rung(a1, kind, key) /\ ~Rung(a2, kind, key) /\ ~Rung(a3, kind, key)
        /\ Rung(a4, kind, key) <=> RaisedBy(can.ids[f.id], at, "idFlood") /\ kind = "idFlood" /\ key = f.id
        /\ Rung(a5, kind, key) <=> RaisedBy(can.bus, at, "busFlood") /\ kind = "busFlood" /\ key = "bus"
        /\ Rung(a6, kind, key) <=> RaisedBy(can.diag[f.id], at, "diagFlood") /\ kind = "diagFlood" /\ key = f.id
        /\ Rung(a7, kind, key) <=> SeedsRaised(f, at) /\ kind = "seedFlood" /\ key = f.id
        /\ Rung(a8, kind, key) <=> KeysRaised(f, at) /\ kind = "keyGuess" /\ key = f.id
        /\ Rung(a9, kind, key) <=> ScanRaised(f, at) /\ kind = "svcScan" /\ key = f.id
  BY <1>1, WhenRings DEF CanKinds
<1>6. /\ IsSeq(a1) /\ IsSeq(a2) /\ IsSeq(a3) /\ IsSeq(a4) /\ IsSeq(a5) /\ IsSeq(a6)
      /\ IsSeq(a7) /\ IsSeq(a8) /\ IsSeq(a9)
  BY <1>1, WhenRings
<1>7. /\ IsSeq(others)
      /\ \A kind, key : Rung(others, kind, key) <=>
            /\ f.id \in DiagRequests
            /\ Rung(a6, kind, key) \/ Rung(a7, kind, key) \/ Rung(a8, kind, key) \/ Rung(a9, kind, key)
  <2>1. CASE f.id \in DiagRequests
    <3>1. PICK b, c, d : b = a6 \o a7 /\ c = b \o a8 /\ d = c \o a9
      OBVIOUS
    <3>2. IsSeq(b) /\ \A kind, key : Rung(b, kind, key) <=> Rung(a6, kind, key) \/ Rung(a7, kind, key)
      BY <1>6, <3>1, JoinedRings
    <3>3. IsSeq(c) /\ \A kind, key : Rung(c, kind, key) <=> Rung(b, kind, key) \/ Rung(a8, kind, key)
      BY <1>6, <3>1, <3>2, JoinedRings
    <3>4. IsSeq(d) /\ \A kind, key : Rung(d, kind, key) <=> Rung(c, kind, key) \/ Rung(a9, kind, key)
      BY <1>6, <3>1, <3>3, JoinedRings
    <3>5. others = d
      BY <1>2, <2>1, <3>1
    <3>6. QED BY <2>1, <3>2, <3>3, <3>4, <3>5
  <2>2. CASE f.id \notin DiagRequests
    <3>1. others = <<>> /\ DOMAIN <<>> = {}
      BY <1>2, <2>2
    <3>2. QED BY <2>2, <3>1, SingleSeq DEF Rung
  <2>3. QED BY <2>1, <2>2
<1>8. /\ IsSeq(alerts)
      /\ \A kind, key : Rung(alerts, kind, key) <=>
            \/ Rung(a1, kind, key) \/ Rung(a2, kind, key) \/ Rung(a3, kind, key)
            \/ Rung(a4, kind, key) \/ Rung(a5, kind, key) \/ Rung(others, kind, key)
  <2>1. PICK b, c, d, e : b = a1 \o a2 /\ c = b \o a3 /\ d = c \o a4 /\ e = d \o a5
    OBVIOUS
  <2>2. IsSeq(b) /\ \A kind, key : Rung(b, kind, key) <=> Rung(a1, kind, key) \/ Rung(a2, kind, key)
    BY <1>6, <2>1, JoinedRings
  <2>3. IsSeq(c) /\ \A kind, key : Rung(c, kind, key) <=> Rung(b, kind, key) \/ Rung(a3, kind, key)
    BY <1>6, <2>1, <2>2, JoinedRings
  <2>4. IsSeq(d) /\ \A kind, key : Rung(d, kind, key) <=> Rung(c, kind, key) \/ Rung(a4, kind, key)
    BY <1>6, <2>1, <2>3, JoinedRings
  <2>5. IsSeq(e) /\ \A kind, key : Rung(e, kind, key) <=> Rung(d, kind, key) \/ Rung(a5, kind, key)
    BY <1>6, <2>1, <2>4, JoinedRings
  <2>6. alerts = e \o others
    BY <1>3, <2>1
  <2>7. IsSeq(alerts) /\ \A kind, key : Rung(alerts, kind, key) <=> Rung(e, kind, key) \/ Rung(others, kind, key)
    BY <1>7, <2>5, <2>6, JoinedRings
  <2>8. QED BY <2>2, <2>3, <2>4, <2>5, <2>7
<1>9. ASSUME NEW kind \in CanKinds, NEW key
      PROVE  Rung(alerts, kind, key) <=> DataRings(f, at, kind, key)
  BY <1>5, <1>7, <1>8 DEF DataRings
<1>10. QED BY <1>4, <1>8, <1>9

\* What an error frame does.
LEMMA ErrorKept ==
    ASSUME Recorded, scenario.probe = "can", CanFloods, NEW f, NEW at, Arrives(f, at), FeedError(f, at)
    PROVE  CanFloods'
<1>1. PICK alerts : alerts = When(RaisedBy(can.errs, at, "errBurst"), "errBurst", "errBurst", "bus")
  OBVIOUS
<1>2. Report(alerts, at) /\ f.err
  BY <1>1 DEF FeedError
<1>3. /\ IsSeq(alerts)
      /\ \A kind, key : Rung(alerts, kind, key) <=>
            RaisedBy(can.errs, at, "errBurst") /\ kind = "errBurst" /\ key = "bus"
  BY <1>1, WhenRings
<1>4. CanInput(f, at, alerts)
  BY <1>2, <1>3 DEF CanInput
<1>5. PICK open, v : open = Opened(can.errs, Counter(0), at, CanWindow) /\ v = Counted(open, CanLimit("errBurst"))
  OBVIOUS
<1>6. CanTyped /\ "errBurst" \in CanKinds
  BY DEF CanFloods, CanKinds
<1>7. can' = [can EXCEPT !.errs = v] /\ (RaisedBy(can.errs, at, "errBurst") <=> Raised(open, v))
  BY <1>5 DEF FeedError, CountedBy, RaisedBy
<1>8. /\ DOMAIN can' = DOMAIN can /\ can'.errs = v /\ can'.ids = can.ids /\ can'.bus = can.bus
      /\ can'.diag = can.diag /\ can'.sec = can.sec /\ can'.scan = can.scan
  BY <1>6, <1>7 DEF CanTyped
<1>9. v \in CounterType
  <2>1. at \in Nat /\ CanLimit("errBurst") \in Nat
    BY <1>4, <1>6, CanFrameComes
  <2>2. can.errs \in CounterType /\ 0 \in Int /\ at \in Int /\ CanWindow \in Nat
    BY <1>6, <2>1, CanAssumption DEF CanTyped
  <2>3. QED BY <1>5, <2>1, <2>2, CounterSteps
<1>10. CanTyped'
  BY <1>6, <1>8, <1>9 DEF CanTyped
<1>11. ASSUME NEW kind \in CanKinds, NEW key PROVE CanWatch(kind, key)'
  <2>1. CASE kind = "errBurst" /\ key = "bus"
    <3>1. CanState(kind, key) = OfCounter(can.errs) /\ CanState(kind, key)' = OfCounter(v)
      BY <1>8, <2>1 DEF CanState
    <3>2. key \in CanCounts(kind, f) /\ kind # "svcScan"
      BY <1>2, <2>1 DEF CanCounts
    <3>3. Rung(alerts, kind, key) <=> Raised(open, v)
      BY <1>3, <1>7, <2>1
    <3>4. PICK w \in CounterType : w = can.errs
      BY <1>6 DEF CanTyped
    <3>5. open = Opened(w, Counter(0), at, CanWindow) /\ v = Counted(open, CanLimit(kind))
      BY <1>5, <2>1, <3>4
    <3>6. QED BY <1>4, <3>1, <3>2, <3>3, <3>4, <3>5, CanCounter
  <2>2. CASE ~(kind = "errBurst" /\ key = "bus")
    <3>1. CanState(kind, key)' = CanState(kind, key)
      BY <1>8, <2>2 DEF CanState, CanKinds
    <3>2. key \notin CanCounts(kind, f)
      BY <1>2, <2>2 DEF CanCounts, CanKinds
    <3>3. ~Rung(alerts, kind, key)
      BY <1>3, <2>2
    <3>4. QED BY <1>4, <1>8, <3>1, <3>2, <3>3, CanIdle
  <2>3. QED BY <2>1, <2>2
<1>12. QED BY <1>10, <1>11 DEF CanFloods

\* What a remote frame does.
LEMMA RemoteKept ==
    ASSUME Recorded, scenario.probe = "can", CanFloods, NEW f, NEW at, Arrives(f, at), FeedRemote(f, at)
    PROVE  CanFloods'
<1>1. PICK alerts : alerts = When(TRUE, "remote", "remote", f.id)
  OBVIOUS
<1>2. Report(alerts, at) /\ ~f.err /\ f.rtr /\ can' = can
  BY <1>1 DEF FeedRemote
<1>3. IsSeq(alerts) /\ \A kind \in CanKinds : \A key : ~Rung(alerts, kind, key)
  <2>1. IsSeq(alerts) /\ \A kind, key : Rung(alerts, kind, key) => kind = "remote"
    <3>1. PICK a : a = [sev |-> "remote", kind |-> "remote", key |-> f.id]
      OBVIOUS
    <3>2. alerts = <<a>> /\ a.kind = "remote"
      BY <1>1, <3>1 DEF When
    <3>3. QED BY <3>2, OneRings
  <2>2. QED BY <2>1 DEF CanKinds
<1>4. CanInput(f, at, alerts)
  BY <1>2, <1>3 DEF CanInput
<1>5. CanTyped'
  <2>1. CanTyped
    BY DEF CanFloods
  <2>2. QED BY <1>2, <2>1 DEF CanTyped, IsScan
<1>6. ASSUME NEW kind \in CanKinds, NEW key PROVE CanWatch(kind, key)'
  <2>1. CanState(kind, key)' = CanState(kind, key)
    BY <1>2 DEF CanState
  <2>2. key \notin CanCounts(kind, f)
    BY <1>2 DEF CanCounts, CanKinds
  <2>3. QED BY <1>2, <1>3, <1>4, <2>1, <2>2, CanIdle
<1>7. QED BY <1>5, <1>6 DEF CanFloods

-----------------------------------------------------------------------------
\* What a data frame does to the windows.
DataMoves(f, at, alerts) ==
    /\ CanInput(f, at, alerts) /\ CanTyped /\ f.id \in CanIds /\ ~f.err /\ ~f.rtr
    /\ \A kind \in CanKinds : \A key : Rung(alerts, kind, key) <=> DataRings(f, at, kind, key)
    /\ can'.errs = can.errs /\ can'.bus = CountedBy(can.bus, at, "busFlood")
    /\ \A i \in CanIds : can'.ids[i] = IF i = f.id THEN CountedBy(can.ids[i], at, "idFlood") ELSE can.ids[i]
    /\ \A i \in DiagRequests :
        IF i = f.id
        THEN /\ can'.diag[i] = CountedBy(can.diag[i], at, "diagFlood")
             /\ can'.sec[i] = SecAfter(f, at) /\ can'.scan[i] = ScanAfter(f, at)
        ELSE /\ can'.diag[i] = can.diag[i] /\ can'.sec[i] = can.sec[i] /\ can'.scan[i] = can.scan[i]

\* The counters of the data frames.
LEMMA DataCounters ==
    ASSUME NEW f, NEW at, NEW alerts, DataMoves(f, at, alerts),
           NEW kind \in {"errBurst", "idFlood", "busFlood", "diagFlood"}, NEW key
    PROVE  CanWatch(kind, key)'
<1> USE DEF DataMoves
<1>1. CanInput(f, at, alerts) /\ kind \in CanKinds /\ kind # "svcScan"
  BY DEF CanKinds
<1>2. ASSUME NEW w \in CounterType, key \in CanCounts(kind, f),
             CanState(kind, key) = OfCounter(w), CanState(kind, key)' = OfCounter(CountedBy(w, at, kind)),
             DataRings(f, at, kind, key) <=> RaisedBy(w, at, kind)
      PROVE  CanWatch(kind, key)'
  <2>1. PICK open, v : open = Opened(w, Counter(0), at, CanWindow) /\ v = Counted(open, CanLimit(kind))
    OBVIOUS
  <2>2. v = CountedBy(w, at, kind) /\ (RaisedBy(w, at, kind) <=> Raised(open, v))
    BY <2>1 DEF CountedBy, RaisedBy
  <2>3. Rung(alerts, kind, key) <=> Raised(open, v)
    BY <1>1, <1>2, <2>2
  <2>4. CanState(kind, key)' = OfCounter(v)
    BY <1>2, <2>2
  <2>5. QED BY <1>1, <1>2, <2>1, <2>3, <2>4, CanCounter
<1>3. ASSUME key \notin CanCounts(kind, f), CanState(kind, key)' = CanState(kind, key),
             ~DataRings(f, at, kind, key)
      PROVE  CanWatch(kind, key)'
  <2>1. ~Rung(alerts, kind, key)
    BY <1>1, <1>3
  <2>2. QED BY <1>1, <1>3, <2>1, CanIdle
<1>4. CASE kind = "errBurst"
  <2>1. key \notin CanCounts(kind, f) /\ ~DataRings(f, at, kind, key)
    BY <1>4 DEF CanCounts, DataRings
  <2>2. CanState(kind, key)' = CanState(kind, key)
    BY <1>4 DEF CanState
  <2>3. QED BY <1>3, <2>1, <2>2
<1>5. CASE kind = "idFlood"
  <2>1. CASE key = f.id
    <3>1. key \in CanCounts(kind, f) /\ (DataRings(f, at, kind, key) <=> RaisedBy(can.ids[key], at, kind))
      BY <1>5, <2>1 DEF CanCounts, DataRings
    <3>2. CanState(kind, key) = OfCounter(can.ids[key]) /\ can.ids[key] \in CounterType
      BY <1>5, <2>1 DEF CanState, CanTyped
    <3>3. CanState(kind, key)' = OfCounter(CountedBy(can.ids[key], at, kind))
      <4>1. CanState(kind, key)' = OfCounter(can'.ids[key])
        BY <1>5, <2>1 DEF CanState, OfCounter
      <4>2. can'.ids[key] = CountedBy(can.ids[key], at, kind)
        BY <1>5, <2>1
      <4>3. QED BY <4>1, <4>2
    <3>4. QED BY <1>2, <3>1, <3>2, <3>3
  <2>2. CASE key # f.id
    <3>1. key \notin CanCounts(kind, f) /\ ~DataRings(f, at, kind, key)
      BY <1>5, <2>2 DEF CanCounts, DataRings
    <3>2. CanState(kind, key)' = CanState(kind, key)
      BY <1>5, <2>2 DEF CanState
    <3>3. QED BY <1>3, <3>1, <3>2
  <2>3. QED BY <2>1, <2>2
<1>6. CASE kind = "busFlood"
  <2>1. CASE key = "bus"
    <3>1. key \in CanCounts(kind, f) /\ (DataRings(f, at, kind, key) <=> RaisedBy(can.bus, at, kind))
      BY <1>6, <2>1 DEF CanCounts, DataRings
    <3>2. CanState(kind, key) = OfCounter(can.bus) /\ can.bus \in CounterType
      BY <1>6, <2>1 DEF CanState, CanTyped
    <3>3. CanState(kind, key)' = OfCounter(CountedBy(can.bus, at, kind))
      BY <1>6, <2>1 DEF CanState
    <3>4. QED BY <1>2, <3>1, <3>2, <3>3
  <2>2. CASE key # "bus"
    <3>1. key \notin CanCounts(kind, f) /\ ~DataRings(f, at, kind, key)
      BY <1>6, <2>2 DEF CanCounts, DataRings
    <3>2. CanState(kind, key)' = CanState(kind, key)
      BY <1>6, <2>2 DEF CanState
    <3>3. QED BY <1>3, <3>1, <3>2
  <2>3. QED BY <2>1, <2>2
<1>7. CASE kind = "diagFlood"
  <2>1. CASE key = f.id /\ f.id \in DiagRequests
    <3>1. key \in CanCounts(kind, f) /\ (DataRings(f, at, kind, key) <=> RaisedBy(can.diag[key], at, kind))
      BY <1>7, <2>1 DEF CanCounts, DataRings
    <3>2. CanState(kind, key) = OfCounter(can.diag[key]) /\ can.diag[key] \in CounterType
      BY <1>7, <2>1 DEF CanState, CanTyped
    <3>3. CanState(kind, key)' = OfCounter(CountedBy(can.diag[key], at, kind))
      <4>1. CanState(kind, key)' = OfCounter(can'.diag[key])
        BY <1>7, <2>1 DEF CanState, OfCounter
      <4>2. can'.diag[key] = CountedBy(can.diag[key], at, kind)
        BY <1>7, <2>1
      <4>3. QED BY <4>1, <4>2
    <3>4. QED BY <1>2, <3>1, <3>2, <3>3
  <2>2. CASE ~(key = f.id /\ f.id \in DiagRequests)
    <3>1. key \notin CanCounts(kind, f) /\ ~DataRings(f, at, kind, key)
      BY <1>7, <2>2 DEF CanCounts, DataRings
    <3>2. CanState(kind, key)' = CanState(kind, key)
      BY <1>7, <2>2 DEF CanState
    <3>3. QED BY <1>3, <3>1, <3>2
  <2>3. QED BY <2>1, <2>2
<1>8. QED BY <1>4, <1>5, <1>6, <1>7

\* A window of SecurityAccess counts one more.
LEMMA CanOneMore ==
    ASSUME NEW f, NEW at, NEW alerts, CanInput(f, at, alerts), NEW kind \in CanKinds, NEW key,
           NEW start, NEW n, NEW alerted, NEW start1, NEW n1, NEW alerted1,
           CanOpens(kind, key, at, start, n, alerted, start1, n1, alerted1), kind # "svcScan",
           ~Masked(kind, key)'
    PROVE  n1 + 1 = Cardinality(Since(Grown(Came(kind, key), at, Len(traffic) + 1), start1))
<1>1. at \in Nat /\ \A c \in Came(kind, key) : c[2] # Len(traffic) + 1
  BY CanFrameComes
<1>2. /\ start1 \in Int /\ start1 <= at /\ IsFiniteSet(Came(kind, key))
      /\ n1 = Cardinality(Since(Came(kind, key), start1))
  <2>1. /\ Watching(Came(kind, key), Rang(kind, key), Stamps \cup {at}, CanWindow, CanLimit(kind),
                    0, start1, n1, alerted1)
        /\ start1 \in Int /\ start1 <= at
    BY CanOpened
  <2>2. QED BY <2>1 DEF Watching, History, Window
<1>3. PICK came, thing : came = Came(kind, key) /\ thing = Len(traffic) + 1
  OBVIOUS
<1>4. Cardinality(Since(Grown(came, at, thing), start1)) = Cardinality(Since(came, start1)) + 1
  <2>1. /\ came = Came(kind, key) /\ IsFiniteSet(came) /\ start1 \in Int /\ at \in Int /\ start1 <= at
        /\ \A c \in came : c[2] # thing
    BY <1>1, <1>2, <1>3
  <2>2. QED BY ONLY <2>1, OneMoreCounted
<1>5. QED BY <1>2, <1>3, <1>4

\* What SecurityAccess is after a request.
LEMMA SecIs ==
    ASSUME NEW f, NEW at \in Int, NEW w \in SecType, w = can.sec[f.id],
           NEW open, open = OpenSec(f, at), open \in SecType,
           NEW v, v = SecAfter(f, at)
    PROVE  /\ v \in SecType
           /\ f.uds = "seed" =>
                /\ v.start = open.start /\ v.keys = open.keys /\ v.key_alerted = open.key_alerted
                /\ v.seeds = open.seeds + 1
                /\ v.seed_alerted <=> (open.seed_alerted \/ v.seeds >= CanLimit("seedFlood"))
           /\ f.uds = "key" =>
                /\ v.start = open.start /\ v.seeds = open.seeds /\ v.seed_alerted = open.seed_alerted
                /\ v.keys = open.keys + 1
                /\ v.key_alerted <=> (open.key_alerted \/ v.keys >= CanLimit("keyGuess"))
           /\ f.uds \notin {"seed", "key"} => v = w
<1>1. CASE f.uds = "seed"
  <2>1. v = [open EXCEPT !.seeds = open.seeds + 1,
                         !.seed_alerted = open.seed_alerted \/ open.seeds + 1 >= CanLimit("seedFlood")]
    BY <1>1 DEF SecAfter
  <2>2. /\ v.start = open.start /\ v.keys = open.keys /\ v.key_alerted = open.key_alerted
        /\ v.seeds = open.seeds + 1
        /\ v.seed_alerted = (open.seed_alerted \/ open.seeds + 1 >= CanLimit("seedFlood"))
    BY <2>1 DEF SecType
  <2>3. open.seeds + 1 \in Nat /\ (open.seed_alerted \/ open.seeds + 1 >= CanLimit("seedFlood")) \in BOOLEAN
    BY DEF SecType
  <2>4. v \in SecType
    BY <2>1, <2>3 DEF SecType
  <2>5. v.seed_alerted <=> (open.seed_alerted \/ v.seeds >= CanLimit("seedFlood"))
    BY <2>2
  <2>6. QED BY <1>1, <2>2, <2>4, <2>5
<1>2. CASE f.uds = "key"
  <2>1. v = [open EXCEPT !.keys = open.keys + 1,
                         !.key_alerted = open.key_alerted \/ open.keys + 1 >= CanLimit("keyGuess")]
    BY <1>2 DEF SecAfter
  <2>2. /\ v.start = open.start /\ v.seeds = open.seeds /\ v.seed_alerted = open.seed_alerted
        /\ v.keys = open.keys + 1
        /\ v.key_alerted = (open.key_alerted \/ open.keys + 1 >= CanLimit("keyGuess"))
    BY <2>1 DEF SecType
  <2>3. open.keys + 1 \in Nat /\ (open.key_alerted \/ open.keys + 1 >= CanLimit("keyGuess")) \in BOOLEAN
    BY DEF SecType
  <2>4. v \in SecType
    BY <2>1, <2>3 DEF SecType
  <2>5. v.key_alerted <=> (open.key_alerted \/ v.keys >= CanLimit("keyGuess"))
    BY <2>2
  <2>6. QED BY <1>2, <2>2, <2>4, <2>5
<1>3. CASE f.uds \notin {"seed", "key"}
  BY <1>3 DEF SecAfter
<1>4. QED BY <1>1, <1>2, <1>3

\* The two windows of SecurityAccess.
LEMMA DataSec ==
    ASSUME NEW f, NEW at, NEW alerts, DataMoves(f, at, alerts),
           NEW kind \in {"seedFlood", "keyGuess"}, NEW key
    PROVE  CanWatch(kind, key)'
<1> USE DEF DataMoves
<1>1. CanInput(f, at, alerts) /\ kind \in CanKinds /\ kind # "svcScan"
  BY DEF CanKinds
<1>2. ASSUME key \notin CanCounts(kind, f), CanState(kind, key)' = CanState(kind, key),
             ~DataRings(f, at, kind, key)
      PROVE  CanWatch(kind, key)'
  <2>1. ~Rung(alerts, kind, key)
    BY <1>1, <1>2
  <2>2. QED BY <1>1, <1>2, <2>1, CanIdle
<1>3. CASE ~(key = f.id /\ f.id \in DiagRequests)
  <2>1. key \notin CanCounts(kind, f) /\ ~DataRings(f, at, kind, key)
    BY <1>3 DEF CanCounts, DataRings
  <2>2. CanState(kind, key)' = CanState(kind, key)
    BY <1>3 DEF CanState
  <2>3. QED BY <1>2, <2>1, <2>2
<1>4. CASE key = f.id /\ f.id \in DiagRequests
  <2>1. PICK w \in SecType : w = can.sec[key]
    BY <1>4 DEF CanTyped
  <2>2. PICK open : open = OpenSec(f, at)
    OBVIOUS
  <2>3. at \in Int
    BY <1>1, CanFrameComes
  <2>4. /\ open \in SecType
        /\ Reopened(0, at, CanWindow, w.start, w.seeds, w.seed_alerted, open.start, open.seeds, open.seed_alerted)
        /\ Reopened(0, at, CanWindow, w.start, w.keys, w.key_alerted, open.start, open.keys, open.key_alerted)
    <3>1. open = Opened(w, SecAccess, at, CanWindow) /\ CanWindow \in Nat
      BY <1>4, <2>1, <2>2, CanAssumption DEF OpenSec
    <3>2. QED BY <2>3, <3>1, SecOpens
  <2>5. PICK v : v = SecAfter(f, at)
    OBVIOUS
  <2>6. /\ v \in SecType
        /\ f.uds = "seed" =>
             /\ v.start = open.start /\ v.keys = open.keys /\ v.key_alerted = open.key_alerted
             /\ v.seeds = open.seeds + 1
             /\ v.seed_alerted <=> (open.seed_alerted \/ v.seeds >= CanLimit("seedFlood"))
        /\ f.uds = "key" =>
             /\ v.start = open.start /\ v.seeds = open.seeds /\ v.seed_alerted = open.seed_alerted
             /\ v.keys = open.keys + 1
             /\ v.key_alerted <=> (open.key_alerted \/ v.keys >= CanLimit("keyGuess"))
        /\ f.uds \notin {"seed", "key"} => v = w
    BY <1>4, <2>1, <2>2, <2>3, <2>4, <2>5, SecIs
  <2>7. can'.sec[key] = v
    BY <1>4, <2>5
  <2>8. /\ kind = "seedFlood" => /\ CanState(kind, key) = State(w.start, w.seeds, w.seed_alerted)
                                 /\ CanState(kind, key)' = State(v.start, v.seeds, v.seed_alerted)
        /\ kind = "keyGuess" => /\ CanState(kind, key) = State(w.start, w.keys, w.key_alerted)
                                /\ CanState(kind, key)' = State(v.start, v.keys, v.key_alerted)
    BY <1>4, <2>1, <2>7 DEF CanState, State
  <2>9. /\ w.start \in Int /\ w.seed_alerted \in BOOLEAN /\ w.key_alerted \in BOOLEAN
        /\ open.seed_alerted \in BOOLEAN /\ open.key_alerted \in BOOLEAN
        /\ v.seed_alerted \in BOOLEAN /\ v.key_alerted \in BOOLEAN
    BY <2>4, <2>6 DEF SecType
  <2>10. CASE f.uds \notin {"seed", "key"}
    <3>1. key \notin CanCounts(kind, f) /\ ~DataRings(f, at, kind, key)
      BY <2>10 DEF CanCounts, DataRings, SeedsRaised, KeysRaised
    <3>2. CanState(kind, key)' = CanState(kind, key)
      BY <2>6, <2>8, <2>10
    <3>3. QED BY <1>2, <3>1, <3>2
  <2>11. CASE kind = "seedFlood" /\ f.uds = "seed"
    <3>1. key \in CanCounts(kind, f)
      BY <1>4, <2>11 DEF CanCounts
    <3>2. DataRings(f, at, kind, key) <=> v.seed_alerted /\ ~open.seed_alerted
      BY <1>4, <2>2, <2>5, <2>11 DEF DataRings, SeedsRaised
    <3>3. CanOpens(kind, key, at, w.start, w.seeds, w.seed_alerted, open.start, open.seeds, open.seed_alerted)
      BY <2>4, <2>8, <2>9, <2>11 DEF CanOpens
    <3>4. PICK start, n, start1, n1, n2 :
            start = w.start /\ n = w.seeds /\ start1 = open.start /\ n1 = open.seeds /\ n2 = v.seeds
      OBVIOUS
    <3>5. PICK alerted, alerted1, alerted2 \in BOOLEAN :
            alerted = w.seed_alerted /\ alerted1 = open.seed_alerted /\ alerted2 = v.seed_alerted
      BY <2>9
    <3>6. CanOpens(kind, key, at, start, n, alerted, start1, n1, alerted1)
      BY <3>3, <3>4, <3>5
    <3>7. n2 = n1 + 1 /\ (alerted2 <=> (alerted1 \/ n2 >= CanLimit(kind)))
          /\ CanState(kind, key)' = State(start1, n2, alerted2)
      BY <2>6, <2>8, <2>11, <3>4, <3>5
    <3>8. Rung(alerts, kind, key) <=> alerted2 /\ ~alerted1
      BY <1>1, <3>2, <3>5
    <3>9. ~Masked(kind, key)' => n2 = Cardinality(Since(Grown(Came(kind, key), at, Len(traffic) + 1), start1))
      BY <1>1, <3>6, <3>7, CanOneMore
    <3>10. QED BY <1>1, <3>1, <3>6, <3>7, <3>8, <3>9, CanCounted
  <2>12. CASE kind = "keyGuess" /\ f.uds = "key"
    <3>1. key \in CanCounts(kind, f)
      BY <1>4, <2>12 DEF CanCounts
    <3>2. DataRings(f, at, kind, key) <=> v.key_alerted /\ ~open.key_alerted
      BY <1>4, <2>2, <2>5, <2>12 DEF DataRings, KeysRaised
    <3>3. CanOpens(kind, key, at, w.start, w.keys, w.key_alerted, open.start, open.keys, open.key_alerted)
      BY <2>4, <2>8, <2>9, <2>12 DEF CanOpens
    <3>4. PICK start, n, start1, n1, n2 :
            start = w.start /\ n = w.keys /\ start1 = open.start /\ n1 = open.keys /\ n2 = v.keys
      OBVIOUS
    <3>5. PICK alerted, alerted1, alerted2 \in BOOLEAN :
            alerted = w.key_alerted /\ alerted1 = open.key_alerted /\ alerted2 = v.key_alerted
      BY <2>9
    <3>6. CanOpens(kind, key, at, start, n, alerted, start1, n1, alerted1)
      BY <3>3, <3>4, <3>5
    <3>7. n2 = n1 + 1 /\ (alerted2 <=> (alerted1 \/ n2 >= CanLimit(kind)))
          /\ CanState(kind, key)' = State(start1, n2, alerted2)
      BY <2>6, <2>8, <2>12, <3>4, <3>5
    <3>8. Rung(alerts, kind, key) <=> alerted2 /\ ~alerted1
      BY <1>1, <3>2, <3>5
    <3>9. ~Masked(kind, key)' => n2 = Cardinality(Since(Grown(Came(kind, key), at, Len(traffic) + 1), start1))
      BY <1>1, <3>6, <3>7, CanOneMore
    <3>10. QED BY <1>1, <3>1, <3>6, <3>7, <3>8, <3>9, CanCounted
  <2>13. CASE kind = "seedFlood" /\ f.uds = "key"
    <3>1. key \notin CanCounts(kind, f) /\ ~DataRings(f, at, kind, key)
      BY <2>13 DEF CanCounts, DataRings, SeedsRaised
    <3>2. CanOpens(kind, key, at, w.start, w.seeds, w.seed_alerted, open.start, open.seeds, open.seed_alerted)
      BY <2>4, <2>8, <2>9, <2>13 DEF CanOpens
    <3>3. CanState(kind, key)' = State(open.start, open.seeds, open.seed_alerted)
      BY <2>6, <2>8, <2>13
    <3>4. ~Rung(alerts, kind, key)
      BY <1>1, <3>1
    <3>5. QED BY <1>1, <3>1, <3>2, <3>3, <3>4, CanOpenedOnly
  <2>14. CASE kind = "keyGuess" /\ f.uds = "seed"
    <3>1. key \notin CanCounts(kind, f) /\ ~DataRings(f, at, kind, key)
      BY <2>14 DEF CanCounts, DataRings, KeysRaised
    <3>2. CanOpens(kind, key, at, w.start, w.keys, w.key_alerted, open.start, open.keys, open.key_alerted)
      BY <2>4, <2>8, <2>9, <2>14 DEF CanOpens
    <3>3. CanState(kind, key)' = State(open.start, open.keys, open.key_alerted)
      BY <2>6, <2>8, <2>14
    <3>4. ~Rung(alerts, kind, key)
      BY <1>1, <3>1
    <3>5. QED BY <1>1, <3>1, <3>2, <3>3, <3>4, CanOpenedOnly
  <2>15. QED BY <2>10, <2>11, <2>12, <2>13, <2>14
<1>5. QED BY <1>3, <1>4

\* A scan has the things of its window, and one more.
ScanComes(f, at, alerts, key, w, open) ==
    /\ CanInput(f, at, alerts) /\ key \in DiagRequests
    /\ IsScan(w) /\ w = can.scan[key] /\ open = Opened(w, Distinct(0), at, CanWindow)

\* The window of a scan holds the things that came since it began.
LEMMA ScanGrows ==
    ASSUME NEW f, NEW at, NEW alerts, NEW key, NEW w, NEW open, ScanComes(f, at, alerts, key, w, open),
           NEW thing, ~Masked("svcScan", key)'
    PROVE  open.things \cup {thing} = Since(Grown(Came("svcScan", key), at, thing), open.start)
<1> USE DEF ScanComes
<1>0. ScanOpened(w, at, CanWindow, open)
  <2>1. "svcScan" \in CanKinds
    BY DEF CanKinds
  <2>2. at \in Nat
    BY <2>1, CanFrameComes
  <2>3. OpensScan(w, at, CanWindow, open)
    BY <2>2, CanAssumption DEF OpensScan
  <2>4. QED BY ONLY <2>3, ScanOpens
<1>1. /\ IsScan(open)
      /\ \/ w.start = 0 /\ open.start = at /\ open.things = w.things /\ open.alerted = w.alerted
         \/ w.start # 0 /\ Elapsed(w.start, at, CanWindow) /\ open.start = at /\ open.things = {} /\ open.alerted = FALSE
         \/ w.start # 0 /\ ~Elapsed(w.start, at, CanWindow) /\ open = w
  BY <1>0 DEF ScanOpened
<1>2. PICK kind, came, s0, n0, s1, n1 :
        /\ kind = "svcScan" /\ came = Came(kind, key) /\ s0 = w.start /\ n0 = Cardinality(w.things)
        /\ s1 = open.start /\ n1 = Cardinality(open.things)
  OBVIOUS
<1>3. PICK a0, a1 \in BOOLEAN : a0 = w.alerted /\ a1 = open.alerted
  BY <1>1 DEF IsScan
<1>4. kind \in CanKinds /\ s0 \in Int /\ at \in Nat
  <2>1. kind \in CanKinds /\ s0 \in Int
    BY <1>2 DEF CanKinds, IsScan
  <2>2. QED BY <2>1, CanFrameComes
<1>5. CanState(kind, key) = State(s0, n0, a0)
  BY <1>2, <1>3 DEF CanState
<1>6. Reopened(0, at, CanWindow, s0, n0, a0, s1, n1, a1)
  <2>1. CASE w.start = 0 /\ open.start = at /\ open.things = w.things /\ open.alerted = w.alerted
    BY <1>2, <1>3, <2>1 DEF Reopened
  <2>2. CASE w.start # 0 /\ Elapsed(w.start, at, CanWindow) /\ open.start = at /\ open.things = {} /\ open.alerted = FALSE
    <3>1. n1 = 0
      BY <1>2, <2>2, FS_EmptySet
    <3>2. QED BY <1>2, <1>3, <2>2, <3>1 DEF Reopened
  <2>3. CASE w.start # 0 /\ ~Elapsed(w.start, at, CanWindow) /\ open = w
    <3>1. n1 = n0 /\ s1 = s0 /\ a1 = a0 /\ s0 # 0 /\ ~Elapsed(s0, at, CanWindow)
      BY <1>2, <1>3, <2>3
    <3>2. QED BY <3>1 DEF Reopened
  <2>4. QED BY <1>1, <2>1, <2>2, <2>3
<1>7. CanOpens(kind, key, at, s0, n0, a0, s1, n1, a1)
  BY <1>4, <1>5, <1>6 DEF CanOpens
<1>8. ~Masked(kind, key)'
  BY <1>2
<1>9. /\ Watching(Came(kind, key), Rang(kind, key), Stamps, CanWindow, CanLimit(kind), 0, s0, n0, a0)
      /\ Watching(Came(kind, key), Rang(kind, key), Stamps \cup {at}, CanWindow, CanLimit(kind), 0, s1, n1, a1)
      /\ s1 \in Int /\ s1 <= at
  BY <1>4, <1>7, <1>8, CanOpened
<1>10. can.scan[key].things = Since(Came(kind, key), s0)
  <2>1. CanWatch(kind, key)
    BY <1>4 DEF CanInput, CanFloods
  <2>2. ~Masked(kind, key)
    BY <1>4, <1>8, CanFrameComes
  <2>3. CanState(kind, key).start = s0
    BY <1>5 DEF State
  <2>4. QED BY <1>2, <2>1, <2>2, <2>3 DEF CanWatch
<1>11. IsFiniteSet(came) /\ n1 = Cardinality(Since(came, s1)) /\ (s0 = 0 => came = {})
  BY <1>2, <1>9 DEF Watching, History, Window
<1>12. w.things = Since(came, s0)
  BY <1>2, <1>10
<1>13. open.things = Since(came, s1)
  <2>1. CASE w.start = 0 /\ open.things = w.things
    <3>1. came = {}
      BY <1>2, <1>11, <2>1
    <3>2. Since(came, s1) = Since(came, s0)
      BY <3>1 DEF Since
    <3>3. QED BY <1>12, <2>1, <3>2
  <2>2. CASE open.things = {}
    <3>1. n1 = 0
      BY <1>2, <2>2, FS_EmptySet
    <3>2. Since(came, s1) = {}
      BY <1>11, <3>1, SinceFinite, FS_EmptySet
    <3>3. QED BY <2>2, <3>2
  <2>3. CASE open = w
    BY <1>2, <1>12, <2>3
  <2>4. QED BY <1>1, <2>1, <2>2, <2>3
<1>14. Since(Grown(came, at, thing), s1) = Since(came, s1) \cup {thing}
  BY <1>4, <1>9, SinceGrown
<1>15. QED BY <1>2, <1>13, <1>14

\* The window of a scan with one more thing.
LEMMA ScanAdds ==
    ASSUME NEW open, IsScan(open), NEW thing, NEW limit, NEW v, v = Added(open, thing, limit)
    PROVE  /\ IsScan(v) /\ v.start = open.start /\ v.things = open.things \cup {thing}
           /\ v.alerted <=> (open.alerted \/ Cardinality(v.things) >= limit)
<1>1. v = [open EXCEPT !.things = open.things \cup {thing},
                       !.alerted = open.alerted \/ Cardinality(open.things \cup {thing}) >= limit]
  BY DEF Added
<1>2. /\ v.start = open.start /\ v.things = open.things \cup {thing}
      /\ v.alerted = (open.alerted \/ Cardinality(open.things \cup {thing}) >= limit)
      /\ DOMAIN v = DOMAIN open
  BY <1>1 DEF IsScan
<1>3. v = [v EXCEPT !.start = v.start]
  BY <1>1 DEF IsScan
<1>4. (open.alerted \/ Cardinality(open.things \cup {thing}) >= limit) \in BOOLEAN
  BY DEF IsScan
<1>5. IsScan(v)
  BY <1>2, <1>3, <1>4 DEF IsScan
<1>6. QED BY <1>2, <1>5

\* The window of the service scan.
LEMMA DataScan ==
    ASSUME NEW f, NEW at, NEW alerts, DataMoves(f, at, alerts), NEW key
    PROVE  CanWatch("svcScan", key)'
<1> USE DEF DataMoves
<1>1. PICK kind : kind = "svcScan"
  OBVIOUS
<1>2. CanInput(f, at, alerts) /\ kind \in CanKinds
  BY <1>1 DEF CanKinds
<1>3. ASSUME key \notin CanCounts(kind, f), CanState(kind, key)' = CanState(kind, key),
             key \in DiagRequests => can'.scan[key].things = can.scan[key].things,
             ~DataRings(f, at, kind, key)
      PROVE  CanWatch(kind, key)'
  <2>1. ~Rung(alerts, kind, key)
    BY <1>2, <1>3
  <2>2. QED BY <1>2, <1>3, <2>1, CanIdle
<1>4. CASE ~(key = f.id /\ f.id \in DiagRequests)
  <2>1. key \notin CanCounts(kind, f) /\ ~DataRings(f, at, kind, key)
    BY <1>1, <1>4 DEF CanCounts, DataRings
  <2>2. CanState(kind, key)' = CanState(kind, key)
    BY <1>1, <1>4 DEF CanState
  <2>3. key \in DiagRequests => can'.scan[key].things = can.scan[key].things
    BY <1>4
  <2>4. QED BY <1>1, <1>3, <2>1, <2>2, <2>3
<1>5. CASE key = f.id /\ f.id \in DiagRequests /\ f.uds = ""
  <2>1. key \notin CanCounts(kind, f) /\ ~DataRings(f, at, kind, key)
    BY <1>1, <1>5 DEF CanCounts, DataRings, ScanRaised
  <2>2. can'.scan[key] = can.scan[key]
    BY <1>5 DEF ScanAfter
  <2>3. CanState(kind, key)' = CanState(kind, key)
    BY <1>1, <1>5, <2>2 DEF CanState
  <2>4. QED BY <1>1, <1>3, <2>1, <2>2, <2>3
<1>6. CASE key = f.id /\ f.id \in DiagRequests /\ f.uds # ""
  <2>1. PICK w : w = can.scan[key]
    OBVIOUS
  <2>2. IsScan(w) /\ key \in DiagRequests
    BY <1>6, <2>1 DEF CanTyped
  <2>3. PICK open : open = Opened(w, Distinct(0), at, CanWindow)
    OBVIOUS
  <2>4. at \in Nat /\ at \in Int /\ CanWindow \in Nat
    BY <1>2, CanFrameComes, CanAssumption
  <2>5. /\ IsScan(open)
        /\ \/ w.start = 0 /\ open.start = at /\ open.things = w.things /\ open.alerted = w.alerted
           \/ w.start # 0 /\ Elapsed(w.start, at, CanWindow) /\ open.start = at /\ open.things = {} /\ open.alerted = FALSE
           \/ w.start # 0 /\ ~Elapsed(w.start, at, CanWindow) /\ open = w
    <3>1. OpensScan(w, at, CanWindow, open)
      BY <2>2, <2>3, <2>4 DEF OpensScan
    <3>2. ScanOpened(w, at, CanWindow, open)
      BY ONLY <3>1, ScanOpens
    <3>3. QED BY <3>2 DEF ScanOpened
  <2>6. PICK thing, v : thing = Service(f) /\ v = Added(open, thing, CanLimit(kind))
    OBVIOUS
  <2>7. /\ IsScan(v) /\ v.start = open.start /\ v.things = open.things \cup {thing}
        /\ v.alerted <=> (open.alerted \/ Cardinality(v.things) >= CanLimit(kind))
    BY <2>5, <2>6, ScanAdds
  <2>8. can'.scan[key] = v /\ OpenScan(f, at) = open /\ ScanAfter(f, at) = v
    BY <1>1, <1>6, <2>1, <2>3, <2>6 DEF ScanAfter, OpenScan
  <2>9. ~Masked(kind, key)' => v.things = Since(Grown(Came(kind, key), at, thing), open.start)
    <3>1. SUFFICES ASSUME ~Masked(kind, key)'
                   PROVE  v.things = Since(Grown(Came(kind, key), at, thing), open.start)
      OBVIOUS
    <3>2. ~Masked("svcScan", key)'
      BY <1>1, <3>1
    <3>3. open.things \cup {thing} = Since(Grown(Came("svcScan", key), at, thing), open.start)
      <4>1. ScanComes(f, at, alerts, key, w, open)
        BY <1>2, <2>1, <2>2, <2>3 DEF ScanComes
      <4>2. QED BY ONLY <3>2, <4>1, ScanGrows
    <3>4. QED BY <1>1, <2>7, <3>3
  <2>10. PICK s0, n0, s1, n1, n2 :
            /\ s0 = w.start /\ n0 = Cardinality(w.things) /\ s1 = open.start
            /\ n1 = Cardinality(open.things) /\ n2 = Cardinality(v.things)
    OBVIOUS
  <2>11. PICK a0, a1, a2 \in BOOLEAN : a0 = w.alerted /\ a1 = open.alerted /\ a2 = v.alerted
    BY <2>2, <2>5, <2>7 DEF IsScan
  <2>12. CanState(kind, key) = State(s0, n0, a0) /\ CanState(kind, key)' = State(s1, n2, a2)
    BY <1>1, <2>1, <2>2, <2>7, <2>8, <2>10, <2>11 DEF CanState
  <2>13. Reopened(0, at, CanWindow, s0, n0, a0, s1, n1, a1)
    <3>1. CASE w.start = 0 /\ open.start = at /\ open.things = w.things /\ open.alerted = w.alerted
      BY <2>10, <2>11, <3>1 DEF Reopened
    <3>2. CASE w.start # 0 /\ Elapsed(w.start, at, CanWindow) /\ open.start = at /\ open.things = {} /\ open.alerted = FALSE
      <4>1. n1 = 0
        BY <2>10, <3>2, FS_EmptySet
      <4>2. QED BY <2>10, <2>11, <3>2, <4>1 DEF Reopened
    <3>3. CASE w.start # 0 /\ ~Elapsed(w.start, at, CanWindow) /\ open = w
      <4>1. n1 = n0 /\ s1 = s0 /\ a1 = a0 /\ s0 # 0 /\ ~Elapsed(s0, at, CanWindow)
        BY <2>10, <2>11, <3>3
      <4>2. QED BY <4>1 DEF Reopened
    <3>4. QED BY <2>5, <3>1, <3>2, <3>3
  <2>14. s0 \in Int
    BY <2>2, <2>10 DEF IsScan
  <2>15. CanOpens(kind, key, at, s0, n0, a0, s1, n1, a1)
    BY <2>12, <2>13, <2>14 DEF CanOpens
  <2>16. key \in CanCounts(kind, f)
    BY <1>1, <1>6 DEF CanCounts
  <2>17. Rung(alerts, kind, key) <=> a2 /\ ~a1
    <3>1. Rung(alerts, kind, key) <=> DataRings(f, at, kind, key)
      BY <1>2
    <3>2. DataRings(f, at, kind, key) <=> Raised(open, v)
      BY <1>1, <1>6, <2>8 DEF DataRings, ScanRaised
    <3>3. QED BY <2>11, <3>1, <3>2 DEF Raised
  <2>18. thing = (IF kind = "svcScan" THEN Service(f) ELSE Len(traffic) + 1)
    BY <1>1, <2>6
  <2>19. ~Masked(kind, key)' => n2 = Cardinality(Since(Grown(Came(kind, key), at, thing), s1))
    BY <2>9, <2>10
  <2>20. a2 <=> (a1 \/ n2 >= CanLimit(kind))
    BY <2>7, <2>10, <2>11
  <2>21. ~Masked(kind, key)' => can'.scan[key].things = Since(Grown(Came(kind, key), at, thing), s1)
    BY <2>8, <2>9, <2>10
  <2>22. CanWatch(kind, key)'
    BY <1>2, <2>12, <2>15, <2>16, <2>17, <2>18, <2>19, <2>20, <2>21, CanCounted
  <2>23. QED BY <1>1, <2>22
<1>7. QED BY <1>1, <1>4, <1>5, <1>6

\* What a counter is when it has counted is a counter.
LEMMA CountedByType ==
    ASSUME scenario \in Scenarios, scenario.probe = "can", NEW w \in CounterType, NEW at \in Nat, NEW kind \in CanKinds
    PROVE  CountedBy(w, at, kind) \in CounterType
<1>1. PICK open, v : open = Opened(w, Counter(0), at, CanWindow) /\ v = Counted(open, CanLimit(kind))
  OBVIOUS
<1>2. kind \in DOMAIN scenario.limits
  BY Limits
<1>3. 0 \in Int /\ at \in Int /\ CanWindow \in Nat /\ CanLimit(kind) \in Nat
  BY <1>2, CanAssumption, Limits DEF CanLimit
<1>4. v \in CounterType
  BY <1>1, <1>3, CounterSteps
<1>5. QED BY <1>1, <1>4 DEF CountedBy

\* The tables of windows are what they are.
CanTables(c) ==
    /\ DOMAIN c = DOMAIN can
    /\ c.ids = [i \in CanIds |-> c.ids[i]] /\ c.diag = [i \in DiagRequests |-> c.diag[i]]
    /\ c.sec = [i \in DiagRequests |-> c.sec[i]] /\ DOMAIN c.scan = DiagRequests

\* What a data frame does to the windows is what DataMoves says.
LEMMA DataIsMoves ==
    ASSUME NEW f, NEW at, NEW alerts, CanInput(f, at, alerts), f.id \in CanIds, FeedData(f, at),
           \A kind \in CanKinds : \A key : Rung(alerts, kind, key) <=> DataRings(f, at, kind, key)
    PROVE  DataMoves(f, at, alerts) /\ \E c : c = can' /\ CanTables(c)
<1>1. CanTyped
  BY DEF CanInput, CanFloods
<1>2. ~f.err /\ ~f.rtr
  BY DEF FeedData
<1>3. PICK a, b, c, d, e, g :
        /\ a = CountedBy(can.ids[f.id], at, "idFlood") /\ b = CountedBy(can.bus, at, "busFlood")
        /\ c = CountedBy(can.diag[f.id], at, "diagFlood") /\ d = SecAfter(f, at) /\ e = ScanAfter(f, at)
        /\ g = CycleAfter(f, at)
  OBVIOUS
<1>4. CASE f.id \in DiagRequests
  <2>1. can' = [can EXCEPT !.cycle = g, !.ids[f.id] = a, !.bus = b, !.diag[f.id] = c, !.sec[f.id] = d,
                           !.scan[f.id] = e]
    BY <1>3, <1>4 DEF FeedData, FeedRequest
  <2>2. /\ DOMAIN can' = DOMAIN can /\ can'.errs = can.errs /\ can'.bus = b
        /\ can'.ids = [can.ids EXCEPT ![f.id] = a] /\ can'.diag = [can.diag EXCEPT ![f.id] = c]
        /\ can'.sec = [can.sec EXCEPT ![f.id] = d] /\ can'.scan = [can.scan EXCEPT ![f.id] = e]
    BY <1>1, <2>1 DEF CanTyped
  <2>3. /\ DOMAIN can.ids = CanIds /\ DOMAIN can.diag = DiagRequests
        /\ DOMAIN can.sec = DiagRequests /\ DOMAIN can.scan = DiagRequests
    BY <1>1 DEF CanTyped
  <2>4. \A i \in CanIds : can'.ids[i] = IF i = f.id THEN a ELSE can.ids[i]
    BY <2>2, <2>3
  <2>5. \A i \in DiagRequests :
            IF i = f.id THEN can'.diag[i] = c /\ can'.sec[i] = d /\ can'.scan[i] = e
            ELSE can'.diag[i] = can.diag[i] /\ can'.sec[i] = can.sec[i] /\ can'.scan[i] = can.scan[i]
    BY <2>2, <2>3
  <2>6. PICK m : m = can'
    OBVIOUS
  <2>11. /\ can.ids = [i \in CanIds |-> can.ids[i]] /\ can.diag = [i \in DiagRequests |-> can.diag[i]]
         /\ can.sec = [i \in DiagRequests |-> can.sec[i]]
    BY <1>1 DEF CanTyped
  <2>12. CanTables(m)
    <3>1. PICK ids, diag, sec : ids = can.ids /\ diag = can.diag /\ sec = can.sec
      OBVIOUS
    <3>2. m.ids = [ids EXCEPT ![f.id] = a] /\ m.diag = [diag EXCEPT ![f.id] = c] /\ m.sec = [sec EXCEPT ![f.id] = d]
      BY <2>2, <2>6, <3>1
    <3>3. ids = [i \in CanIds |-> ids[i]] /\ diag = [i \in DiagRequests |-> diag[i]]
          /\ sec = [i \in DiagRequests |-> sec[i]]
      BY <2>11, <3>1
    <3>4. m.ids = [i \in CanIds |-> m.ids[i]]
      BY <3>2, <3>3
    <3>5. m.diag = [i \in DiagRequests |-> m.diag[i]]
      BY <3>2, <3>3
    <3>6. m.sec = [i \in DiagRequests |-> m.sec[i]]
      BY <3>2, <3>3
    <3>7. DOMAIN m = DOMAIN can /\ DOMAIN m.scan = DiagRequests
      BY <2>2, <2>3, <2>6
    <3>8. QED BY <3>4, <3>5, <3>6, <3>7 DEF CanTables
  <2>7. \A i \in CanIds : can'.ids[i] = IF i = f.id THEN CountedBy(can.ids[i], at, "idFlood") ELSE can.ids[i]
    BY <1>3, <2>4
  <2>8. \A i \in DiagRequests :
            IF i = f.id
            THEN /\ can'.diag[i] = CountedBy(can.diag[i], at, "diagFlood")
                 /\ can'.sec[i] = SecAfter(f, at) /\ can'.scan[i] = ScanAfter(f, at)
            ELSE can'.diag[i] = can.diag[i] /\ can'.sec[i] = can.sec[i] /\ can'.scan[i] = can.scan[i]
    BY <1>3, <2>5
  <2>9. can'.bus = CountedBy(can.bus, at, "busFlood") /\ can'.errs = can.errs /\ DOMAIN can' = DOMAIN can
    BY <1>3, <2>2
  <2>10. QED BY <1>1, <1>2, <2>6, <2>7, <2>8, <2>9, <2>12 DEF DataMoves
<1>5. CASE f.id \notin DiagRequests
  <2>1. can' = [can EXCEPT !.cycle = g, !.ids[f.id] = a, !.bus = b]
    BY <1>3, <1>5 DEF FeedData, FeedOther
  <2>2. /\ DOMAIN can' = DOMAIN can /\ can'.errs = can.errs /\ can'.bus = b
        /\ can'.ids = [can.ids EXCEPT ![f.id] = a] /\ can'.diag = can.diag
        /\ can'.sec = can.sec /\ can'.scan = can.scan
    BY <1>1, <2>1 DEF CanTyped
  <2>3. /\ DOMAIN can.ids = CanIds /\ DOMAIN can.diag = DiagRequests
        /\ DOMAIN can.sec = DiagRequests /\ DOMAIN can.scan = DiagRequests
    BY <1>1 DEF CanTyped
  <2>4. \A i \in CanIds : can'.ids[i] = IF i = f.id THEN a ELSE can.ids[i]
    BY <2>2, <2>3
  <2>5. \A i \in CanIds : can'.ids[i] = IF i = f.id THEN CountedBy(can.ids[i], at, "idFlood") ELSE can.ids[i]
    BY <1>3, <2>4
  <2>6. \A i \in DiagRequests : i # f.id
    BY <1>5
  <2>7. can'.bus = CountedBy(can.bus, at, "busFlood") /\ can'.errs = can.errs /\ DOMAIN can' = DOMAIN can
        /\ DOMAIN can'.ids = CanIds
    BY <1>3, <2>2, <2>3
  <2>8. \A i \in DiagRequests :
            IF i = f.id
            THEN /\ can'.diag[i] = CountedBy(can.diag[i], at, "diagFlood")
                 /\ can'.sec[i] = SecAfter(f, at) /\ can'.scan[i] = ScanAfter(f, at)
            ELSE can'.diag[i] = can.diag[i] /\ can'.sec[i] = can.sec[i] /\ can'.scan[i] = can.scan[i]
    BY <2>2, <2>6
  <2>9. PICK m : m = can'
    OBVIOUS
  <2>10. /\ can.ids = [i \in CanIds |-> can.ids[i]] /\ can.diag = [i \in DiagRequests |-> can.diag[i]]
         /\ can.sec = [i \in DiagRequests |-> can.sec[i]]
    BY <1>1 DEF CanTyped
  <2>11. CanTables(m)
    BY <2>2, <2>3, <2>9, <2>10 DEF CanTables
  <2>12. QED BY <1>1, <1>2, <2>2, <2>5, <2>7, <2>8, <2>9, <2>11 DEF DataMoves
<1>6. QED BY <1>4, <1>5

\* And they keep their types.
LEMMA DataTyped ==
    ASSUME NEW f, NEW at, NEW alerts, DataMoves(f, at, alerts), NEW c, c = can', CanTables(c)
    PROVE  CanTyped'
<1> USE DEF DataMoves
<1>0. /\ can'.ids = [i \in CanIds |-> can'.ids[i]] /\ can'.diag = [i \in DiagRequests |-> can'.diag[i]]
      /\ can'.sec = [i \in DiagRequests |-> can'.sec[i]] /\ DOMAIN can'.scan = DiagRequests
      /\ DOMAIN can' = DOMAIN can
  BY DEF CanTables
<1>1. CanInput(f, at, alerts) /\ CanTyped /\ scenario \in Scenarios /\ scenario.probe = "can" /\ at \in Nat
  BY DEF CanInput, Recorded, Arrives
<1>2. {"idFlood", "busFlood", "diagFlood", "svcScan"} \subseteq CanKinds
  BY DEF CanKinds
<1>3. \A w \in CounterType : \A kind \in {"idFlood", "busFlood", "diagFlood"} : CountedBy(w, at, kind) \in CounterType
  BY <1>1, <1>2, CountedByType
<1>4. can'.errs \in CounterType /\ can'.bus \in CounterType
  BY <1>1, <1>3 DEF CanTyped
<1>5. \A i \in CanIds : can'.ids[i] \in CounterType
  BY <1>1, <1>3 DEF CanTyped
<1>6. \A i \in DiagRequests : can'.diag[i] \in CounterType
  BY <1>1, <1>3 DEF CanTyped
<1>7. ASSUME f.id \in DiagRequests PROVE SecAfter(f, at) \in SecType /\ IsScan(ScanAfter(f, at))
  <2>1. at \in Int /\ CanWindow \in Nat
    BY <1>1, CanAssumption
  <2>2. PICK w \in SecType : w = can.sec[f.id]
    BY <1>1, <1>7 DEF CanTyped
  <2>3. PICK open : open = OpenSec(f, at)
    OBVIOUS
  <2>4. open \in SecType
    <3>1. open = Opened(w, SecAccess, at, CanWindow)
      BY <2>2, <2>3 DEF OpenSec
    <3>2. QED BY <2>1, <3>1, SecOpens
  <2>5. PICK v : v = SecAfter(f, at)
    OBVIOUS
  <2>6. v \in SecType
    BY <2>1, <2>2, <2>3, <2>4, <2>5, SecIs
  <2>7. PICK x, y : x = can.scan[f.id] /\ y = OpenScan(f, at)
    OBVIOUS
  <2>8. IsScan(x) /\ y = Opened(x, Distinct(0), at, CanWindow)
    BY <1>1, <1>7, <2>7 DEF CanTyped, OpenScan
  <2>9. IsScan(y)
    <3>1. OpensScan(x, at, CanWindow, y)
      BY <2>1, <2>8 DEF OpensScan
    <3>2. ScanOpened(x, at, CanWindow, y)
      BY ONLY <3>1, ScanOpens
    <3>3. QED BY <3>2 DEF ScanOpened
  <2>10. IsScan(ScanAfter(f, at))
    <3>1. CASE f.uds = ""
      BY <2>7, <2>8, <3>1 DEF ScanAfter
    <3>2. CASE f.uds # ""
      <4>1. PICK z : z = Added(y, Service(f), CanLimit("svcScan"))
        OBVIOUS
      <4>2. IsScan(z)
        BY <2>9, <4>1, ScanAdds
      <4>3. QED BY <2>7, <3>2, <4>1, <4>2 DEF ScanAfter
    <3>3. QED BY <3>1, <3>2
  <2>11. QED BY <2>5, <2>6, <2>10
<1>8. \A i \in DiagRequests : can'.sec[i] \in SecType
  BY <1>1, <1>7 DEF CanTyped
<1>9. \A i \in DiagRequests : IsScan(can'.scan[i])
  <2>1. \A i \in DiagRequests : IsScan(can.scan[i])
    BY <1>1 DEF CanTyped
  <2>2. QED BY <1>7, <2>1
<1>10. can'.ids \in [CanIds -> CounterType] /\ can'.diag \in [DiagRequests -> CounterType]
  BY <1>0, <1>5, <1>6
<1>11. can'.sec \in [DiagRequests -> SecType]
  BY <1>0, <1>8
<1>12. QED BY <1>0, <1>1, <1>4, <1>9, <1>10, <1>11 DEF CanTyped, IsScan

\* What a data frame does.
LEMMA DataKept ==
    ASSUME Recorded, scenario.probe = "can", CanFloods, NEW f, NEW at, Arrives(f, at), f.id \in CanIds,
           FeedData(f, at)
    PROVE  CanFloods'
<1>1. PICK alerts : /\ IsSeq(alerts) /\ Report(alerts, at)
                    /\ \A kind \in CanKinds : \A key : Rung(alerts, kind, key) <=> DataRings(f, at, kind, key)
  BY DataAlerts
<1>2. CanInput(f, at, alerts)
  BY <1>1 DEF CanInput
<1>3. DataMoves(f, at, alerts) /\ \E c : c = can' /\ CanTables(c)
  BY <1>1, <1>2, DataIsMoves
<1>4. CanTyped'
  BY <1>3, DataTyped
<1>5. ASSUME NEW kind \in CanKinds, NEW key PROVE CanWatch(kind, key)'
  <2>1. CASE kind \in {"errBurst", "idFlood", "busFlood", "diagFlood"}
    BY <1>3, <2>1, DataCounters
  <2>2. CASE kind \in {"seedFlood", "keyGuess"}
    BY <1>3, <2>2, DataSec
  <2>3. CASE kind = "svcScan"
    BY <1>3, <2>3, DataScan
  <2>4. QED BY <2>1, <2>2, <2>3 DEF CanKinds
<1>6. QED BY <1>4, <1>5 DEF CanFloods

\* What a frame does.
LEMMA CanFloodsKept ==
    ASSUME Recorded, scenario.probe = "can", CanFloods, NEW f \in scenario.inputs, NEW at, Arrives(f, at),
           FeedError(f, at) \/ FeedRemote(f, at) \/ FeedData(f, at)
    PROVE  CanFloods'
<1>1. f.id \in CanIds
  BY ScenarioAssumption DEF Recorded
<1>2. QED BY <1>1, ErrorKept, RemoteKept, DataKept

-----------------------------------------------------------------------------
\* The traffic and its times.

\* What the clock and the poller may do to what was recorded, when nothing comes.
TimePasses ==
    /\ clock \in Nat /\ clock' \in Nat /\ clock <= clock'
    /\ scan.stamp \in Nat /\ scan'.stamp \in Nat /\ scan.stamp <= scan'.stamp
    /\ scenario.probe = "host" /\ scenario.live => scan'.stamp <= clock'
    /\ netlink' = "off" => netlink = "off" \/ traffic = <<>>

\* What is recorded stays so while time passes.
LEMMA RecordedQuiet ==
    ASSUME Recorded, TimePasses, scenario' = scenario, traffic' = traffic, IsSeq(alarms')
    PROVE  Recorded'
<1>1. scenario \in Scenarios /\ IsSeq(traffic) /\ \A i \in DOMAIN traffic : traffic[i].at \in Nat
  BY DEF Recorded
<1>2. Stamps' = Stamps /\ Stamps \subseteq Nat
  BY <1>1 DEF Stamps
<1>3. /\ scenario' \in Scenarios /\ IsSeq(traffic') /\ \A i \in DOMAIN traffic' : traffic'[i].at \in Nat
      /\ \A i, j \in DOMAIN traffic' : i <= j => traffic'[i].at <= traffic'[j].at
  BY DEF Recorded
<1>4. scenario.live => \A t \in Stamps' : t <= clock'
  <2>1. SUFFICES ASSUME scenario.live, NEW t \in Stamps PROVE t <= clock'
    BY <1>2
  <2>2. t <= clock /\ t \in Nat
    BY <1>2, <2>1 DEF Recorded
  <2>3. QED BY <2>2 DEF TimePasses
<1>5. ASSUME scenario.probe = "host", scenario.live, netlink' = "off", NEW t \in Stamps'
      PROVE  t <= scan'.stamp
  <2>1. CASE traffic = <<>>
    BY <1>2, <1>5, <2>1 DEF Stamps
  <2>2. CASE netlink = "off"
    <3>1. t <= scan.stamp /\ t \in Nat
      BY <1>2, <1>5, <2>2 DEF Recorded
    <3>2. QED BY <3>1 DEF TimePasses
  <2>3. QED BY <1>5, <2>1, <2>2 DEF TimePasses
<1>6. scenario.probe = "host" /\ scenario.live => scan'.stamp <= clock'
  BY DEF TimePasses
<1>7. QED BY <1>3, <1>4, <1>5, <1>6 DEF Recorded

\* An input of the time of the clock, of the pass, or of the file.
LEMMA RecordedGrows ==
    ASSUME Recorded, NEW input, NEW at, Arrives(input, at), IsSeq(alarms'),
           clock' = clock, clock \in Nat, scan'.stamp = scan.stamp, scan.stamp \in Nat,
           scenario.live => at <= clock,
           scenario.probe = "host" /\ scenario.live /\ netlink' = "off" => netlink = "off" /\ at <= scan.stamp
    PROVE  Recorded'
<1>1. scenario' = scenario /\ scenario \in Scenarios
  BY DEF Arrives, Recorded
<1>2. /\ Stamps' = Stamps \cup {at} /\ \A i \in DOMAIN traffic' : traffic'[i].at \in Nat
      /\ \A i, j \in DOMAIN traffic' : i <= j => traffic'[i].at <= traffic'[j].at
  BY TimesGoOn
<1>3. IsSeq(traffic')
  BY InputArrives
<1>4. scenario.live => \A t \in Stamps' : t <= clock'
  BY <1>2 DEF Recorded
<1>5. scenario.probe = "host" /\ scenario.live =>
            /\ scan'.stamp <= clock'
            /\ netlink' = "off" => \A t \in Stamps' : t <= scan'.stamp
  BY <1>2 DEF Recorded
<1>6. QED BY <1>1, <1>2, <1>3, <1>4, <1>5 DEF Recorded

\* An input that is captured, after which the times are in order.
LEMMA StampsArrive ==
    ASSUME Recorded, clock \in Nat, NEW input, NEW at \in TimeStamps, Fed(input, at), scenario' = scenario,
           scenario.live \/ TimesInOrder'
    PROVE  Arrives(input, at) /\ (scenario.live => at <= clock)
<1>1. CASE scenario.live
  <2>1. at = clock
    BY <1>1 DEF TimeStamps
  <2>2. QED BY <1>1, <2>1 DEF Recorded, Arrives
<1>2. CASE ~scenario.live
  <2>1. at \in Nat
    <3>1. Horizon \in Int
      BY MainAssumption DEF Horizon, DrainTime
    <3>2. at = 0 \/ at \in 0 .. Horizon
      BY <1>2 DEF TimeStamps
    <3>3. QED BY <3>1, <3>2
  <2>2. PICK e : e = [input |-> input, at |-> at] /\ traffic' = Append(traffic, e)
    BY DEF Fed
  <2>3. PICK n \in Nat : /\ n = Len(traffic) /\ DOMAIN traffic = 1..n /\ DOMAIN traffic' = 1..(n + 1)
                         /\ \A i \in 1..n : traffic'[i] = traffic[i]
                         /\ traffic'[n + 1] = e
    BY <2>2, LengthAppended DEF Recorded
  <2>4. ASSUME NEW i \in DOMAIN traffic PROVE traffic[i].at <= at
    <3>1. i \in 1..(n + 1) /\ n + 1 \in 1..(n + 1) /\ i <= n + 1 /\ traffic'[i] = traffic[i]
      BY <2>3
    <3>2. traffic'[i].at <= traffic'[n + 1].at
      BY <1>2, <2>3, <3>1 DEF TimesInOrder
    <3>3. QED BY <2>2, <2>3, <3>1, <3>2
  <2>5. QED BY <1>2, <2>1, <2>4 DEF Arrives, Stamps
<1>3. QED BY <1>1, <1>2

-----------------------------------------------------------------------------
\* The steps that nothing comes with, and no alert.
Unheard == UNCHANGED <<scenario, traffic, alarms, can, host, eth>>

\* When nothing comes and nothing is alerted, what came and rang is as it was.
LEMMA NothingHeard ==
    ASSUME Recorded, Unheard
    PROVE  /\ Stamps' = Stamps /\ \A kind, key : Came(kind, key)' = Came(kind, key)
           /\ \A kind, key : Rang(kind, key)' = Rang(kind, key)
           /\ \A kind : Width(kind)' = Width(kind)
           /\ \A kind, key : Masked(kind, key)' = Masked(kind, key)
<1>1. UNCHANGED <<scenario, traffic, alarms>>
  BY DEF Unheard
<1>2. Stamps' = Stamps /\ \A kind, key : Rang(kind, key)' = Rang(kind, key)
  BY <1>1 DEF Stamps, Rang
<1>3. \A kind, i : Counts(kind, i)' = Counts(kind, i) /\ Thing(kind, i)' = Thing(kind, i)
  <2>1. \A kind, i : Thing(kind, i)' = Thing(kind, i)
    BY <1>1 DEF Thing
  <2>2. \A i : Rebinds(i)' = Rebinds(i)
    BY <1>1 DEF Rebinds
  <2>3. \A kind, i : EthCounts(kind, i)' = EthCounts(kind, i)
    BY <1>1, <2>2 DEF EthCounts
  <2>4. \A kind, i : Counts(kind, i)' = Counts(kind, i)
    BY <1>1, <2>3 DEF Counts
  <2>5. QED BY <2>1, <2>4
<1>4. \A kind, key : Came(kind, key)' = Came(kind, key)
  BY <1>1, <1>3 DEF Came
<1>5. \A kind : Width(kind)' = Width(kind)
  BY <1>1 DEF Width
<1>6. \A kind, key : Masked(kind, key)' = Masked(kind, key)
  BY <1>1, <1>3 DEF Masked
<1>7. QED BY <1>2, <1>4, <1>5, <1>6

\* Such a step keeps the invariant.
LEMMA QuietKept ==
    ASSUME FloodInv, Unheard, Recorded'
    PROVE  FloodInv'
<1>1. UNCHANGED <<scenario, traffic, alarms, can, host, eth>> /\ Recorded
  BY DEF Unheard, FloodInv
<1>2. /\ Stamps' = Stamps /\ \A kind, key : Came(kind, key)' = Came(kind, key)
      /\ \A kind, key : Rang(kind, key)' = Rang(kind, key)
      /\ \A kind : Width(kind)' = Width(kind)
      /\ \A kind, key : Masked(kind, key)' = Masked(kind, key)
  BY <1>1, NothingHeard
<1>3. \A kind, key, unset, start, n, alerted :
            Watches(kind, key, unset, start, n, alerted)' = Watches(kind, key, unset, start, n, alerted)
  BY <1>1, <1>2 DEF Watches
<1>4. ASSUME CanFloods PROVE CanFloods'
  <2>1. CanTyped'
    BY <1>1, <1>4 DEF CanFloods, CanTyped, IsScan
  <2>2. ASSUME NEW kind \in CanKinds, NEW key PROVE CanWatch(kind, key)'
    <3>1. CanWatch(kind, key)
      BY <1>4 DEF CanFloods
    <3>2. CanState(kind, key)' = CanState(kind, key)
      BY <1>1 DEF CanState
    <3>3. QED BY <1>1, <1>2, <1>3, <3>1, <3>2 DEF CanWatch
  <2>3. QED BY <2>1, <2>2 DEF CanFloods
<1>5. ASSUME HostFloods PROVE HostFloods'
  BY <1>1, <1>2, <1>3, <1>5 DEF HostFloods
<1>6. ASSUME EthFloods PROVE EthFloods'
  <2>1. \A key : EthWatch("rateFlood", key, eth.rates)' /\ EthWatch("arpStorm", key, eth.storms)'
    BY <1>1, <1>3, <1>6 DEF EthFloods, EthWatch
  <2>2. Unfragmented' = Unfragmented
    BY <1>1 DEF Unfragmented
  <2>3. \A key : ScanWatch(key)' = ScanWatch(key)
    BY <1>1, <1>2 DEF ScanWatch
  <2>4. \A addr : Bound(addr)' = Bound(addr)
    BY <1>1 DEF Bound, Tellings
  <2>5. EthTyped'
    BY <1>1, <1>6 DEF EthFloods, EthTyped
  <2>6. QED BY <1>6, <2>1, <2>2, <2>3, <2>4, <2>5 DEF EthFloods
<1>7. QED BY <1>1, <1>4, <1>5, <1>6 DEF FloodInv

-----------------------------------------------------------------------------
\* The steps of the CAN probe.
LEMMA AlarmsAreSeq ==
    ASSUME Recorded, Reports
    PROVE  IsSeq(alarms')
BY RangGrows DEF Reports, Recorded

\* A frame of the CAN probe keeps the invariant.
LEMMA CanStep ==
    ASSUME FloodInv, EngineInv, HostInv, CanNext,
           scenario.live \/ TimesInOrder'
    PROVE  FloodInv'
<1>1. PICK f \in scenario.inputs, at \in TimeStamps :
        /\ Capture(f, at)
        /\ FeedError(f, at) \/ FeedRemote(f, at) \/ FeedData(f, at)
  BY DEF CanNext, FeedFrame
<1>2. /\ scenario.probe = "can" /\ Recorded /\ CanFloods /\ clock \in Nat /\ scan.stamp \in Nat
      /\ scan' = scan /\ clock' = clock /\ scenario' = scenario /\ Fed(f, at)
  BY <1>1 DEF FloodInv, CanNext, EngineInv, EngineTyped, HostInv, HostTyped, Capture, hostVars, captureVars
<1>3. Arrives(f, at) /\ (scenario.live => at <= clock)
  BY <1>2, StampsArrive
<1>4. CanFloods'
  BY <1>1, <1>2, <1>3, CanFloodsKept
<1>5. IsSeq(alarms')
  BY <1>1, <1>2, CanReports, AlarmsAreSeq
<1>6. Recorded'
  BY <1>2, <1>3, <1>5, RecordedGrows
<1>7. QED BY <1>2, <1>4, <1>6 DEF FloodInv

-----------------------------------------------------------------------------
\* The host probe.

\* Its window, after alerts that are not about forks.
LEMMA HostAlerted ==
    ASSUME Recorded, scenario.probe = "host", HostFloods, scenario' = scenario, traffic' = traffic,
           NEW alerts, IsSeq(alerts), NEW at, Report(alerts, at), \A key : ~Rung(alerts, "forkFlood", key),
           host'.forks = host.forks, "forks" \in DOMAIN host'
    PROVE  HostFloods'
<1>1. \A key : Rang("forkFlood", key)' = Rang("forkFlood", key)
  BY RangGrows DEF Recorded
<1>2. \A i : Counts("forkFlood", i)' = {"host"} /\ Counts("forkFlood", i) = {"host"}
  BY DEF Counts
<1>3. \A i : Thing("forkFlood", i)' = Thing("forkFlood", i)
  BY DEF Thing
<1>4. \A key : Came("forkFlood", key)' = Came("forkFlood", key)
  BY <1>2, <1>3 DEF Came
<1>5. Stamps' = Stamps /\ \A kind : Width(kind)' = Width(kind)
  BY DEF Stamps, Width
<1>6. \A start, n, alerted : Watches("forkFlood", "host", NotOpen, start, n, alerted)' =
                                Watches("forkFlood", "host", NotOpen, start, n, alerted)
  BY <1>1, <1>4, <1>5 DEF Watches, NotOpen
<1>7. QED BY <1>1, <1>6 DEF HostFloods

\* An alert that may be muted rings for its kind and key.
LEMMA MutedRings ==
    ASSUME NEW muted, NEW raised, NEW sev, NEW k, NEW y, NEW at
    PROVE  /\ IsSeq(MutedAlert(muted, raised, sev, k, y, at))
           /\ \A kind, key : Rung(MutedAlert(muted, raised, sev, k, y, at), kind, key) => kind = k /\ key = y
<1>1. PICK rings : rings = (raised /\ ~Muted(muted, <<sev, y>>, at))
  OBVIOUS
<1>2. MutedAlert(muted, raised, sev, k, y, at) = When(rings, sev, k, y)
  BY <1>1 DEF MutedAlert
<1>3. QED BY <1>2, WhenRings

\* Its window, after an exec.
LEMMA ExecCounted ==
    ASSUME Recorded, scenario.probe = "host", HostFloods, NEW e, NEW at, Arrives(e, at), FeedExec(e, at)
    PROVE  HostFloods'
<1>0. /\ scenario' = scenario /\ at \in Nat /\ \A t \in Stamps : t <= at
      /\ "forks" \in DOMAIN host /\ host.forks \in CounterType
  BY DEF Arrives, HostFloods
<1>1. PICK open, v : open = Opened(host.forks, Counter(NotOpen), at, HostWindow)
                     /\ v = Counted(open, HostLimit("forkFlood"))
  OBVIOUS
<1>2. open = OpenForks(at) /\ v = ForksAfter(at)
  BY <1>1 DEF OpenForks, ForksAfter
<1>3. host'.forks = v /\ "forks" \in DOMAIN host'
  BY <1>0, <1>2 DEF FeedExec
<1>4. PICK execs, forks, shells, alerts :
        /\ execs = UnknownExec(e, at) \o PrivEsc(e, at) /\ shells = RevShell(e, at) \o RootShell(e, at)
        /\ forks = ForkFlood(at) /\ alerts = execs \o forks \o shells
  OBVIOUS
<1>5. Report(alerts, at)
  BY <1>4 DEF FeedExec
<1>6. /\ IsSeq(execs) /\ \A key : ~Rung(execs, "forkFlood", key)
      /\ IsSeq(shells) /\ \A key : ~Rung(shells, "forkFlood", key)
  <2>1. PICK a, b, c, d : a = UnknownExec(e, at) /\ b = PrivEsc(e, at) /\ c = RevShell(e, at) /\ d = RootShell(e, at)
    OBVIOUS
  <2>2. /\ IsSeq(a) /\ \A key : ~Rung(a, "forkFlood", key)
        /\ IsSeq(b) /\ \A key : ~Rung(b, "forkFlood", key)
    BY <2>1, MutedRings DEF UnknownExec, PrivEsc
  <2>5. /\ IsSeq(c) /\ \A key : ~Rung(c, "forkFlood", key)
        /\ IsSeq(d) /\ \A key : ~Rung(d, "forkFlood", key)
    <3>1. PICK reverse, root : reverse = (e.shell /\ e.net # "") /\ root = (e.root /\ e.shell)
      OBVIOUS
    <3>2. /\ c = MutedAlert(host.muted, reverse, "revShell", "revShell", e.net, at)
          /\ d = MutedAlert(host.muted, root, "rootShell", "rootShell", e.name, at)
      BY <2>1, <3>1 DEF RevShell, RootShell
    <3>3. QED BY <3>2, MutedRings
  <2>3. execs = a \o b /\ shells = c \o d
    BY <1>4, <2>1
  <2>4. QED BY <2>2, <2>3, <2>5, JoinedRings
<1>7. IsSeq(forks) /\ \A kind, key : Rung(forks, kind, key) <=> Raised(open, v) /\ kind = "forkFlood" /\ key = "host"
  BY <1>2, <1>4, WhenRings DEF ForkFlood
<1>8. IsSeq(alerts) /\ \A key : Rung(alerts, "forkFlood", key) <=> Raised(open, v) /\ key = "host"
  <2>1. PICK both : both = execs \o forks
    OBVIOUS
  <2>2. IsSeq(both) /\ \A key : Rung(both, "forkFlood", key) <=> Raised(open, v) /\ key = "host"
    BY <1>6, <1>7, <2>1, JoinedRings
  <2>3. alerts = both \o shells
    BY <1>4, <2>1
  <2>4. QED BY <1>6, <2>2, <2>3, JoinedRings
<1>9. \A key : Rang("forkFlood", key)' =
            IF Raised(open, v) /\ key = "host" THEN Rang("forkFlood", key) \cup {at} ELSE Rang("forkFlood", key)
  BY <1>5, <1>8, RangGrows DEF Recorded
<1>10. PICK n : n = Len(traffic)
  OBVIOUS
<1>11. Came("forkFlood", "host")' = Grown(Came("forkFlood", "host"), at, n + 1)
       /\ \A c \in Came("forkFlood", "host") : c[2] # n + 1
  <2>1. \A i : Counts("forkFlood", i)' = {"host"} /\ Counts("forkFlood", i) = {"host"}
    BY <1>0 DEF Counts
  <2>2. \A i : Thing("forkFlood", i)' = i /\ Thing("forkFlood", i) = i
    BY DEF Thing
  <2>3. Recorded /\ Arrives(e, at) /\ \A i \in DOMAIN traffic : Counts("forkFlood", i)' = Counts("forkFlood", i)
    BY <2>1
  <2>4. "host" \in Counts("forkFlood", n + 1)' =>
            Came("forkFlood", "host")' = Grown(Came("forkFlood", "host"), at, Thing("forkFlood", n + 1)')
    BY ONLY <1>10, <2>3, CameGrows, SMTT(30)
  <2>5. \A c \in Came("forkFlood", "host") : c[2] \in DOMAIN traffic
    BY <2>2 DEF Came
  <2>6. n + 1 \notin DOMAIN traffic
    BY <1>10 DEF Recorded, IsSeq
  <2>7. QED BY <2>1, <2>2, <2>4, <2>5, <2>6
<1>12. Stamps' = Stamps \cup {at}
  BY TimesGoOn
<1>13. PICK limit : limit = scenario.limits["forkFlood"]
  OBVIOUS
<1>14. limit \in Nat /\ Width("forkFlood") = HostWindow /\ Width("forkFlood")' = HostWindow
       /\ HostWindow \in Nat \ {0} /\ HostLimit("forkFlood") = limit
  <2>1. scenario \in Scenarios
    BY DEF Recorded
  <2>2. "forkFlood" \in DOMAIN scenario.limits
    BY <2>1, Limits DEF HostKinds
  <2>3. QED BY <1>0, <1>13, <2>1, <2>2, Limits, HostAssumption DEF HostLimit, Width
<1>15. CountsIn(Came("forkFlood", "host"), Rang("forkFlood", "host"), Stamps, HostWindow, limit, NotOpen,
                host.forks, at, n + 1, open, v)
  <2>1. PICK w : w = OfCounter(host.forks)
    OBVIOUS
  <2>2. w.start = host.forks.start /\ w.n = host.forks.count /\ w.alerted = host.forks.alerted
    BY <2>1 DEF OfCounter, State
  <2>3. Watches("forkFlood", "host", NotOpen, w.start, w.n, w.alerted)
    BY <2>1 DEF HostFloods
  <2>4. Watching(Came("forkFlood", "host"), Rang("forkFlood", "host"), Stamps, HostWindow, limit, NotOpen,
                 host.forks.start, host.forks.count, host.forks.alerted)
    BY <1>13, <1>14, <2>2, <2>3 DEF Watches
  <2>5. NotOpen \in Int /\ at \in Int /\ at # NotOpen
    BY <1>0 DEF NotOpen
  <2>6. QED BY <1>0, <1>1, <1>11, <1>14, <2>4, <2>5 DEF CountsIn
<1>16. /\ Watching(Grown(Came("forkFlood", "host"), at, n + 1),
                   IF Raised(open, v) THEN Rang("forkFlood", "host") \cup {at} ELSE Rang("forkFlood", "host"),
                   Stamps \cup {at}, HostWindow, limit, NotOpen, v.start, v.count, v.alerted)
       /\ v \in CounterType
  BY ONLY <1>15, CounterWatches
<1>17. PICK w : w = OfCounter(v)
  OBVIOUS
<1>18. w.start = v.start /\ w.n = v.count /\ w.alerted = v.alerted
  BY <1>17 DEF OfCounter, State
<1>19. Watches("forkFlood", "host", NotOpen, w.start, w.n, w.alerted)'
  <2>1. Rang("forkFlood", "host")' =
            IF Raised(open, v) THEN Rang("forkFlood", "host") \cup {at} ELSE Rang("forkFlood", "host")
    BY <1>9
  <2>2. Watching(Came("forkFlood", "host")', Rang("forkFlood", "host")', Stamps', Width("forkFlood")',
                 scenario'.limits["forkFlood"], NotOpen, w.start, w.n, w.alerted)
    BY <1>0, <1>11, <1>12, <1>13, <1>14, <1>16, <1>18, <2>1
  <2>3. v.start \in Int /\ v.count \in Nat /\ v.alerted \in BOOLEAN
    BY <1>16 DEF CounterType
  <2>4. QED BY <1>18, <2>2, <2>3 DEF Watches, NotOpen
<1>20. \A key : key # "host" => Rang("forkFlood", key)' = {}
  BY <1>9 DEF HostFloods
<1>21. w = OfCounter(host'.forks)
  BY <1>3, <1>17
<1>22. QED BY <1>3, <1>16, <1>19, <1>20, <1>21 DEF HostFloods

\* The alerts about files are not about forks.
LEMMA FilesRing ==
    ASSUME NEW path, NEW state \in {"same", "changed", "missing", "setuid"}, NEW at
    PROVE  IsSeq(FileAlerts(path, state, at)) /\ \A key : ~Rung(FileAlerts(path, state, at), "forkFlood", key)
<1>1. PICK mod, new : /\ mod = (path = "monitored" /\ state # "same")
                      /\ new = (path # "monitored" /\ state = "setuid")
  OBVIOUS
<1>2. PICK a, b : /\ a = MutedAlert(host.muted, mod, "fileMod", state, path, at)
                  /\ b = MutedAlert(host.muted, new, "newSetuid", state, path, at)
  OBVIOUS
<1>3. FileAlerts(path, state, at) = a \o b
  BY <1>1, <1>2 DEF FileAlerts, FileMod, NewSetuid
<1>4. IsSeq(a) /\ IsSeq(b) /\ \A key : ~Rung(a, "forkFlood", key) /\ ~Rung(b, "forkFlood", key)
  BY <1>2, MutedRings
<1>5. QED BY <1>3, <1>4, JoinedRings

\* Nor are those at the end of a pass.
LEMMA PassRings ==
    ASSUME HostInv, scenario.probe = "host", PassEnds
    PROVE  \E alerts : /\ IsSeq(alerts) /\ Report(alerts, scan.stamp)
                       /\ \A key : ~Rung(alerts, "forkFlood", key)
<1>1. PICK hog \in scenario.hogs, modules \in ModulesRead, file \in FileRead : TRUE
             /\ LET at == scan.stamp
                    mods == modules \ scan.mods
                    snapshot == IF scan.primed THEN SnapshotAlerts(scan.zombies, hog, at) ELSE <<>>
                    others == (IF scan.primed THEN ModuleAlerts(mods, at) ELSE <<>>)
                              \o FileAlerts("monitored", file, at)
                IN  Report(snapshot \o others, at)
  BY DEF PassEnds
<1>2. PICK at, mods : at = scan.stamp /\ mods = modules \ scan.mods
  OBVIOUS
<1>3. IsSeq(<<>>) /\ \A key : ~Rung(<<>>, "forkFlood", key)
  <2>1. DOMAIN <<>> = {}
    OBVIOUS
  <2>2. QED BY <2>1, SingleSeq DEF Rung
<1>4. IsSeq(SnapshotAlerts(scan.zombies, hog, at)) /\ \A key : ~Rung(SnapshotAlerts(scan.zombies, hog, at), "forkFlood", key)
  <2>1. PICK a, b : a = ZombieStorm(scan.zombies, at) /\ b = ResExhaust(hog, at)
    OBVIOUS
  <2>2. IsSeq(a) /\ \A key : ~Rung(a, "forkFlood", key)
    <3>1. PICK raised : raised = Raised(OpenZombies(at), ZombiesAfter(scan.zombies, at))
      OBVIOUS
    <3>2. a = When(raised, "zombieStorm", "zombieStorm", "host")
      BY <2>1, <3>1 DEF ZombieStorm
    <3>3. QED BY <3>2, WhenRings
  <2>3. IsSeq(b) /\ \A key : ~Rung(b, "forkFlood", key)
    <3>1. hog # "forkFlood"
      BY ScenarioAssumption DEF HostInv, HostTyped
    <3>2. PICK hogs : hogs = (hog # "none")
      OBVIOUS
    <3>3. b = MutedAlert(host.muted, hogs, "resExhaust", hog, "host", at)
      BY <2>1, <3>2 DEF ResExhaust
    <3>4. QED BY <3>1, <3>3, MutedRings
  <2>4. SnapshotAlerts(scan.zombies, hog, at) = a \o b
    BY <2>1 DEF SnapshotAlerts
  <2>5. QED BY <2>2, <2>3, <2>4, JoinedRings
<1>5. IsSeq(ModuleAlerts(mods, at)) /\ \A key : ~Rung(ModuleAlerts(mods, at), "forkFlood", key)
  <2>1. CASE mods = {}
    BY <1>3, <2>1 DEF ModuleAlerts
  <2>2. CASE mods # {}
    <3>1. PICK mod, loaded : mod = (CHOOSE x \in mods : TRUE) /\ loaded = TRUE
      OBVIOUS
    <3>2. ModuleAlerts(mods, at) = MutedAlert(host.muted, loaded, "kmodLoad", "kmodLoad", mod, at)
      BY <2>2, <3>1 DEF ModuleAlerts
    <3>3. QED BY <3>2, MutedRings
  <2>3. QED BY <2>1, <2>2
<1>6. PICK snapshot, loaded, files :
        /\ snapshot = (IF scan.primed THEN SnapshotAlerts(scan.zombies, hog, at) ELSE <<>>)
        /\ loaded = (IF scan.primed THEN ModuleAlerts(mods, at) ELSE <<>>)
        /\ files = FileAlerts("monitored", file, at)
  OBVIOUS
<1>7. /\ IsSeq(snapshot) /\ \A key : ~Rung(snapshot, "forkFlood", key)
      /\ IsSeq(loaded) /\ \A key : ~Rung(loaded, "forkFlood", key)
  BY <1>3, <1>4, <1>5, <1>6
<1>8. IsSeq(files) /\ \A key : ~Rung(files, "forkFlood", key)
  <2>1. file \in {"same", "changed", "missing", "setuid"}
    BY DEF HostInv, HostTyped, FileRead
  <2>2. QED BY <1>6, <2>1, FilesRing
<1>9. PICK alerts : alerts = snapshot \o (loaded \o files)
  OBVIOUS
<1>10. IsSeq(alerts) /\ \A key : ~Rung(alerts, "forkFlood", key)
  <2>1. PICK others : others = loaded \o files
    OBVIOUS
  <2>2. IsSeq(others) /\ \A key : ~Rung(others, "forkFlood", key)
    BY <1>7, <1>8, <2>1, JoinedRings
  <2>3. alerts = snapshot \o others
    BY <1>9, <2>1
  <2>4. QED BY <1>7, <2>2, <2>3, JoinedRings
<1>11. Report(alerts, scan.stamp)
  BY <1>1, <1>2, <1>6, <1>9
<1>12. QED BY <1>10, <1>11

\* The steps of the host probe.
LEMMA HostFloodsStep ==
    ASSUME FloodInv, EngineInv, HostInv, Reporting, HostOnly, HostInv',
           scenario.live \/ TimesInOrder'
    PROVE  FloodInv'
<1>1. /\ scenario.probe = "host" /\ Recorded /\ HostFloods /\ clock \in Nat /\ scan.stamp \in Nat /\ scan'.stamp \in Nat
      /\ HostNext
  BY DEF FloodInv, HostOnly, EngineInv, EngineTyped, HostInv, HostTyped
<1>2. UNCHANGED <<can, eth>>
  BY DEF HostOnly, ethVars
<1>3. IsSeq(alarms) /\ (scenario.live => scan.stamp <= clock)
  BY <1>1 DEF Recorded
<1> USE DEF historyVars, engineVars, mainVars, probeVars, hostVars, captureVars, systemVars
<1>4. ASSUME UNCHANGED <<scenario, traffic, alarms, host>>, TimePasses
      PROVE  FloodInv'
  <2>1. Recorded'
    BY <1>1, <1>3, <1>4, RecordedQuiet
  <2>2. Unheard
    BY <1>2, <1>4 DEF Unheard
  <2>3. QED BY <2>1, <2>2, QuietKept
<1>5. ASSUME scenario' = scenario, Recorded', HostFloods' PROVE FloodInv'
  BY <1>1, <1>5 DEF FloodInv
<1>6. CASE HostOpens
  <2>1. UNCHANGED <<scenario, traffic, alarms, host, clock, scan>> /\ phase = "ready"
    BY <1>6 DEF HostOpens, Opens
  <2>2. netlink = "off"
    BY <2>1 DEF HostInv, NothingYet
  <2>3. QED BY <1>1, <1>3, <1>4, <2>1, <2>2 DEF TimePasses
<1>7. CASE \/ \E pid \in Pids : Death(pid) \/ \E program \in scenario.inputs : Birth(pid, program)
           \/ SystemChange \/ HostCaptureEnds \/ ReplayEnds
  <2>1. UNCHANGED <<scenario, traffic, alarms, host, clock, scan, netlink>>
    BY <1>7 DEF Death, Birth, SystemChange, HostCaptureEnds, ReplayEnds, CaptureEnds
  <2>2. QED BY <1>1, <1>3, <1>4, <2>1 DEF TimePasses
<1>8. CASE NetlinkEnds
  <2>1. UNCHANGED <<scenario, traffic, alarms, host, clock, scan>> /\ netlink' = "ended"
    BY <1>8 DEF NetlinkEnds
  <2>2. QED BY <1>1, <1>3, <1>4, <2>1 DEF TimePasses
<1>9. CASE PassBegins \/ Visit \/ VisitFails \/ PassSleeps
  <2>1. UNCHANGED <<scenario, traffic, alarms, host, clock, netlink>>
    <3>1. CASE PassBegins
      BY Zenon, <3>1 DEF PassBegins
    <3>2. CASE Visit \/ VisitFails \/ PassSleeps
      BY <3>2 DEF Visit, VisitFails, PassSleeps
    <3>3. QED BY ONLY <1>9, <3>1, <3>2
  <2>2. PICK s : s = scan /\ s \in [pc : {"top", "walk", "sleep", "done"}, pass : 0..MaxPasses, pos : Nat,
                 stamp : Nat, cur : SUBSET Pids, missed : SUBSET Pids, known : SUBSET Pids,
                 zombies : Nat, mods : SUBSET {"rootkit"}, primed : BOOLEAN]
    BY DEF HostInv, HostTyped
  <2>3. scan'.stamp = scan.stamp \/ (scenario.live /\ scan'.stamp = clock)
    <3>1. CASE PassBegins
      <4>1. /\ scenario.live
            /\ \/ scan' = [scan EXCEPT !.pc = "done"]
               \/ \E missed \in Unopened :
                     scan' = [scan EXCEPT !.pc = "walk", !.pass = @ + 1, !.pos = 0, !.stamp = clock,
                                          !.cur = {}, !.missed = missed, !.zombies = 0]
        BY Zenon, <3>1 DEF PassBegins
      <4>2. QED BY <2>2, <4>1
    <3>2. CASE Visit
      BY <2>2, <3>2 DEF Visit, Meets
    <3>5. CASE VisitFails
      BY <2>2, <3>5 DEF VisitFails
    <3>3. CASE PassSleeps
      BY <2>2, <3>3 DEF PassSleeps
    <3>4. QED BY ONLY <1>9, <3>1, <3>2, <3>3, <3>5
  <2>4. QED BY <1>1, <1>3, <1>4, <2>1, <2>3 DEF TimePasses
<1>10. CASE Receive
  <2>1. PICK e : FeedExec(e, clock)
    BY <1>10 DEF Receive
  <2>2. netlink = "run" /\ UNCHANGED <<scenario, clock, scan>> /\ netlink' # "off"
    BY <1>10 DEF Receive
  <2>3. scenario.live
    BY <2>2 DEF Reporting
  <2>4. Arrives(e, clock)
    BY <1>1, <2>1, <2>2, <2>3 DEF Arrives, FeedExec, Recorded
  <2>5. HostFloods'
    BY <1>1, <2>1, <2>4, ExecCounted
  <2>6. IsSeq(alarms')
    BY <1>1, <2>1, ExecReports, AlarmsAreSeq
  <2>7. Recorded'
    BY <1>1, <2>2, <2>4, <2>6, RecordedGrows
  <2>8. QED BY <1>5, <2>2, <2>5, <2>7
<1>11. CASE VisitNew
  <2>1. PICK e : FeedExec(e, scan.stamp)
    BY <1>11 DEF VisitNew
  <2>2. netlink = "off" /\ scan.pc = "walk" /\ UNCHANGED <<scenario, clock, netlink>>
    BY <1>11 DEF VisitNew, New, EmitExecs
  <2>3. scenario.live
    BY <2>2 DEF Reporting
  <2>4. Arrives(e, scan.stamp)
    BY <1>1, <2>1, <2>2, <2>3 DEF Arrives, FeedExec, Recorded
  <2>5. HostFloods'
    BY <1>1, <2>1, <2>4, ExecCounted
  <2>6. IsSeq(alarms')
    BY <1>1, <2>1, ExecReports, AlarmsAreSeq
  <2>7. scan'.stamp = scan.stamp
    <3>1. PICK s : s = scan /\ s \in [pc : {"top", "walk", "sleep", "done"}, pass : 0..MaxPasses, pos : Nat,
                 stamp : Nat, cur : SUBSET Pids, missed : SUBSET Pids, known : SUBSET Pids,
                 zombies : Nat, mods : SUBSET {"rootkit"}, primed : BOOLEAN]
      BY DEF HostInv, HostTyped
    <3>2. QED BY <1>11, <3>1 DEF VisitNew, Meets
  <2>8. Recorded'
    BY <1>1, <1>3, <2>2, <2>4, <2>6, <2>7, RecordedGrows
  <2>9. QED BY <1>5, <2>2, <2>5, <2>8
<1>12. CASE PassEnds
  <2>1. PICK alerts : /\ IsSeq(alerts) /\ Report(alerts, scan.stamp)
                      /\ \A key : ~Rung(alerts, "forkFlood", key)
    BY <1>1, <1>12, PassRings
  <2>2. /\ UNCHANGED <<scenario, clock, traffic, netlink>>
        /\ \E mods : scan' = [scan EXCEPT !.pc = "sleep", !.known = Known, !.primed = TRUE,
                                          !.mods = mods]
    BY <1>12 DEF PassEnds
  <2>3. scan'.stamp = scan.stamp
    <3>1. PICK s : s = scan /\ s \in [pc : {"top", "walk", "sleep", "done"}, pass : 0..MaxPasses, pos : Nat,
                 stamp : Nat, cur : SUBSET Pids, missed : SUBSET Pids, known : SUBSET Pids,
                 zombies : Nat, mods : SUBSET {"rootkit"}, primed : BOOLEAN]
      BY DEF HostInv, HostTyped
    <3>2. QED BY <2>2, <3>1
  <2>4. host'.forks = host.forks /\ "forks" \in DOMAIN host'
    <3>1. PICK zombies, muted : host' = [host EXCEPT !.zombies = zombies, !.muted = muted]
      BY <1>12 DEF PassEnds
    <3>2. "forks" \in DOMAIN host
      BY <1>1 DEF HostFloods
    <3>3. QED BY <3>1, <3>2
  <2>5. HostFloods'
    BY <1>1, <2>1, <2>2, <2>4, HostAlerted
  <2>6. IsSeq(alarms')
    BY <1>3, <2>1, RangGrows
  <2>7. Recorded'
    BY <1>1, <1>3, <2>2, <2>3, <2>6, RecordedQuiet DEF TimePasses
  <2>8. QED BY <1>5, <2>2, <2>5, <2>7
<1>13. CASE ReplayExec
  <2>1. PICK e \in scenario.inputs, at \in TimeStamps : FeedExec(e, at)
    BY <1>13 DEF ReplayExec
  <2>2. ~scenario.live /\ UNCHANGED <<scenario, clock, netlink, scan>>
    BY <1>13 DEF ReplayExec
  <2>3. Arrives(e, at)
    BY <1>1, <2>1, <2>2, StampsArrive DEF FeedExec
  <2>4. HostFloods'
    BY <1>1, <2>1, <2>3, ExecCounted
  <2>5. IsSeq(alarms')
    BY <1>1, <2>1, ExecReports, AlarmsAreSeq
  <2>6. Recorded'
    BY <1>1, <2>2, <2>3, <2>5, RecordedGrows
  <2>7. QED BY <1>5, <2>2, <2>4, <2>6
<1>14. CASE ReplayFile
  <2>1. PICK at, alerts : alerts = FileAlerts("elsewhere", "setuid", at) /\ Report(alerts, at)
                          /\ host' = [host EXCEPT !.muted = MutedAfter(@, alerts, at)]
    BY <1>14 DEF ReplayFile
  <2>2. UNCHANGED <<scenario, clock, traffic, netlink, scan>>
    BY <1>14 DEF ReplayFile
  <2>3. IsSeq(alerts) /\ \A key : ~Rung(alerts, "forkFlood", key)
    BY <2>1, FilesRing
  <2>4. host'.forks = host.forks /\ "forks" \in DOMAIN host'
    BY <1>1, <2>1 DEF HostFloods
  <2>5. HostFloods'
    BY <1>1, <2>1, <2>2, <2>3, <2>4, HostAlerted
  <2>6. IsSeq(alarms')
    BY <1>3, <2>1, <2>3, RangGrows
  <2>7. Recorded'
    BY <1>1, <1>3, <2>2, <2>6, RecordedQuiet DEF TimePasses
  <2>8. QED BY <1>5, <2>2, <2>5, <2>7
<1>15. QED BY <1>1, <1>6, <1>7, <1>8, <1>9, <1>10, <1>11, <1>12, <1>13, <1>14 DEF HostNext

-----------------------------------------------------------------------------
\* The steps of the main program, and the start.
LEMMA MainFloods ==
    ASSUME FloodInv, EngineInv, HostInv,
           \/ (MainNext \/ OpensOrEnds) /\ UNCHANGED <<can, hostVars, ethVars>>
           \/ UNCHANGED vars
    PROVE  FloodInv'
<1> USE DEF historyVars, engineVars, mainVars, probeVars, hostVars, captureVars, systemVars
<1>1. Recorded /\ clock \in Nat /\ scan.stamp \in Nat
  BY DEF FloodInv, EngineInv, EngineTyped, HostInv, HostTyped
<1>2. UNCHANGED <<scenario, traffic, alarms, can, host, eth, scan, netlink>> /\ clock' \in {clock, clock + 1}
  <2>1. CASE UNCHANGED vars
    BY <2>1 DEF vars, ethVars
  <2>2. CASE (MainNext \/ OpensOrEnds) /\ UNCHANGED <<can, hostVars, ethVars>>
    <3> USE <2>2 DEF ethVars
    <3>1. CASE OpenFails \/ OpensOrEnds
      BY <3>1 DEF OpenFails, OpensOrEnds, Opens, CaptureEnds
    <3>2. CASE OnSignal
      BY <3>2 DEF OnSignal
    <3>3. CASE Engine
      BY <3>3 DEF Engine, Stage, Release
    <3>4. CASE Tick
      BY <3>4 DEF Tick
    <3>5. CASE Shutdown
      BY <3>5 DEF Shutdown, Flush, Sleep, RmDeInit, MDeInit
    <3>6. QED BY <3>1, <3>2, <3>3, <3>4, <3>5 DEF MainNext
  <2>3. QED BY <2>1, <2>2
<1>3. TimePasses
  BY <1>1, <1>2 DEF TimePasses, Recorded
<1>4. Recorded'
  BY <1>1, <1>2, <1>3, RecordedQuiet DEF Recorded
<1>5. QED BY <1>2, <1>4, QuietKept DEF Unheard

-----------------------------------------------------------------------------
\* The security events of alerts.

EventsIn(alerts, listed) == \A i \in DOMAIN alerts : alerts[i].sev \in listed

\* Two sequences of such alerts are one.
LEMMA EventsJoined ==
    ASSUME NEW listed, NEW s, NEW t, IsSeq(s), IsSeq(t), EventsIn(s, listed), EventsIn(t, listed)
    PROVE  EventsIn(s \o t, listed)
<1>1. PICK m \in Nat, n \in Nat : m = Len(s) /\ n = Len(t) /\ DOMAIN s = 1..m /\ DOMAIN t = 1..n
  BY DEF IsSeq
<1>2. DOMAIN (s \o t) = 1..(m + n) /\ \A i \in 1..(m + n) : (s \o t)[i] = IF i <= m THEN s[i] ELSE t[i - m]
  BY <1>1 DEF IsSeq
<1>3. ASSUME NEW i \in 1..(m + n) PROVE (s \o t)[i].sev \in listed
  <2>1. CASE i <= m
    BY <1>1, <1>2, <2>1 DEF EventsIn
  <2>2. CASE ~(i <= m)
    <3>1. i - m \in 1..n
      BY <1>1, <2>2
    <3>2. QED BY <1>1, <1>2, <2>2, <3>1 DEF EventsIn
  <2>3. QED BY <2>1, <2>2
<1>4. QED BY <1>2, <1>3 DEF EventsIn

\* One alert, or none, is of its security event.
LEMMA EventOfOne ==
    ASSUME NEW listed, NEW sev \in listed, NEW raised, NEW kind, NEW key
    PROVE  EventsIn(When(raised, sev, kind, key), listed) /\ EventsIn(<<>>, listed)
<1>1. EventsIn(<<>>, listed) /\ EventsIn(<<[sev |-> sev, kind |-> kind, key |-> key]>>, listed)
  BY DEF EventsIn
<1>2. QED BY <1>1 DEF When

-----------------------------------------------------------------------------
\* The Ethernet probe: what leaves the windows alone.

\* The security events of its table.
EthEvents == {"portScan", "rateFlood", "flagAnomaly", "rule", "doip", "someip", "reassembly",
              "crossBorder", "tls", "http", "dns", "arp"}
OfEvents(alerts) == EventsIn(alerts, EthEvents)

\* A handler that has nothing to do with the windows of rates and of ARP, and whose
\* alerts are of the table.
Beside(x, y) ==
    /\ OfEvents(x.alerts) => OfEvents(y.alerts)
    /\ y.e.rates = x.e.rates /\ y.e.storms = x.e.storms /\ y.e.bindings = x.e.bindings
    /\ \A kind \in {"rateFlood", "arpStorm"} : \A key :
            Rung(y.alerts, kind, key) <=> Rung(x.alerts, kind, key)

\* Nor with those of ports.
Aside(x, y) ==
    /\ Beside(x, y) /\ y.e.scans = x.e.scans
    /\ \A key : Rung(y.alerts, "portScan", key) <=> Rung(x.alerts, "portScan", key)

\* Alerts that are of no limit.
NoFlood(alerts) ==
    IsSeq(alerts) /\ OfEvents(alerts) /\ \A kind \in EthKinds : \A key : ~Rung(alerts, kind, key)

\* One handler after the other.
LEMMA AsideChains ==
    ASSUME NEW x, NEW y, NEW z
    PROVE  /\ Aside(x, x) /\ (Aside(x, y) /\ Aside(y, z) => Aside(x, z))
           /\ (Beside(x, y) /\ Beside(y, z) => Beside(x, z)) /\ (Aside(x, y) => Beside(x, y))
BY DEF Aside, Beside

\* Alerts of other kinds.
LEMMA WhenApart ==
    ASSUME NEW raised, NEW sev \in EthEvents, NEW kind, kind \notin EthKinds, NEW key
    PROVE  NoFlood(When(raised, sev, kind, key))
<1>1. PICK rings : rings = raised
  OBVIOUS
<1>2. IsSeq(When(rings, sev, kind, key))
      /\ \A k, y : Rung(When(rings, sev, kind, key), k, y) <=> rings /\ k = kind /\ y = key
  BY WhenRings
<1>3. QED BY <1>1, <1>2, EventOfOne DEF NoFlood, OfEvents

\* Two of them, and none.
LEMMA JoinApart ==
    ASSUME NEW s, NEW t, NoFlood(s), NoFlood(t)
    PROVE  NoFlood(s \o t) /\ NoFlood(<<>>)
<1>1. IsSeq(s) /\ IsSeq(t)
  BY DEF NoFlood
<1>2. IsSeq(s \o t) /\ \A kind, key : Rung(s \o t, kind, key) <=> Rung(s, kind, key) \/ Rung(t, kind, key)
  BY <1>1, JoinedRings
<1>3. IsSeq(<<>>) /\ \A kind, key : ~Rung(<<>>, kind, key)
  <2>1. DOMAIN <<>> = {}
    OBVIOUS
  <2>2. QED BY <2>1, SingleSeq DEF Rung
<1>4. NoFlood(<<>>)
  BY <1>3 DEF NoFlood, OfEvents, EventsIn
<1>5. OfEvents(s \o t)
  BY <1>1, EventsJoined DEF NoFlood, OfEvents
<1>6. QED BY <1>2, <1>4, <1>5 DEF NoFlood

\* The alerts of rules, whose numbers are no kinds of floods.
LEMMA RulesApart ==
    ASSUME scenario \in Scenarios, scenario.probe = "eth", NEW hits \in Seq(ToSet(scenario.rules)), NEW key
    PROVE  NoFlood(RuleAlerts(hits, key))
<1>1. PICK a : a = RuleAlerts(hits, key)
  OBVIOUS
<1>2. PICK m \in Nat : m = Len(hits) /\ DOMAIN hits = 1..m
  OBVIOUS
<1>3. IsSeq(hits)
  BY AnySeq
<1>4. IsSeq(a)
  BY <1>1, <1>3, RuleAlertsSeq
<1>5. ASSUME NEW i \in DOMAIN a PROVE a[i].kind \notin EthKinds
  <2>1. i \in DOMAIN hits /\ a[i].kind = hits[i].sid
    BY <1>1, <1>5 DEF RuleAlerts
  <2>2. hits[i] \in ToSet(scenario.rules)
    BY <1>2, <2>1
  <2>3. \A r \in ToSet(scenario.rules) : r.sid \notin EthKinds
    BY ScenarioAssumption
  <2>4. QED BY <2>1, <2>2, <2>3
<1>6. OfEvents(a)
  BY <1>1 DEF RuleAlerts, OfEvents, EthEvents, EventsIn
<1>7. QED BY <1>1, <1>4, <1>5, <1>6 DEF NoFlood, Rung

\* The rules that match are rules of the scenario.
LEMMA HitsAreRules ==
    ASSUME scenario \in Scenarios, scenario.probe = "eth", NEW kind, NEW bufs
    PROVE  Hits(kind, bufs) \in Seq(ToSet(scenario.rules))
<1>1. scenario.rules \in Seq(ToSet(scenario.rules))
  BY ScenarioAssumption
<1>2. IsSeq(scenario.rules)
  BY <1>1, AnySeq
<1>3. \A n \in DOMAIN scenario.rules : scenario.rules[n] \in ToSet(scenario.rules)
  BY DEF ToSet
<1>4. \A places : Those(scenario.rules, places) \in Seq(ToSet(scenario.rules))
  BY <1>2, <1>3, ThoseIn
<1>5. QED BY <1>4 DEF Hits

\* The alerts of the rules that match.
LEMMA HitsApart ==
    ASSUME scenario \in Scenarios, scenario.probe = "eth", NEW kind, NEW bufs, NEW key
    PROVE  NoFlood(RuleAlerts(Hits(kind, bufs), key))
BY HitsAreRules, RulesApart

\* A handler that raises such alerts, and changes no window.
LEMMA ThenAside ==
    ASSUME NEW n, NEW x, Work(x, n), NEW e, NEW alerts, NoFlood(alerts),
           e.rates = x.e.rates, e.storms = x.e.storms, e.bindings = x.e.bindings, e.scans = x.e.scans
    PROVE  Aside(x, Then(x, e, alerts))
<1>1. PICK y : y = Then(x, e, alerts)
  OBVIOUS
<1>2. y.e = e /\ y.alerts = x.alerts \o alerts
  BY <1>1 DEF Then, Work
<1>3. \A kind, key : Rung(y.alerts, kind, key) <=> Rung(x.alerts, kind, key) \/ Rung(alerts, kind, key)
  BY <1>2, JoinedRings DEF Work, NoFlood
<1>4. \A kind \in EthKinds : \A key : Rung(y.alerts, kind, key) <=> Rung(x.alerts, kind, key)
  BY <1>3 DEF NoFlood
<1>5. OfEvents(x.alerts) => OfEvents(y.alerts)
  BY <1>2, EventsJoined DEF Work, NoFlood, OfEvents
<1>6. QED BY <1>1, <1>2, <1>4, <1>5 DEF Aside, Beside, EthKinds

\* An alert by itself.
LEMMA AlertAside ==
    ASSUME NEW n, NEW x, Work(x, n), NEW sev \in EthEvents, NEW kind, kind \notin EthKinds, NEW key
    PROVE  Aside(x, Alert(x, sev, kind, key))
<1>1. PICK y, a : y = Alert(x, sev, kind, key) /\ a = [sev |-> sev, kind |-> kind, key |-> key]
  OBVIOUS
<1>2. y.e = x.e /\ y.alerts = Append(x.alerts, a) /\ a.kind = kind /\ a.sev = sev
  BY <1>1 DEF Alert, Work
<1>3. PICK T : x.alerts \in Seq(T) /\ a \in T
  <2>1. PICK T : T = ToSet(x.alerts) \cup {a}
    OBVIOUS
  <2>2. \A U : U \subseteq T => Seq(U) \subseteq Seq(T)
    OBVIOUS
  <2>3. QED BY <2>1, <2>2 DEF Work, IsSeq
<1>4. x.alerts \o <<a>> = Append(x.alerts, a)
  BY <1>3
<1>5. PICK one : one = <<a>> /\ IsSeq(one) /\ \A k, y1 : Rung(one, k, y1) <=> k = a.kind /\ y1 = a.key
  BY OneRings
<1>6. \A k, y1 : Rung(x.alerts \o one, k, y1) <=> Rung(x.alerts, k, y1) \/ Rung(one, k, y1)
  BY <1>5, JoinedRings DEF Work
<1>7. \A k \in EthKinds : \A y1 : Rung(y.alerts, k, y1) <=> Rung(x.alerts, k, y1)
  <2>1. y.alerts = x.alerts \o one
    BY <1>2, <1>4, <1>5
  <2>2. \A k \in EthKinds : \A y1 : ~Rung(one, k, y1)
    BY <1>2, <1>5
  <2>3. QED BY <1>6, <2>1, <2>2
<1>8. OfEvents(x.alerts) => OfEvents(y.alerts)
  <2>1. OfEvents(one)
    BY <1>2, <1>5 DEF OfEvents, EventsIn
  <2>2. QED BY <1>2, <1>4, <1>5, <2>1, EventsJoined DEF Work, OfEvents
<1>9. QED BY <1>1, <1>2, <1>7, <1>8 DEF Aside, Beside, EthKinds

\* A handler that changes the state of a direction, or what is put together.
LEMMA SameAside ==
    ASSUME NEW x, NEW y, y.e = x.e, y.alerts = x.alerts
    PROVE  Aside(x, y)
BY DEF Aside, Beside

\* The detectors of packets that have no window.
LEMMA DetectorsAside ==
    ASSUME NEW n, NEW x, Work(x, n), scenario \in Scenarios, scenario.probe = "eth", NEW p, NEW at
    PROVE  /\ Aside(x, FeedCrossing(x, p, at)) /\ Aside(x, FlagAlert(x, p))
           /\ \A headerOnly : Aside(x, MatchPacket(x, p, headerOnly))
<1>1. Aside(x, FeedCrossing(x, p, at))
  <2>1. PICK pair, raised : pair = <<p.src, p.dst>> /\ raised = TRUE
    OBVIOUS
  <2>2. PICK e : e = [x.e EXCEPT !.crossings = Put(x.e.crossings, pair, at)]
    OBVIOUS
  <2>3. e.rates = x.e.rates /\ e.storms = x.e.storms /\ e.bindings = x.e.bindings /\ e.scans = x.e.scans
    BY <2>2 DEF Work, EthKept
  <2>4. PICK alerts : alerts = When(raised, "crossBorder", "crossBorder", pair)
    OBVIOUS
  <2>5. NoFlood(alerts)
    BY <2>4, WhenApart DEF EthKinds, EthEvents
  <2>6. Aside(x, Then(x, e, alerts))
    BY <2>3, <2>5, ThenAside
  <2>7. FeedCrossing(x, p, at) \in {x, Then(x, e, alerts)}
    BY <2>1, <2>2, <2>4 DEF FeedCrossing
  <2>8. QED BY <2>6, <2>7, AsideChains
<1>2. Aside(x, FlagAlert(x, p))
  <2>1. Aside(x, Alert(x, "flagAnomaly", "flagAnomaly", p.src))
    BY AlertAside DEF EthKinds, EthEvents
  <2>2. QED BY <2>1, AsideChains DEF FlagAlert
<1>3. ASSUME NEW headerOnly PROVE Aside(x, MatchPacket(x, p, headerOnly))
  <2>1. PICK hits : hits = Hits(p.kind, Buffers(p.data, <<>>, <<>>))
    OBVIOUS
  <2>2. hits \in Seq(ToSet(scenario.rules))
    BY <2>1, HitsAreRules
  <2>3. PICK left : left = Those(hits, {i \in DOMAIN hits : headerOnly => hits[i].contents = <<>>})
    OBVIOUS
  <2>4. left \in Seq(ToSet(scenario.rules))
    <3>1. PICK places : left = Those(hits, places)
      BY <2>3
    <3>2. IsSeq(hits) /\ \A i \in DOMAIN hits : hits[i] \in ToSet(scenario.rules)
      BY <2>2, AnySeq
    <3>3. QED BY <3>1, <3>2, ThoseIn
  <2>5. PICK alerts : alerts = RuleAlerts(left, 0)
    OBVIOUS
  <2>6. NoFlood(alerts)
    BY <2>4, <2>5, RulesApart
  <2>7. Aside(x, Then(x, x.e, alerts))
    BY <2>6, ThenAside
  <2>8. MatchPacket(x, p, headerOnly) = Then(x, x.e, alerts)
    BY <2>1, <2>3, <2>5 DEF MatchPacket
  <2>9. QED BY <2>7, <2>8
<1>4. QED BY <1>1, <1>2, <1>3

\* The state of a direction says nothing of the windows.
LEMMA DsAside ==
    ASSUME NEW n, NEW x, Work(x, n), NEW v
    PROVE  /\ Aside(x, [x EXCEPT !.ds.acc = v]) /\ Aside(x, [x EXCEPT !.ds.tail = v])
           /\ Aside(x, [x EXCEPT !.ds.checked = v]) /\ Aside(x, [x EXCEPT !.ds.bad = v])
           /\ Aside(x, [x EXCEPT !.ds.done = v]) /\ Aside(x, [x EXCEPT !.ds = v])
<1>1. \A y : y \in {[x EXCEPT !.ds.acc = v], [x EXCEPT !.ds.tail = v], [x EXCEPT !.ds.checked = v],
                    [x EXCEPT !.ds.bad = v], [x EXCEPT !.ds.done = v], [x EXCEPT !.ds = v]}
              => y.e = x.e /\ y.alerts = x.alerts
  BY DEF Work
<1>2. QED BY <1>1, SameAside

\* One round of the DoIP messages.
LEMMA DoipMessageAside ==
    ASSUME NEW n, NEW x, Work(x, n), NEW life
    PROVE  Aside(x, DoipMessage(x, life))
<1>1. PICK acc \in Seq(Nat) : acc = x.ds.acc
  BY DEF Work, DirStateKept
<1>2. PICK empty : empty = [x EXCEPT !.ds.acc = <<>>] /\ Work(empty, n) /\ Aside(x, empty)
  <2>1. <<>> \in Seq(Nat)
    OBVIOUS
  <2>2. QED BY <2>1, AccKept, DsAside
<1>3. CASE Len(acc) < 2
  BY <1>1, <1>3, AsideChains DEF DoipMessage
<1>4. CASE Len(acc) >= 2
  <2>1. 3 + acc[2] \in Nat \ {0}
    <3>1. 2 \in 1..Len(acc)
      BY <1>4
    <3>2. acc[2] \in Nat
      BY <3>1
    <3>3. QED BY <3>2
  <2>2. SubSeq(acc, 3 + acc[2], Len(acc)) \in Seq(Nat)
    BY <2>1, PartOfSeq
  <2>3. PICK rest : rest = [x EXCEPT !.ds.acc = SubSeq(acc, 3 + acc[2], Len(acc))]
    OBVIOUS
  <2>4. Work(rest, n) /\ Aside(x, rest)
    BY <2>2, <2>3, AccKept, DsAside
  <2>5. Aside(x, Alert(empty, "doip", "length", life))
    BY <1>2, AlertAside, AsideChains DEF EthKinds, EthEvents
  <2>6. \A m : Aside(x, InspectDoip(rest, m, life))
    <3>1. Aside(x, Alert(rest, "doip", "doip", life))
      BY <2>4, AlertAside, AsideChains DEF EthKinds, EthEvents
    <3>2. QED BY <2>4, <3>1 DEF InspectDoip
  <2>7. DoipMessage(x, life) \in {x, Alert(empty, "doip", "length", life),
                                  InspectDoip(rest, SubSeq(acc, 1, 2 + acc[2]), life)}
    BY <1>1, <1>2, <2>3 DEF DoipMessage
  <2>8. QED BY <2>5, <2>6, <2>7, AsideChains
<1>5. Len(acc) \in Nat
  OBVIOUS
<1>6. QED BY <1>3, <1>4, <1>5

\* One round of the HTTP messages.
LEMMA HttpMessageAside ==
    ASSUME NEW n, NEW x, Work(x, n), scenario \in Scenarios, scenario.probe = "eth", NEW life
    PROVE  Aside(x, HttpMessage(x, life))
<1>1. PICK acc \in Seq(Nat) : acc = x.ds.acc
  BY DEF Work, DirStateKept
<1>2. PICK empty : empty = [x EXCEPT !.ds.acc = <<>>] /\ Work(empty, n) /\ Aside(x, empty)
  <2>1. <<>> \in Seq(Nat)
    OBVIOUS
  <2>2. QED BY <2>1, AccKept, DsAside
<1>3. PICK msg : msg = ParseHttp(acc)
  OBVIOUS
<1>5. PICK rest : rest = [x EXCEPT !.ds.acc = msg.rest]
  OBVIOUS
<1>6. PICK alerts : alerts = RuleAlerts(Hits("tcp", Buffers(<<>>, msg.uri, <<>>)), life)
  OBVIOUS
<1>7. NoFlood(alerts)
  BY <1>6, HitsApart
<1>8. Aside(x, Alert(empty, "http", "malformed", life))
  BY <1>2, AlertAside, AsideChains DEF EthKinds, EthEvents
<1>9. Aside(x, Then(rest, x.e, alerts))
  <2>1. PICK y : y = Then(rest, x.e, alerts)
    OBVIOUS
  <2>2. PICK z : z = Then(x, x.e, alerts) /\ Aside(x, z)
    BY <1>7, ThenAside
  <2>3. y.e = x.e /\ y.alerts = z.alerts /\ z.e = x.e
    BY <1>5, <2>1, <2>2 DEF Then, Work
  <2>4. QED BY <2>1, <2>2, <2>3, SameAside, AsideChains
<1>10. HttpMessage(x, life) \in {x, Alert(empty, "http", "malformed", life), Then(rest, x.e, alerts)}
  BY <1>1, <1>2, <1>3, <1>5, <1>6 DEF HttpMessage
<1>11. QED BY <1>8, <1>9, <1>10, AsideChains

\* The rounds of both, one after the other.
LEMMA MessageLoopAside ==
    ASSUME NEW loop \in {"doip", "http"}, NEW m \in Nat, NEW n, NEW x, Work(x, n),
           scenario \in Scenarios, scenario.probe = "eth", NEW life
    PROVE  Aside(x, LoopEnd(loop, m, x, life))
<1>0. IsSeq(scenario.rules)
  BY ScenarioAssumption DEF IsSeq
<1> DEFINE f == CHOOSE g : IsLoop(g, loop, m, x, life)
           P == {k \in Nat : k <= m => Work(f[k], n) /\ Aside(x, f[k])}
<1>1. IsLoop(f, loop, m, x, life)
  BY LoopExists
<1> HIDE DEF f
<1>2. \A k \in 0..m : f[k] = IF k = 0 THEN x ELSE Step(loop, f[k - 1], life)
  BY <1>1 DEF IsLoop
<1>3. 0 \in P
  <2>1. f[0] = x
    BY <1>2
  <2>2. QED BY <2>1, AsideChains
<1>4. ASSUME NEW k \in Nat, k \in P PROVE k + 1 \in P
  <2>1. SUFFICES ASSUME k + 1 <= m PROVE Work(f[k + 1], n) /\ Aside(x, f[k + 1])
    OBVIOUS
  <2>2. PICK y : y = f[k] /\ Work(y, n) /\ Aside(x, y)
    BY <1>4, <2>1
  <2>3. f[k + 1] = Step(loop, y, life)
    <3>1. k + 1 \in 0..m /\ k + 1 # 0 /\ (k + 1) - 1 = k
      BY <2>1
    <3>2. QED BY <1>2, <2>2, <3>1
  <2>4. f[k + 1] \in {DoipMessage(y, life), HttpMessage(y, life)}
    BY <2>3 DEF Step
  <2>5. Work(f[k + 1], n)
    BY <1>0, <2>2, <2>4, DoipMessageKept, HttpMessageKept
  <2>6. Aside(y, f[k + 1])
    BY <2>2, <2>4, DoipMessageAside, HttpMessageAside
  <2>7. QED BY <2>2, <2>5, <2>6, AsideChains
<1> HIDE DEF P
<1>5. m \in P
  BY <1>3, <1>4, NumberInduction DEF P
<1>6. Aside(x, f[m])
  BY <1>5 DEF P
<1>7. QED BY <1>6 DEF f, LoopEnd

\* The messages are taken by such a loop.
LEMMA MessagesAside ==
    ASSUME NEW n, NEW x, Work(x, n), scenario \in Scenarios, scenario.probe = "eth", NEW life
    PROVE  Aside(x, DoipMessages(x, life)) /\ Aside(x, HttpMessages(x, life))
<1>1. PICK m \in Nat : m = Len(x.ds.acc)
  BY DEF Work, DirStateKept
<1>2. DoipMessages(x, life) = LoopEnd("doip", m, x, life)
  BY <1>1 DEF DoipMessages, Repeated, LoopEnd, IsLoop, Step
<1>3. HttpMessages(x, life) = LoopEnd("http", m, x, life)
  BY <1>1 DEF HttpMessages, Repeated, LoopEnd, IsLoop, Step
<1>4. QED BY <1>2, <1>3, MessageLoopAside

\* The rules are matched with the stream.
LEMMA MatchStreamAside ==
    ASSUME NEW n, NEW x, Work(x, n), scenario \in Scenarios, scenario.probe = "eth", NEW data, NEW life
    PROVE  Aside(x, MatchStream(x, data, life))
<1>1. PICK tail : tail = LastOf(x.ds.tail \o data, Keep)
  OBVIOUS
<1>2. PICK y : y = [x EXCEPT !.ds.tail = tail] /\ Work(y, n) /\ Aside(x, y)
  BY FlagsKept, DsAside
<1>3. PICK alerts : alerts = RuleAlerts(Hits("tcp", Buffers(x.ds.tail \o data, <<>>, <<>>)), life)
  OBVIOUS
<1>4. NoFlood(alerts) /\ y.e = x.e
  BY <1>2, <1>3, HitsApart DEF Work
<1>5. MatchStream(x, data, life) = Then(y, x.e, alerts)
  BY <1>1, <1>2, <1>3 DEF MatchStream
<1>6. QED BY <1>2, <1>4, <1>5, ThenAside, AsideChains

\* A ClientHello is waited for.
LEMMA FeedTlsAside ==
    ASSUME NEW n, NEW x, Work(x, n), NEW p, NEW data \in Seq(Nat), NEW life
    PROVE  Aside(x, FeedTls(x, p, data, life))
<1>1. PICK acc \in Seq(Nat) : acc = x.ds.acc \o data
  <2>1. x.ds.acc \in Seq(Nat)
    BY DEF Work, DirStateKept
  <2>2. x.ds.acc \o data \in Seq(Nat)
    BY <2>1
  <2>3. QED BY <2>2
<1>2. PICK some : some = [x EXCEPT !.ds.acc = acc] /\ Work(some, n) /\ Aside(x, some)
  BY AccKept, DsAside
<1>3. PICK done : done = [x EXCEPT !.ds.acc = acc, !.ds.done = TRUE]
  OBVIOUS
<1>4. Work(done, n) /\ Aside(x, done) /\ done.e = x.e
  <2>1. done = [some EXCEPT !.ds.done = TRUE]
    BY <1>2, <1>3 DEF Work, DirStateKept
  <2>2. Work(done, n) /\ Aside(some, done)
    BY <1>2, <2>1, FlagsKept, DsAside
  <2>3. done.e = x.e
    BY <1>3 DEF Work
  <2>4. QED BY <1>2, <2>2, <2>3, AsideChains
<1>5. PICK internal, old : internal = (\A a \in {p.src, p.dst} : Verdict(a) = "home") /\ old = (acc[3] < 3)
  OBVIOUS
<1>6. PICK alerts : alerts = When(internal, "tls", "internal", life) \o When(old, "tls", "version", life)
  OBVIOUS
<1>7. NoFlood(alerts)
  BY <1>6, WhenApart, JoinApart DEF EthKinds, EthEvents
<1>8. Aside(x, Alert(done, "tls", "malformed", life)) /\ Aside(x, Then(done, x.e, alerts))
  <2>1. Aside(done, Alert(done, "tls", "malformed", life))
    BY <1>4, AlertAside DEF EthKinds, EthEvents
  <2>2. Aside(done, Then(done, x.e, alerts))
    BY <1>4, <1>7, ThenAside
  <2>3. QED BY <1>4, <2>1, <2>2, AsideChains
<1>9. FeedTls(x, p, data, life) \in
        {x, done, some, Alert(done, "tls", "malformed", life), Then(done, x.e, alerts)}
  <2>1. alerts = When(\A a \in {p.src, p.dst} : Verdict(a) = "home", "tls", "internal", life)
                 \o When(acc[3] < 3, "tls", "version", life)
    BY <1>5, <1>6
  <2>2. PICK v : v = Hello(acc)
    OBVIOUS
  <2>3. CASE x.ds.done \/ v \in {"other", "truncated", "malformed"}
    BY <1>1, <1>2, <1>3, <2>2, <2>3 DEF FeedTls
  <2>4. CASE ~x.ds.done /\ v \notin {"other", "truncated", "malformed"}
    BY <1>1, <1>2, <1>3, <2>1, <2>2, <2>4 DEF FeedTls
  <2>5. QED BY <2>3, <2>4
<1>10. PICK y : y = FeedTls(x, p, data, life)
  OBVIOUS
<1>11. \/ y = x \/ y = done \/ y = some \/ y = Alert(done, "tls", "malformed", life)
       \/ y = Then(done, x.e, alerts)
  BY <1>9, <1>10
<1>12. Aside(x, y)
  <2>1. CASE y = x
    BY ONLY <2>1, AsideChains
  <2>2. CASE y = done
    BY ONLY <2>2, <1>4
  <2>3. CASE y = some
    BY ONLY <2>3, <1>2
  <2>4. CASE y = Alert(done, "tls", "malformed", life)
    BY ONLY <2>4, <1>8
  <2>5. CASE y = Then(done, x.e, alerts)
    BY ONLY <2>5, <1>8
  <2>6. QED BY ONLY <1>11, <2>1, <2>2, <2>3, <2>4, <2>5
<1>13. QED BY <1>10, <1>12

\* A stream is taken for HTTP, or is not.
LEMMA FeedHttpAside ==
    ASSUME NEW n, NEW x, Work(x, n), scenario \in Scenarios, scenario.probe = "eth",
           NEW data \in Seq(Nat), NEW life
    PROVE  Aside(x, FeedHttp(x, data, life))
<1>1. PICK acc \in Seq(Nat) : acc = x.ds.acc \o data
  <2>1. x.ds.acc \in Seq(Nat)
    BY DEF Work, DirStateKept
  <2>2. x.ds.acc \o data \in Seq(Nat)
    BY <2>1
  <2>3. QED BY <2>2
<1>2. PICK some : some = [x EXCEPT !.ds.acc = acc] /\ Work(some, n) /\ Aside(x, some)
  BY AccKept, DsAside
<1>3. PICK seen : seen = [x EXCEPT !.ds.acc = acc, !.ds.checked = TRUE]
  OBVIOUS
<1>4. Work(seen, n) /\ Aside(x, seen)
  <2>1. seen = [some EXCEPT !.ds.checked = TRUE]
    BY <1>2, <1>3 DEF Work, DirStateKept
  <2>2. Work(seen, n) /\ Aside(some, seen)
    BY <1>2, <2>1, FlagsKept, DsAside
  <2>3. QED BY <1>2, <2>2, AsideChains
<1>5. PICK bad : bad = [seen EXCEPT !.ds.bad = TRUE] /\ Work(bad, n) /\ Aside(seen, bad)
  BY <1>4, FlagsKept, DsAside
<1>6. Aside(x, Alert(bad, "http", "malformed", life)) /\ Aside(x, HttpMessages(seen, life))
  <2>1. Aside(bad, Alert(bad, "http", "malformed", life))
    BY <1>5, AlertAside DEF EthKinds, EthEvents
  <2>2. Aside(seen, HttpMessages(seen, life))
    BY <1>4, MessagesAside
  <2>3. QED BY <1>4, <1>5, <2>1, <2>2, AsideChains
<1>7. FeedHttp(x, data, life) \in
        {x, Alert(bad, "http", "malformed", life), HttpMessages(seen, life)}
  BY <1>1, <1>3, <1>5 DEF FeedHttp
<1>8. QED BY <1>6, <1>7, AsideChains

\* The bytes that were delivered go to the application layer.
LEMMA FeedStreamAside ==
    ASSUME NEW n, NEW x, Work(x, n), scenario \in Scenarios, scenario.probe = "eth", NEW p,
           NEW data \in Seq(Nat), NEW life
    PROVE  Aside(x, FeedStream(x, p, data, life))
<1>0. IsSeq(scenario.rules)
  BY ScenarioAssumption DEF IsSeq
<1>1. PICK y : y = MatchStream(x, data, life) /\ Work(y, n) /\ Aside(x, y)
  BY <1>0, MatchStreamKept, MatchStreamAside
<1>2. PICK some : some = [y EXCEPT !.ds.acc = y.ds.acc \o data]
  OBVIOUS
<1>3. Work(some, n) /\ Aside(x, some)
  <2>1. y.ds.acc \o data \in Seq(Nat)
    BY <1>1 DEF Work, DirStateKept
  <2>2. Work(some, n) /\ Aside(y, some)
    BY <1>1, <1>2, <2>1, AccKept, DsAside
  <2>3. QED BY <1>1, <2>2, AsideChains
<1>4. PICK z : z = CASE p.dport = DoipPort -> DoipMessages(some, life)
                     [] p.dport = TlsPort -> FeedTls(y, p, data, life)
                     [] p.dport \in HttpPorts -> FeedHttp(y, data, life)
                     [] OTHER -> y
  OBVIOUS
<1>5. Aside(x, z)
  <2>1. /\ Aside(some, DoipMessages(some, life)) /\ Aside(y, FeedTls(y, p, data, life))
        /\ Aside(y, FeedHttp(y, data, life))
    BY <1>1, <1>3, MessagesAside, FeedTlsAside, FeedHttpAside
  <2>2. z \in {DoipMessages(some, life), FeedTls(y, p, data, life), FeedHttp(y, data, life), y}
    BY <1>4
  <2>3. QED BY <1>1, <1>3, <2>1, <2>2, AsideChains
<1>6. PICK ds : ds = [z.ds EXCEPT !.acc = LastOf(z.ds.acc, AccCap)]
  OBVIOUS
<1>7. PICK w : w = [x EXCEPT !.ds = ds, !.alerts = z.alerts]
  OBVIOUS
<1>8. FeedStream(x, p, data, life) = w
  BY <1>1, <1>2, <1>4, <1>6, <1>7 DEF FeedStream
<1>9. w.e = x.e /\ w.alerts = z.alerts
  BY <1>7 DEF Work
<1>10. QED BY <1>5, <1>8, <1>9 DEF Aside, Beside

-----------------------------------------------------------------------------
\* What the handlers of a frame leave alone.

\* What add_segment returns is taken over.
LEMMA TakeSegmentAside ==
    ASSUME NEW n, NEW x, Work(x, n), NEW r
    PROVE  Aside(x, TakeSegment(x, r))
<1>1. PICK lives1 : lives1 = Delivered(x, r)
  OBVIOUS
<1>2. PICK y : y = [x EXCEPT !.lives = lives1]
  OBVIOUS
<1>3. DOMAIN y = DOMAIN x /\ y.e = x.e /\ y.alerts = x.alerts
  BY <1>2 DEF Work
<1>4. PICK e : e = [x.e EXCEPT !.tcp = r.tcp]
  OBVIOUS
<1>5. e.rates = x.e.rates /\ e.storms = x.e.storms /\ e.bindings = x.e.bindings /\ e.scans = x.e.scans
  BY <1>4 DEF Work, EthKept
<1>6. PICK evicted : evicted = r.evicted
  OBVIOUS
<1>7. PICK alerts : alerts = When(evicted, "reassembly", "stream", 0)
  OBVIOUS
<1>8. NoFlood(alerts)
  BY <1>7, WhenApart DEF EthKinds, EthEvents
<1>9. PICK w : w = Then(x, e, alerts) /\ Aside(x, w)
  BY <1>5, <1>8, ThenAside
<1>10. PICK z : z = Then(y, e, alerts)
  OBVIOUS
<1>11. z.e = w.e /\ z.alerts = w.alerts
  BY <1>3, <1>9, <1>10 DEF Then, Work
<1>12. TakeSegment(x, r) = z
  BY <1>1, <1>2, <1>4, <1>6, <1>7, <1>10 DEF TakeSegment
<1>13. QED BY <1>9, <1>11, <1>12, SameAside, AsideChains

\* The application layers of the flows are replaced.
LEMMA AppsAside ==
    ASSUME NEW n, NEW x, Work(x, n), NEW apps
    PROVE  Aside(x, [x EXCEPT !.e.apps = apps])
<1>1. PICK e : e = [x.e EXCEPT !.apps = apps]
  OBVIOUS
<1>2. e.rates = x.e.rates /\ e.storms = x.e.storms /\ e.bindings = x.e.bindings /\ e.scans = x.e.scans
  BY <1>1 DEF Work, EthKept
<1>3. PICK y : y = [x EXCEPT !.e.apps = apps]
  OBVIOUS
<1>4. y.e = e /\ y.alerts = x.alerts
  BY <1>1, <1>3 DEF Work
<1>5. QED BY <1>2, <1>3, <1>4 DEF Aside, Beside

\* The data that was delivered is inspected.
LEMMA TakeDataAside ==
    ASSUME NEW n, NEW x, Work(x, n), scenario \in Scenarios, scenario.probe = "eth", NEW p,
           NEW r, SegmentResult(r)
    PROVE  Aside(x, TakeData(x, p, r))
<1>0. IsSeq(scenario.rules)
  BY ScenarioAssumption DEF IsSeq
<1>1. PICK ds : ds = App(x, r)[r.dir] /\ DirStateKept(ds)
  BY AppIsKept DEF AppKept, SegmentResult
<1>2. PICK y : y = [x EXCEPT !.ds = ds]
  OBVIOUS
<1>3. Work(y, n) /\ Aside(x, y)
  BY <1>1, <1>2, DsAside DEF Work
<1>4. PICK data : data = [i \in DOMAIN r.data |-> r.data[i].byte]
  OBVIOUS
<1>5. data \in Seq(Nat)
  <2>1. r.data \in Seq(StreamByte)
    BY DEF SegmentResult
  <2>2. PICK m \in Nat : DOMAIN r.data = 1..m
    BY <2>1
  <2>3. \A i \in 1..m : r.data[i].byte \in Nat
    <3>1. \A i \in 1..m : r.data[i] \in StreamByte
      BY <2>1, <2>2
    <3>2. QED BY <3>1 DEF StreamByte
  <2>4. data \in [1..m -> Nat]
    BY <1>4, <2>2, <2>3
  <2>5. QED BY <2>4
<1>6. PICK z : z = FeedStream(y, p, data, r.life) /\ Work(z, n)
  BY <1>0, <1>3, <1>5, FeedStreamKept
<1>7. Aside(y, z)
  BY <1>3, <1>5, <1>6, FeedStreamAside
<1>8. PICK apps : apps = Put(z.e.apps, r.flow, [App(z, r) EXCEPT ![r.dir] = z.ds])
  OBVIOUS
<1>9. Aside(z, [z EXCEPT !.e.apps = apps])
  BY <1>6, AppsAside
<1>10. SaveApp(z, r) = [z EXCEPT !.e.apps = apps]
  BY <1>8 DEF SaveApp
<1>11. Aside(x, SaveApp(z, r))
  BY <1>3, <1>7, <1>9, <1>10, AsideChains
<1>12. TakeData(x, p, r) \in {x, SaveApp(z, r)}
  BY <1>1, <1>2, <1>4, <1>6 DEF TakeData
<1>13. QED BY <1>11, <1>12, AsideChains

\* handle_tcp, but for its window of ports.
LEMMA HandleTcpAside ==
    ASSUME NEW n, NEW x, Work(x, n), scenario \in Scenarios, scenario.probe = "eth",
           NEW p, IsPacket(p), NEW at
    PROVE  \E y : Work(y, n) /\ Aside(x, y) /\ Aside(FeedScan(y, p, at), HandleTcp(x, p, at))
<1>0. IsSeq(scenario.rules)
  BY ScenarioAssumption DEF IsSeq
<1>1. PICK y : y = FlagAlert(x, p) /\ Work(y, n) /\ Aside(x, y)
  BY <1>0, DetectorsKept, DetectorsAside
<1>2. PICK s : s = FeedScan(y, p, at) /\ Work(s, n)
  BY <1>0, <1>1, DetectorsKept
<1>3. PICK headerOnly : headerOnly = TRUE
  OBVIOUS
<1>4. PICK z : z = MatchPacket(s, p, headerOnly)
  OBVIOUS
<1>5. Work(z, n) /\ Aside(s, z)
  <2>1. Work(MatchPacket(s, p, headerOnly), n)
    BY <1>0, <1>2, DetectorsKept
  <2>2. Aside(s, MatchPacket(s, p, headerOnly))
    BY <1>2, DetectorsAside
  <2>3. QED BY <1>4, <2>1, <2>2
<1>6. PICK r : r = AddSegment(x.e.tcp, p, at, Len(x.lives) + 1) /\ SegmentResult(r)
  BY AddSegmentKept DEF Work, EthKept
<1>7. PICK t : t = TakeSegment(z, r) /\ Work(t, n) /\ Aside(z, t)
  <2>1. s.lives = x.lives
    <3>1. FlagAlert(x, p).lives = x.lives
      BY ONLY Work(x, n), LivesLeft
    <3>2. FeedScan(y, p, at).lives = y.lives
      BY ONLY <1>1, LivesLeft
    <3>3. QED BY <1>1, <1>2, <3>1, <3>2
  <2>2. z.lives = x.lives
    BY <1>2, <1>4, <2>1, LivesLeft
  <2>3. StreamsKept(r.tcp, Delivered(z, r))
    BY <1>6, <2>2, SegmentDelivered
  <2>4. QED BY <1>5, <1>6, <2>3, TakeSegmentKept, TakeSegmentAside
<1>8. PICK d : d = TakeData(t, p, r) /\ Aside(t, d)
  BY <1>6, <1>7, TakeDataAside
<1>9. Work(d, n)
  BY <1>0, <1>6, <1>7, <1>8, TakeDataKept
<1>10. Aside(d, CloseApp(d, r))
  <2>1. PICK apps : apps = Dropped(d.e.apps, {r.flow})
    OBVIOUS
  <2>2. Aside(d, [d EXCEPT !.e.apps = apps])
    BY <1>9, AppsAside
  <2>3. CloseApp(d, r) \in {d, [d EXCEPT !.e.apps = apps]}
    BY <2>1 DEF CloseApp
  <2>4. QED BY <2>2, <2>3, AsideChains
<1>11. HandleTcp(x, p, at) = CloseApp(d, r)
  BY <1>1, <1>2, <1>3, <1>4, <1>6, <1>7, <1>8 DEF HandleTcp, TakeResult
<1>12. Aside(s, HandleTcp(x, p, at))
  BY <1>5, <1>7, <1>8, <1>10, <1>11, AsideChains
<1>13. QED BY <1>1, <1>2, <1>12

\* handle_udp.
LEMMA HandleUdpAside ==
    ASSUME NEW n, NEW x, Work(x, n), scenario \in Scenarios, scenario.probe = "eth", NEW p
    PROVE  Aside(x, HandleUdp(x, p))
<1>0. IsSeq(scenario.rules)
  BY ScenarioAssumption DEF IsSeq
<1>1. PICK y : y = (IF DoipPort \in {p.sport, p.dport} THEN InspectDoip(x, p.data, 0) ELSE x)
  OBVIOUS
<1>2. Work(y, n) /\ Aside(x, y)
  <2>1. Work(Alert(x, "doip", "doip", 0), n) /\ Aside(x, Alert(x, "doip", "doip", 0))
    BY AlertKept, AlertAside DEF EthKinds, EthEvents
  <2>2. y \in {x, Alert(x, "doip", "doip", 0)}
    BY <1>1 DEF InspectDoip
  <2>3. QED BY <2>1, <2>2, AsideChains
<1>3. Work(HandleSomeip(y, p), n) /\ Aside(y, HandleSomeip(y, p))
  <2>1. Work(Alert(y, "someip", "malformed", p.src), n) /\ Aside(y, Alert(y, "someip", "malformed", p.src))
    BY <1>2, AlertKept, AlertAside DEF EthKinds, EthEvents
  <2>2. PICK e : e = [y.e EXCEPT !.sessions = Put(y.e.sessions, p.src, p.session)]
    OBVIOUS
  <2>3. EthKept(e, n, y.lives)
    BY <1>2, <2>2, OtherTables DEF Work
  <2>4. e.rates = y.e.rates /\ e.storms = y.e.storms /\ e.bindings = y.e.bindings /\ e.scans = y.e.scans
    BY <1>2, <2>2 DEF Work, EthKept
  <2>5. PICK back, offers : /\ back = (p.src \in DOMAIN y.e.sessions /\ p.session < y.e.sessions[p.src])
                            /\ offers = p.offers
    OBVIOUS
  <2>6. PICK alerts : alerts = When(back, "someip", "session", p.src) \o When(offers, "someip", "offer", p.src)
    OBVIOUS
  <2>7. NoFlood(alerts) /\ IsSeq(alerts)
    BY <2>6, WhenApart, JoinApart DEF EthKinds, EthEvents, NoFlood
  <2>8. Work(Then(y, e, alerts), n) /\ Aside(y, Then(y, e, alerts))
    BY <1>2, <2>3, <2>4, <2>7, ThenKept, ThenAside
  <2>9. HandleSomeip(y, p) \in {Alert(y, "someip", "malformed", p.src), Then(y, e, alerts)}
    BY <2>2, <2>5, <2>6 DEF HandleSomeip, InspectSd
  <2>10. QED BY <2>1, <2>8, <2>9
<1>4. PICK z : z = (IF SomeipPort \in {p.sport, p.dport} THEN HandleSomeip(y, p) ELSE y)
  OBVIOUS
<1>5. Work(z, n) /\ Aside(x, z)
  BY <1>2, <1>3, <1>4, AsideChains
<1>6. Aside(z, HandleDns(z, p))
  <2>1. PICK w : w = (IF DnsAlerted(p) THEN Alert(z, "dns", p.dns, p.src) ELSE z)
    OBVIOUS
  <2>2. Work(w, n) /\ Aside(z, w)
    <3>1. CASE DnsAlerted(p)
      <4>1. p.dns \notin EthKinds
        BY <3>1 DEF DnsAlerted, EthKinds
      <4>2. QED BY <1>5, <2>1, <3>1, <4>1, AlertKept, AlertAside DEF EthEvents
    <3>2. CASE ~DnsAlerted(p)
      BY <1>5, <2>1, <3>2, AsideChains
    <3>3. QED BY <3>1, <3>2
  <2>3. PICK alerts : alerts = RuleAlerts(Hits("udp", Buffers(p.data, <<>>, p.data)), 0)
    OBVIOUS
  <2>4. NoFlood(alerts)
    BY <2>3, HitsApart
  <2>5. Aside(w, Then(w, w.e, alerts))
    BY <2>2, <2>4, ThenAside
  <2>6. HandleDns(z, p) \in {w, Then(w, w.e, alerts)}
    BY <2>1, <2>3 DEF HandleDns
  <2>7. QED BY <2>2, <2>5, <2>6, AsideChains
<1>7. PICK headerOnly : headerOnly = FALSE
  OBVIOUS
<1>8. Aside(z, MatchPacket(z, p, headerOnly))
  BY <1>5, DetectorsAside
<1>9. HandleUdp(x, p) \in {HandleDns(z, p), MatchPacket(z, p, headerOnly)}
  BY <1>1, <1>4, <1>7 DEF HandleUdp
<1>10. QED BY <1>5, <1>6, <1>8, <1>9, AsideChains

\* The window of ports says nothing of the others.
LEMMA ScanBeside ==
    ASSUME NEW n, NEW x, Work(x, n), NEW p, NEW at
    PROVE  Beside(x, FeedScan(x, p, at))
<1>1. \A scans, raised : Beside(x, Then(x, [x.e EXCEPT !.scans = scans],
                                        When(raised, "portScan", "portScan", p.src)))
  <2> SUFFICES ASSUME NEW scans, NEW raised
               PROVE  Beside(x, Then(x, [x.e EXCEPT !.scans = scans],
                                     When(raised, "portScan", "portScan", p.src)))
    OBVIOUS
  <2>1. PICK e, alerts : e = [x.e EXCEPT !.scans = scans] /\ alerts = When(raised, "portScan", "portScan", p.src)
    OBVIOUS
  <2>2. e.rates = x.e.rates /\ e.storms = x.e.storms /\ e.bindings = x.e.bindings
    BY <2>1 DEF Work, EthKept
  <2>3. IsSeq(alerts) /\ \A kind, key : Rung(alerts, kind, key) => kind = "portScan"
    BY <2>1, WhenRings
  <2>4. PICK y : y = Then(x, e, alerts)
    OBVIOUS
  <2>5. y.e = e /\ y.alerts = x.alerts \o alerts
    BY <2>4 DEF Then, Work
  <2>6. \A kind, key : Rung(y.alerts, kind, key) <=> Rung(x.alerts, kind, key) \/ Rung(alerts, kind, key)
    BY <2>3, <2>5, JoinedRings DEF Work
  <2>7. \A kind \in {"rateFlood", "arpStorm"} : \A key : Rung(y.alerts, kind, key) <=> Rung(x.alerts, kind, key)
    BY <2>3, <2>6
  <2>8. Beside(x, y)
    <3>1. OfEvents(alerts)
      BY <2>1, EventOfOne DEF EthEvents, OfEvents
    <3>2. OfEvents(x.alerts) => OfEvents(y.alerts)
      BY <2>3, <2>5, <3>1, EventsJoined DEF Work, OfEvents
    <3>3. QED BY <2>2, <2>5, <2>7, <3>2 DEF Beside
  <2>9. QED BY <2>1, <2>4, <2>8
<1>2. CASE "SYN" \notin p.flags \/ "RST" \in p.flags
  BY <1>2, AsideChains DEF FeedScan
<1>3. CASE ~("SYN" \notin p.flags \/ "RST" \in p.flags)
  BY <1>1, <1>3 DEF FeedScan
<1>4. QED BY <1>2, <1>3

\* handle_l4, of a packet or of a datagram that was put together.
LEMMA HandleL4Beside ==
    ASSUME NEW n, NEW x, Work(x, n), scenario \in Scenarios, scenario.probe = "eth",
           NEW p, IsPacket(p), NEW at
    PROVE  Beside(x, HandleL4(x, p, at)) /\ (p.kind # "tcp" => Aside(x, HandleL4(x, p, at)))
<1>1. Beside(x, HandleTcp(x, p, at))
  <2>1. PICK y : Work(y, n) /\ Aside(x, y) /\ Aside(FeedScan(y, p, at), HandleTcp(x, p, at))
    BY HandleTcpAside
  <2>2. Beside(y, FeedScan(y, p, at))
    BY <2>1, ScanBeside
  <2>3. QED BY <2>1, <2>2, AsideChains
<1>2. PICK headerOnly : headerOnly = FALSE
  OBVIOUS
<1>3. Aside(x, MatchPacket(x, p, headerOnly)) /\ Aside(x, HandleUdp(x, p)) /\ Aside(x, x)
  BY DetectorsAside, HandleUdpAside, AsideChains
<1>4. CASE p.kind = "tcp"
  BY <1>1, <1>4 DEF HandleL4
<1>5. CASE p.kind # "tcp"
  <2>1. HandleL4(x, p, at) \in {HandleUdp(x, p), MatchPacket(x, p, headerOnly), x}
    BY <1>2, <1>5 DEF HandleL4
  <2>2. Aside(x, HandleL4(x, p, at))
    BY <1>3, <2>1
  <2>3. QED BY <2>2, AsideChains
<1>6. QED BY <1>4, <1>5

\* handle_fragment.
LEMMA FragmentBeside ==
    ASSUME scenario \in Scenarios, scenario.probe = "eth", NEW n \in Nat, NEW x, Work(x, n), NEW at,
           NEW r, DefragResult(r, n), \A i \in 1..n : IsPacket(traffic'[i].input)
    PROVE  Beside(x, HandleFragment(x, at, r))
<1>1. PICK e : e = [x.e EXCEPT !.defrag = r.defrag]
  OBVIOUS
<1>2. e.rates = x.e.rates /\ e.storms = x.e.storms /\ e.bindings = x.e.bindings /\ e.scans = x.e.scans
      /\ EthKept(e, n, x.lives)
  BY <1>1 DEF Work, EthKept, DefragResult
<1>3. PICK z : z = TakeFragment(x, r)
  OBVIOUS
<1>4. Aside(x, z)
  <2>1. PICK ds, evicted : ds = x.datagrams \o r.complete /\ evicted = r.evicted
    OBVIOUS
  <2>2. PICK y : y = [x EXCEPT !.datagrams = ds]
    OBVIOUS
  <2>3. PICK alerts : alerts = When(evicted, "reassembly", "defrag", 0)
    OBVIOUS
  <2>4. NoFlood(alerts)
    BY <2>3, WhenApart DEF EthKinds, EthEvents
  <2>5. z = Then(y, e, alerts)
    BY <1>1, <1>3, <2>1, <2>2, <2>3 DEF TakeFragment
  <2>6. y.e = x.e /\ y.alerts = x.alerts /\ DOMAIN y = DOMAIN x
    BY <2>2 DEF Work
  <2>7. PICK w : w = Then(x, e, alerts)
    OBVIOUS
  <2>8. z.e = w.e /\ z.alerts = w.alerts
    BY <2>5, <2>6, <2>7 DEF Then, Work
  <2>9. Aside(x, w)
    BY <1>2, <2>4, <2>7, ThenAside
  <2>10. QED BY <2>8, <2>9, SameAside, AsideChains
<1>5. CASE r.complete = <<>>
  BY <1>3, <1>4, <1>5, AsideChains DEF HandleFragment, TakeDatagram
<1>6. CASE r.complete # <<>>
  <2>1. PICK p : p = Reassembled(r.complete[1]) /\ IsPacket(p)
    BY <1>6, ReassembledIsPacket DEF DefragResult
  <2>2. Work(z, n)
    BY <1>3, TakeFragmentKept
  <2>3. Beside(z, HandleL4(z, p, at))
    BY <2>1, <2>2, HandleL4Beside
  <2>4. HandleFragment(x, at, r) = HandleL4(z, p, at)
    BY <1>3, <1>6, <2>1 DEF HandleFragment, TakeDatagram
  <2>5. QED BY <1>4, <2>3, <2>4, AsideChains
<1>7. QED BY <1>5, <1>6

-----------------------------------------------------------------------------
\* What counts of a frame.

\* A frame that comes, and is the last of the traffic.
FrameComes(p, at, n) ==
    /\ Recorded /\ scenario.probe = "eth" /\ EthFloods /\ Arrives(p, at) /\ n = Len(traffic)

\* The traffic after it.
LEMMA FrameArrives ==
    ASSUME NEW p, NEW at, NEW n, FrameComes(p, at, n)
    PROVE  /\ n \in Nat /\ DOMAIN traffic = 1..n /\ DOMAIN traffic' = 1..(n + 1) /\ Len(traffic') = n + 1
           /\ \A i \in 1..n : traffic'[i] = traffic[i]
           /\ traffic'[n + 1].input = p /\ traffic'[n + 1].at = at
           /\ scenario' = scenario /\ scenario \in Scenarios /\ at \in Nat
BY InputArrives DEF FrameComes, Arrives, Recorded

\* Frames that tell who has an address, before the new one and with it.
LEMMA TellingsGrow ==
    ASSUME NEW p, NEW at, NEW n, FrameComes(p, at, n), NEW addr
    PROVE  /\ Tellings(addr, n + 1)' = Tellings(addr, n + 1) /\ Tellings(addr, n + 1) \subseteq 1..n
           /\ Tellings(addr, n + 2)' = Tellings(addr, n + 1) \cup
                (IF p.kind = "arp" /\ p.src = addr THEN {n + 1} ELSE {})
<1>1. /\ n \in Nat
      /\ \A i \in 1..n : traffic'[i] = traffic[i]
      /\ traffic'[n + 1].input = p
  BY FrameArrives
<1>2. (n + 1) - 1 = n /\ (n + 2) - 1 = n + 1
  BY <1>1
<1>3. Tellings(addr, n + 1)' = Tellings(addr, n + 1) /\ Tellings(addr, n + 1) \subseteq 1..n
  BY <1>1, <1>2 DEF Tellings
<1>4. \A j : j \in 1..(n + 1) <=> j \in 1..n \/ j = n + 1
  BY <1>1
<1>5. \A j : j \in Tellings(addr, n + 2)' <=>
            j \in 1..(n + 1) /\ traffic'[j].input.kind = "arp" /\ traffic'[j].input.src = addr
  BY <1>2 DEF Tellings
<1>6. \A j : j \in Tellings(addr, n + 1) <=>
            j \in 1..n /\ traffic[j].input.kind = "arp" /\ traffic[j].input.src = addr
  BY <1>2 DEF Tellings
<1>7. \A j : j \in Tellings(addr, n + 2)' <=>
            j \in Tellings(addr, n + 1) \/ (j = n + 1 /\ p.kind = "arp" /\ p.src = addr)
  BY <1>1, <1>4, <1>5, <1>6
<1>8. QED BY <1>3, <1>7

\* The last telling is the greatest.
LEMMA LastTelling ==
    ASSUME NEW m \in Nat, NEW T, T \subseteq 1..m, T # {}
    PROVE  Max(T) \in T /\ (m \in T => Max(T) = m)
<1>1. T \subseteq Nat /\ \A i \in T : i <= m
  OBVIOUS
<1>2. Max(T) \in T /\ \A i \in T : i <= Max(T)
  BY <1>1, GreatestNumber
<1>3. PICK x \in T : x = Max(T) /\ \A i \in T : i <= x
  BY <1>2
<1>4. m \in T => x = m
  BY <1>1, <1>3
<1>5. QED BY <1>3, <1>4

\* The bindings are those that were told last.
LEMMA BoundGoesOn ==
    ASSUME NEW p, NEW at, NEW n, FrameComes(p, at, n),
           eth'.bindings = IF p.kind = "arp" THEN Put(eth.bindings, p.src, p.mac) ELSE eth.bindings, NEW addr
    PROVE  Bound(addr)'
<1>0. Len(traffic) = n
  BY DEF FrameComes
<1>1. /\ n \in Nat /\ Len(traffic') = n + 1 /\ Len(traffic) = n
      /\ \A i \in 1..n : traffic'[i] = traffic[i]
      /\ traffic'[n + 1].input = p
  BY <1>0, FrameArrives
<1>2. PICK old, new : old = Tellings(addr, n + 1) /\ new = Tellings(addr, n + 2)'
  OBVIOUS
<1>3. old \subseteq 1..n /\ new = old \cup (IF p.kind = "arp" /\ p.src = addr THEN {n + 1} ELSE {})
  BY <1>2, TellingsGrow
<1>4. (addr \in DOMAIN eth.bindings <=> old # {})
      /\ (old # {} => eth.bindings[addr] = traffic[Max(old)].input.mac)
  BY <1>1, <1>2 DEF FrameComes, EthFloods, Bound
<1>5. (addr \in DOMAIN eth'.bindings <=> new # {})
      /\ (new # {} => eth'.bindings[addr] = traffic'[Max(new)].input.mac)
  <2>1. CASE p.kind = "arp" /\ p.src = addr
    <3>1. new = old \cup {n + 1}
      BY <1>3, <2>1
    <3>5. new \subseteq 1..(n + 1) /\ n + 1 \in new /\ n + 1 \in Nat /\ new # {}
      <4>1. n \in Nat /\ old \subseteq 1..n
        BY <1>1, <1>3
      <4>2. (\A j \in 1..n : j \in 1..(n + 1)) /\ n + 1 \in 1..(n + 1) /\ n + 1 \in Nat
        BY ONLY <4>1
      <4>3. QED BY ONLY <3>1, <4>1, <4>2
    <3>2. Max(new) = n + 1
      BY ONLY <3>5, LastTelling
    <3>3. addr \in DOMAIN eth'.bindings /\ eth'.bindings[addr] = p.mac
      BY <2>1 DEF Put
    <3>4. QED BY <1>1, <3>2, <3>3, <3>5
  <2>2. CASE ~(p.kind = "arp" /\ p.src = addr)
    <3>1. new = old
      BY <1>3, <2>2
    <3>2. (addr \in DOMAIN eth'.bindings <=> addr \in DOMAIN eth.bindings)
          /\ (addr \in DOMAIN eth.bindings => eth'.bindings[addr] = eth.bindings[addr])
      BY <2>2 DEF Put
    <3>3. old # {} => Max(old) \in 1..n
      BY <1>1, <1>3, LastTelling
    <3>4. QED BY <1>1, <1>4, <3>1, <3>2, <3>3
  <2>3. QED BY <2>1, <2>2
<1>6. Tellings(addr, Len(traffic) + 1)' = new
  <2>1. Len(traffic)' + 1 = n + 2
    BY <1>1
  <2>2. Tellings(addr, Len(traffic) + 1)' = {j \in 1..((Len(traffic)' + 1) - 1) : traffic'[j].input.kind = "arp" /\ traffic'[j].input.src = addr}
    BY DEF Tellings
  <2>3. new = {j \in 1..((n + 2) - 1) : traffic'[j].input.kind = "arp" /\ traffic'[j].input.src = addr}
    BY <1>2 DEF Tellings
  <2>4. QED BY <2>1, <2>2, <2>3
<1>7. QED BY <1>5, <1>6 DEF Bound

\* The frames before it count as they did.
LEMMA EarlierCount ==
    ASSUME NEW p, NEW at, NEW n, FrameComes(p, at, n), NEW kind, NEW i \in DOMAIN traffic
    PROVE  Counts(kind, i)' = Counts(kind, i)
<1>1. /\ n \in Nat /\ i \in 1..n /\ scenario' = scenario
      /\ \A j \in 1..n : traffic'[j] = traffic[j]
  BY FrameArrives
<1>2. Rebinds(i)' = Rebinds(i)
  <2>1. \A j \in 1..(i - 1) : j \in 1..n
    BY <1>1
  <2>2. PICK old : old = {j \in 1..(i - 1) : traffic[j].input.kind = "arp"
                                             /\ traffic[j].input.src = traffic[i].input.src}
    OBVIOUS
  <2>3. old = {j \in 1..(i - 1) : traffic'[j].input.kind = "arp"
                                  /\ traffic'[j].input.src = traffic'[i].input.src}
    BY <1>1, <2>1, <2>2
  <2>4. old # {} => Max(old) \in 1..n
    <3>1. i - 1 \in Nat /\ old \subseteq 1..(i - 1)
      BY <1>1, <2>2
    <3>2. QED BY <2>1, <3>1, LastTelling
  <2>5. Rebinds(i) <=> old # {} /\ traffic[Max(old)].input.mac # traffic[i].input.mac
    BY <2>2 DEF Rebinds
  <2>6. Rebinds(i)' <=> old # {} /\ traffic'[Max(old)].input.mac # traffic'[i].input.mac
    BY <2>3 DEF Rebinds
  <2>7. (Rebinds(i)' <=> Rebinds(i)) /\ Rebinds(i) \in BOOLEAN /\ Rebinds(i)' \in BOOLEAN
    BY <1>1, <2>4, <2>5, <2>6 DEF Rebinds
  <2>8. QED BY <2>7
<1>3. EthCounts(kind, i)' = EthCounts(kind, i)
  BY <1>1, <1>2 DEF EthCounts
<1>4. QED BY <1>1, <1>3 DEF Counts, FrameComes

\* What the new frame counts for.
LEMMA NewCounts ==
    ASSUME NEW p, NEW at, NEW n, FrameComes(p, at, n), NEW key
    PROVE  /\ key \in Counts("rateFlood", n + 1)' <=> p.kind # "arp" /\ p.src \notin Trusted /\ key = p.src
           /\ key \in Counts("portScan", n + 1)' <=>
                /\ p.kind = "tcp" /\ p.src \notin Trusted
                /\ "SYN" \in p.flags /\ "RST" \notin p.flags /\ key = p.src
           /\ key \in Counts("arpStorm", n + 1)' <=>
                /\ p.kind = "arp" /\ p.gratuitous /\ key = p.mac
                /\ ~(p.src \in DOMAIN eth.bindings /\ eth.bindings[p.src] # p.mac)
<1>0. scenario.probe = "eth" /\ Len(traffic) = n
  BY DEF FrameComes
<1>1. /\ n \in Nat /\ scenario' = scenario /\ scenario.probe = "eth" /\ Len(traffic) = n
      /\ \A j \in 1..n : traffic'[j] = traffic[j]
      /\ traffic'[n + 1].input = p
  BY <1>0, FrameArrives
<1>2. PICK old : old = Tellings(p.src, n + 1) /\ old = Tellings(p.src, n + 1)' /\ old \subseteq 1..n
  BY TellingsGrow
<1>3. Rebinds(n + 1)' <=> old # {} /\ traffic'[Max(old)].input.mac # p.mac
  <2>1. old = {j \in 1..((n + 1) - 1) : traffic'[j].input.kind = "arp"
                                        /\ traffic'[j].input.src = traffic'[n + 1].input.src}
    BY <1>1, <1>2 DEF Tellings
  <2>2. QED BY <1>1, <2>1 DEF Rebinds
<1>4. old # {} => Max(old) \in 1..n
  BY <1>1, <1>2, LastTelling
<1>5. (p.src \in DOMAIN eth.bindings <=> old # {})
      /\ (old # {} => eth.bindings[p.src] = traffic[Max(old)].input.mac)
  BY <1>1, <1>2 DEF FrameComes, EthFloods, Bound
<1>6. Rebinds(n + 1)' <=> p.src \in DOMAIN eth.bindings /\ eth.bindings[p.src] # p.mac
  BY <1>1, <1>3, <1>4, <1>5
<1>7. \A kind : Counts(kind, n + 1)' = EthCounts(kind, n + 1)'
  BY <1>1 DEF Counts
<1>8. /\ key \in EthCounts("rateFlood", n + 1)' <=> p.kind # "arp" /\ p.src \notin Trusted /\ key = p.src
      /\ key \in EthCounts("portScan", n + 1)' <=>
            /\ p.kind = "tcp" /\ p.src \notin Trusted
            /\ "SYN" \in p.flags /\ "RST" \notin p.flags /\ key = p.src
      /\ key \in EthCounts("arpStorm", n + 1)' <=>
            p.kind = "arp" /\ p.gratuitous /\ key = p.mac /\ ~Rebinds(n + 1)'
  BY <1>1 DEF EthCounts
<1>9. QED BY <1>6, <1>7, <1>8

-----------------------------------------------------------------------------
\* The windows of rates and of ARP.

\* What a frame that counts or does not does to the windows of a kind; more are they then.
WindowMoves(kind, counts, key, at, windows, more, alerts) ==
    \/ counts /\ \E open, v :
            /\ open = OpenStorm(windows, key, at) /\ v = Counted(open, EthLimit(kind))
            /\ more = Put(windows, key, v)
            /\ \A k : Rung(alerts, kind, k) <=> Raised(open, v) /\ k = key
    \/ ~counts /\ more = windows /\ \A k : ~Rung(alerts, kind, k)

\* The windows of a kind, a frame, and what it does to them.
WindowGiven(kind, counts, key, p, at, n, windows, more, alerts) ==
    /\ FrameComes(p, at, n) /\ IsSeq(alerts) /\ Report(alerts, at)
    /\ kind \in {"rateFlood", "arpStorm"} /\ counts \in BOOLEAN
    /\ \A k : k \in Counts(kind, n + 1)' <=> counts /\ k = key
    /\ WindowMoves(kind, counts, key, at, windows, more, alerts)
    /\ \A k \in DOMAIN windows : windows[k] \in CounterType
    /\ \A k : EthWatch(kind, k, windows)

\* What comes of a kind other than ports is told apart by its place.
LEMMA ThingsApart ==
    ASSUME NEW p, NEW at, NEW n, FrameComes(p, at, n), NEW kind \in {"rateFlood", "arpStorm"}, NEW key
    PROVE  /\ key \in Counts(kind, n + 1)' => Came(kind, key)' = Grown(Came(kind, key), at, n + 1)
           /\ key \notin Counts(kind, n + 1)' => Came(kind, key)' = Came(kind, key)
           /\ \A c \in Came(kind, key) : c[2] # n + 1
<1>1. Recorded /\ Arrives(p, at) /\ n = Len(traffic)
  BY DEF FrameComes
<1>2. \A i \in DOMAIN traffic : Counts(kind, i)' = Counts(kind, i)
  BY EarlierCount
<1>3. Thing(kind, n + 1)' = n + 1 /\ \A i : Thing(kind, i) = i
  BY DEF Thing
<1>4. PICK thing : thing = Thing(kind, n + 1)'
  OBVIOUS
<1>5. /\ key \in Counts(kind, n + 1)' => Came(kind, key)' = Grown(Came(kind, key), at, Thing(kind, n + 1)')
      /\ key \notin Counts(kind, n + 1)' => Came(kind, key)' = Came(kind, key)
  BY ONLY <1>1, <1>2, CameGrows
<1>6. \A c \in Came(kind, key) : c[2] \in DOMAIN traffic
  BY <1>3 DEF Came
<1>7. n + 1 \notin DOMAIN traffic
  BY FrameArrives
<1>8. QED BY <1>3, <1>5, <1>6, <1>7

\* The limits and the width.
LEMMA EthLimits ==
    ASSUME NEW p, NEW at, NEW n, FrameComes(p, at, n), NEW kind \in EthKinds
    PROVE  /\ EthLimit(kind) = scenario.limits[kind] /\ scenario.limits[kind] \in Nat
           /\ scenario'.limits[kind] = scenario.limits[kind]
           /\ Width(kind) = EthWindow /\ Width(kind)' = EthWindow /\ EthWindow \in Nat \ {0}
<1>1. scenario' = scenario /\ scenario \in Scenarios
  BY FrameArrives
<1>2. scenario.probe = "eth"
  BY DEF FrameComes
<1>3. DOMAIN scenario.limits = EthKinds /\ Width(kind) = EthWindow /\ scenario.limits[kind] \in Nat
  BY <1>1, <1>2, Limits
<1>4. Width(kind)' = Width(kind)
  BY <1>1 DEF Width
<1>5. QED BY <1>1, <1>3, <1>4, EthAssumption DEF EthLimit

\* The times of the traffic with the frame.
LEMMA FrameTimes ==
    ASSUME NEW p, NEW at, NEW n, FrameComes(p, at, n)
    PROVE  Stamps' = Stamps \cup {at} /\ Stamps' \subseteq Nat /\ Stamps \subseteq Nat
           /\ (\A t \in Stamps : t <= at) /\ at \in Nat
<1>1. Recorded /\ Arrives(p, at)
  BY DEF FrameComes
<1>2. Stamps' = Stamps \cup {at} /\ Stamps \subseteq Nat
  BY ONLY <1>1, TimesGoOn
<1>3. at \in Nat /\ \A t \in Stamps : t <= at
  BY <1>1 DEF Arrives
<1>4. QED BY <1>2, <1>3

\* A window that the frame does not count in watches on.
LEMMA WindowWaits ==
    ASSUME NEW p, NEW at, NEW n, FrameComes(p, at, n), NEW kind \in {"rateFlood", "arpStorm"}, NEW key,
           NEW windows, EthWatch(kind, key, windows), NEW more,
           At(more, key, NewStorm) = At(windows, key, NewStorm),
           key \notin Counts(kind, n + 1)', Rang(kind, key)' = Rang(kind, key)
    PROVE  EthWatch(kind, key, more)'
<1>1. PICK w : w = OfCounter(At(windows, key, NewStorm))
  OBVIOUS
<1>2. PICK start, m, alerted : start = w.start /\ m = w.n /\ alerted = w.alerted
  OBVIOUS
<1>3. Watches(kind, key, NotOpen, start, m, alerted)
  BY <1>1, <1>2 DEF EthWatch
<1>4. kind \in EthKinds
  BY DEF EthKinds
<1>5. /\ scenario'.limits[kind] = scenario.limits[kind]
      /\ Width(kind) = EthWindow /\ Width(kind)' = EthWindow
  BY <1>4, EthLimits
<1>6. Came(kind, key)' = Came(kind, key)
  BY ThingsApart
<1>7. PICK came, rang, times, stamps, limit :
        /\ came = Came(kind, key) /\ rang = Rang(kind, key) /\ times = Stamps /\ stamps = Stamps'
        /\ limit = scenario.limits[kind]
  OBVIOUS
<1>8. Watching(came, rang, times, EthWindow, limit, NotOpen, start, m, alerted)
  BY <1>3, <1>5, <1>7 DEF Watches
<1>9. stamps \subseteq Int /\ times \subseteq stamps
  BY <1>7, FrameTimes
<1>10. Watching(came, rang, stamps, EthWindow, limit, NotOpen, start, m, alerted)
  BY ONLY <1>8, <1>9, TimesGrow
<1>11. Watches(kind, key, NotOpen, start, m, alerted)'
  <2>1. start \in Int /\ m \in Nat /\ alerted \in BOOLEAN
    BY <1>3 DEF Watches
  <2>2. Watching(Came(kind, key)', Rang(kind, key)', Stamps', Width(kind)', scenario'.limits[kind],
                 NotOpen, start, m, alerted)
    BY <1>5, <1>6, <1>7, <1>10
  <2>3. QED BY <2>1, <2>2 DEF Watches, NotOpen
<1>12. w = OfCounter(At(more, key, NewStorm))
  BY <1>1
<1>13. QED BY <1>2, <1>11, <1>12 DEF EthWatch

\* A window that the frame counts in watches on.
LEMMA WindowCounts ==
    ASSUME NEW p, NEW at, NEW n, FrameComes(p, at, n), NEW kind \in {"rateFlood", "arpStorm"}, NEW key,
           NEW windows, EthWatch(kind, key, windows), NEW more, NEW open, NEW v,
           \A k \in DOMAIN windows : windows[k] \in CounterType,
           open = OpenStorm(windows, key, at), v = Counted(open, EthLimit(kind)),
           At(more, key, NewStorm) = v,
           key \in Counts(kind, n + 1)',
           Rang(kind, key)' = IF Raised(open, v) THEN Rang(kind, key) \cup {at} ELSE Rang(kind, key)
    PROVE  EthWatch(kind, key, more)' /\ v \in CounterType
<1>0. PICK c : c = At(windows, key, NewStorm)
  OBVIOUS
<1>1. c \in CounterType
  BY <1>0 DEF At, NewStorm, Counter, CounterType, NotOpen
<1>2. PICK w : w = OfCounter(c)
  OBVIOUS
<1>3. w.start = c.start /\ w.n = c.count /\ w.alerted = c.alerted
  BY <1>2 DEF OfCounter, State
<1>4. Watches(kind, key, NotOpen, w.start, w.n, w.alerted)
  BY <1>0, <1>2 DEF EthWatch
<1>5. kind \in EthKinds
  BY DEF EthKinds
<1>6. PICK limit : limit = scenario.limits[kind]
  OBVIOUS
<1>7. /\ EthLimit(kind) = limit /\ limit \in Nat /\ scenario'.limits[kind] = limit
      /\ Width(kind) = EthWindow /\ Width(kind)' = EthWindow /\ EthWindow \in Nat \ {0}
  BY <1>5, <1>6, EthLimits
<1>8. PICK came, rang, times : came = Came(kind, key) /\ rang = Rang(kind, key) /\ times = Stamps
  OBVIOUS
<1>9. /\ Came(kind, key)' = Grown(came, at, n + 1) /\ \A d \in came : d[2] # n + 1
  BY <1>8, ThingsApart
<1>10. CountsIn(came, rang, times, EthWindow, limit, NotOpen, c, at, n + 1, open, v)
  <2>1. Watching(came, rang, times, EthWindow, limit, NotOpen, c.start, c.count, c.alerted)
    BY <1>3, <1>4, <1>6, <1>7, <1>8 DEF Watches
  <2>2. at \in Int /\ at # NotOpen /\ NotOpen \in Int /\ \A t \in times : t <= at
    BY <1>8, FrameTimes DEF NotOpen
  <2>3. open = Opened(c, Counter(NotOpen), at, EthWindow) /\ v = Counted(open, limit)
    BY <1>0, <1>7 DEF OpenStorm, NewStorm
  <2>4. QED BY <1>1, <1>7, <1>9, <2>1, <2>2, <2>3 DEF CountsIn
<1>11. /\ Watching(Grown(came, at, n + 1), IF Raised(open, v) THEN rang \cup {at} ELSE rang,
                   times \cup {at}, EthWindow, limit, NotOpen, v.start, v.count, v.alerted)
       /\ v \in CounterType
  BY ONLY <1>10, CounterWatches
<1>12. PICK u : u = OfCounter(v)
  OBVIOUS
<1>13. u.start = v.start /\ u.n = v.count /\ u.alerted = v.alerted
  BY <1>12 DEF OfCounter, State
<1>14. Watches(kind, key, NotOpen, u.start, u.n, u.alerted)'
  <2>1. Watching(Came(kind, key)', Rang(kind, key)', Stamps', Width(kind)', scenario'.limits[kind],
                 NotOpen, u.start, u.n, u.alerted)
    BY <1>7, <1>8, <1>9, <1>11, <1>13, FrameTimes
  <2>2. v.start \in Int /\ v.count \in Nat /\ v.alerted \in BOOLEAN
    BY <1>11 DEF CounterType
  <2>3. QED BY <1>13, <2>1, <2>2 DEF Watches, NotOpen
<1>15. QED BY <1>11, <1>12, <1>14 DEF EthWatch

\* All the windows of a kind.
LEMMA WindowsWatch ==
    ASSUME NEW kind, NEW counts, NEW key, NEW p, NEW at, NEW n, NEW windows, NEW more, NEW alerts,
           WindowGiven(kind, counts, key, p, at, n, windows, more, alerts)
    PROVE  /\ \A k : EthWatch(kind, k, more)'
           /\ \A k \in DOMAIN more : more[k] \in CounterType
<1>1. /\ FrameComes(p, at, n) /\ IsSeq(alerts) /\ Report(alerts, at)
      /\ kind \in {"rateFlood", "arpStorm"} /\ counts \in BOOLEAN
      /\ \A k : k \in Counts(kind, n + 1)' <=> counts /\ k = key
      /\ \A k \in DOMAIN windows : windows[k] \in CounterType
  BY DEF WindowGiven
<1>2. \A k : EthWatch(kind, k, windows)
  BY DEF WindowGiven
<1>3. \A k : Rang(kind, k)' = IF Rung(alerts, kind, k) THEN Rang(kind, k) \cup {at} ELSE Rang(kind, k)
  BY <1>1, RangGrows DEF FrameComes, Recorded
<1>4. CASE counts
  <2>1. PICK open, v :
            /\ open = OpenStorm(windows, key, at) /\ v = Counted(open, EthLimit(kind))
            /\ more = Put(windows, key, v)
            /\ \A k : Rung(alerts, kind, k) <=> Raised(open, v) /\ k = key
    BY <1>4 DEF WindowGiven, WindowMoves
  <2>2. At(more, key, NewStorm) = v /\ \A k : k # key => At(more, k, NewStorm) = At(windows, k, NewStorm)
    BY <2>1 DEF At, Put
  <2>3. EthWatch(kind, key, more)' /\ v \in CounterType
    <3>1. Rang(kind, key)' = IF Raised(open, v) THEN Rang(kind, key) \cup {at} ELSE Rang(kind, key)
      BY <1>3, <2>1
    <3>2. key \in Counts(kind, n + 1)'
      BY <1>1, <1>4
    <3>3. EthWatch(kind, key, windows)
      BY <1>2
    <3>4. open = OpenStorm(windows, key, at) /\ v = Counted(open, EthLimit(kind)) /\ At(more, key, NewStorm) = v
      BY <2>1, <2>2
    <3>5. FrameComes(p, at, n) /\ kind \in {"rateFlood", "arpStorm"}
          /\ \A k \in DOMAIN windows : windows[k] \in CounterType
      BY <1>1
    <3>6. QED BY ONLY <3>1, <3>2, <3>3, <3>4, <3>5, WindowCounts
  <2>4. ASSUME NEW k, k # key PROVE EthWatch(kind, k, more)'
    <3>1. Rang(kind, k)' = Rang(kind, k)
      BY <1>3, <2>1, <2>4
    <3>2. k \notin Counts(kind, n + 1)'
      BY <1>1, <2>4
    <3>3. EthWatch(kind, k, windows)
      BY <1>2
    <3>4. At(more, k, NewStorm) = At(windows, k, NewStorm)
      BY <2>2, <2>4
    <3>5. FrameComes(p, at, n) /\ kind \in {"rateFlood", "arpStorm"}
      BY <1>1
    <3>6. QED BY ONLY <3>1, <3>2, <3>3, <3>4, <3>5, WindowWaits
  <2>5. \A k \in DOMAIN more : more[k] \in CounterType
    BY <1>1, <2>1, <2>3 DEF Put
  <2>6. QED BY <2>3, <2>4, <2>5
<1>5. CASE ~counts
  <2>1. more = windows /\ \A k : ~Rung(alerts, kind, k)
    BY <1>5 DEF WindowGiven, WindowMoves
  <2>2. ASSUME NEW k PROVE EthWatch(kind, k, more)'
    <3>1. Rang(kind, k)' = Rang(kind, k)
      BY <1>3, <2>1
    <3>2. k \notin Counts(kind, n + 1)'
      BY <1>1, <1>5
    <3>3. EthWatch(kind, k, windows)
      BY <1>2
    <3>4. At(more, k, NewStorm) = At(windows, k, NewStorm)
      BY <2>1
    <3>5. FrameComes(p, at, n) /\ kind \in {"rateFlood", "arpStorm"}
      BY <1>1
    <3>6. QED BY ONLY <3>1, <3>2, <3>3, <3>4, <3>5, WindowWaits
  <2>3. QED BY <1>1, <2>1, <2>2
<1>6. QED BY <1>1, <1>4, <1>5

-----------------------------------------------------------------------------
\* The windows of ports.

\* A SYN that is fed to the port scan detector.
Scanned(p) == p.kind = "tcp" /\ p.src \notin Trusted /\ "SYN" \in p.flags /\ "RST" \notin p.flags

\* What a SYN does to the windows of ports, which slide.
SynMoves(p, at, scans, more, alerts, old, left, syns, raised, alerted) ==
    /\ old = At(scans, p.src, NewScan).events
    /\ left = Recent(old, at)
    /\ syns = Append(left, [at |-> at, port |-> p.dport])
    /\ more = Put(scans, p.src, [events |-> syns, alerted |-> alerted])
    /\ raised \in BOOLEAN
    /\ raised => Cardinality({syns[i].port : i \in DOMAIN syns}) >= EthLimit("portScan")
    /\ \A k : Rung(alerts, "portScan", k) <=> raised /\ k = p.src

\* What a frame does to them.
ScanMoves(p, at, scans, more, alerts) ==
    \/ Scanned(p) /\ \E old, left, syns, raised, alerted :
            SynMoves(p, at, scans, more, alerts, old, left, syns, raised, alerted)
    \/ ~Scanned(p) /\ more = scans /\ \A k : ~Rung(alerts, "portScan", k)

\* What came is finite, of times that are numbers.
LEMMA CameIsFinite ==
    ASSUME Recorded, NEW kind, NEW key
    PROVE  IsFiniteSet(Came(kind, key)) /\ \A c \in Came(kind, key) : c[1] \in Stamps
<1>1. PICK n \in Nat : DOMAIN traffic = 1..n
  BY DEF Recorded, IsSeq
<1>2. PICK P : P = {j \in DOMAIN traffic : key \in Counts(kind, j)}
  OBVIOUS
<1>3. IsFiniteSet(P)
  BY <1>1, <1>2, FS_Interval, FS_Subset
<1>4. PICK f : f = [i \in P |-> <<traffic[i].at, Thing(kind, i)>>]
  OBVIOUS
<1>5. Came(kind, key) = {f[i] : i \in P}
  BY <1>2, <1>4 DEF Came
<1>6. f \in Surjection(P, {f[i] : i \in P})
  BY <1>4 DEF Surjection
<1>7. IsFiniteSet(Came(kind, key))
  BY <1>3, <1>5, <1>6, FS_Surjection
<1>8. ASSUME NEW i \in P PROVE f[i][1] \in Stamps
  <2>1. f[i][1] = traffic[i].at
    BY <1>4
  <2>2. QED BY <1>2, <2>1 DEF Stamps
<1>9. QED BY <1>5, <1>7, <1>8

\* The SYNs of one address, one more SYN of it, and what is made of them.
PortIn(p, at, n, alerts, old, left, syns, raised, came, more, rang, limit) ==
    /\ FrameComes(p, at, n) /\ IsSeq(alerts) /\ Report(alerts, at) /\ raised \in BOOLEAN
    /\ came = Came("portScan", p.src) /\ more = Grown(came, at, p.dport) /\ IsFiniteSet(more)
    /\ \A c \in came : c[1] \in Stamps
    /\ IsSeq(old) /\ Ascending(old) /\ \A i \in DOMAIN old : <<old[i].at, old[i].port>> \in came
    /\ left = Recent(old, at)
    /\ syns = Append(left, [at |-> at, port |-> p.dport])
    /\ limit \in Nat /\ (raised => Cardinality({syns[i].port : i \in DOMAIN syns}) >= limit)
    /\ Real(came, rang, EthWindow, limit)

\* Those that are left are the last ones, none of which has left the window.
LEMMA RecentOnes ==
    ASSUME NEW old, IsSeq(old), Ascending(old), NEW at \in Nat,
           \A i \in DOMAIN old : old[i].at \in Nat /\ old[i].at <= at
    PROVE  /\ IsSeq(Recent(old, at)) /\ Ascending(Recent(old, at))
           /\ \A k \in DOMAIN Recent(old, at) : \E i \in DOMAIN old :
                    Recent(old, at)[k] = old[i] /\ at - old[i].at < EthWindow
<1>1. PICK n \in Nat : n = Len(old) /\ DOMAIN old = 1..n /\ old \in Seq(ToSet(old))
  BY DEF IsSeq
<1>2. PICK recent : recent = {i \in DOMAIN old : ~Elapsed(old[i].at, at, EthWindow)}
  OBVIOUS
<1>3. CASE recent = {}
  <2>1. Recent(old, at) = <<>>
    BY <1>2, <1>3 DEF Recent
  <2>2. DOMAIN <<>> = {}
    OBVIOUS
  <2>3. IsSeq(<<>>)
    BY SingleSeq
  <2>4. QED BY <2>1, <2>2, <2>3 DEF Ascending
<1>4. CASE recent # {}
  <2>1. recent \subseteq 1..n /\ recent \subseteq Nat
    BY <1>1, <1>2
  <2>2. IsFiniteSet(1..n)
    BY <1>1, FS_Interval
  <2>3. IsFiniteSet(recent)
    BY <2>1, <2>2, FS_Subset
  <2>4. Min(recent) \in recent /\ Min(recent) \in Nat
    BY <1>4, <2>1, <2>3, FirstOfFinite
  <2>5. PICK m \in 1..n : m = Min(recent) /\ m \in recent
    BY <2>1, <2>4
  <2>6. PICK left : left = SubSeq(old, m, n)
    OBVIOUS
  <2>7. Recent(old, at) = left
    BY <1>1, <1>2, <1>4, <2>5, <2>6 DEF Recent
  <2>8. /\ left \in Seq(ToSet(old)) /\ DOMAIN left = 1..(n - m + 1)
        /\ \A k \in 1..(n - m + 1) : left[k] = old[m + k - 1] /\ m + k - 1 \in 1..n
    BY <1>1, <2>6
  <2>9. old[m].at \in Nat /\ old[m].at <= at /\ at - old[m].at < EthWindow
    <3>1. ~Elapsed(old[m].at, at, EthWindow)
      BY <1>2, <2>5
    <3>2. EthWindow \in Nat
      BY EthAssumption
    <3>3. QED BY <1>1, <3>1, <3>2 DEF Elapsed
  <2>10. ASSUME NEW k \in 1..(n - m + 1)
         PROVE  \E i \in DOMAIN old : left[k] = old[i] /\ at - old[i].at < EthWindow
    <3>1. PICK i \in 1..n : i = m + k - 1 /\ m <= i /\ left[k] = old[i]
      BY <2>8
    <3>2. old[m].at <= old[i].at /\ old[i].at \in Nat
      BY <1>1, <3>1 DEF Ascending
    <3>3. at - old[i].at < EthWindow
      <4>1. EthWindow \in Nat
        BY EthAssumption
      <4>2. QED BY <2>9, <3>2, <4>1
    <3>4. QED BY <1>1, <3>1, <3>3
  <2>11. ASSUME NEW k \in 1..(n - m + 1), NEW l \in 1..(n - m + 1), k <= l PROVE left[k].at <= left[l].at
    <3>1. PICK i, j \in 1..n : i = m + k - 1 /\ j = m + l - 1 /\ left[k] = old[i] /\ left[l] = old[j]
      BY <2>8
    <3>2. i <= j
      BY <2>11, <3>1
    <3>3. QED BY <1>1, <3>1, <3>2 DEF Ascending
  <2>12. IsSeq(left)
    BY <2>8, AnySeq
  <2>13. Ascending(left)
    BY <2>8, <2>11 DEF Ascending
  <2>14. QED BY <2>7, <2>8, <2>10, <2>12, <2>13
<1>5. QED BY <1>3, <1>4

\* The SYNs of one address, when one of them has come.
LEMMA PortCounted ==
    ASSUME NEW p, NEW at, NEW n, NEW alerts, NEW old, NEW left, NEW syns, NEW raised, NEW came, NEW more,
           NEW rang, NEW limit, PortIn(p, at, n, alerts, old, left, syns, raised, came, more, rang, limit)
    PROVE  /\ IsSeq(syns) /\ Ascending(syns) /\ \A i \in DOMAIN syns : <<syns[i].at, syns[i].port>> \in more
           /\ Real(more, IF raised THEN rang \cup {at} ELSE rang, EthWindow, limit)
<1>0. /\ EthWindow \in Nat \ {0} /\ at \in Nat /\ limit \in Nat
      /\ Stamps \subseteq Nat /\ \A t \in Stamps : t <= at
  BY EthAssumption, FrameTimes DEF PortIn
<1>01. /\ more = Grown(came, at, p.dport) /\ IsFiniteSet(more)
       /\ left = Recent(old, at)
       /\ syns = Append(left, [at |-> at, port |-> p.dport])
  BY DEF PortIn
<1>02. /\ \A c \in came : c[1] \in Stamps
       /\ IsSeq(old) /\ Ascending(old) /\ \A i \in DOMAIN old : <<old[i].at, old[i].port>> \in came
       /\ Real(came, rang, EthWindow, limit)
  BY DEF PortIn
<1>1. PICK T : T = {e \in ToSet(old) : <<e.at, e.port>> \in came /\ at - e.at < EthWindow}
  OBVIOUS
<1>2. left \in Seq(T) /\ IsSeq(left) /\ Ascending(left)
  <2>1. ASSUME NEW i \in DOMAIN old PROVE old[i].at \in Nat /\ old[i].at <= at
    <3>1. PICK c : c = <<old[i].at, old[i].port>>
      OBVIOUS
    <3>2. c \in came /\ c[1] = old[i].at
      BY <1>02, <3>1
    <3>3. QED BY <1>0, <1>02, <3>2
  <2>2. /\ IsSeq(left) /\ Ascending(left)
        /\ \A k \in DOMAIN left : \E i \in DOMAIN old : left[k] = old[i] /\ at - old[i].at < EthWindow
    BY <1>0, <1>01, <1>02, <2>1, RecentOnes
  <2>3. \A k \in DOMAIN left : left[k] \in T
    BY <1>1, <1>02, <2>2 DEF ToSet
  <2>4. left \in Seq(T)
    BY <2>2, <2>3 DEF IsSeq
  <2>5. QED BY <2>2, <2>4
<1>3. PICK syn : syn = [at |-> at, port |-> p.dport]
  OBVIOUS
<1>4. syn.at = at /\ syn.port = p.dport /\ <<syn.at, syn.port>> \in more
  BY <1>01, <1>3 DEF Grown
<1>5. PICK U : U = T \cup {syn}
  OBVIOUS
<1>6. syns \in Seq(U)
  <2>1. Seq(T) \subseteq Seq(U)
    BY <1>5
  <2>2. left \in Seq(U) /\ syn \in U
    BY <1>2, <1>5, <2>1
  <2>3. QED BY <1>01, <1>3, <2>2
<1>7. ASSUME NEW e \in U
      PROVE  <<e.at, e.port>> \in more /\ e.at \in Nat /\ e.at <= at /\ at - e.at < EthWindow
  <2>1. CASE e = syn
    BY <1>0, <1>4, <2>1
  <2>2. CASE e \in T
    <3>1. PICK c : c = <<e.at, e.port>>
      OBVIOUS
    <3>2. c \in came /\ c[1] = e.at /\ at - e.at < EthWindow
      BY <1>1, <2>2, <3>1
    <3>3. e.at \in Stamps
      BY <1>02, <3>2
    <3>4. c \in more
      BY <1>01, <3>2 DEF Grown
    <3>5. QED BY <1>0, <3>1, <3>2, <3>3, <3>4
  <2>3. QED BY <1>5, <2>1, <2>2
<1>8. \A i \in DOMAIN syns : syns[i] \in U
  BY <1>6
<1>9. PICK within, ports : within = Within(more, at, EthWindow) /\ ports = {syns[i].port : i \in DOMAIN syns}
  OBVIOUS
<1>10. ports \subseteq within
  <2>1. ASSUME NEW i \in DOMAIN syns PROVE syns[i].port \in within
    <3>1. PICK c : c = <<syns[i].at, syns[i].port>>
      OBVIOUS
    <3>2. c[1] = syns[i].at /\ c[2] = syns[i].port
      BY <3>1
    <3>3. c \in more /\ c[1] <= at /\ at - c[1] < EthWindow
      BY <1>7, <1>8, <3>1, <3>2
    <3>4. QED BY <1>9, <3>2, <3>3 DEF Within
  <2>2. QED BY <1>9, <2>1
<1>11. IsFiniteSet(within) /\ Cardinality(within) \in Nat /\ Cardinality(ports) \in Nat
       /\ Cardinality(ports) <= Cardinality(within)
  BY <1>01, <1>9, <1>10, WithinFinite
<1>12. raised => Cardinality(Within(more, at, EthWindow)) >= limit
  <2>1. PICK few, many : few = Cardinality(ports) /\ many = Cardinality(within)
    OBVIOUS
  <2>2. few \in Nat /\ many \in Nat /\ few <= many
    BY <1>11, <2>1
  <2>3. (raised => few >= limit) /\ limit \in Nat
    BY <1>0, <1>9, <2>1 DEF PortIn
  <2>4. raised => many >= limit
    BY ONLY <2>2, <2>3
  <2>5. QED BY <1>9, <2>1, <2>4
<1>13. ASSUME NEW a \in rang PROVE Cardinality(Within(more, a, EthWindow)) >= limit
  <2>1. Within(came, a, EthWindow) \subseteq Within(more, a, EthWindow)
    BY <1>01 DEF Within, Grown
  <2>2. PICK few, many : few = Cardinality(Within(came, a, EthWindow)) /\ many = Cardinality(Within(more, a, EthWindow))
    OBVIOUS
  <2>3. few >= limit
    BY <1>02, <2>2 DEF Real
  <2>4. few \in Nat /\ many \in Nat /\ few <= many
    BY <1>01, <2>1, <2>2, WithinFinite
  <2>5. many >= limit
    BY ONLY <1>0, <2>3, <2>4
  <2>6. QED BY <2>2, <2>5
<1>14. Real(more, IF raised THEN rang \cup {at} ELSE rang, EthWindow, limit)
  BY <1>12, <1>13 DEF Real
<1>15. IsSeq(syns)
  BY <1>6, AnySeq
<1>17. Ascending(syns)
  <2>1. PICK k \in Nat : /\ k = Len(left) /\ DOMAIN left = 1..k /\ DOMAIN syns = 1..(k + 1)
                         /\ (\A i \in 1..k : syns[i] = left[i]) /\ syns[k + 1] = syn
    BY <1>01, <1>2, <1>3, LengthAppended
  <2>2. ASSUME NEW i \in 1..(k + 1), NEW j \in 1..(k + 1), i <= j PROVE syns[i].at <= syns[j].at
    <3>1. CASE j = k + 1
      BY <1>4, <1>7, <1>8, <2>1, <3>1
    <3>2. CASE j # k + 1
      <4>1. i \in 1..k /\ j \in 1..k
        BY <2>2, <3>2
      <4>2. QED BY <1>2, <2>1, <2>2, <4>1 DEF Ascending
    <3>3. QED BY <3>1, <3>2
  <2>3. QED BY <2>1, <2>2 DEF Ascending
<1>16. QED BY <1>7, <1>8, <1>14, <1>15, <1>17

\* What came of ports, with one more frame.
LEMMA PortsCome ==
    ASSUME NEW p, NEW at, NEW n, FrameComes(p, at, n), NEW key
    PROVE  /\ Scanned(p) /\ key = p.src => Came("portScan", key)' = Grown(Came("portScan", key), at, p.dport)
           /\ ~(Scanned(p) /\ key = p.src) => Came("portScan", key)' = Came("portScan", key)
<1>1. Recorded /\ Arrives(p, at) /\ n = Len(traffic)
  BY DEF FrameComes
<1>2. \A i \in DOMAIN traffic : Counts("portScan", i)' = Counts("portScan", i)
  BY EarlierCount
<1>3. /\ key \in Counts("portScan", n + 1)' =>
            Came("portScan", key)' = Grown(Came("portScan", key), at, Thing("portScan", n + 1)')
      /\ key \notin Counts("portScan", n + 1)' => Came("portScan", key)' = Came("portScan", key)
  BY ONLY <1>1, <1>2, CameGrows
<1>4. Thing("portScan", n + 1)' = p.dport
  BY FrameArrives DEF Thing
<1>5. key \in Counts("portScan", n + 1)' <=> Scanned(p) /\ key = p.src
  BY NewCounts DEF Scanned
<1>6. QED BY <1>3, <1>4, <1>5

\* All the windows of ports.
LEMMA ScansWatch ==
    ASSUME NEW p, NEW at, NEW n, FrameComes(p, at, n), NEW alerts, IsSeq(alerts), Report(alerts, at),
           ScanMoves(p, at, eth.scans, eth'.scans, alerts), Unfragmented, NEW key
    PROVE  ScanWatch(key)'
<1>1. ScanWatch(key)
  BY DEF FrameComes, EthFloods
<1>2. Rang("portScan", key)' = IF Rung(alerts, "portScan", key) THEN Rang("portScan", key) \cup {at}
                               ELSE Rang("portScan", key)
  BY RangGrows DEF FrameComes, Recorded
<1>3. PICK limit : limit = scenario.limits["portScan"]
  OBVIOUS
<1>4. limit \in Nat /\ scenario'.limits["portScan"] = limit /\ EthLimit("portScan") = limit
  BY <1>3, EthLimits DEF EthKinds
<1>5. CASE Scanned(p)
  <2>1. PICK old, left, syns, raised, alerted :
            /\ old = At(eth.scans, p.src, NewScan).events
            /\ left = Recent(old, at)
            /\ syns = Append(left, [at |-> at, port |-> p.dport])
            /\ eth'.scans = Put(eth.scans, p.src, [events |-> syns, alerted |-> alerted])
            /\ raised \in BOOLEAN
            /\ raised => Cardinality({syns[i].port : i \in DOMAIN syns}) >= EthLimit("portScan")
            /\ \A k : Rung(alerts, "portScan", k) <=> raised /\ k = p.src
    BY <1>5 DEF ScanMoves, SynMoves
  <2>2. CASE key = p.src
    <3>1. PICK came, more, rang : /\ came = Came("portScan", key) /\ more = Grown(came, at, p.dport)
                                  /\ rang = Rang("portScan", key)
      OBVIOUS
    <3>2. Came("portScan", key)' = more
      BY <1>5, <2>2, <3>1, PortsCome
    <3>3. IsFiniteSet(more) /\ \A c \in came : c[1] \in Stamps
      <4>1. IsFiniteSet(came) /\ \A c \in came : c[1] \in Stamps
        BY <3>1, CameIsFinite DEF FrameComes
      <4>2. more = came \cup {<<at, p.dport>>}
        BY <3>1 DEF Grown
      <4>3. QED BY <4>1, <4>2, FS_AddElement
    <3>4. IsSeq(old) /\ Ascending(old) /\ (\A i \in DOMAIN old : <<old[i].at, old[i].port>> \in came)
          /\ Real(came, rang, EthWindow, limit)
      BY <1>1, <1>3, <2>1, <2>2, <3>1 DEF ScanWatch
    <3>5. /\ IsSeq(syns) /\ Ascending(syns) /\ \A i \in DOMAIN syns : <<syns[i].at, syns[i].port>> \in more
          /\ Real(more, IF raised THEN rang \cup {at} ELSE rang, EthWindow, limit)
      <4>1. came = Came("portScan", p.src)
        BY <2>2, <3>1
      <4>2. raised => Cardinality({syns[i].port : i \in DOMAIN syns}) >= limit
        BY <1>4, <2>1
      <4>3. PortIn(p, at, n, alerts, old, left, syns, raised, came, more, rang, limit)
        BY <1>4, <2>1, <3>1, <3>3, <3>4, <4>1, <4>2 DEF PortIn
      <4>4. QED BY ONLY <4>3, PortCounted
    <3>6. At(eth'.scans, key, NewScan).events = syns
      <4>1. PICK e : e = [events |-> syns, alerted |-> alerted]
        OBVIOUS
      <4>2. e.events = syns
        BY <4>1
      <4>3. At(eth'.scans, key, NewScan) = e
        BY <2>1, <2>2, <4>1 DEF At, Put
      <4>4. QED BY <4>2, <4>3
    <3>7. Rang("portScan", key)' = IF raised THEN rang \cup {at} ELSE rang
      BY <1>2, <2>1, <2>2, <3>1
    <3>8. QED BY <1>4, <3>2, <3>5, <3>6, <3>7 DEF ScanWatch, NewScan
  <2>3. CASE key # p.src
    <3>1. Came("portScan", key)' = Came("portScan", key)
      BY <2>3, PortsCome
    <3>2. Rang("portScan", key)' = Rang("portScan", key)
      BY <1>2, <2>1, <2>3
    <3>3. At(eth'.scans, key, NewScan) = At(eth.scans, key, NewScan)
      BY <2>1, <2>3 DEF At, Put
    <3>4. QED BY <1>1, <1>3, <1>4, <3>1, <3>2, <3>3 DEF ScanWatch, NewScan
  <2>4. QED BY <2>2, <2>3
<1>6. CASE ~Scanned(p)
  <2>1. eth'.scans = eth.scans /\ ~Rung(alerts, "portScan", key)
    BY <1>6 DEF ScanMoves
  <2>2. Came("portScan", key)' = Came("portScan", key)
    BY <1>6, PortsCome
  <2>3. Rang("portScan", key)' = Rang("portScan", key)
    BY <1>2, <2>1
  <2>4. QED BY <1>1, <1>3, <1>4, <2>1, <2>2, <2>3 DEF ScanWatch, NewScan
<1>7. QED BY <1>5, <1>6

-----------------------------------------------------------------------------
\* What a frame does to the windows.

\* The handling x of a frame so far has counted it in the window of rates, and only there.
RateFed(p, at, x) ==
    /\ \E open, v :
            /\ open = OpenStorm(eth.rates, p.src, at) /\ v = Counted(open, EthLimit("rateFlood"))
            /\ x.e.rates = Put(eth.rates, p.src, v)
            /\ \A k : Rung(x.alerts, "rateFlood", k) <=> Raised(open, v) /\ k = p.src
    /\ x.e.storms = eth.storms /\ x.e.bindings = eth.bindings
    /\ \A k : ~Rung(x.alerts, "arpStorm", k)
    /\ OfEvents(x.alerts)

\* It has left the windows of ports alone.
ScanLeft(x) == x.e.scans = eth.scans /\ \A k : ~Rung(x.alerts, "portScan", k)

\* What the handling of a frame comes to.
FrameDoes(p, at, x) ==
    /\ IsSeq(x.alerts) /\ OfEvents(x.alerts)
    /\ WindowMoves("rateFlood", p.kind # "arp" /\ p.src \notin Trusted, p.src, at,
                   eth.rates, x.e.rates, x.alerts)
    /\ WindowMoves("arpStorm", /\ p.kind = "arp" /\ p.gratuitous
                               /\ ~(p.src \in DOMAIN eth.bindings /\ eth.bindings[p.src] # p.mac), p.mac, at,
                   eth.storms, x.e.storms, x.alerts)
    /\ x.e.bindings = IF p.kind = "arp" THEN Put(eth.bindings, p.src, p.mac) ELSE eth.bindings
    /\ p.frag = NoFragment => ScanMoves(p, at, eth.scans, x.e.scans, x.alerts)

\* No alert, and the alert of one detector.
LEMMA NoneRings == IsSeq(<<>>) /\ \A kind, key : ~Rung(<<>>, kind, key)
<1>1. DOMAIN <<>> = {}
  OBVIOUS
<1>2. QED BY <1>1, SingleSeq DEF Rung

\* A handler that comes first, and raises this alert or none.
Raises(x, n, e, raised, sev, kind, key, y) ==
    /\ Work(x, n) /\ x.alerts = <<>> /\ raised \in BOOLEAN
    /\ y = Then(x, e, When(raised, sev, kind, key)) /\ sev \in EthEvents

\* What it rings.
LEMMA FirstRings ==
    ASSUME NEW n, NEW x, NEW e, NEW raised, NEW sev, NEW kind, NEW key, NEW y,
           Raises(x, n, e, raised, sev, kind, key, y)
    PROVE  /\ y.e = e /\ IsSeq(y.alerts) /\ OfEvents(y.alerts)
           /\ \A k, z : Rung(y.alerts, k, z) <=> raised /\ k = kind /\ z = key
<1>1. PICK alerts : alerts = When(raised, sev, kind, key)
  OBVIOUS
<1>2. IsSeq(alerts) /\ \A k, z : Rung(alerts, k, z) <=> raised /\ k = kind /\ z = key
  BY <1>1, WhenRings
<1>3. OfEvents(alerts) /\ OfEvents(x.alerts)
  BY <1>1, EventOfOne DEF Raises, OfEvents, EventsIn
<1>4. y.e = e /\ y.alerts = x.alerts \o alerts
  BY <1>1 DEF Raises, Then, Work
<1>5. IsSeq(x.alerts) /\ \A k, z : ~Rung(x.alerts, k, z)
  BY NoneRings DEF Raises
<1>6. IsSeq(x.alerts \o alerts)
      /\ \A k, z : Rung(x.alerts \o alerts, k, z) <=> Rung(x.alerts, k, z) \/ Rung(alerts, k, z)
  BY <1>2, <1>5, JoinedRings
<1>7. OfEvents(x.alerts \o alerts)
  BY <1>2, <1>3, <1>5, EventsJoined DEF OfEvents
<1>8. QED BY <1>2, <1>4, <1>5, <1>6, <1>7

\* FeedRate, the first handler of a packet.
LEMMA RateCounts ==
    ASSUME NEW n, Work(Before, n), NEW p, NEW at
    PROVE  RateFed(p, at, FeedRate(Before, p, at)) /\ ScanLeft(FeedRate(Before, p, at))
<1>1. PICK x : x = Before
  OBVIOUS
<1>2. Work(x, n) /\ x.e = eth /\ x.alerts = <<>>
  BY <1>1 DEF Before
<1>3. PICK open, v : open = OpenStorm(eth.rates, p.src, at) /\ v = Counted(open, EthLimit("rateFlood"))
  OBVIOUS
<1>4. PICK e : e = [eth EXCEPT !.rates = Put(eth.rates, p.src, v)]
  OBVIOUS
<1>5. /\ e.rates = Put(eth.rates, p.src, v) /\ e.storms = eth.storms
      /\ e.bindings = eth.bindings /\ e.scans = eth.scans
  BY <1>2, <1>4 DEF Work, EthKept
<1>6. PICK raised \in BOOLEAN : raised = Raised(open, v)
  BY DEF Raised
<1>7. PICK y : y = Then(x, e, When(raised, "rateFlood", "rateFlood", p.src))
  OBVIOUS
<1>8. y = FeedRate(Before, p, at)
  <2>1. When(raised, "rateFlood", "rateFlood", p.src) = When(Raised(open, v), "rateFlood", "rateFlood", p.src)
    BY <1>6 DEF When
  <2>2. open = OpenStorm(x.e.rates, p.src, at) /\ e = [x.e EXCEPT !.rates = Put(x.e.rates, p.src, v)]
    BY <1>2, <1>3, <1>4
  <2>3. FeedRate(x, p, at) = Then(x, e, When(Raised(open, v), "rateFlood", "rateFlood", p.src))
    BY <1>3, <2>2 DEF FeedRate
  <2>4. QED BY <1>1, <1>7, <2>1, <2>3
<1>9. y.e = e /\ OfEvents(y.alerts) /\ \A k, z : Rung(y.alerts, k, z) <=> raised /\ k = "rateFlood" /\ z = p.src
  <2>1. Raises(x, n, e, raised, "rateFlood", "rateFlood", p.src, y)
    BY <1>2, <1>7 DEF Raises, EthEvents
  <2>2. QED BY ONLY <2>1, FirstRings
<1>10. /\ y.e.rates = Put(eth.rates, p.src, v) /\ y.e.storms = eth.storms /\ y.e.bindings = eth.bindings
       /\ \A k : Rung(y.alerts, "rateFlood", k) <=> Raised(open, v) /\ k = p.src
       /\ \A k : ~Rung(y.alerts, "arpStorm", k)
       /\ OfEvents(y.alerts)
  BY <1>5, <1>6, <1>9
<1>11. RateFed(p, at, y)
  BY <1>3, <1>10 DEF RateFed
<1>12. ScanLeft(y)
  BY <1>5, <1>9 DEF ScanLeft
<1>13. QED BY <1>8, <1>11, <1>12

\* What is beside the windows keeps it so.
LEMMA BesideFed ==
    ASSUME NEW p, NEW at, NEW x, NEW y
    PROVE  /\ RateFed(p, at, x) /\ Beside(x, y) => RateFed(p, at, y)
           /\ ScanLeft(x) /\ Aside(x, y) => ScanLeft(y)
<1>1. ASSUME RateFed(p, at, x), Beside(x, y) PROVE RateFed(p, at, y)
  <2>1. PICK open, v :
            /\ open = OpenStorm(eth.rates, p.src, at) /\ v = Counted(open, EthLimit("rateFlood"))
            /\ x.e.rates = Put(eth.rates, p.src, v)
            /\ \A k : Rung(x.alerts, "rateFlood", k) <=> Raised(open, v) /\ k = p.src
    BY <1>1 DEF RateFed
  <2>2. /\ y.e.rates = Put(eth.rates, p.src, v) /\ y.e.storms = eth.storms /\ y.e.bindings = eth.bindings
        /\ \A k : Rung(y.alerts, "rateFlood", k) <=> Raised(open, v) /\ k = p.src
        /\ \A k : ~Rung(y.alerts, "arpStorm", k)
        /\ OfEvents(y.alerts)
    BY <1>1, <2>1 DEF RateFed, Beside
  <2>3. QED BY <2>1, <2>2 DEF RateFed
<1>2. ScanLeft(x) /\ Aside(x, y) => ScanLeft(y)
  BY DEF ScanLeft, Aside
<1>3. QED BY <1>1, <1>2

\* FeedScan, of a SYN or not.
LEMMA ScanCounts ==
    ASSUME NEW n, NEW x, Work(x, n), ScanLeft(x), NEW p, p.kind = "tcp", p.src \notin Trusted, NEW at
    PROVE  LET s == FeedScan(x, p, at) IN ScanMoves(p, at, eth.scans, s.e.scans, s.alerts)
<1>1. PICK s : s = FeedScan(x, p, at)
  OBVIOUS
<1>2. CASE "SYN" \notin p.flags \/ "RST" \in p.flags
  <2>1. s = x /\ ~Scanned(p)
    BY <1>1, <1>2 DEF FeedScan, Scanned
  <2>2. QED BY <1>1, <2>1 DEF ScanMoves, ScanLeft
<1>3. CASE ~("SYN" \notin p.flags \/ "RST" \in p.flags)
  <2>1. Scanned(p)
    BY <1>3 DEF Scanned
  <2>2. PICK entry, old, left, syns, limit :
            /\ entry = At(eth.scans, p.src, NewScan) /\ old = entry.events
            /\ left = Recent(old, at)
            /\ syns = Append(left, [at |-> at, port |-> p.dport])
            /\ limit = EthLimit("portScan")
    OBVIOUS
  <2>3. PICK armed, raised :
            /\ armed = (~entry.alerted \/ Cardinality({left[i].port : i \in DOMAIN left}) < limit)
            /\ raised = (armed /\ Cardinality({syns[i].port : i \in DOMAIN syns}) >= limit)
    OBVIOUS
  <2>4. raised \in BOOLEAN /\ (raised => Cardinality({syns[i].port : i \in DOMAIN syns}) >= limit)
    BY <2>3
  <2>5. PICK alerted : alerted = (~armed \/ raised)
    OBVIOUS
  <2>6. PICK e : e = [x.e EXCEPT !.scans = Put(x.e.scans, p.src, [events |-> syns, alerted |-> alerted])]
    OBVIOUS
  <2>7. s = Then(x, e, When(raised, "portScan", "portScan", p.src))
    <3>1. x.e.scans = eth.scans
      BY DEF ScanLeft
    <3>2. entry = At(x.e.scans, p.src, [events |-> <<>>, alerted |-> FALSE])
      BY <2>2, <3>1 DEF NewScan
    <3>3. QED
      <4>1. When(raised, "portScan", "portScan", p.src) =
            When(armed /\ Cardinality({syns[i].port : i \in DOMAIN syns}) >= limit, "portScan", "portScan", p.src)
        BY <2>3 DEF When
      <4>2. FeedScan(x, p, at) =
                Then(x, e, When(armed /\ Cardinality({syns[i].port : i \in DOMAIN syns}) >= limit,
                                "portScan", "portScan", p.src))
        BY <1>3, <2>2, <2>3, <2>5, <2>6, <3>2, ZenonT(60) DEF FeedScan
      <4>3. QED BY <1>1, <4>1, <4>2
  <2>8. PICK alerts : alerts = When(raised, "portScan", "portScan", p.src)
    OBVIOUS
  <2>9. IsSeq(alerts) /\ \A k, z : Rung(alerts, k, z) <=> raised /\ k = "portScan" /\ z = p.src
    BY <2>8, WhenRings
  <2>10. s.e = e /\ s.alerts = x.alerts \o alerts
    BY <2>7, <2>8 DEF Then, Work
  <2>11. \A k, z : Rung(s.alerts, k, z) <=> Rung(x.alerts, k, z) \/ Rung(alerts, k, z)
    BY <2>9, <2>10, JoinedRings DEF Work
  <2>12. \A k : Rung(s.alerts, "portScan", k) <=> raised /\ k = p.src
    BY <2>9, <2>11 DEF ScanLeft
  <2>13. s.e.scans = Put(eth.scans, p.src, [events |-> syns, alerted |-> alerted])
    <3>1. e.scans = Put(x.e.scans, p.src, [events |-> syns, alerted |-> alerted])
      BY <2>6 DEF Work, EthKept
    <3>2. QED BY <2>10, <3>1 DEF ScanLeft
  <2>14. ScanMoves(p, at, eth.scans, s.e.scans, s.alerts)
    <3>1. SynMoves(p, at, eth.scans, s.e.scans, s.alerts, old, left, syns, raised, alerted)
      BY <2>2, <2>4, <2>12, <2>13 DEF SynMoves
    <3>2. QED BY <2>1, <3>1 DEF ScanMoves
  <2>15. QED BY <1>1, <2>14
<1>4. QED BY <1>2, <1>3

\* A frame that counts for nothing is of no window.
LEMMA NothingMoves ==
    ASSUME NEW p, NEW at, NEW x, x.alerts = <<>>, x.e.rates = eth.rates, x.e.storms = eth.storms,
           x.e.scans = eth.scans, p.kind = "arp" \/ p.src \in Trusted,
           p.kind # "arp" => x.e.bindings = eth.bindings,
           p.kind = "arp" => /\ x.e.bindings = Put(eth.bindings, p.src, p.mac)
                             /\ p.gratuitous => p.src \in DOMAIN eth.bindings /\ eth.bindings[p.src] # p.mac
    PROVE  FrameDoes(p, at, x)
<1>1. IsSeq(x.alerts) /\ OfEvents(x.alerts) /\ \A kind, key : ~Rung(x.alerts, kind, key)
  BY NoneRings DEF OfEvents, EventsIn
<1>2. ~Scanned(p)
  BY DEF Scanned
<1>3. ScanMoves(p, at, eth.scans, x.e.scans, x.alerts)
  BY <1>1, <1>2 DEF ScanMoves
<1>4. QED BY <1>1, <1>3 DEF FrameDoes, WindowMoves

\* An ARP frame.
LEMMA ArpDoes ==
    ASSUME NEW n, Work(Before, n), NEW p, p.kind = "arp", NEW at
    PROVE  FrameDoes(p, at, FeedArp(Before, p, at))
<1>1. PICK x : x = Before
  OBVIOUS
<1>2. Work(x, n) /\ x.e = eth /\ x.alerts = <<>>
  BY <1>1 DEF Before
<1>3. PICK changed \in BOOLEAN : changed = (p.src \in DOMAIN eth.bindings /\ eth.bindings[p.src] # p.mac)
  OBVIOUS
<1>4. PICK bound : bound = [eth EXCEPT !.bindings = Put(eth.bindings, p.src, p.mac)]
  OBVIOUS
<1>5. /\ bound.rates = eth.rates /\ bound.storms = eth.storms /\ bound.scans = eth.scans
      /\ bound.bindings = Put(eth.bindings, p.src, p.mac) /\ DOMAIN bound = DOMAIN eth
  BY <1>2, <1>4 DEF Work, EthKept
<1>6. PICK y : y = FeedArp(Before, p, at)
  OBVIOUS
<1>7. CASE changed
  <2>1. PICK raised : raised = TRUE
    OBVIOUS
  <2>2. y = Then(x, bound, When(raised, "arp", "binding", p.src))
    BY <1>1, <1>2, <1>3, <1>4, <1>6, <1>7, <2>1 DEF FeedArp
  <2>3. Raises(x, n, bound, raised, "arp", "binding", p.src, y)
    BY <1>2, <2>1, <2>2 DEF Raises, EthEvents
  <2>4. y.e = bound /\ IsSeq(y.alerts) /\ OfEvents(y.alerts) /\ \A k, z : Rung(y.alerts, k, z) <=> raised /\ k = "binding" /\ z = p.src
    BY ONLY <2>3, FirstRings
  <2>5. ~Scanned(p) /\ \A k : ~Rung(y.alerts, "portScan", k) /\ ~Rung(y.alerts, "rateFlood", k) /\ ~Rung(y.alerts, "arpStorm", k)
    BY <2>4 DEF Scanned
  <2>6. FrameDoes(p, at, y)
    BY <1>3, <1>5, <1>7, <2>4, <2>5 DEF FrameDoes, WindowMoves, ScanMoves
  <2>7. QED BY <1>6, <2>6
<1>8. CASE ~changed /\ ~p.gratuitous
  <2>1. y = Then(x, bound, <<>>)
    BY <1>1, <1>2, <1>3, <1>4, <1>6, <1>8 DEF FeedArp
  <2>2. y.e = bound /\ y.alerts = <<>>
    <3>1. <<>> \o <<>> = <<>>
      OBVIOUS
    <3>2. QED BY <1>2, <2>1, <3>1 DEF Then, Work
  <2>3. FrameDoes(p, at, y)
    BY <1>5, <1>8, <2>2, NothingMoves
  <2>4. QED BY <1>6, <2>3
<1>9. CASE ~changed /\ p.gratuitous
  <2>1. PICK open, v : open = OpenStorm(eth.storms, p.mac, at) /\ v = Counted(open, EthLimit("arpStorm"))
    OBVIOUS
  <2>2. PICK e : e = [bound EXCEPT !.storms = Put(bound.storms, p.mac, v)]
    OBVIOUS
  <2>3. /\ e.rates = eth.rates /\ e.storms = Put(eth.storms, p.mac, v) /\ e.scans = eth.scans
        /\ e.bindings = Put(eth.bindings, p.src, p.mac)
    BY <1>2, <1>5, <2>2 DEF Work, EthKept
  <2>4. PICK raised \in BOOLEAN : raised = Raised(open, v)
    BY DEF Raised
  <2>5. When(raised, "arp", "arpStorm", p.mac) = When(Raised(open, v), "arp", "arpStorm", p.mac)
    BY <2>4 DEF When
  <2>6. y = Then(x, e, When(Raised(open, v), "arp", "arpStorm", p.mac))
    BY <1>1, <1>2, <1>3, <1>4, <1>6, <1>9, <2>1, <2>2 DEF FeedArp
  <2>7. Raises(x, n, e, raised, "arp", "arpStorm", p.mac, y)
    BY <1>2, <2>5, <2>6 DEF Raises, EthEvents
  <2>71. y.e = e /\ \A k, z : Rung(y.alerts, k, z) <=> raised /\ k = "arpStorm" /\ z = p.mac
    BY ONLY <2>7, FirstRings, Z3
  <2>72. IsSeq(y.alerts) /\ OfEvents(y.alerts)
    BY ONLY <2>7, FirstRings
  <2>8. y.e = e /\ IsSeq(y.alerts) /\ OfEvents(y.alerts) /\ \A k, z : Rung(y.alerts, k, z) <=> raised /\ k = "arpStorm" /\ z = p.mac
    BY <2>71, <2>72
  <2>9. /\ ~Scanned(p) /\ \A k : ~Rung(y.alerts, "portScan", k) /\ ~Rung(y.alerts, "rateFlood", k)
        /\ \A k : Rung(y.alerts, "arpStorm", k) <=> Raised(open, v) /\ k = p.mac
    BY <2>4, <2>8 DEF Scanned
  <2>10. FrameDoes(p, at, y)
    <3>1. y.e.storms = Put(eth.storms, p.mac, v) /\ y.e.rates = eth.rates /\ y.e.scans = eth.scans
          /\ y.e.bindings = Put(eth.bindings, p.src, p.mac)
      BY <2>3, <2>8
    <3>2. PICK counts \in BOOLEAN :
            counts = (/\ p.kind = "arp" /\ p.gratuitous
                      /\ ~(p.src \in DOMAIN eth.bindings /\ eth.bindings[p.src] # p.mac))
      OBVIOUS
    <3>3. counts
      BY <1>3, <1>9, <3>2
    <3>4. WindowMoves("arpStorm", counts, p.mac, at, eth.storms, y.e.storms, y.alerts)
      BY <2>1, <2>9, <3>1, <3>3 DEF WindowMoves
    <3>5. WindowMoves("rateFlood", FALSE, p.src, at, eth.rates, y.e.rates, y.alerts)
      BY <2>9, <3>1 DEF WindowMoves
    <3>6. WindowMoves("rateFlood", p.kind # "arp" /\ p.src \notin Trusted, p.src, at,
                      eth.rates, y.e.rates, y.alerts)
      BY <3>5 DEF WindowMoves
    <3>7. ScanMoves(p, at, eth.scans, y.e.scans, y.alerts)
      BY <2>9, <3>1 DEF ScanMoves
    <3>8. QED BY <2>8, <3>1, <3>2, <3>4, <3>6, <3>7 DEF FrameDoes
  <2>11. QED BY <1>6, <2>10
<1>10. QED BY <1>7, <1>8, <1>9

\* A frame of a trusted source.
LEMMA TrustedDoes ==
    ASSUME NEW p, p.kind # "arp", p.src \in Trusted, NEW at
    PROVE  FrameDoes(p, at, Before)
<1>1. PICK x : x = Before
  OBVIOUS
<1>2. x.e = eth /\ x.alerts = <<>>
  BY <1>1 DEF Before
<1>3. QED BY <1>1, <1>2, NothingMoves

\* The windows of a packet after FeedRate and FeedCrossing.
LEMMA FromIpCounts ==
    ASSUME NEW n, Work(Before, n), scenario \in Scenarios, scenario.probe = "eth", NEW p, NEW at
    PROVE  /\ Work(FromIp(p, at), n)
           /\ RateFed(p, at, FromIp(p, at)) /\ ScanLeft(FromIp(p, at))
<1>1. IsSeq(scenario.rules)
  BY ScenarioAssumption DEF IsSeq
<1>2. PICK x : x = FeedRate(Before, p, at) /\ Work(x, n)
  BY <1>1, DetectorsKept
<1>3. RateFed(p, at, x) /\ ScanLeft(x)
  BY <1>2, RateCounts
<1>4. PICK y : y = FeedCrossing(x, p, at) /\ Work(y, n) /\ Aside(x, y)
  BY <1>1, <1>2, DetectorsKept, DetectorsAside
<1>5. RateFed(p, at, y) /\ ScanLeft(y)
  BY <1>3, <1>4, BesideFed, AsideChains
<1>6. QED BY <1>2, <1>4, <1>5 DEF FromIp

\* What a packet does, by what its handling has done.
LEMMA PacketMoves ==
    ASSUME NEW p, p.kind # "arp", p.src \notin Trusted, NEW at, NEW x, IsSeq(x.alerts), RateFed(p, at, x),
           p.frag = NoFragment => ScanMoves(p, at, eth.scans, x.e.scans, x.alerts)
    PROVE  FrameDoes(p, at, x)
<1>1. WindowMoves("rateFlood", p.kind # "arp" /\ p.src \notin Trusted, p.src, at,
                  eth.rates, x.e.rates, x.alerts)
  BY DEF RateFed, WindowMoves
<1>2. QED BY <1>1 DEF FrameDoes, RateFed, WindowMoves

\* A packet.
LEMMA PacketDoes ==
    ASSUME NEW n, Work(Before, n), scenario \in Scenarios, scenario.probe = "eth",
           NEW p, IsPacket(p), p.kind # "arp", p.src \notin Trusted, NEW at,
           IsSeq(HandleL4(FromIp(p, at), p, at).alerts)
    PROVE  FrameDoes(p, at, HandleL4(FromIp(p, at), p, at))
<1>1. PICK x : x = FromIp(p, at) /\ Work(x, n) /\ RateFed(p, at, x) /\ ScanLeft(x)
  BY FromIpCounts
<1>2. PICK z : z = HandleL4(x, p, at)
  OBVIOUS
<1>3. RateFed(p, at, z)
  <2>1. Beside(x, z)
    BY <1>1, <1>2, HandleL4Beside
  <2>2. QED BY <1>1, <2>1, BesideFed
<1>4. ScanMoves(p, at, eth.scans, z.e.scans, z.alerts)
  <2>1. CASE p.kind = "tcp"
    <3>1. PICK y : Work(y, n) /\ Aside(x, y) /\ Aside(FeedScan(y, p, at), HandleTcp(x, p, at))
      BY <1>1, HandleTcpAside
    <3>2. PICK s : s = FeedScan(y, p, at)
      OBVIOUS
    <3>3. ScanLeft(y)
      BY <1>1, <3>1, BesideFed
    <3>4. ScanMoves(p, at, eth.scans, s.e.scans, s.alerts)
      BY <2>1, <3>1, <3>2, <3>3, ScanCounts
    <3>5. z = HandleTcp(x, p, at)
      BY <1>2, <2>1 DEF HandleL4
    <3>6. z.e.scans = s.e.scans /\ \A k : Rung(z.alerts, "portScan", k) <=> Rung(s.alerts, "portScan", k)
      BY <3>1, <3>2, <3>5 DEF Aside
    <3>7. CASE Scanned(p)
      <4>1. PICK old, left, syns, raised, alerted :
                SynMoves(p, at, eth.scans, s.e.scans, s.alerts, old, left, syns, raised, alerted)
        BY <3>4, <3>7 DEF ScanMoves
      <4>2. SynMoves(p, at, eth.scans, z.e.scans, z.alerts, old, left, syns, raised, alerted)
        BY <3>6, <4>1 DEF SynMoves
      <4>3. QED BY <3>7, <4>2 DEF ScanMoves
    <3>8. CASE ~Scanned(p)
      BY <3>4, <3>6, <3>8 DEF ScanMoves
    <3>9. QED BY <3>7, <3>8
  <2>2. CASE p.kind # "tcp"
    <3>1. ScanLeft(z)
      <4>1. Aside(x, z)
        BY <1>1, <1>2, <2>2, HandleL4Beside
      <4>2. QED BY <1>1, <4>1, BesideFed
    <3>2. ~Scanned(p)
      BY <2>2 DEF Scanned
    <3>3. QED BY <3>1, <3>2 DEF ScanMoves, ScanLeft
  <2>3. QED BY <2>1, <2>2
<1>5. QED BY <1>1, <1>2, <1>3, <1>4, PacketMoves

\* A fragment.
LEMMA FragmentDoes ==
    ASSUME NEW n \in Nat, Work(Before, n), scenario \in Scenarios, scenario.probe = "eth",
           NEW p, p.kind # "arp", p.src \notin Trusted, p.frag # NoFragment, NEW at,
           NEW r, DefragResult(r, n), \A i \in 1..n : IsPacket(traffic'[i].input),
           IsSeq(HandleFragment(FromIp(p, at), at, r).alerts)
    PROVE  FrameDoes(p, at, HandleFragment(FromIp(p, at), at, r))
<1>1. PICK x : x = FromIp(p, at) /\ Work(x, n) /\ RateFed(p, at, x)
  BY FromIpCounts
<1>2. PICK z : z = HandleFragment(x, at, r)
  OBVIOUS
<1>3. Beside(x, z)
  BY <1>1, <1>2, FragmentBeside
<1>4. RateFed(p, at, z)
  BY <1>1, <1>3, BesideFed
<1>5. QED BY <1>1, <1>2, <1>4, PacketMoves

-----------------------------------------------------------------------------
\* The steps of the Ethernet probe.

\* A frame, and what its handling x has made.
FrameDone(p, at, n, x) ==
    /\ FrameComes(p, at, n) /\ FrameDoes(p, at, x) /\ Report(x.alerts, at)
    /\ eth'.rates = x.e.rates /\ eth'.storms = x.e.storms
    /\ eth'.bindings = x.e.bindings /\ eth'.scans = x.e.scans

\* The windows of rates.
LEMMA RatesWatch ==
    ASSUME NEW p, NEW at, NEW n, NEW x, FrameDone(p, at, n, x)
    PROVE  /\ \A key : EthWatch("rateFlood", key, eth.rates)'
           /\ \A key \in DOMAIN eth'.rates : eth'.rates[key] \in CounterType
<1>1. PICK windows, more, alerts : windows = eth.rates /\ more = eth'.rates /\ alerts = x.alerts
  OBVIOUS
<1>2. PICK counts \in BOOLEAN : counts = (p.kind # "arp" /\ p.src \notin Trusted)
  OBVIOUS
<1>3. WindowMoves("rateFlood", counts, p.src, at, windows, more, alerts)
  BY <1>1, <1>2 DEF FrameDone, FrameDoes, WindowMoves
<1>4. /\ FrameComes(p, at, n) /\ IsSeq(alerts) /\ Report(alerts, at)
      /\ \A k \in DOMAIN windows : windows[k] \in CounterType
      /\ \A k : EthWatch("rateFlood", k, windows)
  BY <1>1 DEF FrameDone, FrameDoes, FrameComes, EthFloods, EthTyped
<1>5. \A k : k \in Counts("rateFlood", n + 1)' <=> counts /\ k = p.src
  BY <1>2, <1>4, NewCounts
<1>6. WindowGiven("rateFlood", counts, p.src, p, at, n, windows, more, alerts)
  BY <1>3, <1>4, <1>5 DEF WindowGiven
<1>7. (\A k : EthWatch("rateFlood", k, more)') /\ \A k \in DOMAIN more : more[k] \in CounterType
  BY ONLY <1>6, WindowsWatch
<1>8. QED BY <1>1, <1>7 DEF EthWatch

\* The windows of gratuitous ARP.
LEMMA StormsWatch ==
    ASSUME NEW p, NEW at, NEW n, NEW x, FrameDone(p, at, n, x)
    PROVE  /\ \A key : EthWatch("arpStorm", key, eth.storms)'
           /\ \A key \in DOMAIN eth'.storms : eth'.storms[key] \in CounterType
<1>1. PICK windows, more, alerts : windows = eth.storms /\ more = eth'.storms /\ alerts = x.alerts
  OBVIOUS
<1>2. PICK counts \in BOOLEAN :
        counts = (/\ p.kind = "arp" /\ p.gratuitous
                  /\ ~(p.src \in DOMAIN eth.bindings /\ eth.bindings[p.src] # p.mac))
  OBVIOUS
<1>3. WindowMoves("arpStorm", counts, p.mac, at, windows, more, alerts)
  BY <1>1, <1>2 DEF FrameDone, FrameDoes, WindowMoves
<1>4. /\ FrameComes(p, at, n) /\ IsSeq(alerts) /\ Report(alerts, at)
      /\ \A k \in DOMAIN windows : windows[k] \in CounterType
      /\ \A k : EthWatch("arpStorm", k, windows)
  BY <1>1 DEF FrameDone, FrameDoes, FrameComes, EthFloods, EthTyped
<1>5. \A k : k \in Counts("arpStorm", n + 1)' <=> counts /\ k = p.mac
  BY <1>2, <1>4, NewCounts
<1>6. WindowGiven("arpStorm", counts, p.mac, p, at, n, windows, more, alerts)
  BY <1>3, <1>4, <1>5 DEF WindowGiven
<1>7. (\A k : EthWatch("arpStorm", k, more)') /\ \A k \in DOMAIN more : more[k] \in CounterType
  BY ONLY <1>6, WindowsWatch
<1>8. QED BY <1>1, <1>7 DEF EthWatch

\* Every window of the Ethernet probe.
LEMMA EthWatches ==
    ASSUME NEW p, NEW at, NEW n, NEW x, FrameDone(p, at, n, x)
    PROVE  EthFloods'
<1>1. FrameComes(p, at, n) /\ FrameDoes(p, at, x) /\ IsSeq(x.alerts) /\ Report(x.alerts, at)
  BY DEF FrameDone, FrameDoes
<1>2. EthTyped'
  BY RatesWatch, StormsWatch DEF EthTyped
<1>3. \A key : EthWatch("rateFlood", key, eth.rates)' /\ EthWatch("arpStorm", key, eth.storms)'
  BY RatesWatch, StormsWatch
<1>4. \A addr : Bound(addr)'
  <2>1. eth'.bindings = IF p.kind = "arp" THEN Put(eth.bindings, p.src, p.mac) ELSE eth.bindings
    BY DEF FrameDone, FrameDoes
  <2>2. QED BY <1>1, <2>1, BoundGoesOn
<1>5. ASSUME Unfragmented' PROVE \A key : ScanWatch(key)'
  <2>1. /\ n \in Nat /\ DOMAIN traffic = 1..n /\ DOMAIN traffic' = 1..(n + 1)
        /\ \A i \in 1..n : traffic'[i] = traffic[i]
        /\ traffic'[n + 1].input = p
    BY <1>1, FrameArrives
  <2>2. Unfragmented /\ p.frag = NoFragment
    BY <1>5, <2>1 DEF Unfragmented
  <2>3. ScanMoves(p, at, eth.scans, eth'.scans, x.alerts)
    BY <2>2 DEF FrameDone, FrameDoes
  <2>4. PICK alerts : alerts = x.alerts
    OBVIOUS
  <2>5. /\ FrameComes(p, at, n) /\ IsSeq(alerts) /\ Report(alerts, at)
        /\ ScanMoves(p, at, eth.scans, eth'.scans, alerts) /\ Unfragmented
    BY <1>1, <2>2, <2>3, <2>4
  <2>6. QED BY ONLY <2>5, ScansWatch
<1>6. QED BY <1>2, <1>3, <1>4, <1>5 DEF EthFloods

\* The handling of a frame, and what is left of it.
LEMMA FrameHandled ==
    ASSUME EthInv, scenario.probe = "eth", NEW p \in scenario.inputs, NEW at, Capture(p, at),
           FeedTrusted(p, at) \/ FeedArpFrame(p, at) \/ FeedFragment(p, at) \/ FeedPacket(p, at)
    PROVE  \E x, n : Work(x, n) /\ FrameDoes(p, at, x) /\ Fold(x, at)
<1>1. PICK n \in Nat \ {0} :
        /\ n = Len(traffic') /\ DOMAIN traffic' = 1..n /\ IsSeq(traffic')
        /\ \A i \in 1..n : IsPacket(traffic'[i].input)
        /\ EthKept(eth, n, lives) /\ IsPacket(p) /\ scenario' = scenario
  BY TrafficGrows
<1>2. scenario \in Scenarios /\ IsSeq(scenario.rules)
  BY ScenarioAssumption DEF EthInv, IsSeq
<1>3. Work(Before, n) /\ n \in Nat
  BY <1>1, BeforeIsWork DEF EthInv
<1>4. CASE FeedTrusted(p, at)
  <2>1. FrameDoes(p, at, Before)
    BY <1>4, TrustedDoes DEF FeedTrusted, IsTrusted
  <2>2. QED BY <1>3, <1>4, <2>1 DEF FeedTrusted
<1>5. CASE FeedArpFrame(p, at)
  <2>1. Work(FeedArp(Before, p, at), n)
    BY <1>2, <1>3, DetectorsKept
  <2>2. FrameDoes(p, at, FeedArp(Before, p, at))
    BY <1>3, <1>5, ArpDoes DEF FeedArpFrame
  <2>3. QED BY <1>5, <2>1, <2>2 DEF FeedArpFrame
<1>6. CASE FeedFragment(p, at)
  <2>1. DefragResult(FragmentResult(p, at), n)
    BY <1>1, FragmentResultKept
  <2>2. PICK r : r = FragmentResult(p, at) /\ DefragResult(r, n)
    BY <2>1
  <2>3. Work(FromIp(p, at), n)
    BY <1>2, <1>3, FromIpCounts
  <2>4. Work(HandleFragment(FromIp(p, at), at, r), n)
    BY <1>1, <1>2, <1>3, <2>2, <2>3, HandleFragmentKept
  <2>5. IsSeq(HandleFragment(FromIp(p, at), at, r).alerts)
    BY <2>4 DEF Work
  <2>6. FrameDoes(p, at, HandleFragment(FromIp(p, at), at, r))
    BY <1>1, <1>2, <1>3, <1>6, <2>2, <2>5, FragmentDoes DEF FeedFragment, IsTrusted
  <2>7. QED BY <1>6, <2>2, <2>4, <2>6 DEF FeedFragment
<1>7. CASE FeedPacket(p, at)
  <2>1. Work(FromIp(p, at), n)
    BY <1>2, <1>3, FromIpCounts
  <2>2. Work(HandleL4(FromIp(p, at), p, at), n)
    BY <1>1, <1>2, <2>1, HandleL4Kept
  <2>3. IsSeq(HandleL4(FromIp(p, at), p, at).alerts)
    BY <2>2 DEF Work
  <2>4. FrameDoes(p, at, HandleL4(FromIp(p, at), p, at))
    BY <1>1, <1>2, <1>3, <1>7, <2>3, PacketDoes DEF FeedPacket, IsTrusted
  <2>5. QED BY <1>7, <2>2, <2>4 DEF FeedPacket
<1>8. QED BY <1>4, <1>5, <1>6, <1>7

\* A frame keeps the invariant.
LEMMA EthFloodsStep ==
    ASSUME FloodInv, EthInv, EngineInv, HostInv, EthNext,
           scenario.live \/ TimesInOrder'
    PROVE  FloodInv'
<1>1. scenario.probe = "eth" /\ FeedEthernet /\ UNCHANGED <<can, hostVars>>
  BY DEF EthNext
<1>2. PICK p \in scenario.inputs, at \in TimeStamps :
        /\ Capture(p, at)
        /\ FeedTrusted(p, at) \/ FeedArpFrame(p, at) \/ FeedFragment(p, at) \/ FeedPacket(p, at)
  BY <1>1 DEF FeedEthernet
<1>3. Recorded /\ EthFloods /\ clock \in Nat /\ scan.stamp \in Nat
  BY <1>1 DEF FloodInv, EngineInv, EngineTyped, HostInv, HostTyped
<1>4. scenario' = scenario /\ clock' = clock /\ Fed(p, at)
  BY <1>2 DEF Capture, mainVars
<1>5. Arrives(p, at) /\ (scenario.live => at <= clock)
  BY <1>3, <1>4, StampsArrive
<1>6. PICK x, m : Work(x, m) /\ FrameDoes(p, at, x) /\ Fold(x, at)
  BY <1>1, <1>2, FrameHandled
<1>7. PICK n : n = Len(traffic)
  OBVIOUS
<1>8. FrameComes(p, at, n)
  BY <1>1, <1>3, <1>5, <1>7 DEF FrameComes
<1>9. /\ eth'.rates = x.e.rates /\ eth'.storms = x.e.storms
      /\ eth'.bindings = x.e.bindings /\ eth'.scans = x.e.scans
  <2>1. PICK e : e = x.e /\ EthKept(e, m, x.lives)
    BY <1>6 DEF Work
  <2>2. eth' = Ticked(e, at)
    BY <1>6, <2>1 DEF Fold
  <2>3. QED BY <2>1, <2>2 DEF Ticked, EthKept
<1>10. FrameDone(p, at, n, x)
  BY <1>6, <1>8, <1>9 DEF FrameDone, Fold
<1>11. EthFloods'
  BY <1>10, EthWatches
<1>12. IsSeq(alarms')
  BY <1>1, <1>3, FrameKept, AlarmsAreSeq
<1>13. scan' = scan /\ netlink' = netlink
  BY <1>1 DEF hostVars, captureVars
<1>14. Recorded'
  BY <1>1, <1>3, <1>4, <1>5, <1>12, <1>13, RecordedGrows
<1>15. QED BY <1>1, <1>4, <1>11, <1>14 DEF FloodInv

-----------------------------------------------------------------------------
\* The start, and the theorem.

\* A window when nothing has come yet.
LEMMA NothingWatched ==
    ASSUME NEW width \in Nat \ {0}, NEW limit \in Nat, NEW unset \in Int
    PROVE  Watching({}, {}, {}, width, limit, unset, unset, 0, FALSE)
<1>1. \A s : Since({}, s) = {} /\ \A r : Between({}, r, s) = {}
  BY DEF Since, Between
<1>2. Cardinality({}) = 0 /\ IsFiniteSet({})
  BY FS_EmptySet
<1>3. Window({}, {}, width, limit, unset, 0, FALSE)
  <2>1. Cardinality(Since({}, unset)) = 0
    BY <1>1, <1>2
  <2>2. QED BY <2>1 DEF Window
<1>4. Prior({}, {}, width, limit, unset)
  <2>1. PICK s \in Int : s = unset - width
    OBVIOUS
  <2>2. s + width <= unset
    BY <2>1
  <2>3. ~(limit > 0 /\ Cardinality(Between({}, s, unset)) >= limit)
    BY <1>1, <1>2
  <2>4. QED BY <2>2, <2>3 DEF Prior
<1>5. History({}, {}, {})
  BY <1>2 DEF History
<1>6. QED BY <1>3, <1>4, <1>5 DEF Watching, Noticed, Real

\* Nothing has come at the start.
LEMMA FloodStarts ==
    ASSUME Init
    PROVE  FloodInv
<1>1. scenario \in Scenarios /\ traffic = <<>> /\ alarms = <<>>
  BY DEF Init, InitMain
<1>2. Stamps = {} /\ \A kind, key : Came(kind, key) = {} /\ Rang(kind, key) = {}
  BY <1>1 DEF Stamps, Came, Rang
<1>3. ASSUME NEW kind \in DOMAIN scenario.limits, NEW key, NEW unset \in Int
      PROVE  Watches(kind, key, unset, unset, 0, FALSE)
  <2>1. PICK width, limit : width = Width(kind) /\ limit = scenario.limits[kind]
    OBVIOUS
  <2>2. width \in Nat \ {0} /\ limit \in Nat
    BY <1>1, <2>1, Limits
  <2>3. Watching({}, {}, {}, width, limit, unset, unset, 0, FALSE)
    BY <2>2, NothingWatched
  <2>4. QED BY <1>2, <2>1, <2>3 DEF Watches
<1>4. Counter(0) \in CounterType /\ Counter(NotOpen) \in CounterType
  BY DEF Counter, CounterType, NotOpen
<1>5. /\ OfCounter(Counter(0)) = State(0, 0, FALSE)
      /\ OfCounter(Counter(NotOpen)) = State(NotOpen, 0, FALSE)
      /\ \A unset : State(unset, 0, FALSE).start = unset /\ State(unset, 0, FALSE).n = 0
                    /\ State(unset, 0, FALSE).alerted = FALSE
  BY DEF OfCounter, Counter, State, NotOpen
<1>6. Recorded
  <2>1. IsSeq(<<>>)
    BY SingleSeq
  <2>2. clock = 1 /\ scan.stamp = 0
    BY DEF Init, InitMain, InitHost
  <2>3. DOMAIN traffic = {}
    BY <1>1
  <2>4. QED BY <1>1, <1>2, <2>1, <2>2, <2>3 DEF Recorded
<1>7. ASSUME scenario.probe = "can" PROVE CanFloods
  <2>1. PICK c : c = can
    OBVIOUS
  <2>2. /\ DOMAIN c = {"cycle", "ids", "bus", "errs", "diag", "sec", "scan"}
        /\ c.ids = [i \in CanIds |-> Counter(0)] /\ c.bus = Counter(0) /\ c.errs = Counter(0)
        /\ c.diag = [i \in DiagRequests |-> Counter(0)]
        /\ c.sec = [i \in DiagRequests |-> SecAccess] /\ c.scan = [i \in DiagRequests |-> Distinct(0)]
    BY <2>1 DEF Init, InitCan
  <2>3. SecAccess \in SecType /\ SecAccess.start = 0 /\ SecAccess.seeds = 0 /\ SecAccess.keys = 0
        /\ SecAccess.seed_alerted = FALSE /\ SecAccess.key_alerted = FALSE
    BY DEF SecAccess, SecType
  <2>4. IsScan(Distinct(0)) /\ Distinct(0).start = 0 /\ Distinct(0).things = {} /\ Distinct(0).alerted = FALSE
    BY DEF IsScan, Distinct
  <2>5. CanTyped
    BY <1>4, <2>1, <2>2, <2>3, <2>4 DEF CanTyped
  <2>6. ASSUME NEW kind \in CanKinds, NEW key PROVE CanWatch(kind, key)
    <3>1. CanState(kind, key) = State(0, 0, FALSE)
      <4>1. Cardinality({}) = 0
        BY FS_EmptySet
      <4>2. QED BY <1>5, <2>1, <2>2, <2>3, <2>4, <4>1 DEF CanState
    <3>2. kind \in DOMAIN scenario.limits
      BY <1>1, <1>7, Limits
    <3>3. Watches(kind, key, 0, 0, 0, FALSE)
      <4>1. PICK unset \in Int : unset = 0
        OBVIOUS
      <4>2. Watches(kind, key, unset, unset, 0, FALSE)
        BY <1>3, <3>2
      <4>3. QED BY <4>1, <4>2
    <3>4. PICK w : w = CanState(kind, key)
      OBVIOUS
    <3>5. Watches(kind, key, 0, w.start, w.n, w.alerted)
      BY <1>5, <3>1, <3>3, <3>4
    <3>6. key \in DiagRequests => can.scan[key].things = Since(Came("svcScan", key), w.start)
      <4>1. Since({}, w.start) = {}
        BY DEF Since
      <4>2. QED BY <1>2, <2>1, <2>2, <2>4, <4>1
    <3>7. QED BY <3>4, <3>5, <3>6 DEF CanWatch
  <2>7. QED BY <2>5, <2>6 DEF CanFloods
<1>8. ASSUME scenario.probe = "host" PROVE HostFloods
  <2>1. host.forks = Counter(NotOpen) /\ "forks" \in DOMAIN host
    BY DEF Init, InitHost
  <2>2. "forkFlood" \in DOMAIN scenario.limits /\ NotOpen \in Int
    BY <1>1, <1>8, Limits DEF HostKinds, NotOpen
  <2>3. Watches("forkFlood", "host", NotOpen, NotOpen, 0, FALSE)
    BY <1>3, <2>2
  <2>4. QED BY <1>2, <1>4, <1>5, <2>1, <2>3 DEF HostFloods
<1>9. ASSUME scenario.probe = "eth" PROVE EthFloods
  <2>1. eth.rates = <<>> /\ eth.storms = <<>> /\ eth.scans = <<>> /\ eth.bindings = <<>>
    BY DEF Init, InitEth
  <2>2. EthTyped
    BY <2>1 DEF EthTyped
  <2>3. ASSUME NEW kind \in {"rateFlood", "arpStorm"}, NEW key PROVE EthWatch(kind, key, <<>>)
    <3>1. At(<<>>, key, NewStorm) = Counter(NotOpen)
      BY DEF At, NewStorm
    <3>2. kind \in DOMAIN scenario.limits /\ NotOpen \in Int
      BY <1>1, <1>9, Limits DEF EthKinds, NotOpen
    <3>3. Watches(kind, key, NotOpen, NotOpen, 0, FALSE)
      BY <1>3, <3>2
    <3>4. QED BY <1>5, <3>1, <3>3 DEF EthWatch
  <2>4. ASSUME NEW key PROVE ScanWatch(key)
    <3>1. At(eth.scans, key, NewScan) = NewScan
      BY <2>1 DEF At
    <3>2. NewScan.events = <<>> /\ IsSeq(<<>>) /\ DOMAIN <<>> = {}
      <4>1. NewScan.events = <<>> /\ DOMAIN <<>> = {}
        BY DEF NewScan
      <4>2. QED BY <4>1, NoneRings
    <3>3. QED BY <1>2, <3>1, <3>2 DEF ScanWatch, Real, Ascending
  <2>5. ASSUME NEW addr PROVE Bound(addr)
    <3>1. Tellings(addr, Len(traffic) + 1) = {}
      <4>1. 1..((Len(traffic) + 1) - 1) = {}
        BY <1>1
      <4>2. QED BY <4>1 DEF Tellings
    <3>2. QED BY <2>1, <3>1 DEF Bound
  <2>6. QED BY <2>1, <2>2, <2>3, <2>4, <2>5 DEF EthFloods
<1>10. QED BY <1>6, <1>7, <1>8, <1>9 DEF FloodInv

\* A step keeps the invariant while the times are in order.
LEMMA FloodStep ==
    ASSUME FloodInv, EthInv, EngineInv, Reporting, HostInv, [Next]_vars,
           scenario.live \/ TimesInOrder'
    PROVE  FloodInv'
<1>1. CASE CanNext
  BY <1>1, CanStep
<1>2. CASE HostOnly
  BY <1>2, HostStep, HostFloodsStep
<1>3. CASE EthNext
  BY <1>3, EthFloodsStep
<1>4. CASE (MainNext \/ OpensOrEnds) /\ UNCHANGED <<can, hostVars, ethVars>>
  BY <1>4, MainFloods
<1>5. CASE UNCHANGED vars
  BY <1>5, MainFloods
<1>6. QED BY <1>1, <1>2, <1>3, <1>4, <1>5 DEF Next

\* Once they went back they are out of order for good.
LEMMA OrderWasKept ==
    ASSUME EthInv, [Next]_vars
    PROVE  scenario' = scenario /\ (TimesInOrder' => TimesInOrder)
<1>1. scenario' = scenario /\ (traffic' = traffic \/ \E e : traffic' = Append(traffic, e))
  <2>1. CASE EthNext
    BY <2>1 DEF EthNext, FeedEthernet, Capture, Fed
  <2>2. CASE ~EthNext
    BY <2>2, OthersLeave
  <2>3. QED BY <2>1, <2>2
<1>2. CASE traffic' = traffic
  BY <1>1, <1>2 DEF TimesInOrder
<1>3. ASSUME NEW e, traffic' = Append(traffic, e), TimesInOrder' PROVE TimesInOrder
  <2>1. PICK n \in Nat : /\ n = Len(traffic) /\ DOMAIN traffic = 1..n /\ DOMAIN traffic' = 1..(n + 1)
                         /\ \A i \in 1..n : traffic'[i] = traffic[i]
    <3>1. IsSeq(traffic)
      BY DEF EthInv
    <3>2. PICK n : n = Len(traffic)
      OBVIOUS
    <3>3. QED BY <1>3, <3>1, <3>2, LengthAppended
  <2>2. \A i \in 1..n : i \in 1..(n + 1)
    OBVIOUS
  <2>3. QED BY <1>3, <2>1, <2>2 DEF TimesInOrder
<1>4. QED BY <1>1, <1>2, <1>3

\* The inductive invariant.
FloodsWatched == scenario.live \/ TimesInOrder => FloodInv

\* FloodsAlerted: as much traffic of a kind within one width as must fill one of two
\* windows is alerted, and nothing is alerted that did not reach its limit within one
\* width: for any traffic of the three probes, live or in the order of its times, any
\* limits and any width.
THEOREM FloodsAreAlerted == Spec => []FloodsAlerted
<1>1. Init => EthInv /\ EngineInv /\ Reporting /\ HostInv /\ FloodsWatched
  BY EthStarts, TailStarts, HostStarts, FloodStarts DEF FloodsWatched
<1>2. EthInv /\ EngineInv /\ Reporting /\ HostInv /\ FloodsWatched /\ [Next]_vars
      => (EthInv /\ EngineInv /\ Reporting /\ HostInv /\ FloodsWatched)'
  <2>1. EthInv /\ EngineInv /\ Reporting /\ HostInv /\ [Next]_vars
        => (EthInv /\ EngineInv /\ Reporting /\ HostInv)'
    BY EthStep, TailStep, HostStep
  <2>2. ASSUME EthInv, EngineInv, Reporting, HostInv, FloodsWatched, [Next]_vars,
               scenario'.live \/ TimesInOrder'
        PROVE  FloodInv'
    <3>1. scenario.live \/ TimesInOrder'
      BY <2>2, OrderWasKept
    <3>2. FloodInv
      BY <2>2, <3>1, OrderWasKept DEF FloodsWatched
    <3>3. QED BY <2>2, <3>1, <3>2, FloodStep
  <2>3. QED BY <2>1, <2>2 DEF FloodsWatched
<1>3. FloodsWatched => FloodsAlerted
  BY FloodsFollow DEF FloodsWatched, FloodsAlerted
<1>4. QED BY <1>1, <1>2, <1>3, PTL DEF Spec

-----------------------------------------------------------------------------
\* The types: what is queued is of the table of the probe, and what is bounded stays so.

CanEvents == {"unknownId", "idFlood", "busFlood", "errBurst", "dlc", "remote",
              "secAccess", "svcScan", "diagFlood", "cycle"}
HostEvents == {"unknownExec", "privEsc", "forkFlood", "revShell", "fileMod", "newSetuid",
               "kmodLoad", "zombieStorm", "resExhaust", "rootShell"}

\* The events of each probe are in its table.
LEMMA EventsListed ==
    ASSUME scenario \in Scenarios
    PROVE  /\ Len(scenario.sevs) \in Nat
           /\ \A n \in 1..Len(scenario.sevs) : scenario.sevs[n] \in Sevs
           /\ scenario.probe = "can" => CanEvents \subseteq Sevs
           /\ scenario.probe = "host" => HostEvents \subseteq Sevs
           /\ scenario.probe = "eth" => EthEvents \subseteq Sevs
<1>1. CASE scenario.probe = "can"
  <2>1. scenario.sevs = CanSevs
    BY <1>1, ScenarioAssumption
  <2>2. Len(CanSevs) = 10 /\ DOMAIN CanSevs = 1..10
    BY DEF CanSevs
  <2>3. ASSUME NEW e \in CanEvents PROVE \E n \in 1..10 : e = CanSevs[n]
    BY DEF CanEvents, CanSevs
  <2>4. QED BY <1>1, <2>1, <2>2, <2>3 DEF Sevs
<1>2. CASE scenario.probe = "host"
  <2>1. scenario.sevs = HostSevs
    BY <1>2, ScenarioAssumption
  <2>2. Len(HostSevs) = 10 /\ DOMAIN HostSevs = 1..10
    BY DEF HostSevs
  <2>3. ASSUME NEW e \in HostEvents PROVE \E n \in 1..10 : e = HostSevs[n]
    BY DEF HostEvents, HostSevs
  <2>4. QED BY <1>2, <2>1, <2>2, <2>3 DEF Sevs
<1>3. CASE scenario.probe = "eth"
  <2>1. scenario.sevs = EthSevs
    BY <1>3, ScenarioAssumption
  <2>2. Len(EthSevs) = 12 /\ DOMAIN EthSevs = 1..12
    BY DEF EthSevs
  <2>3. ASSUME NEW e \in EthEvents PROVE \E n \in 1..12 : e = EthSevs[n]
    BY DEF EthEvents, EthSevs
  <2>4. QED BY <1>3, <2>1, <2>2, <2>3 DEF Sevs
<1>4. scenario.probe \in {"can", "host", "eth"}
  BY ScenarioAssumption
<1>5. QED BY <1>1, <1>2, <1>3, <1>4

\* Alerts of these events.
AlertsOf(alerts, listed) == IsSeq(alerts) /\ EventsIn(alerts, listed)

\* Two sequences of them are one.
LEMMA AlertsJoined ==
    ASSUME NEW listed, NEW s, NEW t, AlertsOf(s, listed), AlertsOf(t, listed)
    PROVE  AlertsOf(s \o t, listed)
BY SeqsJoined, EventsJoined DEF AlertsOf

\* One alert, or none, is one.
LEMMA AlertOfOne ==
    ASSUME NEW listed, NEW sev \in listed, NEW raised, NEW kind, NEW key
    PROVE  AlertsOf(When(raised, sev, kind, key), listed)
BY WhenIsSeq, EventOfOne DEF AlertsOf

\* So is no alert.
LEMMA NoAlerts ==
    ASSUME NEW listed
    PROVE  AlertsOf(<<>>, listed)
<1>1. EventsIn(<<>>, listed)
  BY DEF EventsIn
<1>2. IsSeq(<<>>)
  BY SingleSeq
<1>3. QED BY <1>1, <1>2 DEF AlertsOf

\* They are reported.
Tells(listed) == \E alerts, at : AlertsOf(alerts, listed) /\ Report(alerts, at)

\* What is queued then is of the table.
LEMMA QueueTyped ==
    ASSUME NEW listed, listed \subseteq Sevs, Tells(listed), ingress \in Seq(Sevs)
    PROVE  ingress' \in Seq(Sevs)
<1>1. PICK alerts, at : AlertsOf(alerts, listed) /\ Report(alerts, at)
  BY DEF Tells
<1>2. PICK sevs : sevs = [i \in DOMAIN alerts |-> alerts[i].sev]
  OBVIOUS
<1>3. ingress' = ingress \o sevs
  BY <1>1, <1>2 DEF Report
<1>4. PICK n \in Nat : DOMAIN alerts = 1..n
  BY <1>1 DEF AlertsOf, IsSeq
<1>5. \A i \in 1..n : alerts[i].sev \in Sevs
  BY <1>1, <1>4 DEF AlertsOf, EventsIn
<1>6. sevs \in [1..n -> Sevs]
  BY <1>2, <1>4, <1>5
<1>7. sevs \in Seq(Sevs)
  BY <1>6
<1>8. QED BY <1>3, <1>7

-----------------------------------------------------------------------------
\* What each probe reports.

\* A frame of the CAN probe.
LEMMA CanTells ==
    ASSUME NEW f, NEW at, FeedError(f, at) \/ FeedRemote(f, at) \/ FeedData(f, at)
    PROVE  Tells(CanEvents)
<1>0. AlertsOf(<<>>, CanEvents)
  BY NoAlerts
<1>1. /\ \A e \in CanEvents : \A raised, kind, key : AlertsOf(When(raised, e, kind, key), CanEvents)
      /\ \A s, t : AlertsOf(s, CanEvents) /\ AlertsOf(t, CanEvents) => AlertsOf(s \o t, CanEvents)
  BY AlertOfOne, AlertsJoined
<1>2. CASE FeedError(f, at)
  <2>1. PICK a : a = When(RaisedBy(can.errs, at, "errBurst"), "errBurst", "errBurst", "bus")
    OBVIOUS
  <2>2. "errBurst" \in CanEvents
    BY DEF CanEvents
  <2>3. AlertsOf(a, CanEvents)
    BY <1>1, <2>1, <2>2
  <2>4. Report(a, at)
    BY <1>2, <2>1 DEF FeedError
  <2>5. QED BY <2>3, <2>4 DEF Tells
<1>3. CASE FeedRemote(f, at)
  <2>1. PICK a : a = When(TRUE, "remote", "remote", f.id)
    OBVIOUS
  <2>2. "remote" \in CanEvents
    BY DEF CanEvents
  <2>3. AlertsOf(a, CanEvents)
    BY <1>1, <2>1, <2>2
  <2>4. Report(a, at)
    BY <1>3, <2>1 DEF FeedRemote
  <2>5. QED BY <2>3, <2>4 DEF Tells
<1>4. CASE FeedData(f, at)
  <2>0. /\ "dlc" \in CanEvents /\ "unknownId" \in CanEvents /\ "cycle" \in CanEvents
        /\ "idFlood" \in CanEvents /\ "busFlood" \in CanEvents /\ "diagFlood" \in CanEvents
        /\ "secAccess" \in CanEvents /\ "svcScan" \in CanEvents
    BY DEF CanEvents
  <2>1. PICK others : others = (IF f.id \notin DiagRequests THEN <<>> ELSE
                  When(RaisedBy(can.diag[f.id], at, "diagFlood"), "diagFlood", "diagFlood", f.id)
               \o When(SeedsRaised(f, at), "secAccess", "seedFlood", f.id)
               \o When(KeysRaised(f, at), "secAccess", "keyGuess", f.id)
               \o When(ScanRaised(f, at), "svcScan", "svcScan", f.id))
    OBVIOUS
  <2>2. AlertsOf(others, CanEvents)
    BY <1>0, <1>1, <2>0, <2>1
  <2>3. PICK alerts : alerts =
               When(~f.legal, "dlc", "dlc", f.id)
            \o When(Unknown(f), "unknownId", "unknownId", f.id)
            \o When(TooSoon(f, at), "cycle", "cycle", f.id)
            \o When(RaisedBy(can.ids[f.id], at, "idFlood"), "idFlood", "idFlood", f.id)
            \o When(RaisedBy(can.bus, at, "busFlood"), "busFlood", "busFlood", "bus")
            \o others
    OBVIOUS
  <2>4. AlertsOf(alerts, CanEvents)
    BY <1>1, <2>0, <2>2, <2>3
  <2>5. Report(alerts, at)
    BY <1>4, <2>1, <2>3 DEF FeedData
  <2>6. QED BY <2>4, <2>5 DEF Tells
<1>5. QED BY <1>2, <1>3, <1>4

\* The execs of the host probe.
LEMMA ExecTells ==
    ASSUME NEW e, NEW at, FeedExec(e, at)
    PROVE  Tells(HostEvents)
<1>1. PICK execs, shells : /\ execs = UnknownExec(e, at) \o PrivEsc(e, at)
                           /\ shells = RevShell(e, at) \o RootShell(e, at)
  OBVIOUS
<1>2. /\ "unknownExec" \in HostEvents /\ "privEsc" \in HostEvents /\ "revShell" \in HostEvents
      /\ "rootShell" \in HostEvents /\ "forkFlood" \in HostEvents
  BY DEF HostEvents
<1>3. /\ AlertsOf(UnknownExec(e, at), HostEvents) /\ AlertsOf(PrivEsc(e, at), HostEvents)
      /\ AlertsOf(RevShell(e, at), HostEvents) /\ AlertsOf(RootShell(e, at), HostEvents)
      /\ AlertsOf(ForkFlood(at), HostEvents)
  BY <1>2, AlertOfOne DEF UnknownExec, PrivEsc, RevShell, RootShell, ForkFlood, MutedAlert
<1>4. AlertsOf(execs, HostEvents) /\ AlertsOf(shells, HostEvents)
  BY <1>1, <1>3, AlertsJoined
<1>5. AlertsOf(execs \o ForkFlood(at) \o shells, HostEvents)
  BY <1>3, <1>4, AlertsJoined
<1>6. Report(execs \o ForkFlood(at) \o shells, at)
  BY <1>1 DEF FeedExec
<1>7. QED BY <1>5, <1>6 DEF Tells

\* Its files.
LEMMA FilesOf ==
    ASSUME NEW path, NEW state, NEW at
    PROVE  AlertsOf(FileAlerts(path, state, at), HostEvents)
<1>1. "fileMod" \in HostEvents /\ "newSetuid" \in HostEvents
  BY DEF HostEvents
<1>2. AlertsOf(FileMod(path, state, at), HostEvents) /\ AlertsOf(NewSetuid(path, state, at), HostEvents)
  BY <1>1, AlertOfOne DEF FileMod, NewSetuid, MutedAlert
<1>3. QED BY <1>2, AlertsJoined DEF FileAlerts

\* The end of a pass.
LEMMA PassTells ==
    ASSUME PassEnds
    PROVE  Tells(HostEvents)
<1>1. PICK hog \in scenario.hogs, modules \in ModulesRead, file \in FileRead : TRUE
             /\ LET at == scan.stamp
                    mods == modules \ scan.mods
                    snapshot == IF scan.primed THEN SnapshotAlerts(scan.zombies, hog, at) ELSE <<>>
                    others == (IF scan.primed THEN ModuleAlerts(mods, at) ELSE <<>>)
                              \o FileAlerts("monitored", file, at)
                IN  Report(snapshot \o others, at)
  BY DEF PassEnds
<1>2. PICK at, mods : at = scan.stamp /\ mods = modules \ scan.mods
  OBVIOUS
<1>3. AlertsOf(<<>>, HostEvents)
  BY NoAlerts
<1>4. "zombieStorm" \in HostEvents /\ "resExhaust" \in HostEvents /\ "kmodLoad" \in HostEvents
  BY DEF HostEvents
<1>5. AlertsOf(SnapshotAlerts(scan.zombies, hog, at), HostEvents)
  <2>1. /\ AlertsOf(ZombieStorm(scan.zombies, at), HostEvents)
        /\ AlertsOf(ResExhaust(hog, at), HostEvents)
    BY <1>4, AlertOfOne DEF ZombieStorm, ResExhaust, MutedAlert
  <2>2. QED BY <2>1, AlertsJoined DEF SnapshotAlerts
<1>6. AlertsOf(ModuleAlerts(mods, at), HostEvents)
  BY <1>3, <1>4, AlertOfOne DEF ModuleAlerts, MutedAlert
<1>7. PICK snapshot, loaded :
        /\ snapshot = (IF scan.primed THEN SnapshotAlerts(scan.zombies, hog, at) ELSE <<>>)
        /\ loaded = (IF scan.primed THEN ModuleAlerts(mods, at) ELSE <<>>)
        /\ AlertsOf(snapshot, HostEvents) /\ AlertsOf(loaded, HostEvents)
  BY <1>3, <1>5, <1>6
<1>8. AlertsOf(loaded \o FileAlerts("monitored", file, at), HostEvents)
  BY <1>7, FilesOf, AlertsJoined
<1>9. AlertsOf(snapshot \o (loaded \o FileAlerts("monitored", file, at)), HostEvents)
  BY <1>7, <1>8, AlertsJoined
<1>10. Report(snapshot \o (loaded \o FileAlerts("monitored", file, at)), at)
  BY <1>1, <1>2, <1>7
<1>11. QED BY <1>9, <1>10 DEF Tells

\* A frame of the Ethernet probe.
LEMMA FrameTells ==
    ASSUME EthInv, scenario.probe = "eth", FeedEthernet
    PROVE  Tells(EthEvents) /\ \E p, at : Capture(p, at)
<1>1. PICK p \in scenario.inputs, at \in TimeStamps :
        /\ Capture(p, at)
        /\ FeedTrusted(p, at) \/ FeedArpFrame(p, at) \/ FeedFragment(p, at) \/ FeedPacket(p, at)
  BY DEF FeedEthernet
<1>2. PICK x, n : FrameDoes(p, at, x) /\ Fold(x, at)
  BY <1>1, FrameHandled
<1>3. AlertsOf(x.alerts, EthEvents)
  BY <1>2 DEF FrameDoes, AlertsOf, OfEvents
<1>4. Report(x.alerts, at)
  BY <1>2 DEF Fold
<1>5. QED BY <1>1, <1>3, <1>4 DEF Tells

-----------------------------------------------------------------------------
\* The invariant.

MainTyped ==
    /\ clock \in 1..MaxClock
    /\ phase \in {"ready", "capture", "flush", "sleep", "unregistered", "down"}
    /\ stop \in BOOLEAN
    /\ nextFlush \in 1..(Len(scenario.sevs) + 1)
    /\ wake \in 0..(MaxClock + DrainTime)

Queued == ingress \in Seq(Sevs)
DueInTime == \A s \in Sevs : staged[s].due <= MaxClock + AggregationWindow

InputsBounded == scenario.probe # "host" \/ ~scenario.live => Len(traffic) <= scenario.most

TypesInv == MainTyped /\ Queued /\ DueInTime

\* A step of a capture.
Captures ==
    /\ UNCHANGED <<scenario, clock, stop, nextFlush, wake, staged>>
    /\ phase' \in {phase, "capture", "flush"}
    /\ ingress' = ingress \/ \E listed : listed \subseteq Sevs /\ Tells(listed)

\* It keeps the types.
LEMMA CapturesKeep ==
    ASSUME TypesInv, Captures
    PROVE  TypesInv'
<1>1. UNCHANGED <<scenario, clock, stop, nextFlush, wake, staged>> /\ Sevs' = Sevs
  BY DEF Captures, Sevs
<1>2. MainTyped'
  BY <1>1 DEF MainTyped, TypesInv, Captures
<1>3. DueInTime'
  BY <1>1 DEF DueInTime, TypesInv
<1>4. ingress' \in Seq(Sevs)
  BY QueueTyped DEF Captures, TypesInv, Queued
<1>5. QED BY <1>1, <1>2, <1>3, <1>4 DEF TypesInv, Queued

\* The host probe.
LEMMA HostCaptures ==
    ASSUME scenario \in Scenarios, scenario.probe = "host", HostNext
    PROVE  Captures
<1> USE DEF historyVars, engineVars, mainVars, probeVars, hostVars, captureVars, systemVars
<1>0. HostEvents \subseteq Sevs
  BY EventsListed
<1>1. CASE \/ HostOpens \/ SystemChange \/ NetlinkEnds \/ Visit \/ VisitFails \/ PassSleeps
           \/ HostCaptureEnds \/ ReplayEnds
           \/ \E pid \in Pids : Death(pid) \/ \E program \in scenario.inputs : Birth(pid, program)
  BY <1>1 DEF HostOpens, Opens, SystemChange, NetlinkEnds, Visit, VisitFails, PassSleeps,
              HostCaptureEnds, ReplayEnds, CaptureEnds, Death, Birth, Captures
<1>6. CASE PassBegins
  BY Zenon, <1>6 DEF PassBegins, Captures
<1>2. CASE Receive \/ VisitNew \/ ReplayExec
  <2>1. UNCHANGED mainVars /\ \E e, at : FeedExec(e, at)
    BY <1>2 DEF Receive, VisitNew, ReplayExec
  <2>2. Tells(HostEvents) /\ staged' = staged
    <3>1. PICK e, at : FeedExec(e, at)
      BY <2>1
    <3>2. Tells(HostEvents)
      BY <3>1, ExecTells
    <3>3. staged' = staged
      BY <3>1 DEF FeedExec, Report
    <3>4. QED BY <3>2, <3>3
  <2>3. QED BY <1>0, <2>1, <2>2 DEF Captures
<1>3. CASE PassEnds
  <2>1. UNCHANGED mainVars /\ Tells(HostEvents)
    BY <1>3, PassTells DEF PassEnds
  <2>2. staged' = staged
    BY <2>1 DEF Tells, Report
  <2>3. QED BY <1>0, <2>1, <2>2 DEF Captures
<1>4. CASE ReplayFile
  <2>1. PICK at : Report(FileAlerts("elsewhere", "setuid", at), at) /\ UNCHANGED mainVars
    BY <1>4 DEF ReplayFile
  <2>2. Tells(HostEvents)
    BY <2>1, FilesOf DEF Tells
  <2>3. staged' = staged
    BY <2>1 DEF Report
  <2>4. QED BY <1>0, <2>1, <2>2, <2>3 DEF Captures
<1>5. QED BY <1>1, <1>2, <1>3, <1>4, <1>6 DEF HostNext

\* A window that is emptied, and those that are as they were.
LEMMA HandKeeps ==
    ASSUME TypesInv, EngineInv, NEW s, UNCHANGED <<scenario, ingress>>,
           staged' = [staged EXCEPT ![s] = [count |-> 0, due |-> 0]]
    PROVE  Queued' /\ DueInTime'
<1>1. Sevs' = Sevs
  BY DEF Sevs
<1>2. Queued'
  BY <1>1 DEF TypesInv, Queued
<1>3. \A t \in Sevs : staged'[t] = IF t = s THEN [count |-> 0, due |-> 0] ELSE staged[t]
  BY DEF EngineInv, EngineTyped
<1>4. MaxClock \in Nat
  BY MainAssumption
<1>5. ASSUME NEW t \in Sevs PROVE staged'[t].due <= MaxClock + AggregationWindow
  <2>1. CASE t = s
    BY <1>3, <1>4, <2>1 DEF AggregationWindow
  <2>2. CASE t # s
    BY <1>3, <2>2 DEF TypesInv, DueInTime
  <2>3. QED BY <2>1, <2>2
<1>6. DueInTime'
  BY <1>1, <1>5 DEF DueInTime
<1>7. QED BY <1>2, <1>6

\* The worker of IdsM.
LEMMA EngineTypes ==
    ASSUME TypesInv, EngineInv, Engine
    PROVE  TypesInv'
<1> USE DEF mainVars
<1>1. UNCHANGED <<scenario, clock, phase, stop, nextFlush, wake>> /\ Sevs' = Sevs
  BY DEF Engine, Stage, Release, Sevs
<1>2. MainTyped'
  BY <1>1 DEF MainTyped, TypesInv
<1>3. CASE \E s \in Sevs : Release(s)
  <2>1. PICK s \in Sevs : Release(s)
    BY <1>3
  <2>2. Queued' /\ DueInTime'
    BY <1>1, <2>1, HandKeeps DEF Release
  <2>3. QED BY <1>2, <2>2 DEF TypesInv
<1>4. CASE Stage
  <2>1. PICK s : s = Head(ingress)
    OBVIOUS
  <2>2. PICK due : due = IF staged[s].count = 0 THEN clock + AggregationWindow ELSE staged[s].due
    OBVIOUS
  <2>3. /\ ingress # <<>> /\ ingress' = Tail(ingress) /\ ingress \in Seq(Sevs)
        /\ staged' = [staged EXCEPT ![s].count = @ + 1, ![s].due = due]
    BY <1>4, <2>1, <2>2 DEF Stage, TypesInv, Queued
  <2>4. s \in Sevs /\ ingress' \in Seq(Sevs)
    BY <2>1, <2>3
  <2>5. \A t \in Sevs : staged[t] \in [count : Nat, due : Nat]
    BY DEF EngineInv, EngineTyped
  <2>6. due <= MaxClock + AggregationWindow
    <3>1. clock \in Nat /\ clock <= MaxClock /\ MaxClock \in Nat
      BY MainAssumption DEF TypesInv, MainTyped
    <3>2. CASE staged[s].count = 0
      BY <2>2, <3>1, <3>2 DEF AggregationWindow
    <3>3. CASE staged[s].count # 0
      BY <2>2, <2>4, <3>3 DEF TypesInv, DueInTime
    <3>4. QED BY <3>2, <3>3
  <2>7. ASSUME NEW t \in Sevs PROVE staged'[t].due <= MaxClock + AggregationWindow
    <3>1. CASE t = s
      <4>1. staged'[t].due = due
        BY <2>3, <2>4, <2>5, <3>1 DEF EngineInv, EngineTyped
      <4>2. QED BY <2>6, <4>1
    <3>2. CASE t # s
      <4>1. staged'[t] = staged[t]
        BY <2>3, <3>2 DEF EngineInv, EngineTyped
      <4>2. QED BY <4>1 DEF TypesInv, DueInTime
    <3>3. QED BY <3>1, <3>2
  <2>8. DueInTime' /\ Queued'
    BY <1>1, <2>4, <2>7 DEF DueInTime, Queued
  <2>9. QED BY <1>2, <2>8 DEF TypesInv
<1>5. QED BY <1>3, <1>4 DEF Engine

\* The shutdown.
LEMMA ShutdownTypes ==
    ASSUME scenario \in Scenarios, TypesInv, EngineInv, Shutdown
    PROVE  TypesInv'
<1> USE DEF engineVars
<1>0. /\ Len(scenario.sevs) \in Nat /\ MaxClock \in Nat /\ clock \in Nat /\ clock <= MaxClock
      /\ nextFlush \in Nat /\ nextFlush <= Len(scenario.sevs) + 1 /\ MainTyped
  BY EventsListed, MainAssumption DEF TypesInv, MainTyped
<1>1. CASE Flush
  <2>1. Queued' /\ DueInTime'
    BY <1>1, HandKeeps DEF Flush
  <2>2. /\ nextFlush' = nextFlush + 1 /\ nextFlush <= Len(scenario.sevs)
        /\ UNCHANGED <<scenario, clock, phase, stop, wake>>
    BY <1>1 DEF Flush
  <2>3. MainTyped'
    BY <1>0, <2>2 DEF MainTyped
  <2>4. QED BY <2>1, <2>3 DEF TypesInv
<1>2. CASE Sleep
  <2>1. /\ phase' = "sleep" /\ wake' = clock + DrainTime
        /\ UNCHANGED <<scenario, clock, stop, nextFlush, ingress, staged>>
    BY <1>2 DEF Sleep
  <2>2. MainTyped'
    BY <1>0, <2>1 DEF MainTyped, DrainTime
  <2>3. Queued' /\ DueInTime'
    BY <2>1 DEF TypesInv, Queued, DueInTime, Sevs
  <2>4. QED BY <2>2, <2>3 DEF TypesInv
<1>3. CASE RmDeInit
  <2>1. /\ phase' = "unregistered"
        /\ UNCHANGED <<scenario, clock, stop, nextFlush, wake, ingress, staged>>
    BY <1>3 DEF RmDeInit
  <2>2. MainTyped'
    BY <1>0, <2>1 DEF MainTyped
  <2>3. Queued' /\ DueInTime'
    BY <2>1 DEF TypesInv, Queued, DueInTime, Sevs
  <2>4. QED BY <2>2, <2>3 DEF TypesInv
<1>4. CASE MDeInit
  <2>1. /\ phase' = "down" /\ ingress' = <<>>
        /\ staged' = [s \in Sevs |-> [count |-> 0, due |-> 0]]
        /\ UNCHANGED <<scenario, clock, stop, nextFlush, wake>>
    BY <1>4 DEF MDeInit
  <2>2. MainTyped'
    BY <1>0, <2>1 DEF MainTyped
  <2>3. Sevs' = Sevs /\ \A s \in Sevs : staged'[s].due = 0
    BY <2>1 DEF Sevs
  <2>4. Queued' /\ DueInTime'
    BY <1>0, <2>1, <2>3 DEF Queued, DueInTime, AggregationWindow
  <2>5. QED BY <2>2, <2>4 DEF TypesInv
<1>5. QED BY <1>1, <1>2, <1>3, <1>4 DEF Shutdown

\* Every step keeps the types.
LEMMA TypesStep ==
    ASSUME EthInv, EngineInv, TypesInv, [Next]_vars
    PROVE  TypesInv'
<1> USE DEF historyVars, engineVars, mainVars, probeVars
<1>0. scenario \in Scenarios
  BY DEF EthInv
<1>1. CASE CanNext
  <2>1. PICK f, at : /\ Capture(f, at)
                     /\ FeedError(f, at) \/ FeedRemote(f, at) \/ FeedData(f, at)
    BY <1>1 DEF CanNext, FeedFrame
  <2>2. CanEvents \subseteq Sevs /\ Tells(CanEvents)
    BY <1>0, <1>1, <2>1, CanTells, EventsListed DEF CanNext
  <2>3. staged' = staged
    BY <2>2 DEF Tells, Report
  <2>4. Captures
    BY <2>1, <2>2, <2>3 DEF Captures, Capture
  <2>5. QED BY <2>4, CapturesKeep
<1>2. CASE EthNext
  <2>1. scenario.probe = "eth" /\ FeedEthernet
    BY <1>2 DEF EthNext
  <2>2. EthEvents \subseteq Sevs /\ Tells(EthEvents) /\ \E p, at : Capture(p, at)
    BY <1>0, <2>1, FrameTells, EventsListed
  <2>3. staged' = staged
    BY <2>2 DEF Tells, Report
  <2>4. Captures
    BY <2>2, <2>3 DEF Captures, Capture
  <2>5. QED BY <2>4, CapturesKeep
<1>3. CASE HostOnly
  BY <1>0, <1>3, HostCaptures, CapturesKeep DEF HostOnly
<1>4. CASE OpenFails \/ OpensOrEnds \/ UNCHANGED vars
  <2>1. Captures
    BY <1>4 DEF OpenFails, OpensOrEnds, Opens, CaptureEnds, vars, Captures
  <2>2. QED BY <2>1, CapturesKeep
<1>5. CASE OnSignal
  <2>1. /\ stop' \in BOOLEAN /\ phase \in {"ready", "capture"}
        /\ UNCHANGED <<scenario, clock, phase, nextFlush, wake, ingress, staged>>
    BY <1>5 DEF OnSignal
  <2>2. MainTyped'
    BY <2>1 DEF TypesInv, MainTyped
  <2>3. Queued' /\ DueInTime'
    BY <2>1 DEF TypesInv, Queued, DueInTime, Sevs
  <2>4. QED BY <2>2, <2>3 DEF TypesInv
<1>6. CASE Engine
  BY <1>6, EngineTypes
<1>7. CASE Tick
  <2>1. /\ clock' = clock + 1 /\ clock < Horizon
        /\ UNCHANGED <<scenario, phase, stop, nextFlush, wake, ingress, staged>>
    BY <1>7 DEF Tick
  <2>2. MaxClock \in Nat /\ clock \in Nat /\ clock >= 1 /\ Horizon <= MaxClock /\ Horizon \in Int
    BY MainAssumption DEF Horizon, DrainTime, TypesInv, MainTyped
  <2>3. MainTyped'
    BY <2>1, <2>2 DEF TypesInv, MainTyped
  <2>4. Queued' /\ DueInTime'
    BY <2>1 DEF TypesInv, Queued, DueInTime, Sevs
  <2>5. QED BY <2>3, <2>4 DEF TypesInv
<1>8. CASE Shutdown
  BY <1>0, <1>8, ShutdownTypes
<1>9. QED BY <1>1, <1>2, <1>3, <1>4, <1>5, <1>6, <1>7, <1>8 DEF Next, MainNext

-----------------------------------------------------------------------------
\* The inputs, which are as many at most as the scenario has.

\* The replay of the host probe.
LEMMA ReplayInputs ==
    ASSUME InputsBounded, Reporting, IsSeq(traffic), scenario.most \in Nat,
           scenario.probe = "host", ~scenario.live, HostNext
    PROVE  InputsBounded'
<1> USE DEF historyVars, engineVars, mainVars, probeVars, hostVars, captureVars, systemVars
<1>1. netlink = "off" /\ scan.pc = "top"
  BY DEF Reporting
<1>2. CASE ReplayExec
  <2>1. /\ Len(traffic) < scenario.most /\ scenario' = scenario
        /\ \E e, at : FeedExec(e, at)
    BY <1>2 DEF ReplayExec
  <2>2. PICK e, at : traffic' = Append(traffic, [input |-> e, at |-> at])
    BY <2>1 DEF FeedExec, Fed
  <2>3. Len(traffic') = Len(traffic) + 1 /\ Len(traffic) \in Nat
    BY <2>2, LengthAppended
  <2>4. Len(traffic') <= scenario.most
    BY <2>1, <2>3
  <2>5. QED BY <2>1, <2>4 DEF InputsBounded
<1>3. CASE ~ReplayExec
  <2> SUFFICES UNCHANGED <<scenario, traffic>>
    BY DEF InputsBounded
  <2>1. CASE HostOpens \/ ReplayEnds \/ HostCaptureEnds
    BY <2>1 DEF HostOpens, Opens, ReplayEnds, CaptureEnds, HostCaptureEnds
  <2>2. CASE \E pid \in Pids : Death(pid) \/ \E program \in scenario.inputs : Birth(pid, program)
    BY <2>2 DEF Death, Birth
  <2>3. CASE SystemChange \/ NetlinkEnds \/ PassSleeps
    BY <2>3 DEF SystemChange, NetlinkEnds, PassSleeps
  <2>4. CASE PassBegins
    BY <2>4 DEF PassBegins
  <2>5. CASE Receive \/ Visit \/ VisitFails \/ VisitNew \/ PassEnds
    BY <1>1, <2>5 DEF Receive, Visit, VisitFails, VisitNew, PassEnds
  <2>6. CASE ReplayFile
    BY <2>6 DEF ReplayFile
  <2>7. QED BY <1>3, <2>1, <2>2, <2>3, <2>4, <2>5, <2>6 DEF HostNext
<1>4. QED BY <1>2, <1>3

\* Every step keeps to the bound.
LEMMA InputsStep ==
    ASSUME EthInv, Reporting, InputsBounded, [Next]_vars
    PROVE  InputsBounded'
<1> USE DEF historyVars, engineVars, mainVars, probeVars
<1>0. IsSeq(traffic) /\ scenario.most \in Nat
  BY ScenarioAssumption DEF EthInv
<1>1. CASE HostOnly
  <2>1. scenario.probe = "host" /\ HostNext
    BY <1>1 DEF HostOnly
  <2>2. CASE scenario.live
    <3>1. scenario' = scenario
      BY <1>1, <2>1, OthersLeave DEF EthNext
    <3>2. QED BY <2>1, <2>2, <3>1 DEF InputsBounded
  <2>3. CASE ~scenario.live
    BY <1>0, <2>1, <2>3, ReplayInputs
  <2>4. QED BY <2>2, <2>3
<1>2. CASE CanNext \/ EthNext
  <2>1. PICK f, at : Capture(f, at)
    BY <1>2 DEF CanNext, FeedFrame, EthNext, FeedEthernet
  <2>2. /\ scenario' = scenario /\ Len(traffic) < scenario.most
        /\ traffic' = Append(traffic, [input |-> f, at |-> at])
    BY <2>1 DEF Capture, Fed
  <2>3. Len(traffic') = Len(traffic) + 1 /\ Len(traffic) \in Nat
    BY <1>0, <2>2, LengthAppended
  <2>4. Len(traffic') <= scenario.most
    BY <1>0, <2>2, <2>3
  <2>5. QED BY <2>2, <2>4 DEF InputsBounded
<1>3. CASE (MainNext \/ OpensOrEnds) /\ UNCHANGED hostVars
  <2>1. UNCHANGED <<scenario, traffic>>
    BY <1>3 DEF MainNext, OpenFails, OnSignal, Engine, Stage, Release, Tick, Shutdown, Flush, Sleep,
                RmDeInit, MDeInit, OpensOrEnds, Opens, CaptureEnds
  <2>2. QED BY <2>1 DEF InputsBounded
<1>4. CASE UNCHANGED vars
  BY <1>4 DEF vars, InputsBounded
<1>5. QED BY <1>1, <1>2, <1>3, <1>4 DEF Next

-----------------------------------------------------------------------------
\* The start, and the theorem.
LEMMA TypesStart ==
    ASSUME Init
    PROVE  TypesInv /\ InputsBounded
<1>1. /\ clock = 1 /\ phase = "ready" /\ stop = FALSE /\ nextFlush = 1 /\ wake = 0 /\ ingress = <<>>
      /\ staged = [s \in Sevs |-> [count |-> 0, due |-> 0]] /\ traffic = <<>> /\ scenario \in Scenarios
      /\ births = <<>>
  BY DEF Init, InitMain, InitHost
<1>2. Len(scenario.sevs) \in Nat /\ MaxClock \in Nat /\ MaxClock > 2 /\ scenario.most \in Nat
  BY <1>1, EventsListed, MainAssumption, ScenarioAssumption
<1>3. MainTyped
  <2>1. clock \in 1..MaxClock
    BY <1>1, <1>2
  <2>2. nextFlush \in 1..(Len(scenario.sevs) + 1)
    BY <1>1, <1>2
  <2>3. wake \in 0..(MaxClock + DrainTime)
    BY <1>1, <1>2 DEF DrainTime
  <2>4. QED BY <1>1, <2>1, <2>2, <2>3 DEF MainTyped
<1>4. Queued /\ DueInTime
  BY <1>1, <1>2 DEF Queued, DueInTime, AggregationWindow
<1>5. InputsBounded
  BY <1>1, <1>2 DEF InputsBounded
<1>6. QED BY <1>3, <1>4, <1>5 DEF TypesInv

\* ProbesTypeOK: what is queued, in a window and owed is counted for the events of the
\* table of the probe, the shutdown flushes no event that the table does not have, no
\* window ends later than the last one can, and the pools keep to their caps: for any
\* scenario.
THEOREM ProbesAreTyped == Spec => []ProbesTypeOK
<1>1. Init => EthInv /\ EngineInv /\ Reporting /\ HostInv /\ TypesInv /\ InputsBounded
  BY EthStarts, TailStarts, HostStarts, TypesStart
<1>2. EthInv /\ EngineInv /\ Reporting /\ HostInv /\ TypesInv /\ InputsBounded /\ [Next]_vars
      => (EthInv /\ EngineInv /\ Reporting /\ HostInv /\ TypesInv /\ InputsBounded)'
  BY EthStep, TailStep, HostStep, TypesStep, InputsStep
<1>3. EngineInv /\ HostInv /\ TypesInv /\ InputsBounded => MainTypeOK /\ HostTypeOK
  <2> SUFFICES ASSUME EngineInv, HostInv, TypesInv, InputsBounded PROVE MainTypeOK /\ HostTypeOK
    OBVIOUS
  <2>1. staged \in [Sevs -> [count : Nat, due : 0..(MaxClock + AggregationWindow)]]
    <3>1. \A s \in Sevs : staged[s] \in [count : Nat, due : 0..(MaxClock + AggregationWindow)]
      <4>1. \A s \in Sevs : staged[s] \in [count : Nat, due : Nat]
                             /\ staged[s].due <= MaxClock + AggregationWindow
        BY DEF EngineInv, EngineTyped, TypesInv, DueInTime
      <4>2. MaxClock \in Nat
        BY MainAssumption
      <4>3. QED BY <4>1, <4>2 DEF AggregationWindow
    <3>2. QED BY <3>1 DEF EngineInv, EngineTyped
  <2>2. MainTypeOK
    BY <2>1 DEF MainTypeOK, TypesInv, MainTyped, Queued, InputsBounded, EngineInv, EngineTyped
  <2>3. DOMAIN reported = DOMAIN births
    BY DEF HostInv, HostTyped
  <2>4. HostTypeOK
    BY <2>3 DEF HostTypeOK, HostInv, HostTyped
  <2>5. QED BY <2>2, <2>4
<1>4. Spec => []PoolsBounded
  BY PoolsStayBounded
<1>5. MainTypeOK /\ HostTypeOK /\ PoolsBounded => ProbesTypeOK
  BY DEF ProbesTypeOK
<1>6. QED BY <1>1, <1>2, <1>3, <1>4, <1>5, PTL DEF Spec
=============================================================================
