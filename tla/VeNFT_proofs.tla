---------------------------- MODULE VeNFT_proofs ----------------------------
(***************************************************************************)
(* For any users, amounts, unlock times and loop limits: the types of      *)
(* VeNFT; custody with and without merges; that a token votes for one user *)
(* at every second; that the votes of a past second stay what they were;   *)
(* and that the supply is the sum of the positions without merges, never   *)
(* less with them, and fixed once it is past.                              *)
(*                                                                         *)
(* The loops of the code are recursive functions.  That such a function    *)
(* exists, and what it computes, is proved by induction on a rank: first   *)
(* for any recursion (RecursionExists), then for the weekly loops (Walk),  *)
(* the loop that removes a token (WithoutRemoves) and the binary search    *)
(* over a history (SearchFinds).                                           *)
(*                                                                         *)
(* The supply: the recorded points and the scheduled slope changes are     *)
(* samples of one curve, b for bias and s for slope at every second        *)
(* (Described).  The weekly loops walk along it (WalkOnCurve), so catching *)
(* up changes nothing that can be read (UpdateDescribed) and supplyAt      *)
(* reads b (SupplyOnCurve).  A checkpoint moves the curve by the line of   *)
(* the new lock less that of the old one (CurveMoved), which keeps it      *)
(* above what the positions add up to (BooksMove).                         *)
(***************************************************************************)
EXTENDS VeNFT, SumTheorems

-----------------------------------------------------------------------------
(* Recursive functions *)

\* step computes the value at d from values at points of lower rank.
LooksDown(D, V, rank, step) ==
  \A d \in D : \A f, g \in [D -> V] :
    (\A e \in D : rank[e] < rank[d] => f[e] = g[e]) => step[d][f] = step[d][g]

\* f is the function on D with those values.
Obeys(f, D, V, step) == f \in [D -> V] /\ \A d \in D : f[d] = step[d][f]

\* A function that is defined at every point d of D from its values at points
\* of lower rank exists; the ranks are bounded by N.
LEMMA RecursionExists ==
  ASSUME NEW D, NEW V, NEW v \in V, NEW N \in Nat, NEW rank \in [D -> 0..N],
         NEW step \in [D -> [[D -> V] -> V]],
         LooksDown(D, V, rank, step)
  PROVE  \E f : Obeys(f, D, V, step)
<1> DEFINE Upto(n, f) == \A d \in D : rank[d] < n => f[d] = step[d][f]
           G == {n \in Nat : \E f \in [D -> V] : Upto(n, f)}
<1>1. 0 \in G
  <2>2. [d \in D |-> v] \in [D -> V]
    OBVIOUS
  <2>3. Upto(0, [d \in D |-> v])
    OBVIOUS
  <2>4. QED
    BY <2>2, <2>3
<1>2. ASSUME NEW n \in G PROVE n + 1 \in G
  <2>1. PICK f \in [D -> V] : Upto(n, f)
    OBVIOUS
  <2> DEFINE h == [d \in D |-> step[d][f]]
  <2>2. h \in [D -> V]
    OBVIOUS
  <2>3. ASSUME NEW d \in D, rank[d] < n + 1 PROVE h[d] = step[d][h]
    <3>1. \A e \in D : rank[e] < rank[d] => h[e] = f[e]
      BY <2>1, <2>3
    <3> HIDE DEF h
    <3>2. step[d][h] = step[d][f]
      BY <2>2, <3>1 DEF LooksDown
    <3>3. QED
      BY <3>2 DEF h
  <2> HIDE DEF h
  <2>4. Upto(n + 1, h)
    BY <2>3
  <2>5. n + 1 \in Nat
    OBVIOUS
  <2>6. QED
    BY <2>2, <2>4, <2>5
<1> HIDE DEF G
<1>3. N + 1 \in G
  <2>1. G \in SUBSET Nat
    BY DEF G
  <2>2. G = Nat
    BY <1>1, <1>2, <2>1, AllNaturals
  <2>3. QED
    BY <2>2
<1>4. PICK f \in [D -> V] : Upto(N + 1, f)
  BY <1>3 DEF G
<1>5. \A d \in D : rank[d] < N + 1
  OBVIOUS
<1>6. Obeys(f, D, V, step)
  BY <1>4, <1>5 DEF Obeys
<1>7. QED
  BY <1>6

\* Along 0..N: the case of a loop that runs N times.
Loops(f, N, V, v0, step) ==
  /\ f \in [0..N -> V]
  /\ f[0] = v0
  /\ \A i \in 1..N : f[i] = step[i][f[i-1]]

LEMMA LoopExists ==
  ASSUME NEW N \in Nat, NEW V, NEW v0 \in V, NEW step \in [1..N -> [V -> V]]
  PROVE  \E f : Loops(f, N, V, v0, step)
<1> DEFINE D == 0..N
           rank == [i \in D |-> i]
           next == [i \in D |-> [f \in [D -> V] |->
                     IF i = 0 THEN v0 ELSE step[i][f[i-1]]]]
<1>1. next \in [D -> [[D -> V] -> V]]
  <2>1. ASSUME NEW i \in D, NEW f \in [D -> V]
        PROVE  (IF i = 0 THEN v0 ELSE step[i][f[i-1]]) \in V
    <3>1. CASE i = 0
      BY <3>1
    <3>2. CASE i # 0
      <4>1. i \in 1..N /\ i - 1 \in D
        BY <3>2
      <4>2. QED
        BY <3>2, <4>1
    <3>3. QED
      BY <3>1, <3>2
  <2>2. QED
    BY <2>1
<1>2. rank \in [D -> 0..N]
  OBVIOUS
<1>3. ASSUME NEW d \in D, NEW f \in [D -> V], NEW g \in [D -> V],
             \A e \in D : rank[e] < rank[d] => f[e] = g[e]
      PROVE  next[d][f] = next[d][g]
  <2>1. CASE d = 0
    BY <2>1
  <2>2. CASE d # 0
    <3>1. d - 1 \in D /\ rank[d-1] < rank[d]
      BY <2>2
    <3>2. f[d-1] = g[d-1]
      BY <1>3, <3>1
    <3>3. QED
      BY <2>2, <3>2
  <2>3. QED
    BY <2>1, <2>2
<1>5. \E f : Obeys(f, D, V, next)
  <2> HIDE DEF D, rank, next
  <2>1. LooksDown(D, V, rank, next)
    BY <1>3 DEF LooksDown
  <2>2. rank \in [D -> 0..N] /\ N \in Nat
    BY <1>2
  <2>3. QED
    BY <1>1, <2>1, <2>2, RecursionExists
<1>6. PICK f \in [D -> V] : \A d \in D : f[d] = next[d][f]
  BY <1>5 DEF Obeys
<1>7. f[0] = v0
  BY <1>6
<1>8. ASSUME NEW i \in 1..N PROVE f[i] = step[i][f[i-1]]
  <2>1. i \in D /\ i # 0
    OBVIOUS
  <2>2. QED
    BY <1>6, <2>1
<1>9. Loops(f, N, V, v0, step)
  BY <1>7, <1>8 DEF Loops
<1>10. QED
  BY <1>9

-----------------------------------------------------------------------------
(* The weekly loops *)

\* A point as the loop of supplyAt, which clips nothing, may pass through.
RawPoint == [bias : Int, slope : Int, ts : Nat]
PassedPoint(clips) == IF clips THEN Point ELSE RawPoint

LEMMA Assumed ==
  /\ WEEK \in Nat /\ WEEK > 0 /\ I_YEAR \in Nat /\ I_YEAR > 0
  /\ MAX_TIME \in Nat /\ MAX_TIME > 0
  /\ MaxWeeks \in Nat /\ MaxWeeks > 0
  /\ DeployTime \in Nat /\ MaxTokens \in Nat /\ MaxTime \in Nat
  /\ DeployTime <= MaxTime /\ Horizon \in Nat /\ MaxTime <= Horizon
BY VeAssumption DEF Horizon

LEMMA MinOfTwo ==
  ASSUME NEW a \in Int, NEW b \in Int
  PROVE  Min({a, b}) = IF a <= b THEN a ELSE b
<1> DEFINE least == IF a <= b THEN a ELSE b
<1>1. \A x \in {a, b} : (\A y \in {a, b} : x <= y) <=> x = least
  OBVIOUS
<1>2. least \in {a, b}
  OBVIOUS
<1>3. QED
  BY <1>1, <1>2 DEF Min

LEMMA MaxOfTwo ==
  ASSUME NEW a \in Int, NEW b \in Int
  PROVE  Max({a, b}) = IF a >= b THEN a ELSE b
<1> DEFINE most == IF a >= b THEN a ELSE b
<1>1. \A x \in {a, b} : (\A y \in {a, b} : x >= y) <=> x = most
  OBVIOUS
<1>2. most \in {a, b}
  OBVIOUS
<1>3. QED
  BY <1>1, <1>2 DEF Max

LEMMA TimesMonotone ==
  ASSUME NEW a \in Int, NEW b \in Int, NEW w \in Nat, a <= b
  PROVE  a * w <= b * w
OBVIOUS

\* The start of the week a time is in.
LEMMA WeekStart ==
  ASSUME NEW t \in Nat
  PROVE  LET base == (t \div WEEK) * WEEK
         IN  base \in Nat /\ base <= t /\ t < base + WEEK
<1>1. ASSUME NEW w \in Nat, w > 0
      PROVE  (t \div w) * w \in Nat /\ (t \div w) * w <= t /\ t < (t \div w) * w + w
  BY <1>1
<1>2. QED
  BY <1>1, Assumed

\* Dividing and rounding up.
LEMMA RoundUp ==
  ASSUME NEW a \in Int, NEW w \in Nat, w > 0
  PROVE  LET q == (a + w - 1) \div w
         IN  q \in Int /\ q * w >= a /\ (q - 1) * w < a
<1> DEFINE q == (a + w - 1) \div w
<1>1. q \in Int /\ q * w <= a + w - 1 /\ a + w - 1 < q * w + w
  OBVIOUS
<1>2. (q - 1) * w = q * w - w
  BY <1>1
<1> HIDE DEF q
<1>3. q * w \in Int
  BY <1>1
<1>4. QED
  BY <1>1, <1>2, <1>3 DEF q

\* The loop runs until it has passed its goal, or as often as it can.
LEMMA WeeksCounted ==
  ASSUME NEW from \in Nat, NEW to \in Nat
  PROVE  LET base == (from \div WEEK) * WEEK
             n    == WeeksBetween(from, to)
         IN  /\ n \in 1..MaxWeeks
             /\ \A i \in 1..(n - 1) : base + i * WEEK < to
             /\ n = MaxWeeks \/ base + n * WEEK >= to
<1> DEFINE base == (from \div WEEK) * WEEK
           ahead == to - base
           q == (ahead + WEEK - 1) \div WEEK
           m == IF 1 >= q THEN 1 ELSE q
           n == IF MaxWeeks <= m THEN MaxWeeks ELSE m
<1>1. base \in Nat
  BY WeekStart
<1>2. ahead \in Int
  BY <1>1
<1>3. q \in Int /\ q * WEEK >= ahead /\ (q - 1) * WEEK < ahead
  <2> HIDE DEF ahead
  <2>1. QED
    BY <1>2, Assumed, RoundUp
<1>4. WeeksBetween(from, to) = n
  <2> DEFINE mm == Max({1, q})
  <2>1. mm = m
    BY <1>3, MaxOfTwo
  <2>2. m \in Int /\ MaxWeeks \in Int
    BY <1>3, Assumed
  <2>3. WeeksBetween(from, to) = Min({MaxWeeks, mm})
    BY DEF WeeksBetween
  <2> HIDE DEF m, mm
  <2>4. QED
    BY <2>1, <2>2, <2>3, MinOfTwo DEF n
<1>5. n \in 1..MaxWeeks
  <2> HIDE DEF q
  <2>1. QED
    BY <1>3, Assumed
<1>6. ASSUME NEW i \in 1..(n - 1) PROVE base + i * WEEK < to
  <2>1. i \in Nat /\ i <= q - 1
    <3> HIDE DEF q
    <3>1. QED
      BY <1>3, <1>6, Assumed
  <2>2. i * WEEK <= (q - 1) * WEEK
    <3> HIDE DEF q
    <3>1. QED
      BY <1>3, <2>1, Assumed, TimesMonotone
  <2>3. i * WEEK \in Int /\ (q - 1) * WEEK \in Int
    <3> HIDE DEF q
    <3>1. QED
      BY <1>3, <2>1, Assumed
  <2> HIDE DEF q, base
  <2>4. QED
    BY <1>1, <1>3, <2>2, <2>3 DEF ahead
<1>7. n = MaxWeeks \/ base + n * WEEK >= to
  <2>1. CASE MaxWeeks <= m
    BY <2>1
  <2>2. CASE ~(MaxWeeks <= m)
    <3>1. n \in Nat /\ n >= q
      <4> HIDE DEF q
      <4>1. QED
        BY <1>3, <1>5, <2>2, Assumed
    <3>2. n * WEEK >= q * WEEK
      <4> HIDE DEF q, n
      <4>1. QED
        BY <1>3, <3>1, Assumed, TimesMonotone
    <3>3. n * WEEK \in Int /\ q * WEEK \in Int
      <4> HIDE DEF q, n
      <4>1. QED
        BY <1>3, <3>1, Assumed
    <3> HIDE DEF q, n, base
    <3>4. QED
      BY <1>1, <1>3, <3>2, <3>3 DEF ahead
  <2>3. QED
    BY <2>1, <2>2
<1> HIDE DEF n
<1>8. QED
  BY <1>4, <1>5, <1>6, <1>7

\* One week leads from a point the loop may pass to another one.
LEMMA NextWeekType ==
  ASSUME NEW clips \in BOOLEAN, NEW prev \in PassedPoint(clips),
         NEW week \in Nat, NEW to \in 0..Horizon,
         NEW changes \in [0..Horizon -> Int]
  PROVE  NextWeek(prev, week, to, changes, clips) \in PassedPoint(clips)
<1> DEFINE ti     == IF week > to THEN to ELSE week
           dslope == IF week > to THEN 0 ELSE changes[ti]
           b      == prev.bias - prev.slope * (ti - prev.ts)
           sl     == prev.slope + dslope
<1>1. prev.bias \in Int /\ prev.slope \in Int /\ prev.ts \in Int
  BY DEF PassedPoint, Point, RawPoint
<1>2. ti \in 0..Horizon /\ ti \in Nat
  BY Assumed
<1>3. dslope \in Int
  BY <1>2
<1>4. b \in Int /\ sl \in Int
  <2> HIDE DEF ti, dslope
  <2>1. prev.slope * (ti - prev.ts) \in Int
    BY <1>1, <1>2
  <2>2. QED
    BY <1>1, <1>3, <2>1
<1>5. NextWeek(prev, week, to, changes, clips) =
        [bias  |-> IF clips THEN NonNeg(b) ELSE b,
         slope |-> IF clips THEN NonNeg(sl) ELSE sl, ts |-> ti]
  BY DEF NextWeek
<1> HIDE DEF b, sl, ti
<1>6. NonNeg(b) \in Nat /\ NonNeg(sl) \in Nat
  BY <1>4 DEF NonNeg
<1>7. CASE clips
  BY <1>2, <1>5, <1>6, <1>7 DEF PassedPoint, Point
<1>8. CASE ~clips
  BY <1>2, <1>4, <1>5, <1>8 DEF PassedPoint, RawPoint
<1>9. QED
  BY <1>7, <1>8

\* What WeeklyPoints is: the loop's points, each made of the one before.
LEMMA Walk ==
  ASSUME NEW clips \in BOOLEAN, NEW p \in PassedPoint(clips), NEW to \in 0..Horizon,
         NEW changes \in [0..Horizon -> Int]
  PROVE  LET base == (p.ts \div WEEK) * WEEK
             w    == WeeklyPoints(p, to, changes, clips)
             n    == WeeksBetween(p.ts, to)
         IN  /\ n \in Nat
             /\ w \in [0..n -> PassedPoint(clips)]
             /\ w[0] = p
             /\ \A i \in 1..n :
                  w[i] = NextWeek(w[i-1], base + i * WEEK, to, changes, clips)
<1> DEFINE V == PassedPoint(clips)
           base == (p.ts \div WEEK) * WEEK
           n == WeeksBetween(p.ts, to)
           Next1(x, i) == NextWeek(x, base + i * WEEK, to, changes, clips)
           step == [i \in 1..n |-> [x \in V |-> Next1(x, i)]]
           Fix(f) == f = [i \in 0..n |-> IF i = 0 THEN p ELSE Next1(f[i-1], i)]
           w == CHOOSE f : Fix(f)
<1>1. p.ts \in Nat /\ to \in Nat
  BY DEF PassedPoint, Point, RawPoint
<1>2. n \in Nat /\ n \in 1..MaxWeeks
  <2>1. n \in 1..MaxWeeks
    BY <1>1, WeeksCounted
  <2>2. MaxWeeks \in Nat
    BY Assumed
  <2> HIDE DEF n
  <2>3. QED
    BY <2>1, <2>2
<1>3. base \in Nat
  BY <1>1, WeekStart
<1>4. \A i \in Nat : base + i * WEEK \in Nat
  <2> HIDE DEF base
  <2>1. ASSUME NEW i \in Nat PROVE i * WEEK \in Nat
    BY Assumed
  <2>2. QED
    BY <1>3, <2>1
<1>5. ASSUME NEW x \in V, NEW i \in 1..n PROVE Next1(x, i) \in V
  <2>1. i \in Nat
    BY <1>2
  <2>2. base + i * WEEK \in Nat
    BY <1>4, <2>1
  <2> HIDE DEF base
  <2>3. QED
    BY <2>2, NextWeekType
<1> HIDE DEF Next1
<1>6. step \in [1..n -> [V -> V]]
  BY <1>5
<1> HIDE DEF V, n
<1>7. p \in V
  BY DEF V
<1>8. PICK f : Loops(f, n, V, p, step)
  <2> HIDE DEF step
  <2>1. QED
    BY <1>2, <1>6, <1>7, LoopExists
<1>9. Fix(f)
  <2>1. f = [i \in 0..n |-> f[i]]
    BY <1>8 DEF Loops
  <2>2. ASSUME NEW i \in 0..n PROVE f[i] = IF i = 0 THEN p ELSE Next1(f[i-1], i)
    <3>1. CASE i = 0
      BY <1>8, <3>1 DEF Loops
    <3>2. CASE i # 0
      <4>1. i \in 1..n /\ i - 1 \in 0..n
        BY <1>2, <3>2
      <4>2. f[i-1] \in V
        BY <1>8, <4>1 DEF Loops
      <4>3. f[i] = step[i][f[i-1]]
        BY <1>8, <4>1 DEF Loops
      <4>4. QED
        BY <3>2, <4>1, <4>2, <4>3
    <3>3. QED
      BY <3>1, <3>2
  <2>3. QED
    BY <2>1, <2>2
<1>10. Fix(w)
  BY <1>9
<1>11. WeeklyPoints(p, to, changes, clips) = w
  BY DEF WeeklyPoints, n, Next1
<1> HIDE DEF w
<1>12. DOMAIN w = 0..n /\ w[0] = p
  BY <1>2, <1>10
<1>13. \A i \in 1..n : w[i] = Next1(w[i-1], i)
  BY <1>2, <1>10
<1>14. \A i \in 0..n : w[i] \in V
  <2> DEFINE G == {i \in Nat : i \in 0..n => w[i] \in V}
  <2>1. 0 \in G
    BY <1>7, <1>12
  <2>2. ASSUME NEW i \in G PROVE i + 1 \in G
    <3>1. CASE i + 1 \in 0..n
      <4>1. i \in 0..n /\ i + 1 \in 1..n /\ (i + 1) - 1 = i
        BY <1>2, <3>1
      <4>2. w[i] \in V
        BY <4>1
      <4>3. w[i+1] = Next1(w[i], i + 1)
        BY <1>13, <4>1
      <4>4. QED
        BY <1>5, <4>1, <4>2, <4>3
    <3>2. CASE i + 1 \notin 0..n
      BY <3>2
    <3>3. QED
      BY <3>1, <3>2
  <2> HIDE DEF G
  <2>3. G = Nat
    <3>1. G \in SUBSET Nat
      BY DEF G
    <3>2. QED
      BY <2>1, <2>2, <3>1, AllNaturals
  <2>4. QED
    BY <1>2, <2>3 DEF G
<1>15. w = [i \in 0..n |-> w[i]]
  BY <1>10
<1>16. w \in [0..n -> V]
  BY <1>14, <1>15
<1>17. QED
  BY <1>2, <1>11, <1>12, <1>13, <1>16 DEF V, n, Next1

\* w[0..n] are the points of a loop from p on.
Walks(w, n, p, to, changes, clips) ==
  /\ n \in Nat
  /\ w[0] = p
  /\ \A i \in 1..n :
       w[i] = NextWeek(w[i-1], (p.ts \div WEEK) * WEEK + i * WEEK, to, changes, clips)

LEMMA Walked ==
  ASSUME NEW clips \in BOOLEAN, NEW p \in PassedPoint(clips), NEW to \in 0..Horizon,
         NEW changes \in [0..Horizon -> Int]
  PROVE  Walks(WeeklyPoints(p, to, changes, clips), WeeksBetween(p.ts, to), p, to, changes, clips)
BY Walk DEF Walks

-----------------------------------------------------------------------------
(* The lists of tokens and the searches over their timestamps *)

LEMMA AppendElements ==
  ASSUME NEW S, NEW s \in Seq(S), NEW x \in S
  PROVE  /\ Append(s, x) \in Seq(S)
         /\ ToSet(Append(s, x)) = ToSet(s) \cup {x}
         /\ IsInjective(s) /\ x \notin ToSet(s) => IsInjective(Append(s, x))
<1> DEFINE a == Append(s, x)
           n == Len(s)
<1>1. /\ a \in Seq(S) /\ n \in Nat /\ Len(a) = n + 1
      /\ DOMAIN s = 1..n /\ DOMAIN a = 1..(n + 1)
      /\ \A k \in 1..n : a[k] = s[k]
      /\ a[n + 1] = x
  OBVIOUS
<1> HIDE DEF a, n
<1>2. \A k \in 1..(n + 1) : k \in 1..n \/ k = n + 1
  BY <1>1
<1>3. \A k \in 1..n : k \in 1..(n + 1)
  BY <1>1
<1>4. n + 1 \in 1..(n + 1)
  BY <1>1
<1>5. ToSet(a) = ToSet(s) \cup {x}
  <2>1. ToSet(a) = {a[k] : k \in 1..(n + 1)} /\ ToSet(s) = {s[k] : k \in 1..n}
    BY <1>1 DEF ToSet
  <2>2. QED
    BY <1>1, <1>2, <1>3, <1>4, <2>1
<1>6. ASSUME IsInjective(s), x \notin ToSet(s), NEW j \in 1..(n + 1), NEW k \in 1..(n + 1),
             a[j] = a[k]
      PROVE  j = k
  <2>1. \A i \in 1..n : s[i] # x
    BY <1>1, <1>6 DEF ToSet
  <2>2. \A i, m \in 1..n : s[i] = s[m] => i = m
    BY <1>1, <1>6 DEF IsInjective
  <2>3. QED
    BY <1>1, <1>2, <1>6, <2>1, <2>2
<1>7. IsInjective(s) /\ x \notin ToSet(s) => IsInjective(a)
  BY <1>1, <1>6 DEF IsInjective
<1>8. QED
  BY <1>1, <1>5, <1>7 DEF a

\* The removing loop leaves exactly the other tokens, each as often as before.
LEMMA WithoutRemoves ==
  ASSUME NEW S, NEW s \in Seq(S), NEW t
  PROVE  /\ Without(s, t) \in Seq(S)
         /\ ToSet(Without(s, t)) = ToSet(s) \ {t}
         /\ IsInjective(s) => IsInjective(Without(s, t))
<1> DEFINE n == Len(s)
           V == Seq(S)
           Next1(c, i) == IF s[i] # t THEN Append(c, s[i]) ELSE c
           step == [i \in 1..n |-> [c \in V |-> Next1(c, i)]]
           Fix(f) == f = [i \in 0..n |-> IF i = 0 THEN <<>> ELSE Next1(f[i-1], i)]
           w == CHOOSE f : Fix(f)
<1>1. n \in Nat /\ DOMAIN s = 1..n /\ \A i \in 1..n : s[i] \in S
  OBVIOUS
<1>2. ASSUME NEW i \in 1..n, NEW c \in V PROVE Next1(c, i) \in V
  BY <1>1
<1>3. <<>> \in V
  OBVIOUS
<1> HIDE DEF n, V
<1>4. step \in [1..n -> [V -> V]]
  BY <1>2
<1>5. PICK f : Loops(f, n, V, <<>>, step)
  <2> HIDE DEF step
  <2>1. QED
    BY <1>1, <1>3, <1>4, LoopExists
<1> HIDE DEF Next1
<1>6. Fix(f)
  <2>1. f = [i \in 0..n |-> f[i]]
    BY <1>5 DEF Loops
  <2>2. ASSUME NEW i \in 0..n PROVE f[i] = IF i = 0 THEN <<>> ELSE Next1(f[i-1], i)
    <3>1. CASE i = 0
      BY <1>5, <3>1 DEF Loops
    <3>2. CASE i # 0
      <4>1. i \in 1..n /\ i - 1 \in 0..n
        BY <1>1, <3>2
      <4>2. f[i-1] \in V
        BY <1>5, <4>1 DEF Loops
      <4>3. f[i] = step[i][f[i-1]]
        BY <1>5, <4>1 DEF Loops
      <4>4. QED
        BY <3>2, <4>1, <4>2, <4>3
    <3>3. QED
      BY <3>1, <3>2
  <2>3. QED
    BY <2>1, <2>2
<1>7. Fix(w)
  BY <1>6
<1>8. Without(s, t) = w[n]
  BY DEF Without, n, Next1
<1> HIDE DEF w
<1>9. w[0] = <<>> /\ \A i \in 1..n : w[i] = Next1(w[i-1], i)
  BY <1>1, <1>7
<1> DEFINE Upto(i) == {s[k] : k \in 1..i}
           Good(i) == /\ w[i] \in Seq(S)
                      /\ ToSet(w[i]) = Upto(i) \ {t}
                      /\ IsInjective(s) => IsInjective(w[i])
           G == {i \in Nat : i \in 0..n => Good(i)}
<1>10. Good(0)
  <2>1. DOMAIN <<>> = {}
    OBVIOUS
  <2>2. ToSet(<<>>) = {} /\ IsInjective(<<>>)
    BY <2>1 DEF ToSet, IsInjective
  <2>3. Upto(0) = {}
    OBVIOUS
  <2>4. <<>> \in Seq(S)
    OBVIOUS
  <2>5. QED
    BY <1>9, <2>2, <2>3, <2>4
<1>11. ASSUME NEW i \in Nat, i + 1 \in 0..n, Good(i) PROVE Good(i + 1)
  <2>1. i \in 0..n /\ i + 1 \in 1..n /\ (i + 1) - 1 = i
    BY <1>1, <1>11
  <2>2. w[i+1] = Next1(w[i], i + 1)
    BY <1>9, <2>1
  <2>3. Upto(i + 1) = Upto(i) \cup {s[i+1]}
    <3>1. \A k : k \in 1..(i + 1) <=> k \in 1..i \/ k = i + 1
      OBVIOUS
    <3>2. QED
      BY <3>1
  <2>4. s[i+1] \in S
    BY <1>1, <2>1
  <2>5. IsInjective(s) => s[i+1] \notin Upto(i)
    <3>1. SUFFICES ASSUME IsInjective(s), NEW k \in 1..i, s[i+1] = s[k] PROVE FALSE
      OBVIOUS
    <3>2. k \in 1..n /\ k # i + 1
      BY <2>1, <1>1
    <3>3. QED
      BY <1>1, <2>1, <3>1, <3>2 DEF IsInjective
  <2> HIDE DEF Upto
  <2>6. CASE s[i+1] = t
    BY <1>11, <2>2, <2>3, <2>6 DEF Next1
  <2>7. CASE s[i+1] # t
    <3>1. w[i+1] = Append(w[i], s[i+1])
      BY <2>2, <2>7 DEF Next1
    <3>2. /\ w[i+1] \in Seq(S)
          /\ ToSet(w[i+1]) = ToSet(w[i]) \cup {s[i+1]}
          /\ IsInjective(w[i]) /\ s[i+1] \notin ToSet(w[i]) => IsInjective(w[i+1])
      BY <1>11, <2>4, <3>1, AppendElements
    <3>3. QED
      BY <1>11, <2>3, <2>5, <2>7, <3>2
  <2>8. QED
    BY <2>6, <2>7
<1> HIDE DEF Good
<1>12. 0 \in G
  BY <1>10
<1>13. ASSUME NEW i \in G PROVE i + 1 \in G
  <2>1. i + 1 \in 0..n => i \in 0..n
    BY <1>1
  <2>2. QED
    BY <1>11, <2>1
<1>14. n \in G
  <2> HIDE DEF G
  <2>1. G \in SUBSET Nat
    BY DEF G
  <2>2. G = Nat
    BY <1>12, <1>13, <2>1, AllNaturals
  <2>3. QED
    BY <1>1, <2>2
<1>15. Good(n)
  BY <1>1, <1>14
<1>16. ToSet(s) = Upto(n)
  BY <1>1 DEF ToSet
<1>17. QED
  BY <1>8, <1>15, <1>16 DEF Good

\* The timestamps 1..max a search runs over never decrease.
Sorted(stamp, max) ==
  /\ \A k \in 1..max : stamp[k] \in Int
  /\ \A j, k \in 1..max : j <= k => stamp[j] <= stamp[k]

\* e is the last checkpoint at or before ts, or 0.
IsLastAt(e, stamp, max, ts) ==
  e \in 0..max /\ \A k \in 1..max : stamp[k] <= ts <=> k <= e

LEMMA Midpoint ==
  ASSUME NEW lo \in Nat, NEW hi \in Nat, lo < hi
  PROVE  LET mid == (lo + hi + 1) \div 2
         IN  mid \in Nat /\ lo < mid /\ mid <= hi
OBVIOUS

\* Every binary search over sorted timestamps finds the checkpoint in force.
LEMMA SearchFinds ==
  ASSUME NEW max \in Nat, NEW stamp, Sorted(stamp, max), NEW ts \in Int
  PROVE  IsLastAt(FindTimestampEpoch(stamp, max, ts), stamp, max, ts)
<1> DEFINE V == 0..max
           D == V \X V
           mid(r) == (r[1] + r[2] + 1) \div 2
           Body(f, r) == IF r[1] >= r[2] THEN r[1]
                         ELSE IF stamp[mid(r)] <= ts THEN f[<<mid(r), r[2]>>]
                                                     ELSE f[<<r[1], mid(r) - 1>>]
           rank == [r \in D |-> IF r[1] >= r[2] THEN 0 ELSE r[2] - r[1]]
           step == [r \in D |-> [f \in [D -> V] |-> Body(f, r)]]
           Fix(f) == f = [r \in D |-> Body(f, r)]
           w == CHOOSE f : Fix(f)
<1>1. ASSUME NEW r \in D, r[1] < r[2]
      PROVE  /\ r[1] \in Nat /\ r[2] \in Nat /\ mid(r) \in 1..max
             /\ r[1] < mid(r) /\ mid(r) <= r[2]
             /\ <<mid(r), r[2]>> \in D /\ rank[<<mid(r), r[2]>>] < rank[r]
             /\ <<r[1], mid(r) - 1>> \in D /\ rank[<<r[1], mid(r) - 1>>] < rank[r]
  <2> DEFINE lo == r[1]
             hi == r[2]
             m == mid(r)
  <2>1. lo \in V /\ hi \in V /\ lo \in Nat /\ hi \in Nat /\ hi <= max
    OBVIOUS
  <2>2. m \in Nat /\ lo < m /\ m <= hi
    BY <1>1, <2>1, Midpoint
  <2> HIDE DEF lo, hi, m
  <2>3. m \in V /\ m - 1 \in V /\ m \in 1..max
    BY <2>1, <2>2
  <2>4. <<m, hi>> \in D /\ <<lo, m - 1>> \in D /\ <<lo, hi>> \in D
    BY <2>1, <2>3
  <2>5. r = <<lo, hi>>
    BY DEF lo, hi
  <2>6. /\ rank[<<m, hi>>] = IF m >= hi THEN 0 ELSE hi - m
        /\ rank[<<lo, m - 1>>] = IF lo >= m - 1 THEN 0 ELSE (m - 1) - lo
        /\ rank[r] = IF lo >= hi THEN 0 ELSE hi - lo
    BY <2>4, <2>5
  <2>7. lo < hi
    BY <1>1 DEF lo, hi
  <2> HIDE DEF rank, D
  <2>8. rank[<<m, hi>>] < rank[r] /\ rank[<<lo, m - 1>>] < rank[r]
    BY <2>1, <2>2, <2>6, <2>7
  <2>9. QED
    BY <2>1, <2>2, <2>3, <2>4, <2>8 DEF lo, hi, m
<1>2. rank \in [D -> 0..max]
  OBVIOUS
<1>3. ASSUME NEW r \in D
      PROVE  /\ r[1] \in V /\ r[2] \in V /\ r[1] \in Nat /\ r[2] \in Nat
             /\ r[1] = r[2] => r[1] >= r[2]
             /\ r[1] < r[2] => ~(r[1] >= r[2])
  OBVIOUS
<1> HIDE DEF D, rank, mid
<1>4. ASSUME NEW r \in D, NEW f \in [D -> V] PROVE Body(f, r) \in V
  <2>1. CASE r[1] >= r[2]
    BY <1>3, <2>1
  <2>2. CASE r[1] < r[2]
    <3>1. <<mid(r), r[2]>> \in D /\ <<r[1], mid(r) - 1>> \in D
      BY <1>1, <2>2
    <3>2. f[<<mid(r), r[2]>>] \in V /\ f[<<r[1], mid(r) - 1>>] \in V
      BY <3>1
    <3>3. ~(r[1] >= r[2])
      BY <1>3, <2>2
    <3> HIDE DEF V
    <3>4. QED
      BY <3>2, <3>3
  <2>3. QED
    BY <1>3, <2>1, <2>2
<1>5. step \in [D -> [[D -> V] -> V]]
  <2> HIDE DEF Body, V
  <2>1. QED
    BY <1>4
<1>6. ASSUME NEW r \in D, NEW f \in [D -> V], NEW g \in [D -> V],
             \A e \in D : rank[e] < rank[r] => f[e] = g[e]
      PROVE  step[r][f] = step[r][g]
  <2>1. CASE r[1] >= r[2]
    BY <2>1
  <2>2. CASE r[1] < r[2]
    <3>1. /\ f[<<mid(r), r[2]>>] = g[<<mid(r), r[2]>>]
          /\ f[<<r[1], mid(r) - 1>>] = g[<<r[1], mid(r) - 1>>]
      BY <1>1, <1>6, <2>2
    <3>2. Body(f, r) = Body(g, r)
      BY <3>1
    <3> HIDE DEF Body
    <3>3. QED
      BY <3>2
  <2>3. QED
    BY <1>3, <2>1, <2>2
<1>7. PICK f : Obeys(f, D, V, step)
  <2> HIDE DEF step
  <2>1. LooksDown(D, V, rank, step)
    BY <1>6 DEF LooksDown
  <2>2. 0 \in V
    OBVIOUS
  <2> HIDE DEF V
  <2>3. rank \in [D -> 0..max] /\ max \in Nat
    BY <1>2
  <2>4. QED
    BY <1>5, <2>1, <2>2, <2>3, RecursionExists
<1> HIDE DEF V, Body
<1>8. Fix(f)
  <2>1. f \in [D -> V] /\ \A r \in D : f[r] = step[r][f]
    BY <1>7 DEF Obeys
  <2>2. \A r \in D : f[r] = Body(f, r)
    BY <2>1
  <2>3. QED
    BY <2>1, <2>2
<1>9. Fix(w)
  BY <1>8
<1>10. FindTimestampEpoch(stamp, max, ts) = w[<<0, max>>]
  BY DEF FindTimestampEpoch, D, V, Body, mid
<1> HIDE DEF w
<1>11. \A r \in D : w[r] = Body(w, r)
  BY <1>9
<1> DEFINE Found(r) == /\ \A k \in 1..max : k <= r[1] => stamp[k] <= ts
                       /\ \A k \in 1..max : k > r[2] => ~(stamp[k] <= ts)
           G == {n \in Nat : \A r \in D : rank[r] <= n /\ r[1] <= r[2] /\ Found(r)
                                            => IsLastAt(w[r], stamp, max, ts)}
<1>12. ASSUME NEW r \in D, r[1] = r[2], Found(r)
       PROVE  IsLastAt(w[r], stamp, max, ts)
  <2>0. r[1] >= r[2] /\ r[1] \in V
    BY <1>3, <1>12
  <2>1. w[r] = r[1] /\ r[1] \in V
    BY <1>11, <2>0 DEF Body
  <2>2. \A k \in 1..max : stamp[k] <= ts <=> k <= r[1]
    BY <2>1, <1>12 DEF V
  <2>3. QED
    BY <2>1, <2>2 DEF IsLastAt, V
<1>13. ASSUME NEW r \in D, r[1] < r[2], Found(r), stamp[mid(r)] <= ts
       PROVE  /\ w[r] = w[<<mid(r), r[2]>>] /\ Found(<<mid(r), r[2]>>)
  <2>0. ~(r[1] >= r[2])
    BY <1>3, <1>13
  <2>1. mid(r) \in 1..max
    BY <1>1, <1>13
  <2>2. w[r] = w[<<mid(r), r[2]>>]
    BY <1>11, <1>13, <2>0 DEF Body
  <2>3. \A k \in 1..max : k <= mid(r) => stamp[k] <= ts
    BY <2>1, <1>13 DEF Sorted
  <2>4. QED
    BY <2>2, <2>3, <1>13
<1>14. ASSUME NEW r \in D, r[1] < r[2], Found(r), ~(stamp[mid(r)] <= ts)
       PROVE  /\ w[r] = w[<<r[1], mid(r) - 1>>] /\ Found(<<r[1], mid(r) - 1>>)
  <2>0. ~(r[1] >= r[2])
    BY <1>3, <1>14
  <2>1. mid(r) \in 1..max
    BY <1>1, <1>14
  <2>2. w[r] = w[<<r[1], mid(r) - 1>>]
    BY <1>11, <1>14, <2>0 DEF Body
  <2>3. \A k \in 1..max : k > mid(r) - 1 => ~(stamp[k] <= ts)
    BY <2>1, <1>14 DEF Sorted
  <2>4. QED
    BY <2>2, <2>3, <1>14
<1> HIDE DEF Found
<1>15. 0 \in G
  <2>1. ASSUME NEW r \in D, rank[r] <= 0, r[1] <= r[2] PROVE r[1] = r[2]
    BY <1>3, <2>1 DEF rank, V
  <2>2. QED
    BY <1>12, <2>1
<1>16. ASSUME NEW n \in G PROVE n + 1 \in G
  <2>1. SUFFICES ASSUME NEW r \in D, rank[r] <= n + 1, r[1] <= r[2], Found(r)
                 PROVE  IsLastAt(w[r], stamp, max, ts)
    OBVIOUS
  <2>2. CASE r[1] = r[2]
    BY <1>12, <2>1, <2>2
  <2>3. CASE r[1] < r[2] /\ stamp[mid(r)] <= ts
    <3> DEFINE q == <<mid(r), r[2]>>
    <3>1. q \in D /\ rank[q] < rank[r] /\ q[1] <= q[2]
      BY <1>1, <2>3
    <3>2. w[r] = w[q] /\ Found(q)
      BY <1>13, <2>1, <2>3
    <3> HIDE DEF q
    <3>3. rank[q] <= n
      BY <1>2, <2>1, <3>1
    <3>4. QED
      BY <3>1, <3>2, <3>3
  <2>4. CASE r[1] < r[2] /\ ~(stamp[mid(r)] <= ts)
    <3> DEFINE q == <<r[1], mid(r) - 1>>
    <3>0. r[1] <= mid(r) - 1
      <4>1. r[1] \in Nat /\ mid(r) \in 1..max /\ r[1] < mid(r)
        BY <1>1, <2>4
      <4>2. QED
        BY <4>1
    <3>1. q \in D /\ rank[q] < rank[r] /\ q[1] <= q[2]
      BY <1>1, <2>4, <3>0
    <3>2. w[r] = w[q] /\ Found(q)
      BY <1>14, <2>1, <2>4
    <3> HIDE DEF q
    <3>3. rank[q] <= n
      BY <1>2, <2>1, <3>1
    <3>4. QED
      BY <3>1, <3>2, <3>3
  <2>5. r[1] = r[2] \/ r[1] < r[2]
    BY <1>3, <2>1 DEF V
  <2>6. QED
    BY <2>2, <2>3, <2>4, <2>5
<1>17. max \in G
  <2> HIDE DEF G
  <2>1. G \in SUBSET Nat
    BY DEF G
  <2>2. G = Nat
    BY <1>15, <1>16, <2>1, AllNaturals
  <2>3. QED
    BY <2>2
<1>18. <<0, max>> \in D /\ rank[<<0, max>>] <= max
  <2>1. <<0, max>> \in D
    BY DEF D, V
  <2>2. QED
    BY <1>2, <2>1
<1>19. Found(<<0, max>>)
  BY DEF Found
<1>20. QED
  BY <1>10, <1>17, <1>18, <1>19

-----------------------------------------------------------------------------
(* Types *)

IsVotes(v) ==
  /\ v = [epoch |-> v.epoch, points |-> v.points, slopes |-> v.slopes, tokens |-> v.tokens]
  /\ v.epoch \in Nat
  /\ v.points \in [0..v.epoch -> Point]
  /\ v.slopes \in [0..Horizon -> Int]
  /\ v.tokens \in [Tokens -> Seq(Point)]

LEMMA PointOfType ==
  ASSUME now \in Nat, NEW lock \in Lock
  PROVE  PointOf(lock) \in Point /\ PointOf(lock).ts = now
<1> DEFINE slope == IF lock.end > now THEN lock.amount \div I_YEAR ELSE 0
           bias == slope * (lock.end - now)
<1>1. lock.amount \in Nat /\ lock.end \in Nat
  BY DEF Lock
<1>2. \A a, y \in Nat : y > 0 => a \div y \in Nat
  OBVIOUS
<1>3. slope \in Nat
  BY <1>1, <1>2, Assumed
<1>4. bias \in Nat
  <2>1. CASE lock.end > now
    <3>1. lock.end - now \in Nat
      BY <1>1, <2>1
    <3> HIDE DEF slope
    <3>2. QED
      BY <1>3, <3>1
  <2>2. CASE ~(lock.end > now)
    <3>1. slope = 0 /\ lock.end - now \in Int
      BY <1>1, <2>2
    <3> HIDE DEF slope
    <3>2. QED
      BY <3>1
  <2>3. QED
    BY <2>1, <2>2
<1>5. PointOf(lock) = [bias |-> bias, slope |-> slope, ts |-> now]
  BY DEF PointOf
<1> HIDE DEF bias, slope
<1>6. QED
  BY <1>3, <1>4, <1>5 DEF Point

\* The point the catch-up starts from.
StartPoint(v) == IF v.epoch > 0 THEN v.points[v.epoch]
                                ELSE [bias |-> 0, slope |-> 0, ts |-> now]

\* _updateGlobalPoint only appends, at least one point.
LEMMA UpdateShape ==
  ASSUME now \in 0..MaxTime, NEW v, IsVotes(v)
  PROVE  LET g == UpdateGlobalPoint(v)
             n == WeeksBetween(StartPoint(v).ts, now)
             w == WeeklyPoints(StartPoint(v), now, v.slopes, TRUE)
         IN  /\ IsVotes(g)
             /\ n \in Nat /\ n >= 1
             /\ StartPoint(v) \in Point
             /\ w \in [0..n -> Point]
             /\ g.epoch = v.epoch + n
             /\ g.slopes = v.slopes
             /\ g.tokens = v.tokens
             /\ \A e \in 0..v.epoch : g.points[e] = v.points[e]
             /\ \A i \in 1..n : g.points[v.epoch + i] = w[i]
<1> DEFINE last == StartPoint(v)
           n == WeeksBetween(last.ts, now)
           w == WeeklyPoints(last, now, v.slopes, TRUE)
           g == UpdateGlobalPoint(v)
           all == [e \in 0..(v.epoch + n) |->
                     IF e <= v.epoch THEN v.points[e] ELSE w[e - v.epoch]]
<1>1. now \in Nat /\ now \in 0..Horizon
  BY Assumed
<1>2. last \in Point /\ last.ts \in Nat
  <2>1. last \in Point
    <3>1. CASE v.epoch > 0
      BY <3>1 DEF IsVotes, StartPoint
    <3>2. CASE ~(v.epoch > 0)
      BY <1>1, <3>2 DEF StartPoint, Point
    <3>3. QED
      BY <3>1, <3>2
  <2> HIDE DEF last
  <2>2. QED
    BY <2>1 DEF Point
<1>3. n \in Nat /\ n >= 1
  <2>1. n \in 1..MaxWeeks
    <3> HIDE DEF last
    <3>1. QED
      BY <1>1, <1>2, WeeksCounted
  <2> HIDE DEF n
  <2>2. QED
    BY <2>1, Assumed
<1>4. w \in [0..n -> Point]
  <2>1. last \in PassedPoint(TRUE) /\ TRUE \in BOOLEAN
    BY <1>2 DEF PassedPoint
  <2>2. v.slopes \in [0..Horizon -> Int]
    BY DEF IsVotes
  <2> HIDE DEF last
  <2>3. w \in [0..n -> PassedPoint(TRUE)]
    BY <1>1, <2>1, <2>2, Walk
  <2>4. QED
    BY <2>3 DEF PassedPoint
<1>5. g = [v EXCEPT !.epoch = v.epoch + n, !.points = all]
  BY DEF UpdateGlobalPoint, StartPoint
<1> HIDE DEF last, n, w
<1>6. g = [epoch |-> v.epoch + n, points |-> all, slopes |-> v.slopes, tokens |-> v.tokens]
  <2> HIDE DEF all
  <2>1. QED
    BY <1>5 DEF IsVotes
<1>7. all \in [0..(v.epoch + n) -> Point]
  <2>1. v.epoch \in Nat /\ v.points \in [0..v.epoch -> Point]
    BY DEF IsVotes
  <2>2. ASSUME NEW e \in 0..(v.epoch + n)
        PROVE  (IF e <= v.epoch THEN v.points[e] ELSE w[e - v.epoch]) \in Point
    <3>1. CASE e <= v.epoch
      BY <2>1, <3>1
    <3>2. CASE ~(e <= v.epoch)
      <4>1. e - v.epoch \in 0..n
        BY <1>3, <2>1, <3>2
      <4>2. w[e - v.epoch] \in Point
        BY <1>4, <4>1
      <4>3. QED
        BY <3>2, <4>2
    <3>3. QED
      BY <3>1, <3>2
  <2>3. QED
    BY <2>2
<1>8. \A e \in 0..v.epoch : all[e] = v.points[e]
  BY <1>3 DEF IsVotes
<1>9. \A i \in 1..n : all[v.epoch + i] = w[i]
  <2>1. SUFFICES ASSUME NEW i \in 1..n PROVE all[v.epoch + i] = w[i]
    OBVIOUS
  <2>2. /\ v.epoch + i \in 0..(v.epoch + n) /\ ~(v.epoch + i <= v.epoch)
        /\ (v.epoch + i) - v.epoch = i
    BY <1>3 DEF IsVotes
  <2>3. QED
    BY <2>2
<1> HIDE DEF all
<1>10. /\ g.epoch = v.epoch + n /\ g.points = all
       /\ g.slopes = v.slopes /\ g.tokens = v.tokens
  BY <1>6
<1>11. IsVotes(g)
  <2>1. v.epoch + n \in Nat
    BY <1>3 DEF IsVotes
  <2>2. QED
    BY <1>6, <1>7, <1>10, <2>1 DEF IsVotes
<1>12. QED
  BY <1>2, <1>3, <1>4, <1>8, <1>9, <1>10, <1>11 DEF last, n, w

LEMMA IntExcept ==
  ASSUME NEW S, NEW f \in [S -> Int], NEW x, NEW y, x \in S => y \in Int
  PROVE  [f EXCEPT ![x] = y] \in [S -> Int]
OBVIOUS

\* The last point and the slopes after a lock old became new.
PointAfter(last, o, p) ==
  [bias  |-> NonNeg(last.bias + p.bias - o.bias),
   slope |-> NonNeg(last.slope + p.slope - o.slope),
   ts    |-> last.ts]

SlopesAfter(f, old, new) ==
  LET dropped == IF old.end > now
                 THEN [f EXCEPT ![old.end] = @ + PointOf(old).slope
                         - (IF new.end = old.end THEN PointOf(new).slope ELSE 0)]
                 ELSE f
  IN  IF new.end > now /\ new.end > old.end
      THEN [dropped EXCEPT ![new.end] = @ - PointOf(new).slope] ELSE dropped

\* c is g with one position's lock old become new.
Reshaped(c, g, t, old, new) ==
  /\ IsVotes(c) /\ c.epoch = g.epoch
  /\ c.points = [g.points EXCEPT ![g.epoch] =
                   PointAfter(g.points[g.epoch], PointOf(old), PointOf(new))]
  /\ c.slopes = SlopesAfter(g.slopes, old, new)
  /\ c.tokens = [g.tokens EXCEPT ![t] = Append(g.tokens[t], PointOf(new))]

\* _checkpoint changes the point the catch-up ends with, the two scheduled
\* slopes and one token's history, to which it adds what the new lock is now.
LEMMA CheckpointShape ==
  ASSUME now \in 0..MaxTime, NEW v, IsVotes(v), NEW t \in Tokens,
         NEW old \in Lock, NEW new \in Lock
  PROVE  Reshaped(Checkpoint(v, t, old, new), UpdateGlobalPoint(v), t, old, new)
<1> DEFINE g == UpdateGlobalPoint(v)
           c == Checkpoint(v, t, old, new)
           last == g.points[g.epoch]
           o == PointOf(old)
           p == PointOf(new)
           dropped == IF old.end > now
                      THEN [g.slopes EXCEPT ![old.end] = @ + o.slope
                              - (IF new.end = old.end THEN p.slope ELSE 0)]
                      ELSE g.slopes
           slopes == IF new.end > now /\ new.end > old.end
                     THEN [dropped EXCEPT ![new.end] = @ - p.slope] ELSE dropped
           x == [bias  |-> NonNeg(last.bias + p.bias - o.bias),
                 slope |-> NonNeg(last.slope + p.slope - o.slope),
                 ts    |-> last.ts]
<1>1. IsVotes(g) /\ g.tokens = v.tokens
  BY UpdateShape
<1>2. o \in Point /\ p \in Point
  BY PointOfType
<1>3. c = [g EXCEPT !.points[g.epoch] = x, !.slopes = slopes, !.tokens[t] = Append(@, p)]
  BY DEF Checkpoint
<1> HIDE DEF g, c, o, p
<1>4. last \in Point
  BY <1>1 DEF IsVotes
<1>5. x \in Point
  <2>1. /\ last.bias + p.bias - o.bias \in Int
        /\ last.slope + p.slope - o.slope \in Int
        /\ last.ts \in Nat
    BY <1>2, <1>4 DEF Point
  <2>2. \A i \in Int : NonNeg(i) \in Nat
    BY DEF NonNeg
  <2> HIDE DEF last
  <2>3. QED
    BY <2>1, <2>2 DEF Point
<1>6. slopes \in [0..Horizon -> Int]
  <2>1. g.slopes \in [0..Horizon -> Int] /\ o.slope \in Int /\ p.slope \in Int
    BY <1>1, <1>2 DEF IsVotes, Point
  <2>2. (IF new.end = old.end THEN p.slope ELSE 0) \in Int
    BY <2>1
  <2> DEFINE d == IF new.end = old.end THEN p.slope ELSE 0
             y == g.slopes[old.end] + o.slope - d
             z == dropped[new.end] - p.slope
  <2>3. old.end \in 0..Horizon => y \in Int
    <3>1. d \in Int
      BY <2>2
    <3> HIDE DEF d
    <3>2. old.end \in 0..Horizon => g.slopes[old.end] \in Int
      BY <2>1
    <3>3. QED
      BY <2>1, <3>1, <3>2
  <2>4. [g.slopes EXCEPT ![old.end] = y] \in [0..Horizon -> Int]
    <3> HIDE DEF y
    <3>1. QED
      BY <2>1, <2>3, IntExcept
  <2>5. dropped \in [0..Horizon -> Int]
    BY <2>1, <2>4
  <2> HIDE DEF dropped
  <2>6. new.end \in 0..Horizon => z \in Int
    BY <2>1, <2>5
  <2>7. [dropped EXCEPT ![new.end] = z] \in [0..Horizon -> Int]
    <3> HIDE DEF z
    <3>1. QED
      BY <2>5, <2>6, IntExcept
  <2>8. QED
    BY <2>5, <2>7
<1> HIDE DEF last, x, slopes
<1>7. c = [epoch |-> g.epoch, points |-> [g.points EXCEPT ![g.epoch] = x],
           slopes |-> slopes, tokens |-> [g.tokens EXCEPT ![t] = Append(@, p)]]
  BY <1>1, <1>3 DEF IsVotes
<1>8. /\ c.epoch = g.epoch /\ c.points = [g.points EXCEPT ![g.epoch] = x]
      /\ c.slopes = slopes /\ c.tokens = [g.tokens EXCEPT ![t] = Append(g.tokens[t], p)]
  BY <1>7
<1>9. [g.points EXCEPT ![g.epoch] = x] \in [0..g.epoch -> Point]
  BY <1>1, <1>5 DEF IsVotes
<1>10. [g.tokens EXCEPT ![t] = Append(g.tokens[t], p)] \in [Tokens -> Seq(Point)]
  BY <1>1, <1>2 DEF IsVotes
<1>11. IsVotes(c)
  BY <1>1, <1>6, <1>7, <1>8, <1>9, <1>10 DEF IsVotes
<1>12. /\ x = PointAfter(last, o, p)
       /\ slopes = SlopesAfter(g.slopes, old, new)
  BY DEF x, slopes, o, p, PointAfter, SlopesAfter
<1>13. QED
  BY <1>8, <1>11, <1>12 DEF Reshaped, g, c, last, o, p

LEMMA CheckpointType ==
  ASSUME now \in 0..MaxTime, NEW v, IsVotes(v), NEW t \in Tokens,
         NEW old \in Lock, NEW new \in Lock
  PROVE  IsVotes(Checkpoint(v, t, old, new))
BY CheckpointShape DEF Reshaped

Entry == [ts : Nat, tokenIds : Seq(Tokens)]
Histories == [Users -> Seq(Entry)]

LEMMA CurrentType ==
  ASSUME NEW h \in Histories, NEW u \in Users
  PROVE  /\ CurrentTokens(h, u) \in Seq(Tokens)
         /\ h[u] # <<>> => CurrentTokens(h, u) = h[u][Len(h[u])].tokenIds
         /\ h[u] = <<>> => CurrentTokens(h, u) = <<>>
<1>1. CASE h[u] = <<>>
  BY <1>1 DEF CurrentTokens
<1>2. CASE h[u] # <<>>
  <2>1. h[u] \in Seq(Entry)
    BY DEF Histories
  <2>2. h[u][Len(h[u])] \in Entry
    BY <1>2, <2>1
  <2>3. CurrentTokens(h, u) = h[u][Len(h[u])].tokenIds
    BY <1>2 DEF CurrentTokens, Last
  <2>4. QED
    BY <1>2, <2>2, <2>3 DEF Entry
<1>3. QED
  BY <1>1, <1>2

\* _checkpointUserPositions appends one entry, of now, to one user's history.
LEMMA PositionsShape ==
  ASSUME now \in Nat, NEW h \in Histories, NEW u \in Users, NEW t \in Tokens,
         NEW isIncoming \in BOOLEAN
  PROVE  LET k == CheckpointUserPositions(h, u, t, isIncoming)
             old == CurrentTokens(h, u)
             new == CurrentTokens(k, u)
         IN  /\ k \in Histories
             /\ k = [h EXCEPT ![u] = Append(h[u], [ts |-> now, tokenIds |-> new])]
             /\ ToSet(new) = IF isIncoming THEN ToSet(old) \cup {t} ELSE ToSet(old) \ {t}
             /\ IsInjective(old) /\ (isIncoming => t \notin ToSet(old)) => IsInjective(new)
<1> DEFINE old == CurrentTokens(h, u)
           upd == IF isIncoming THEN Append(old, t) ELSE Without(old, t)
           x == [ts |-> now, tokenIds |-> upd]
           k == CheckpointUserPositions(h, u, t, isIncoming)
<1>1. old \in Seq(Tokens)
  BY CurrentType
<1>2. /\ upd \in Seq(Tokens)
      /\ ToSet(upd) = IF isIncoming THEN ToSet(old) \cup {t} ELSE ToSet(old) \ {t}
      /\ IsInjective(old) /\ (isIncoming => t \notin ToSet(old)) => IsInjective(upd)
  <2> HIDE DEF old
  <2>1. CASE isIncoming
    BY <1>1, <2>1, AppendElements
  <2>2. CASE ~isIncoming
    BY <1>1, <2>2, WithoutRemoves
  <2>3. QED
    BY <2>1, <2>2
<1>3. k = [h EXCEPT ![u] = Append(h[u], x)]
  BY DEF CheckpointUserPositions
<1> HIDE DEF upd
<1>4. x \in Entry
  BY <1>2 DEF Entry
<1> HIDE DEF k
<1>5. h[u] \in Seq(Entry)
  BY DEF Histories
<1>6. /\ Append(h[u], x) \in Seq(Entry) /\ Append(h[u], x) # <<>>
      /\ Append(h[u], x)[Len(Append(h[u], x))] = x
  <2> HIDE DEF x
  <2>1. QED
    BY <1>4, <1>5
<1>7. k \in Histories /\ k[u] = Append(h[u], x)
  <2> HIDE DEF x
  <2>1. QED
    BY <1>3, <1>6 DEF Histories
<1>8. CurrentTokens(k, u) = upd
  BY <1>6, <1>7 DEF CurrentTokens, Last
<1>9. QED
  BY <1>2, <1>3, <1>7, <1>8 DEF k

LEMMA HistoryType ==
  ASSUME TypeOK
  PROVE  now \in Nat /\ now \in 0..MaxTime /\ userTokenHistory \in Histories
<1>1. now \in 0..MaxTime /\ now \in Nat
  BY Assumed DEF TypeOK
<1>2. userTokenHistory \in [Users -> Seq([ts : Nat, tokenIds : Seq(Tokens)])]
  BY DEF TypeOK
<1>3. userTokenHistory \in Histories
  BY <1>2 DEF Histories, Entry
<1>4. QED
  BY <1>1, <1>3

LEMMA MoveType ==
  ASSUME TypeOK, NEW from \in Users \cup {NoOne}, NEW to \in Users \cup {NoOne},
         NEW t \in Tokens, MoveToken(from, to, t)
  PROVE  /\ userTokenHistory' \in Histories
         /\ ownerOf' \in [Tokens -> Users \cup {NoOne}]
<1> DEFINE out == IF from = NoOne THEN userTokenHistory
                  ELSE CheckpointUserPositions(userTokenHistory, from, t, FALSE)
<1>1. now \in Nat /\ userTokenHistory \in Histories
  BY HistoryType
<1>2. out \in Histories
  <2>1. CASE from = NoOne
    BY <1>1, <2>1
  <2>2. CASE from # NoOne
    <3>1. from \in Users
      BY <2>2
    <3>2. QED
      BY <1>1, <2>2, <3>1, PositionsShape
  <2>3. QED
    BY <2>1, <2>2
<1>3. userTokenHistory' = IF to = NoOne THEN out
                          ELSE CheckpointUserPositions(out, to, t, TRUE)
  BY DEF MoveToken
<1> HIDE DEF out
<1>4. userTokenHistory' \in Histories
  <2>1. CASE to = NoOne
    BY <1>2, <1>3, <2>1
  <2>2. CASE to # NoOne
    <3>1. to \in Users
      BY <2>2
    <3>2. QED
      BY <1>1, <1>2, <1>3, <2>2, <3>1, PositionsShape
  <2>3. QED
    BY <2>1, <2>2
<1>5. ownerOf' = [ownerOf EXCEPT ![t] = to]
  BY DEF MoveToken
<1>6. ownerOf' \in [Tokens -> Users \cup {NoOne}]
  BY <1>5 DEF TypeOK
<1>7. QED
  BY <1>4, <1>6

\* The types of the voting power alone.
VotesOK ==
  /\ epoch \in Nat
  /\ pointHistory \in [0..epoch -> Point]
  /\ slopeChanges \in [0..Horizon -> Int]
  /\ tokenPointHistory \in [Tokens -> Seq(Point)]
  /\ lagged \in BOOLEAN

LEMMA VotesType == ASSUME TypeOK PROVE IsVotes(Votes)
BY DEF TypeOK, Votes, IsVotes

LEMMA RecordType == ASSUME TypeOK, NEW v, IsVotes(v), Record(v) PROVE VotesOK'
BY DEF IsVotes, Record, VotesOK, TypeOK

LEMMA VotesSame == ASSUME TypeOK, UNCHANGED voteVars PROVE VotesOK'
BY DEF TypeOK, VotesOK, voteVars

\* The types of what the deposits change.
FundsOK ==
  /\ {totalTokenLocked, held, stranded} \subseteq Nat
  /\ lockedBalances \in [Tokens -> Lock]

LEMMA NoLockType == NoLock \in Lock
BY DEF NoLock, Lock

LEMMA LockType ==
  ASSUME TypeOK, NEW t \in Tokens
  PROVE  /\ lockedBalances[t] \in Lock
         /\ lockedBalances[t].amount \in Nat /\ lockedBalances[t].end \in Nat
<1>1. lockedBalances[t] \in Lock
  BY DEF TypeOK
<1>2. QED
  BY <1>1 DEF Lock

LEMMA DepositType ==
  ASSUME TypeOK, NEW t \in Tokens, NEW value \in Nat, NEW unlockTime \in Nat,
         DepositInto(t, value, unlockTime)
  PROVE  FundsOK' /\ VotesOK'
<1> DEFINE old == lockedBalances[t]
           new == Deposited(old, value, unlockTime)
<1>1. old \in Lock /\ old.amount \in Nat /\ old.end \in Nat
  BY LockType
<1>2. new \in Lock
  <2> HIDE DEF old
  <2>1. old.amount + value \in Nat
    BY <1>1
  <2>2. QED
    BY <1>1, <2>1 DEF Deposited, Lock
<1>3. /\ totalTokenLocked' = totalTokenLocked + value /\ held' = held + value
      /\ stranded' = stranded
      /\ lockedBalances' = [lockedBalances EXCEPT ![t] = new]
      /\ Record(Checkpoint(Votes, t, old, new))
  BY DEF DepositInto
<1> HIDE DEF old, new
<1>4. FundsOK'
  <2>1. /\ totalTokenLocked \in Nat /\ held \in Nat /\ stranded \in Nat
        /\ lockedBalances \in [Tokens -> Lock]
    BY DEF TypeOK
  <2>2. lockedBalances' \in [Tokens -> Lock]
    BY <1>2, <1>3, <2>1
  <2>3. totalTokenLocked' \in Nat /\ held' \in Nat /\ stranded' \in Nat
    BY <1>3, <2>1
  <2>4. QED
    BY <2>2, <2>3 DEF FundsOK
<1>5. now \in 0..MaxTime
  BY DEF TypeOK
<1>6. IsVotes(Checkpoint(Votes, t, old, new))
  BY <1>1, <1>2, <1>5, VotesType, CheckpointType
<1>7. QED
  BY <1>3, <1>4, <1>6, RecordType

\* The types of ownership.
OwnersOK ==
  /\ tokenIds \in 0..MaxTokens
  /\ ownerOf \in [Tokens -> Users \cup {NoOne}]
  /\ userTokenHistory \in Histories

LEMMA TypeParts ==
  TypeOK <=> now \in 0..MaxTime /\ FundsOK /\ VotesOK /\ OwnersOK
BY DEF TypeOK, FundsOK, VotesOK, OwnersOK, Histories, Entry

LEMMA TypePartsNext ==
  now' \in 0..MaxTime /\ FundsOK' /\ VotesOK' /\ OwnersOK' => TypeOK'
BY DEF TypeOK, FundsOK, VotesOK, OwnersOK, Histories, Entry

LEMMA InitType == Init => TypeOK
<1> SUFFICES ASSUME Init PROVE TypeOK
  OBVIOUS
<1>1. now \in 0..MaxTime
  BY Assumed DEF Init
<1>2. FundsOK
  <2>1. lockedBalances \in [Tokens -> Lock]
    BY NoLockType DEF Init
  <2>2. QED
    BY <2>1 DEF Init, FundsOK
<1>3. VotesOK
  <2>1. [bias |-> 0, slope |-> 0, ts |-> DeployTime] \in Point
    BY Assumed DEF Point
  <2>2. epoch = 0 /\ 0..epoch = {0}
    BY DEF Init
  <2>3. pointHistory \in [0..epoch -> Point]
    BY <2>1, <2>2 DEF Init
  <2>4. tokenPointHistory \in [Tokens -> Seq(Point)]
    BY DEF Init
  <2>5. slopeChanges \in [0..Horizon -> Int]
    BY DEF Init
  <2>6. QED
    <3>1. epoch \in Nat
      BY <2>2
    <3>2. lagged \in BOOLEAN
      <4>1. lagged = FALSE
        BY DEF Init
      <4>2. QED
        BY <4>1
    <3>3. QED
      BY <2>3, <2>4, <2>5, <3>1, <3>2 DEF VotesOK
<1>4. OwnersOK
  <2>1. userTokenHistory \in Histories
    BY DEF Init, Histories
  <2>2. 0 \in 0..MaxTokens
    BY Assumed
  <2>3. QED
    BY <2>1, <2>2 DEF Init, OwnersOK
<1>5. QED
  BY <1>1, <1>2, <1>3, <1>4, TypeParts

LEMMA RoundedType == ASSUME NEW ts \in Nat PROVE Rounded(ts) \in Nat
BY WeekStart DEF Rounded

LEMMA NextType == ASSUME TypeOK, [Next]_vars PROVE TypeOK'
<1>1. now \in 0..MaxTime /\ FundsOK /\ VotesOK /\ OwnersOK
  BY TypeParts
<1>2. ASSUME now' = now, FundsOK', VotesOK', OwnersOK' PROVE TypeOK'
  BY <1>1, <1>2, TypePartsNext
<1>3. UNCHANGED <<fundVars, lockedBalances>> => FundsOK'
  BY <1>1 DEF FundsOK, fundVars
<1>4. UNCHANGED voteVars => VotesOK'
  BY <1>1 DEF VotesOK, voteVars
<1>5. UNCHANGED nftVars => OwnersOK'
  BY <1>1 DEF OwnersOK, nftVars
<1>6. ASSUME NEW from \in Users \cup {NoOne}, NEW to \in Users \cup {NoOne},
             NEW t \in Tokens, MoveToken(from, to, t), tokenIds' \in 0..MaxTokens
      PROVE  OwnersOK'
  BY <1>6, MoveType DEF OwnersOK
<1>7. ASSUME NEW u \in Users, NEW value \in Amounts, NEW ts \in UnlockTimes,
             CreateLock(u, value, ts)
      PROVE  TypeOK'
  <2> DEFINE t == tokenIds + 1
  <2>1. /\ t \in Tokens /\ tokenIds' = t /\ MoveToken(NoOne, u, t)
        /\ DepositInto(t, value, Rounded(ts)) /\ now' = now
    BY <1>7 DEF CreateLock
  <2>2. value \in Nat /\ Rounded(ts) \in Nat
    BY RoundedType, VeAssumption
  <2>3. tokenIds' \in 0..MaxTokens
    BY <2>1, Assumed DEF Tokens
  <2> HIDE DEF t
  <2>4. QED
    BY <1>2, <1>6, <2>1, <2>2, <2>3, DepositType
<1>8. ASSUME NEW t \in Tokens, NEW value \in Nat, NEW end \in Nat,
             DepositInto(t, value, end), UNCHANGED <<now, nftVars>>
      PROVE  TypeOK'
  BY <1>2, <1>5, <1>8, DepositType
<1>9. ASSUME NEW a \in Users \cup {NoOne}, NEW t \in Tokens, NEW value \in Amounts,
             DepositFor(a, t, value) \/ IncreaseAmount(a, t, value)
      PROVE  TypeOK'
  <2>1. DepositInto(t, value, 0) /\ UNCHANGED <<now, nftVars>>
    BY <1>9 DEF DepositFor, IncreaseAmount
  <2>2. value \in Nat /\ 0 \in Nat
    BY VeAssumption
  <2>3. QED
    BY <1>8, <2>1, <2>2
<1>10. ASSUME NEW u \in Users, NEW t \in Tokens, NEW ts \in UnlockTimes,
              IncreaseUnlockTime(u, t, ts)
       PROVE  TypeOK'
  <2>1. DepositInto(t, 0, Rounded(ts)) /\ UNCHANGED <<now, nftVars>>
    BY <1>10 DEF IncreaseUnlockTime
  <2>2. Rounded(ts) \in Nat /\ 0 \in Nat
    BY RoundedType, VeAssumption
  <2>3. QED
    BY <1>8, <2>1, <2>2
<1>11. ASSUME NEW u \in Users, NEW t \in Tokens, Withdraw(u, t)
       PROVE  TypeOK'
  <2> DEFINE lock == lockedBalances[t]
  <2>1. lock \in Lock /\ lock.amount \in Nat
    BY LockType
  <2>2. /\ lock.amount <= totalTokenLocked /\ lock.amount <= held
        /\ lockedBalances' = [lockedBalances EXCEPT ![t] = NoLock]
        /\ totalTokenLocked' = totalTokenLocked - lock.amount
        /\ held' = held - lock.amount
        /\ stranded' = stranded
        /\ Record(Checkpoint(Votes, t, lock, NoLock))
        /\ MoveToken(u, NoOne, t) /\ now' = now /\ tokenIds' = tokenIds
    BY <1>11 DEF Withdraw
  <2> HIDE DEF lock
  <2>3. FundsOK'
    BY <1>1, <2>1, <2>2, NoLockType DEF FundsOK
  <2>4. IsVotes(Checkpoint(Votes, t, lock, NoLock))
    BY <1>1, <2>1, NoLockType, VotesType, CheckpointType
  <2>5. VotesOK'
    BY <2>2, <2>4, RecordType
  <2>6. OwnersOK'
    BY <1>1, <1>6, <2>2 DEF OwnersOK
  <2>7. QED
    BY <1>2, <2>2, <2>3, <2>5, <2>6
<1>12. ASSUME NEW u \in Users, NEW t \in Tokens, NEW s \in Tokens, MergePositions(u, t, s)
       PROVE  TypeOK'
  <2> DEFINE p == lockedBalances[t]
             q == lockedBalances[s]
             merged == [amount |-> p.amount + q.amount, end |-> Max({p.end, q.end})]
             c == Checkpoint(Votes, t, p, merged)
  <2>1. /\ p \in Lock /\ p.amount \in Nat /\ p.end \in Nat
        /\ q \in Lock /\ q.amount \in Nat /\ q.end \in Nat
    BY LockType
  <2>2. /\ lockedBalances' = [lockedBalances EXCEPT ![s] = NoLock]
        /\ stranded' = stranded + q.amount
        /\ totalTokenLocked' = totalTokenLocked /\ held' = held
        /\ Record(Checkpoint(c, s, q, NoLock))
        /\ MoveToken(u, NoOne, s) /\ now' = now /\ tokenIds' = tokenIds
    BY <1>12 DEF MergePositions
  <2> HIDE DEF p, q
  <2>3. merged \in Lock
    <3>1. Max({p.end, q.end}) = IF p.end >= q.end THEN p.end ELSE q.end
      BY <2>1, MaxOfTwo
    <3>2. Max({p.end, q.end}) \in Nat /\ p.amount + q.amount \in Nat
      BY <2>1, <3>1
    <3>3. QED
      BY <3>2 DEF Lock
  <2> HIDE DEF merged
  <2>4. FundsOK'
    BY <1>1, <2>1, <2>2, NoLockType DEF FundsOK
  <2>5. IsVotes(c)
    BY <1>1, <2>1, <2>3, VotesType, CheckpointType
  <2> HIDE DEF c
  <2>6. IsVotes(Checkpoint(c, s, q, NoLock))
    BY <1>1, <2>1, <2>5, NoLockType, CheckpointType
  <2>7. VotesOK'
    BY <2>2, <2>6, RecordType
  <2>8. OwnersOK'
    BY <1>1, <1>6, <2>2 DEF OwnersOK
  <2>9. QED
    BY <1>2, <2>2, <2>4, <2>7, <2>8
<1>13. ASSUME GlobalCheckpoint PROVE TypeOK'
  <2>1. IsVotes(UpdateGlobalPoint(Votes))
    BY <1>1, VotesType, UpdateShape
  <2>2. Record(UpdateGlobalPoint(Votes)) /\ UNCHANGED <<now, fundVars, lockedBalances, nftVars>>
    BY <1>13 DEF GlobalCheckpoint
  <2>3. VotesOK'
    BY <2>1, <2>2, RecordType
  <2>4. QED
    BY <1>2, <1>3, <1>5, <2>2, <2>3
<1>14. ASSUME NEW u \in Users, NEW w \in Users, NEW t \in Tokens, Transfer(u, w, t)
       PROVE  TypeOK'
  <2>1. MoveToken(u, w, t) /\ UNCHANGED <<now, fundVars, lockedBalances, voteVars, tokenIds>>
    BY <1>14 DEF Transfer
  <2>2. OwnersOK'
    BY <1>1, <1>6, <2>1 DEF OwnersOK
  <2>3. QED
    BY <1>2, <1>3, <1>4, <2>1, <2>2
<1>15. ASSUME NEW u \in Users, NEW t \in Tokens, Burn(u, t)
       PROVE  TypeOK'
  <2>1. MoveToken(u, NoOne, t) /\ UNCHANGED <<now, fundVars, lockedBalances, voteVars, tokenIds>>
    BY <1>15 DEF Burn
  <2>2. OwnersOK'
    BY <1>1, <1>6, <2>1 DEF OwnersOK
  <2>3. QED
    BY <1>2, <1>3, <1>4, <2>1, <2>2
<1>16. ASSUME Tick PROVE TypeOK'
  <2>1. now' \in 0..MaxTime
    BY <1>1, <1>16, Assumed DEF Tick
  <2>2. FundsOK' /\ VotesOK' /\ OwnersOK'
    BY <1>3, <1>4, <1>5, <1>16 DEF Tick
  <2>3. QED
    BY <2>1, <2>2, TypePartsNext
<1>17. ASSUME UNCHANGED vars PROVE TypeOK'
  BY <1>2, <1>3, <1>4, <1>5, <1>17 DEF vars
<1>18. QED
  BY <1>7, <1>9, <1>10, <1>11, <1>12, <1>13, <1>14, <1>15, <1>16, <1>17
     DEF Next, LockNext

\* Every reachable state is well typed: no bias or slope recorded for the
\* supply or a position is ever negative, and every entry has its place.
THEOREM TypeCorrect == Spec => []TypeOK
<1>1. Init => TypeOK
  BY InitType
<1>2. TypeOK /\ [Next]_vars => TypeOK'
  BY NextType
<1>3. QED
  BY <1>1, <1>2, PTL DEF Spec

\* The runs without merges take the same steps.
LEMMA LockStep == [LockNext]_vars => [Next]_vars
BY DEF Next

LEMMA LocksTyped == LockSpec => []TypeOK
<1>1. Init => TypeOK
  BY InitType
<1>2. TypeOK /\ [LockNext]_vars => TypeOK'
  BY NextType, LockStep
<1>3. QED
  BY <1>1, <1>2, PTL DEF LockSpec

-----------------------------------------------------------------------------
(* Custody *)

AmountsLocked == [t \in Tokens |-> lockedBalances[t].amount]

LEMMA TokensFinite == IsFiniteSet(Tokens)
<1>1. 1 \in Int /\ MaxTokens \in Int
  BY Assumed
<1>2. QED
  BY <1>1, FS_Interval DEF Tokens

LEMMA LocksSummed ==
  ASSUME TypeOK
  PROVE  /\ SumOfLocks = SumFunctionOnSet(AmountsLocked, Tokens)
         /\ AmountsLocked \in [Tokens -> Int]
         /\ SumOfLocks \in Nat
<1>1. \A t \in Tokens : AmountsLocked[t] \in Nat
  BY LockType DEF AmountsLocked
<1>2. DOMAIN AmountsLocked = Tokens /\ AmountsLocked = [t \in Tokens |-> AmountsLocked[t]]
  BY DEF AmountsLocked
<1>3. SumOfLocks = SumFunctionOnSet(AmountsLocked, Tokens)
  <2>1. SumOfLocks = SumFunction(AmountsLocked)
    BY DEF SumOfLocks, AmountsLocked
  <2>2. QED
    BY <1>2, <2>1, SumOver
<1>4. AmountsLocked \in [Tokens -> Int]
  BY <1>1, <1>2
<1>5. SumOfLocks \in Nat
  BY <1>1, <1>3, TokensFinite, SumNat
<1>6. QED
  BY <1>3, <1>4, <1>5

LEMMA LocksChange ==
  ASSUME TypeOK, NEW t \in Tokens, NEW lock \in Lock,
         lockedBalances' = [lockedBalances EXCEPT ![t] = lock]
  PROVE  SumOfLocks' = SumOfLocks + (lock.amount - lockedBalances[t].amount)
<1> DEFINE f == AmountsLocked
           g == [f EXCEPT ![t] = lock.amount]
<1>1. lock.amount \in Int
  BY DEF Lock
<1>2. SumOfLocks' = SumFunction([k \in Tokens |-> lockedBalances'[k].amount])
  BY DEF SumOfLocks
<1>3. [k \in Tokens |-> lockedBalances'[k].amount] = g
  BY DEF AmountsLocked, TypeOK
<1>4. f[t] = lockedBalances[t].amount
  BY DEF AmountsLocked
<1>5. f \in [Tokens -> Int] /\ SumOfLocks = SumFunctionOnSet(f, Tokens)
  BY LocksSummed
<1> HIDE DEF f
<1>6. SumFunctionOnSet(g, Tokens) = SumFunctionOnSet(f, Tokens) + (lock.amount - f[t])
  BY <1>1, <1>5, TokensFinite, SumExcept
<1>7. DOMAIN g = Tokens
  BY <1>5
<1> HIDE DEF g
<1>8. SumFunction(g) = SumFunctionOnSet(g, Tokens)
  BY <1>7, SumOver
<1>9. QED
  BY <1>2, <1>3, <1>4, <1>5, <1>6, <1>8

\* A deposit adds the same amount to a lock, to the total and to the balance.
LEMMA DepositCustody ==
  ASSUME TypeOK, MergedIsStranded, NEW t \in Tokens, NEW value \in Nat,
         NEW unlockTime \in Nat, DepositInto(t, value, unlockTime)
  PROVE  MergedIsStranded' /\ stranded' = stranded
<1> DEFINE old == lockedBalances[t]
           new == Deposited(old, value, unlockTime)
<1>1. old.amount \in Nat /\ old.end \in Nat
  BY LockType
<1> HIDE DEF old
<1>2. new \in Lock /\ new.amount = old.amount + value
  <2>1. old.amount + value \in Nat
    BY <1>1
  <2>2. QED
    BY <1>1, <2>1 DEF Deposited, Lock
<1>3. /\ totalTokenLocked' = totalTokenLocked + value /\ held' = held + value
      /\ stranded' = stranded
      /\ lockedBalances' = [lockedBalances EXCEPT ![t] = new]
  BY DEF DepositInto, old
<1> HIDE DEF new
<1>4. SumOfLocks' = SumOfLocks + (new.amount - old.amount)
  BY <1>2, <1>3, LocksChange DEF old
<1>5. SumOfLocks \in Nat /\ held \in Nat /\ stranded \in Nat /\ totalTokenLocked \in Nat
  BY LocksSummed DEF TypeOK
<1>6. SumOfLocks' = SumOfLocks + value
  BY <1>1, <1>2, <1>4, <1>5
<1>7. totalTokenLocked = held /\ held = SumOfLocks + stranded
  BY DEF MergedIsStranded
<1>8. totalTokenLocked' = held' /\ held' = SumOfLocks' + stranded'
  BY <1>3, <1>5, <1>6, <1>7
<1>9. QED
  BY <1>3, <1>8 DEF MergedIsStranded

LEMMA NoDepositCustody ==
  ASSUME MergedIsStranded, UNCHANGED <<fundVars, lockedBalances>>
  PROVE  MergedIsStranded' /\ stranded' = stranded
BY DEF MergedIsStranded, SumOfLocks, fundVars

LEMMA LocksCustody ==
  ASSUME TypeOK, MergedIsStranded, [LockNext]_vars
  PROVE  MergedIsStranded' /\ stranded' = stranded
<1>1. ASSUME NEW u \in Users, NEW value \in Amounts, NEW ts \in UnlockTimes,
             CreateLock(u, value, ts)
      PROVE  MergedIsStranded' /\ stranded' = stranded
  <2>1. tokenIds + 1 \in Tokens /\ DepositInto(tokenIds + 1, value, Rounded(ts))
    BY <1>1 DEF CreateLock
  <2>2. value \in Nat /\ Rounded(ts) \in Nat
    BY RoundedType, VeAssumption
  <2>3. QED
    BY <2>1, <2>2, DepositCustody
<1>2. ASSUME NEW a \in Users \cup {NoOne}, NEW t \in Tokens, NEW value \in Amounts,
             DepositFor(a, t, value) \/ IncreaseAmount(a, t, value)
      PROVE  MergedIsStranded' /\ stranded' = stranded
  <2>1. DepositInto(t, value, 0) /\ value \in Nat /\ 0 \in Nat
    BY <1>2, VeAssumption DEF DepositFor, IncreaseAmount
  <2>2. QED
    BY <2>1, DepositCustody
<1>3. ASSUME NEW u \in Users, NEW t \in Tokens, NEW ts \in UnlockTimes,
             IncreaseUnlockTime(u, t, ts)
      PROVE  MergedIsStranded' /\ stranded' = stranded
  <2>1. DepositInto(t, 0, Rounded(ts)) /\ Rounded(ts) \in Nat /\ 0 \in Nat
    BY <1>3, RoundedType, VeAssumption DEF IncreaseUnlockTime
  <2>2. QED
    BY <2>1, DepositCustody
<1>4. ASSUME NEW u \in Users, NEW t \in Tokens, Withdraw(u, t)
      PROVE  MergedIsStranded' /\ stranded' = stranded
  <2> DEFINE amount == lockedBalances[t].amount
  <2>1. /\ lockedBalances' = [lockedBalances EXCEPT ![t] = NoLock]
        /\ totalTokenLocked' = totalTokenLocked - amount
        /\ held' = held - amount /\ stranded' = stranded
    BY <1>4 DEF Withdraw
  <2>2. amount \in Nat
    BY LockType
  <2>3. SumOfLocks' = SumOfLocks + (NoLock.amount - amount) /\ NoLock.amount = 0
    BY <2>1, NoLockType, LocksChange DEF NoLock
  <2>4. SumOfLocks \in Nat /\ held \in Nat /\ stranded \in Nat /\ totalTokenLocked \in Nat
    BY LocksSummed DEF TypeOK
  <2> HIDE DEF amount
  <2>5. SumOfLocks' = SumOfLocks - amount
    BY <2>2, <2>3, <2>4
  <2>6. totalTokenLocked = held /\ held = SumOfLocks + stranded
    BY DEF MergedIsStranded
  <2>7. totalTokenLocked' = held' /\ held' = SumOfLocks' + stranded'
    BY <2>1, <2>2, <2>4, <2>5, <2>6
  <2>8. QED
    BY <2>1, <2>7 DEF MergedIsStranded
<1>5. ASSUME UNCHANGED <<fundVars, lockedBalances>>
      PROVE  MergedIsStranded' /\ stranded' = stranded
  BY <1>5, NoDepositCustody
<1>6. GlobalCheckpoint => UNCHANGED <<fundVars, lockedBalances>>
  BY DEF GlobalCheckpoint
<1>7. ASSUME NEW u \in Users, NEW w \in Users, NEW t \in Tokens,
             Transfer(u, w, t) \/ Burn(u, t)
      PROVE  UNCHANGED <<fundVars, lockedBalances>>
  BY <1>7 DEF Transfer, Burn
<1>8. Tick \/ UNCHANGED vars => UNCHANGED <<fundVars, lockedBalances>>
  BY DEF Tick, vars
<1>9. QED
  BY <1>1, <1>2, <1>3, <1>4, <1>5, <1>6, <1>7, <1>8 DEF LockNext

LEMMA MergeCustody ==
  ASSUME TypeOK, MergedIsStranded, NEW u \in Users, NEW t \in Tokens, NEW s \in Tokens,
         MergePositions(u, t, s)
  PROVE  MergedIsStranded'
<1> DEFINE amount == lockedBalances[s].amount
<1>1. /\ lockedBalances' = [lockedBalances EXCEPT ![s] = NoLock]
      /\ totalTokenLocked' = totalTokenLocked /\ held' = held
      /\ stranded' = stranded + amount
  BY DEF MergePositions
<1>2. amount \in Nat
  BY LockType
<1>3. SumOfLocks' = SumOfLocks + (NoLock.amount - amount) /\ NoLock.amount = 0
  BY <1>1, NoLockType, LocksChange DEF NoLock
<1>4. SumOfLocks \in Nat /\ held \in Nat /\ stranded \in Nat
  BY LocksSummed DEF TypeOK
<1>5. totalTokenLocked = held /\ held = SumOfLocks + stranded
  BY DEF MergedIsStranded
<1> HIDE DEF amount
<1>6. held' = SumOfLocks' + stranded'
  BY <1>1, <1>2, <1>3, <1>4, <1>5
<1>7. QED
  BY <1>1, <1>5, <1>6 DEF MergedIsStranded

LEMMA InitCustody == Init => MergedIsStranded /\ stranded = 0
<1> SUFFICES ASSUME Init PROVE MergedIsStranded /\ stranded = 0
  OBVIOUS
<1>1. TypeOK
  BY InitType
<1>2. SumOfLocks = SumFunctionOnSet(AmountsLocked, Tokens)
  BY <1>1, LocksSummed
<1>3. \A t \in Tokens : AmountsLocked[t] = 0
  BY DEF AmountsLocked, Init, NoLock
<1>4. SumOfLocks = 0
  BY <1>2, <1>3, TokensFinite, SumZero
<1>5. QED
  BY <1>4 DEF Init, MergedIsStranded

\* Whatever was merged or burnt, custody pays every lock; what merged-away
\* locks held stays behind, and nothing else does.
THEOREM MergesStrand == Spec => []MergedIsStranded
<1>1. Init => MergedIsStranded
  BY InitCustody
<1>2. TypeOK /\ MergedIsStranded /\ [Next]_vars => MergedIsStranded'
  BY LocksCustody, MergeCustody DEF Next
<1>3. QED
  BY <1>1, <1>2, TypeCorrect, PTL DEF Spec

\* Without merges the balance, the total the contract keeps and the open
\* locks agree.
THEOREM LocksBacked == LockSpec => []LocksBackTotal
<1> DEFINE Inv == MergedIsStranded /\ stranded = 0
<1>1. Init => Inv
  BY InitCustody
<1>2. TypeOK /\ Inv /\ [LockNext]_vars => Inv'
  BY LocksCustody
<1>3. TypeOK /\ Inv => LocksBackTotal
  <2> SUFFICES ASSUME TypeOK, Inv PROVE LocksBackTotal
    OBVIOUS
  <2>1. SumOfLocks \in Nat
    BY LocksSummed
  <2>2. QED
    BY <2>1 DEF MergedIsStranded, LocksBackTotal
<1>4. QED
  BY <1>1, <1>2, <1>3, LocksTyped, PTL DEF LockSpec

-----------------------------------------------------------------------------
(* Histories: sequences of entries that carry a timestamp *)

\* The entries of h are in the order of their timestamps, none after n.
Ordered(h, n) ==
  /\ \A k \in 1..Len(h) : h[k].ts \in Nat /\ h[k].ts <= n
  /\ \A j, k \in 1..Len(h) : j <= k => h[j].ts <= h[k].ts

EpochAt(h, ts) == FindTimestampEpoch([k \in DOMAIN h |-> h[k].ts], Len(h), ts)

\* e is the last of the entries h that is not later than ts, or 0.
InForce(e, h, ts) ==
  /\ e \in 0..Len(h)
  /\ \A k \in 1..Len(h) : h[k].ts <= ts <=> k <= e

LEMMA EpochFound ==
  ASSUME NEW S, NEW h \in Seq(S), NEW n, Ordered(h, n), NEW ts \in Int
  PROVE  InForce(EpochAt(h, ts), h, ts)
<1> DEFINE stamp == [k \in DOMAIN h |-> h[k].ts]
           max == Len(h)
<1>1. max \in Nat /\ DOMAIN h = 1..max
  OBVIOUS
<1>2. \A k \in 1..max : stamp[k] = h[k].ts
  BY <1>1
<1> HIDE DEF stamp, max
<1>3. Sorted(stamp, max)
  BY <1>2 DEF Sorted, Ordered, max
<1>4. IsLastAt(FindTimestampEpoch(stamp, max, ts), stamp, max, ts)
  BY <1>1, <1>3, SearchFinds
<1>5. EpochAt(h, ts) = FindTimestampEpoch(stamp, max, ts)
  BY DEF EpochAt, stamp, max
<1>6. QED
  BY <1>2, <1>4, <1>5 DEF IsLastAt, InForce, max

\* From the last timestamp on, the last entry is in force.
LEMMA EpochLast ==
  ASSUME NEW S, NEW h \in Seq(S), NEW n \in Nat, Ordered(h, n), NEW ts \in Nat, n <= ts
  PROVE  EpochAt(h, ts) = Len(h)
<1>1. Len(h) \in Nat
  OBVIOUS
<1>2. EpochAt(h, ts) \in 0..Len(h) /\ \A k \in 1..Len(h) : h[k].ts <= ts => k <= EpochAt(h, ts)
  <2>1. ts \in Int
    OBVIOUS
  <2>2. InForce(EpochAt(h, ts), h, ts)
    BY <2>1, EpochFound
  <2>3. QED
    BY <2>2 DEF InForce
<1>3. CASE Len(h) = 0
  BY <1>2, <1>3
<1>4. CASE Len(h) # 0
  <2>1. Len(h) \in 1..Len(h)
    BY <1>1, <1>4
  <2>2. h[Len(h)].ts <= ts
    BY <2>1 DEF Ordered
  <2>3. QED
    BY <1>1, <1>2, <2>1, <2>2
<1>5. QED
  BY <1>3, <1>4

\* The entries h and a are in force alike before n.
SameBefore(h, a, n) ==
  \A ts \in 0..(n - 1) :
    /\ EpochAt(a, ts) = EpochAt(h, ts)
    /\ EpochAt(h, ts) # 0 => a[EpochAt(h, ts)] = h[EpochAt(h, ts)]

\* A new entry of the present leaves what was in force before it.
LEMMA EpochBefore ==
  ASSUME NEW S, NEW h \in Seq(S), NEW n \in Nat, Ordered(h, n), NEW x \in S, x.ts = n
  PROVE  Ordered(Append(h, x), n) /\ SameBefore(h, Append(h, x), n)
<1> DEFINE a == Append(h, x)
           len == Len(h)
<1>1. /\ a \in Seq(S) /\ len \in Nat /\ Len(a) = len + 1
      /\ \A k \in 1..len : a[k] = h[k]
      /\ a[len + 1] = x
  OBVIOUS
<1> HIDE DEF a
<1>2. \A k \in 1..(len + 1) : k \in 1..len \/ k = len + 1
  BY <1>1
<1>3. Ordered(a, n)
  <2>1. ASSUME NEW k \in 1..(len + 1) PROVE a[k].ts \in Nat /\ a[k].ts <= n
    BY <1>1, <1>2 DEF Ordered
  <2>2. ASSUME NEW j \in 1..(len + 1), NEW k \in 1..(len + 1), j <= k
        PROVE  a[j].ts <= a[k].ts
    <3>1. CASE k = len + 1
      BY <1>1, <2>1, <3>1
    <3>2. CASE k # len + 1
      <4>1. j \in 1..len /\ k \in 1..len
        BY <1>1, <2>2, <3>2
      <4>2. QED
        BY <1>1, <2>2, <4>1 DEF Ordered
    <3>3. QED
      BY <3>1, <3>2
  <2>3. QED
    BY <1>1, <2>1, <2>2 DEF Ordered
<1>4. ASSUME NEW ts \in 0..(n - 1)
      PROVE  /\ EpochAt(a, ts) = EpochAt(h, ts)
             /\ EpochAt(h, ts) # 0 => a[EpochAt(h, ts)] = h[EpochAt(h, ts)]
  <2> DEFINE e == EpochAt(h, ts)
             d == EpochAt(a, ts)
  <2>0. ts \in Int
    OBVIOUS
  <2>1. e \in 0..len /\ \A k \in 1..len : h[k].ts <= ts <=> k <= e
    <3>1. InForce(e, h, ts)
      BY <2>0, EpochFound
    <3>2. QED
      BY <3>1 DEF InForce
  <2>2. d \in 0..(len + 1) /\ \A k \in 1..(len + 1) : a[k].ts <= ts <=> k <= d
    <3>1. InForce(d, a, ts)
      BY <1>1, <1>3, <2>0, EpochFound
    <3>2. QED
      BY <1>1, <3>1 DEF InForce
  <2> HIDE DEF e, d, len
  <2>3. len + 1 \in 1..(len + 1) /\ ~(a[len + 1].ts <= ts)
    BY <1>1
  <2>4. d \in 0..len
    BY <1>1, <2>2, <2>3
  <2>5. \A k \in 1..len : h[k].ts <= ts <=> k <= d
    BY <1>1, <2>2
  <2>6. \A k \in 1..len : k <= d <=> k <= e
    BY <2>1, <2>5
  <2>7. d = e
    <3>1. CASE d < e
      <4>1. e \in 1..len /\ e <= e
        BY <1>1, <2>1, <2>4, <3>1
      <4>2. e <= d
        BY <2>6, <4>1
      <4>3. d \in Int /\ e \in Int
        BY <1>1, <2>1, <2>4
      <4>4. QED
        BY <3>1, <4>2, <4>3
    <3>2. CASE e < d
      <4>1. d \in 1..len /\ d <= d
        BY <1>1, <2>1, <2>4, <3>2
      <4>2. d <= e
        BY <2>6, <4>1
      <4>3. d \in Int /\ e \in Int
        BY <1>1, <2>1, <2>4
      <4>4. QED
        BY <3>2, <4>2, <4>3
    <3>3. QED
      BY <1>1, <2>1, <2>4, <3>1, <3>2
  <2>8. e # 0 => a[e] = h[e]
    BY <1>1, <2>1
  <2>9. QED
    BY <2>7, <2>8 DEF e, d
<1>5. QED
  BY <1>3, <1>4 DEF a, SameBefore

-----------------------------------------------------------------------------
(* Ownership through time *)

\* What an entry list says of ts.
HeldAt(h, ts) == IF EpochAt(h, ts) = 0 THEN <<>> ELSE h[EpochAt(h, ts)].tokenIds

LEMMA TokensOfUserIs ==
  ASSUME NEW u, NEW ts PROVE TokensOfUser(u, ts) = HeldAt(userTokenHistory[u], ts)
BY DEF TokensOfUser, HeldAt, EpochAt

\* The histories h are what owner says of the tokens, in order up to now.
Follows(h, owner) ==
  /\ h \in Histories
  /\ \A u \in Users :
       /\ Ordered(h[u], now)
       /\ IsInjective(CurrentTokens(h, u))
       /\ ToSet(CurrentTokens(h, u)) = {t \in Tokens : owner[t] = u}

\* The histories h and k agree about the past.
SamePast(h, k) ==
  \A u \in Users, ts \in 0..(now - 1) : HeldAt(k[u], ts) = HeldAt(h[u], ts)

LEMMA HeldNow ==
  ASSUME now \in Nat, NEW h, NEW owner, Follows(h, owner), NEW u \in Users,
         NEW ts \in Nat, now <= ts
  PROVE  HeldAt(h[u], ts) = CurrentTokens(h, u)
<1>1. h \in Histories /\ h[u] \in Seq(Entry) /\ Ordered(h[u], now)
  BY DEF Follows, Histories
<1>2. EpochAt(h[u], ts) = Len(h[u])
  BY <1>1, EpochLast
<1>3. CASE h[u] = <<>>
  <2>1. Len(h[u]) = 0
    BY <1>3
  <2>2. QED
    BY <1>1, <1>2, <1>3, <2>1, CurrentType DEF HeldAt
<1>4. CASE h[u] # <<>>
  <2>1. Len(h[u]) # 0
    BY <1>1, <1>4
  <2>2. QED
    BY <1>1, <1>2, <1>4, <2>1, CurrentType DEF HeldAt
<1>5. QED
  BY <1>3, <1>4

\* Recording one token of one user.
LEMMA PositionsFollow ==
  ASSUME now \in Nat, NEW h, NEW owner \in [Tokens -> Users \cup {NoOne}], Follows(h, owner),
         NEW u \in Users, NEW t \in Tokens, NEW isIncoming \in BOOLEAN,
         owner[t] = IF isIncoming THEN NoOne ELSE u
  PROVE  LET k == CheckpointUserPositions(h, u, t, isIncoming)
         IN  /\ Follows(k, [owner EXCEPT ![t] = IF isIncoming THEN u ELSE NoOne])
             /\ SamePast(h, k)
<1> DEFINE k == CheckpointUserPositions(h, u, t, isIncoming)
           new == CurrentTokens(k, u)
           x == [ts |-> now, tokenIds |-> new]
           after == [owner EXCEPT ![t] = IF isIncoming THEN u ELSE NoOne]
           Cur(w) == CurrentTokens(h, w)
<1>1. h \in Histories
  BY DEF Follows
<1>2. /\ k \in Histories /\ k = [h EXCEPT ![u] = Append(h[u], x)]
      /\ ToSet(new) = IF isIncoming THEN ToSet(Cur(u)) \cup {t} ELSE ToSet(Cur(u)) \ {t}
      /\ IsInjective(Cur(u)) /\ (isIncoming => t \notin ToSet(Cur(u))) => IsInjective(new)
  BY <1>1, PositionsShape
<1>3. new \in Seq(Tokens)
  BY <1>2, CurrentType
<1>4. x \in Entry /\ x.ts = now
  BY <1>3 DEF Entry
<1>5. NoOne \notin Users
  BY VeAssumption
<1>6. \A w \in Users : ToSet(Cur(w)) = {s \in Tokens : owner[s] = w} /\ IsInjective(Cur(w))
  BY DEF Follows
<1>7. IsInjective(new) /\ ToSet(new) = {s \in Tokens : after[s] = u}
  <2>1. isIncoming => t \notin ToSet(Cur(u))
    BY <1>5, <1>6
  <2>2. IsInjective(new)
    BY <1>2, <1>6, <2>1
  <2>3. ASSUME isIncoming PROVE ToSet(new) = {s \in Tokens : after[s] = u}
    <3>1. ToSet(new) = {s \in Tokens : owner[s] = u} \cup {t}
      BY <1>2, <1>6, <2>3
    <3>2. QED
      BY <2>3, <3>1
  <2>4. ASSUME ~isIncoming PROVE ToSet(new) = {s \in Tokens : after[s] = u}
    <3>1. ToSet(new) = {s \in Tokens : owner[s] = u} \ {t}
      BY <1>2, <1>6, <2>4
    <3>2. QED
      BY <1>5, <2>4, <3>1
  <2>5. QED
    BY <2>2, <2>3, <2>4
<1>8. \A w \in Users : w # u => {s \in Tokens : after[s] = w} = {s \in Tokens : owner[s] = w}
  BY <1>5
<1> HIDE DEF k, new, x, after
<1>9. h[u] \in Seq(Entry) /\ Ordered(h[u], now)
  BY <1>1 DEF Follows, Histories
<1>10. k[u] = Append(h[u], x) /\ \A w \in Users : w # u => k[w] = h[w]
  BY <1>1, <1>2 DEF Histories
<1>11. \A w \in Users : w # u => CurrentTokens(k, w) = Cur(w)
  BY <1>10 DEF CurrentTokens
<1>12. Ordered(k[u], now)
  BY <1>4, <1>9, <1>10, EpochBefore
<1>13. ASSUME NEW w \in Users
       PROVE  /\ Ordered(k[w], now) /\ IsInjective(CurrentTokens(k, w))
              /\ ToSet(CurrentTokens(k, w)) = {s \in Tokens : after[s] = w}
  <2>1. CASE w = u
    BY <1>7, <1>12, <2>1 DEF new
  <2>2. CASE w # u
    <3>1. Ordered(k[w], now)
      BY <1>10, <2>2 DEF Follows
    <3>2. QED
      BY <1>6, <1>8, <1>11, <2>2, <3>1
  <2>3. QED
    BY <2>1, <2>2
<1>14. Follows(k, after)
  BY <1>2, <1>13 DEF Follows
<1>15. SamePast(h, k)
  <2>1. SUFFICES ASSUME NEW w \in Users, NEW ts \in 0..(now - 1)
                 PROVE  HeldAt(k[w], ts) = HeldAt(h[w], ts)
    BY DEF SamePast
  <2>2. CASE w = u
    <3>1. /\ EpochAt(k[u], ts) = EpochAt(h[u], ts)
          /\ EpochAt(h[u], ts) # 0 => k[u][EpochAt(h[u], ts)] = h[u][EpochAt(h[u], ts)]
      <4>1. SameBefore(h[u], k[u], now)
        BY <1>4, <1>9, <1>10, EpochBefore
      <4>2. QED
        BY <4>1 DEF SameBefore
    <3>2. QED
      BY <2>2, <3>1 DEF HeldAt
  <2>3. CASE w # u
    BY <1>10, <2>3
  <2>4. QED
    BY <2>2, <2>3
<1>16. QED
  BY <1>14, <1>15 DEF k, after

\* A mint, transfer or burn of a token by the one the ledger says holds it.
LEMMA MoveFollows ==
  ASSUME TypeOK, Follows(userTokenHistory, ownerOf),
         NEW from \in Users \cup {NoOne}, NEW to \in Users \cup {NoOne}, NEW t \in Tokens,
         ownerOf[t] = from, MoveToken(from, to, t)
  PROVE  /\ Follows(userTokenHistory', ownerOf')
         /\ SamePast(userTokenHistory, userTokenHistory')
<1> DEFINE h == userTokenHistory
           out == IF from = NoOne THEN h ELSE CheckpointUserPositions(h, from, t, FALSE)
           between == [ownerOf EXCEPT ![t] = NoOne]
           final == IF to = NoOne THEN out ELSE CheckpointUserPositions(out, to, t, TRUE)
           after == [ownerOf EXCEPT ![t] = to]
<1>1. now \in Nat /\ ownerOf \in [Tokens -> Users \cup {NoOne}]
  BY HistoryType DEF TypeOK
<1>2. userTokenHistory' = final /\ ownerOf' = after
  BY DEF MoveToken
<1>3. between \in [Tokens -> Users \cup {NoOne}] /\ between[t] = NoOne
  BY <1>1
<1>4. Follows(out, between) /\ SamePast(h, out)
  <2>1. CASE from = NoOne
    <3>1. between = ownerOf
      BY <1>1, <2>1
    <3>2. out = h
      BY <2>1
    <3>3. SamePast(h, h)
      BY DEF SamePast
    <3> HIDE DEF out, between
    <3>4. QED
      BY <3>1, <3>2, <3>3
  <2>2. CASE from # NoOne
    <3>1. from \in Users /\ FALSE \in BOOLEAN
      BY <2>2
    <3>2. out = CheckpointUserPositions(h, from, t, FALSE)
      BY <2>2
    <3>3. ownerOf[t] = IF FALSE THEN NoOne ELSE from
      OBVIOUS
    <3>4. between = [ownerOf EXCEPT ![t] = IF FALSE THEN from ELSE NoOne]
      OBVIOUS
    <3> HIDE DEF out, between
    <3>5. QED
      BY <1>1, <3>1, <3>2, <3>3, <3>4, PositionsFollow
  <2>3. QED
    BY <2>1, <2>2
<1> HIDE DEF out
<1>5. Follows(final, after) /\ SamePast(out, final)
  <2>1. CASE to = NoOne
    <3>1. final = out /\ after = between
      BY <2>1
    <3>2. SamePast(out, out)
      BY DEF SamePast
    <3> HIDE DEF final, between, after
    <3>3. QED
      BY <1>4, <3>1, <3>2
  <2>2. CASE to # NoOne
    <3>1. to \in Users /\ TRUE \in BOOLEAN
      BY <2>2
    <3>2. final = CheckpointUserPositions(out, to, t, TRUE)
      BY <2>2
    <3>3. between[t] = IF TRUE THEN NoOne ELSE to
      BY <1>3
    <3>4. after = [between EXCEPT ![t] = IF TRUE THEN to ELSE NoOne]
      BY <1>1
    <3> HIDE DEF final, between, after
    <3>5. QED
      BY <1>1, <1>3, <1>4, <3>1, <3>2, <3>3, <3>4, PositionsFollow
  <2>3. QED
    BY <2>1, <2>2
<1>6. SamePast(h, final)
  BY <1>4, <1>5 DEF SamePast
<1>7. QED
  BY <1>2, <1>5, <1>6

\* No token has two votes, at any time up to now.
VotesOnce ==
  \A ts \in 0..now : \A u, w \in Users :
    /\ IsInjective(TokensOfUser(u, ts))
    /\ u # w => ToSet(TokensOfUser(u, ts)) \cap ToSet(TokensOfUser(w, ts)) = {}

\* Tokens the counter has not reached belong to nobody.
UnmintedUnowned == \A t \in Tokens : t > tokenIds => ownerOf[t] = NoOne

\* The inductive invariant: the present of every history is ownership, the
\* past is as it was recorded.
OwnershipInv == Follows(userTokenHistory, ownerOf) /\ UnmintedUnowned /\ VotesOnce

\* At a time no entry comes after, the lists are those of the owners.
LEMMA OnceNow ==
  ASSUME now \in Nat, NEW h, NEW owner, Follows(h, owner), NEW ts \in Nat, now <= ts,
         NEW u \in Users, NEW w \in Users
  PROVE  /\ IsInjective(HeldAt(h[u], ts))
         /\ u # w => ToSet(HeldAt(h[u], ts)) \cap ToSet(HeldAt(h[w], ts)) = {}
         /\ ToSet(HeldAt(h[u], ts)) = {t \in Tokens : owner[t] = u}
<1>1. HeldAt(h[u], ts) = CurrentTokens(h, u) /\ HeldAt(h[w], ts) = CurrentTokens(h, w)
  BY HeldNow
<1>2. /\ IsInjective(CurrentTokens(h, u))
      /\ ToSet(CurrentTokens(h, u)) = {t \in Tokens : owner[t] = u}
      /\ ToSet(CurrentTokens(h, w)) = {t \in Tokens : owner[t] = w}
  BY DEF Follows
<1>3. QED
  BY <1>1, <1>2

LEMMA OwnershipCounts ==
  ASSUME TypeOK, OwnershipInv PROVE VotesCountedOnce
<1>1. now \in Nat
  BY HistoryType
<1>2. ASSUME NEW u \in Users
      PROVE  ToSet(TokensOfUser(u, now)) = {t \in Tokens : ownerOf[t] = u}
  BY <1>1, OnceNow, TokensOfUserIs DEF OwnershipInv
<1>3. QED
  BY <1>2 DEF OwnershipInv, VotesOnce, VotesCountedOnce

\* Within a block: the past stays, the present is what the owners now are.
LEMMA OwnershipKept ==
  ASSUME TypeOK, OwnershipInv, now' = now,
         Follows(userTokenHistory', ownerOf'), SamePast(userTokenHistory, userTokenHistory')
  PROVE  Follows(userTokenHistory, ownerOf)' /\ VotesOnce'
<1>1. now \in Nat
  BY HistoryType
<1>2. Follows(userTokenHistory, ownerOf)'
  BY DEF Follows
<1>3. \A u \in Users, ts \in Nat : TokensOfUser(u, ts)' = HeldAt(userTokenHistory'[u], ts)
  BY TokensOfUserIs DEF TokensOfUser, HeldAt, EpochAt
<1>4. ASSUME NEW ts \in 0..now, NEW u \in Users, NEW w \in Users
      PROVE  /\ IsInjective(HeldAt(userTokenHistory'[u], ts))
             /\ u # w => ToSet(HeldAt(userTokenHistory'[u], ts))
                           \cap ToSet(HeldAt(userTokenHistory'[w], ts)) = {}
  <2>1. CASE ts = now
    BY <1>1, <2>1, OnceNow
  <2>2. CASE ts # now
    <3>1. ts \in 0..(now - 1)
      BY <1>1, <2>2
    <3>2. /\ HeldAt(userTokenHistory'[u], ts) = TokensOfUser(u, ts)
          /\ HeldAt(userTokenHistory'[w], ts) = TokensOfUser(w, ts)
      BY <3>1, TokensOfUserIs DEF SamePast
    <3>3. QED
      BY <3>2 DEF OwnershipInv, VotesOnce
  <2>3. QED
    BY <2>1, <2>2
<1>5. \A ts \in 0..now : ts \in Nat
  BY <1>1
<1>6. VotesOnce'
  BY <1>3, <1>4, <1>5 DEF VotesOnce
<1>7. QED
  BY <1>2, <1>6

\* One second later the last entries are still in force.
LEMMA OwnershipTick ==
  ASSUME TypeOK, OwnershipInv, Tick
  PROVE  Follows(userTokenHistory, ownerOf)' /\ VotesOnce'
<1>1. /\ now \in Nat /\ now' = now + 1
      /\ userTokenHistory' = userTokenHistory /\ ownerOf' = ownerOf
  BY HistoryType DEF Tick, nftVars
<1>2. ASSUME NEW u \in Users PROVE Ordered(userTokenHistory[u], now + 1)
  <2> DEFINE h == userTokenHistory[u]
  <2>1. Ordered(h, now)
    BY DEF OwnershipInv, Follows
  <2> SUFFICES Ordered(h, now + 1)
    OBVIOUS
  <2> HIDE DEF h
  <2>2. QED
    BY <1>1, <2>1 DEF Ordered
<1>3. Follows(userTokenHistory, ownerOf)'
  BY <1>1, <1>2 DEF OwnershipInv, Follows
<1>4. \A u \in Users, ts \in Nat : TokensOfUser(u, ts)' = TokensOfUser(u, ts)
  BY <1>1 DEF TokensOfUser
<1>5. ASSUME NEW ts \in 0..(now + 1), NEW u \in Users, NEW w \in Users
      PROVE  /\ IsInjective(TokensOfUser(u, ts))
             /\ u # w => ToSet(TokensOfUser(u, ts)) \cap ToSet(TokensOfUser(w, ts)) = {}
  <2>1. CASE ts \in 0..now
    BY <2>1 DEF OwnershipInv, VotesOnce
  <2>2. CASE ts \notin 0..now
    <3>1. ts \in Nat /\ now <= ts
      BY <1>1, <2>2
    <3>2. Follows(userTokenHistory, ownerOf)
      BY DEF OwnershipInv
    <3>3. QED
      BY <1>1, <3>1, <3>2, OnceNow, TokensOfUserIs
  <2>3. QED
    BY <2>1, <2>2
<1>6. \A ts \in 0..(now + 1) : ts \in Nat
  BY <1>1
<1>7. VotesOnce'
  BY <1>1, <1>4, <1>5, <1>6 DEF VotesOnce
<1>8. QED
  BY <1>3, <1>7

LEMMA InitOwnership == Init => OwnershipInv
<1> SUFFICES ASSUME Init PROVE OwnershipInv
  OBVIOUS
<1>1. TypeOK
  BY InitType
<1>2. now \in Nat /\ userTokenHistory \in Histories
  BY <1>1, HistoryType
<1>3. ASSUME NEW u \in Users
      PROVE  userTokenHistory[u] = <<>> /\ CurrentTokens(userTokenHistory, u) = <<>>
  BY DEF Init, CurrentTokens
<1>4. Len(<<>>) = 0 /\ DOMAIN <<>> = {}
  OBVIOUS
<1>5. Ordered(<<>>, now)
  BY <1>4 DEF Ordered
<1>6. IsInjective(<<>>) /\ ToSet(<<>>) = {}
  BY <1>4 DEF IsInjective, ToSet
<1>7. \A u \in Users : {t \in Tokens : ownerOf[t] = u} = {}
  BY VeAssumption DEF Init
<1>8. Follows(userTokenHistory, ownerOf)
  BY <1>2, <1>3, <1>5, <1>6, <1>7 DEF Follows
<1>9. UnmintedUnowned
  BY DEF Init, UnmintedUnowned
<1>10. ASSUME NEW u \in Users, NEW ts \in 0..now PROVE TokensOfUser(u, ts) = <<>>
  <2>1. ts \in Int /\ <<>> \in Seq(Entry)
    BY <1>2
  <2>2. InForce(EpochAt(<<>>, ts), <<>>, ts)
    BY <1>5, <2>1, EpochFound
  <2>3. EpochAt(<<>>, ts) = 0
    BY <1>4, <2>2 DEF InForce
  <2>4. QED
    BY <1>3, <2>3, TokensOfUserIs DEF HeldAt
<1>11. VotesOnce
  BY <1>6, <1>10 DEF VotesOnce
<1>12. QED
  BY <1>8, <1>9, <1>11 DEF OwnershipInv

LEMMA NextOwnership ==
  ASSUME TypeOK, OwnershipInv, [Next]_vars
  PROVE  OwnershipInv' /\ SamePast(userTokenHistory, userTokenHistory')
<1> DEFINE Kept == OwnershipInv' /\ SamePast(userTokenHistory, userTokenHistory')
<1>1. Follows(userTokenHistory, ownerOf) /\ UnmintedUnowned
  BY DEF OwnershipInv
<1>2. ASSUME NEW from \in Users \cup {NoOne}, NEW to \in Users \cup {NoOne}, NEW t \in Tokens,
             ownerOf[t] = from, MoveToken(from, to, t), now' = now, UnmintedUnowned'
      PROVE  Kept
  BY <1>1, <1>2, MoveFollows, OwnershipKept DEF OwnershipInv
<1>3. ASSUME NEW from \in Users, NEW to \in Users \cup {NoOne}, NEW t \in Tokens,
             ownerOf[t] = from, MoveToken(from, to, t), now' = now, tokenIds' = tokenIds
      PROVE  Kept
  <2>1. ownerOf' = [ownerOf EXCEPT ![t] = to] /\ from # NoOne
    BY <1>3, VeAssumption DEF MoveToken
  <2>2. ownerOf \in [Tokens -> Users \cup {NoOne}]
    BY DEF TypeOK
  <2>3. ~(t > tokenIds)
    BY <1>1, <1>3, <2>1 DEF UnmintedUnowned
  <2>4. UnmintedUnowned'
    BY <1>1, <1>3, <2>1, <2>2, <2>3 DEF UnmintedUnowned
  <2>5. QED
    BY <1>2, <1>3, <2>4
<1>4. ASSUME now' = now, UNCHANGED nftVars PROVE Kept
  <2>1. userTokenHistory' = userTokenHistory /\ ownerOf' = ownerOf /\ tokenIds' = tokenIds
    BY <1>4 DEF nftVars
  <2>2. Follows(userTokenHistory', ownerOf') /\ SamePast(userTokenHistory, userTokenHistory')
    BY <1>1, <2>1 DEF SamePast
  <2>3. UnmintedUnowned'
    BY <1>1, <2>1 DEF UnmintedUnowned
  <2>4. QED
    BY <1>4, <2>2, <2>3, OwnershipKept DEF OwnershipInv
<1>5. ASSUME NEW u \in Users, NEW value \in Amounts, NEW ts \in UnlockTimes,
             CreateLock(u, value, ts)
      PROVE  Kept
  <2> DEFINE t == tokenIds + 1
  <2>1. t \in Tokens /\ tokenIds' = t /\ MoveToken(NoOne, u, t) /\ now' = now
    BY <1>5 DEF CreateLock
  <2>2. tokenIds \in Nat /\ \A s \in Tokens : s \in Nat
    BY Assumed DEF TypeOK, Tokens
  <2>3. ownerOf[t] = NoOne
    BY <1>1, <2>1, <2>2 DEF UnmintedUnowned
  <2>4. ownerOf' = [ownerOf EXCEPT ![t] = u] /\ ownerOf \in [Tokens -> Users \cup {NoOne}]
    BY <2>1 DEF MoveToken, TypeOK
  <2>5. ASSUME NEW s \in Tokens, s > t PROVE s > tokenIds /\ s # t
    BY <2>2, <2>5
  <2> HIDE DEF t
  <2>6. UnmintedUnowned'
    BY <1>1, <2>1, <2>4, <2>5 DEF UnmintedUnowned
  <2>7. QED
    BY <1>2, <2>1, <2>3, <2>6
<1>6. ASSUME NEW a \in Users \cup {NoOne}, NEW t \in Tokens, NEW value \in Amounts,
             DepositFor(a, t, value) \/ IncreaseAmount(a, t, value)
      PROVE  Kept
  BY <1>4, <1>6 DEF DepositFor, IncreaseAmount
<1>7. ASSUME NEW u \in Users, NEW t \in Tokens, NEW ts \in UnlockTimes,
             IncreaseUnlockTime(u, t, ts)
      PROVE  Kept
  BY <1>4, <1>7 DEF IncreaseUnlockTime
<1>8. ASSUME NEW u \in Users, NEW t \in Tokens, Withdraw(u, t) \/ Burn(u, t)
      PROVE  Kept
  <2>1. ownerOf[t] = u /\ MoveToken(u, NoOne, t) /\ now' = now /\ tokenIds' = tokenIds
    BY <1>8 DEF Withdraw, Burn
  <2>2. QED
    BY <1>3, <2>1
<1>9. ASSUME NEW u \in Users, NEW t \in Tokens, NEW s \in Tokens, MergePositions(u, t, s)
      PROVE  Kept
  <2>1. ownerOf[s] = u /\ MoveToken(u, NoOne, s) /\ now' = now /\ tokenIds' = tokenIds
    BY <1>9 DEF MergePositions
  <2>2. QED
    BY <1>3, <2>1
<1>10. ASSUME NEW u \in Users, NEW w \in Users, NEW t \in Tokens, Transfer(u, w, t)
       PROVE  Kept
  <2>1. ownerOf[t] = u /\ MoveToken(u, w, t) /\ now' = now /\ tokenIds' = tokenIds
    BY <1>10 DEF Transfer
  <2>2. QED
    BY <1>3, <2>1
<1>11. GlobalCheckpoint \/ UNCHANGED vars => Kept
  BY <1>4 DEF GlobalCheckpoint, vars
<1>12. ASSUME Tick PROVE Kept
  <2>1. UnmintedUnowned'
    BY <1>1, <1>12 DEF UnmintedUnowned, Tick, nftVars
  <2>2. OwnershipInv'
    BY <1>12, <2>1, OwnershipTick DEF OwnershipInv
  <2>3. SamePast(userTokenHistory, userTokenHistory')
    BY <1>12 DEF Tick, nftVars, SamePast
  <2>4. QED
    BY <2>2, <2>3
<1>13. QED
  BY <1>5, <1>6, <1>7, <1>8, <1>9, <1>10, <1>11, <1>12 DEF Next, LockNext

\* Whatever is minted, transferred, withdrawn, merged or burnt, in any order
\* and any number of times in a block: at every past second each token is on
\* one user's list, once, and now the lists are ownership.
THEOREM OneVoteEach == Spec => []VotesCountedOnce
<1>1. Init => OwnershipInv
  BY InitOwnership
<1>2. TypeOK /\ OwnershipInv /\ [Next]_vars => OwnershipInv'
  BY NextOwnership
<1>3. TypeOK /\ OwnershipInv => VotesCountedOnce
  BY OwnershipCounts
<1>4. QED
  BY <1>1, <1>2, <1>3, TypeCorrect, PTL DEF Spec

-----------------------------------------------------------------------------
(* What was read about the past *)

\* What a token's points say of ts.
PowerAt(h, ts) ==
  IF EpochAt(h, ts) = 0 THEN 0
  ELSE NonNeg(h[EpochAt(h, ts)].bias
                - h[EpochAt(h, ts)].slope * (ts - h[EpochAt(h, ts)].ts))

LEMMA BalanceOfTokenIs ==
  ASSUME NEW t, NEW ts PROVE BalanceOfToken(t, ts) = PowerAt(tokenPointHistory[t], ts)
BY DEF BalanceOfToken, PowerAt, EpochAt

PointsOrdered(tokens) == \A t \in Tokens : Ordered(tokens[t], now)

\* The token histories f and g agree about the past.
SamePower(f, g) == \A t \in Tokens, ts \in 0..(now - 1) : PowerAt(g[t], ts) = PowerAt(f[t], ts)

LEMMA PointAppended ==
  ASSUME now \in Nat, NEW f \in [Tokens -> Seq(Point)], PointsOrdered(f), NEW t \in Tokens,
         NEW p \in Point, p.ts = now
  PROVE  LET g == [f EXCEPT ![t] = Append(@, p)]
         IN  PointsOrdered(g) /\ SamePower(f, g)
<1> DEFINE g == [f EXCEPT ![t] = Append(f[t], p)]
<1>1. g[t] = Append(f[t], p) /\ \A s \in Tokens : s # t => g[s] = f[s]
  OBVIOUS
<1> SUFFICES PointsOrdered(g) /\ SamePower(f, g)
  OBVIOUS
<1> HIDE DEF g
<1>2. f[t] \in Seq(Point) /\ Ordered(f[t], now)
  BY DEF PointsOrdered
<1>3. Ordered(g[t], now) /\ SameBefore(f[t], g[t], now)
  BY <1>1, <1>2, EpochBefore
<1>4. PointsOrdered(g)
  BY <1>1, <1>3 DEF PointsOrdered
<1>5. ASSUME NEW s \in Tokens, NEW ts \in 0..(now - 1) PROVE PowerAt(g[s], ts) = PowerAt(f[s], ts)
  <2>1. CASE s = t
    <3>1. /\ EpochAt(g[t], ts) = EpochAt(f[t], ts)
          /\ EpochAt(f[t], ts) # 0 => g[t][EpochAt(f[t], ts)] = f[t][EpochAt(f[t], ts)]
      BY <1>3 DEF SameBefore
    <3>2. QED
      BY <2>1, <3>1 DEF PowerAt
  <2>2. CASE s # t
    BY <1>1, <2>2
  <2>3. QED
    BY <2>1, <2>2
<1>6. QED
  BY <1>4, <1>5 DEF SamePower

LEMMA CheckpointTokens ==
  ASSUME now \in 0..MaxTime, NEW v, IsVotes(v), NEW t \in Tokens, NEW old \in Lock, NEW new \in Lock
  PROVE  /\ IsVotes(Checkpoint(v, t, old, new))
         /\ Checkpoint(v, t, old, new).tokens = [v.tokens EXCEPT ![t] = Append(@, PointOf(new))]
<1>1. Reshaped(Checkpoint(v, t, old, new), UpdateGlobalPoint(v), t, old, new)
  BY CheckpointShape
<1>2. UpdateGlobalPoint(v).tokens = v.tokens
  BY UpdateShape
<1>3. QED
  BY <1>1, <1>2 DEF Reshaped

\* One checkpoint of one token.
LEMMA CheckpointPast ==
  ASSUME now \in 0..MaxTime, NEW v, IsVotes(v), PointsOrdered(v.tokens), NEW t \in Tokens,
         NEW old \in Lock, NEW new \in Lock
  PROVE  LET c == Checkpoint(v, t, old, new)
         IN  IsVotes(c) /\ PointsOrdered(c.tokens) /\ SamePower(v.tokens, c.tokens)
<1>1. /\ IsVotes(Checkpoint(v, t, old, new))
      /\ Checkpoint(v, t, old, new).tokens = [v.tokens EXCEPT ![t] = Append(@, PointOf(new))]
  BY CheckpointTokens
<1>2. now \in Nat
  BY Assumed
<1>3. PointOf(new) \in Point /\ PointOf(new).ts = now
  BY <1>2, PointOfType
<1>4. v.tokens \in [Tokens -> Seq(Point)]
  BY DEF IsVotes
<1> DEFINE f == v.tokens
           p == PointOf(new)
<1> HIDE DEF f, p
<1>5. f \in [Tokens -> Seq(Point)] /\ PointsOrdered(f) /\ p \in Point /\ p.ts = now
  BY <1>3, <1>4 DEF f, p
<1>6. /\ PointsOrdered([f EXCEPT ![t] = Append(@, p)])
      /\ SamePower(f, [f EXCEPT ![t] = Append(@, p)])
  BY <1>2, <1>5, PointAppended
<1>7. QED
  BY <1>1, <1>6 DEF f, p

LEMMA DepositPast ==
  ASSUME TypeOK, PointsOrdered(tokenPointHistory), NEW t \in Tokens, NEW value \in Nat,
         NEW unlockTime \in Nat, DepositInto(t, value, unlockTime)
  PROVE  PointsOrdered(tokenPointHistory') /\ SamePower(tokenPointHistory, tokenPointHistory')
<1> DEFINE old == lockedBalances[t]
           new == Deposited(old, value, unlockTime)
           c == Checkpoint(Votes, t, old, new)
<1>1. old \in Lock /\ old.amount \in Nat /\ old.end \in Nat
  BY LockType
<1>2. new \in Lock
  <2> HIDE DEF old
  <2>1. old.amount + value \in Nat
    BY <1>1
  <2>2. QED
    BY <1>1, <2>1 DEF Deposited, Lock
<1>3. tokenPointHistory' = c.tokens
  BY DEF DepositInto, Record
<1>4. Votes.tokens = tokenPointHistory /\ IsVotes(Votes) /\ now \in 0..MaxTime
  BY VotesType, HistoryType DEF Votes
<1> HIDE DEF old, new
<1>5. PointsOrdered(c.tokens) /\ SamePower(Votes.tokens, c.tokens)
  BY <1>1, <1>2, <1>4, CheckpointPast
<1>6. QED
  BY <1>3, <1>4, <1>5

LEMMA NextPast ==
  ASSUME TypeOK, PointsOrdered(tokenPointHistory), [Next]_vars
  PROVE  PointsOrdered(tokenPointHistory') /\ SamePower(tokenPointHistory, tokenPointHistory')
<1> DEFINE Goal == /\ PointsOrdered(tokenPointHistory')
                   /\ SamePower(tokenPointHistory, tokenPointHistory')
<1>1. Votes.tokens = tokenPointHistory /\ IsVotes(Votes) /\ now \in 0..MaxTime
  BY VotesType, HistoryType DEF Votes
<1>2. ASSUME tokenPointHistory' = tokenPointHistory PROVE Goal
  BY <1>2 DEF SamePower
<1>3. ASSUME NEW t \in Tokens, NEW value \in Nat, NEW end \in Nat, DepositInto(t, value, end)
      PROVE  Goal
  BY <1>3, DepositPast
<1>4. ASSUME NEW u \in Users, NEW value \in Amounts, NEW ts \in UnlockTimes,
             CreateLock(u, value, ts)
      PROVE  Goal
  <2>1. tokenIds + 1 \in Tokens /\ DepositInto(tokenIds + 1, value, Rounded(ts))
    BY <1>4 DEF CreateLock
  <2>2. value \in Nat /\ Rounded(ts) \in Nat
    BY RoundedType, VeAssumption
  <2>3. QED
    BY <1>3, <2>1, <2>2
<1>5. ASSUME NEW a \in Users \cup {NoOne}, NEW t \in Tokens, NEW value \in Amounts,
             DepositFor(a, t, value) \/ IncreaseAmount(a, t, value)
      PROVE  Goal
  <2>1. DepositInto(t, value, 0) /\ value \in Nat /\ 0 \in Nat
    BY <1>5, VeAssumption DEF DepositFor, IncreaseAmount
  <2>2. QED
    BY <1>3, <2>1
<1>6. ASSUME NEW u \in Users, NEW t \in Tokens, NEW ts \in UnlockTimes,
             IncreaseUnlockTime(u, t, ts)
      PROVE  Goal
  <2>1. DepositInto(t, 0, Rounded(ts)) /\ Rounded(ts) \in Nat /\ 0 \in Nat
    BY <1>6, RoundedType, VeAssumption DEF IncreaseUnlockTime
  <2>2. QED
    BY <1>3, <2>1
<1>7. ASSUME NEW u \in Users, NEW t \in Tokens, Withdraw(u, t)
      PROVE  Goal
  <2> DEFINE c == Checkpoint(Votes, t, lockedBalances[t], NoLock)
  <2>1. tokenPointHistory' = c.tokens
    BY <1>7 DEF Withdraw, Record
  <2>2. PointsOrdered(c.tokens) /\ SamePower(Votes.tokens, c.tokens)
    BY <1>1, LockType, NoLockType, CheckpointPast
  <2>3. QED
    BY <1>1, <2>1, <2>2
<1>8. ASSUME NEW u \in Users, NEW t \in Tokens, NEW s \in Tokens, MergePositions(u, t, s)
      PROVE  Goal
  <2> DEFINE p == lockedBalances[t]
             q == lockedBalances[s]
             merged == [amount |-> p.amount + q.amount, end |-> Max({p.end, q.end})]
             c == Checkpoint(Votes, t, p, merged)
             d == Checkpoint(c, s, q, NoLock)
  <2>1. /\ p \in Lock /\ p.amount \in Nat /\ p.end \in Nat
        /\ q \in Lock /\ q.amount \in Nat /\ q.end \in Nat
    BY LockType
  <2>2. tokenPointHistory' = d.tokens
    BY <1>8 DEF MergePositions, Record
  <2> HIDE DEF p, q
  <2>3. merged \in Lock
    <3>1. Max({p.end, q.end}) = IF p.end >= q.end THEN p.end ELSE q.end
      BY <2>1, MaxOfTwo
    <3>2. Max({p.end, q.end}) \in Nat /\ p.amount + q.amount \in Nat
      BY <2>1, <3>1
    <3>3. QED
      BY <3>2 DEF Lock
  <2> HIDE DEF merged
  <2>4. IsVotes(c) /\ PointsOrdered(c.tokens) /\ SamePower(Votes.tokens, c.tokens)
    BY <1>1, <2>1, <2>3, CheckpointPast
  <2> HIDE DEF c
  <2>5. PointsOrdered(d.tokens) /\ SamePower(c.tokens, d.tokens)
    BY <1>1, <2>1, <2>4, NoLockType, CheckpointPast
  <2> HIDE DEF d
  <2>6. SamePower(Votes.tokens, d.tokens)
    BY <2>4, <2>5 DEF SamePower
  <2>7. QED
    BY <1>1, <2>2, <2>5, <2>6
<1>9. ASSUME GlobalCheckpoint PROVE Goal
  <2>1. tokenPointHistory' = UpdateGlobalPoint(Votes).tokens
    BY <1>9 DEF GlobalCheckpoint, Record
  <2>2. UpdateGlobalPoint(Votes).tokens = Votes.tokens
    BY <1>1, UpdateShape
  <2>3. QED
    BY <1>1, <1>2, <2>1, <2>2
<1>10. ASSUME NEW u \in Users, NEW w \in Users, NEW t \in Tokens,
              Transfer(u, w, t) \/ Burn(u, t)
       PROVE  Goal
  <2>1. tokenPointHistory' = tokenPointHistory
    BY <1>10 DEF Transfer, Burn, voteVars
  <2>2. QED
    BY <1>2, <2>1
<1>11. Tick \/ UNCHANGED vars => Goal
  BY <1>2 DEF Tick, vars, voteVars
<1>12. QED
  BY <1>4, <1>5, <1>6, <1>7, <1>8, <1>9, <1>10, <1>11 DEF Next, LockNext

\* The invariant's half about points, before and after a step.
LEMMA NextPoints ==
  ASSUME TypeOK, PointsOrdered(tokenPointHistory), [Next]_vars
  PROVE  PointsOrdered(tokenPointHistory)'
<1>1. PointsOrdered(tokenPointHistory')
  BY NextPast
<1>2. CASE now' = now
  BY <1>1, <1>2 DEF PointsOrdered
<1>3. CASE Tick
  <2>1. now \in Nat /\ now' = now + 1
    BY <1>3, HistoryType DEF Tick
  <2>2. ASSUME NEW t \in Tokens PROVE Ordered(tokenPointHistory'[t], now + 1)
    <3> DEFINE h == tokenPointHistory'[t]
    <3>1. Ordered(h, now)
      BY <1>1 DEF PointsOrdered
    <3> SUFFICES Ordered(h, now + 1)
      OBVIOUS
    <3> HIDE DEF h
    <3>2. QED
      BY <2>1, <3>1 DEF Ordered
  <2>3. QED
    BY <2>1, <2>2 DEF PointsOrdered
<1>4. Next => now' = now \/ Tick
  BY DEF Next, LockNext, CreateLock, DepositFor, IncreaseAmount, IncreaseUnlockTime, Withdraw,
         GlobalCheckpoint, Transfer, Burn, MergePositions
<1>5. QED
  BY <1>2, <1>3, <1>4 DEF vars

LEMMA InitPoints == Init => PointsOrdered(tokenPointHistory)
<1> SUFFICES ASSUME Init PROVE PointsOrdered(tokenPointHistory)
  OBVIOUS
<1>1. Len(<<>>) = 0 /\ DOMAIN <<>> = {}
  OBVIOUS
<1>2. Ordered(<<>>, now)
  BY <1>1 DEF Ordered
<1>3. QED
  BY <1>2 DEF Init, PointsOrdered

\* What a user had at a past second: the list and each token's points are
\* what they were.
LEMMA VotesStay ==
  ASSUME TypeOK, SamePower(tokenPointHistory, tokenPointHistory'),
         SamePast(userTokenHistory, userTokenHistory'), Follows(userTokenHistory, ownerOf),
         NEW u \in Users, NEW ts \in 0..(now - 1)
  PROVE  BalanceOfUser(u, ts)' = BalanceOfUser(u, ts)
<1> DEFINE tokens == TokensOfUser(u, ts)
           f == [k \in DOMAIN tokens |-> BalanceOfToken(tokens[k], ts)]
<1>1. TokensOfUser(u, ts)' = HeldAt(userTokenHistory'[u], ts)
  BY TokensOfUserIs DEF TokensOfUser, HeldAt, EpochAt
<1>2. TokensOfUser(u, ts)' = tokens
  BY <1>1, TokensOfUserIs DEF SamePast
<1>3. ASSUME NEW t \in Tokens
      PROVE  PowerAt(tokenPointHistory'[t], ts) = BalanceOfToken(t, ts)
  BY BalanceOfTokenIs DEF SamePower
<1>4. tokens \in Seq(Tokens)
  <2>1. now \in Nat /\ userTokenHistory[u] \in Seq(Entry) /\ Ordered(userTokenHistory[u], now)
    BY HistoryType DEF Follows, Histories
  <2> DEFINE h == userTokenHistory[u]
             e == EpochAt(h, ts)
  <2>2. ts \in Int
    BY <2>1
  <2>3. e \in 0..Len(h)
    <3> HIDE DEF h
    <3>1. h \in Seq(Entry) /\ Ordered(h, now)
      BY <2>1 DEF h
    <3>2. InForce(e, h, ts)
      BY <2>1, <2>2, <3>1, EpochFound
    <3>3. QED
      BY <3>2 DEF InForce
  <2>4. tokens = IF e = 0 THEN <<>> ELSE h[e].tokenIds
    BY TokensOfUserIs DEF HeldAt
  <2>5. ASSUME e # 0 PROVE h[e].tokenIds \in Seq(Tokens)
    <3> HIDE DEF h, e, tokens
    <3>1. h[e] \in Entry
      BY <2>1, <2>3, <2>5 DEF h
    <3>2. QED
      BY <3>1 DEF Entry
  <2>6. QED
    <3> HIDE DEF h, e, tokens
    <3>1. QED
      BY <2>4, <2>5
<1> DEFINE g == [k \in DOMAIN tokens |-> PowerAt(tokenPointHistory'[tokens[k]], ts)]
<1>5. BalanceOfUser(u, ts)' = SumFunction(g)
  BY <1>2 DEF BalanceOfUser, BalanceOfToken, PowerAt, EpochAt
<1>6. g = f
  <2> HIDE DEF tokens
  <2>1. \A k \in DOMAIN tokens : tokens[k] \in Tokens
    BY <1>4
  <2>2. QED
    BY <1>3, <2>1
<1>7. QED
  BY <1>5, <1>6 DEF BalanceOfUser

\* Whoever transfers, extends, merges, withdraws or burns afterwards, and
\* whenever: the votes a user had at an earlier second, which governance may
\* have counted, do not change.
THEOREM PastVotes == Spec => PastVotesFixed
<1>1. Init => PointsOrdered(tokenPointHistory) /\ OwnershipInv
  BY InitPoints, InitOwnership
<1>2. TypeOK /\ PointsOrdered(tokenPointHistory) /\ OwnershipInv /\ [Next]_vars
        => (PointsOrdered(tokenPointHistory) /\ OwnershipInv)'
  BY NextPoints, NextOwnership
<1>3. TypeOK /\ PointsOrdered(tokenPointHistory) /\ OwnershipInv /\ [Next]_vars
        => [\A u \in Users, ts \in 0..(now - 1) :
              BalanceOfUser(u, ts)' = BalanceOfUser(u, ts)]_vars
  BY NextPast, NextOwnership, VotesStay DEF OwnershipInv
<1>4. QED
  BY <1>1, <1>2, <1>3, TypeCorrect, PTL DEF Spec, PastVotesFixed

-----------------------------------------------------------------------------
(* Supply: the curve the aggregate follows *)

\* From from on, b is the bias and s the slope of an aggregate with the changes
\* f: within week k both are those of a straight line, at its end the slope
\* changes.
Curve(b, s, f, from) ==
  \A k \in Nat, a, c \in from..Horizon :
    k * WEEK <= a /\ a < c /\ c <= (k + 1) * WEEK
      => /\ b[c] = b[a] - s[a] * (c - a)
         /\ s[c] = s[a] + (IF c = (k + 1) * WEEK THEN f[c] ELSE 0)

\* The point p lies on the curve.
On(b, s, p) == p.bias = b[p.ts] /\ p.slope = s[p.ts]

\* So do the points w[0..n] of a loop, in order, from from to to.
Rides(w, n, b, s, from, to) ==
  /\ \A i \in 0..n : On(b, s, w[i]) /\ w[i].ts \in from..to
  /\ \A i, j \in 0..n : i <= j => w[i].ts <= w[j].ts

\* One week along the curve.
LEMMA WeekOnCurve ==
  ASSUME NEW b \in [0..Horizon -> Nat], NEW s \in [0..Horizon -> Nat],
         NEW f \in [0..Horizon -> Int], NEW from \in Nat, Curve(b, s, f, from),
         NEW clips \in BOOLEAN, NEW x, On(b, s, x), x.ts \in Nat, from <= x.ts,
         NEW to \in 0..Horizon, x.ts <= to,
         NEW k \in Nat, k * WEEK <= x.ts, x.ts < (k + 1) * WEEK
  PROVE  LET week == (k + 1) * WEEK
             y    == NextWeek(x, week, to, f, clips)
         IN  On(b, s, y) /\ y.ts = (IF week > to THEN to ELSE week)
<1> DEFINE week == (k + 1) * WEEK
           ti == IF week > to THEN to ELSE week
           dslope == IF week > to THEN 0 ELSE f[ti]
           nb == x.bias - x.slope * (ti - x.ts)
           ns == x.slope + dslope
           y == NextWeek(x, week, to, f, clips)
<1>1. week \in Nat /\ k * WEEK \in Nat /\ x.ts < week
  BY Assumed
<1>2. ti \in from..Horizon /\ x.ts <= ti /\ ti <= week /\ x.ts \in from..Horizon
  <2>1. \A z, v \in Nat : from <= z /\ z <= to /\ z < v
          => LET t == IF v > to THEN to ELSE v
             IN  t \in from..Horizon /\ z <= t /\ t <= v /\ z \in from..Horizon
    <3>1. Horizon \in Nat /\ to \in Nat /\ to <= Horizon
      BY Assumed
    <3>2. \A z \in Nat : from <= z /\ z <= to => z \in from..Horizon
      BY <3>1
    <3>3. to \in Nat /\ to <= to
      BY <3>1
    <3> SUFFICES ASSUME NEW z \in Nat, NEW v \in Nat, from <= z, z <= to, z < v
                 PROVE  LET t == IF v > to THEN to ELSE v
                        IN  t \in from..Horizon /\ z <= t /\ t <= v /\ z \in from..Horizon
      OBVIOUS
    <3>4. CASE v > to
      BY <3>2, <3>3, <3>4
    <3>5. CASE ~(v > to)
      BY <3>2, <3>3, <3>5
    <3>6. QED
      BY <3>4, <3>5
  <2> HIDE DEF week
  <2>2. QED
    BY <1>1, <2>1
<1>3. nb = b[ti] /\ ns = s[ti]
  <2>1. x.bias = b[x.ts] /\ x.slope = s[x.ts]
    BY DEF On
  <2>2. CASE x.ts = ti
    <3>1. week > to
      <4> HIDE DEF week
      <4>1. QED
        BY <1>1, <2>2, Assumed
    <3>2. dslope = 0
      BY <3>1
    <3>3. b[x.ts] \in Nat /\ s[x.ts] \in Nat /\ ti - x.ts = 0
      <4> HIDE DEF ti
      <4>1. QED
        BY <1>2, <2>2
    <3> HIDE DEF ti, dslope
    <3>4. QED
      BY <2>1, <2>2, <3>2, <3>3
  <2>3. CASE x.ts < ti
    <3> DEFINE a == x.ts
    <3>1. k * WEEK <= a /\ a < ti /\ ti <= week
      BY <1>2, <2>3
    <3>2. a \in from..Horizon /\ ti \in from..Horizon
      BY <1>2
    <3> HIDE DEF a, ti, week
    <3>3. /\ b[ti] = b[a] - s[a] * (ti - a)
          /\ s[ti] = s[a] + (IF ti = week THEN f[ti] ELSE 0)
      BY <3>1, <3>2 DEF Curve, week
    <3>4. dslope = IF ti = week THEN f[ti] ELSE 0
      BY <1>1 DEF ti
    <3>5. QED
      BY <2>1, <3>3, <3>4 DEF a
  <2>4. x.ts = ti \/ x.ts < ti
    <3> DEFINE a == x.ts
    <3>1. a \in Int /\ ti \in Int /\ a <= ti
      BY <1>2
    <3> HIDE DEF ti, a
    <3>2. a = ti \/ a < ti
      BY <3>1
    <3>3. QED
      BY <3>2 DEF a
  <2>5. QED
    BY <2>2, <2>3, <2>4
<1>4. y = [bias |-> IF clips THEN NonNeg(nb) ELSE nb,
           slope |-> IF clips THEN NonNeg(ns) ELSE ns, ts |-> ti]
  BY DEF NextWeek
<1>5. b[ti] \in Nat /\ s[ti] \in Nat
  <2> HIDE DEF ti
  <2>1. QED
    BY <1>2
<1> HIDE DEF nb, ns, ti, y
<1>6. y.bias = b[ti] /\ y.slope = s[ti] /\ y.ts = ti
  BY <1>3, <1>4, <1>5 DEF NonNeg
<1>7. QED
  BY <1>6 DEF On, ti, y

\* The ends of the weeks from a time on.
LEMMA WeekEnds ==
  ASSUME NEW t \in Nat
  PROVE  LET q == t \div WEEK
             base == q * WEEK
         IN  /\ q \in Nat /\ base \in Nat /\ base + 0 * WEEK = base
             /\ \A i \in Nat : /\ q + i \in Nat
                               /\ base + i * WEEK \in Nat
                               /\ base + i * WEEK = (q + i) * WEEK
                               /\ base + (i + 1) * WEEK = ((q + i) + 1) * WEEK
                               /\ base + (i + 1) * WEEK = (base + i * WEEK) + WEEK
                               /\ i # 0 => t < base + i * WEEK
             /\ \A i, j \in Nat : i <= j => base + i * WEEK <= base + j * WEEK
<1> DEFINE q == t \div WEEK
           base == q * WEEK
<1>1. q \in Nat
  <2>1. \A d \in Nat : d > 0 => t \div d \in Nat
    OBVIOUS
  <2>2. QED
    BY <2>1, Assumed
<1>2. base \in Nat /\ t < base + WEEK
  BY WeekStart
<1>3. \A i, d \in Nat : /\ q + i \in Nat /\ i * d \in Nat
                        /\ q * d + i * d = (q + i) * d
                        /\ q * d + (i + 1) * d = ((q + i) + 1) * d
                        /\ (i + 1) * d = i * d + d
                        /\ 0 * d = 0
  <2> HIDE DEF q
  <2>1. QED
    BY <1>1
<1>4. \A i, j \in Nat : i <= j => i * WEEK <= j * WEEK
  BY Assumed, TimesMonotone
<1>5. WEEK \in Nat
  BY Assumed
<1> HIDE DEF q
<1>6. \A i \in Nat : /\ q + i \in Nat /\ i * WEEK \in Nat
                     /\ base + i * WEEK = (q + i) * WEEK
                     /\ base + (i + 1) * WEEK = ((q + i) + 1) * WEEK
                     /\ (i + 1) * WEEK = i * WEEK + WEEK
                     /\ 0 * WEEK = 0
  BY <1>3, <1>5
<1> HIDE DEF base
<1>7. ASSUME NEW i \in Nat
      PROVE  /\ base + i * WEEK \in Nat
             /\ base + (i + 1) * WEEK = (base + i * WEEK) + WEEK
             /\ i # 0 => t < base + i * WEEK
  <2> DEFINE z == i * WEEK
             y == (i + 1) * WEEK
  <2>1. z \in Nat /\ y = z + WEEK
    BY <1>6
  <2>2. i # 0 => WEEK <= z
    <3>1. i # 0 => 1 <= i
      OBVIOUS
    <3>2. 1 \in Nat /\ 1 * WEEK = WEEK
      BY <1>5
    <3>3. QED
      BY <1>4, <3>1, <3>2
  <2> HIDE DEF z, y
  <2>3. base + z \in Nat /\ base + y = (base + z) + WEEK /\ (i # 0 => t < base + z)
    BY <1>2, <1>5, <2>1, <2>2
  <2>4. QED
    BY <2>3 DEF z, y
<1>8. ASSUME NEW i \in Nat, NEW j \in Nat, i <= j PROVE base + i * WEEK <= base + j * WEEK
  <2> DEFINE z == i * WEEK
             y == j * WEEK
  <2>1. z <= y /\ z \in Nat /\ y \in Nat
    BY <1>4, <1>6, <1>8
  <2> HIDE DEF z, y
  <2>2. base + z <= base + y
    BY <1>2, <2>1
  <2>3. QED
    BY <2>2 DEF z, y
<1>9. 0 \in Nat /\ base + 0 = base
  BY <1>2
<1>10. QED
  BY <1>1, <1>2, <1>6, <1>7, <1>8, <1>9 DEF base, q

\* The weekly loops, clipping or not, stay on the curve they start from.
LEMMA WalkOnCurve ==
  ASSUME NEW b \in [0..Horizon -> Nat], NEW s \in [0..Horizon -> Nat],
         NEW f \in [0..Horizon -> Int], NEW p \in Point, Curve(b, s, f, p.ts), On(b, s, p),
         NEW clips \in BOOLEAN, NEW to \in 0..Horizon, p.ts <= to
  PROVE  LET base == (p.ts \div WEEK) * WEEK
             n == WeeksBetween(p.ts, to)
             w == WeeklyPoints(p, to, f, clips)
         IN  /\ n \in Nat /\ n >= 1
             /\ Rides(w, n, b, s, p.ts, to)
             /\ (w[n].ts = to) \/ (n = MaxWeeks /\ w[n].ts = base + MaxWeeks * WEEK)
<1> DEFINE q == p.ts \div WEEK
           base == q * WEEK
           n == WeeksBetween(p.ts, to)
           w == WeeklyPoints(p, to, f, clips)
           week(i) == base + i * WEEK
           Time(i) == IF i = 0 THEN p.ts ELSE IF week(i) > to THEN to ELSE week(i)
           Good(i) == On(b, s, w[i]) /\ w[i].ts = Time(i)
           G == {i \in Nat : i \in 0..n => Good(i)}
<1>1. p.ts \in Nat /\ to \in Nat
  BY Assumed DEF Point
<1>2. /\ base \in Nat /\ base <= p.ts /\ p.ts < base + WEEK /\ q \in Nat
      /\ week(0) = base
      /\ \A i \in Nat : /\ q + i \in Nat /\ week(i) \in Nat
                        /\ week(i) = (q + i) * WEEK
                        /\ week(i + 1) = ((q + i) + 1) * WEEK
                        /\ week(i + 1) = week(i) + WEEK
                        /\ i # 0 => p.ts < week(i)
      /\ \A i, j \in Nat : i <= j => week(i) <= week(j)
  BY <1>1, WeekStart, WeekEnds
<1>3. /\ n \in 1..MaxWeeks /\ n \in Nat /\ n >= 1
      /\ \A i \in 1..(n - 1) : week(i) < to
      /\ n = MaxWeeks \/ week(n) >= to
  <2>1. /\ n \in 1..MaxWeeks
        /\ \A i \in 1..(n - 1) : week(i) < to
        /\ n = MaxWeeks \/ week(n) >= to
    BY <1>1, WeeksCounted
  <2> HIDE DEF n, week
  <2>2. n \in Nat /\ n >= 1
    BY <2>1, Assumed
  <2>3. QED
    BY <2>1, <2>2
<1>4. /\ w[0] = p
      /\ \A i \in 1..n : w[i] = NextWeek(w[i-1], week(i), to, f, clips)
  <2>1. p \in PassedPoint(clips)
    <3>1. Point \subseteq RawPoint
      BY DEF Point, RawPoint
    <3>2. QED
      BY <3>1 DEF PassedPoint
  <2>2. Walks(w, n, p, to, f, clips)
    BY <2>1, Walked
  <2> HIDE DEF w, n
  <2>3. QED
    BY <2>2 DEF Walks
<1>5. base + MaxWeeks * WEEK = week(MaxWeeks)
  OBVIOUS
<1> HIDE DEF n, w, week, base, q
<1>6. 0 \in G
  BY <1>4
<1>7. ASSUME NEW i \in G PROVE i + 1 \in G
  <2>1. SUFFICES ASSUME i + 1 \in 0..n PROVE Good(i + 1)
    OBVIOUS
  <2> DEFINE k == q + i
             x == w[i]
  <2>2. /\ i \in 0..n /\ i + 1 \in 1..n /\ (i + 1) - 1 = i /\ i \in Nat
        /\ i = 0 \/ i \in 1..(n - 1)
    BY <1>3, <2>1
  <2>3. On(b, s, x) /\ x.ts = Time(i)
    BY <2>2
  <2> DEFINE y == week(i)
             z == week(i + 1)
             ts == x.ts
  <2>4. k \in Nat /\ k * WEEK = y /\ (k + 1) * WEEK = z /\ z = y + WEEK /\ y \in Nat
    BY <1>2, <2>2
  <2>14. z = y + WEEK /\ y \in Nat
    BY <2>4
  <2>5. y <= ts /\ ts < z /\ ts \in Nat /\ p.ts <= ts /\ ts <= to
    <3>1. CASE i = 0
      <4>1. ts = p.ts
        BY <2>3, <3>1
      <4>2. y <= p.ts /\ p.ts < y + WEEK
        BY <1>2, <3>1
      <4> HIDE DEF ts, y, z
      <4>3. QED
        BY <1>1, <2>14, <4>1, <4>2, Assumed
    <3>2. CASE i \in 1..(n - 1)
      <4>1. y < to /\ i # 0
        BY <1>3, <3>2
      <4>2. p.ts < y
        BY <1>2, <2>2, <4>1
      <4>3. ts = IF y > to THEN to ELSE y
        BY <2>3, <4>1
      <4> DEFINE first == p.ts
      <4>4. first \in Nat /\ to \in Nat /\ WEEK \in Nat /\ WEEK > 0
        BY <1>1, Assumed
      <4> HIDE DEF ts, y, z, first
      <4>5. ts = y /\ y < z /\ first <= ts /\ ts <= to
        BY <2>14, <4>1, <4>2, <4>3, <4>4 DEF first
      <4>6. QED
        BY <2>14, <4>5 DEF first
    <3>3. QED
      BY <2>2, <3>1, <3>2
  <2>6. w[i+1] = NextWeek(x, (k + 1) * WEEK, to, f, clips)
    BY <1>4, <2>2, <2>4
  <2>7. k * WEEK <= x.ts /\ x.ts < (k + 1) * WEEK /\ x.ts \in Nat /\ p.ts <= x.ts /\ x.ts <= to
    BY <2>4, <2>5
  <2>8. On(b, s, x) /\ k \in Nat /\ to \in 0..Horizon /\ p.ts \in Nat /\ Curve(b, s, f, p.ts)
    BY <1>1, <2>3, <2>4
  <2> DEFINE x2 == NextWeek(x, (k + 1) * WEEK, to, f, clips)
  <2> HIDE DEF k, x, y, z, ts, Time
  <2>9. /\ On(b, s, x2)
        /\ x2.ts = IF (k + 1) * WEEK > to THEN to ELSE (k + 1) * WEEK
    BY <2>7, <2>8, WeekOnCurve
  <2>10. i + 1 # 0
    BY <2>2
  <2>11. Time(i + 1) = IF z > to THEN to ELSE z
    BY <2>10 DEF Time, z
  <2>12. w[i+1] = x2
    BY <2>6
  <2> HIDE DEF x2
  <2>13. QED
    BY <2>4, <2>9, <2>11, <2>12 DEF x2
<1>8. \A i \in 0..n : Good(i)
  <2> HIDE DEF G
  <2>1. G \in SUBSET Nat
    BY DEF G
  <2>2. G = Nat
    BY <1>6, <1>7, <2>1, AllNaturals
  <2> HIDE DEF Good
  <2>3. QED
    BY <1>3, <2>2 DEF G
<1>9. ASSUME NEW i \in 0..n, NEW j \in 0..n, i <= j
      PROVE  Time(i) <= Time(j) /\ Time(i) \in p.ts..to
  <2>1. i \in Nat /\ j \in Nat
    BY <1>3
  <2>2. week(i) \in Nat /\ week(j) \in Nat /\ week(i) <= week(j)
        /\ (i # 0 => p.ts < week(i)) /\ (j # 0 => p.ts < week(j))
    BY <1>2, <1>9, <2>1
  <2>3. QED
    BY <1>1, <1>9, <2>1, <2>2
<1>10. Rides(w, n, b, s, p.ts, to)
  <2> HIDE DEF Time
  <2>1. \A i \in 0..n : On(b, s, w[i]) /\ w[i].ts = Time(i)
    BY <1>8
  <2>2. \A i \in 0..n : i <= i
    BY <1>3
  <2>3. QED
    BY <1>9, <2>1, <2>2 DEF Rides
<1>11. (w[n].ts = to) \/ (n = MaxWeeks /\ w[n].ts = week(MaxWeeks))
  <2>1. n \in 0..n /\ n # 0
    BY <1>3
  <2>2. w[n].ts = IF week(n) > to THEN to ELSE week(n)
    BY <1>8, <2>1
  <2>3. CASE n = MaxWeeks
    BY <2>2, <2>3
  <2>4. CASE week(n) >= to
    <3>1. week(n) \in Nat
      BY <1>2, <1>3
    <3>2. QED
      BY <1>1, <2>2, <2>4, <3>1
  <2>5. QED
    BY <1>3, <2>3, <2>4
<1>12. QED
  BY <1>3, <1>5, <1>10, <1>11 DEF n, w, base, q

\* From MAX_TIME behind from on nothing is left.
Over(b, s, from) == \A c \in 0..Horizon : c >= from + MAX_TIME => b[c] = 0 /\ s[c] = 0

\* A loop ends at its goal, or where nothing is left.
LEMMA WalkEnds ==
  ASSUME NEW b \in [0..Horizon -> Nat], NEW s \in [0..Horizon -> Nat],
         NEW f \in [0..Horizon -> Int], NEW p \in Point, Curve(b, s, f, p.ts), On(b, s, p),
         NEW clips \in BOOLEAN, NEW to \in 0..Horizon, p.ts <= to
  PROVE  LET last == WeeklyPoints(p, to, f, clips)[WeeksBetween(p.ts, to)]
         IN  /\ On(b, s, last) /\ last.ts \in p.ts..to
             /\ last.ts = to \/ last.ts > p.ts + MAX_TIME
<1> DEFINE base == (p.ts \div WEEK) * WEEK
           n == WeeksBetween(p.ts, to)
           w == WeeklyPoints(p, to, f, clips)
           ts == w[n].ts
           far == MaxWeeks * WEEK
<1>1. /\ n \in Nat /\ n >= 1 /\ Rides(w, n, b, s, p.ts, to)
      /\ (ts = to) \/ (n = MaxWeeks /\ ts = base + far)
  BY WalkOnCurve
<1>2. p.ts \in Nat /\ to \in Nat
  BY Assumed DEF Point
<1>3. base \in Nat /\ p.ts < base + WEEK
  BY <1>2, WeekStart
<1>4. far \in Nat /\ MAX_TIME + WEEK <= far
  BY LoopsSuffice, Assumed
<1> HIDE DEF base, n, w, far
<1>5. n \in 0..n
  BY <1>1
<1>6. On(b, s, w[n]) /\ ts \in p.ts..to
  BY <1>1, <1>5 DEF Rides
<1> HIDE DEF ts
<1>7. ts = to \/ ts > p.ts + MAX_TIME
  <2>1. \A a, z, m, w1, x \in Nat : a < z + w1 /\ m + w1 <= x => z + x > a + m
    OBVIOUS
  <2>2. MAX_TIME \in Nat /\ WEEK \in Nat
    BY Assumed
  <2>3. base + far > p.ts + MAX_TIME
    BY <1>2, <1>3, <1>4, <2>1, <2>2
  <2>4. QED
    BY <1>1, <2>3
<1>8. QED
  BY <1>6, <1>7 DEF w, n, ts

\* supplyAt, from a point with scheduled changes f.
SupplyFrom(p, f, T) == NonNeg(WeeklyPoints(p, T, f, FALSE)[WeeksBetween(p.ts, T)].bias)

\* It reads the curve.
LEMMA SupplyOnCurve ==
  ASSUME NEW b \in [0..Horizon -> Nat], NEW s \in [0..Horizon -> Nat],
         NEW f \in [0..Horizon -> Int], NEW p \in Point, Curve(b, s, f, p.ts), On(b, s, p),
         Over(b, s, p.ts), NEW T \in 0..Horizon, p.ts <= T
  PROVE  SupplyFrom(p, f, T) = b[T]
<1> DEFINE last == WeeklyPoints(p, T, f, FALSE)[WeeksBetween(p.ts, T)]
           ts == last.ts
<1>1. /\ On(b, s, last) /\ ts \in p.ts..T
      /\ ts = T \/ ts > p.ts + MAX_TIME
  BY WalkEnds
<1>2. p.ts \in Nat /\ T \in Nat /\ Horizon \in Nat
  BY Assumed DEF Point
<1>3. last.bias = b[ts]
  BY <1>1 DEF On
<1>4. SupplyFrom(p, f, T) = NonNeg(last.bias)
  BY DEF SupplyFrom
<1> HIDE DEF last, ts
<1>5. ts \in 0..Horizon /\ b[ts] \in Nat /\ b[T] \in Nat
  BY <1>1, <1>2
<1>6. b[ts] = b[T]
  <2>1. CASE ts = T
    BY <2>1
  <2>2. CASE ts > p.ts + MAX_TIME
    <3>0. ts \in Nat /\ ts <= T
      BY <1>1, <1>2
    <3>1. ts >= p.ts + MAX_TIME /\ T >= p.ts + MAX_TIME
      <4>1. \A a, m, x, y \in Nat : x > a + m /\ x <= y => x >= a + m /\ y >= a + m
        OBVIOUS
      <4>2. MAX_TIME \in Nat
        BY Assumed
      <4>3. QED
        BY <1>2, <2>2, <3>0, <4>1, <4>2
    <3>2. QED
      BY <1>5, <3>1 DEF Over
  <2>3. QED
    BY <1>1, <2>1, <2>2
<1>7. QED
  BY <1>3, <1>4, <1>5, <1>6 DEF NonNeg

\* A loop does not look at changes behind its goal.
LEMMA SameSlopes ==
  ASSUME NEW f \in [0..Horizon -> Int], NEW g \in [0..Horizon -> Int],
         NEW T \in 0..Horizon, \A c \in 0..T : g[c] = f[c], NEW p \in Point
  PROVE  SupplyFrom(p, g, T) = SupplyFrom(p, f, T)
<1> DEFINE base == (p.ts \div WEEK) * WEEK
           n == WeeksBetween(p.ts, T)
           w == WeeklyPoints(p, T, f, FALSE)
           y == WeeklyPoints(p, T, g, FALSE)
           week(i) == base + i * WEEK
           G == {i \in Nat : i \in 0..n => y[i] = w[i]}
<1>1. p.ts \in Nat /\ T \in Nat
  BY Assumed DEF Point
<1>2. \A i \in Nat : week(i) \in Nat
  BY <1>1, WeekEnds
<1>3. p \in PassedPoint(FALSE) /\ FALSE \in BOOLEAN
  BY DEF Point, RawPoint, PassedPoint
<1> DEFINE clips == FALSE
<1>11. Walks(w, n, p, T, f, FALSE)
  <2>1. clips \in BOOLEAN /\ p \in PassedPoint(clips)
    BY <1>3
  <2> HIDE DEF clips
  <2>2. Walks(WeeklyPoints(p, T, f, clips), WeeksBetween(p.ts, T), p, T, f, clips)
    BY <2>1, Walked
  <2>3. QED
    BY <2>2 DEF clips
<1>12. Walks(y, n, p, T, g, FALSE)
  <2>1. clips \in BOOLEAN /\ p \in PassedPoint(clips)
    BY <1>3
  <2> HIDE DEF clips
  <2>2. Walks(WeeklyPoints(p, T, g, clips), WeeksBetween(p.ts, T), p, T, g, clips)
    BY <2>1, Walked
  <2>3. QED
    BY <2>2 DEF clips
<1> HIDE DEF n, w, y
<1>4. /\ n \in Nat
      /\ w[0] = p
      /\ \A i \in 1..n : w[i] = NextWeek(w[i-1], week(i), T, f, FALSE)
  BY <1>11 DEF Walks
<1>5. /\ y[0] = p
      /\ \A i \in 1..n : y[i] = NextWeek(y[i-1], week(i), T, g, FALSE)
  BY <1>12 DEF Walks
<1>6. ASSUME NEW i \in Nat, NEW x
      PROVE  NextWeek(x, week(i), T, g, FALSE) = NextWeek(x, week(i), T, f, FALSE)
  <2> DEFINE k == week(i)
  <2>1. k \in Nat
    BY <1>2
  <2> HIDE DEF k
  <2>2. k > T \/ k \in 0..T
    BY <1>1, <2>1
  <2>3. NextWeek(x, k, T, g, FALSE) = NextWeek(x, k, T, f, FALSE)
    BY <2>2 DEF NextWeek
  <2>4. QED
    BY <2>3 DEF k
<1>7. 0 \in G
  BY <1>4, <1>5
<1> HIDE DEF week
<1>8. ASSUME NEW i \in G PROVE i + 1 \in G
  <2>1. SUFFICES ASSUME i + 1 \in 0..n PROVE y[i + 1] = w[i + 1]
    OBVIOUS
  <2>2. i \in 0..n /\ i + 1 \in 1..n /\ (i + 1) - 1 = i /\ i + 1 \in Nat
    BY <1>4, <2>1
  <2>3. y[i] = w[i]
    BY <2>2
  <2>4. /\ w[i + 1] = NextWeek(w[i], week(i + 1), T, f, FALSE)
        /\ y[i + 1] = NextWeek(y[i], week(i + 1), T, g, FALSE)
    BY <1>4, <1>5, <2>2
  <2>5. QED
    BY <1>6, <2>2, <2>3, <2>4
<1>9. y[n] = w[n]
  <2> HIDE DEF G
  <2>1. G \in SUBSET Nat
    BY DEF G
  <2>2. G = Nat
    BY <1>7, <1>8, <2>1, AllNaturals
  <2>3. n \in G /\ n \in 0..n
    BY <1>4, <2>2
  <2>4. QED
    BY <2>3 DEF G
<1>10. QED
  BY <1>9 DEF SupplyFrom, n, w, y

\* Without a bias, slopes and changes there is no supply.
LEMMA NothingFromNothing ==
  ASSUME NEW f \in [0..Horizon -> Int], \A c \in 0..Horizon : f[c] = 0,
         NEW T \in 0..Horizon, NEW p \in Point, p.bias = 0, p.slope = 0
  PROVE  SupplyFrom(p, f, T) = 0
<1> DEFINE base == (p.ts \div WEEK) * WEEK
           n == WeeksBetween(p.ts, T)
           w == WeeklyPoints(p, T, f, FALSE)
           week(i) == base + i * WEEK
           G == {i \in Nat : i \in 0..n => w[i].bias = 0 /\ w[i].slope = 0 /\ w[i].ts \in Nat}
<1>1. p.ts \in Nat /\ T \in Nat
  BY Assumed DEF Point
<1>2. \A i \in Nat : week(i) \in Nat
  BY <1>1, WeekEnds
<1>3. p \in PassedPoint(FALSE) /\ FALSE \in BOOLEAN
  BY DEF Point, RawPoint, PassedPoint
<1> DEFINE clips == FALSE
<1>11. Walks(w, n, p, T, f, FALSE)
  <2>1. clips \in BOOLEAN /\ p \in PassedPoint(clips)
    BY <1>3
  <2> HIDE DEF clips
  <2>2. Walks(WeeklyPoints(p, T, f, clips), WeeksBetween(p.ts, T), p, T, f, clips)
    BY <2>1, Walked
  <2>3. QED
    BY <2>2 DEF clips
<1> HIDE DEF n, w
<1>4. /\ n \in Nat
      /\ w[0] = p
      /\ \A i \in 1..n : w[i] = NextWeek(w[i-1], week(i), T, f, FALSE)
  BY <1>11 DEF Walks
<1>5. 0 \in G
  BY <1>1, <1>4
<1>6. ASSUME NEW i \in G PROVE i + 1 \in G
  <2>1. SUFFICES ASSUME i + 1 \in 0..n
                 PROVE  w[i+1].bias = 0 /\ w[i+1].slope = 0 /\ w[i+1].ts \in Nat
    OBVIOUS
  <2> DEFINE x == w[i]
             k == week(i + 1)
             ti == IF k > T THEN T ELSE k
             d == IF k > T THEN 0 ELSE f[ti]
  <2>2. i \in 0..n /\ i + 1 \in 1..n /\ (i + 1) - 1 = i /\ i + 1 \in Nat
    BY <1>4, <2>1
  <2>3. x.bias = 0 /\ x.slope = 0 /\ x.ts \in Nat
    BY <2>2
  <2>4. k \in Nat
    BY <1>2, <2>2
  <2>5. w[i+1] = NextWeek(x, k, T, f, FALSE)
    BY <1>4, <2>2
  <2> HIDE DEF k, x
  <2>6. ti \in 0..T /\ ti \in Nat
    BY <1>1, <2>4
  <2>7. d = 0
    <3>1. ti \in 0..Horizon
      BY <2>6, Assumed
    <3> HIDE DEF ti
    <3>2. QED
      BY <3>1
  <2>8. w[i+1] = [bias |-> x.bias - x.slope * (ti - x.ts), slope |-> x.slope + d, ts |-> ti]
    BY <2>5 DEF NextWeek
  <2> HIDE DEF ti, d
  <2>9. x.bias - x.slope * (ti - x.ts) = 0 /\ x.slope + d = 0
    BY <2>3, <2>6, <2>7
  <2>10. QED
    BY <2>6, <2>8, <2>9
<1>7. w[n].bias = 0
  <2> HIDE DEF G
  <2>1. G \in SUBSET Nat
    BY DEF G
  <2>2. G = Nat
    BY <1>5, <1>6, <2>1, AllNaturals
  <2>3. n \in G /\ n \in 0..n
    BY <1>4, <2>2
  <2>4. QED
    BY <2>3 DEF G
<1>8. QED
  BY <1>7 DEF SupplyFrom, n, w, NonNeg

-----------------------------------------------------------------------------
(* The supply the recorded points and changes describe *)

\* The epoch the searches over the points of v find for T.
EpochOf(v, T) == FindTimestampEpoch([e \in 1..v.epoch |-> v.points[e].ts], v.epoch, T)

\* totalSupply.
SupplyIn(v, T) == SupplyFrom(v.points[EpochOf(v, T)], v.slopes, T)

\* The points are in the order of their timestamps, none after now.
PointsInOrder(v) ==
  /\ \A e \in 1..v.epoch : v.points[e].ts <= now
  /\ \A e, k \in 1..v.epoch : e <= k => v.points[e].ts <= v.points[k].ts

\* e is the last epoch not later than T, or 0.
Covering(e, v, T) ==
  e \in 0..v.epoch /\ \A k \in 1..v.epoch : v.points[k].ts <= T <=> k <= e

LEMMA EpochOfIs ==
  ASSUME NEW v, IsVotes(v), PointsInOrder(v), NEW T \in Int
  PROVE  Covering(EpochOf(v, T), v, T)
<1> DEFINE stamp == [e \in 1..v.epoch |-> v.points[e].ts]
           max == v.epoch
<1>1. max \in Nat /\ \A k \in 1..max : stamp[k] = v.points[k].ts /\ stamp[k] \in Nat
  BY DEF IsVotes, Point
<1>2. EpochOf(v, T) = FindTimestampEpoch(stamp, max, T)
  BY DEF EpochOf
<1>3. Sorted(stamp, max)
  BY <1>1 DEF PointsInOrder, Sorted
<1> HIDE DEF stamp
<1>4. IsLastAt(FindTimestampEpoch(stamp, max, T), stamp, max, T)
  <2> HIDE DEF max
  <2>1. QED
    BY <1>1, <1>3, SearchFinds
<1>5. QED
  BY <1>1, <1>2, <1>4 DEF IsLastAt, Covering

LEMMA CoveringUnique ==
  ASSUME NEW n \in Nat, NEW e \in 0..n, NEW d \in 0..n, \A k \in 1..n : k <= e <=> k <= d
  PROVE  e = d
<1>1. CASE e < d
  <2>1. d \in 1..n /\ d <= d
    BY <1>1
  <2>2. d <= e
    BY <2>1
  <2>3. QED
    BY <1>1, <2>2
<1>2. CASE d < e
  <2>1. e \in 1..n /\ e <= e
    BY <1>2
  <2>2. e <= d
    BY <2>1
  <2>3. QED
    BY <1>2, <2>2
<1>3. QED
  BY <1>1, <1>2

\* The curve b, s is the supply of v, past and future.
Described(v, b, s) ==
  /\ PointsInOrder(v)
  /\ StartPoint(v).ts <= now /\ On(b, s, StartPoint(v))
  /\ Curve(b, s, v.slopes, StartPoint(v).ts) /\ Over(b, s, StartPoint(v).ts)
  /\ \A T \in 0..Horizon : SupplyIn(v, T) = b[T]
  /\ v.epoch = 0 => \A T \in 0..Horizon : b[T] = 0 /\ s[T] = 0

\* The points _updateGlobalPoint adds are on the curve, in order; the last one
\* is of now if the one it starts from is not too old.
LEMMA UpdateRides ==
  ASSUME now \in 0..MaxTime, NEW v, IsVotes(v),
         NEW b \in [0..Horizon -> Nat], NEW s \in [0..Horizon -> Nat], Described(v, b, s)
  PROVE  LET g == UpdateGlobalPoint(v)
             P == StartPoint(v)
         IN  /\ \A e \in (v.epoch + 1)..g.epoch :
                   On(b, s, g.points[e]) /\ g.points[e].ts \in P.ts..now
             /\ PointsInOrder(g)
             /\ now <= P.ts + MAX_TIME => g.points[g.epoch].ts = now
<1> DEFINE g == UpdateGlobalPoint(v)
           P == StartPoint(v)
           n == WeeksBetween(P.ts, now)
           w == WeeklyPoints(P, now, v.slopes, TRUE)
<1>1. /\ IsVotes(g)
      /\ n \in Nat /\ n >= 1
      /\ P \in Point
      /\ g.epoch = v.epoch + n
      /\ \A e \in 0..v.epoch : g.points[e] = v.points[e]
      /\ \A i \in 1..n : g.points[v.epoch + i] = w[i]
  BY UpdateShape
<1>2. /\ v.epoch \in Nat /\ now \in Nat /\ now \in 0..Horizon
      /\ P.ts \in Nat /\ P.ts <= now
      /\ v.slopes \in [0..Horizon -> Int]
  <2>1. v.epoch \in Nat /\ v.slopes \in [0..Horizon -> Int]
    BY DEF IsVotes
  <2>2. now \in Nat /\ now \in 0..Horizon
    BY Assumed
  <2>3. P.ts <= now
    BY DEF Described
  <2> HIDE DEF P
  <2>4. P.ts \in Nat
    BY <1>1 DEF Point
  <2>5. QED
    BY <2>1, <2>2, <2>3, <2>4 DEF P
<1>3. Curve(b, s, v.slopes, P.ts) /\ On(b, s, P)
  BY DEF Described
<1> HIDE DEF g, P
<1>4. Rides(w, n, b, s, P.ts, now)
  BY <1>1, <1>2, <1>3, WalkOnCurve
<1>5. w[n].ts = now \/ w[n].ts > P.ts + MAX_TIME
  BY <1>1, <1>2, <1>3, WalkEnds
<1> HIDE DEF n, w
<1>6. ASSUME NEW e \in (v.epoch + 1)..g.epoch
      PROVE  /\ e - v.epoch \in 1..n /\ g.points[e] = w[e - v.epoch]
             /\ On(b, s, g.points[e]) /\ g.points[e].ts \in P.ts..now
  <2> DEFINE m == v.epoch
  <2>1. e - m \in 1..n /\ e - m \in 0..n /\ m + (e - m) = e
    <3>1. m \in Nat /\ n \in Nat /\ e \in (m + 1)..(m + n)
      BY <1>1, <1>2
    <3> HIDE DEF m
    <3>2. QED
      BY <3>1
  <2>2. g.points[e] = w[e - v.epoch]
    BY <1>1, <2>1
  <2>3. QED
    BY <1>4, <2>1, <2>2 DEF Rides
<1>7. ASSUME NEW e \in 1..v.epoch
      PROVE  g.points[e] = v.points[e] /\ v.points[e].ts \in Nat /\ v.points[e].ts <= P.ts
  <2>1. e \in 0..v.epoch /\ v.epoch \in 1..v.epoch /\ v.epoch > 0
    BY <1>2
  <2>2. P = v.points[v.epoch]
    BY <2>1 DEF P, StartPoint
  <2>3. v.points[e].ts <= v.points[v.epoch].ts
    BY <1>2, <2>1 DEF Described, PointsInOrder
  <2>4. v.points[e].ts \in Nat
    BY <2>1 DEF IsVotes, Point
  <2>5. QED
    BY <1>1, <2>1, <2>2, <2>3, <2>4
<1>8. \A e \in 1..g.epoch : e \in 1..v.epoch \/ e \in (v.epoch + 1)..g.epoch
  BY <1>1, <1>2
<1>9. ASSUME NEW e \in 1..g.epoch
      PROVE  g.points[e].ts <= now /\ g.points[e].ts \in Nat
  <2>1. CASE e \in 1..v.epoch
    BY <1>2, <1>7, <2>1
  <2>2. CASE e \in (v.epoch + 1)..g.epoch
    <3>1. g.points[e].ts \in P.ts..now
      BY <1>6, <2>2
    <3>2. QED
      BY <1>2, <3>1
  <2>3. QED
    BY <1>8, <2>1, <2>2
<1>10. ASSUME NEW e \in 1..g.epoch, NEW k \in 1..g.epoch, e <= k
       PROVE  g.points[e].ts <= g.points[k].ts
  <2>1. CASE k \in 1..v.epoch
    <3>1. e \in 1..v.epoch
      BY <1>2, <1>10, <2>1
    <3>2. v.points[e].ts <= v.points[k].ts
      BY <1>10, <2>1, <3>1 DEF Described, PointsInOrder
    <3>3. QED
      BY <1>7, <2>1, <3>1, <3>2
  <2>2. CASE k \in (v.epoch + 1)..g.epoch
    <3>1. g.points[k].ts \in P.ts..now
      BY <1>6, <2>2
    <3>2. CASE e \in 1..v.epoch
      <4> DEFINE x == g.points[e].ts
                 y == g.points[k].ts
                 z == P.ts
      <4>1. x \in Nat /\ x <= z /\ z \in Nat /\ y \in z..now
        BY <1>2, <1>7, <3>1, <3>2
      <4> HIDE DEF x, y, z
      <4>2. x <= y
        BY <1>2, <4>1
      <4>3. QED
        BY <4>2 DEF x, y
    <3>3. CASE e \in (v.epoch + 1)..g.epoch
      <4>1. /\ e - v.epoch \in 0..n /\ k - v.epoch \in 0..n
            /\ e - v.epoch <= k - v.epoch
            /\ g.points[e] = w[e - v.epoch] /\ g.points[k] = w[k - v.epoch]
        <5>1. e - v.epoch \in 1..n /\ k - v.epoch \in 1..n
          BY <1>6, <2>2, <3>3
        <5>2. e - v.epoch <= k - v.epoch
          BY <1>2, <1>10, <2>2, <3>3
        <5>3. QED
          BY <1>1, <1>6, <2>2, <3>3, <5>1, <5>2
      <4>2. QED
        BY <1>4, <4>1 DEF Rides
    <3>4. QED
      BY <1>8, <3>2, <3>3
  <2>3. QED
    BY <1>8, <2>1, <2>2
<1>11. PointsInOrder(g)
  BY <1>9, <1>10 DEF PointsInOrder
<1>12. g.points[g.epoch] = w[n] /\ n \in 1..n
  <2>1. n \in 1..n
    BY <1>1
  <2>2. QED
    BY <1>1, <2>1
<1>13. now <= P.ts + MAX_TIME => g.points[g.epoch].ts = now
  <2>1. w[n].ts \in P.ts..now
    <3>1. n \in 0..n
      BY <1>1
    <3>2. QED
      BY <1>4, <3>1 DEF Rides
  <2>2. w[n].ts \in Nat /\ w[n].ts <= now
    BY <1>2, <2>1
  <2> DEFINE x == w[n].ts
             z == P.ts
  <2>3. /\ x \in Nat /\ x <= now /\ now \in Nat /\ z \in Nat /\ MAX_TIME \in Nat
        /\ x = now \/ x > z + MAX_TIME
    BY <1>2, <1>5, <2>2, Assumed
  <2> HIDE DEF x, z
  <2>4. now <= z + MAX_TIME => x = now
    BY <2>3
  <2>5. QED
    BY <1>12, <2>4 DEF x, z
<1>14. QED
  BY <1>6, <1>11, <1>13 DEF g, P

LEMMA CurveLater ==
  ASSUME NEW b, NEW s, NEW f, NEW from \in Nat, NEW later \in Nat, from <= later
  PROVE  /\ Curve(b, s, f, from) => Curve(b, s, f, later)
         /\ Over(b, s, from) => Over(b, s, later)
<1>1. \A c \in later..Horizon : c \in from..Horizon
  BY Assumed
<1>2. \A c \in 0..Horizon : c >= later + MAX_TIME => c >= from + MAX_TIME
  BY Assumed
<1>3. QED
  BY <1>1, <1>2 DEF Curve, Over

\* Catching up changes nothing that can be read.
LEMMA UpdateDescribed ==
  ASSUME now \in 0..MaxTime, NEW v, IsVotes(v),
         NEW b \in [0..Horizon -> Nat], NEW s \in [0..Horizon -> Nat], Described(v, b, s)
  PROVE  Described(UpdateGlobalPoint(v), b, s)
<1> DEFINE g == UpdateGlobalPoint(v)
           P == StartPoint(v)
           Q == StartPoint(g)
<1>1. /\ IsVotes(g) /\ P \in Point
      /\ g.epoch > v.epoch /\ g.epoch \in Nat
      /\ g.slopes = v.slopes
      /\ \A e \in 0..v.epoch : g.points[e] = v.points[e]
  <2>1. /\ IsVotes(g) /\ P \in Point /\ g.slopes = v.slopes
        /\ \A e \in 0..v.epoch : g.points[e] = v.points[e]
    BY UpdateShape
  <2> DEFINE n == WeeksBetween(P.ts, now)
  <2>2. g.epoch = v.epoch + n /\ n \in Nat /\ n >= 1
    BY UpdateShape
  <2> HIDE DEF n, g
  <2>3. g.epoch > v.epoch /\ g.epoch \in Nat
    BY <2>2 DEF IsVotes
  <2>4. QED
    BY <2>1, <2>3
<1>2. /\ \A e \in (v.epoch + 1)..g.epoch :
            On(b, s, g.points[e]) /\ g.points[e].ts \in P.ts..now
      /\ PointsInOrder(g)
  BY UpdateRides
<1>3. /\ v.epoch \in Nat /\ now \in Nat /\ now <= Horizon /\ P.ts \in Nat
      /\ v.slopes \in [0..Horizon -> Int]
      /\ Curve(b, s, v.slopes, P.ts) /\ Over(b, s, P.ts)
  <2>1. v.epoch \in Nat /\ v.slopes \in [0..Horizon -> Int]
    BY DEF IsVotes
  <2>2. now \in Nat /\ now <= Horizon
    BY Assumed
  <2>3. Curve(b, s, v.slopes, P.ts) /\ Over(b, s, P.ts)
    BY DEF Described
  <2> HIDE DEF P
  <2>4. P.ts \in Nat
    BY <1>1 DEF Point
  <2>5. QED
    BY <2>1, <2>2, <2>3, <2>4 DEF P
<1> HIDE DEF g, P
<1>4. ASSUME NEW e \in (v.epoch + 1)..g.epoch
      PROVE  /\ g.points[e] \in Point /\ g.points[e].ts \in Nat /\ g.points[e].ts <= now
             /\ On(b, s, g.points[e])
             /\ Curve(b, s, v.slopes, g.points[e].ts) /\ Over(b, s, g.points[e].ts)
  <2> DEFINE x == g.points[e]
  <2>1. On(b, s, x) /\ x.ts \in P.ts..now
    BY <1>2
  <2>2. x \in Point
    <3>1. e \in 0..g.epoch
      BY <1>1, <1>3
    <3>2. QED
      BY <1>1, <3>1 DEF IsVotes
  <2>3. x.ts \in Nat /\ P.ts <= x.ts /\ x.ts <= now
    BY <1>3, <2>1
  <2>4. Curve(b, s, v.slopes, x.ts) /\ Over(b, s, x.ts)
    BY <1>3, <2>3, CurveLater
  <2>5. QED
    BY <2>1, <2>2, <2>3, <2>4
<1>5. Q.ts <= now /\ On(b, s, Q) /\ Curve(b, s, g.slopes, Q.ts) /\ Over(b, s, Q.ts)
  <2>1. Q = g.points[g.epoch] /\ g.epoch \in (v.epoch + 1)..g.epoch
    BY <1>1, <1>3 DEF StartPoint
  <2>2. QED
    BY <1>1, <1>4, <2>1
<1>6. ASSUME NEW T \in 0..Horizon PROVE SupplyIn(g, T) = b[T]
  <2> DEFINE e == EpochOf(g, T)
             d == EpochOf(v, T)
  <2>1. T \in Int /\ T \in Nat
    BY Assumed
  <2>2. Covering(e, g, T)
    BY <1>1, <1>2, <2>1, EpochOfIs
  <2>3. Covering(d, v, T)
    BY <2>1, EpochOfIs DEF Described
  <2>4. SupplyIn(g, T) = SupplyFrom(g.points[e], v.slopes, T)
    BY <1>1 DEF SupplyIn
  <2> HIDE DEF e, d
  <2>5. e \in 0..g.epoch /\ d \in 0..v.epoch
    BY <2>2, <2>3 DEF Covering
  <2>6. CASE e \in (v.epoch + 1)..g.epoch
    <3>1. g.points[e].ts <= T
      <4>1. e \in 1..g.epoch /\ e <= e
        BY <1>1, <1>3, <2>6
      <4>2. QED
        BY <2>2, <4>1 DEF Covering
    <3>2. QED
      BY <1>3, <1>4, <2>4, <2>6, <3>1, SupplyOnCurve
  <2>7. CASE e \in 0..v.epoch
    <3>1. \A k \in 1..v.epoch : k <= e <=> k <= d
      <4>1. ASSUME NEW k \in 1..v.epoch PROVE k <= e <=> k <= d
        <5>1. k \in 1..g.epoch /\ k \in 0..v.epoch
          BY <1>1, <1>3
        <5>2. g.points[k] = v.points[k]
          BY <1>1, <5>1
        <5>3. QED
          BY <2>2, <2>3, <5>1, <5>2 DEF Covering
      <4>2. QED
        BY <4>1
    <3>2. e = d
      BY <1>3, <2>5, <2>7, <3>1, CoveringUnique
    <3>3. SupplyIn(g, T) = SupplyIn(v, T)
      BY <1>1, <2>4, <2>7, <3>2 DEF SupplyIn, d
    <3>4. QED
      BY <3>3 DEF Described
  <2>8. e \in 0..v.epoch \/ e \in (v.epoch + 1)..g.epoch
    BY <1>1, <1>3, <2>5
  <2>9. QED
    BY <2>6, <2>7, <2>8
<1>7. Described(g, b, s)
  <2>1. g.epoch # 0
    BY <1>1, <1>3
  <2>2. QED
    BY <1>2, <1>5, <1>6, <2>1 DEF Described
<1>8. QED
  BY <1>7 DEF g

-----------------------------------------------------------------------------
(* What one lock adds to the curve *)

SlopeOf(lock) == lock.amount \div I_YEAR

\* Bias and slope of a lock at T, from a time on that is not after T.
Weight(lock, T) == IF lock.end > T THEN SlopeOf(lock) * (lock.end - T) ELSE 0
Steep(lock, T) == IF lock.end > T THEN SlopeOf(lock) ELSE 0

\* Locks end with a week, and not too far from now.
Scheduled(lock) ==
  /\ lock \in Lock
  /\ \E k \in Nat : lock.end = k * WEEK
  /\ lock.end <= now + MAX_TIME

LEMMA SlopeType == ASSUME NEW lock \in Lock PROVE SlopeOf(lock) \in Nat
<1>1. \A a, y \in Nat : y > 0 => a \div y \in Nat
  OBVIOUS
<1>2. lock.amount \in Nat
  BY DEF Lock
<1>3. QED
  BY <1>1, <1>2, Assumed DEF SlopeOf

LEMMA WeightType ==
  ASSUME NEW lock \in Lock, NEW T \in Nat
  PROVE  Weight(lock, T) \in Nat /\ Steep(lock, T) \in Nat
<1> DEFINE z == SlopeOf(lock)
<1>1. z \in Nat /\ lock.end \in Nat
  BY SlopeType DEF Lock
<1>2. Weight(lock, T) = (IF lock.end > T THEN z * (lock.end - T) ELSE 0)
      /\ Steep(lock, T) = (IF lock.end > T THEN z ELSE 0)
  BY DEF Weight, Steep
<1> HIDE DEF z
<1>3. lock.end > T => z * (lock.end - T) \in Nat
  <2>1. lock.end > T => lock.end - T \in Nat
    BY <1>1
  <2>2. QED
    BY <1>1, <2>1
<1>4. QED
  BY <1>1, <1>2, <1>3

\* A lock's point is where its line is now.
LEMMA PointIsWeight ==
  ASSUME now \in Nat, NEW lock \in Lock
  PROVE  PointOf(lock) = [bias |-> Weight(lock, now), slope |-> Steep(lock, now), ts |-> now]
<1> DEFINE z == SlopeOf(lock)
<1>1. z \in Nat /\ lock.end \in Nat
  BY SlopeType DEF Lock
<1>2. 0 * (lock.end - now) = 0
  BY <1>1
<1>3. QED
  BY <1>2 DEF PointOf, Weight, Steep, SlopeOf

\* Within a week the line of a lock is straight; at its end it stops.
LEMMA LockLine ==
  ASSUME NEW lock \in Lock, NEW m \in Nat, lock.end = m * WEEK,
         NEW k \in Nat, NEW a \in Nat, NEW c \in Nat,
         k * WEEK <= a, a < c, c <= (k + 1) * WEEK
  PROVE  /\ Weight(lock, c) = Weight(lock, a) - Steep(lock, a) * (c - a)
         /\ Steep(lock, c) = Steep(lock, a) - (IF c = lock.end THEN SlopeOf(lock) ELSE 0)
         /\ c = lock.end => c = (k + 1) * WEEK
<1> DEFINE z == SlopeOf(lock)
           end == lock.end
           week == (k + 1) * WEEK
<1>1. z \in Nat /\ end \in Nat
  BY SlopeType DEF Lock
<1>2. end > a => end >= week
  <2>1. CASE m <= k
    <3>1. m * WEEK <= k * WEEK
      BY <2>1, Assumed, TimesMonotone
    <3> DEFINE y == k * WEEK
    <3>2. y \in Nat /\ end <= y /\ y <= a
      BY <3>1, Assumed
    <3> HIDE DEF y, end
    <3>3. QED
      BY <1>1, <3>2
  <2>2. CASE k + 1 <= m
    BY <2>2, Assumed, TimesMonotone
  <2>3. QED
    BY <2>1, <2>2
<1>3. week \in Nat
  BY Assumed
<1>4. \A x, y, u \in Int : x * (y - u) = x * y - x * u /\ x * y \in Int
  OBVIOUS
<1>5. z * (end - a) - z * (c - a) = z * (end - c) /\ z * 0 = 0 /\ z * (c - a) \in Int
      /\ z * (end - a) \in Int
  <2> DEFINE p == z * end
             q == z * a
             r == z * c
  <2> HIDE DEF z
  <2>1. /\ z * (end - a) = p - q /\ z * (c - a) = r - q /\ z * (end - c) = p - r
        /\ p \in Int /\ q \in Int /\ r \in Int
    BY <1>1, <1>4
  <2>2. z * 0 = 0
    BY <1>1
  <2> HIDE DEF p, q, r
  <2>3. (p - q) - (r - q) = p - r /\ r - q \in Int /\ p - q \in Int
    BY <2>1
  <2>4. QED
    BY <2>1, <2>2, <2>3
<1>6. /\ \A T : Weight(lock, T) = IF end > T THEN z * (end - T) ELSE 0
      /\ \A T : Steep(lock, T) = IF end > T THEN z ELSE 0
  BY DEF Weight, Steep
<1>7. CASE end > a
  <2>1. end >= week
    BY <1>2, <1>7
  <2>2. CASE end > c
    <3>1. /\ Weight(lock, a) = z * (end - a) /\ Weight(lock, c) = z * (end - c)
          /\ Steep(lock, a) = z /\ Steep(lock, c) = z /\ c # end
      <4> HIDE DEF z, end
      <4>1. QED
        BY <1>1, <1>6, <1>7, <2>2
    <3> HIDE DEF z, end
    <3>2. QED
      BY <1>1, <1>5, <3>1 DEF z, end
  <2>3. CASE ~(end > c)
    <3>1. c = end /\ c = week
      <4> HIDE DEF week, end
      <4>1. QED
        BY <1>1, <1>3, <2>1, <2>3 DEF week
    <3>2. /\ Weight(lock, a) = z * (end - a) /\ Weight(lock, c) = 0
          /\ Steep(lock, a) = z /\ Steep(lock, c) = 0
      BY <1>6, <1>7, <2>3
    <3>3. z * (end - a) - z * (c - a) = 0
      <4>1. end - c = 0
        BY <1>1, <3>1
      <4> HIDE DEF z, end
      <4>2. QED
        BY <1>5, <4>1
    <3>4. z - z = 0
      BY <1>1
    <3>5. /\ Weight(lock, c) = Weight(lock, a) - Steep(lock, a) * (c - a)
          /\ Steep(lock, c) = Steep(lock, a) - z
      BY <3>2, <3>3, <3>4
    <3>6. QED
      BY <3>1, <3>5
  <2>4. QED
    BY <2>2, <2>3
<1>8. CASE ~(end > a)
  <2>1. ~(end > c) /\ c # end /\ c - a \in Int
    BY <1>1, <1>8
  <2>2. Weight(lock, a) = 0 /\ Weight(lock, c) = 0 /\ Steep(lock, a) = 0 /\ Steep(lock, c) = 0
    BY <1>6, <1>8, <2>1
  <2>3. QED
    BY <2>1, <2>2
<1>9. QED
  BY <1>7, <1>8

\* What a lock's end changes in the slopes at c.
EndsAt(lock, c) == IF c = lock.end THEN SlopeOf(lock) ELSE 0

\* The code's two changes of the schedule are the old end taken out and the new
\* one put in; only future times change.
LEMMA SlopesAfterIs ==
  ASSUME now \in Nat, NEW f \in [0..Horizon -> Int], NEW old \in Lock, NEW new \in Lock,
         new.end >= old.end \/ new.end <= now, NEW c \in 0..Horizon
  PROVE  LET h == SlopesAfter(f, old, new)
         IN  /\ c <= now => h[c] = f[c]
             /\ c > now => h[c] = f[c] + EndsAt(old, c) - EndsAt(new, c)
<1> DEFINE o == SlopeOf(old)
           p == SlopeOf(new)
           d == IF new.end = old.end THEN PointOf(new).slope ELSE 0
           y == f[old.end] + PointOf(old).slope - d
           dropped == IF old.end > now THEN [f EXCEPT ![old.end] = y] ELSE f
           z == dropped[new.end] - PointOf(new).slope
           h == IF new.end > now /\ new.end > old.end
                THEN [dropped EXCEPT ![new.end] = z] ELSE dropped
<1>1. SlopesAfter(f, old, new) = h
  BY DEF SlopesAfter
<1>2. /\ o \in Nat /\ p \in Nat /\ old.end \in Nat /\ new.end \in Nat
      /\ c \in Nat /\ f[c] \in Int
  BY SlopeType, Assumed DEF Lock
<1>3. /\ PointOf(old).slope = IF old.end > now THEN o ELSE 0
      /\ PointOf(new).slope = IF new.end > now THEN p ELSE 0
  BY PointIsWeight DEF Steep
<1> HIDE DEF o, p
<1>4. dropped[c] = IF c = old.end /\ old.end > now THEN f[c] + o - d ELSE f[c]
  <2>1. CASE c = old.end /\ old.end > now
    <3>1. dropped = [f EXCEPT ![old.end] = y] /\ y = f[c] + o - d
      BY <1>3, <2>1
    <3> HIDE DEF y, dropped
    <3>2. QED
      BY <2>1, <3>1
  <2>2. CASE ~(c = old.end /\ old.end > now)
    <3> HIDE DEF y
    <3>1. QED
      BY <2>2
  <2>3. QED
    BY <2>1, <2>2
<1>5. h[c] = IF c = new.end /\ new.end > now /\ new.end > old.end
             THEN dropped[c] - p ELSE dropped[c]
  <2>1. DOMAIN dropped = 0..Horizon
    <3> HIDE DEF y
    <3>1. QED
      OBVIOUS
  <2>2. CASE c = new.end /\ new.end > now /\ new.end > old.end
    <3>1. h = [dropped EXCEPT ![new.end] = z] /\ z = dropped[c] - p
      BY <1>3, <2>2
    <3> HIDE DEF z, dropped, h
    <3>2. QED
      BY <2>1, <2>2, <3>1
  <2>3. CASE ~(c = new.end /\ new.end > now /\ new.end > old.end)
    <3> HIDE DEF z, dropped
    <3>1. QED
      BY <2>3
  <2>4. QED
    BY <2>2, <2>3
<1>6. d = IF new.end = old.end /\ new.end > now THEN p ELSE 0
  BY <1>3
<1> DEFINE fc == f[c]
<1> HIDE DEF h, dropped, d, z, y
<1>7. c <= now => h[c] = f[c]
  BY <1>2, <1>4, <1>5
<1>8. ASSUME c > now PROVE h[c] = fc + EndsAt(old, c) - EndsAt(new, c)
  <2>1. /\ EndsAt(old, c) = IF c = old.end THEN o ELSE 0
        /\ EndsAt(new, c) = IF c = new.end THEN p ELSE 0
    BY DEF EndsAt, o, p
  <2>2. fc \in Int /\ fc = f[c]
    BY <1>2
  <2> HIDE DEF fc
  <2>3. CASE c = old.end
    <3>1. dropped[c] = fc + o - d
      BY <1>4, <1>8, <2>2, <2>3
    <3>2. CASE c = new.end
      BY <1>2, <1>5, <1>6, <1>8, <2>1, <2>2, <2>3, <3>1, <3>2
    <3>3. CASE c # new.end
      BY <1>2, <1>5, <1>6, <1>8, <2>1, <2>2, <2>3, <3>1, <3>3
    <3>4. QED
      BY <3>2, <3>3
  <2>4. CASE c # old.end
    <3>1. dropped[c] = fc
      BY <1>4, <2>2, <2>4
    <3>2. CASE c = new.end
      <4>1. new.end > old.end
        BY <1>2, <1>8, <2>4, <3>2
      <4>2. QED
        BY <1>2, <1>5, <1>8, <2>1, <2>2, <2>4, <3>1, <3>2, <4>1
    <3>3. CASE c # new.end
      BY <1>2, <1>5, <2>1, <2>2, <2>4, <3>1, <3>3
    <3>4. QED
      BY <3>2, <3>3
  <2>5. QED
    BY <2>3, <2>4
<1>9. QED
  BY <1>1, <1>7, <1>8 DEF fc

\* From now on the curve b2, s2 has the lock new in place of old.
Moved(b, s, b2, s2, old, new) ==
  \A T \in 0..Horizon :
    /\ T < now => b2[T] = b[T]
    /\ T >= now => /\ b2[T] = b[T] + Weight(new, T) - Weight(old, T)
                   /\ s2[T] = s[T] + Steep(new, T) - Steep(old, T)

LEMMA CurveMoved ==
  ASSUME now \in Nat, NEW b \in [0..Horizon -> Nat], NEW s \in [0..Horizon -> Nat],
         NEW f \in [0..Horizon -> Int], NEW old, NEW new, Scheduled(old), Scheduled(new),
         new.end >= old.end \/ new.end <= now,
         NEW b2, NEW s2, Moved(b, s, b2, s2, old, new), Curve(b, s, f, now)
  PROVE  Curve(b2, s2, SlopesAfter(f, old, new), now)
<1> DEFINE h == SlopesAfter(f, old, new)
<1>1. old \in Lock /\ new \in Lock
  BY DEF Scheduled
<1> SUFFICES ASSUME NEW k \in Nat, NEW a \in now..Horizon, NEW c \in now..Horizon,
                    k * WEEK <= a, a < c, c <= (k + 1) * WEEK
             PROVE  /\ b2[c] = b2[a] - s2[a] * (c - a)
                    /\ s2[c] = s2[a] + (IF c = (k + 1) * WEEK THEN h[c] ELSE 0)
  BY DEF Curve
<1> DEFINE last == c = (k + 1) * WEEK
<1>2. /\ a \in Nat /\ c \in Nat /\ a \in 0..Horizon /\ c \in 0..Horizon
      /\ a >= now /\ c > now
  BY Assumed
<1>3. /\ b[c] = b[a] - s[a] * (c - a)
      /\ s[c] = s[a] + (IF last THEN f[c] ELSE 0)
  BY DEF Curve
<1>4. ASSUME NEW lock, Scheduled(lock)
      PROVE  /\ Weight(lock, c) = Weight(lock, a) - Steep(lock, a) * (c - a)
             /\ Steep(lock, c) = Steep(lock, a) - EndsAt(lock, c)
             /\ EndsAt(lock, c) \in Nat
             /\ ~last => EndsAt(lock, c) = 0
             /\ Weight(lock, a) \in Nat /\ Steep(lock, a) \in Nat
  <2>1. PICK m \in Nat : lock.end = m * WEEK
    BY <1>4 DEF Scheduled
  <2>2. lock \in Lock
    BY <1>4 DEF Scheduled
  <2>3. /\ Weight(lock, c) = Weight(lock, a) - Steep(lock, a) * (c - a)
        /\ Steep(lock, c) = Steep(lock, a) - EndsAt(lock, c)
        /\ c = lock.end => last
    BY <1>2, <2>1, <2>2, LockLine DEF EndsAt
  <2>4. EndsAt(lock, c) \in Nat /\ (~last => EndsAt(lock, c) = 0)
    BY <2>2, <2>3, SlopeType DEF EndsAt
  <2>5. QED
    BY <1>2, <2>2, <2>3, <2>4, WeightType
<1> DEFINE Wo == Weight(old, a)
           Wn == Weight(new, a)
           So == Steep(old, a)
           Sn == Steep(new, a)
           Eo == EndsAt(old, c)
           En == EndsAt(new, c)
           ba == b[a]
           sa == s[a]
<1>5. /\ Weight(old, c) = Wo - So * (c - a) /\ Steep(old, c) = So - Eo /\ Eo \in Nat
      /\ Wo \in Nat /\ So \in Nat
      /\ Weight(new, c) = Wn - Sn * (c - a) /\ Steep(new, c) = Sn - En /\ En \in Nat
      /\ Wn \in Nat /\ Sn \in Nat
      /\ ~last => Eo = 0 /\ En = 0
  BY <1>4
<1>6. h[c] = f[c] + Eo - En /\ f[c] \in Int
  BY <1>1, <1>2, SlopesAfterIs
<1>7. ba \in Nat /\ sa \in Nat
  BY <1>2
<1>8. /\ b2[c] = b[c] + Weight(new, c) - Weight(old, c)
      /\ s2[c] = s[c] + Steep(new, c) - Steep(old, c)
      /\ b2[a] = ba + Wn - Wo
      /\ s2[a] = sa + Sn - So
  BY <1>2 DEF Moved
<1>9. /\ b2[c] = (ba - sa * (c - a)) + (Wn - Sn * (c - a)) - (Wo - So * (c - a))
      /\ s2[c] = (sa + (IF last THEN f[c] ELSE 0)) + (Sn - En) - (So - Eo)
  BY <1>3, <1>5, <1>8
<1> HIDE DEF h, last, Wo, Wn, So, Sn, Eo, En, ba, sa
<1>10. (ba - sa * (c - a)) + (Wn - Sn * (c - a)) - (Wo - So * (c - a))
         = (ba + Wn - Wo) - (sa + Sn - So) * (c - a)
  <2> DEFINE u == c - a
             x == sa * u
             y == Sn * u
             w == So * u
  <2>1. u \in Nat
    BY <1>2
  <2> HIDE DEF u
  <2>2. x \in Nat /\ y \in Nat /\ w \in Nat /\ (sa + Sn - So) * u = x + y - w
    BY <1>5, <1>7, <2>1
  <2> HIDE DEF x, y, w
  <2>3. (ba - x) + (Wn - y) - (Wo - w) = (ba + Wn - Wo) - (x + y - w)
    BY <1>5, <1>7, <2>2
  <2>4. QED
    BY <2>2, <2>3 DEF u, x, y, w
<1>11. b2[c] = b2[a] - s2[a] * (c - a)
  BY <1>8, <1>9, <1>10
<1>12. s2[c] = s2[a] + (IF last THEN h[c] ELSE 0)
  <2>1. s2[c] = (sa + (IF last THEN f[c] ELSE 0)) + (Sn - En) - (So - Eo)
    BY <1>9
  <2>2. /\ Eo \in Nat /\ En \in Nat /\ So \in Nat /\ Sn \in Nat /\ sa \in Nat
        /\ ~last => Eo = 0 /\ En = 0
    BY <1>5, <1>7
  <2>3. s2[a] = sa + Sn - So
    BY <1>8
  <2>4. CASE last
    BY <1>6, <2>1, <2>2, <2>3, <2>4
  <2>5. CASE ~last
    BY <2>1, <2>2, <2>3, <2>5
  <2>6. QED
    BY <2>4, <2>5
<1>13. QED
  BY <1>11, <1>12 DEF h, last

\* A checkpoint that has caught up moves the curve by the two locks.
LEMMA CheckpointDescribed ==
  ASSUME now \in 0..MaxTime, NEW v, IsVotes(v), NEW t \in Tokens,
         NEW b \in [0..Horizon -> Nat], NEW s \in [0..Horizon -> Nat], Described(v, b, s),
         NEW old, NEW new, Scheduled(old), Scheduled(new),
         new.end >= old.end \/ new.end <= now,
         NEW b2 \in [0..Horizon -> Nat], NEW s2 \in [0..Horizon -> Nat],
         Moved(b, s, b2, s2, old, new),
         UpdateGlobalPoint(v).points[UpdateGlobalPoint(v).epoch].ts = now
  PROVE  /\ Described(Checkpoint(v, t, old, new), b2, s2)
         /\ StartPoint(Checkpoint(v, t, old, new)).ts = now
<1> DEFINE g == UpdateGlobalPoint(v)
           G == g.points[g.epoch]
           c == Checkpoint(v, t, old, new)
           C == PointAfter(G, PointOf(old), PointOf(new))
<1>0. old \in Lock /\ new \in Lock /\ now \in Nat /\ now \in 0..Horizon
  BY Assumed DEF Scheduled
<1>1. Described(g, b, s)
  BY UpdateDescribed
<1>2. /\ IsVotes(g) /\ g.epoch \in Nat /\ g.epoch > 0
  <2> DEFINE n == WeeksBetween(StartPoint(v).ts, now)
  <2>1. IsVotes(g) /\ g.epoch = v.epoch + n /\ n \in Nat /\ n >= 1
    BY UpdateShape
  <2> HIDE DEF g, n
  <2>2. QED
    BY <2>1 DEF IsVotes
<1>3. /\ IsVotes(c) /\ c.epoch = g.epoch
      /\ c.points = [g.points EXCEPT ![g.epoch] = C]
      /\ c.slopes = SlopesAfter(g.slopes, old, new)
  <2>1. Reshaped(c, g, t, old, new)
    BY <1>0, CheckpointShape
  <2> HIDE DEF c, g
  <2>2. QED
    BY <2>1 DEF Reshaped
<1>4. G.ts = now
  OBVIOUS
<1> HIDE DEF g, c
<1>5. /\ g.slopes \in [0..Horizon -> Int] /\ g.points \in [0..g.epoch -> Point]
      /\ g.epoch \in 0..g.epoch /\ G \in Point
      /\ c.slopes \in [0..Horizon -> Int]
  BY <1>2, <1>3 DEF IsVotes
<1>6. StartPoint(g) = G
  BY <1>2 DEF StartPoint
<1> HIDE DEF G
<1>7. G.bias = b[now] /\ G.slope = s[now] /\ Curve(b, s, g.slopes, now) /\ Over(b, s, now)
  BY <1>1, <1>4, <1>6 DEF Described, On
<1>8. C = [bias |-> b2[now], slope |-> s2[now], ts |-> now]
  <2> DEFINE Wo == Weight(old, now)
             Wn == Weight(new, now)
             So == Steep(old, now)
             Sn == Steep(new, now)
             bn == b[now]
             sn == s[now]
  <2>1. /\ Wo \in Nat /\ Wn \in Nat /\ So \in Nat /\ Sn \in Nat /\ bn \in Nat /\ sn \in Nat
        /\ b2[now] \in Nat /\ s2[now] \in Nat
    BY <1>0, WeightType
  <2>2. b2[now] = bn + Wn - Wo /\ s2[now] = sn + Sn - So
    BY <1>0 DEF Moved
  <2>3. C = [bias |-> NonNeg(bn + Wn - Wo), slope |-> NonNeg(sn + Sn - So), ts |-> now]
    BY <1>0, <1>4, <1>7, PointIsWeight DEF PointAfter
  <2> HIDE DEF C, Wo, Wn, So, Sn, bn, sn
  <2>4. NonNeg(bn + Wn - Wo) = b2[now] /\ NonNeg(sn + Sn - So) = s2[now]
    BY <2>1, <2>2 DEF NonNeg
  <2>5. QED
    BY <2>3, <2>4
<1> HIDE DEF C
<1>9. /\ \A e \in 0..g.epoch : c.points[e] = IF e = g.epoch THEN C ELSE g.points[e]
      /\ \A e \in 0..g.epoch : c.points[e].ts = g.points[e].ts
      /\ c.points[g.epoch] = C
  <2>1. \A e \in 0..g.epoch : c.points[e] = IF e = g.epoch THEN C ELSE g.points[e]
    BY <1>3, <1>5
  <2>2. C.ts = g.points[g.epoch].ts
    BY <1>4, <1>8 DEF G
  <2>3. QED
    BY <1>5, <2>1, <2>2
<1>10. C \in Point /\ On(b2, s2, C) /\ C.ts = now
  <2>1. b2[now] \in Nat /\ s2[now] \in Nat
    BY <1>0
  <2>2. QED
    BY <1>0, <1>8, <2>1 DEF On, Point
<1>11. StartPoint(c) = C
  BY <1>2, <1>3, <1>9 DEF StartPoint
<1>12. PointsInOrder(c)
  <2>1. \A e \in 1..g.epoch : e \in 0..g.epoch
    OBVIOUS
  <2>2. QED
    BY <1>1, <1>3, <1>9, <2>1 DEF Described, PointsInOrder
<1>13. Curve(b2, s2, c.slopes, now)
  <2> DEFINE f == g.slopes
  <2>1. f \in [0..Horizon -> Int] /\ Curve(b, s, f, now) /\ now \in Nat
    BY <1>0, <1>5, <1>7
  <2> HIDE DEF f
  <2>2. Curve(b2, s2, SlopesAfter(f, old, new), now)
    BY <2>1, CurveMoved
  <2>3. QED
    BY <1>3, <2>2 DEF f
<1>14. Over(b2, s2, now)
  <2>1. SUFFICES ASSUME NEW T \in 0..Horizon, T >= now + MAX_TIME PROVE b2[T] = 0 /\ s2[T] = 0
    BY DEF Over
  <2>2. T \in Nat /\ T >= now
    <3>1. MAX_TIME \in Nat /\ T \in Nat /\ now \in Nat
      BY <1>0, Assumed
    <3>2. QED
      BY <2>1, <3>1
  <2>3. b[T] = 0 /\ s[T] = 0
    BY <1>7, <2>1 DEF Over
  <2>4. ASSUME NEW lock, Scheduled(lock) PROVE ~(lock.end > T)
    <3>1. lock.end \in Nat /\ lock.end <= now + MAX_TIME
      BY <2>4 DEF Scheduled, Lock
    <3> DEFINE end == lock.end
    <3> DEFINE limit == now + MAX_TIME
    <3>2. limit \in Nat
      <4>1. now \in Nat /\ MAX_TIME \in Nat
        BY <1>0, Assumed
      <4>2. QED
        BY <4>1
    <3>3. end \in Nat /\ end <= limit
      BY <3>1
    <3>4. T \in Nat /\ T >= limit
      BY <2>1, <2>2
    <3> HIDE DEF end, limit
    <3>5. ~(end > T)
      BY <3>2, <3>3, <3>4
    <3>6. QED
      BY <3>5 DEF end
  <2>5. Weight(old, T) = 0 /\ Weight(new, T) = 0 /\ Steep(old, T) = 0 /\ Steep(new, T) = 0
    BY <2>4 DEF Weight, Steep
  <2>6. /\ b2[T] = b[T] + Weight(new, T) - Weight(old, T)
        /\ s2[T] = s[T] + Steep(new, T) - Steep(old, T)
    BY <2>2 DEF Moved
  <2>7. QED
    BY <2>3, <2>5, <2>6
<1>15. ASSUME NEW T \in 0..Horizon PROVE SupplyIn(c, T) = b2[T]
  <2> DEFINE e == EpochOf(c, T)
             d == EpochOf(g, T)
  <2>1. T \in Int /\ T \in Nat
    BY Assumed
  <2>2. Covering(e, c, T)
    BY <1>3, <1>12, <2>1, EpochOfIs
  <2>3. Covering(d, g, T)
    BY <1>1, <1>2, <2>1, EpochOfIs DEF Described
  <2>4. SupplyIn(c, T) = SupplyFrom(c.points[e], c.slopes, T)
    BY DEF SupplyIn
  <2>5. SupplyIn(g, T) = SupplyFrom(g.points[d], g.slopes, T)
    BY DEF SupplyIn
  <2> HIDE DEF e, d
  <2>6. e \in 0..g.epoch /\ d \in 0..g.epoch
    BY <1>3, <2>2, <2>3 DEF Covering
  <2>7. g.epoch \in 1..g.epoch
    BY <1>2
  <2>8. CASE T >= now
    <3>1. c.points[g.epoch].ts <= T
      BY <1>0, <1>9, <1>10, <2>1, <2>8
    <3>2. g.epoch <= e
      BY <1>3, <2>2, <2>7, <3>1 DEF Covering
    <3>3. e = g.epoch
      BY <1>2, <2>6, <3>2
    <3>4. c.points[e] = C
      BY <1>9, <3>3
    <3>5. QED
      <4> DEFINE f == c.slopes
      <4>1. /\ f \in [0..Horizon -> Int] /\ C \in Point /\ On(b2, s2, C) /\ C.ts <= T
            /\ Curve(b2, s2, f, C.ts) /\ Over(b2, s2, C.ts)
        BY <1>0, <1>5, <1>10, <1>13, <1>14, <2>1, <2>8
      <4> HIDE DEF f
      <4>2. SupplyFrom(C, f, T) = b2[T]
        BY <4>1, SupplyOnCurve
      <4>3. QED
        BY <2>4, <3>4, <4>2 DEF f
  <2>9. CASE ~(T >= now)
    <3>1. T < now
      BY <1>0, <2>1, <2>9
    <3>2. \A k \in 1..g.epoch : k <= e <=> k <= d
      <4>1. \A k \in 1..g.epoch : c.points[k].ts = g.points[k].ts
        BY <1>2, <1>9
      <4>2. QED
        BY <1>3, <2>2, <2>3, <4>1 DEF Covering
    <3>3. e = d
      BY <1>2, <2>6, <3>2, CoveringUnique
    <3>4. e # g.epoch
      <4>1. ~(c.points[g.epoch].ts <= T)
        BY <1>0, <1>9, <1>10, <2>1, <3>1
      <4>2. ~(g.epoch <= e)
        BY <1>3, <2>2, <2>7, <4>1 DEF Covering
      <4>3. g.epoch <= g.epoch
        BY <1>2
      <4>4. QED
        BY <4>2, <4>3
    <3>5. c.points[e] = g.points[e] /\ g.points[e] \in Point
      BY <1>5, <1>9, <2>6, <3>4
    <3>6. \A k \in 0..T : c.slopes[k] = g.slopes[k]
      <4>1. SUFFICES ASSUME NEW k \in 0..T PROVE c.slopes[k] = g.slopes[k]
        OBVIOUS
      <4>2. k \in 0..Horizon /\ k <= now
        <5>1. Horizon \in Nat
          BY Assumed
        <5>2. k \in Int /\ T \in Int /\ 0 <= k /\ k <= T /\ T <= Horizon
          BY <2>1
        <5>3. T <= now /\ now \in Nat
          BY <1>0, <3>1
        <5>4. QED
          BY <5>1, <5>2, <5>3
      <4>3. new.end >= old.end \/ new.end <= now
        OBVIOUS
      <4> DEFINE f == g.slopes
      <4>6. f \in [0..Horizon -> Int]
        BY <1>5
      <4> HIDE DEF f
      <4>7. SlopesAfter(f, old, new)[k] = f[k]
        BY <1>0, <4>2, <4>3, <4>6, SlopesAfterIs
      <4>4. SlopesAfter(g.slopes, old, new)[k] = g.slopes[k]
        BY <4>7 DEF f
      <4>5. QED
        BY <1>3, <4>4
    <3>7. SupplyFrom(g.points[e], c.slopes, T) = SupplyFrom(g.points[e], g.slopes, T)
      BY <1>5, <3>5, <3>6, SameSlopes
    <3>8. SupplyIn(c, T) = SupplyIn(g, T)
      BY <2>4, <2>5, <3>3, <3>5, <3>7
    <3>9. SupplyIn(g, T) = b[T]
      BY <1>1 DEF Described
    <3>10. b2[T] = b[T]
      BY <3>1 DEF Moved
    <3>11. QED
      BY <3>8, <3>9, <3>10
  <2>10. QED
    BY <2>8, <2>9
<1>16. now <= now
  BY <1>0
<1>17. c.epoch # 0
  BY <1>2, <1>3
<1>18. QED
  BY <1>10, <1>11, <1>12, <1>13, <1>14, <1>15, <1>16, <1>17 DEF Described, c

-----------------------------------------------------------------------------
(* What the positions add up to *)

\* The slope of a position's line at T, from its last point on.
SteepAt(h, T) ==
  IF Len(h) = 0 THEN 0
  ELSE IF h[Len(h)].bias > h[Len(h)].slope * (T - h[Len(h)].ts) THEN h[Len(h)].slope ELSE 0

LEMMA PowerType ==
  ASSUME now \in Nat, NEW h \in Seq(Point), Ordered(h, now), NEW T \in Nat
  PROVE  PowerAt(h, T) \in Nat /\ SteepAt(h, T) \in Nat
<1> DEFINE e == EpochAt(h, T)
           x == h[e]
           n == Len(h)
<1>1. T \in Int /\ n \in Nat
  OBVIOUS
<1>2. e \in 0..n
  <2>1. InForce(e, h, T)
    BY <1>1, EpochFound
  <2>2. QED
    BY <2>1 DEF InForce
<1>3. PowerAt(h, T) = IF e = 0 THEN 0 ELSE NonNeg(x.bias - x.slope * (T - x.ts))
  BY DEF PowerAt
<1>4. SteepAt(h, T) = IF n = 0 THEN 0
                      ELSE IF h[n].bias > h[n].slope * (T - h[n].ts) THEN h[n].slope ELSE 0
  BY DEF SteepAt
<1> HIDE DEF e
<1>5. e # 0 => x \in Point
  BY <1>1, <1>2
<1>6. n # 0 => h[n] \in Point
  BY <1>1
<1> HIDE DEF x, n
<1>7. e # 0 => NonNeg(x.bias - x.slope * (T - x.ts)) \in Nat
  <2>1. SUFFICES ASSUME e # 0 PROVE NonNeg(x.bias - x.slope * (T - x.ts)) \in Nat
    OBVIOUS
  <2>2. x.bias \in Nat /\ x.slope \in Nat /\ x.ts \in Nat
    BY <1>5, <2>1 DEF Point
  <2>3. x.slope * (T - x.ts) \in Int
    BY <2>2
  <2>4. QED
    BY <2>2, <2>3 DEF NonNeg
<1>8. n # 0 => h[n].slope \in Nat
  BY <1>6 DEF Point
<1>9. QED
  BY <1>3, <1>4, <1>7, <1>8

\* From now on a position that has just got the point of a lock is that lock.
LEMMA PowerOfLock ==
  ASSUME now \in Nat, NEW h \in Seq(Point), Ordered(h, now), NEW lock \in Lock,
         NEW T \in Nat, now <= T
  PROVE  /\ PowerAt(Append(h, PointOf(lock)), T) = Weight(lock, T)
         /\ SteepAt(Append(h, PointOf(lock)), T) = Steep(lock, T)
<1> DEFINE q == PointOf(lock)
           a == Append(h, q)
           n == Len(h) + 1
           z == SlopeOf(lock)
           end == lock.end
<1> SUFFICES PowerAt(a, T) = Weight(lock, T) /\ SteepAt(a, T) = Steep(lock, T)
  OBVIOUS
<1>1. q \in Point /\ q.ts = now
  BY PointOfType
<1>2. z \in Nat /\ end \in Nat
  BY SlopeType DEF Lock
<1>3. q = [bias |-> Weight(lock, now), slope |-> Steep(lock, now), ts |-> now]
  BY PointIsWeight
<1> HIDE DEF q
<1>4. a \in Seq(Point) /\ Len(a) = n /\ n \in Nat /\ n # 0 /\ a[n] = q
  BY <1>1
<1>5. Ordered(a, now)
  BY <1>1, EpochBefore
<1> HIDE DEF a, n
<1>6. EpochAt(a, T) = n
  BY <1>4, <1>5, EpochLast
<1>7. /\ PowerAt(a, T) = NonNeg(q.bias - q.slope * (T - q.ts))
      /\ SteepAt(a, T) = IF q.bias > q.slope * (T - q.ts) THEN q.slope ELSE 0
  BY <1>4, <1>6 DEF PowerAt, SteepAt
<1>8. /\ q.bias = (IF end > now THEN z * (end - now) ELSE 0)
      /\ q.slope = (IF end > now THEN z ELSE 0)
      /\ q.ts = now
      /\ Weight(lock, T) = (IF end > T THEN z * (end - T) ELSE 0)
      /\ Steep(lock, T) = (IF end > T THEN z ELSE 0)
  BY <1>3 DEF Weight, Steep
<1>9. \A x, u, y \in Nat :
        /\ x * u - x * y = x * (u - y) /\ x * u \in Nat /\ x * y \in Nat
        /\ y < u => x * (u - y) \in Nat /\ (x > 0 => x * (u - y) > 0)
        /\ ~(y < u) => x * (u - y) <= 0 /\ x * (u - y) \in Int
        /\ 0 * y = 0
  <2>1. SUFFICES ASSUME NEW x \in Nat, NEW u \in Nat, NEW y \in Nat
                 PROVE /\ x * u - x * y = x * (u - y) /\ x * u \in Nat /\ x * y \in Nat
                       /\ y < u => x * (u - y) \in Nat /\ (x > 0 => x * (u - y) > 0)
                       /\ ~(y < u) => x * (u - y) <= 0 /\ x * (u - y) \in Int
                       /\ 0 * y = 0
    OBVIOUS
  <2>2. x * u - x * y = x * (u - y) /\ x * u \in Nat /\ x * y \in Nat /\ 0 * y = 0
    OBVIOUS
  <2>3. y < u => x * (u - y) \in Nat /\ (x > 0 => x * (u - y) > 0)
    <3>1. SUFFICES ASSUME y < u PROVE x * (u - y) \in Nat /\ (x > 0 => x * (u - y) > 0)
      OBVIOUS
    <3> DEFINE d == u - y
    <3>2. d \in Nat /\ d > 0
      BY <3>1
    <3> HIDE DEF d
    <3>3. x * d \in Nat /\ (x > 0 => x * d > 0)
      BY <3>2
    <3>4. QED
      BY <3>3 DEF d
  <2>4. ~(y < u) => x * (u - y) <= 0 /\ x * (u - y) \in Int
    <3>1. SUFFICES ASSUME ~(y < u) PROVE x * (u - y) <= 0 /\ x * (u - y) \in Int
      OBVIOUS
    <3> DEFINE d == u - y
    <3>2. d \in Int /\ d <= 0
      BY <3>1
    <3> HIDE DEF d
    <3>3. x * d \in Int /\ x * d <= 0
      BY <3>2
    <3>4. QED
      BY <3>3 DEF d
  <2>5. QED
    BY <2>2, <2>3, <2>4
<1> HIDE DEF z, end
<1> DEFINE u == end - now
           y == T - now
<1>10. y \in Nat /\ end - T = u - y
  BY <1>2
<1>11. CASE end > now
  <2>1. u \in Nat /\ (end > T <=> y < u)
    BY <1>2, <1>11
  <2>2. /\ q.bias = z * u /\ q.slope = z
        /\ Weight(lock, T) = (IF y < u THEN z * (u - y) ELSE 0)
        /\ Steep(lock, T) = (IF y < u THEN z ELSE 0)
    BY <1>8, <1>10, <1>11, <2>1
  <2>3. T - q.ts = y
    BY <1>8
  <2> HIDE DEF u, y
  <2> DEFINE zu == z * u
             zy == z * y
             r == z * (u - y)
  <2>4. /\ zu - zy = r /\ zu \in Nat /\ zy \in Nat
        /\ y < u => r \in Nat /\ (z > 0 => r > 0)
        /\ ~(y < u) => r <= 0 /\ r \in Int
    BY <1>2, <1>9, <1>10, <2>1
  <2>5. /\ PowerAt(a, T) = NonNeg(zu - zy)
        /\ SteepAt(a, T) = IF zu > zy THEN z ELSE 0
    BY <1>7, <2>2, <2>3
  <2>6. Weight(lock, T) = IF y < u THEN r ELSE 0
    BY <2>2
  <2> HIDE DEF zu, zy, r
  <2>7. CASE y < u
    <3>1. r \in Nat /\ (z > 0 => r > 0) /\ zu - zy = r
      BY <2>4, <2>7
    <3>2. NonNeg(zu - zy) = r
      BY <3>1 DEF NonNeg
    <3>3. (IF zu > zy THEN z ELSE 0) = z
      BY <1>2, <2>4, <3>1
    <3>4. QED
      BY <2>2, <2>5, <2>6, <2>7, <3>2, <3>3
  <2>8. CASE ~(y < u)
    <3>1. r <= 0 /\ r \in Int /\ zu - zy = r
      BY <2>4, <2>8
    <3>2. NonNeg(zu - zy) = 0
      BY <3>1 DEF NonNeg
    <3>3. ~(zu > zy)
      BY <2>4, <3>1
    <3>4. QED
      BY <2>2, <2>5, <2>6, <2>8, <3>2, <3>3
  <2>9. QED
    BY <2>7, <2>8
<1>12. CASE ~(end > now)
  <2>1. ~(end > T)
    BY <1>2, <1>12
  <2>2. q.bias = 0 /\ q.slope = 0 /\ Weight(lock, T) = 0 /\ Steep(lock, T) = 0 /\ q.ts = now
    BY <1>8, <1>12, <2>1
  <2>3. 0 * y = 0 /\ NonNeg(0 - 0) = 0
    BY <1>10 DEF NonNeg
  <2>4. QED
    BY <1>7, <2>2, <2>3
<1>13. QED
  BY <1>11, <1>12

Powers(tokens, T) == [t \in Tokens |-> PowerAt(tokens[t], T)]
Steeps(tokens, T) == [t \in Tokens |-> SteepAt(tokens[t], T)]
PowerSum(tokens, T) == SumFunctionOnSet(Powers(tokens, T), Tokens)
SteepSum(tokens, T) == SumFunctionOnSet(Steeps(tokens, T), Tokens)

\* Token histories as they are recorded.
IsRecord(tokens) == tokens \in [Tokens -> Seq(Point)] /\ PointsOrdered(tokens)

LEMMA SumsType ==
  ASSUME now \in Nat, NEW tokens, IsRecord(tokens), NEW T \in Nat
  PROVE  /\ Powers(tokens, T) \in [Tokens -> Nat] /\ Steeps(tokens, T) \in [Tokens -> Nat]
         /\ PowerSum(tokens, T) \in Nat /\ SteepSum(tokens, T) \in Nat
         /\ \A t \in Tokens : /\ PowerAt(tokens[t], T) \in Nat /\ SteepAt(tokens[t], T) \in Nat
                              /\ PowerAt(tokens[t], T) <= PowerSum(tokens, T)
                              /\ SteepAt(tokens[t], T) <= SteepSum(tokens, T)
<1> DEFINE f == Powers(tokens, T)
           g == Steeps(tokens, T)
<1>1. \A t \in Tokens : PowerAt(tokens[t], T) \in Nat /\ SteepAt(tokens[t], T) \in Nat
  <2>1. SUFFICES ASSUME NEW t \in Tokens
                 PROVE PowerAt(tokens[t], T) \in Nat /\ SteepAt(tokens[t], T) \in Nat
    OBVIOUS
  <2>2. tokens[t] \in Seq(Point) /\ Ordered(tokens[t], now)
    BY DEF IsRecord, PointsOrdered
  <2>3. QED
    BY <2>2, PowerType
<1>2. /\ \A t \in Tokens : f[t] = PowerAt(tokens[t], T)
      /\ \A t \in Tokens : g[t] = SteepAt(tokens[t], T)
      /\ f \in [Tokens -> Nat] /\ g \in [Tokens -> Nat]
  BY <1>1 DEF Powers, Steeps
<1> HIDE DEF f, g
<1>3. SumFunctionOnSet(f, Tokens) \in Nat /\ \A t \in Tokens : f[t] <= SumFunctionOnSet(f, Tokens)
  BY <1>2, TokensFinite, SumNat
<1>4. SumFunctionOnSet(g, Tokens) \in Nat /\ \A t \in Tokens : g[t] <= SumFunctionOnSet(g, Tokens)
  BY <1>2, TokensFinite, SumNat
<1>5. QED
  BY <1>1, <1>2, <1>3, <1>4 DEF f, g, PowerSum, SteepSum

\* A new point of one token changes the sums by what changes there: the past
\* stays, and from now on the new lock is in place of what there was.
LEMMA SumsMove ==
  ASSUME now \in Nat, NEW tokens, IsRecord(tokens), NEW t \in Tokens, NEW lock \in Lock,
         NEW new, new = [tokens EXCEPT ![t] = Append(tokens[t], PointOf(lock))],
         NEW T \in Nat
  PROVE  /\ IsRecord(new)
         /\ T < now => PowerSum(new, T) = PowerSum(tokens, T)
         /\ T >= now =>
              /\ PowerSum(new, T) = PowerSum(tokens, T) + (Weight(lock, T) - PowerAt(tokens[t], T))
              /\ SteepSum(new, T) = SteepSum(tokens, T) + (Steep(lock, T) - SteepAt(tokens[t], T))
              /\ PowerAt(new[t], T) = Weight(lock, T) /\ SteepAt(new[t], T) = Steep(lock, T)
         /\ \A k \in Tokens : k # t => new[k] = tokens[k]
<1> DEFINE q == PointOf(lock)
<1>1. q \in Point /\ q.ts = now
  BY PointOfType
<1>2. tokens \in [Tokens -> Seq(Point)] /\ PointsOrdered(tokens) /\ Ordered(tokens[t], now)
  BY DEF IsRecord, PointsOrdered
<1>3. new[t] = Append(tokens[t], q) /\ \A k \in Tokens : k # t => new[k] = tokens[k]
  BY <1>2
<1> HIDE DEF q
<1>4. PointsOrdered(new) /\ SamePower(tokens, new)
  BY <1>1, <1>2, PointAppended DEF q
<1>5. IsRecord(new)
  <2>1. Append(tokens[t], q) \in Seq(Point)
    BY <1>1, <1>2
  <2>2. new \in [Tokens -> Seq(Point)]
    BY <1>2, <2>1 DEF q
  <2>3. QED
    BY <1>4, <2>2 DEF IsRecord
<1>6. ASSUME T < now PROVE PowerSum(new, T) = PowerSum(tokens, T)
  <2>1. T \in 0..(now - 1)
    BY <1>6
  <2>2. \A k \in Tokens : Powers(new, T)[k] = Powers(tokens, T)[k]
    BY <1>4, <2>1 DEF SamePower, Powers
  <2>3. QED
    BY <2>2, TokensFinite, SumSame DEF PowerSum
<1>7. ASSUME T >= now
      PROVE  PowerAt(new[t], T) = Weight(lock, T) /\ SteepAt(new[t], T) = Steep(lock, T)
  <2>1. tokens[t] \in Seq(Point) /\ now <= T
    BY <1>2, <1>7
  <2>2. QED
    BY <1>2, <1>3, <2>1, PowerOfLock DEF q
<1>8. ASSUME T >= now
      PROVE  /\ PowerSum(new, T) = PowerSum(tokens, T) + (Weight(lock, T) - PowerAt(tokens[t], T))
             /\ SteepSum(new, T) = SteepSum(tokens, T) + (Steep(lock, T) - SteepAt(tokens[t], T))
  <2> DEFINE f == Powers(tokens, T)
             g == Powers(new, T)
             d == Steeps(tokens, T)
             h == Steeps(new, T)
  <2>1. f \in [Tokens -> Nat] /\ d \in [Tokens -> Nat]
    BY SumsType
  <2>2. g \in [Tokens -> Nat] /\ h \in [Tokens -> Nat]
    BY <1>5, SumsType
  <2>3. /\ \A k \in Tokens \ {t} : g[k] = f[k] /\ h[k] = d[k]
        /\ g[t] = Weight(lock, T) /\ h[t] = Steep(lock, T)
        /\ f[t] = PowerAt(tokens[t], T) /\ d[t] = SteepAt(tokens[t], T)
    BY <1>3, <1>7, <1>8 DEF Powers, Steeps
  <2> HIDE DEF f, g, d, h
  <2>4. \A k \in Tokens : f[k] \in Int /\ g[k] \in Int
    BY <2>1, <2>2
  <2>5. SumFunctionOnSet(g, Tokens) = SumFunctionOnSet(f, Tokens) + (g[t] - f[t])
    BY <2>3, <2>4, TokensFinite, SumUpdate
  <2>6. \A k \in Tokens : d[k] \in Int /\ h[k] \in Int
    BY <2>1, <2>2
  <2>7. SumFunctionOnSet(h, Tokens) = SumFunctionOnSet(d, Tokens) + (h[t] - d[t])
    BY <2>3, <2>6, TokensFinite, SumUpdate
  <2>8. QED
    BY <2>3, <2>5, <2>7 DEF PowerSum, SteepSum, f, g, d, h
<1>9. QED
  BY <1>3, <1>5, <1>6, <1>7, <1>8

\* From now on a position's points say no less than its lock.
Backs(h, lock) ==
  \A T \in now..Horizon : Weight(lock, T) <= PowerAt(h, T) /\ Steep(lock, T) <= SteepAt(h, T)

\* The supply of v is the curve b, s; it covers the positions' points, which
\* cover the locks.
Books(v, locks, b, s) ==
  /\ Described(v, b, s)
  /\ \A T \in 0..Horizon : PowerSum(v.tokens, T) <= b[T]
  /\ \A T \in now..Horizon : SteepSum(v.tokens, T) <= s[T]
  /\ \A t \in Tokens : /\ Backs(v.tokens[t], locks[t]) /\ Scheduled(locks[t])
                       /\ locks[t].end <= StartPoint(v).ts + MAX_TIME

\* Supply, points and locks are the same.
Exact(v, locks, b) ==
  /\ \A T \in 0..Horizon : PowerSum(v.tokens, T) = b[T]
  /\ \A t \in Tokens, T \in now..Horizon : PowerAt(v.tokens[t], T) = Weight(locks[t], T)

\* kept is a part of the lock new.
PartOf(kept, new) ==
  \A T \in now..Horizon : Weight(kept, T) <= Weight(new, T) /\ Steep(kept, T) <= Steep(new, T)

\* What a checkpoint of position t does to the books.
Rebooks(v, t, new, kept, locks, b, s, b2, s2) ==
  LET c == Checkpoint(v, t, locks[t], new)
      l == [locks EXCEPT ![t] = kept]
  IN  /\ IsVotes(c) /\ PointsOrdered(c.tokens) /\ Books(c, l, b2, s2) /\ StartPoint(c).ts = now
      /\ \A T \in 0..Horizon : T < now => b2[T] = b[T]
      /\ Exact(v, locks, b) /\ kept = new => Exact(c, l, b2)

LEMMA BooksMove ==
  ASSUME now \in 0..MaxTime, NEW v, IsVotes(v), PointsOrdered(v.tokens),
         NEW locks \in [Tokens -> Lock],
         NEW b \in [0..Horizon -> Nat], NEW s \in [0..Horizon -> Nat], Books(v, locks, b, s),
         NEW t \in Tokens, NEW new, Scheduled(new), NEW kept, Scheduled(kept), PartOf(kept, new),
         new.end >= locks[t].end \/ new.end <= now,
         UpdateGlobalPoint(v).points[UpdateGlobalPoint(v).epoch].ts = now
  PROVE  \E b2, s2 \in [0..Horizon -> Nat] : Rebooks(v, t, new, kept, locks, b, s, b2, s2)
<1> DEFINE old == locks[t]
           h == v.tokens[t]
           c == Checkpoint(v, t, old, new)
           l == [locks EXCEPT ![t] = kept]
           b2 == [T \in 0..Horizon |-> IF T < now THEN b[T]
                                       ELSE b[T] + Weight(new, T) - Weight(old, T)]
           s2 == [T \in 0..Horizon |-> IF T < now THEN s[T]
                                       ELSE s[T] + Steep(new, T) - Steep(old, T)]
<1> HIDE DEF c, l, b2, s2
<1>1. /\ now \in Nat /\ IsRecord(v.tokens) /\ Scheduled(old) /\ Backs(h, old) /\ Described(v, b, s)
      /\ old \in Lock /\ new \in Lock
  <2>1. now \in Nat
    BY Assumed
  <2>2. IsRecord(v.tokens)
    BY DEF IsVotes, IsRecord
  <2>3. Described(v, b, s) /\ \A k \in Tokens : Backs(v.tokens[k], locks[k]) /\ Scheduled(locks[k])
    BY DEF Books
  <2>4. Scheduled(old) /\ Backs(h, old)
    BY <2>3
  <2>5. old \in Lock /\ new \in Lock
    BY <2>4 DEF Scheduled
  <2>6. QED
    BY <2>1, <2>2, <2>3, <2>4, <2>5
<1> USE DEF c, l, b2, s2
<1>2. ASSUME NEW T \in now..Horizon
      PROVE  /\ b[T] + Weight(new, T) - Weight(old, T) \in Nat
             /\ s[T] + Steep(new, T) - Steep(old, T) \in Nat
  <2>1. T \in Nat /\ T \in 0..Horizon
    BY <1>1
  <2>2. /\ Weight(old, T) <= PowerAt(h, T) /\ Steep(old, T) <= SteepAt(h, T)
    BY <1>1 DEF Backs
  <2>3. /\ PowerAt(h, T) \in Nat /\ SteepAt(h, T) \in Nat
        /\ PowerSum(v.tokens, T) \in Nat /\ SteepSum(v.tokens, T) \in Nat
        /\ PowerAt(h, T) <= PowerSum(v.tokens, T)
        /\ SteepAt(h, T) <= SteepSum(v.tokens, T)
    BY <1>1, <2>1, SumsType
  <2>4. PowerSum(v.tokens, T) <= b[T] /\ SteepSum(v.tokens, T) <= s[T]
    BY <2>1 DEF Books
  <2>5. /\ Weight(old, T) \in Nat /\ Steep(old, T) \in Nat
        /\ Weight(new, T) \in Nat /\ Steep(new, T) \in Nat
        /\ b[T] \in Nat /\ s[T] \in Nat
    BY <1>1, <2>1, WeightType
  <2> DEFINE w == Weight(old, T)
             p == PowerAt(h, T)
             q == PowerSum(v.tokens, T)
             x == Steep(old, T)
             y == SteepAt(h, T)
             z == SteepSum(v.tokens, T)
  <2>8. /\ w \in Nat /\ p \in Nat /\ q \in Nat /\ x \in Nat /\ y \in Nat /\ z \in Nat
        /\ w <= p /\ p <= q /\ q <= b[T] /\ x <= y /\ y <= z /\ z <= s[T]
    BY <2>2, <2>3, <2>4, <2>5
  <2> HIDE DEF w, p, q, x, y, z
  <2>9. w <= b[T] /\ x <= s[T]
    BY <2>5, <2>8
  <2>6. Weight(old, T) <= b[T] /\ Steep(old, T) <= s[T]
    BY <2>9 DEF w, x
  <2>7. QED
    BY <2>5, <2>6
<1>3. b2 \in [0..Horizon -> Nat] /\ s2 \in [0..Horizon -> Nat]
  <2>1. \A T \in 0..Horizon : ~(T < now) => T \in now..Horizon
    BY <1>1
  <2>2. \A T \in 0..Horizon : (IF T < now THEN b[T] ELSE b[T] + Weight(new, T) - Weight(old, T)) \in Nat
    BY <1>2, <2>1
  <2>3. \A T \in 0..Horizon : (IF T < now THEN s[T] ELSE s[T] + Steep(new, T) - Steep(old, T)) \in Nat
    BY <1>2, <2>1
  <2>4. QED
    BY <2>2, <2>3
<1>4. Moved(b, s, b2, s2, old, new)
  BY <1>1 DEF Moved
<1>5. \A T \in 0..Horizon : T < now => b2[T] = b[T]
  OBVIOUS
<1>6. Reshaped(c, UpdateGlobalPoint(v), t, old, new) /\ UpdateGlobalPoint(v).tokens = v.tokens
  BY <1>1, CheckpointShape, UpdateShape
<1> SUFFICES Rebooks(v, t, new, kept, locks, b, s, b2, s2)
  BY <1>3
<1> HIDE DEF b2, s2
<1>7. Described(c, b2, s2) /\ StartPoint(c).ts = now
  BY <1>1, <1>3, <1>4, CheckpointDescribed, SMTT(40)
<1> HIDE DEF c
<1>8. /\ IsVotes(c)
      /\ c.tokens = [v.tokens EXCEPT ![t] = Append(v.tokens[t], PointOf(new))]
  BY <1>6 DEF Reshaped
<1>9. /\ IsRecord(c.tokens)
      /\ \A k \in Tokens : k # t => c.tokens[k] = v.tokens[k]
  BY <1>1, <1>8, SumsMove
<1>10. ASSUME NEW T \in 0..Horizon
       PROVE  /\ PowerSum(c.tokens, T) <= b2[T]
              /\ T >= now => SteepSum(c.tokens, T) <= s2[T]
              /\ Exact(v, locks, b) => PowerSum(c.tokens, T) = b2[T]
  <2>1. T \in Nat
    BY Assumed
  <2>2. PowerSum(v.tokens, T) <= b[T] /\ PowerSum(v.tokens, T) \in Nat /\ b[T] \in Nat
    BY <1>1, <2>1, SumsType DEF Books
  <2>3. CASE T < now
    <3>1. PowerSum(c.tokens, T) = PowerSum(v.tokens, T) /\ b2[T] = b[T] /\ ~(T >= now)
      BY <1>1, <1>5, <1>8, <2>1, <2>3, SumsMove
    <3>2. QED
      BY <2>2, <3>1 DEF Exact
  <2>4. CASE T >= now
    <3> DEFINE Wo == Weight(old, T)
               Wn == Weight(new, T)
               So == Steep(old, T)
               Sn == Steep(new, T)
               Pw == PowerAt(h, T)
               Sp == SteepAt(h, T)
               A == PowerSum(v.tokens, T)
               B == SteepSum(v.tokens, T)
    <3>1. T \in now..Horizon
      BY <1>1, <2>4
    <3>2. /\ PowerSum(c.tokens, T) = A + (Wn - Pw) /\ SteepSum(c.tokens, T) = B + (Sn - Sp)
      BY <1>1, <1>8, <2>1, <2>4, SumsMove
    <3>3. b2[T] = b[T] + Wn - Wo /\ s2[T] = s[T] + Sn - So
      BY <1>4, <2>4 DEF Moved
    <3>4. Wo <= Pw /\ So <= Sp
      BY <1>1, <3>1 DEF Backs
    <3>5. B <= s[T]
      BY <3>1 DEF Books
    <3>6. /\ Wo \in Nat /\ Wn \in Nat /\ So \in Nat /\ Sn \in Nat /\ Pw \in Nat /\ Sp \in Nat
          /\ A \in Nat /\ B \in Nat /\ s[T] \in Nat
      BY <1>1, <2>1, WeightType, SumsType
    <3>7. Exact(v, locks, b) => A = b[T] /\ Pw = Wo
      BY <3>1 DEF Exact
    <3>11. A <= b[T] /\ b[T] \in Nat
      BY <2>2
    <3> HIDE DEF Wo, Wn, So, Sn, Pw, Sp, A, B
    <3>8. PowerSum(c.tokens, T) <= b2[T] /\ SteepSum(c.tokens, T) <= s2[T]
      <4>1. \A a, x, wn, wo, pw \in Nat : a <= x /\ wo <= pw => a + (wn - pw) <= x + wn - wo
        OBVIOUS
      <4>2. A + (Wn - Pw) <= b[T] + Wn - Wo
        BY <3>4, <3>6, <3>11, <4>1
      <4>3. B + (Sn - Sp) <= s[T] + Sn - So
        BY <3>4, <3>5, <3>6, <4>1
      <4>4. QED
        BY <3>2, <3>3, <4>2, <4>3
    <3>9. Exact(v, locks, b) => PowerSum(c.tokens, T) = b2[T]
      BY <3>2, <3>3, <3>6, <3>7
    <3>10. QED
      BY <3>8, <3>9
  <2>5. QED
    BY <1>1, <2>1, <2>3, <2>4
<1>11. ASSUME NEW k \in Tokens
       PROVE  /\ Backs(c.tokens[k], l[k]) /\ Scheduled(l[k])
              /\ l[k].end <= StartPoint(c).ts + MAX_TIME
              /\ Exact(v, locks, b) /\ kept = new
                   => \A T \in now..Horizon : PowerAt(c.tokens[k], T) = Weight(l[k], T)
  <2>1. Scheduled(l[k]) /\ (k = t => l[k] = kept) /\ (k # t => l[k] = locks[k])
    BY DEF Books
  <2>2. l[k].end <= StartPoint(c).ts + MAX_TIME
    BY <1>7, <2>1 DEF Scheduled
  <2>3. CASE k = t
    <3>1. \A T \in now..Horizon : /\ PowerAt(c.tokens[t], T) = Weight(new, T)
                                 /\ SteepAt(c.tokens[t], T) = Steep(new, T)
      <4>1. SUFFICES ASSUME NEW T \in now..Horizon
                     PROVE  /\ PowerAt(c.tokens[t], T) = Weight(new, T)
                            /\ SteepAt(c.tokens[t], T) = Steep(new, T)
        OBVIOUS
      <4>2. T \in Nat /\ T >= now
        BY <1>1
      <4>3. c.tokens[t] = Append(h, PointOf(new))
        BY <1>1, <1>8 DEF IsRecord
      <4>4. h \in Seq(Point) /\ Ordered(h, now) /\ new \in Lock
        BY <1>1 DEF IsRecord, PointsOrdered
      <4> HIDE DEF h
      <4>5. QED
        BY <4>2, <4>3, <4>4, PowerOfLock
    <3>2. Backs(c.tokens[k], l[k])
      BY <2>1, <2>3, <3>1 DEF Backs, PartOf
    <3>3. QED
      BY <2>1, <2>2, <2>3, <3>1, <3>2
  <2>4. CASE k # t
    <3>1. c.tokens[k] = v.tokens[k]
      BY <1>9, <2>4
    <3>2. QED
      BY <2>1, <2>2, <2>4, <3>1 DEF Books, Exact
  <2>5. QED
    BY <2>3, <2>4
<1>12. \A T \in now..Horizon : T \in 0..Horizon /\ T >= now
  BY <1>1
<1>13. Books(c, l, b2, s2)
  BY <1>7, <1>10, <1>11, <1>12 DEF Books
<1>14. Exact(v, locks, b) /\ kept = new => Exact(c, l, b2)
  BY <1>10, <1>11 DEF Exact
<1>15. PointsOrdered(c.tokens)
  BY <1>9 DEF IsRecord
<1>16. QED
  BY <1>5, <1>7, <1>8, <1>13, <1>14, <1>15 DEF Rebooks, c

-----------------------------------------------------------------------------
(* The books over a transaction *)

\* Tokens not minted yet have no lock.
FreshLocks == \A t \in Tokens : t > tokenIds => lockedBalances[t] = NoLock

\* After a step the supply is a curve that covers everything again, the past of
\* the curve b is what it was, and the books are exact if they are to be.
StillBooks(v, locks, b, exact) ==
  \E b2, s2 \in [0..Horizon -> Nat] :
    /\ Books(v, locks, b2, s2)
    /\ \A T \in 0..Horizon : T < now => b2[T] = b[T]
    /\ exact => Exact(v, locks, b2)

LEMMA RecordVotes ==
  ASSUME NEW v, IsVotes(v), Record(v)
  PROVE  Votes' = v
BY DEF IsVotes, Record, Votes

\* A position recorded without lagging was recorded on a point of now.
LEMMA CaughtUp ==
  ASSUME TypeOK, NEW v, IsVotes(v), NEW t \in Tokens, NEW old \in Lock, NEW new \in Lock,
         v.tokens[t] = tokenPointHistory[t] \/ Len(v.tokens[t]) > Len(tokenPointHistory[t]),
         Record(Checkpoint(v, t, old, new)), ~lagged'
  PROVE  UpdateGlobalPoint(v).points[UpdateGlobalPoint(v).epoch].ts = now
<1> DEFINE c == Checkpoint(v, t, old, new)
           g == UpdateGlobalPoint(v)
           h == v.tokens[t]
           q == PointOf(new)
<1>1. now \in 0..MaxTime /\ now \in Nat
  BY Assumed DEF TypeOK
<1>2. Reshaped(c, g, t, old, new) /\ g.tokens = v.tokens /\ IsVotes(g)
  BY <1>1, CheckpointShape, UpdateShape
<1>3. h \in Seq(Point) /\ q \in Point
  BY <1>1, PointOfType DEF IsVotes
<1>4. c.tokens = tokenPointHistory \/ c.points[c.epoch].ts = now
  BY DEF Record
<1> HIDE DEF c, g
<1>5. c.tokens[t] = Append(h, q)
  <2>1. v.tokens \in [Tokens -> Seq(Point)] /\ c.tokens = [v.tokens EXCEPT ![t] = Append(h, q)]
    BY <1>2 DEF Reshaped, IsVotes
  <2>2. QED
    BY <2>1
<1>6. c.tokens # tokenPointHistory
  <2>1. tokenPointHistory[t] \in Seq(Point)
    BY DEF TypeOK
  <2> DEFINE k == tokenPointHistory[t]
  <2> HIDE DEF h, q, k
  <2>2. h = k \/ Len(h) > Len(k)
    BY DEF h, k
  <2>3. Append(h, q) # k
    BY <1>3, <2>1, <2>2 DEF k
  <2>4. QED
    BY <1>5, <2>3 DEF k
<1>7. /\ c.epoch = g.epoch
      /\ c.points = [g.points EXCEPT ![g.epoch] =
                       PointAfter(g.points[g.epoch], PointOf(old), PointOf(new))]
  BY <1>2 DEF Reshaped
<1>8. g.points \in [0..g.epoch -> Point] /\ g.epoch \in Nat
  BY <1>2 DEF IsVotes
<1>9. c.points[c.epoch] = PointAfter(g.points[g.epoch], PointOf(old), PointOf(new))
  BY <1>7, <1>8
<1>10. g.points[g.epoch].ts = now
  BY <1>4, <1>6, <1>9 DEF PointAfter
<1>11. QED
  BY <1>10 DEF g

\* One checkpoint of one position, with the lock that is kept in its place.
LEMMA CheckpointBooks ==
  ASSUME TypeOK, PointsOrdered(tokenPointHistory),
         NEW b \in [0..Horizon -> Nat], NEW s \in [0..Horizon -> Nat],
         Books(Votes, lockedBalances, b, s),
         NEW t \in Tokens, NEW new, Scheduled(new),
         new.end >= lockedBalances[t].end \/ new.end <= now,
         Record(Checkpoint(Votes, t, lockedBalances[t], new)),
         lockedBalances' = [lockedBalances EXCEPT ![t] = new], ~lagged'
  PROVE  StillBooks(Votes', lockedBalances', b, Exact(Votes, lockedBalances, b))
<1> DEFINE old == lockedBalances[t]
           c == Checkpoint(Votes, t, old, new)
<1>1. /\ now \in 0..MaxTime /\ IsVotes(Votes) /\ Votes.tokens = tokenPointHistory
      /\ lockedBalances \in [Tokens -> Lock]
  BY VotesType DEF TypeOK, Votes
<1>2. old \in Lock /\ new \in Lock
  BY <1>1 DEF Scheduled
<1>3. UpdateGlobalPoint(Votes).points[UpdateGlobalPoint(Votes).epoch].ts = now
  BY <1>1, <1>2, CaughtUp
<1>4. PartOf(new, new)
  <2>1. \A T \in now..Horizon : T \in Nat
    BY <1>1, Assumed
  <2>2. \A T \in now..Horizon : Weight(new, T) \in Nat /\ Steep(new, T) \in Nat
    BY <1>2, <2>1, WeightType
  <2>3. QED
    BY <2>2 DEF PartOf
<1>5. IsVotes(c)
  BY <1>1, <1>2, CheckpointType
<1>6. Votes' = c
  BY <1>5, RecordVotes
<1>7. PICK b2, s2 \in [0..Horizon -> Nat] :
        Rebooks(Votes, t, new, new, lockedBalances, b, s, b2, s2)
  BY <1>1, <1>3, <1>4, BooksMove
<1>8. /\ Books(c, lockedBalances', b2, s2)
      /\ \A T \in 0..Horizon : T < now => b2[T] = b[T]
      /\ Exact(Votes, lockedBalances, b) => Exact(c, lockedBalances', b2)
  BY <1>7 DEF Rebooks
<1> HIDE DEF c
<1>9. StillBooks(c, lockedBalances', b, Exact(Votes, lockedBalances, b))
  BY <1>8 DEF StillBooks
<1>10. QED
  BY <1>6, <1>9

\* A week's start, not too far away.
WeekWithin(end) == (\E k \in Nat : end = k * WEEK) /\ end <= now + MAX_TIME

LEMMA RoundedWithin ==
  ASSUME NEW ts \in Nat, ValidUnlock(Rounded(ts))
  PROVE  WeekWithin(Rounded(ts))
<1>1. \A a, w \in Nat : w > 0 => a \div w \in Nat
  OBVIOUS
<1>2. ts \div WEEK \in Nat
  BY <1>1, Assumed
<1>3. QED
  BY <1>2 DEF WeekWithin, Rounded, ValidUnlock

LEMMA DepositBooks ==
  ASSUME TypeOK, PointsOrdered(tokenPointHistory),
         NEW b \in [0..Horizon -> Nat], NEW s \in [0..Horizon -> Nat],
         Books(Votes, lockedBalances, b, s),
         NEW t \in Tokens, NEW value \in Nat, NEW end \in Nat,
         end = 0 \/ (end >= lockedBalances[t].end /\ WeekWithin(end)),
         DepositInto(t, value, end), ~lagged'
  PROVE  StillBooks(Votes', lockedBalances', b, Exact(Votes, lockedBalances, b))
<1> DEFINE old == lockedBalances[t]
           new == Deposited(old, value, end)
<1>1. old \in Lock /\ old.amount \in Nat /\ old.end \in Nat
  BY LockType
<1>2. Scheduled(old)
  BY DEF Books
<1>3. /\ lockedBalances' = [lockedBalances EXCEPT ![t] = new]
      /\ Record(Checkpoint(Votes, t, old, new))
  BY DEF DepositInto
<1>4. new.end >= old.end /\ Scheduled(new)
  <2> HIDE DEF old
  <2>1. end = 0 \/ (end >= old.end /\ WeekWithin(end))
    BY DEF old
  <2>2. /\ new \in Lock
        /\ new.end = IF end # 0 THEN end ELSE old.end
    <3>1. old.amount + value \in Nat
      BY <1>1
    <3>2. QED
      BY <1>1, <3>1 DEF Deposited, Lock
  <2> HIDE DEF new
  <2>3. QED
    BY <1>1, <1>2, <2>1, <2>2 DEF Scheduled, WeekWithin
<1> HIDE DEF old, new
<1>5. QED
  BY <1>3, <1>4, CheckpointBooks DEF old

LEMMA NoLockScheduled == TypeOK => Scheduled(NoLock)
<1> SUFFICES ASSUME TypeOK PROVE Scheduled(NoLock)
  OBVIOUS
<1>1. now \in Nat /\ MAX_TIME \in Nat /\ WEEK \in Nat
  BY Assumed DEF TypeOK
<1>2. NoLock.end = 0 /\ 0 = 0 * WEEK /\ 0 <= now + MAX_TIME
  BY <1>1 DEF NoLock
<1>3. QED
  BY <1>2, NoLockType DEF Scheduled

LEMMA WithdrawBooks ==
  ASSUME TypeOK, PointsOrdered(tokenPointHistory),
         NEW b \in [0..Horizon -> Nat], NEW s \in [0..Horizon -> Nat],
         Books(Votes, lockedBalances, b, s),
         NEW u, NEW t \in Tokens, Withdraw(u, t), ~lagged'
  PROVE  StillBooks(Votes', lockedBalances', b, Exact(Votes, lockedBalances, b))
<1>1. /\ lockedBalances' = [lockedBalances EXCEPT ![t] = NoLock]
      /\ Record(Checkpoint(Votes, t, lockedBalances[t], NoLock))
  BY DEF Withdraw
<1>2. Scheduled(NoLock) /\ NoLock.end <= now
  <2>1. NoLock.end = 0 /\ now \in Nat
    BY HistoryType DEF NoLock
  <2>2. QED
    BY <2>1, NoLockScheduled
<1>3. QED
  BY <1>1, <1>2, CheckpointBooks

LEMMA GlobalBooks ==
  ASSUME TypeOK,
         NEW b \in [0..Horizon -> Nat], NEW s \in [0..Horizon -> Nat],
         Books(Votes, lockedBalances, b, s), GlobalCheckpoint
  PROVE  StillBooks(Votes', lockedBalances', b, Exact(Votes, lockedBalances, b))
<1> DEFINE g == UpdateGlobalPoint(Votes)
<1>1. now \in 0..MaxTime /\ IsVotes(Votes) /\ now \in Nat /\ MAX_TIME \in Nat
  BY VotesType, HistoryType, Assumed
<1>2. IsVotes(g) /\ g.tokens = Votes.tokens /\ StartPoint(Votes) \in Point
  BY <1>1, UpdateShape
<1>3. Record(g) /\ lockedBalances' = lockedBalances
  BY DEF GlobalCheckpoint
<1>4. Votes' = g
  BY <1>2, <1>3, RecordVotes
<1>5. Described(Votes, b, s)
  BY DEF Books
<1>6. Described(g, b, s)
  BY <1>1, <1>5, UpdateDescribed
<1>7. StartPoint(g).ts \in Nat /\ StartPoint(g).ts >= StartPoint(Votes).ts
  <2> DEFINE P == StartPoint(Votes)
             n == WeeksBetween(P.ts, now)
  <2>1. g.epoch = Votes.epoch + n /\ n \in Nat /\ n >= 1
    BY <1>1, UpdateShape
  <2>2. \A e \in (Votes.epoch + 1)..g.epoch : g.points[e].ts \in P.ts..now
    BY <1>1, <1>5, UpdateRides
  <2>3. Votes.epoch \in Nat /\ P.ts \in Nat
    BY <1>1, <1>2 DEF IsVotes, Point
  <2> HIDE DEF P, n, g
  <2>4. g.epoch \in (Votes.epoch + 1)..g.epoch /\ g.epoch > 0
    BY <2>1, <2>3
  <2>5. g.points[g.epoch].ts \in P.ts..now /\ StartPoint(g) = g.points[g.epoch]
    BY <2>2, <2>4 DEF StartPoint
  <2>6. QED
    BY <2>3, <2>5 DEF P
<1> HIDE DEF g
<1>8. \A t \in Tokens : lockedBalances[t].end <= StartPoint(g).ts + MAX_TIME
  <2>1. \A t \in Tokens : lockedBalances[t].end <= StartPoint(Votes).ts + MAX_TIME
    BY DEF Books
  <2>2. \A t \in Tokens : lockedBalances[t].end \in Nat
    BY LockType
  <2>3. StartPoint(Votes).ts \in Nat
    BY <1>2 DEF Point
  <2>4. QED
    BY <1>1, <1>7, <2>1, <2>2, <2>3
<1>9. Books(g, lockedBalances, b, s)
  BY <1>2, <1>6, <1>8 DEF Books
<1>10. Exact(Votes, lockedBalances, b) => Exact(g, lockedBalances, b)
  BY <1>2 DEF Exact
<1>11. QED
  BY <1>3, <1>4, <1>9, <1>10 DEF StillBooks

LEMMA DivideMonotone ==
  ASSUME NEW a \in Nat, NEW c \in Nat, NEW y \in Nat, y > 0, a <= c
  PROVE  a \div y <= c \div y
<1> DEFINE m == a \div y
           n == c \div y
<1>1. \A x \in Nat : x \div y \in Nat /\ (x \div y) * y <= x /\ x < (x \div y + 1) * y
  OBVIOUS
<1>2. m \in Nat /\ n \in Nat /\ m * y <= a /\ c < (n + 1) * y
  BY <1>1
<1> HIDE DEF m, n
<1>3. ASSUME n + 1 <= m PROVE FALSE
  <2>1. (n + 1) * y <= m * y
    BY <1>2, <1>3, TimesMonotone
  <2> DEFINE A == (n + 1) * y
             B == m * y
  <2>2. A \in Nat /\ B \in Nat /\ A <= B /\ B <= a /\ c < A
    BY <1>2, <2>1
  <2> HIDE DEF A, B
  <2>3. QED
    BY <2>2
<1>4. QED
  BY <1>2, <1>3 DEF m, n

\* The primary lock, which stays, is a part of the merged lock.
LEMMA PartOfMerged ==
  ASSUME now \in Nat, NEW old \in Lock, NEW new \in Lock,
         old.amount <= new.amount, old.end <= new.end
  PROVE  PartOf(old, new)
<1> SUFFICES ASSUME NEW T \in now..Horizon
             PROVE  Weight(old, T) <= Weight(new, T) /\ Steep(old, T) <= Steep(new, T)
  BY DEF PartOf
<1> DEFINE y == SlopeOf(old)
           z == SlopeOf(new)
           d == old.end
           e == new.end
<1>1. T \in Nat /\ old.amount \in Nat /\ new.amount \in Nat /\ d \in Nat /\ e \in Nat
  BY DEF Lock
<1>2. y \in Nat /\ z \in Nat
  BY SlopeType
<1>3. y <= z
  BY <1>1, Assumed, DivideMonotone DEF SlopeOf
<1>4. /\ Weight(old, T) = IF d > T THEN y * (d - T) ELSE 0
      /\ Weight(new, T) = IF e > T THEN z * (e - T) ELSE 0
      /\ Steep(old, T) = IF d > T THEN y ELSE 0
      /\ Steep(new, T) = IF e > T THEN z ELSE 0
      /\ d <= e
  BY DEF Weight, Steep
<1> HIDE DEF y, z, d, e
<1>5. Weight(new, T) \in Nat
  BY WeightType, <1>1
<1>6. CASE d > T
  <2> DEFINE i == d - T
             j == e - T
  <2>1. i \in Nat /\ j \in Nat /\ i <= j /\ e > T
    BY <1>1, <1>4, <1>6
  <2>2. Weight(old, T) = y * i /\ Weight(new, T) = z * j
    BY <1>4, <1>6, <2>1
  <2> HIDE DEF i, j
  <2>3. y * i <= z * i /\ i * z <= j * z /\ z * i = i * z /\ z * j = j * z
    BY <1>2, <1>3, <2>1, TimesMonotone
  <2> DEFINE A == y * i
             B == z * i
             C == z * j
  <2>4. A \in Nat /\ B \in Nat /\ C \in Nat /\ A <= B /\ B <= C
    BY <1>2, <2>1, <2>3
  <2>5. Weight(old, T) = A /\ Weight(new, T) = C
    BY <2>2
  <2> HIDE DEF A, B, C
  <2>6. Weight(old, T) <= Weight(new, T)
    BY <2>4, <2>5
  <2>7. QED
    BY <1>3, <1>4, <1>6, <2>1, <2>6
<1>7. CASE ~(d > T)
  <2>1. Weight(old, T) = 0 /\ Steep(old, T) = 0 /\ Steep(new, T) \in Nat
    BY <1>2, <1>4, <1>7
  <2>2. QED
    BY <1>5, <2>1
<1>8. QED
  BY <1>6, <1>7

\* Merging: the primary's history gets the merged lock while its own stays in
\* place, then the secondary goes.
LEMMA MergeBooks ==
  ASSUME TypeOK, PointsOrdered(tokenPointHistory),
         NEW b \in [0..Horizon -> Nat], NEW s \in [0..Horizon -> Nat],
         Books(Votes, lockedBalances, b, s),
         NEW u, NEW t \in Tokens, NEW k \in Tokens, MergePositions(u, t, k)
  PROVE  StillBooks(Votes', lockedBalances', b, FALSE)
<1> DEFINE p == lockedBalances[t]
           q == lockedBalances[k]
           merged == [amount |-> p.amount + q.amount, end |-> Max({p.end, q.end})]
           c == Checkpoint(Votes, t, p, merged)
           d == Checkpoint(c, k, q, NoLock)
<1>1. /\ now \in 0..MaxTime /\ now \in Nat /\ MAX_TIME \in Nat
      /\ IsVotes(Votes) /\ Votes.tokens = tokenPointHistory
      /\ lockedBalances \in [Tokens -> Lock]
  <2>1. lockedBalances \in [Tokens -> Lock]
    BY DEF TypeOK
  <2>2. QED
    BY <2>1, VotesType, HistoryType, Assumed DEF Votes
<1>2. /\ p \in Lock /\ p.amount \in Nat /\ p.end \in Nat
      /\ q \in Lock /\ q.amount \in Nat /\ q.end \in Nat
  BY LockType
<1>3. /\ Scheduled(p) /\ Scheduled(q) /\ p.end <= StartPoint(Votes).ts + MAX_TIME
      /\ Described(Votes, b, s)
  BY DEF Books
<1>4. /\ now < p.end /\ Record(d)
      /\ lockedBalances' = [lockedBalances EXCEPT ![k] = NoLock]
  BY DEF MergePositions
<1>5. [lockedBalances EXCEPT ![t] = p] = lockedBalances
  BY <1>1
<1> HIDE DEF p, q
<1>6. /\ merged \in Lock /\ merged.end >= p.end /\ merged.amount >= p.amount
      /\ Scheduled(merged)
  <2>1. Max({p.end, q.end}) = IF p.end >= q.end THEN p.end ELSE q.end
    BY <1>2, MaxOfTwo
  <2>2. merged.end = (IF p.end >= q.end THEN p.end ELSE q.end) /\ merged.amount = p.amount + q.amount
    BY <2>1
  <2>3. merged.end \in Nat /\ merged.amount \in Nat /\ merged.end >= p.end /\ merged.amount >= p.amount
    BY <1>2, <2>2
  <2>4. merged \in Lock
    BY <2>3 DEF Lock
  <2>5. QED
    BY <1>2, <1>3, <2>2, <2>3, <2>4 DEF Scheduled
<1> HIDE DEF merged
<1>7. PartOf(p, merged)
  BY <1>1, <1>2, <1>6, PartOfMerged
<1>8. UpdateGlobalPoint(Votes).points[UpdateGlobalPoint(Votes).epoch].ts = now
  <2>1. StartPoint(Votes).ts \in Nat
    BY <1>1, UpdateShape DEF Point
  <2>2. now <= StartPoint(Votes).ts + MAX_TIME
    BY <1>1, <1>2, <1>3, <1>4, <2>1
  <2>3. QED
    BY <1>1, <1>3, <2>2, UpdateRides
<1>9. PICK b1, s1 \in [0..Horizon -> Nat] :
        Rebooks(Votes, t, merged, p, lockedBalances, b, s, b1, s1)
  BY <1>1, <1>3, <1>6, <1>7, <1>8, BooksMove DEF p
<1>10. /\ IsVotes(c) /\ PointsOrdered(c.tokens) /\ Books(c, lockedBalances, b1, s1)
       /\ StartPoint(c).ts = now
       /\ \A T \in 0..Horizon : T < now => b1[T] = b[T]
  BY <1>5, <1>9 DEF Rebooks, p
<1> HIDE DEF c
<1>11. UpdateGlobalPoint(c).points[UpdateGlobalPoint(c).epoch].ts = now
  <2>1. Described(c, b1, s1) /\ now <= StartPoint(c).ts + MAX_TIME
    BY <1>1, <1>10 DEF Books
  <2>2. QED
    BY <1>1, <1>10, <2>1, UpdateRides
<1>12. Scheduled(NoLock) /\ PartOf(NoLock, NoLock) /\ NoLock.end <= now
  <2>1. NoLock.end = 0 /\ NoLock.amount = 0
    BY DEF NoLock
  <2>2. QED
    BY <1>1, <2>1, NoLockType, NoLockScheduled, PartOfMerged
<1>13. PICK b2, s2 \in [0..Horizon -> Nat] :
         Rebooks(c, k, NoLock, NoLock, lockedBalances, b1, s1, b2, s2)
  BY <1>1, <1>10, <1>11, <1>12, BooksMove
<1>14. /\ IsVotes(d) /\ Books(d, lockedBalances', b2, s2)
       /\ \A T \in 0..Horizon : T < now => b2[T] = b1[T]
  BY <1>4, <1>13 DEF Rebooks, q
<1>15. Votes' = d
  BY <1>4, <1>14, RecordVotes
<1> HIDE DEF d
<1>16. StillBooks(d, lockedBalances', b, FALSE)
  BY <1>10, <1>14 DEF StillBooks
<1>17. QED
  BY <1>15, <1>16

-----------------------------------------------------------------------------
(* The books at the next step *)

\* While time stands still, the books of the next state can be kept now.
LEMMA BooksSameTime ==
  ASSUME now' = now, NEW b, NEW s
  PROVE  /\ Books(Votes', lockedBalances', b, s) => Books(Votes, lockedBalances, b, s)'
         /\ Exact(Votes', lockedBalances', b) => Exact(Votes, lockedBalances, b)'
<1>1. PointsInOrder(Votes') <=> PointsInOrder(Votes)'
  BY DEF PointsInOrder
<1>2. StartPoint(Votes') = StartPoint(Votes)'
  BY DEF StartPoint
<1>3. Described(Votes', b, s) => Described(Votes, b, s)'
  BY <1>1, <1>2 DEF Described
<1>4. Exact(Votes', lockedBalances', b) => Exact(Votes, lockedBalances, b)'
  BY DEF Exact
<1>5. \A t \in Tokens : /\ Scheduled(lockedBalances'[t]) => Scheduled(lockedBalances[t])'
                        /\ Backs(Votes'.tokens[t], lockedBalances'[t])
                             => Backs(Votes.tokens[t], lockedBalances[t])'
  BY DEF Scheduled, Backs
<1>6. Books(Votes', lockedBalances', b, s) => Books(Votes, lockedBalances, b, s)'
  BY <1>2, <1>3, <1>5 DEF Books
<1>7. QED
  BY <1>4, <1>6

\* A second later the books still hold.
LEMMA BooksTick ==
  ASSUME TypeOK, Tick,
         NEW b \in [0..Horizon -> Nat], NEW s \in [0..Horizon -> Nat],
         Books(Votes, lockedBalances, b, s)
  PROVE  /\ Books(Votes, lockedBalances, b, s)'
         /\ Exact(Votes, lockedBalances, b) => Exact(Votes, lockedBalances, b)'
<1> DEFINE P == StartPoint(Votes)
           f == Votes.slopes
<1>1. /\ now \in 0..MaxTime /\ now \in Nat /\ MAX_TIME \in Nat /\ MaxTime \in Nat
      /\ Horizon = MaxTime + MAX_TIME /\ IsVotes(Votes)
  BY VotesType, HistoryType, Assumed DEF Horizon
<1>2. now' = now + 1 /\ now < MaxTime /\ Votes' = Votes /\ lockedBalances' = lockedBalances
  BY DEF Tick, Votes, voteVars
<1>3. /\ Described(Votes, b, s)
      /\ \A t \in Tokens : /\ Backs(Votes.tokens[t], lockedBalances[t])
                           /\ Scheduled(lockedBalances[t])
                           /\ lockedBalances[t].end <= P.ts + MAX_TIME
  BY DEF Books
<1>4. PointsInOrder(Votes)'
  <2>1. PointsInOrder(Votes)
    BY <1>3 DEF Described
  <2>2. \A e \in 1..Votes.epoch : Votes.points[e].ts \in Nat
    BY <1>1 DEF IsVotes, Point
  <2>3. \A x \in Nat : x <= now => x <= now + 1
    BY <1>1
  <2>4. \A e \in 1..Votes.epoch : Votes.points[e].ts <= now + 1
    BY <2>1, <2>2, <2>3 DEF PointsInOrder
  <2>5. \A e, k \in 1..Votes.epoch : e <= k => Votes.points[e].ts <= Votes.points[k].ts
    BY <2>1 DEF PointsInOrder
  <2>6. QED
    BY <1>2, <2>4, <2>5 DEF PointsInOrder
<1>5. /\ P.ts \in Nat /\ P.ts <= now /\ On(b, s, P) /\ Curve(b, s, f, P.ts) /\ Over(b, s, P.ts)
      /\ \A T \in 0..Horizon : SupplyIn(Votes, T) = b[T]
      /\ Votes.epoch = 0 => \A T \in 0..Horizon : b[T] = 0 /\ s[T] = 0
  BY <1>1, <1>3, UpdateShape DEF Described, Point
<1> DEFINE Q == [bias |-> 0, slope |-> 0, ts |-> now + 1]
<1>6. \/ (StartPoint(Votes)' = P /\ Votes.epoch # 0)
      \/ (StartPoint(Votes)' = Q /\ Votes.epoch = 0)
  <2>1. Votes.epoch \in Nat
    BY <1>1 DEF IsVotes
  <2>2. QED
    BY <1>2, <2>1 DEF StartPoint
<1>7. ASSUME Votes.epoch = 0 PROVE On(b, s, Q) /\ Curve(b, s, f, Q.ts) /\ Over(b, s, Q.ts)
  <2>1. now + 1 \in 0..Horizon /\ now + 1 \in Nat /\ P.ts <= now + 1
    BY <1>1, <1>2, <1>5
  <2> HIDE DEF P, f
  <2>2. Curve(b, s, f, now + 1) /\ Over(b, s, now + 1)
    BY <1>5, <2>1, CurveLater
  <2>3. b[now + 1] = 0 /\ s[now + 1] = 0
    BY <1>5, <1>7, <2>1
  <2>4. QED
    BY <2>2, <2>3 DEF On
<1>8. /\ StartPoint(Votes)'.ts <= now' /\ On(b, s, StartPoint(Votes)')
      /\ Curve(b, s, f, StartPoint(Votes)'.ts) /\ Over(b, s, StartPoint(Votes)'.ts)
      /\ P.ts <= StartPoint(Votes)'.ts /\ StartPoint(Votes)'.ts \in Nat
  <2>1. Q.ts = now + 1 /\ P.ts <= now + 1 /\ now + 1 \in Nat /\ P.ts <= P.ts
    BY <1>1, <1>5
  <2> HIDE DEF P, Q, f
  <2>2. QED
    BY <1>2, <1>5, <1>6, <1>7, <2>1
<1>9. Described(Votes, b, s)'
  BY <1>2, <1>4, <1>5, <1>8 DEF Described
<1>10. \A T : T \in now'..Horizon => T \in now..Horizon
  BY <1>1, <1>2
<1>11. ASSUME NEW t \in Tokens
       PROVE  /\ Backs(Votes.tokens[t], lockedBalances[t])'
              /\ Scheduled(lockedBalances[t])'
              /\ lockedBalances[t].end <= StartPoint(Votes)'.ts + MAX_TIME
  <2>1. lockedBalances[t].end \in Nat
    BY LockType
  <2>2. Backs(Votes.tokens[t], lockedBalances[t])'
    BY <1>2, <1>3, <1>10 DEF Backs
  <2> DEFINE end == lockedBalances[t].end
             from == P.ts
             to == StartPoint(Votes)'.ts
  <2>3. end <= now' + MAX_TIME /\ end <= to + MAX_TIME
    <3>1. /\ end \in Nat /\ from \in Nat /\ to \in Nat /\ from <= to
          /\ end <= now + MAX_TIME /\ end <= from + MAX_TIME
      BY <1>3, <1>5, <1>8, <2>1 DEF Scheduled
    <3> HIDE DEF end, from, to
    <3>2. QED
      BY <1>1, <1>2, <3>1
  <2>4. Scheduled(lockedBalances[t])'
    BY <1>2, <1>3, <2>3 DEF Scheduled
  <2>5. QED
    BY <2>2, <2>3, <2>4
<1>12. Books(Votes, lockedBalances, b, s)'
  <2>1. \A T \in 0..Horizon : PowerSum(Votes.tokens, T) <= b[T]
    BY DEF Books
  <2>2. \A T \in now..Horizon : SteepSum(Votes.tokens, T) <= s[T]
    BY DEF Books
  <2>3. QED
    BY <1>2, <1>9, <1>10, <1>11, <2>1, <2>2 DEF Books
<1>13. Exact(Votes, lockedBalances, b) => Exact(Votes, lockedBalances, b)'
  BY <1>2, <1>10 DEF Exact
<1>14. QED
  BY <1>12, <1>13

\* Every transaction but a merge keeps books that are exact exact.
LEMMA LockBooks ==
  ASSUME TypeOK, PointsOrdered(tokenPointHistory), FreshLocks,
         NEW b \in [0..Horizon -> Nat], NEW s \in [0..Horizon -> Nat],
         Books(Votes, lockedBalances, b, s), LockNext \/ UNCHANGED vars, ~Tick, ~lagged'
  PROVE  StillBooks(Votes', lockedBalances', b, Exact(Votes, lockedBalances, b))
<1> DEFINE Goal == StillBooks(Votes', lockedBalances', b, Exact(Votes, lockedBalances, b))
<1> SUFFICES Goal
  OBVIOUS
<1> HIDE DEF Goal
<1>1. ASSUME Votes' = Votes, lockedBalances' = lockedBalances PROVE Goal
  BY <1>1 DEF StillBooks, Goal
<1>2. ASSUME NEW t \in Tokens, NEW value \in Nat, NEW end \in Nat, DepositInto(t, value, end),
             end = 0 \/ (end >= lockedBalances[t].end /\ WeekWithin(end))
      PROVE  Goal
  BY <1>2, DepositBooks DEF Goal
<1>3. ASSUME NEW u \in Users, NEW value \in Amounts, NEW ts \in UnlockTimes,
             CreateLock(u, value, ts)
      PROVE  Goal
  <2>1. /\ tokenIds + 1 \in Tokens /\ DepositInto(tokenIds + 1, value, Rounded(ts))
        /\ ValidUnlock(Rounded(ts))
    BY <1>3 DEF CreateLock
  <2>2. value \in Nat /\ ts \in Nat /\ Rounded(ts) \in Nat
    BY RoundedType, VeAssumption
  <2>3. lockedBalances[tokenIds + 1].end = 0
    <3>1. tokenIds + 1 > tokenIds
      BY Assumed DEF TypeOK
    <3>2. lockedBalances[tokenIds + 1] = NoLock
      BY <2>1, <3>1 DEF FreshLocks
    <3>3. QED
      BY <3>2 DEF NoLock
  <2>4. Rounded(ts) >= 0 /\ WeekWithin(Rounded(ts))
    BY <2>1, <2>2, RoundedWithin
  <2>5. QED
    BY <1>2, <2>1, <2>2, <2>3, <2>4
<1>4. ASSUME NEW a \in Users \cup {NoOne}, NEW t \in Tokens, NEW value \in Amounts,
             DepositFor(a, t, value) \/ IncreaseAmount(a, t, value)
      PROVE  Goal
  <2> DEFINE end == 0
  <2>1. DepositInto(t, value, end)
    BY <1>4 DEF DepositFor, IncreaseAmount
  <2>2. value \in Nat /\ end \in Nat /\ end = 0
    BY VeAssumption
  <2> HIDE DEF end
  <2>3. QED
    BY <1>2, <2>1, <2>2
<1>5. ASSUME NEW u \in Users, NEW t \in Tokens, NEW ts \in UnlockTimes,
             IncreaseUnlockTime(u, t, ts)
      PROVE  Goal
  <2>1. /\ DepositInto(t, 0, Rounded(ts)) /\ Rounded(ts) \in Nat /\ 0 \in Nat /\ ts \in Nat
        /\ ValidUnlock(Rounded(ts)) /\ Rounded(ts) > lockedBalances[t].end
    BY <1>5, RoundedType, VeAssumption DEF IncreaseUnlockTime
  <2>2. Rounded(ts) >= lockedBalances[t].end /\ WeekWithin(Rounded(ts))
    BY <2>1, RoundedWithin, LockType
  <2>3. QED
    BY <1>2, <2>1, <2>2
<1>6. ASSUME NEW u \in Users, NEW t \in Tokens, Withdraw(u, t)
      PROVE  Goal
  BY <1>6, WithdrawBooks DEF Goal
<1>7. ASSUME GlobalCheckpoint PROVE Goal
  BY <1>7, GlobalBooks DEF Goal
<1>8. ASSUME NEW u \in Users, NEW w \in Users, NEW t \in Tokens,
             Transfer(u, w, t) \/ Burn(u, t)
      PROVE  Goal
  <2>1. UNCHANGED voteVars /\ lockedBalances' = lockedBalances
    BY <1>8 DEF Transfer, Burn
  <2>2. QED
    BY <1>1, <2>1 DEF voteVars, Votes
<1>9. UNCHANGED vars => Goal
  BY <1>1 DEF vars, voteVars, Votes
<1>10. QED
  BY <1>3, <1>4, <1>5, <1>6, <1>7, <1>8, <1>9 DEF LockNext

LEMMA NextFresh ==
  ASSUME TypeOK, FreshLocks, [Next]_vars
  PROVE  FreshLocks'
<1>1. /\ tokenIds \in Nat /\ now \in Nat /\ \A t \in Tokens : t \in Nat
      /\ lockedBalances \in [Tokens -> Lock]
  BY HistoryType, Assumed DEF TypeOK, Tokens
<1>2. ASSUME lockedBalances' = lockedBalances, tokenIds' = tokenIds PROVE FreshLocks'
  BY <1>2 DEF FreshLocks
<1>3. ASSUME NEW t \in Tokens, lockedBalances' = [lockedBalances EXCEPT ![t] = NoLock],
             tokenIds' = tokenIds
      PROVE  FreshLocks'
  BY <1>1, <1>3 DEF FreshLocks
<1>4. ASSUME NEW t \in Tokens, NEW value, NEW end, DepositInto(t, value, end),
             tokenIds' >= t, tokenIds' >= tokenIds, tokenIds' \in Nat
      PROVE  FreshLocks'
  <2>1. \A k \in Tokens : k # t => lockedBalances'[k] = lockedBalances[k]
    BY <1>1, <1>4 DEF DepositInto
  <2>2. \A k \in Tokens : k > tokenIds' => k # t /\ k > tokenIds
    BY <1>1, <1>4
  <2>3. QED
    BY <2>1, <2>2 DEF FreshLocks
<1>5. ASSUME NEW t \in Tokens, lockedBalances[t].end > now PROVE t <= tokenIds
  <2>1. NoLock.end = 0
    BY DEF NoLock
  <2>2. ~(t > tokenIds)
    BY <1>1, <1>5, <2>1 DEF FreshLocks
  <2>3. QED
    BY <1>1, <2>2
<1>6. ASSUME NEW u \in Users, NEW value \in Amounts, NEW ts \in UnlockTimes,
             CreateLock(u, value, ts)
      PROVE  FreshLocks'
  <2>1. /\ tokenIds + 1 \in Tokens /\ tokenIds' = tokenIds + 1
        /\ DepositInto(tokenIds + 1, value, Rounded(ts))
    BY <1>6 DEF CreateLock
  <2>2. tokenIds' >= tokenIds + 1 /\ tokenIds' >= tokenIds /\ tokenIds' \in Nat
    BY <1>1, <2>1
  <2>3. QED
    BY <1>4, <2>1, <2>2
<1>7. ASSUME NEW t \in Tokens, NEW value, NEW end, DepositInto(t, value, end),
             lockedBalances[t].end > now, UNCHANGED nftVars
      PROVE  FreshLocks'
  <2>1. tokenIds' = tokenIds
    BY <1>7 DEF nftVars
  <2>2. tokenIds' >= t /\ tokenIds' >= tokenIds /\ tokenIds' \in Nat
    BY <1>1, <1>5, <1>7, <2>1
  <2>3. QED
    BY <1>4, <1>7, <2>2
<1>8. ASSUME NEW a \in Users \cup {NoOne}, NEW t \in Tokens, NEW value \in Amounts,
             DepositFor(a, t, value) \/ IncreaseAmount(a, t, value)
      PROVE  FreshLocks'
  <2>1. /\ DepositInto(t, value, 0) /\ lockedBalances[t].end > now /\ UNCHANGED nftVars
    BY <1>8 DEF DepositFor, IncreaseAmount
  <2>2. QED
    BY <1>7, <2>1
<1>9. ASSUME NEW u \in Users, NEW t \in Tokens, NEW ts \in UnlockTimes,
             IncreaseUnlockTime(u, t, ts)
      PROVE  FreshLocks'
  <2>1. /\ DepositInto(t, 0, Rounded(ts)) /\ lockedBalances[t].end > now /\ UNCHANGED nftVars
    BY <1>9 DEF IncreaseUnlockTime
  <2>2. QED
    BY <1>7, <2>1
<1>10. ASSUME NEW u \in Users, NEW t \in Tokens, Withdraw(u, t)
       PROVE  FreshLocks'
  BY <1>3, <1>10 DEF Withdraw
<1>11. ASSUME NEW u \in Users, NEW t \in Tokens, NEW s \in Tokens, MergePositions(u, t, s)
       PROVE  FreshLocks'
  BY <1>3, <1>11 DEF MergePositions
<1>12. GlobalCheckpoint => FreshLocks'
  BY <1>2 DEF GlobalCheckpoint, nftVars
<1>13. ASSUME NEW u \in Users, NEW w \in Users, NEW t \in Tokens,
              Transfer(u, w, t) \/ Burn(u, t)
       PROVE  FreshLocks'
  BY <1>2, <1>13 DEF Transfer, Burn
<1>14. Tick \/ UNCHANGED vars => FreshLocks'
  BY <1>2 DEF Tick, vars, nftVars
<1>15. QED
  BY <1>6, <1>8, <1>9, <1>10, <1>11, <1>12, <1>13, <1>14 DEF Next, LockNext

\* Before the first lock there is no power at any time.
LEMMA InitBooks ==
  ASSUME Init
  PROVE  \E b, s \in [0..Horizon -> Nat] :
           Books(Votes, lockedBalances, b, s) /\ Exact(Votes, lockedBalances, b)
<1> DEFINE zero == [T \in 0..Horizon |-> 0]
           P == StartPoint(Votes)
           f == Votes.slopes
<1>1. TypeOK
  BY InitType
<1>2. /\ now \in Nat /\ MAX_TIME \in Nat /\ MaxTime \in Nat /\ IsVotes(Votes) /\ now <= MaxTime
  BY <1>1, VotesType, HistoryType, Assumed
<1>3. /\ zero \in [0..Horizon -> Nat] /\ \A T \in 0..Horizon : zero[T] = 0
  OBVIOUS
<1>4. /\ Votes.epoch = 0 /\ P.bias = 0 /\ P.slope = 0 /\ P.ts = now
      /\ \A T \in 0..Horizon : f[T] = 0
      /\ \A t \in Tokens : Votes.tokens[t] = <<>> /\ lockedBalances[t] = NoLock
      /\ Votes.points[0].bias = 0 /\ Votes.points[0].slope = 0 /\ Votes.points[0] \in Point
  <2>1. Votes.points \in [0..Votes.epoch -> Point]
    BY <1>2 DEF IsVotes
  <2>2. Votes.epoch = 0 /\ 0 \in 0..0
    BY DEF Init, Votes
  <2>3. Votes.points[0] \in Point
    BY <2>1, <2>2
  <2>4. QED
    BY <2>2, <2>3 DEF Init, Votes, StartPoint
<1> HIDE DEF zero, P, f
<1>5. \A T \in 0..Horizon : T \in Nat
  BY Assumed
<1>6. ASSUME NEW T \in 0..Horizon PROVE SupplyIn(Votes, T) = 0
  <2> DEFINE q == Votes.points[0]
  <2>1. PointsInOrder(Votes)
    BY <1>4 DEF PointsInOrder
  <2>2. Covering(EpochOf(Votes, T), Votes, T)
    BY <1>2, <1>5, <2>1, EpochOfIs
  <2>3. EpochOf(Votes, T) = 0
    BY <1>4, <2>2 DEF Covering
  <2>4. f \in [0..Horizon -> Int]
    BY <1>2 DEF IsVotes, f
  <2>5. q \in Point /\ q.bias = 0 /\ q.slope = 0
    BY <1>4
  <2> HIDE DEF q
  <2>6. SupplyFrom(q, f, T) = 0
    BY <1>4, <2>4, <2>5, NothingFromNothing
  <2>7. QED
    BY <2>3, <2>6 DEF SupplyIn, q, f
<1>7. Described(Votes, zero, zero)
  <2>1. PointsInOrder(Votes)
    BY <1>4 DEF PointsInOrder
  <2>2. now \in 0..Horizon
    BY <1>2 DEF Horizon
  <2>3. On(zero, zero, P) /\ Over(zero, zero, P.ts) /\ Curve(zero, zero, f, P.ts)
    <3>1. On(zero, zero, P) /\ Over(zero, zero, P.ts)
      BY <1>3, <1>4, <2>2 DEF On, Over
    <3>2. Curve(zero, zero, f, P.ts)
      BY <1>2, <1>3, <1>4 DEF Curve
    <3>3. QED
      BY <3>1, <3>2
  <2>4. QED
    BY <1>2, <1>3, <1>4, <1>6, <2>1, <2>3 DEF Described, P, f
<1>8. \A T \in Nat : PowerAt(<<>>, T) = 0 /\ SteepAt(<<>>, T) = 0
  <2>1. Len(<<>>) = 0 /\ DOMAIN <<>> = {} /\ <<>> \in Seq(Point)
    OBVIOUS
  <2>2. Ordered(<<>>, now)
    BY <2>1 DEF Ordered
  <2>3. SUFFICES ASSUME NEW T \in Nat PROVE PowerAt(<<>>, T) = 0 /\ SteepAt(<<>>, T) = 0
    OBVIOUS
  <2>4. <<>> \in Seq(Entry) /\ T \in Int
    OBVIOUS
  <2>5. InForce(EpochAt(<<>>, T), <<>>, T)
    BY <1>2, <2>2, <2>4, EpochFound
  <2>6. EpochAt(<<>>, T) = 0
    BY <2>1, <2>5 DEF InForce
  <2>7. QED
    BY <2>1, <2>6 DEF PowerAt, SteepAt
<1>9. \A T \in Nat : PowerSum(Votes.tokens, T) = 0 /\ SteepSum(Votes.tokens, T) = 0
  <2>1. SUFFICES ASSUME NEW T \in Nat
                 PROVE  PowerSum(Votes.tokens, T) = 0 /\ SteepSum(Votes.tokens, T) = 0
    OBVIOUS
  <2>2. \A t \in Tokens : Powers(Votes.tokens, T)[t] = 0 /\ Steeps(Votes.tokens, T)[t] = 0
    BY <1>4, <1>8 DEF Powers, Steeps
  <2>3. QED
    BY <2>2, TokensFinite, SumZero DEF PowerSum, SteepSum
<1>10. \A T \in Nat : Weight(NoLock, T) = 0 /\ Steep(NoLock, T) = 0
  BY DEF Weight, Steep, NoLock
<1>11. \A T \in now..Horizon : T \in Nat /\ T \in 0..Horizon
  BY <1>2, <1>5
<1>12. Books(Votes, lockedBalances, zero, zero)
  <2>1. NoLock.end = 0 /\ Scheduled(NoLock)
    BY <1>1, NoLockScheduled DEF NoLock
  <2>2. \A t \in Tokens : lockedBalances[t].end <= P.ts + MAX_TIME
    BY <1>2, <1>4, <2>1
  <2>3. \A t \in Tokens : Backs(Votes.tokens[t], lockedBalances[t])
    BY <1>4, <1>8, <1>10, <1>11 DEF Backs
  <2>4. QED
    BY <1>3, <1>4, <1>5, <1>7, <1>9, <1>11, <2>1, <2>2, <2>3 DEF Books, P
<1>13. Exact(Votes, lockedBalances, zero)
  BY <1>3, <1>4, <1>5, <1>8, <1>9, <1>10, <1>11 DEF Exact
<1>14. QED
  BY <1>3, <1>12, <1>13

-----------------------------------------------------------------------------
(* What all the theorems about the supply rest on *)

RecordInv == PointsOrdered(tokenPointHistory) /\ FreshLocks
SupplyInv ==
  ~lagged => \E b, s \in [0..Horizon -> Nat] : Books(Votes, lockedBalances, b, s)
ExactInv ==
  ~lagged => \E b, s \in [0..Horizon -> Nat] :
               Books(Votes, lockedBalances, b, s) /\ Exact(Votes, lockedBalances, b)

LEMMA InitRecord == Init => RecordInv
<1>1. Init => FreshLocks
  BY DEF Init, FreshLocks
<1>2. QED
  BY <1>1, InitPoints DEF RecordInv

LEMMA NextRecord ==
  ASSUME TypeOK, RecordInv, [Next]_vars PROVE RecordInv'
BY NextPoints, NextFresh DEF RecordInv

LEMMA LaggedStays ==
  ASSUME [Next]_vars, ~lagged' PROVE ~lagged
<1>1. \A v : Record(v) => ~lagged
  BY DEF Record
<1>2. UNCHANGED voteVars => ~lagged
  BY DEF voteVars
<1>3. LockNext => ~lagged
  BY <1>1, <1>2 DEF LockNext, CreateLock, DepositFor, IncreaseAmount, IncreaseUnlockTime,
     DepositInto, Withdraw, GlobalCheckpoint, Transfer, Burn, Tick
<1>4. QED
  BY <1>1, <1>2, <1>3 DEF Next, MergePositions, vars

\* A step leaves a covering curve with the same past, and an exact one exact
\* unless it is a merge.
StepKeeps(b) ==
  \E b2, s2 \in [0..Horizon -> Nat] :
    /\ Books(Votes, lockedBalances, b2, s2)'
    /\ \A T \in 0..Horizon : T < now => b2[T] = b[T]
    /\ [LockNext]_vars /\ Exact(Votes, lockedBalances, b) => Exact(Votes, lockedBalances, b2)'

LEMMA NextBooks ==
  ASSUME TypeOK, RecordInv, [Next]_vars, ~lagged',
         NEW b \in [0..Horizon -> Nat], NEW s \in [0..Horizon -> Nat],
         Books(Votes, lockedBalances, b, s)
  PROVE  StepKeeps(b)
<1>1. PointsOrdered(tokenPointHistory) /\ FreshLocks
  BY DEF RecordInv
<1>2. CASE Tick
  <2>1. /\ Books(Votes, lockedBalances, b, s)'
        /\ Exact(Votes, lockedBalances, b) => Exact(Votes, lockedBalances, b)'
    BY <1>2, BooksTick
  <2>2. QED
    BY <2>1 DEF StepKeeps
<1>3. ASSUME ~Tick, now' = now,
             StillBooks(Votes', lockedBalances', b,
                        [LockNext]_vars /\ Exact(Votes, lockedBalances, b))
      PROVE  StepKeeps(b)
  <2>1. PICK b2, s2 \in [0..Horizon -> Nat] :
          /\ Books(Votes', lockedBalances', b2, s2)
          /\ \A T \in 0..Horizon : T < now => b2[T] = b[T]
          /\ [LockNext]_vars /\ Exact(Votes, lockedBalances, b)
               => Exact(Votes', lockedBalances', b2)
    BY <1>3 DEF StillBooks
  <2>2. /\ Books(Votes', lockedBalances', b2, s2) => Books(Votes, lockedBalances, b2, s2)'
        /\ Exact(Votes', lockedBalances', b2) => Exact(Votes, lockedBalances, b2)'
    BY <1>3, BooksSameTime
  <2>3. QED
    BY <2>1, <2>2 DEF StepKeeps
<1>4. ~Tick => now' = now
  BY DEF Next, LockNext, CreateLock, DepositFor, IncreaseAmount, IncreaseUnlockTime, Withdraw,
         GlobalCheckpoint, Transfer, Burn, MergePositions, vars
<1>5. CASE ~Tick /\ [LockNext]_vars
  <2>1. StillBooks(Votes', lockedBalances', b, Exact(Votes, lockedBalances, b))
    BY <1>1, <1>5, LockBooks
  <2>2. StillBooks(Votes', lockedBalances', b,
                   [LockNext]_vars /\ Exact(Votes, lockedBalances, b))
    BY <2>1 DEF StillBooks
  <2>3. QED
    BY <1>3, <1>4, <1>5, <2>2
<1>6. ASSUME ~Tick, ~[LockNext]_vars PROVE StepKeeps(b)
  <2>1. PICK u \in Users, t \in Tokens, k \in Tokens : MergePositions(u, t, k)
    BY <1>6 DEF Next
  <2>2. StillBooks(Votes', lockedBalances', b, FALSE)
    BY <1>1, <2>1, MergeBooks
  <2>3. StillBooks(Votes', lockedBalances', b,
                   [LockNext]_vars /\ Exact(Votes, lockedBalances, b))
    BY <1>6, <2>2 DEF StillBooks
  <2>4. QED
    BY <1>3, <1>4, <1>6, <2>3
<1>7. QED
  BY <1>2, <1>5, <1>6

\* The views are those of the curve.
LEMMA SupplyIs ==
  ASSUME NEW T
  PROVE  TotalSupply(T) = SupplyIn(Votes, T)
BY DEF TotalSupply, SupplyAt, SupplyIn, SupplyFrom, EpochOf, Votes

LEMMA BalancesAre ==
  ASSUME NEW T
  PROVE  SumOfBalances(T) = PowerSum(Votes.tokens, T)
<1> DEFINE f == Powers(tokenPointHistory, T)
<1>1. [t \in Tokens |-> BalanceOfToken(t, T)] = f
  BY BalanceOfTokenIs DEF Powers
<1>2. SumFunction(f) = SumFunctionOnSet(f, Tokens)
  <2>1. DOMAIN f = Tokens
    BY DEF Powers
  <2> HIDE DEF f
  <2>2. QED
    BY <2>1, SumOver
<1>3. QED
  BY <1>1, <1>2 DEF SumOfBalances, PowerSum, Votes

LEMMA BooksCover ==
  ASSUME TypeOK, PointsOrdered(tokenPointHistory),
         NEW b \in [0..Horizon -> Nat], NEW s, Books(Votes, lockedBalances, b, s),
         NEW T \in 0..Horizon
  PROVE  /\ TotalSupply(T) = b[T] /\ TotalSupply(T) >= SumOfBalances(T)
         /\ Exact(Votes, lockedBalances, b) => TotalSupply(T) = SumOfBalances(T)
<1>1. SupplyIn(Votes, T) = b[T] /\ PowerSum(Votes.tokens, T) <= b[T]
  BY DEF Books, Described
<1>2. b[T] \in Nat /\ PowerSum(Votes.tokens, T) \in Nat
  <2>1. IsVotes(Votes) /\ Votes.tokens = tokenPointHistory /\ now \in Nat /\ T \in Nat
    BY VotesType, HistoryType, Assumed DEF Votes
  <2>2. IsRecord(Votes.tokens)
    BY <2>1 DEF IsRecord, IsVotes
  <2>3. QED
    BY <2>1, <2>2, SumsType
<1>3. Exact(Votes, lockedBalances, b) => PowerSum(Votes.tokens, T) = b[T]
  BY DEF Exact
<1>4. QED
  BY <1>1, <1>2, <1>3, SupplyIs, BalancesAre

LEMMA NextSupply ==
  ASSUME TypeOK, RecordInv, SupplyInv, [Next]_vars
  PROVE  /\ SupplyInv'
         /\ ~lagged' => \A ts \in 0..(now - 1) : TotalSupply(ts)' = TotalSupply(ts)
<1>1. SUFFICES ASSUME ~lagged'
               PROVE  /\ \E b, s \in [0..Horizon -> Nat] : Books(Votes, lockedBalances, b, s)'
                      /\ \A ts \in 0..(now - 1) : TotalSupply(ts)' = TotalSupply(ts)
  BY DEF SupplyInv
<1>2. PICK b, s \in [0..Horizon -> Nat] : Books(Votes, lockedBalances, b, s)
  BY <1>1, LaggedStays DEF SupplyInv
<1>3. PICK b2, s2 \in [0..Horizon -> Nat] :
        /\ Books(Votes, lockedBalances, b2, s2)'
        /\ \A T \in 0..Horizon : T < now => b2[T] = b[T]
  BY <1>1, <1>2, NextBooks DEF StepKeeps
<1>4. ASSUME NEW ts \in 0..(now - 1) PROVE TotalSupply(ts)' = TotalSupply(ts)
  <2>1. ts \in 0..Horizon /\ ts < now
    <3>1. now \in Nat /\ now <= MaxTime /\ MaxTime \in Nat
      BY HistoryType, Assumed
    <3>2. MaxTime <= Horizon /\ Horizon \in Nat
      BY Assumed
    <3>3. QED
      BY <3>1, <3>2
  <2>2. SupplyIn(Votes, ts) = b[ts]
    BY <1>2, <2>1 DEF Books, Described
  <2>3. SupplyIn(Votes', ts) = b2[ts]
    BY <1>3, <2>1 DEF Books, Described
  <2>4. TotalSupply(ts)' = SupplyIn(Votes', ts)
    BY DEF TotalSupply, SupplyAt, SupplyIn, SupplyFrom, EpochOf, Votes
  <2>5. QED
    BY <1>3, <2>1, <2>2, <2>3, <2>4, SupplyIs
<1>5. QED
  BY <1>3, <1>4

LEMMA NextExact ==
  ASSUME TypeOK, RecordInv, ExactInv, [LockNext]_vars
  PROVE  ExactInv'
<1>1. SUFFICES ASSUME ~lagged'
               PROVE  \E b, s \in [0..Horizon -> Nat] :
                        /\ Books(Votes, lockedBalances, b, s)'
                        /\ Exact(Votes, lockedBalances, b)'
  BY DEF ExactInv
<1>2. [Next]_vars
  BY LockStep
<1>3. PICK b, s \in [0..Horizon -> Nat] :
        Books(Votes, lockedBalances, b, s) /\ Exact(Votes, lockedBalances, b)
  BY <1>1, <1>2, LaggedStays DEF ExactInv
<1>4. StepKeeps(b)
  BY <1>1, <1>2, <1>3, NextBooks
<1>5. QED
  BY <1>3, <1>4 DEF StepKeeps

\* Merging may leave power behind but takes none: unless the contract was left
\* untouched for longer than the loop walks, totalSupply is never less than
\* what the positions have, at any second before or after now.
THEOREM SupplyCovers == Spec => []SupplyCoversBalances
<1>1. Init => RecordInv /\ SupplyInv
  BY InitRecord, InitBooks DEF SupplyInv
<1>2. TypeOK /\ RecordInv /\ SupplyInv /\ [Next]_vars => (RecordInv /\ SupplyInv)'
  BY NextRecord, NextSupply
<1>3. TypeOK /\ RecordInv /\ SupplyInv => SupplyCoversBalances
  BY BooksCover DEF RecordInv, SupplyInv, SupplyCoversBalances
<1>4. QED
  BY <1>1, <1>2, <1>3, TypeCorrect, PTL DEF Spec

\* Without merges the aggregate that _checkpoint keeps with its points and
\* scheduled slopes is exactly the sum of the positions, at every second.
THEOREM SupplyExact == LockSpec => []SupplyIsSumOfBalances
<1>1. Init => RecordInv /\ ExactInv
  BY InitRecord, InitBooks DEF ExactInv
<1>2. TypeOK /\ RecordInv /\ ExactInv /\ [LockNext]_vars => (RecordInv /\ ExactInv)'
  BY NextRecord, NextExact, LockStep
<1>3. TypeOK /\ RecordInv /\ ExactInv => SupplyIsSumOfBalances
  BY BooksCover DEF RecordInv, ExactInv, SupplyIsSumOfBalances
<1>4. QED
  BY <1>1, <1>2, <1>3, LocksTyped, PTL DEF LockSpec

\* A vote's quorum is settled when its second is over: no later transaction,
\* merges included, changes the total supply of a past second.
THEOREM PastSupply == Spec => PastSupplyFixed
<1>1. Init => RecordInv /\ SupplyInv
  BY InitRecord, InitBooks DEF SupplyInv
<1>2. TypeOK /\ RecordInv /\ SupplyInv /\ [Next]_vars => (RecordInv /\ SupplyInv)'
  BY NextRecord, NextSupply
<1>3. TypeOK /\ RecordInv /\ SupplyInv /\ [Next]_vars
        => [~lagged' => \A ts \in 0..(now - 1) : TotalSupply(ts)' = TotalSupply(ts)]_vars
  BY NextSupply
<1>4. QED
  BY <1>1, <1>2, <1>3, TypeCorrect, PTL DEF Spec, PastSupplyFixed
=============================================================================
