---------------------------- MODULE InsensitiveProofs ----------------------------
(***************************************************************************)
(* Lemmas on lists, folds and the operators of Insensitive, on which the   *)
(* theorems about spreadsheets, templates and addresses rest.              *)
(***************************************************************************)
EXTENDS Insensitive, FiniteSetTheorems, SequenceTheorems, TLAPS

-----------------------------------------------------------------------------
(* Numbers and places.  Induction up to a number, over the set of those    *)
(* that something holds for.                                               *)
LEMMA StepByStep ==
  ASSUME NEW n \in Nat, NEW T, 0 \in T, \A k \in 0..n : k \in T /\ k < n => k + 1 \in T
  PROVE  \A k \in 0..n : k \in T
<1> DEFINE R == OpToRel(<, Nat)
           Without == {k \in 0..n : k \notin T}
<1>1. IsWellFoundedOn(R, Nat)
  BY NatLessThanWellFounded
<1>2. Without \subseteq Nat
  OBVIOUS
<1>3. SUFFICES ASSUME Without # {} PROVE FALSE
  OBVIOUS
<1>4. PICK least \in Without : \A k \in Without : <<k, least>> \notin R
  <2> HIDE DEF R, Without
  <2> QED BY <1>1, <1>2, <1>3, WFMin, Zenon
<1>5. \A k \in Without : ~(k < least)
  <2> SUFFICES ASSUME NEW k \in Without, k < least PROVE FALSE
    OBVIOUS
  <2>1. k \in Nat /\ least \in Nat
    BY <1>2
  <2>2. <<k, least>> \in R
    BY <2>1 DEF OpToRel
  <2> QED BY <1>4, <2>2
<1>6. least \in 0..n /\ least # 0 /\ least \notin T
  OBVIOUS
<1>7. least - 1 \in T
  BY <1>5, <1>6
<1> QED BY <1>6, <1>7

LEMMA MinOfTwo ==
  ASSUME NEW a \in Int, NEW b \in Int
  PROVE  Min({a, b}) = IF a <= b THEN a ELSE b
<1>1. PICK c \in {a, b} : \A d \in {a, b} : c <= d
  OBVIOUS
<1>2. Min({a, b}) \in {a, b} /\ \A d \in {a, b} : Min({a, b}) <= d
  BY <1>1 DEF Min
<1> QED BY <1>2

LEMMA OneMorePlace == ASSUME NEW k \in Nat PROVE 1..(k + 1) = 1..k \cup {k + 1}
  OBVIOUS

(* The last and the first of some places.                                  *)
LEMMA LastPlace ==
  ASSUME NEW n \in Nat, NEW places, places \subseteq 1..n, places # {}
  PROVE  Max(places) \in places /\ \A m \in places : m <= Max(places)
<1> DEFINE IsLast(m, k) == m <= k /\ \A l \in places : l <= k => l <= m
           P(k) == (\E m \in places : m <= k) => \E m \in places : IsLast(m, k)
           T == {k \in 0..n : P(k)}
<1>1. \A m \in places : m \in Nat /\ m >= 1 /\ m <= n
  OBVIOUS
<1>2. P(0)
  BY <1>1
<1>3. ASSUME NEW k \in 0..n, P(k), k < n PROVE P(k + 1)
  <2>1. CASE k + 1 \in places
    <3>1. IsLast(k + 1, k + 1)
      BY <1>1
    <3> QED BY <2>1, <3>1
  <2>2. CASE k + 1 \notin places
    <3>1. \A m \in places : m <= k + 1 <=> m <= k
      BY <1>1, <2>2
    <3> QED BY <1>3, <3>1
  <2> QED BY <2>1, <2>2
<1>4. \A k \in 0..n : k \in T
  <2> HIDE DEF P
  <2>1. 0 \in T /\ \A k \in 0..n : k \in T /\ k < n => k + 1 \in T
    BY <1>2, <1>3
  <2> HIDE DEF T
  <2> QED BY <2>1, StepByStep
<1>5. P(n)
  <2> HIDE DEF P
  <2>1. n \in 0..n
    OBVIOUS
  <2> QED BY <1>4, <2>1
<1>6. PICK m \in places : \A l \in places : m >= l
  BY <1>1, <1>5
<1> QED BY <1>1, <1>6 DEF Max

LEMMA LeastPlace ==
  ASSUME NEW n \in Nat, NEW places, places \subseteq 1..n, places # {}
  PROVE  Min(places) \in places /\ \A m \in places : Min(places) <= m
<1>1. PICK mirrored : mirrored = {n + 1 - m : m \in places}
  OBVIOUS
<1>2. \A m \in places : m \in Nat /\ n + 1 - m \in 1..n /\ n + 1 - m \in mirrored
  BY <1>1
<1>3. mirrored \subseteq 1..n /\ mirrored # {}
  BY <1>1, <1>2
<1>4. Max(mirrored) \in mirrored /\ \A k \in mirrored : k <= Max(mirrored)
  BY <1>3, LastPlace
<1>5. PICK least \in places : Max(mirrored) = n + 1 - least
  BY <1>1, <1>4
<1>6. \A m \in places : least <= m
  <2> SUFFICES ASSUME NEW m \in places PROVE least <= m
    OBVIOUS
  <2>1. n + 1 - m <= n + 1 - least /\ m \in Nat /\ least \in Nat
    BY <1>2, <1>4, <1>5
  <2> QED BY <2>1
<1> QED BY <1>6 DEF Min

-----------------------------------------------------------------------------
(* Lists and folds.                                                        *)
LEMMA Appended ==
  ASSUME NEW S, NEW s \in Seq(S), NEW e \in S
  PROVE  /\ Append(s, e) \in Seq(S)
         /\ Len(s) \in Nat
         /\ Len(Append(s, e)) = Len(s) + 1
         /\ \A n \in 1..Len(s) : Append(s, e)[n] = s[n]
         /\ Append(s, e)[Len(s) + 1] = e
  BY AppendProperties, LenProperties

(* What stands in a list.                                                  *)
Among(item, items) == \E n \in 1..Len(items) : items[n] = item

LEMMA AmongThem ==
  ASSUME NEW S, NEW items \in Seq(S), NEW item
  PROVE  item \in ToSet(items) <=> Among(item, items)
<1>1. DOMAIN items = 1..Len(items)
  BY LenProperties
<1> QED BY <1>1 DEF ToSet, Among

(* All places but the last one.                                            *)
Except(s) == s \ {Max(s)}

LEMMA LastOfUpTo ==
  ASSUME NEW n \in Nat, NEW k \in 1..n
  PROVE  1..k # {} /\ 1..k \in SUBSET (1..n) /\ Max(1..k) = k /\ Except(1..k) = 1..(k - 1)
<1>1. 1..k \subseteq 1..k /\ 1..k # {} /\ k \in Nat
  OBVIOUS
<1>2. Max(1..k) \in 1..k /\ \A m \in 1..k : m <= Max(1..k)
  BY <1>1, LastPlace
<1>3. Max(1..k) = k
  BY <1>2
<1> QED BY <1>3 DEF Except

(* What a function makes of a value and a place, for all places in turn.   *)
Changes(n, V) == [V -> [1..n -> V]]

IsFoldOf(g, n, base, h) ==
  \A s \in SUBSET (1..n) : g[s] = IF s = {} THEN base ELSE h[g[Except(s)]][Max(s)]

LEMMA FoldExists ==
  ASSUME NEW n \in Nat, NEW V, NEW base \in V, NEW h \in Changes(n, V)
  PROVE  \E g \in [SUBSET (1..n) -> V] : IsFoldOf(g, n, base, h)
<1> USE DEF Changes
<1> DEFINE IsFold(g, k) ==
             \A s \in SUBSET (1..k) : g[s] = IF s = {} THEN base ELSE h[g[Except(s)]][Max(s)]
           T == {k \in 0..n : \E g \in [SUBSET (1..k) -> V] : IsFold(g, k)}
<1>1. 0 \in T
  <2>1. 1..0 = {}
    OBVIOUS
  <2>2. PICK g : g = [s \in SUBSET (1..0) |-> base]
    OBVIOUS
  <2>3. g \in [SUBSET (1..0) -> V] /\ IsFold(g, 0)
    BY <2>1, <2>2
  <2> HIDE DEF IsFold
  <2>4. 0 \in 0..n
    OBVIOUS
  <2> QED BY <2>3, <2>4
<1>2. ASSUME NEW k \in 0..n, k \in T, k < n PROVE k + 1 \in T
  <2>1. PICK g \in [SUBSET (1..k) -> V] : IsFold(g, k)
    BY <1>2
  <2>2. PICK f : f = [s \in SUBSET (1..(k + 1)) |->
                        IF k + 1 \in s THEN h[g[s \ {k + 1}]][k + 1] ELSE g[s]]
    OBVIOUS
  <2>3. \A s \in SUBSET (1..(k + 1)) :
          /\ k + 1 \in s => s \ {k + 1} \in SUBSET (1..k) /\ k + 1 \notin s \ {k + 1}
          /\ k + 1 \notin s => s \in SUBSET (1..k)
    OBVIOUS
  <2>4. k + 1 \in 1..n /\ k + 1 \in Nat /\ 1..k \subseteq 1..(k + 1)
    BY <1>2
  <2>5. f \in [SUBSET (1..(k + 1)) -> V]
    <3>1. ASSUME NEW s \in SUBSET (1..(k + 1)) PROVE f[s] \in V
      <4>1. CASE k + 1 \in s
        <5>1. g[s \ {k + 1}] \in V
          BY <2>3, <4>1
        <5> QED BY <2>2, <2>4, <4>1, <5>1
      <4>2. CASE k + 1 \notin s
        BY <2>2, <2>3, <4>2
      <4> QED BY <4>1, <4>2
    <3> QED BY <2>2, <3>1
  <2>6. ASSUME NEW s \in SUBSET (1..(k + 1))
        PROVE  f[s] = IF s = {} THEN base ELSE h[f[Except(s)]][Max(s)]
    <3>1. CASE s = {}
      <4>1. f[s] = g[s]
        BY <2>2, <3>1
      <4>2. s \in SUBSET (1..k)
        BY <3>1
      <4> QED BY <2>1, <3>1, <4>1, <4>2
    <3>2. ASSUME s # {} PROVE Max(s) \in s /\ \A m \in s : m <= Max(s)
      BY <2>4, <3>2, LastPlace
    <3>3. CASE k + 1 \in s
      <4>1. Max(s) = k + 1
        <5>1. Max(s) \in 1..(k + 1) /\ k + 1 <= Max(s)
          BY <3>2, <3>3
        <5> QED BY <2>4, <5>1
      <4>2. f[Except(s)] = g[s \ {k + 1}]
        BY <2>2, <2>3, <2>4, <3>3, <4>1 DEF Except
      <4> QED BY <2>2, <3>3, <4>1, <4>2
    <3>4. CASE k + 1 \notin s /\ s # {}
      <4>1. s \in SUBSET (1..k) /\ Except(s) \in SUBSET (1..k)
        BY <2>3, <3>4 DEF Except
      <4>2. f[s] = g[s]
        BY <2>2, <3>4
      <4>3. k + 1 \notin Except(s) /\ Except(s) \in SUBSET (1..(k + 1))
        BY <3>4, <4>1 DEF Except
      <4>4. f[Except(s)] = g[Except(s)]
        BY <2>2, <4>3
      <4>5. g[s] = h[g[Except(s)]][Max(s)]
        BY <2>1, <3>4, <4>1
      <4> QED BY <3>4, <4>2, <4>4, <4>5
    <3> QED BY <3>1, <3>3, <3>4
  <2>7. IsFold(f, k + 1)
    BY <2>6
  <2> HIDE DEF IsFold
  <2> QED BY <2>4, <2>5, <2>7
<1>3. n \in T
  <2>1. \A k \in 0..n : k \in T
    <3>1. \A k \in 0..n : k \in T /\ k < n => k + 1 \in T
      BY <1>2
    <3> HIDE DEF T
    <3> QED BY <1>1, <3>1, StepByStep
  <2>2. n \in 0..n
    OBVIOUS
  <2> HIDE DEF T
  <2> QED BY <2>1, <2>2
<1>4. \E g \in [SUBSET (1..n) -> V] : IsFold(g, n)
  <2> HIDE DEF IsFold
  <2> QED BY <1>3
<1> QED BY <1>4 DEF IsFoldOf

(* A fold is what is reached in as many steps as there are places.         *)
Steps(f, n, base, h) == f[0] = base /\ \A k \in 1..n : f[k] = h[f[k - 1]][k]

FollowsFrom(iter, n, V, h) ==
  \A s \in SUBSET (1..n) :
    s # {} /\ iter[Except(s)] \in V => iter[s] = h[iter[Except(s)]][Max(s)]

LEMMA FoldSteps ==
  ASSUME NEW n \in Nat, NEW V, NEW base \in V, NEW h \in Changes(n, V), NEW iter,
         iter[{}] = base, FollowsFrom(iter, n, V, h)
  PROVE  \E f \in [0..n -> V] : Steps(f, n, base, h) /\ iter[1..n] = f[n]
<1> USE DEF Changes, FollowsFrom
<1>1. PICK f : f = [k \in 0..n |-> iter[1..k]]
  OBVIOUS
<1>2. ASSUME NEW k \in 1..n, f[k - 1] \in V PROVE f[k] = h[f[k - 1]][k]
  <2>1. f[k - 1] = iter[1..(k - 1)] /\ f[k] = iter[1..k]
    <3>1. k - 1 \in 0..n /\ k \in 0..n
      OBVIOUS
    <3> QED BY <1>1, <3>1
  <2>2. 1..k # {} /\ 1..k \in SUBSET (1..n) /\ Max(1..k) = k /\ Except(1..k) = 1..(k - 1)
    BY LastOfUpTo
  <2> QED BY <1>2, <2>1, <2>2
<1>3. \A k \in 1..n : f[k - 1] \in V => f[k] = h[f[k - 1]][k]
  BY <1>2
<1>4. f[0] = base
  <2>1. 1..0 = {} /\ 0 \in 0..n
    OBVIOUS
  <2> QED BY <1>1, <2>1
<1> DEFINE T == {k \in 0..n : f[k] \in V}
<1>5. ASSUME NEW k \in 0..n, k \in T, k < n PROVE k + 1 \in T
  <2>1. k + 1 \in 1..n /\ (k + 1) - 1 = k
    BY <1>5
  <2>2. f[k] \in V
    BY <1>5
  <2>3. f[k + 1] = h[f[k]][k + 1]
    BY <1>3, <2>1, <2>2
  <2>4. h[f[k]][k + 1] \in V
    BY <2>1, <2>2
  <2> QED BY <2>1, <2>3, <2>4
<1>6. 0 \in T
  BY <1>4
<1>7. \A k \in 0..n : f[k] \in V
  <2>1. \A k \in 0..n : k \in T
    <3> HIDE DEF T
    <3> QED BY <1>5, <1>6, StepByStep
  <2> QED BY <2>1
<1>8. f \in [0..n -> V] /\ Steps(f, n, base, h)
  <2>1. \A k \in 1..n : k - 1 \in 0..n
    OBVIOUS
  <2>2. \A k \in 1..n : f[k] = h[f[k - 1]][k]
    BY <1>3, <1>7, <2>1
  <2>3. f \in [0..n -> V]
    BY <1>1, <1>7
  <2> QED BY <1>4, <2>2, <2>3 DEF Steps
<1>9. iter[1..n] = f[n]
  BY <1>1
<1> QED BY <1>8, <1>9

(* What is chosen of a list, item by item.                                 *)
Taken(some, row, chosen) == IF row \in chosen THEN Append(some, row) ELSE some

LEMMA WhereSteps ==
  ASSUME NEW S, NEW list \in Seq(S), NEW chosen
  PROVE  \E f \in [0..Len(list) -> Seq(S)] :
           /\ f[0] = <<>>
           /\ \A k \in 1..Len(list) : f[k] = Taken(f[k - 1], list[k], chosen)
           /\ Where(list, chosen) = f[Len(list)]
<1>0. PICK n \in Nat : n = Len(list)
  BY LenProperties
<1>1. PICK V : V = Seq(S)
  OBVIOUS
<1>2. DOMAIN list = 1..n /\ <<>> \in V /\ \A k \in 1..n : list[k] \in S
  BY <1>0, <1>1
<1>3. PICK h : h = [v \in V |-> [k \in 1..n |-> Taken(v, list[k], chosen)]]
  OBVIOUS
<1>4. h \in Changes(n, V)
  <2>1. \A v \in V, k \in 1..n : Taken(v, list[k], chosen) \in V
    BY <1>0, <1>1, <1>2 DEF Taken
  <2> QED BY <1>3, <2>1 DEF Changes
<1> DEFINE IsFold(g) ==
      g = [s \in SUBSET DOMAIN list |->
             IF s = {} THEN <<>> ELSE Taken(g[Except(s)], list[Max(s)], chosen)]
<1>5. \E g : IsFold(g)
  <2>1. PICK g \in [SUBSET (1..n) -> V] : IsFoldOf(g, n, <<>>, h)
    BY <1>2, <1>4, FoldExists, Zenon
  <2>2. ASSUME NEW s \in SUBSET (1..n), s # {}
        PROVE  h[g[Except(s)]][Max(s)] = Taken(g[Except(s)], list[Max(s)], chosen)
    <3>1. Max(s) \in 1..n /\ Except(s) \in SUBSET (1..n)
      BY <2>2, LastPlace DEF Except
    <3> QED BY <1>3, <2>1, <3>1
  <2>3. IsFold(g)
    BY <1>2, <2>1, <2>2 DEF IsFoldOf
  <2> QED BY <2>3
<1>6. PICK iter : iter = (CHOOSE g : IsFold(g))
  OBVIOUS
<1>7. IsFold(iter)
  <2> HIDE DEF IsFold
  <2> QED BY <1>5, <1>6
<1>8. Where(list, chosen) = iter[1..n]
  BY <1>2, <1>6, Zenon DEF Where, Taken, FoldLeft, MapThenFoldSet, Except
<1>9. iter[{}] = <<>>
  BY <1>7
<1>10. FollowsFrom(iter, n, V, h)
  <2>1. ASSUME NEW s \in SUBSET (1..n), s # {}, iter[Except(s)] \in V
        PROVE  iter[s] = h[iter[Except(s)]][Max(s)]
    <3>1. Max(s) \in 1..n
      BY <2>1, LastPlace
    <3> QED BY <1>2, <1>3, <1>7, <2>1, <3>1
  <2> QED BY <2>1 DEF FollowsFrom
<1>11. PICK f \in [0..n -> V] : Steps(f, n, <<>>, h) /\ iter[1..n] = f[n]
  <2> HIDE DEF IsFold
  <2> QED BY <1>2, <1>4, <1>9, <1>10, FoldSteps
<1>12. ASSUME NEW k \in 1..n PROVE f[k] = Taken(f[k - 1], list[k], chosen)
  <2>1. f[k - 1] \in V
    BY <1>0, <1>11
  <2> QED BY <1>3, <1>11, <2>1 DEF Steps
<1> QED BY <1>0, <1>1, <1>8, <1>11, <1>12 DEF Steps

LEMMA WhereItems ==
  ASSUME NEW S, NEW list \in Seq(S), NEW chosen
  PROVE  /\ Where(list, chosen) \in Seq(S)
         /\ ToSet(Where(list, chosen)) = ToSet(list) \cap chosen
<1>1. PICK n \in Nat : n = Len(list) /\ \A k \in 1..n : list[k] \in S
  BY LenProperties
<1>2. PICK f \in [0..n -> Seq(S)] :
        /\ f[0] = <<>> /\ Where(list, chosen) = f[n]
        /\ \A k \in 1..n : f[k] = Taken(f[k - 1], list[k], chosen)
  <2>1. \E f \in [0..Len(list) -> Seq(S)] :
           /\ f[0] = <<>>
           /\ \A k \in 1..Len(list) : f[k] = Taken(f[k - 1], list[k], chosen)
           /\ Where(list, chosen) = f[Len(list)]
    BY WhereSteps, Zenon
  <2> QED BY <1>1, <2>1
<1> DEFINE P(k) == \A row :
             Among(row, f[k]) <=> row \in chosen /\ \E d \in 1..k : list[d] = row
           T == {k \in 0..n : P(k)}
<1>3. P(0)
  <2>1. Len(f[0]) = 0
    BY <1>2
  <2> QED BY <2>1 DEF Among
<1>4. ASSUME NEW k \in 0..n, P(k), k < n PROVE P(k + 1)
  <2>1. k + 1 \in 1..n /\ (k + 1) - 1 = k /\ k \in Nat
    BY <1>4
  <2>2. PICK some \in Seq(S), new \in S : some = f[k] /\ new = list[k + 1]
    BY <1>1, <1>2, <2>1
  <2>3. f[k + 1] = Taken(some, new, chosen)
    BY <1>2, <2>1, <2>2
  <2>4. \A row : Among(row, some) <=> row \in chosen /\ \E d \in 1..k : list[d] = row
    BY <1>4, <2>2
  <2>5. \A row : Among(row, f[k + 1]) <=> Among(row, some) \/ (row = new /\ new \in chosen)
    <3>1. CASE new \notin chosen
      BY <2>3, <3>1 DEF Taken
    <3>2. CASE new \in chosen
      <4>1. f[k + 1] = Append(some, new)
        BY <2>3, <3>2 DEF Taken
      <4>2. PICK m \in Nat : m = Len(some)
        BY LenProperties
      <4>3. PICK more : more = f[k + 1]
        OBVIOUS
      <4>4. Len(more) = m + 1 /\ more[m + 1] = new /\ \A l \in 1..m : more[l] = some[l]
        BY <4>1, <4>2, <4>3, Appended
      <4>5. 1..(m + 1) = 1..m \cup {m + 1}
        BY <4>2
      <4> QED BY <3>2, <4>2, <4>3, <4>4, <4>5 DEF Among
    <3> QED BY <3>1, <3>2
  <2>6. 1..(k + 1) = 1..k \cup {k + 1}
    <3>1. k \in Nat
      BY <2>1
    <3> QED BY <3>1, OneMorePlace, Zenon
  <2>7. \A row : (\E d \in 1..(k + 1) : list[d] = row)
                   <=> (\E d \in 1..k : list[d] = row) \/ row = new
    BY <2>2, <2>6
  <2> QED BY <2>4, <2>5, <2>7
<1>5. 0 \in T /\ \A k \in 0..n : k \in T /\ k < n => k + 1 \in T
  <2> HIDE DEF P
  <2> QED BY <1>3, <1>4
<1>6. \A k \in 0..n : k \in T
  <2> HIDE DEF T
  <2> QED BY <1>5, StepByStep
<1>7. n \in 0..n
  OBVIOUS
<1> HIDE DEF P
<1>8. P(n) /\ f[n] \in Seq(S)
  BY <1>2, <1>6, <1>7
<1>9. \A row : Among(row, f[n]) <=> row \in chosen /\ Among(row, list)
  BY <1>1, <1>8 DEF P, Among
<1>10. \A row : row \in ToSet(f[n]) <=> row \in chosen /\ row \in ToSet(list)
  BY <1>8, <1>9, AmongThem
<1> QED BY <1>2, <1>8, <1>10

LEMMA ElementsOf ==
  ASSUME NEW S, NEW list \in Seq(S)
  PROVE  ToSet(list) \subseteq S /\ \A k \in 1..Len(list) : list[k] \in ToSet(list)
  BY LenProperties DEF ToSet

(* Of a list whose first items are chosen and whose others are not, the    *)
(* first are taken; an item that is chosen nowhere may go.                 *)

FirstChosen(list, chosen, m) ==
  /\ \A k \in 1..m : list[k] \in chosen
  /\ \A k \in (m + 1)..Len(list) : list[k] \notin chosen

LEMMA WhereFirst ==
  ASSUME NEW S, NEW list \in Seq(S), NEW chosen, NEW m \in 0..Len(list), FirstChosen(list, chosen, m)
  PROVE  Where(list, chosen) = SubSeq(list, 1, m)
<1>1. PICK n \in Nat : n = Len(list) /\ \A k \in 1..n : list[k] \in S
  BY LenProperties
<1>2. PICK f \in [0..n -> Seq(S)] :
        /\ f[0] = <<>> /\ Where(list, chosen) = f[n]
        /\ \A k \in 1..n : f[k] = Taken(f[k - 1], list[k], chosen)
  <2>1. \E f \in [0..Len(list) -> Seq(S)] :
           /\ f[0] = <<>>
           /\ \A k \in 1..Len(list) : f[k] = Taken(f[k - 1], list[k], chosen)
           /\ Where(list, chosen) = f[Len(list)]
    BY WhereSteps, Zenon
  <2> QED BY <1>1, <2>1
<1>10. \A k \in 1..m : list[k] \in chosen
  BY DEF FirstChosen
<1>11. \A k \in (m + 1)..n : list[k] \notin chosen
  BY <1>1 DEF FirstChosen
<1> DEFINE P(k) == f[k] = SubSeq(list, 1, IF k <= m THEN k ELSE m)
           T == {k \in 0..n : P(k)}
<1>3. P(0)
  <2>1. SubSeq(list, 1, 0) = <<>>
    BY SubSeqEmpty
  <2> QED BY <1>2, <2>1
<1>4. ASSUME NEW k \in 0..n, P(k), k < n PROVE P(k + 1)
  <2>1. k + 1 \in 1..n /\ (k + 1) - 1 = k /\ k \in Nat /\ m \in Nat
    BY <1>1, <1>4
  <2>2. PICK new \in S : new = list[k + 1]
    BY <1>1, <2>1
  <2>3. f[k + 1] = Taken(f[k], new, chosen)
    BY <1>2, <2>1, <2>2
  <2>4. CASE k < m
    <3>1. new \in chosen /\ f[k] = SubSeq(list, 1, k) /\ k + 1 <= m
      BY <1>10, <1>4, <2>1, <2>2, <2>4
    <3>2. SubSeq(list, 1, k + 1) = SubSeq(list, 1, (k + 1) - 1) \o <<list[k + 1]>>
      <4>1. 1 \in 1..Len(list) /\ k + 1 \in 1..Len(list)
        BY <1>1, <2>1
      <4> QED BY <4>1, SubSeqRecursiveSecond
    <3>3. f[k] \in Seq(S)
      BY <1>2
    <3>4. Append(f[k], new) = f[k] \o <<new>>
      BY <3>3, AppendIsConcat
    <3> QED BY <2>1, <2>2, <2>3, <3>1, <3>2, <3>4 DEF Taken
  <2>5. CASE ~(k < m)
    <3>1. k + 1 \in (m + 1)..n
      BY <2>1, <2>5
    <3>2. new \notin chosen
      BY <1>11, <2>2, <3>1
    <3>3. ~(k + 1 <= m) /\ (k <= m => k = m)
      BY <2>1, <2>5
    <3> QED BY <1>4, <2>3, <3>2, <3>3 DEF Taken
  <2> QED BY <2>4, <2>5
<1>5. 0 \in T /\ \A k \in 0..n : k \in T /\ k < n => k + 1 \in T
  <2> HIDE DEF P
  <2>1. 0 \in 0..n /\ \A k \in 0..n : k < n => k + 1 \in 0..n
    OBVIOUS
  <2> QED BY <1>3, <1>4, <2>1, Zenon
<1>6. \A k \in 0..n : k \in T
  <2> HIDE DEF T
  <2> QED BY <1>5, StepByStep
<1>7. n \in 0..n
  OBVIOUS
<1>8. P(n)
  <2> HIDE DEF P
  <2> QED BY <1>6, <1>7
<1>9. m \in Nat /\ m <= n /\ (n <= m => n = m)
  BY <1>1
<1> QED BY <1>2, <1>8, <1>9

LEMMA WhereAll ==
  ASSUME NEW S, NEW list \in Seq(S), NEW chosen, \A k \in 1..Len(list) : list[k] \in chosen
  PROVE  Where(list, chosen) = list
<1>1. PICK n \in Nat : n = Len(list)
  BY LenProperties
<1>2. n \in 0..Len(list) /\ \A k \in (n + 1)..Len(list) : list[k] \notin chosen
  BY <1>1
<1>3. Where(list, chosen) = SubSeq(list, 1, n)
  BY <1>1, <1>2, WhereFirst DEF FirstChosen
<1> QED BY <1>1, <1>3, SubSeqFull

LEMMA WhereAllButLast ==
  ASSUME NEW S, NEW list \in Seq(S), NEW new \in S, NEW chosen,
         \A k \in 1..Len(list) : list[k] \in chosen, new \notin chosen
  PROVE  Where(Append(list, new), chosen) = list
<1>1. PICK n \in Nat : n = Len(list)
  BY LenProperties
<1> DEFINE more == Append(list, new)
<1>2. /\ more \in Seq(S) /\ Len(more) = n + 1 /\ more[n + 1] = new
      /\ \A k \in 1..n : more[k] = list[k]
  BY <1>1, Appended
<1>3. /\ n \in 0..Len(more) /\ \A k \in 1..n : more[k] \in chosen
      /\ \A k \in (n + 1)..Len(more) : more[k] \notin chosen
  BY <1>1, <1>2
<1>4. Where(more, chosen) = SubSeq(more, 1, n) /\ Where(more, chosen) = Where(Append(list, new), chosen)
  BY <1>2, <1>3, WhereFirst DEF FirstChosen
<1> HIDE DEF more
<1>5. PICK first : first = SubSeq(more, 1, n)
  OBVIOUS
<1>6. first \in Seq(S) /\ Len(first) = n /\ \A k \in 1..n : first[k] = more[k]
  <2>1. \A k \in 1..n : more[k] \in S
    BY <1>2, ElementOfSeq
  <2>2. /\ SubSeq(more, 1, n) \in Seq(S)
        /\ Len(SubSeq(more, 1, n)) = IF 1 <= n THEN n - 1 + 1 ELSE 0
        /\ \A k \in 1..(n - 1 + 1) : SubSeq(more, 1, n)[k] = more[1 + k - 1]
    BY <2>1, SubSeqProperties
  <2> QED BY <1>5, <2>2
<1>7. first = list
  BY <1>1, <1>2, <1>6, SeqEqual
<1> QED BY <1>1, <1>4, <1>5, <1>7

LEMMA NoItems ==
  ASSUME NEW S, NEW list \in Seq(S), ToSet(list) = {}
  PROVE  list = <<>>
<1>1. PICK m \in Nat : m = Len(list) /\ DOMAIN list = 1..m
  BY LenProperties
<1>2. m = 0
  <2>1. \A k \in 1..m : list[k] \in ToSet(list)
    BY <1>1 DEF ToSet
  <2> QED BY <1>1, <2>1
<1> QED BY <1>1, <1>2, EmptySeq

(* Of a list with one more item.                                           *)
LEMMA WhereAppended ==
  ASSUME NEW S, NEW list \in Seq(S), NEW new \in S, NEW chosen
  PROVE  Where(Append(list, new), chosen) = Taken(Where(list, chosen), new, chosen)
<1>1. PICK n \in Nat : n = Len(list)
  BY LenProperties
<1>2. PICK more \in Seq(S) :
        /\ more = Append(list, new) /\ Len(more) = n + 1 /\ more[n + 1] = new
        /\ \A k \in 1..n : more[k] = list[k]
  <2>1. PICK more : more = Append(list, new)
    OBVIOUS
  <2>2. /\ more \in Seq(S) /\ Len(more) = n + 1 /\ more[n + 1] = new
        /\ \A k \in 1..n : more[k] = list[k]
    BY <1>1, <2>1, Appended
  <2> QED BY <2>1, <2>2
<1>3. PICK f \in [0..n -> Seq(S)] :
        /\ f[0] = <<>> /\ Where(list, chosen) = f[n]
        /\ \A k \in 1..n : f[k] = Taken(f[k - 1], list[k], chosen)
  <2>1. \E f \in [0..Len(list) -> Seq(S)] :
           /\ f[0] = <<>>
           /\ \A k \in 1..Len(list) : f[k] = Taken(f[k - 1], list[k], chosen)
           /\ Where(list, chosen) = f[Len(list)]
    BY WhereSteps, Zenon
  <2> QED BY <1>1, <2>1
<1>4. PICK g \in [0..(n + 1) -> Seq(S)] :
        /\ g[0] = <<>> /\ Where(more, chosen) = g[n + 1]
        /\ \A k \in 1..(n + 1) : g[k] = Taken(g[k - 1], more[k], chosen)
  <2>1. \E g \in [0..Len(more) -> Seq(S)] :
           /\ g[0] = <<>>
           /\ \A k \in 1..Len(more) : g[k] = Taken(g[k - 1], more[k], chosen)
           /\ Where(more, chosen) = g[Len(more)]
    BY WhereSteps, ZenonT(40)
  <2> QED BY <1>2, <2>1
<1> DEFINE T == {k \in 0..n : g[k] = f[k]}
<1>5. 0 \in T
  BY <1>3, <1>4
<1>6. ASSUME NEW k \in 0..n, k \in T, k < n PROVE k + 1 \in T
  <2>1. k + 1 \in 1..n /\ k + 1 \in 1..(n + 1) /\ k + 1 \in 0..n /\ (k + 1) - 1 = k
    BY <1>6
  <2>2. g[k] = f[k]
    BY <1>6
  <2>3. g[k + 1] = Taken(g[k], more[k + 1], chosen)
    BY <1>4, <2>1
  <2>4. f[k + 1] = Taken(f[k], list[k + 1], chosen)
    BY <1>3, <2>1
  <2>5. more[k + 1] = list[k + 1]
    BY <1>2, <2>1
  <2> QED BY <2>1, <2>2, <2>3, <2>4, <2>5
<1>7. \A k \in 0..n : k \in T
  <2> HIDE DEF T
  <2>1. \A k \in 0..n : k \in T /\ k < n => k + 1 \in T
    BY <1>6
  <2> QED BY <1>5, <2>1, StepByStep
<1>8. g[n] = f[n]
  <2>1. n \in 0..n
    OBVIOUS
  <2> QED BY <1>7, <2>1
<1>9. g[n + 1] = Taken(g[n], new, chosen)
  <2>1. n + 1 \in 1..(n + 1) /\ (n + 1) - 1 = n
    OBVIOUS
  <2> QED BY <1>2, <1>4, <2>1
<1> QED BY <1>2, <1>3, <1>4, <1>8, <1>9

-----------------------------------------------------------------------------
(* Sets and dicts.  The keys of the first items; and no key is there twice. *)
FirstKeys(items, k) == {items[n].key : n \in 1..k}

Once(items) == \A m, n \in 1..Len(items) : items[m].key = items[n].key => m = n

LEMMA NoKeys == KeysOf(<<>>) = {}
  BY DEF KeysOf, ToSet

LEMMA KeysAreFirstKeys ==
  ASSUME NEW S, NEW items \in Seq(S)
  PROVE  KeysOf(items) = FirstKeys(items, Len(items))
<1>1. DOMAIN items = 1..Len(items)
  BY LenProperties
<1> QED BY <1>1 DEF KeysOf, FirstKeys, ToSet

LEMMA OneMoreKey ==
  ASSUME NEW items, NEW k \in Nat
  PROVE  /\ FirstKeys(items, 0) = {}
         /\ FirstKeys(items, k + 1) = FirstKeys(items, k) \cup {items[k + 1].key}
<1>1. 1..0 = {} /\ 1..(k + 1) = 1..k \cup {k + 1}
  OBVIOUS
<1> QED BY <1>1 DEF FirstKeys

LEMMA AppendedKeys ==
  ASSUME NEW S, NEW s \in Seq(S), NEW e \in S
  PROVE  /\ Append(s, e) \in Seq(S)
         /\ KeysOf(Append(s, e)) = KeysOf(s) \cup {e.key}
         /\ Once(s) /\ e.key \notin KeysOf(s) => Once(Append(s, e))
<1>1. PICK t \in Seq(S) : t = Append(s, e)
  BY Appended
<1>2. /\ Len(s) \in Nat /\ Len(t) = Len(s) + 1 /\ \A n \in 1..Len(s) : t[n] = s[n]
      /\ t[Len(s) + 1] = e
  BY <1>1, Appended
<1>3. FirstKeys(t, Len(s)) = FirstKeys(s, Len(s))
  BY <1>2 DEF FirstKeys
<1>4. KeysOf(t) = KeysOf(s) \cup {e.key}
  <2>1. KeysOf(t) = FirstKeys(t, Len(t)) /\ KeysOf(s) = FirstKeys(s, Len(s))
    BY KeysAreFirstKeys
  <2>2. FirstKeys(t, Len(s) + 1) = FirstKeys(t, Len(s)) \cup {t[Len(s) + 1].key}
    BY <1>2, OneMoreKey
  <2> QED BY <1>2, <1>3, <2>1, <2>2
<1>5. ASSUME Once(s), e.key \notin KeysOf(s) PROVE Once(t)
  <2>1. \A n \in 1..Len(s) : t[n].key # e.key
    BY <1>2, <1>5, KeysAreFirstKeys DEF FirstKeys
  <2> QED BY <1>2, <1>5, <2>1 DEF Once
<1> QED BY <1>1, <1>4, <1>5

LEMMA AsManyAsKeys ==
  ASSUME NEW S, NEW items \in Seq(S), Once(items)
  PROVE  Len(items) = Cardinality(KeysOf(items))
<1>1. PICK n \in Nat : n = Len(items)
  BY LenProperties
<1>2. PICK f : f = [k \in 1..n |-> items[k].key]
  OBVIOUS
<1>3. f \in Bijection(1..n, KeysOf(items))
  <2>1. KeysOf(items) = {items[k].key : k \in 1..n}
    BY <1>1, KeysAreFirstKeys DEF FirstKeys
  <2>2. f \in Injection(1..n, KeysOf(items))
    BY <1>1, <1>2, <2>1 DEF Once, Injection, IsInjective
  <2>3. f \in Surjection(1..n, KeysOf(items))
    BY <1>2, <2>1 DEF Surjection
  <2> QED BY <2>2, <2>3 DEF Bijection
<1>4. IsFiniteSet(1..n) /\ Cardinality(1..n) = IF 1 > n THEN 0 ELSE n - 1 + 1
  BY FS_Interval
<1>5. Cardinality(1..n) = n
  BY <1>4
<1>6. Cardinality(1..n) = Cardinality(KeysOf(items))
  <2>1. ExistsBijection(1..n, KeysOf(items))
    BY <1>3, Zenon DEF ExistsBijection
  <2> QED BY <1>4, <2>1, FS_Bijection
<1> QED BY <1>1, <1>5, <1>6

(* What is added to a set, item by item.                                   *)
Added(known, item) == IF item.key \in KeysOf(known) THEN known ELSE Append(known, item)

LEMMA AddPairsSteps ==
  ASSUME NEW S, NEW items \in Seq(S), NEW known \in Seq(S)
  PROVE  \E f \in [0..Len(items) -> Seq(S)] :
           /\ f[0] = known
           /\ \A k \in 1..Len(items) : f[k] = Added(f[k - 1], items[k])
           /\ AddPairs(known, items) = f[Len(items)]
<1>0. PICK n \in Nat : n = Len(items)
  BY LenProperties
<1>1. PICK V : V = Seq(S)
  OBVIOUS
<1>2. DOMAIN items = 1..n /\ known \in V /\ \A k \in 1..n : items[k] \in S
  BY <1>0, <1>1
<1>3. PICK h : h = [v \in V |-> [k \in 1..n |-> Added(v, items[k])]]
  OBVIOUS
<1>4. h \in Changes(n, V)
  <2>1. \A v \in V, k \in 1..n : Added(v, items[k]) \in V
    BY <1>0, <1>1, <1>2 DEF Added
  <2> QED BY <1>3, <2>1 DEF Changes
<1> DEFINE IsFold(g) ==
      g = [s \in SUBSET DOMAIN items |->
             IF s = {} THEN known ELSE Added(g[Except(s)], items[Max(s)])]
<1>5. \E g : IsFold(g)
  <2>1. PICK g \in [SUBSET (1..n) -> V] : IsFoldOf(g, n, known, h)
    BY <1>2, <1>4, FoldExists, Zenon
  <2>2. ASSUME NEW s \in SUBSET (1..n), s # {}
        PROVE  h[g[Except(s)]][Max(s)] = Added(g[Except(s)], items[Max(s)])
    <3>1. Max(s) \in 1..n /\ Except(s) \in SUBSET (1..n)
      BY <2>2, LastPlace DEF Except
    <3> QED BY <1>3, <2>1, <3>1
  <2>3. IsFold(g)
    BY <1>2, <2>1, <2>2 DEF IsFoldOf
  <2> QED BY <2>3
<1>6. PICK iter : iter = (CHOOSE g : IsFold(g))
  OBVIOUS
<1>7. IsFold(iter)
  <2> HIDE DEF IsFold
  <2> QED BY <1>5, <1>6
<1>8. AddPairs(known, items) = iter[1..n]
  BY <1>2, <1>6, Zenon DEF AddPairs, Added, FoldLeft, MapThenFoldSet, Except
<1>9. iter[{}] = known
  BY <1>7
<1>10. FollowsFrom(iter, n, V, h)
  <2>1. ASSUME NEW s \in SUBSET (1..n), s # {}, iter[Except(s)] \in V
        PROVE  iter[s] = h[iter[Except(s)]][Max(s)]
    <3>1. Max(s) \in 1..n
      BY <2>1, LastPlace
    <3> QED BY <1>2, <1>3, <1>7, <2>1, <3>1
  <2> QED BY <2>1 DEF FollowsFrom
<1>11. PICK f \in [0..n -> V] : Steps(f, n, known, h) /\ iter[1..n] = f[n]
  <2> HIDE DEF IsFold
  <2> QED BY <1>2, <1>4, <1>9, <1>10, FoldSteps
<1>12. ASSUME NEW k \in 1..n PROVE f[k] = Added(f[k - 1], items[k])
  <2>1. f[k - 1] \in V
    BY <1>0, <1>11
  <2> QED BY <1>3, <1>11, <2>1 DEF Steps
<1> QED BY <1>0, <1>1, <1>8, <1>11, <1>12 DEF Steps

LEMMA AddPairsProperties ==
  ASSUME NEW S, NEW known \in Seq(S), NEW items \in Seq(S)
  PROVE  /\ AddPairs(known, items) \in Seq(S)
         /\ KeysOf(AddPairs(known, items)) = KeysOf(known) \cup KeysOf(items)
         /\ Once(known) => Once(AddPairs(known, items))
<1>1. PICK f \in [0..Len(items) -> Seq(S)] :
        /\ f[0] = known
        /\ \A k \in 1..Len(items) : f[k] = Added(f[k - 1], items[k])
        /\ AddPairs(known, items) = f[Len(items)]
  BY AddPairsSteps
<1>2. Len(items) \in Nat /\ \A k \in 1..Len(items) : items[k] \in S
  BY LenProperties
<1> DEFINE P(k) == /\ KeysOf(f[k]) = KeysOf(known) \cup FirstKeys(items, k)
                   /\ Once(known) => Once(f[k])
           T == {k \in 0..Len(items) : P(k)}
<1>3. P(0)
  BY <1>1, OneMoreKey
<1>4. ASSUME NEW k \in 0..Len(items), P(k), k < Len(items) PROVE P(k + 1)
  <2>1. k + 1 \in 1..Len(items) /\ (k + 1) - 1 = k /\ k \in Nat
    BY <1>4
  <2>2. f[k + 1] = Added(f[k], items[k + 1]) /\ f[k] \in Seq(S) /\ items[k + 1] \in S
    BY <1>1, <1>2, <2>1
  <2>3. FirstKeys(items, k + 1) = FirstKeys(items, k) \cup {items[k + 1].key}
    BY <2>1, OneMoreKey
  <2>4. CASE items[k + 1].key \in KeysOf(f[k])
    BY <1>4, <2>2, <2>3, <2>4 DEF Added
  <2>5. CASE items[k + 1].key \notin KeysOf(f[k])
    <3>1. f[k + 1] = Append(f[k], items[k + 1])
      BY <2>2, <2>5 DEF Added
    <3>2. KeysOf(f[k + 1]) = KeysOf(f[k]) \cup {items[k + 1].key}
      BY <2>2, <3>1, AppendedKeys
    <3>3. Once(known) => Once(f[k + 1])
      BY <1>4, <2>2, <2>5, <3>1, AppendedKeys
    <3> QED BY <1>4, <2>3, <3>2, <3>3
  <2> QED BY <2>4, <2>5
<1>5. P(Len(items))
  <2> HIDE DEF P
  <2>1. 0 \in T /\ \A k \in 0..Len(items) : k \in T /\ k < Len(items) => k + 1 \in T
    BY <1>2, <1>3, <1>4
  <2>2. \A k \in 0..Len(items) : k \in T
    <3> HIDE DEF T
    <3> QED BY <1>2, <2>1, StepByStep
  <2>3. Len(items) \in 0..Len(items)
    BY <1>2
  <2> QED BY <2>2, <2>3
<1> QED BY <1>1, <1>2, <1>5, KeysAreFirstKeys

(* Of the entries with a key the last one counts.                          *)
LEMMA LastEntryCounts ==
  ASSUME NEW S, NEW entries \in Seq(S)
  PROVE  /\ \A k \in 1..Len(entries) : entries[k].item.key \in DOMAIN DictOf(entries)
         /\ \A key \in DOMAIN DictOf(entries) :
              \E k \in 1..Len(entries) :
                /\ entries[k].item.key = key /\ DictOf(entries)[key] = entries[k].data
                /\ \A m \in 1..Len(entries) : entries[m].item.key = key => m <= k
<1>1. PICK n \in Nat : n = Len(entries)
  BY LenProperties
<1>2. DOMAIN entries = 1..n
  BY <1>1, LenProperties
<1>3. PICK dict : dict = DictOf(entries)
  OBVIOUS
<1>4. PICK keys : keys = {entry.item.key : entry \in ToSet(entries)}
  OBVIOUS
<1>5. \A key : key \in keys <=> \E k \in 1..n : entries[k].item.key = key
  BY <1>2, <1>4 DEF ToSet
<1>6. dict = [key \in keys |-> entries[Max(EntriesOf(entries, key))].data]
  BY <1>3, <1>4 DEF DictOf
<1>7. ASSUME NEW key \in keys
      PROVE  \E k \in 1..n : /\ entries[k].item.key = key /\ dict[key] = entries[k].data
                             /\ \A m \in 1..n : entries[m].item.key = key => m <= k
  <2>1. PICK places : places = EntriesOf(entries, key)
    OBVIOUS
  <2>2. \A k : k \in places <=> k \in 1..n /\ entries[k].item.key = key
    BY <1>2, <2>1 DEF EntriesOf
  <2>3. places \subseteq 1..n /\ places # {}
    BY <1>5, <2>2
  <2>4. Max(places) \in places /\ \A m \in places : m <= Max(places)
    BY <2>3, LastPlace
  <2>5. dict[key] = entries[Max(places)].data
    BY <1>6, <2>1
  <2> QED BY <2>2, <2>4, <2>5
<1>8. \A k \in 1..n : entries[k].item.key \in keys
  BY <1>5
<1>9. DOMAIN dict = keys
  BY <1>6
<1> QED BY <1>1, <1>3, <1>7, <1>8, <1>9
=============================================================================
