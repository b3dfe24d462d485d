---------------------------- MODULE MessagesProofs ----------------------------
(***************************************************************************)
(* Theorems about what messages are made of: InsensitiveSets, for any sets *)
(* and items, RecipientCSV, for any spreadsheets and templates, and        *)
(* Fragments, for any length.                                              *)
(***************************************************************************)
EXTENDS InsensitiveSets, RecipientCSV, Fragments, InsensitiveProofs

-----------------------------------------------------------------------------
(* The folds of insensitive sets.                                          *)

(* A set's item kept if it has one of the keys.                            *)
Chosen(known, item, keys) == IF item.key \in keys THEN Append(known, item) ELSE known

(* A set's items with one of the keys, item by item.                       *)
LEMMA OfKeysSteps ==
  ASSUME NEW S, NEW items \in Seq(S), NEW keys
  PROVE  \E f \in [0..Len(items) -> Seq(S)] :
           /\ f[0] = <<>>
           /\ \A k \in 1..Len(items) : f[k] = Chosen(f[k - 1], items[k], keys)
           /\ OfKeys(items, keys) = f[Len(items)]
<1>0. PICK n \in Nat : n = Len(items)
  BY LenProperties
<1>1. PICK V : V = Seq(S)
  OBVIOUS
<1>2. DOMAIN items = 1..n /\ <<>> \in V /\ \A k \in 1..n : items[k] \in S
  BY <1>0, <1>1
<1>3. PICK h : h = [v \in V |-> [k \in 1..n |-> Chosen(v, items[k], keys)]]
  OBVIOUS
<1>4. h \in Changes(n, V)
  <2>1. \A v \in V, k \in 1..n : Chosen(v, items[k], keys) \in V
    BY <1>0, <1>1, <1>2 DEF Chosen
  <2> QED BY <1>3, <2>1 DEF Changes
<1> DEFINE IsFold(g) ==
      g = [s \in SUBSET DOMAIN items |->
             IF s = {} THEN <<>> ELSE Chosen(g[Except(s)], items[Max(s)], keys)]
<1>5. \E g : IsFold(g)
  <2>1. PICK g \in [SUBSET (1..n) -> V] : IsFoldOf(g, n, <<>>, h)
    BY <1>2, <1>4, FoldExists, Zenon
  <2>2. ASSUME NEW s \in SUBSET (1..n), s # {}
        PROVE  h[g[Except(s)]][Max(s)] = Chosen(g[Except(s)], items[Max(s)], keys)
    <3>1. Max(s) \in 1..n /\ Except(s) \in SUBSET (1..n)
      BY <2>2, LastPlace DEF Except
    <3> QED BY <1>3, <2>1, <3>1
  <2>3. IsFold(g)
    BY <1>2, <2>1, <2>2 DEF IsFoldOf
  <2> QED BY <2>3
<1>6. PICK iter : iter = (CHOOSE g : IsFold(g))
  OBVIOUS
<1>7. IsFold(iter)
  <2> HIDE DEF IsFold
  <2> QED BY <1>5, <1>6
<1>8. OfKeys(items, keys) = iter[1..n]
  BY <1>2, <1>6, Zenon DEF OfKeys, Chosen, FoldLeft, MapThenFoldSet, Except
<1>9. iter[{}] = <<>>
  BY <1>7
<1>10. FollowsFrom(iter, n, V, h)
  <2>1. ASSUME NEW s \in SUBSET (1..n), s # {}, iter[Except(s)] \in V
        PROVE  iter[s] = h[iter[Except(s)]][Max(s)]
    <3>1. Max(s) \in 1..n
      BY <2>1, LastPlace
    <3> QED BY <1>2, <1>3, <1>7, <2>1, <3>1
  <2> QED BY <2>1 DEF FollowsFrom
<1>11. PICK f \in [0..n -> V] : Steps(f, n, <<>>, h) /\ iter[1..n] = f[n]
  <2> HIDE DEF IsFold
  <2> QED BY <1>2, <1>4, <1>9, <1>10, FoldSteps
<1>12. ASSUME NEW k \in 1..n PROVE f[k] = Chosen(f[k - 1], items[k], keys)
  <2>1. f[k - 1] \in V
    BY <1>0, <1>11
  <2> QED BY <1>3, <1>11, <2>1 DEF Steps
<1> QED BY <1>0, <1>1, <1>8, <1>11, <1>12 DEF Steps

LEMMA OfKeysProperties ==
  ASSUME NEW S, NEW items \in Seq(S), NEW keys
  PROVE  /\ OfKeys(items, keys) \in Seq(S)
         /\ KeysOf(OfKeys(items, keys)) = KeysOf(items) \cap keys
         /\ Once(items) => Once(OfKeys(items, keys))
<1>1. PICK f \in [0..Len(items) -> Seq(S)] :
        /\ f[0] = <<>>
        /\ \A k \in 1..Len(items) : f[k] = Chosen(f[k - 1], items[k], keys)
        /\ OfKeys(items, keys) = f[Len(items)]
  BY OfKeysSteps
<1>2. Len(items) \in Nat /\ \A k \in 1..Len(items) : items[k] \in S
  BY LenProperties
<1> DEFINE P(k) == /\ KeysOf(f[k]) = FirstKeys(items, k) \cap keys
                   /\ Once(items) => Once(f[k])
           T == {k \in 0..Len(items) : P(k)}
<1>3. P(0)
  BY <1>1, OneMoreKey DEF KeysOf, ToSet, Once
<1>4. ASSUME NEW k \in 0..Len(items), P(k), k < Len(items) PROVE P(k + 1)
  <2>1. k + 1 \in 1..Len(items) /\ (k + 1) - 1 = k /\ k \in Nat
    BY <1>4
  <2>2. f[k + 1] = Chosen(f[k], items[k + 1], keys) /\ f[k] \in Seq(S) /\ items[k + 1] \in S
    BY <1>1, <1>2, <2>1
  <2>3. FirstKeys(items, k + 1) = FirstKeys(items, k) \cup {items[k + 1].key}
    BY <2>1, OneMoreKey
  <2>4. ASSUME Once(items) PROVE items[k + 1].key \notin FirstKeys(items, k)
    BY <2>1, <2>4 DEF Once, FirstKeys
  <2>5. CASE items[k + 1].key \in keys
    <3>1. f[k + 1] = Append(f[k], items[k + 1])
      BY <2>2, <2>5 DEF Chosen
    <3>2. KeysOf(f[k + 1]) = KeysOf(f[k]) \cup {items[k + 1].key}
      BY <2>2, <3>1, AppendedKeys
    <3>3. Once(items) => Once(f[k + 1])
      BY <1>4, <2>2, <2>4, <3>1, AppendedKeys
    <3> QED BY <1>4, <2>3, <2>5, <3>2, <3>3
  <2>6. CASE items[k + 1].key \notin keys
    BY <1>4, <2>2, <2>3, <2>6 DEF Chosen
  <2> QED BY <2>5, <2>6
<1>5. P(Len(items))
  <2> HIDE DEF P
  <2>1. 0 \in T /\ \A k \in 0..Len(items) : k \in T /\ k < Len(items) => k + 1 \in T
    BY <1>2, <1>3, <1>4
  <2>2. \A k \in 0..Len(items) : k \in T
    <3> HIDE DEF T
    <3> QED BY <1>2, <2>1, StepByStep
  <2>3. Len(items) \in 0..Len(items)
    BY <1>2
  <2> QED BY <2>2, <2>3
<1> QED BY <1>1, <1>2, <1>5, KeysAreFirstKeys

(* Only those of the keys count that some item has.                        *)
LEMMA OfSameKeys ==
  ASSUME NEW S, NEW items \in Seq(S), NEW keys, NEW others,
         KeysOf(items) \cap keys = KeysOf(items) \cap others
  PROVE  OfKeys(items, keys) = OfKeys(items, others)
<1>1. PICK f \in [0..Len(items) -> Seq(S)] :
        /\ f[0] = <<>>
        /\ \A k \in 1..Len(items) : f[k] = Chosen(f[k - 1], items[k], keys)
        /\ OfKeys(items, keys) = f[Len(items)]
  BY OfKeysSteps
<1>2. PICK g \in [0..Len(items) -> Seq(S)] :
        /\ g[0] = <<>>
        /\ \A k \in 1..Len(items) : g[k] = Chosen(g[k - 1], items[k], others)
        /\ OfKeys(items, others) = g[Len(items)]
  BY OfKeysSteps
<1>3. Len(items) \in Nat /\ \A k \in 1..Len(items) : items[k].key \in KeysOf(items)
  BY LenProperties, KeysAreFirstKeys DEF FirstKeys
<1> DEFINE T == {k \in 0..Len(items) : f[k] = g[k]}
<1>4. 0 \in T
  BY <1>1, <1>2, <1>3
<1>5. ASSUME NEW k \in 0..Len(items), f[k] = g[k], k < Len(items) PROVE f[k + 1] = g[k + 1]
  <2>1. k + 1 \in 1..Len(items) /\ (k + 1) - 1 = k
    BY <1>3, <1>5
  <2>2. items[k + 1].key \in keys <=> items[k + 1].key \in others
    BY <1>3, <2>1
  <2> QED BY <1>1, <1>2, <1>5, <2>1, <2>2 DEF Chosen
<1>6. \A k \in 0..Len(items) : k \in T
  <2>1. \A k \in 0..Len(items) : k \in T /\ k < Len(items) => k + 1 \in T
    BY <1>3, <1>5
  <2> HIDE DEF T
  <2> QED BY <1>3, <1>4, <2>1, StepByStep
<1> QED BY <1>1, <1>2, <1>3, <1>6

LEMMA OfNoKeys ==
  ASSUME NEW S, NEW items \in Seq(S), NEW keys, KeysOf(items) \cap keys = {}
  PROVE  OfKeys(items, keys) = <<>>
<1>1. PICK chosen \in Seq(S) : chosen = OfKeys(items, keys)
  BY OfKeysProperties
<1>2. FirstKeys(chosen, Len(chosen)) = {}
  BY <1>1, OfKeysProperties, KeysAreFirstKeys
<1>3. Len(chosen) \in Nat /\ \A m \in 1..Len(chosen) : FALSE
  <2>1. \A m \in 1..Len(chosen) : chosen[m].key \in FirstKeys(chosen, Len(chosen))
    BY DEF FirstKeys
  <2> QED BY <1>2, <2>1, LenProperties
<1>4. Len(chosen) = 0
  <2> SUFFICES ASSUME Len(chosen) # 0 PROVE FALSE
    OBVIOUS
  <2>1. 1 \in 1..Len(chosen)
    BY <1>3
  <2> QED BY <1>3, <2>1
<1>5. chosen = <<>>
  BY <1>4, EmptySeq
<1> QED BY <1>1, <1>5

(* Items of other keys are all added, as they are.                         *)
LEMMA OthersAreAppended ==
  ASSUME NEW S, NEW known \in Seq(S), NEW items \in Seq(S), Once(items),
         KeysOf(known) \cap KeysOf(items) = {}
  PROVE  AddPairs(known, items) = known \o items
<1>1. PICK f \in [0..Len(items) -> Seq(S)] :
        /\ f[0] = known
        /\ \A k \in 1..Len(items) : f[k] = Added(f[k - 1], items[k])
        /\ AddPairs(known, items) = f[Len(items)]
  BY AddPairsSteps
<1>2. /\ Len(items) \in Nat /\ Len(known) \in Nat
      /\ \A k \in 1..Len(items) : items[k] \in S /\ items[k].key \in KeysOf(items)
  BY LenProperties, KeysAreFirstKeys DEF FirstKeys
<1> DEFINE P(k) == /\ KeysOf(f[k]) = KeysOf(known) \cup FirstKeys(items, k)
                   /\ Len(f[k]) = Len(known) + k
                   /\ \A n \in 1..Len(known) : f[k][n] = known[n]
                   /\ \A n \in 1..k : f[k][Len(known) + n] = items[n]
           T == {k \in 0..Len(items) : P(k)}
<1>3. P(0)
  BY <1>1, <1>2, OneMoreKey
<1>4. ASSUME NEW k \in 0..Len(items), P(k), k < Len(items) PROVE P(k + 1)
  <2>1. k + 1 \in 1..Len(items) /\ (k + 1) - 1 = k /\ k \in Nat
    BY <1>4
  <2>2. f[k + 1] = Added(f[k], items[k + 1]) /\ f[k] \in Seq(S) /\ items[k + 1] \in S
    BY <1>1, <1>2, <2>1
  <2>3. FirstKeys(items, k + 1) = FirstKeys(items, k) \cup {items[k + 1].key}
    BY <2>1, OneMoreKey
  <2>4. items[k + 1].key \notin KeysOf(known)
    BY <1>2, <2>1
  <2>5. items[k + 1].key \notin FirstKeys(items, k)
    <3>1. ASSUME NEW n \in 1..k PROVE items[k + 1].key # items[n].key
      <4>1. n \in 1..Len(items) /\ n # k + 1
        BY <1>2, <2>1
      <4> QED BY <2>1, <4>1, Zenon DEF Once
    <3> QED BY <3>1, Zenon DEF FirstKeys
  <2>6. f[k + 1] = Append(f[k], items[k + 1])
    BY <1>4, <2>2, <2>4, <2>5 DEF Added
  <2>7. KeysOf(f[k + 1]) = KeysOf(f[k]) \cup {items[k + 1].key}
    BY <2>2, <2>6, AppendedKeys
  <2>8. /\ Len(f[k + 1]) = Len(f[k]) + 1 /\ f[k + 1][Len(f[k]) + 1] = items[k + 1]
        /\ \A n \in 1..Len(f[k]) : f[k + 1][n] = f[k][n]
    BY <2>2, <2>6, Appended
  <2>9. \A n \in 1..Len(known) : f[k + 1][n] = known[n]
    BY <1>2, <1>4, <2>1, <2>8
  <2>10. ASSUME NEW n \in 1..(k + 1) PROVE f[k + 1][Len(known) + n] = items[n]
    <3>1. CASE n = k + 1
      BY <1>2, <1>4, <2>1, <2>8, <3>1
    <3>2. CASE n # k + 1
      <4>1. n \in 1..k /\ Len(known) + n \in 1..Len(f[k])
        BY <1>2, <1>4, <2>1, <3>2
      <4> QED BY <1>4, <2>8, <4>1
    <3> QED BY <3>1, <3>2
  <2> QED BY <1>2, <1>4, <2>1, <2>3, <2>7, <2>8, <2>9, <2>10
<1>5. P(Len(items))
  <2> HIDE DEF P
  <2>1. 0 \in T /\ \A k \in 0..Len(items) : k \in T /\ k < Len(items) => k + 1 \in T
    BY <1>2, <1>3, <1>4
  <2>2. \A k \in 0..Len(items) : k \in T
    <3> HIDE DEF T
    <3> QED BY <1>2, <2>1, StepByStep
  <2>3. Len(items) \in 0..Len(items)
    BY <1>2
  <2> QED BY <2>2, <2>3
<1>6. PICK all \in Seq(S) : all = f[Len(items)]
  BY <1>1, <1>2
<1>7. PICK both \in Seq(S) : both = known \o items
  BY ConcatProperties
<1>8. Len(both) = Len(known) + Len(items)
  BY <1>7, ConcatProperties
<1>9. ASSUME NEW n \in 1..Len(both) PROVE all[n] = both[n]
  <2>1. both[n] = IF n <= Len(known) THEN known[n] ELSE items[n - Len(known)]
    BY <1>7, <1>8, ConcatProperties
  <2>2. CASE n <= Len(known)
    BY <1>2, <1>5, <1>6, <2>1, <2>2
  <2>3. CASE ~(n <= Len(known))
    <3>1. PICK m : m = n - Len(known)
      OBVIOUS
    <3>2. m \in 1..Len(items) /\ n = Len(known) + m
      BY <1>2, <1>8, <2>3, <3>1
    <3> QED BY <1>5, <1>6, <2>1, <2>3, <3>1, <3>2
  <2> QED BY <2>2, <2>3
<1>10. Len(all) = Len(both)
  BY <1>5, <1>6, <1>8
<1>11. all = both
  BY <1>9, <1>10, SeqEqual
<1> QED BY <1>1, <1>6, <1>7, <1>11

-----------------------------------------------------------------------------
(* InsensitiveSets: all sets are without repetitions, whatever is done to  *)
(* them, and that is all that the operators need to agree.                 *)

AllItems == Items \cup UNION {ToSet(items) : items \in Given}
OrderedSets == {items \in Seq(AllItems) : Once(items)}
SetsInv == inner \in [Sets -> OrderedSets]

LEMMA ChosenOf ==
  ASSUME NEW items \in OrderedSets, NEW keys
  PROVE  /\ OfKeys(items, keys) \in OrderedSets
         /\ KeysOf(OfKeys(items, keys)) = KeysOf(items) \cap keys
         /\ KeysOf(items) \cap keys = {} => OfKeys(items, keys) = <<>>
         /\ \A others : KeysOf(items) \cap keys = KeysOf(items) \cap others
              => OfKeys(items, keys) = OfKeys(items, others)
<1>1. items \in Seq(AllItems) /\ Once(items)
  BY DEF OrderedSets
<1>2. /\ OfKeys(items, keys) \in Seq(AllItems) /\ Once(OfKeys(items, keys))
      /\ KeysOf(OfKeys(items, keys)) = KeysOf(items) \cap keys
  BY <1>1, OfKeysProperties
<1>3. KeysOf(items) \cap keys = {} => OfKeys(items, keys) = <<>>
  BY <1>1, OfNoKeys
<1>4. \A others : KeysOf(items) \cap keys = KeysOf(items) \cap others
        => OfKeys(items, keys) = OfKeys(items, others)
  BY <1>1, OfSameKeys
<1> QED BY <1>2, <1>3, <1>4 DEF OrderedSets

LEMMA AddedTo ==
  ASSUME NEW items \in OrderedSets, NEW others \in Seq(AllItems)
  PROVE  /\ AddPairs(items, others) \in OrderedSets
         /\ KeysOf(AddPairs(items, others)) = KeysOf(items) \cup KeysOf(others)
  BY AddPairsProperties DEF OrderedSets

LEMMA AndSub ==
  ASSUME NEW items \in OrderedSets, NEW others \in OrderedSets
  PROVE  /\ And(items, others) \in OrderedSets
         /\ KeysOf(And(items, others)) = KeysOf(items) \cap KeysOf(others)
         /\ Sub(items, others) \in OrderedSets
         /\ KeysOf(Sub(items, others)) = KeysOf(items) \ KeysOf(others)
         /\ \A more : KeysOf(items) \cap KeysOf(others) = KeysOf(items) \cap KeysOf(more)
              => Sub(items, others) = Sub(items, more)
<1>1. /\ And(items, others) \in OrderedSets
      /\ KeysOf(And(items, others)) = KeysOf(items) \cap KeysOf(others)
  BY ChosenOf DEF And
<1>2. /\ Sub(items, others) \in OrderedSets
      /\ KeysOf(Sub(items, others)) = KeysOf(items) \ KeysOf(others)
  <2>1. KeysOf(items) \cap (KeysOf(items) \ KeysOf(others)) = KeysOf(items) \ KeysOf(others)
    OBVIOUS
  <2> QED BY <2>1, ChosenOf DEF Sub
<1>3. ASSUME NEW more, KeysOf(items) \cap KeysOf(others) = KeysOf(items) \cap KeysOf(more)
      PROVE  Sub(items, others) = Sub(items, more)
  <2>1. KeysOf(items) \ KeysOf(others) = KeysOf(items) \ KeysOf(more)
    BY <1>3
  <2> QED BY <2>1 DEF Sub
<1> QED BY <1>1, <1>2, <1>3

(* What is in one of two sets only: one after the other, as if added.      *)
LEMMA XorIsAdded ==
  ASSUME NEW items \in OrderedSets, NEW others \in OrderedSets
  PROVE  /\ Xor(items, others) = AddPairs(Sub(items, others), Sub(others, items))
         /\ Xor(items, others) \in OrderedSets
         /\ KeysOf(Xor(items, others))
              = (KeysOf(items) \cup KeysOf(others)) \ (KeysOf(items) \cap KeysOf(others))
<1>1. PICK left \in OrderedSets : left = Sub(items, others)
  BY AndSub
<1>2. PICK right \in OrderedSets : right = Sub(others, items)
  BY AndSub
<1>3. /\ KeysOf(left) = KeysOf(items) \ KeysOf(others)
      /\ KeysOf(right) = KeysOf(others) \ KeysOf(items)
  BY <1>1, <1>2, AndSub
<1>4. left \in Seq(AllItems) /\ right \in Seq(AllItems) /\ Once(right)
  BY DEF OrderedSets
<1>5. AddPairs(left, right) = left \o right
  <2>1. KeysOf(left) \cap KeysOf(right) = {}
    BY <1>3
  <2> QED BY <1>4, <2>1, OthersAreAppended
<1>6. Xor(items, others) = AddPairs(left, right)
  BY <1>1, <1>2, <1>5 DEF Xor
<1>7. /\ AddPairs(left, right) \in OrderedSets
      /\ KeysOf(AddPairs(left, right)) = KeysOf(left) \cup KeysOf(right)
  BY <1>4, AddedTo
<1> QED BY <1>1, <1>2, <1>3, <1>6, <1>7

LEMMA NothingIsASet == <<>> \in OrderedSets /\ KeysOf(<<>>) = {}
  BY EmptySeq DEF OrderedSets, Once, KeysOf, ToSet

LEMMA NewIsASet ==
  ASSUME NEW op \in Ops, NEW items \in OrderedSets, NEW others \in OrderedSets
  PROVE  /\ New(op, items, others) \in OrderedSets
         /\ KeysOf(New(op, items, others)) = Algebra(op, KeysOf(items), KeysOf(others))
<1>1. CASE op = "and"
  BY <1>1, AndSub DEF New, Algebra
<1>2. CASE op = "sub"
  BY <1>2, AndSub DEF New, Algebra
<1>3. CASE op = "or"
  <2>1. others \in Seq(AllItems)
    BY DEF OrderedSets
  <2> QED BY <1>3, <2>1, AddedTo DEF New, Algebra, Or
<1>4. CASE op = "xor"
  BY <1>4, XorIsAdded DEF New, Algebra
<1> QED BY <1>1, <1>2, <1>3, <1>4 DEF Ops

LEMMA OperandIsASet ==
  ASSUME SetsInv, NEW o \in Operands
  PROVE  Operand(o) \in OrderedSets
<1>1. CASE o \in Sets
  BY <1>1 DEF SetsInv, Operand
<1>2. CASE o \notin Sets
  <2>1. o \in Given /\ o \in Seq(ToSet(o))
    BY <1>2, SetsAssumption DEF Operands
  <2>2. ToSet(o) \subseteq AllItems
    BY <2>1 DEF AllItems
  <2>3. o \in Seq(AllItems)
    <3> HIDE DEF AllItems
    <3> QED BY <2>1, <2>2
  <2> QED BY <1>2, <2>3, AddedTo, NothingIsASet DEF Operand, FromIterable
<1> QED BY <1>1, <1>2

(* Without its last item, which pop takes, or its first.                   *)
LEMMA FrontAndTailAreSets ==
  ASSUME NEW items \in OrderedSets, items # <<>>
  PROVE  Front(items) \in OrderedSets /\ Tail(items) \in OrderedSets
<1>1. PICK n \in Nat : n = Len(items) /\ n # 0
  BY EmptySeq, LenProperties DEF OrderedSets
<1>2. items \in Seq(AllItems) /\ Once(items) /\ \A k \in 1..n : items[k] \in AllItems
  BY <1>1, LenProperties DEF OrderedSets
<1>3. Front(items) \in OrderedSets
  <2>1. PICK first : first = Front(items)
    OBVIOUS
  <2>2. /\ first \in Seq(AllItems) /\ Len(first) = n - 1
        /\ \A k \in 1..n - 1 : first[k] = items[k]
    <3>1. \A k \in 1..n - 1 : items[k] \in AllItems
      BY <1>1, <1>2
    <3>2. /\ SubSeq(items, 1, n - 1) \in Seq(AllItems)
          /\ Len(SubSeq(items, 1, n - 1)) = IF 1 <= n - 1 THEN n - 1 - 1 + 1 ELSE 0
          /\ \A k \in 1..n - 1 - 1 + 1 : SubSeq(items, 1, n - 1)[k] = items[1 + k - 1]
      BY <1>1, <3>1, SubSeqProperties
    <3>3. first = SubSeq(items, 1, n - 1)
      BY <1>1, <2>1 DEF Front
    <3> QED BY <1>1, <3>2, <3>3
  <2>3. Once(first)
    BY <1>1, <1>2, <2>2 DEF Once
  <2> QED BY <2>1, <2>2, <2>3 DEF OrderedSets
<1>4. Tail(items) \in OrderedSets
  <2>1. PICK rest : rest = Tail(items)
    OBVIOUS
  <2>2. /\ rest \in Seq(AllItems) /\ Len(rest) = n - 1
        /\ \A k \in 1..n - 1 : rest[k] = items[k + 1]
    BY <1>1, <1>2, <2>1, HeadTailProperties
  <2>3. Once(rest)
    <3> SUFFICES ASSUME NEW m \in 1..n - 1, NEW k \in 1..n - 1, rest[m].key = rest[k].key
                 PROVE  m = k
      BY <2>2 DEF Once
    <3>1. m + 1 \in 1..n /\ k + 1 \in 1..n /\ items[m + 1].key = items[k + 1].key
      BY <1>1, <2>2
    <3>2. m + 1 = k + 1
      BY <1>1, <1>2, <3>1 DEF Once
    <3> QED BY <3>2
  <2> QED BY <2>1, <2>2, <2>3 DEF OrderedSets
<1> QED BY <1>3, <1>4

(* What is in both is taken out of one and then of the other: it is what   *)
(* one has and the other has not that is left, in either.                  *)
LEMMA WithoutWhatIsInBoth ==
  ASSUME NEW items \in OrderedSets, NEW others \in OrderedSets
  PROVE  /\ Sub(items, And(items, others)) = Sub(items, others)
         /\ Sub(others, And(items, others)) = Sub(others, items)
<1>1. PICK both \in OrderedSets :
        both = And(items, others) /\ KeysOf(both) = KeysOf(items) \cap KeysOf(others)
  BY AndSub
<1>2. Sub(items, both) = Sub(items, others)
  <2>1. KeysOf(items) \cap KeysOf(both) = KeysOf(items) \cap KeysOf(others)
    BY <1>1
  <2> QED BY <2>1, AndSub
<1>3. Sub(others, both) = Sub(others, items)
  <2>1. KeysOf(others) \cap KeysOf(both) = KeysOf(others) \cap KeysOf(items)
    BY <1>1
  <2> QED BY <2>1, AndSub
<1> QED BY <1>1, <1>2, <1>3

(* What is in one of two sets only, worked out in place: of a set and      *)
(* itself, nothing; else as the operator that makes a new set has it, and  *)
(* the operand is left without what is in both.                            *)
LEMMA XorInPlace ==
  ASSUME SetsInv, NEW s \in Sets, NEW o \in Operands
  PROVE  /\ ixor(s, o) \in [Sets -> OrderedSets]
         /\ ixor(s, o)[s] = Xor(inner[s], Operand(o))
         /\ \A t \in Sets \ {s} :
              ixor(s, o)[t] = IF t = o THEN Sub(inner[t], inner[s]) ELSE inner[t]
<1>1. PICK items \in OrderedSets : items = inner[s]
  BY DEF SetsInv
<1>2. PICK others \in OrderedSets : others = Operand(o)
  BY OperandIsASet
<1>3. PICK both \in OrderedSets : both = And(items, others)
  BY AndSub
<1>4. /\ Sub(items, both) = Sub(items, others) /\ Sub(others, both) = Sub(others, items)
      /\ Sub(items, others) \in OrderedSets /\ Sub(others, items) \in OrderedSets
  BY <1>3, WithoutWhatIsInBoth, AndSub
<1>5. PICK subtracted : subtracted = [inner EXCEPT ![s] = Sub(@, both)]
  OBVIOUS
<1>6. /\ subtracted \in [Sets -> OrderedSets] /\ subtracted[s] = Sub(items, others)
      /\ \A n \in Sets : n # s => subtracted[n] = inner[n]
  BY <1>1, <1>4, <1>5 DEF SetsInv
<1>7. PICK left : left = Rest(IF o \in Sets THEN subtracted[o] ELSE Operand(o), both)
  OBVIOUS
<1>8. PICK rest : rest = [n \in Sets |-> IF n = o THEN left ELSE subtracted[n]]
  OBVIOUS
<1>9. ixor(s, o) = [rest EXCEPT ![s] = AddPairs(@, left)]
  BY <1>1, <1>2, <1>3, <1>5, <1>7, <1>8 DEF ixor
<1>10. CASE o = s
  <2>1. others = items
    BY <1>1, <1>2, <1>10 DEF Operand
  <2>2. Sub(items, items) = <<>>
    <3>1. KeysOf(items) \ KeysOf(items) = {}
      OBVIOUS
    <3> QED BY <3>1, ChosenOf DEF Sub
  <2>3. left = <<>>
    <3>1. left = Sub(<<>>, both)
      BY <1>6, <1>7, <1>10, <2>1, <2>2 DEF Rest
    <3>2. KeysOf(<<>>) \cap (KeysOf(<<>>) \ KeysOf(both)) = {}
      BY NothingIsASet
    <3> QED BY <3>1, <3>2, ChosenOf, NothingIsASet DEF Sub
  <2>4. rest \in [Sets -> OrderedSets] /\ rest[s] = <<>>
    BY <1>6, <1>8, <1>10, <2>3, NothingIsASet
  <2>5. /\ AddPairs(<<>>, <<>>) = Xor(items, items)
        /\ Xor(items, items) \in OrderedSets
    BY <2>2, XorIsAdded
  <2>6. ASSUME NEW t \in Sets \ {s} PROVE ixor(s, o)[t] = inner[t] /\ t # o
    BY <1>6, <1>8, <1>9, <1>10
  <2>7. ixor(s, o) \in [Sets -> OrderedSets] /\ ixor(s, o)[s] = Xor(inner[s], Operand(o))
    BY <1>1, <1>2, <1>9, <2>1, <2>3, <2>4, <2>5
  <2> QED BY <2>6, <2>7
<1>11. CASE o # s
  <2>1. left = Sub(others, items)
    <3>1. CASE o \in Sets
      BY <1>2, <1>4, <1>6, <1>7, <1>11, <3>1 DEF Rest, Operand
    <3>2. CASE o \notin Sets
      BY <1>2, <1>4, <1>7, <3>2 DEF Rest
    <3> QED BY <3>1, <3>2
  <2>2. rest \in [Sets -> OrderedSets] /\ rest[s] = Sub(items, others)
    BY <1>4, <1>6, <1>8, <1>11, <2>1
  <2>3. /\ AddPairs(Sub(items, others), left) = Xor(items, others)
        /\ Xor(items, others) \in OrderedSets
    BY <2>1, XorIsAdded
  <2>4. ixor(s, o) \in [Sets -> OrderedSets] /\ ixor(s, o)[s] = Xor(inner[s], Operand(o))
    BY <1>1, <1>2, <1>9, <2>2, <2>3
  <2>5. ASSUME NEW t \in Sets \ {s}
        PROVE  ixor(s, o)[t] = IF t = o THEN Sub(inner[t], inner[s]) ELSE inner[t]
    <3>1. ixor(s, o)[t] = IF t = o THEN left ELSE inner[t]
      BY <1>6, <1>8, <1>9
    <3>2. t = o => others = inner[t]
      BY <1>2 DEF Operand
    <3> QED BY <1>1, <2>1, <3>1, <3>2
  <2> QED BY <2>4, <2>5
<1> QED BY <1>10, <1>11

LEMMA SubInPlace ==
  ASSUME SetsInv, NEW s \in Sets, NEW o \in Operands
  PROVE  /\ isub(s, o) \in [Sets -> OrderedSets]
         /\ ~IsubRaises(s, o) => isub(s, o)[s] = Sub(inner[s], Operand(o))
<1>1. inner[s] \in OrderedSets /\ Sub(inner[s], Operand(o)) \in OrderedSets
  BY OperandIsASet, AndSub DEF SetsInv
<1>2. CASE IsubRaises(s, o)
  <2>1. Tail(inner[s]) \in OrderedSets
    BY <1>1, <1>2, FrontAndTailAreSets DEF IsubRaises
  <2> QED BY <1>1, <1>2, <2>1 DEF isub, SetsInv
<1>3. CASE ~IsubRaises(s, o)
  BY <1>1, <1>3 DEF isub, SetsInv
<1> QED BY <1>2, <1>3

LEMMA InPlaceIsNew ==
  ASSUME SetsInv, NEW s \in Sets, NEW o \in Operands, NEW op \in Ops
  PROVE  /\ InPlace(op, s, o) \in [Sets -> OrderedSets]
         /\ ~(op = "sub" /\ IsubRaises(s, o)) =>
              InPlace(op, s, o)[s] = New(op, inner[s], Operand(o))
         /\ \A t \in Sets \ {s} :
              InPlace(op, s, o)[t] =
                IF op = "xor" /\ t = o THEN New("sub", inner[t], inner[s]) ELSE inner[t]
<1>1. inner[s] \in OrderedSets /\ New(op, inner[s], Operand(o)) \in OrderedSets
  BY OperandIsASet, NewIsASet DEF SetsInv
<1>2. CASE op = "and"
  BY <1>1, <1>2 DEF InPlace, New, iand, SetsInv
<1>3. CASE op = "sub"
  <2>1. \A t \in Sets \ {s} : isub(s, o)[t] = inner[t]
    BY DEF isub, SetsInv
  <2> QED BY <1>3, <2>1, SubInPlace DEF InPlace, New
<1>4. CASE op = "or"
  BY <1>1, <1>4 DEF InPlace, New, ior, Or, SetsInv
<1>5. CASE op = "xor"
  BY <1>5, XorInPlace DEF InPlace, New
<1> QED BY <1>2, <1>3, <1>4, <1>5 DEF Ops

(* Sets are without repetitions after a step.                              *)
LEMMA SetsStep ==
  ASSUME SetsInv, SetsNext
  PROVE  SetsInv'
<1> USE DEF SetsInv
<1>1. PICK s \in Sets :
        \/ pop(s) \/ clear(s)
        \/ \E item \in Items : add(s, item) \/ discard(s, item)
        \/ \E op \in Ops, o \in Operands :
             \/ inner' = InPlace(op, s, o)
             \/ \E left \in Operands : Assign(s, op, left, o)
  BY DEF SetsNext
<1>2. inner[s] \in OrderedSets
  OBVIOUS
<1>3. CASE pop(s)
  BY <1>2, <1>3, FrontAndTailAreSets DEF pop
<1>4. CASE clear(s)
  BY <1>4, NothingIsASet DEF clear
<1>5. ASSUME NEW item \in Items, add(s, item) \/ discard(s, item) PROVE SetsInv'
  <2>1. <<item>> \in OrderedSets /\ <<item>> \in Seq(AllItems)
    <3>1. item \in AllItems
      BY DEF AllItems
    <3>2. <<item>> \in Seq(AllItems) /\ Len(<<item>>) = 1
      BY <3>1
    <3> QED BY <3>2 DEF OrderedSets, Once
  <2>2. AddPairs(inner[s], <<item>>) \in OrderedSets /\ Sub(inner[s], <<item>>) \in OrderedSets
    BY <1>2, <2>1, AddedTo, AndSub
  <2> QED BY <1>5, <2>2 DEF add, discard
<1>6. ASSUME NEW op \in Ops, NEW o \in Operands, inner' = InPlace(op, s, o) PROVE SetsInv'
  BY <1>6, InPlaceIsNew
<1>7. ASSUME NEW op \in Ops, NEW o \in Operands, NEW left \in Operands, Assign(s, op, left, o)
      PROVE  SetsInv'
  <2>1. New(op, Operand(left), Operand(o)) \in OrderedSets
    BY OperandIsASet, NewIsASet
  <2> QED BY <1>7, <2>1 DEF Assign
<1> QED BY <1>1, <1>3, <1>4, <1>5, <1>6, <1>7

(* Sets hold each key once: the invariant of InsensitiveSets.              *)
THEOREM SetsAreOrdered == SetsSpec => []SetsInv
<1>1. SetsInit => SetsInv
  BY NothingIsASet DEF SetsInit, SetsInv
<1>2. SetsInv /\ [SetsNext]_inner => SetsInv'
  BY SetsStep DEF SetsInv
<1> QED BY <1>1, <1>2, PTL DEF SetsSpec

(* An operator in place leaves what the one that makes a new set makes.    *)
LEMMA InPlaceAsNewHolds == SetsInv => InPlaceAsNew
<1> SUFFICES ASSUME SetsInv PROVE InPlaceAsNew
  OBVIOUS
<1>1. ASSUME NEW s \in Sets PROVE Len(inner[s]) = Cardinality(KeysOf(inner[s]))
  <2>1. inner[s] \in Seq(AllItems) /\ Once(inner[s])
    BY DEF SetsInv, OrderedSets
  <2> QED BY <2>1, AsManyAsKeys
<1>2. ASSUME NEW s \in Sets, NEW op \in Ops, NEW o \in Operands,
             ~(op = "sub" /\ IsubRaises(s, o))
      PROVE  /\ InPlace(op, s, o)[s] = New(op, inner[s], Operand(o))
             /\ KeysOf(InPlace(op, s, o)[s]) = Algebra(op, KeysOf(inner[s]), KeysOf(Operand(o)))
  <2>1. InPlace(op, s, o)[s] = New(op, inner[s], Operand(o))
    BY <1>2, InPlaceIsNew
  <2>2. inner[s] \in OrderedSets
    BY DEF SetsInv
  <2> QED BY <2>1, <2>2, OperandIsASet, NewIsASet
<1>3. ASSUME NEW s \in Sets, NEW op \in Ops, NEW o \in Operands, NEW t \in Sets \ {s}
      PROVE  InPlace(op, s, o)[t] =
               IF op = "xor" /\ t = o THEN New("sub", inner[t], inner[s]) ELSE inner[t]
  BY InPlaceIsNew
<1> QED BY <1>1, <1>2, <1>3, Zenon DEF InPlaceAsNew

(* InPlaceIsAsNew: a set holds one spelling of each key, and whatever way  *)
(* it takes, an operator in place leaves of any set, with any set, itself  *)
(* or a list what the one that makes a new set makes of the same, in the   *)
(* same order and spellings; only a set taken out of itself raises.  Other *)
(* sets stay, but an operand of ^= is left without what the two shared.    *)
THEOREM InPlaceAlwaysAsNew == SetsSpec => []InPlaceIsAsNew
<1>1. SetsInv => InPlaceIsAsNew
  BY InPlaceAsNewHolds DEF InPlaceIsAsNew
<1> QED BY <1>1, SetsAreOrdered, PTL

-----------------------------------------------------------------------------
(* Fragments, of any number of characters.                                 *)

LEMMA CeilIsEnough ==
  ASSUME NEW n \in Nat, NEW d \in Nat, d > 1, n > d
  PROVE  Ceil(n, d) \in Nat /\ Ceil(n, d) > 1 /\ n <= Ceil(n, d) * d /\ n > (Ceil(n, d) - 1) * d
  BY DEF Ceil

(* NoFragmentTooMany, for all numbers of characters: a message fits in the *)
(* fragments that are paid for and would not fit in fewer.                 *)
THEOREM FragmentsAreNeeded ==
  \A count, extended \in Nat, unicode \in BOOLEAN : NoFragmentTooMany(count, extended, unicode)
<1> SUFFICES ASSUME NEW count \in Nat, NEW extended \in Nat, NEW unicode \in BOOLEAN
             PROVE  NoFragmentTooMany(count, extended, unicode)
  OBVIOUS
<1>1. PICK n \in Nat : n = character_count(count, extended, unicode)
  BY DEF character_count
<1>2. CASE n <= Alone(unicode)
  BY <1>1, <1>2 DEF NoFragmentTooMany, fragment_count, Room, boundary,
     count_of_characters_above_previous_fragment_boundary, Alone, InParts
<1>3. CASE n > Alone(unicode)
  <2>1. PICK f \in Nat : f = fragment_count(count, extended, unicode) /\ f = Ceil(n, InParts(unicode))
    BY <1>1, <1>3 DEF fragment_count, Ceil, InParts, Alone
  <2>2. f > 1 /\ n <= f * InParts(unicode) /\ n > (f - 1) * InParts(unicode)
    BY <1>3, <2>1, CeilIsEnough DEF InParts, Alone
  <2>3. n <= Room(f, unicode)
    BY <2>2 DEF Room
  <2>4. n > Room(f - 1, unicode)
    BY <1>3, <2>2 DEF Room
  <2>5. f = 2 <=> f - 1 = 1
    OBVIOUS
  <2>6. boundary(f, unicode) = Room(f - 1, unicode)
    BY <2>5 DEF boundary, Room, InParts
  <2> QED BY <1>1, <2>1, <2>2, <2>3, <2>4, <2>6 DEF NoFragmentTooMany,
     count_of_characters_above_previous_fragment_boundary
<1> QED BY <1>1, <1>2, <1>3 DEF Alone

-----------------------------------------------------------------------------
(* RecipientCSV: the folds by which a row is read and measured.            *)

LEMMA MaxOfTwo ==
  ASSUME NEW a \in Int, NEW b \in Int
  PROVE  Max({a, b}) = IF a >= b THEN a ELSE b
<1>1. PICK c \in {a, b} : \A d \in {a, b} : c >= d
  OBVIOUS
<1>2. Max({a, b}) \in {a, b} /\ \A d \in {a, b} : Max({a, b}) >= d
  BY <1>1 DEF Max
<1> QED BY <1>2

(* The length of a list of texts, text by text.                            *)
LEMMA LengthSteps ==
  ASSUME NEW data \in Seq(Nat)
  PROVE  \E f \in [0..Len(data) -> Nat] :
           /\ f[0] = 0
           /\ \A k \in 1..Len(data) : f[k] = (f[k - 1]) + data[k]
           /\ Length(data) = f[Len(data)]
<1>0. PICK n \in Nat : n = Len(data)
  BY LenProperties
<1>1. PICK V : V = Nat
  OBVIOUS
<1>2. DOMAIN data = 1..n /\ 0 \in V /\ \A k \in 1..n : data[k] \in Nat
  BY <1>0, <1>1
<1>3. PICK h : h = [v \in V |-> [k \in 1..n |-> (v) + data[k]]]
  OBVIOUS
<1>4. h \in Changes(n, V)
  <2>1. \A v \in V, k \in 1..n : (v) + data[k] \in V
    BY <1>0, <1>1, <1>2
  <2> QED BY <1>3, <2>1 DEF Changes
<1> DEFINE IsFold(g) ==
      g = [s \in SUBSET DOMAIN data |->
             IF s = {} THEN 0 ELSE (g[Except(s)]) + data[Max(s)]]
<1>5. \E g : IsFold(g)
  <2>1. PICK g \in [SUBSET (1..n) -> V] : IsFoldOf(g, n, 0, h)
    BY <1>2, <1>4, FoldExists, Zenon
  <2>2. ASSUME NEW s \in SUBSET (1..n), s # {}
        PROVE  h[g[Except(s)]][Max(s)] = (g[Except(s)]) + data[Max(s)]
    <3>1. Max(s) \in 1..n /\ Except(s) \in SUBSET (1..n)
      BY <2>2, LastPlace DEF Except
    <3> QED BY <1>3, <2>1, <3>1
  <2>3. IsFold(g)
    BY <1>2, <2>1, <2>2 DEF IsFoldOf
  <2> QED BY <2>3
<1>6. PICK iter : iter = (CHOOSE g : IsFold(g))
  OBVIOUS
<1>7. IsFold(iter)
  <2> HIDE DEF IsFold
  <2> QED BY <1>5, <1>6
<1>8. Length(data) = iter[1..n]
  BY <1>2, <1>6, Zenon DEF Length, FoldLeft, MapThenFoldSet, Except
<1>9. iter[{}] = 0
  BY <1>7
<1>10. FollowsFrom(iter, n, V, h)
  <2>1. ASSUME NEW s \in SUBSET (1..n), s # {}, iter[Except(s)] \in V
        PROVE  iter[s] = h[iter[Except(s)]][Max(s)]
    <3>1. Max(s) \in 1..n
      BY <2>1, LastPlace
    <3> QED BY <1>2, <1>3, <1>7, <2>1, <3>1
  <2> QED BY <2>1 DEF FollowsFrom
<1>11. PICK f \in [0..n -> V] : Steps(f, n, 0, h) /\ iter[1..n] = f[n]
  <2> HIDE DEF IsFold
  <2> QED BY <1>2, <1>4, <1>9, <1>10, FoldSteps
<1>12. ASSUME NEW k \in 1..n PROVE f[k] = (f[k - 1]) + data[k]
  <2>1. f[k - 1] \in V
    BY <1>0, <1>11
  <2> QED BY <1>3, <1>11, <2>1 DEF Steps
<1> QED BY <1>0, <1>1, <1>8, <1>11, <1>12 DEF Steps

LEMMA LengthIsANumber == ASSUME NEW data \in Seq(Nat) PROVE Length(data) \in Nat
  BY LengthSteps, LenProperties

(* Each placeholder's part of the message with values has a length.        *)
IsMeasured(values) ==
  /\ values # NoValues
  /\ Content \in Seq(ToSet(Content))
  /\ \A placeholder \in ToSet(Content) : replace_match(values, placeholder) \in Nat

(* That of the template with values, placeholder by placeholder.           *)
LEMMA BodySteps ==
  ASSUME NEW values, IsMeasured(values)
  PROVE  \E f \in [0..Len(Content) -> Nat] :
           /\ f[0] = 0
           /\ \A k \in 1..Len(Content) : f[k] = (f[k - 1]) + replace_match(values, Content[k])
           /\ BodyLength(values) = f[Len(Content)]
<1>0. PICK n \in Nat : n = Len(Content)
  BY LenProperties DEF IsMeasured
<1>1. PICK V : V = Nat
  OBVIOUS
<1>2. DOMAIN Content = 1..n /\ 0 \in V /\ \A k \in 1..n : Content[k] \in ToSet(Content)
  BY <1>0, <1>1 DEF IsMeasured
<1>3. PICK h : h = [v \in V |-> [k \in 1..n |-> (v) + replace_match(values, Content[k])]]
  OBVIOUS
<1>4. h \in Changes(n, V)
  <2>1. \A v \in V, k \in 1..n : (v) + replace_match(values, Content[k]) \in V
    BY <1>0, <1>1, <1>2 DEF IsMeasured
  <2> QED BY <1>3, <2>1 DEF Changes
<1> DEFINE IsFold(g) ==
      g = [s \in SUBSET DOMAIN Content |->
             IF s = {} THEN 0 ELSE (g[Except(s)]) + replace_match(values, Content[Max(s)])]
<1>5. \E g : IsFold(g)
  <2>1. PICK g \in [SUBSET (1..n) -> V] : IsFoldOf(g, n, 0, h)
    BY <1>2, <1>4, FoldExists, Zenon
  <2>2. ASSUME NEW s \in SUBSET (1..n), s # {}
        PROVE  h[g[Except(s)]][Max(s)] = (g[Except(s)]) + replace_match(values, Content[Max(s)])
    <3>1. Max(s) \in 1..n /\ Except(s) \in SUBSET (1..n)
      BY <2>2, LastPlace DEF Except
    <3> QED BY <1>3, <2>1, <3>1
  <2>3. IsFold(g)
    BY <1>2, <2>1, <2>2 DEF IsFoldOf
  <2> QED BY <2>3
<1>6. PICK iter : iter = (CHOOSE g : IsFold(g))
  OBVIOUS
<1>7. IsFold(iter)
  <2> HIDE DEF IsFold
  <2> QED BY <1>5, <1>6
<1>8. BodyLength(values) = iter[1..n]
  BY <1>2, <1>6, Zenon DEF IsMeasured, BodyLength, FoldLeft, MapThenFoldSet, Except
<1>9. iter[{}] = 0
  BY <1>7
<1>10. FollowsFrom(iter, n, V, h)
  <2>1. ASSUME NEW s \in SUBSET (1..n), s # {}, iter[Except(s)] \in V
        PROVE  iter[s] = h[iter[Except(s)]][Max(s)]
    <3>1. Max(s) \in 1..n
      BY <2>1, LastPlace
    <3> QED BY <1>2, <1>3, <1>7, <2>1, <3>1
  <2> QED BY <2>1 DEF FollowsFrom
<1>11. PICK f \in [0..n -> V] : Steps(f, n, 0, h) /\ iter[1..n] = f[n]
  <2> HIDE DEF IsFold
  <2> QED BY <1>2, <1>4, <1>9, <1>10, FoldSteps
<1>12. ASSUME NEW k \in 1..n PROVE f[k] = (f[k - 1]) + replace_match(values, Content[k])
  <2>1. f[k - 1] \in V
    BY <1>0, <1>11
  <2> QED BY <1>3, <1>11, <2>1 DEF Steps
<1> QED BY <1>0, <1>1, <1>8, <1>11, <1>12 DEF Steps

(* Data of cells: of all but what has no header, lists of lengths.         *)
IsData(values) ==
  \A key \in DOMAIN values : key # NoHeader.key => values[key] \in Seq(Nat)

LEMMA BodyLengthIsANumber ==
  ASSUME NEW values, IsData(values)
  PROVE  BodyLength(values) \in Nat
<1>1. CASE values = NoValues
  BY <1>1 DEF BodyLength
<1>2. CASE values # NoValues
  <2>1. ASSUME NEW placeholder \in ToSet(Content) PROVE replace_match(values, placeholder) \in Nat
    <3>1. placeholder.name.key # NoHeader.key
      BY RecipientAssumption
    <3>2. Known(values, placeholder.name.key) => Length(values[placeholder.name.key]) \in Nat
      BY <3>1, LengthIsANumber DEF Known, IsData
    <3>3. ASSUME placeholder.text # Unconditional PROVE get_conditional_body(values, placeholder) \in Nat
      <4>1. placeholder.text.key # NoHeader.key
        BY <3>3, RecipientAssumption
      <4>2. Known(values, placeholder.text.key) => Length(values[placeholder.text.key]) \in Nat
        BY <4>1, LengthIsANumber DEF Known, IsData
      <4> QED BY <4>2 DEF get_conditional_body
    <3> QED BY <3>2, <3>3 DEF replace_match
  <2>2. IsMeasured(values)
    BY <1>2, <2>1, RecipientAssumption DEF IsMeasured
  <2>3. Len(Content) \in Nat
    BY RecipientAssumption, LenProperties
  <2> QED BY <2>2, <2>3, BodySteps
<1> QED BY <1>1, <1>2

(* A row as it is read: entries under some of the headings.                *)
Cells == Nat \cup {Blank}
Entry(I) == [item : I, data : Seq(Nat)]
ItemsOf(dict) == {dict[n].item : n \in 1..Len(dict)}

LEMMA DataIsAList == ASSUME NEW value \in Cells PROVE DataOf(value) \in Seq(Nat)
<1>1. CASE value \in {Empty, Blank}
  BY <1>1 DEF DataOf
<1>2. CASE value \notin {Empty, Blank}
  <2>1. value \in Nat
    BY <1>2 DEF Cells
  <2>2. <<value>> \in Seq(Nat)
    BY <2>1
  <2> QED BY <1>2, <2>2 DEF DataOf
<1> QED BY <1>1, <1>2

LEMMA NotBlank ==
  ASSUME NEW value \in Cells
  PROVE  Max({value, Empty}) = IF value = Blank THEN Empty ELSE value
<1>1. value \in Int /\ Empty \in Int /\ (value >= Empty <=> value # Blank)
  BY DEF Cells, Blank, Empty
<1> QED BY <1>1, MaxOfTwo

AppendedTo(data, value) ==
  IF data = <<>> THEN DataOf(value) ELSE Append(data, Max({value, Empty}))

LEMMA AppendedToIsData ==
  ASSUME NEW data \in Seq(Nat), NEW value \in Cells
  PROVE  AppendedTo(data, value) \in Seq(Nat)
<1>1. Max({value, Empty}) \in Nat
  BY NotBlank DEF Cells, Blank, Empty
<1> QED BY <1>1, DataIsAList DEF AppendedTo

(* It is added under a new heading, or appended under one that is there.   *)
IsNew(dict, item, value, new) ==
  /\ item \notin ItemsOf(dict)
  /\ Len(new) = Len(dict) + 1
  /\ \A n \in 1..Len(dict) : new[n] = dict[n]
  /\ new[Len(dict) + 1] = [item |-> item, data |-> DataOf(value)]

IsThere(dict, item, value, new) ==
  /\ item \in ItemsOf(dict)
  /\ Len(new) = Len(dict)
  /\ \A n \in 1..Len(dict) :
       new[n] = IF dict[n].item # item THEN dict[n]
                ELSE [item |-> item, data |-> AppendedTo(dict[n].data, value)]

(* Or, without a heading and a value, left out.                            *)
IsLeftOut(dict, item, value, new) ==
  item = Unheaded /\ value \in {Empty, Blank} /\ new = dict

LEMMA Inserted ==
  ASSUME NEW I, NEW dict \in Seq(Entry(I)), NEW item \in I, NEW value \in Cells
  PROVE  /\ InsertOrAppend(dict, item, value) \in Seq(Entry(I))
         /\ \/ IsNew(dict, item, value, InsertOrAppend(dict, item, value))
            \/ IsThere(dict, item, value, InsertOrAppend(dict, item, value))
            \/ IsLeftOut(dict, item, value, InsertOrAppend(dict, item, value))
<1>1. PICK n \in Nat : n = Len(dict)
  BY LenProperties
<1>2. DOMAIN dict = 1..n /\ \A k \in 1..n : dict[k] \in Entry(I)
  BY <1>1, LenProperties
<1>3. {entry.item : entry \in ToSet(dict)} = ItemsOf(dict)
  BY <1>1, <1>2 DEF ToSet, ItemsOf
<1>6. DataOf(value) = <<>> <=> value \in {Empty, Blank}
  BY DEF DataOf
<1>7. CASE item = Unheaded /\ DataOf(value) = <<>>
  <2>1. InsertOrAppend(dict, item, value) = dict
    BY <1>7 DEF InsertOrAppend
  <2> QED BY <1>6, <1>7, <2>1 DEF IsLeftOut
<1>4. CASE item \notin ItemsOf(dict) /\ ~(item = Unheaded /\ DataOf(value) = <<>>)
  <2>1. PICK e : e = [item |-> item, data |-> DataOf(value)]
    OBVIOUS
  <2>2. e \in Entry(I)
    BY <2>1, DataIsAList DEF Entry
  <2>3. PICK new : new = InsertOrAppend(dict, item, value)
    OBVIOUS
  <2>4. new = Append(dict, e)
    BY <1>3, <1>4, <2>1, <2>3 DEF InsertOrAppend
  <2>5. new \in Seq(Entry(I)) /\ Len(new) = n + 1 /\ new[n + 1] = e /\ \A k \in 1..n : new[k] = dict[k]
    BY <1>1, <2>2, <2>4, Appended
  <2>6. IsNew(dict, item, value, new)
    BY <1>1, <1>4, <2>1, <2>5 DEF IsNew
  <2> QED BY <2>3, <2>5, <2>6
<1>5. CASE item \in ItemsOf(dict) /\ ~(item = Unheaded /\ DataOf(value) = <<>>)
  <2>1. PICK new : new = InsertOrAppend(dict, item, value)
    OBVIOUS
  <2>2. new = [k \in 1..n |-> IF dict[k].item # item THEN dict[k]
                              ELSE [item |-> item, data |-> AppendedTo(dict[k].data, value)]]
    BY <1>2, <1>3, <1>5, <2>1, Zenon DEF InsertOrAppend, AppendedTo
  <2>3. \A k \in 1..n : new[k] \in Entry(I)
    BY <1>2, <2>2, AppendedToIsData DEF Entry
  <2>4. new \in Seq(Entry(I)) /\ Len(new) = n
    BY <2>2, <2>3
  <2>5. IsThere(dict, item, value, new)
    BY <1>1, <1>5, <2>2, <2>4 DEF IsThere
  <2> QED BY <2>1, <2>4, <2>5
<1> QED BY <1>4, <1>5, <1>7

(* A recipient is put in the place of the one before, if there is one.     *)
Cleared(dict, item) ==
  [n \in DOMAIN dict |-> IF dict[n].item = item THEN [dict[n] EXCEPT !.data = <<>>] ELSE dict[n]]

LEMMA ClearedEntries ==
  ASSUME NEW I, NEW dict \in Seq(Entry(I)), NEW item
  PROVE  /\ Cleared(dict, item) \in Seq(Entry(I))
         /\ Len(Cleared(dict, item)) = Len(dict)
         /\ \A n \in 1..Len(dict) :
              /\ Cleared(dict, item)[n].item = dict[n].item
              /\ IF dict[n].item = item THEN Cleared(dict, item)[n].data = <<>>
                 ELSE Cleared(dict, item)[n] = dict[n]
         /\ item \notin ItemsOf(dict) => Cleared(dict, item) = dict
<1>1. PICK n \in Nat : n = Len(dict)
  BY LenProperties
<1>2. DOMAIN dict = 1..n /\ \A k \in 1..n : dict[k] \in Entry(I)
  BY <1>1, LenProperties
<1>3. PICK new : new = Cleared(dict, item)
  OBVIOUS
<1>4. new = [k \in 1..n |-> IF dict[k].item = item THEN [dict[k] EXCEPT !.data = <<>>] ELSE dict[k]]
  BY <1>2, <1>3 DEF Cleared
<1>5. ASSUME NEW k \in 1..n
      PROVE  /\ new[k] \in Entry(I) /\ new[k].item = dict[k].item
             /\ IF dict[k].item = item THEN new[k].data = <<>> ELSE new[k] = dict[k]
  <2>1. PICK e \in Entry(I) : e = dict[k]
    BY <1>2
  <2>2. PICK without : without = [e EXCEPT !.data = <<>>]
    OBVIOUS
  <2>3. without \in Entry(I) /\ without.item = e.item /\ without.data = <<>>
    <3>1. <<>> \in Seq(Nat)
      OBVIOUS
    <3> QED BY <2>2, <3>1 DEF Entry
  <2>4. new[k] = IF e.item = item THEN without ELSE e
    BY <1>4, <2>1, <2>2
  <2> QED BY <2>1, <2>3, <2>4
<1>6. new \in Seq(Entry(I)) /\ Len(new) = n
  <2>1. \A k \in 1..n : new[k] \in Entry(I)
    BY <1>5
  <2>2. new = [k \in 1..n |-> new[k]]
    BY <1>4
  <2>3. new \in [1..n -> Entry(I)]
    BY <2>1, <2>2, Zenon
  <2> HIDE DEF Entry
  <2> QED BY <2>3
<1>7. ASSUME item \notin ItemsOf(dict) PROVE new = dict
  <2>1. \A k \in 1..n : dict[k].item # item
    BY <1>1, <1>7 DEF ItemsOf
  <2>2. \A k \in 1..Len(new) : new[k] = dict[k]
    BY <1>4, <1>6, <2>1
  <2> QED BY <1>1, <1>6, <2>2, SeqEqual
<1> QED BY <1>1, <1>3, <1>4, <1>5, <1>6, <1>7

LEMMA PutIsInserted ==
  ASSUME NEW dict, NEW item, NEW value
  PROVE  Put(dict, item, value) = IF RecipientHeader(item)
                                  THEN InsertOrAppend(Cleared(dict, item), item, value)
                                  ELSE InsertOrAppend(dict, item, value)
  BY Zenon DEF Put, Overwrite, Cleared

LEMMA PutIsAnEntry ==
  ASSUME NEW I, NEW dict \in Seq(Entry(I)), NEW item \in I, NEW value \in Cells
  PROVE  Put(dict, item, value) \in Seq(Entry(I))
<1>1. Cleared(dict, item) \in Seq(Entry(I))
  BY ClearedEntries
<1>2. /\ InsertOrAppend(Cleared(dict, item), item, value) \in Seq(Entry(I))
      /\ InsertOrAppend(dict, item, value) \in Seq(Entry(I))
  BY <1>1, Inserted
<1> QED BY <1>2, PutIsInserted

(* The columns with a header are put into the row one by one, and those    *)
(* beyond its end after them.                                              *)
LEMMA FilledSteps ==
  ASSUME NEW I, NEW headers \in Seq(I), NEW row, \A k \in 1..Len(headers) : row[k] \in Cells
  PROVE  \E f \in [0..Len(headers) -> Seq(Entry(I))] :
           /\ f[0] = <<>>
           /\ \A k \in 1..Len(headers) : f[k] = Put(f[k - 1], headers[k], row[k])
           /\ FilledIn(headers, row) = f[Len(headers)]
<1>0. PICK n \in Nat : n = Len(headers)
  BY LenProperties
<1>1. PICK V : V = Seq(Entry(I))
  OBVIOUS
<1>2. DOMAIN headers = 1..n /\ <<>> \in V /\ \A k \in 1..n : headers[k] \in I /\ row[k] \in Cells
  BY <1>0, <1>1
<1>3. PICK h : h = [v \in V |-> [k \in 1..n |-> Put(v, headers[k], row[k])]]
  OBVIOUS
<1>4. h \in Changes(n, V)
  <2>1. \A v \in V, k \in 1..n : Put(v, headers[k], row[k]) \in V
    BY <1>0, <1>1, <1>2, PutIsAnEntry
  <2> QED BY <1>3, <2>1 DEF Changes
<1> DEFINE IsFold(g) ==
      g = [s \in SUBSET DOMAIN [i \in DOMAIN headers |-> i] |->
             IF s = {} THEN <<>> ELSE Put(g[Except(s)], headers[[i \in DOMAIN headers |-> i][Max(s)]], row[[i \in DOMAIN headers |-> i][Max(s)]])]
<1>5. \E g : IsFold(g)
  <2>1. PICK g \in [SUBSET (1..n) -> V] : IsFoldOf(g, n, <<>>, h)
    BY <1>2, <1>4, FoldExists, Zenon
  <2>2. ASSUME NEW s \in SUBSET (1..n), s # {}
        PROVE  h[g[Except(s)]][Max(s)] = Put(g[Except(s)], headers[Max(s)], row[Max(s)])
    <3>1. Max(s) \in 1..n /\ Except(s) \in SUBSET (1..n)
      BY <2>2, LastPlace DEF Except
    <3> QED BY <1>3, <2>1, <3>1
  <2>3. DOMAIN [i \in DOMAIN headers |-> i] = 1..n
    BY <1>2
  <2>4. \A s \in SUBSET (1..n) : s # {} =>
          g[s] = Put(g[Except(s)], headers[[i \in DOMAIN headers |-> i][Max(s)]],
                     row[[i \in DOMAIN headers |-> i][Max(s)]])
    <3> SUFFICES ASSUME NEW s \in SUBSET (1..n), s # {}
                 PROVE  g[s] = Put(g[Except(s)], headers[[i \in DOMAIN headers |-> i][Max(s)]],
                                   row[[i \in DOMAIN headers |-> i][Max(s)]])
      OBVIOUS
    <3>1. [i \in DOMAIN headers |-> i][Max(s)] = Max(s)
      BY <1>2, LastPlace
    <3> QED BY <2>1, <2>2, <3>1 DEF IsFoldOf
  <2>5. IsFold(g)
    BY <2>1, <2>3, <2>4 DEF IsFoldOf
  <2> QED BY <2>5
<1>6. PICK iter : iter = (CHOOSE g : IsFold(g))
  OBVIOUS
<1>7. IsFold(iter)
  <2> HIDE DEF IsFold
  <2> QED BY <1>5, <1>6
<1>8. FilledIn(headers, row) = iter[1..n]
  <2>1. DOMAIN [i \in DOMAIN headers |-> i] = 1..n
    BY <1>2
  <2> QED BY <1>6, <2>1, Zenon DEF FilledIn, FoldLeftDomain, FoldLeft, MapThenFoldSet, Except
<1>9. iter[{}] = <<>>
  BY <1>7
<1>10. FollowsFrom(iter, n, V, h)
  <2>1. ASSUME NEW s \in SUBSET (1..n), s # {}, iter[Except(s)] \in V
        PROVE  iter[s] = h[iter[Except(s)]][Max(s)]
    <3>1. Max(s) \in 1..n
      BY <2>1, LastPlace
    <3>2. DOMAIN [i \in DOMAIN headers |-> i] = 1..n /\ [i \in DOMAIN headers |-> i][Max(s)] = Max(s)
      BY <1>2, <3>1
    <3> QED BY <1>2, <1>3, <1>7, <2>1, <3>1, <3>2
  <2> QED BY <2>1 DEF FollowsFrom
<1>11. PICK f \in [0..n -> V] : Steps(f, n, <<>>, h) /\ iter[1..n] = f[n]
  <2> HIDE DEF IsFold
  <2> QED BY <1>2, <1>4, <1>9, <1>10, FoldSteps
<1>12. ASSUME NEW k \in 1..n PROVE f[k] = Put(f[k - 1], headers[k], row[k])
  <2>1. f[k - 1] \in V
    BY <1>0, <1>11
  <2> QED BY <1>3, <1>11, <2>1 DEF Steps
<1> QED BY <1>0, <1>1, <1>8, <1>11, <1>12 DEF Steps

LEMMA PaddedSteps ==
  ASSUME NEW I, NEW headers \in Seq(I), NEW dict \in Seq(Entry(I))
  PROVE  \E f \in [0..Len(headers) -> Seq(Entry(I))] :
           /\ f[0] = dict
           /\ \A k \in 1..Len(headers) : f[k] = InsertOrAppend(f[k - 1], headers[k], Empty)
           /\ Padded(dict, headers) = f[Len(headers)]
<1>0. PICK n \in Nat : n = Len(headers)
  BY LenProperties
<1>1. PICK V : V = Seq(Entry(I))
  OBVIOUS
<1>2. DOMAIN headers = 1..n /\ dict \in V /\ \A k \in 1..n : headers[k] \in I
  BY <1>0, <1>1
<1>3. PICK h : h = [v \in V |-> [k \in 1..n |-> InsertOrAppend(v, headers[k], Empty)]]
  OBVIOUS
<1>4. h \in Changes(n, V)
  <2>1. \A v \in V, k \in 1..n : InsertOrAppend(v, headers[k], Empty) \in V
    BY <1>0, <1>1, <1>2, Inserted DEF Cells, Empty
  <2> QED BY <1>3, <2>1 DEF Changes
<1> DEFINE IsFold(g) ==
      g = [s \in SUBSET DOMAIN headers |->
             IF s = {} THEN dict ELSE InsertOrAppend(g[Except(s)], headers[Max(s)], Empty)]
<1>5. \E g : IsFold(g)
  <2>1. PICK g \in [SUBSET (1..n) -> V] : IsFoldOf(g, n, dict, h)
    BY <1>2, <1>4, FoldExists, Zenon
  <2>2. ASSUME NEW s \in SUBSET (1..n), s # {}
        PROVE  h[g[Except(s)]][Max(s)] = InsertOrAppend(g[Except(s)], headers[Max(s)], Empty)
    <3>1. Max(s) \in 1..n /\ Except(s) \in SUBSET (1..n)
      BY <2>2, LastPlace DEF Except
    <3> QED BY <1>3, <2>1, <3>1
  <2>3. IsFold(g)
    BY <1>2, <2>1, <2>2 DEF IsFoldOf
  <2> QED BY <2>3
<1>6. PICK iter : iter = (CHOOSE g : IsFold(g))
  OBVIOUS
<1>7. IsFold(iter)
  <2> HIDE DEF IsFold
  <2> QED BY <1>5, <1>6
<1>8. Padded(dict, headers) = iter[1..n]
  BY <1>2, <1>6, Zenon DEF Padded, FoldLeft, MapThenFoldSet, Except
<1>9. iter[{}] = dict
  BY <1>7
<1>10. FollowsFrom(iter, n, V, h)
  <2>1. ASSUME NEW s \in SUBSET (1..n), s # {}, iter[Except(s)] \in V
        PROVE  iter[s] = h[iter[Except(s)]][Max(s)]
    <3>1. Max(s) \in 1..n
      BY <2>1, LastPlace
    <3> QED BY <1>2, <1>3, <1>7, <2>1, <3>1
  <2> QED BY <2>1 DEF FollowsFrom
<1>11. PICK f \in [0..n -> V] : Steps(f, n, dict, h) /\ iter[1..n] = f[n]
  <2> HIDE DEF IsFold
  <2> QED BY <1>2, <1>4, <1>9, <1>10, FoldSteps
<1>12. ASSUME NEW k \in 1..n PROVE f[k] = InsertOrAppend(f[k - 1], headers[k], Empty)
  <2>1. f[k - 1] \in V
    BY <1>0, <1>11
  <2> QED BY <1>3, <1>11, <2>1 DEF Steps
<1> QED BY <1>0, <1>1, <1>8, <1>11, <1>12 DEF Steps

(* Headings are added once in each spelling; and empty values left out.    *)
AddedSpelt(known, item) == IF item \in ToSet(known) THEN known ELSE Append(known, item)
Seen(some, value) == IF value = Empty THEN some ELSE Append(some, value)

LEMMA SpeltSteps ==
  ASSUME NEW S, NEW items \in Seq(S), NEW known \in Seq(S)
  PROVE  \E f \in [0..Len(items) -> Seq(S)] :
           /\ f[0] = known
           /\ \A k \in 1..Len(items) : f[k] = AddedSpelt(f[k - 1], items[k])
           /\ AddPairsSpelt(known, items) = f[Len(items)]
<1>0. PICK n \in Nat : n = Len(items)
  BY LenProperties
<1>1. PICK V : V = Seq(S)
  OBVIOUS
<1>2. DOMAIN items = 1..n /\ known \in V /\ \A k \in 1..n : items[k] \in S
  BY <1>0, <1>1
<1>3. PICK h : h = [v \in V |-> [k \in 1..n |-> AddedSpelt(v, items[k])]]
  OBVIOUS
<1>4. h \in Changes(n, V)
  <2>1. \A v \in V, k \in 1..n : AddedSpelt(v, items[k]) \in V
    BY <1>0, <1>1, <1>2 DEF AddedSpelt
  <2> QED BY <1>3, <2>1 DEF Changes
<1> DEFINE IsFold(g) ==
      g = [s \in SUBSET DOMAIN items |->
             IF s = {} THEN known ELSE AddedSpelt(g[Except(s)], items[Max(s)])]
<1>5. \E g : IsFold(g)
  <2>1. PICK g \in [SUBSET (1..n) -> V] : IsFoldOf(g, n, known, h)
    BY <1>2, <1>4, FoldExists, Zenon
  <2>2. ASSUME NEW s \in SUBSET (1..n), s # {}
        PROVE  h[g[Except(s)]][Max(s)] = AddedSpelt(g[Except(s)], items[Max(s)])
    <3>1. Max(s) \in 1..n /\ Except(s) \in SUBSET (1..n)
      BY <2>2, LastPlace DEF Except
    <3> QED BY <1>3, <2>1, <3>1
  <2>3. IsFold(g)
    BY <1>2, <2>1, <2>2 DEF IsFoldOf
  <2> QED BY <2>3
<1>6. PICK iter : iter = (CHOOSE g : IsFold(g))
  OBVIOUS
<1>7. IsFold(iter)
  <2> HIDE DEF IsFold
  <2> QED BY <1>5, <1>6
<1>8. AddPairsSpelt(known, items) = iter[1..n]
  BY <1>2, <1>6, Zenon DEF AddPairsSpelt, AddedSpelt, FoldLeft, MapThenFoldSet, Except
<1>9. iter[{}] = known
  BY <1>7
<1>10. FollowsFrom(iter, n, V, h)
  <2>1. ASSUME NEW s \in SUBSET (1..n), s # {}, iter[Except(s)] \in V
        PROVE  iter[s] = h[iter[Except(s)]][Max(s)]
    <3>1. Max(s) \in 1..n
      BY <2>1, LastPlace
    <3> QED BY <1>2, <1>3, <1>7, <2>1, <3>1
  <2> QED BY <2>1 DEF FollowsFrom
<1>11. PICK f \in [0..n -> V] : Steps(f, n, known, h) /\ iter[1..n] = f[n]
  <2> HIDE DEF IsFold
  <2> QED BY <1>2, <1>4, <1>9, <1>10, FoldSteps
<1>12. ASSUME NEW k \in 1..n PROVE f[k] = AddedSpelt(f[k - 1], items[k])
  <2>1. f[k - 1] \in V
    BY <1>0, <1>11
  <2> QED BY <1>3, <1>11, <2>1 DEF Steps
<1> QED BY <1>0, <1>1, <1>8, <1>11, <1>12 DEF Steps

LEMMA PresentSteps ==
  ASSUME NEW S, NEW data \in Seq(S)
  PROVE  \E f \in [0..Len(data) -> Seq(S)] :
           /\ f[0] = <<>>
           /\ \A k \in 1..Len(data) : f[k] = Seen(f[k - 1], data[k])
           /\ Present(data) = f[Len(data)]
<1>0. PICK n \in Nat : n = Len(data)
  BY LenProperties
<1>1. PICK V : V = Seq(S)
  OBVIOUS
<1>2. DOMAIN data = 1..n /\ <<>> \in V /\ \A k \in 1..n : data[k] \in S
  BY <1>0, <1>1
<1>3. PICK h : h = [v \in V |-> [k \in 1..n |-> Seen(v, data[k])]]
  OBVIOUS
<1>4. h \in Changes(n, V)
  <2>1. \A v \in V, k \in 1..n : Seen(v, data[k]) \in V
    BY <1>0, <1>1, <1>2 DEF Seen
  <2> QED BY <1>3, <2>1 DEF Changes
<1> DEFINE IsFold(g) ==
      g = [s \in SUBSET DOMAIN data |->
             IF s = {} THEN <<>> ELSE Seen(g[Except(s)], data[Max(s)])]
<1>5. \E g : IsFold(g)
  <2>1. PICK g \in [SUBSET (1..n) -> V] : IsFoldOf(g, n, <<>>, h)
    BY <1>2, <1>4, FoldExists, Zenon
  <2>2. ASSUME NEW s \in SUBSET (1..n), s # {}
        PROVE  h[g[Except(s)]][Max(s)] = Seen(g[Except(s)], data[Max(s)])
    <3>1. Max(s) \in 1..n /\ Except(s) \in SUBSET (1..n)
      BY <2>2, LastPlace DEF Except
    <3> QED BY <1>3, <2>1, <3>1
  <2>3. IsFold(g)
    BY <1>2, <2>1, <2>2 DEF IsFoldOf
  <2> QED BY <2>3
<1>6. PICK iter : iter = (CHOOSE g : IsFold(g))
  OBVIOUS
<1>7. IsFold(iter)
  <2> HIDE DEF IsFold
  <2> QED BY <1>5, <1>6
<1>8. Present(data) = iter[1..n]
  BY <1>2, <1>6, Zenon DEF Present, Seen, FoldLeft, MapThenFoldSet, Except
<1>9. iter[{}] = <<>>
  BY <1>7
<1>10. FollowsFrom(iter, n, V, h)
  <2>1. ASSUME NEW s \in SUBSET (1..n), s # {}, iter[Except(s)] \in V
        PROVE  iter[s] = h[iter[Except(s)]][Max(s)]
    <3>1. Max(s) \in 1..n
      BY <2>1, LastPlace
    <3> QED BY <1>2, <1>3, <1>7, <2>1, <3>1
  <2> QED BY <2>1 DEF FollowsFrom
<1>11. PICK f \in [0..n -> V] : Steps(f, n, <<>>, h) /\ iter[1..n] = f[n]
  <2> HIDE DEF IsFold
  <2> QED BY <1>2, <1>4, <1>9, <1>10, FoldSteps
<1>12. ASSUME NEW k \in 1..n PROVE f[k] = Seen(f[k - 1], data[k])
  <2>1. f[k - 1] \in V
    BY <1>0, <1>11
  <2> QED BY <1>3, <1>11, <2>1 DEF Steps
<1> QED BY <1>0, <1>1, <1>8, <1>11, <1>12 DEF Steps

(* Present, value by value.                                                *)
LEMMA OneMoreValue ==
  ASSUME NEW data \in Seq(Nat), NEW value \in Nat
  PROVE  Present(Append(data, value)) = Seen(Present(data), value)
<1>1. PICK n \in Nat : n = Len(data)
  BY LenProperties
<1>2. PICK more \in Seq(Nat) : more = Append(data, value)
  BY Appended
<1>3. Len(more) = n + 1 /\ more[n + 1] = value /\ \A k \in 1..n : more[k] = data[k]
  BY <1>1, <1>2, Appended
<1>4. PICK f \in [0..n -> Seq(Nat)] :
        f[0] = <<>> /\ (\A k \in 1..n : f[k] = Seen(f[k - 1], data[k])) /\ Present(data) = f[n]
  BY <1>1, PresentSteps
<1>5. PICK g \in [0..(n + 1) -> Seq(Nat)] :
        /\ g[0] = <<>> /\ Present(more) = g[n + 1]
        /\ \A k \in 1..(n + 1) : g[k] = Seen(g[k - 1], more[k])
  <2>1. \E g \in [0..Len(more) -> Seq(Nat)] :
          /\ g[0] = <<>>
          /\ \A k \in 1..Len(more) : g[k] = Seen(g[k - 1], more[k])
          /\ Present(more) = g[Len(more)]
    BY PresentSteps
  <2>2. Len(more) = n + 1
    BY <1>3
  <2> QED BY <2>1, <2>2, Zenon
<1> DEFINE T == {k \in 0..n : g[k] = f[k]}
<1>6. 0 \in T
  BY <1>4, <1>5
<1>7. ASSUME NEW k \in 0..n, g[k] = f[k], k < n PROVE g[k + 1] = f[k + 1]
  <2>1. k + 1 \in 1..n /\ k + 1 \in 1..(n + 1) /\ (k + 1) - 1 = k
    BY <1>7
  <2> QED BY <1>3, <1>4, <1>5, <1>7, <2>1
<1>8. n \in T
  <2>1. \A k \in 0..n : k \in T /\ k < n => k + 1 \in T
    BY <1>7
  <2>2. \A k \in 0..n : k \in T
    <3> HIDE DEF T
    <3> QED BY <1>6, <2>1, StepByStep
  <2>3. n \in 0..n
    OBVIOUS
  <2> QED BY <2>2, <2>3
<1>9. g[n + 1] = Seen(g[n], value)
  <2>1. n + 1 \in 1..(n + 1) /\ (n + 1) - 1 = n
    OBVIOUS
  <2> QED BY <1>3, <1>5, <2>1
<1> QED BY <1>2, <1>4, <1>5, <1>8, <1>9

LEMMA PresentOfNothing == Present(<<>>) = <<>>
<1>1. PICK data \in Seq(Nat) : data = <<>> /\ Len(data) = 0
  <2>1. <<>> \in Seq(Nat) /\ Len(<<>>) = 0
    OBVIOUS
  <2> QED BY <2>1
<1>2. PICK f \in [0..Len(data) -> Seq(Nat)] : f[0] = <<>> /\ Present(data) = f[Len(data)]
  BY PresentSteps
<1> QED BY <1>1, <1>2

(* What is appended to a cell's data is there, unless there is nothing.    *)
LEMMA PresentOfAppended ==
  ASSUME NEW data \in Seq(Nat), NEW value \in Cells
  PROVE  Present(AppendedTo(data, value)) =
           Seen(Present(data), IF value = Blank THEN Empty ELSE value)
<1>1. PICK v \in Nat : v = IF value = Blank THEN Empty ELSE value
  BY DEF Cells, Empty
<1>2. Max({value, Empty}) = v
  BY <1>1, NotBlank
<1>3. CASE data # <<>>
  BY <1>1, <1>2, <1>3, OneMoreValue DEF AppendedTo
<1>4. CASE data = <<>>
  <2>1. CASE v = Empty
    <3>1. DataOf(value) = <<>>
      BY <1>1, <2>1 DEF DataOf
    <3> QED BY <1>1, <1>4, <2>1, <3>1, PresentOfNothing DEF AppendedTo, Seen
  <2>2. CASE v # Empty
    <3>1. DataOf(value) = <<v>> /\ <<v>> = Append(<<>>, v)
      BY <1>1, <2>2 DEF DataOf
    <3>2. Present(Append(<<>>, v)) = Seen(Present(<<>>), v)
      BY <1>4, OneMoreValue
    <3> QED BY <1>1, <1>4, <3>1, <3>2 DEF AppendedTo
  <2> QED BY <2>1, <2>2
<1> QED BY <1>3, <1>4

(* Of the headings that are added, none is what stands before it.          *)
AddedOnce(known, all) ==
  /\ Len(known) <= Len(all)
  /\ \A n \in 1..Len(known) : all[n] = known[n]
  /\ \A n \in 1..Len(all) : \A m \in 1..(n - 1) : all[m] = all[n] => n <= Len(known)

LEMMA SpeltOnce ==
  ASSUME NEW S, NEW known \in Seq(S), NEW items \in Seq(S)
  PROVE  /\ AddPairsSpelt(known, items) \in Seq(S)
         /\ Len(AddPairsSpelt(known, items)) <= Len(known) + Len(items)
         /\ AddedOnce(known, AddPairsSpelt(known, items))
         /\ \A m \in 1..Len(items) : Among(items[m], AddPairsSpelt(known, items))
<1>1. PICK f \in [0..Len(items) -> Seq(S)] :
        /\ f[0] = known
        /\ \A k \in 1..Len(items) : f[k] = AddedSpelt(f[k - 1], items[k])
        /\ AddPairsSpelt(known, items) = f[Len(items)]
  BY SpeltSteps
<1>2. /\ Len(items) \in Nat /\ Len(known) \in Nat
      /\ \A k \in 1..Len(items) : items[k] \in S
  BY LenProperties
<1> DEFINE P(k) == /\ Len(f[k]) <= Len(known) + k
                   /\ AddedOnce(known, f[k])
                   /\ \A m \in 1..k : Among(items[m], f[k])
           T == {k \in 0..Len(items) : P(k)}
<1>3. P(0)
  BY <1>1, <1>2 DEF AddedOnce
<1>4. ASSUME NEW k \in 0..Len(items), P(k), k < Len(items) PROVE P(k + 1)
  <2>1. k + 1 \in 1..Len(items) /\ (k + 1) - 1 = k /\ k \in Nat
    BY <1>4
  <2>2. PICK old \in Seq(S) : old = f[k]
    BY <1>1
  <2>3. PICK item \in S : item = items[k + 1]
    BY <1>2, <2>1
  <2>4. PICK new : new = f[k + 1]
    OBVIOUS
  <2>5. new = AddedSpelt(old, item)
    BY <1>1, <2>1, <2>2, <2>3, <2>4
  <2>6. /\ Len(old) \in Nat /\ Len(old) <= Len(known) + k /\ AddedOnce(known, old)
        /\ \A m \in 1..k : Among(items[m], old)
    BY <1>4, <2>2, LenProperties
  <2>7. CASE Among(item, old)
    <3>1. new = old
      BY <2>5, <2>7, AmongThem DEF AddedSpelt
    <3>2. \A m \in 1..(k + 1) : Among(items[m], new)
      <4>1. \A m \in 1..(k + 1) : m \in 1..k \/ m = k + 1
        BY <2>1
      <4> QED BY <2>3, <2>6, <2>7, <3>1, <4>1
    <3> QED BY <1>2, <2>1, <2>4, <2>6, <3>1, <3>2
  <2>8. CASE ~Among(item, old)
    <3>1. new = Append(old, item)
      BY <2>5, <2>8, AmongThem DEF AddedSpelt
    <3>2. /\ Len(new) = Len(old) + 1 /\ new[Len(old) + 1] = item
          /\ \A n \in 1..Len(old) : new[n] = old[n]
      BY <3>1, Appended
    <3>3. \A m \in 1..(k + 1) : Among(items[m], new)
      <4>1. ASSUME NEW m \in 1..k PROVE Among(items[m], new)
        <5>1. PICK n \in 1..Len(old) : old[n] = items[m]
          BY <2>6 DEF Among
        <5>2. n \in 1..Len(new) /\ new[n] = items[m]
          BY <2>6, <3>2, <5>1
        <5> QED BY <5>2 DEF Among
      <4>2. Among(items[k + 1], new)
        <5>1. Len(old) + 1 \in 1..Len(new) /\ new[Len(old) + 1] = items[k + 1]
          BY <2>3, <2>6, <3>2
        <5> QED BY <5>1 DEF Among
      <4>3. \A m \in 1..(k + 1) : m \in 1..k \/ m = k + 1
        BY <2>1
      <4> QED BY <4>1, <4>2, <4>3
    <3>4. AddedOnce(known, new)
      <4>1. /\ Len(known) <= Len(old)
            /\ \A n \in 1..Len(known) : old[n] = known[n]
            /\ \A n \in 1..Len(old) : \A m \in 1..(n - 1) : old[m] = old[n] => n <= Len(known)
        BY <2>6 DEF AddedOnce
      <4>2. Len(known) <= Len(new) /\ \A n \in 1..Len(known) : new[n] = known[n]
        BY <1>2, <2>6, <3>2, <4>1
      <4>3. ASSUME NEW n \in 1..Len(new), NEW m \in 1..(n - 1), new[m] = new[n]
            PROVE  n <= Len(known)
        <5>0. PICK all \in Nat : all = Len(old) /\ Len(new) = all + 1
          BY <3>2, LenProperties
        <5>1. m \in 1..Len(old) /\ new[m] = old[m]
          <6>1. n \in 1..(all + 1)
            BY <5>0
          <6>2. m \in 1..all
            BY <6>1
          <6> QED BY <3>2, <5>0, <6>2
        <5>2. CASE n \in 1..Len(old)
          BY <3>2, <4>1, <4>3, <5>1, <5>2
        <5>3. CASE n = Len(old) + 1
          BY <2>8, <3>2, <4>3, <5>1, <5>3 DEF Among
        <5>4. PICK length \in Nat : length = Len(old) /\ Len(new) = length + 1
          BY <3>2, LenProperties
        <5>5. n \in 1..length \/ n = length + 1
          BY <5>4
        <5> QED BY <5>2, <5>3, <5>4, <5>5
      <4> QED BY <4>2, <4>3 DEF AddedOnce
    <3> QED BY <1>2, <2>1, <2>4, <2>6, <3>2, <3>3, <3>4
  <2> QED BY <2>7, <2>8
<1>5. P(Len(items))
  <2> HIDE DEF P
  <2>1. 0 \in T /\ \A k \in 0..Len(items) : k \in T /\ k < Len(items) => k + 1 \in T
    BY <1>2, <1>3, <1>4
  <2>2. \A k \in 0..Len(items) : k \in T
    <3> HIDE DEF T
    <3> QED BY <1>2, <2>1, StepByStep
  <2>3. Len(items) \in 0..Len(items)
    BY <1>2
  <2> QED BY <2>2, <2>3
<1> QED BY <1>1, <1>2, <1>5

(* The greatest of some numbers up to n.                                   *)
LEMMA GreatestOf ==
  ASSUME NEW n \in Nat, NEW numbers, numbers \subseteq 0..n, numbers # {}
  PROVE  Max(numbers) \in numbers /\ \A m \in numbers : m <= Max(numbers)
<1>1. \A m \in numbers : m \in Nat /\ m <= n
  OBVIOUS
<1>2. \E k \in numbers : \A m \in numbers : k >= m
  <2>1. CASE numbers \subseteq {0}
    <3>1. PICK k \in numbers : TRUE
      OBVIOUS
    <3>2. \A m \in numbers : k >= m
      <4>1. \A m \in numbers : m = 0
        BY <2>1
      <4>2. k = 0
        BY <4>1
      <4> QED BY <4>1, <4>2
    <3> QED BY <3>2
  <2>2. CASE ~(numbers \subseteq {0})
    <3>1. PICK places : places = numbers \ {0}
      OBVIOUS
    <3>2. places \subseteq 1..n /\ places # {}
      BY <2>2, <3>1
    <3>3. Max(places) \in places /\ \A m \in places : m <= Max(places)
      BY <3>2, LastPlace
    <3>4. PICK k : k = Max(places)
      OBVIOUS
    <3>5. k \in numbers /\ \A m \in numbers : k >= m
      <4>1. ASSUME NEW m \in numbers PROVE k >= m
        <5>1. CASE m = 0
          <6>1. k \in Nat
            BY <1>1, <3>1, <3>3, <3>4
          <6> QED BY <5>1, <6>1
        <5>2. CASE m # 0
          BY <1>1, <3>1, <3>3, <3>4, <5>2
        <5> QED BY <5>1, <5>2
      <4> QED BY <3>1, <3>3, <3>4, <4>1
    <3> QED BY <3>5
  <2> QED BY <2>1, <2>2
<1>3. PICK k \in numbers : \A m \in numbers : k >= m
  BY <1>2
<1> QED BY <1>1, <1>3 DEF Max

(* The spreadsheet that is read, or none.                                  *)
FileInv == file \in Spreadsheets \cup {NoFile}

LEMMA FileIsASpreadsheet ==
  ASSUME FileInv
  PROVE  /\ file.header \in Seq(ToSet(file.header))
         /\ NoHeader.key \notin KeysOf(file.header)
         /\ file.rows \in Seq(Seq(Cells))
<1>1. CASE file \in Spreadsheets
  BY <1>1, SpreadsheetsAssumption DEF Cells
<1>2. CASE file = NoFile
  BY <1>2 DEF NoFile, KeysOf, ToSet
<1> QED BY <1>1, <1>2 DEF FileInv

(* The last column of a row that is used.                                  *)
LEMMA UsedColumns ==
  ASSUME NEW row \in Seq(Cells)
  PROVE  /\ Used(row) \in 0..Len(row)
         /\ \A n \in 1..Len(row) : row[n] # Empty => n <= Used(row)
<1>1. PICK n \in Nat : n = Len(row)
  BY LenProperties
<1>2. PICK numbers : numbers = {k \in DOMAIN row : row[k] # Empty} \cup {0}
  OBVIOUS
<1>3. DOMAIN row = 1..n
  BY <1>1, LenProperties
<1>4. numbers \subseteq 0..n /\ numbers # {}
  BY <1>2, <1>3
<1>5. Max(numbers) \in numbers /\ \A m \in numbers : m <= Max(numbers)
  BY <1>4, GreatestOf
<1>6. Used(row) = Max(numbers)
  BY <1>2 DEF Used
<1> QED BY <1>1, <1>2, <1>3, <1>4, <1>5, <1>6

(* All rows have an end, and so have they together.                        *)
LEMMA AllUsedColumns ==
  ASSUME FileInv
  PROVE  /\ index_of_first_empty_column \in Nat
         /\ \A n \in 1..Len(file.rows) : Used(file.rows[n]) <= index_of_first_empty_column
<1>1. PICK n \in Nat : n = Len(file.rows)
  BY FileIsASpreadsheet, LenProperties
<1>2. PICK used : used = [k \in 1..n |-> Used(file.rows[k])]
  OBVIOUS
<1>3. DOMAIN file.rows = 1..n /\ \A k \in 1..n : used[k] \in Nat
  <2>1. \A k \in 1..n : file.rows[k] \in Seq(Cells)
    BY <1>1, FileIsASpreadsheet, LenProperties
  <2>2. ASSUME NEW k \in 1..n PROVE used[k] \in Nat
    <3>1. Used(file.rows[k]) \in 0..Len(file.rows[k]) /\ Len(file.rows[k]) \in Nat
      BY <2>1, UsedColumns, LenProperties
    <3> QED BY <1>2, <3>1
  <2> QED BY <1>1, <2>2, FileIsASpreadsheet, LenProperties
<1> DEFINE P(k) == \E most \in Nat : \A m \in 1..k : used[m] <= most
           T == {k \in 0..n : P(k)}
<1>4. P(0)
  OBVIOUS
<1>5. ASSUME NEW k \in 0..n, P(k), k < n PROVE P(k + 1)
  <2>1. PICK most \in Nat : \A m \in 1..k : used[m] <= most
    BY <1>5
  <2>2. k + 1 \in 1..n /\ \A m \in 1..(k + 1) : m \in 1..k \/ m = k + 1
    BY <1>5
  <2>3. CASE used[k + 1] <= most
    BY <2>1, <2>2, <2>3
  <2>4. CASE ~(used[k + 1] <= most)
    <3>1. used[k + 1] \in Nat /\ \A m \in 1..(k + 1) : used[m] <= used[k + 1]
      <4>1. \A m \in 1..k : m \in 1..n
        BY <1>5
      <4> QED BY <1>3, <2>1, <2>2, <2>4, <4>1
    <3> QED BY <3>1
  <2> QED BY <2>3, <2>4
<1>6. P(n)
  <2> HIDE DEF P
  <2>1. 0 \in T /\ \A k \in 0..n : k \in T /\ k < n => k + 1 \in T
    BY <1>4, <1>5
  <2>2. \A k \in 0..n : k \in T
    <3> HIDE DEF T
    <3> QED BY <2>1, StepByStep
  <2>3. n \in 0..n
    OBVIOUS
  <2> QED BY <2>2, <2>3
<1>7. PICK most \in Nat : \A m \in 1..n : used[m] <= most
  BY <1>6
<1>8. PICK numbers : numbers = {used[k] : k \in 1..n} \cup {0}
  OBVIOUS
<1>9. numbers \subseteq 0..most /\ numbers # {}
  BY <1>3, <1>7, <1>8
<1>10. Max(numbers) \in numbers /\ \A m \in numbers : m <= Max(numbers)
  BY <1>9, GreatestOf
<1>11. {Used(row) : row \in ToSet(file.rows)} = {used[k] : k \in 1..n}
  BY <1>2, <1>3 DEF ToSet
<1>12. index_of_first_empty_column = Max(numbers)
  BY <1>8, <1>11 DEF index_of_first_empty_column
<1>13. \A k \in 1..n : used[k] \in numbers
  BY <1>8
<1>14. Max(numbers) \in Nat
  <2>1. \A m \in numbers : m \in Nat
    BY <1>3, <1>8
  <2> QED BY <1>10, <2>1
<1>15. \A k \in 1..n : Used(file.rows[k]) <= Max(numbers)
  BY <1>2, <1>10, <1>13
<1> QED BY <1>1, <1>12, <1>14, <1>15

(* Headers of columns that are used stay where they are; of the others     *)
(* each is there once, if it is of no column that is used.                 *)
Populated == Min({index_of_first_empty_column, Len(file.header)})

LEMMA PopulatedColumns ==
  ASSUME FileInv
  PROVE  /\ Len(file.header) \in Nat /\ Populated \in 0..Len(file.header)
         /\ Populated = Len(file.header) \/ Populated = index_of_first_empty_column
         /\ Populated <= index_of_first_empty_column
<1>1. index_of_first_empty_column \in Nat /\ Len(file.header) \in Nat
  BY AllUsedColumns, FileIsASpreadsheet, LenProperties
<1> QED BY <1>1, MinOfTwo DEF Populated

LEMMA ColumnHeaders ==
  ASSUME FileInv
  PROVE  /\ column_headers \in Seq(ToSet(file.header))
         /\ Len(column_headers) \in Populated..Len(file.header)
         /\ \A c \in 1..Populated : column_headers[c] = file.header[c]
         /\ \A c \in 1..Len(column_headers) : \A m \in 1..(c - 1) :
              column_headers[m] = column_headers[c] => c <= Populated
         /\ \A c \in 1..Len(file.header) : Among(file.header[c], column_headers)
<1>1. PICK I : I = ToSet(file.header)
  OBVIOUS
<1>2. PICK header \in Seq(I) : header = file.header
  BY <1>1, FileIsASpreadsheet
<1>3. PICK n \in Nat : n = Len(header) /\ \A c \in 1..n : header[c] \in I
  BY LenProperties
<1>4. PICK p \in 0..n : p = Populated
  BY <1>2, <1>3, PopulatedColumns
<1>5. PICK populated \in Seq(I) :
        /\ populated = SubSeq(header, 1, p) /\ Len(populated) = p
        /\ \A c \in 1..p : populated[c] = header[c]
  <2>1. \A c \in 1..p : header[c] \in I
    BY <1>3
  <2>2. /\ SubSeq(header, 1, p) \in Seq(I)
        /\ Len(SubSeq(header, 1, p)) = IF 1 <= p THEN p - 1 + 1 ELSE 0
        /\ \A c \in 1..p - 1 + 1 : SubSeq(header, 1, p)[c] = header[1 + c - 1]
    BY <2>1, SubSeqProperties
  <2>3. Len(SubSeq(header, 1, p)) = p
    BY <2>2
  <2>4. ASSUME NEW c \in 1..p PROVE SubSeq(header, 1, p)[c] = header[c]
    <3>1. c \in 1..p - 1 + 1 /\ 1 + c - 1 = c
      OBVIOUS
    <3> QED BY <2>2, <3>1
  <2> QED BY <2>2, <2>3, <2>4
<1>6. PICK empty \in Seq(I) :
        /\ empty = SubSeq(header, p + 1, n) /\ Len(empty) = n - p
        /\ \A c \in 1..(n - p) : empty[c] = header[p + c]
  <2>1. \A c \in p + 1..n : header[c] \in I
    BY <1>3
  <2>2. /\ SubSeq(header, p + 1, n) \in Seq(I)
        /\ Len(SubSeq(header, p + 1, n)) = IF p + 1 <= n THEN n - (p + 1) + 1 ELSE 0
        /\ \A c \in 1..n - (p + 1) + 1 : SubSeq(header, p + 1, n)[c] = header[p + 1 + c - 1]
    BY <2>1, SubSeqProperties
  <2>3. Len(SubSeq(header, p + 1, n)) = n - p
    BY <2>2
  <2>4. ASSUME NEW c \in 1..(n - p) PROVE SubSeq(header, p + 1, n)[c] = header[p + c]
    <3>1. c \in 1..n - (p + 1) + 1 /\ p + 1 + c - 1 = p + c
      OBVIOUS
    <3> QED BY <2>2, <3>1
  <2> QED BY <2>2, <2>3, <2>4
<1>7. column_headers = AddPairsSpelt(populated, empty)
  <2>1. populated = SubSeq(file.header, 1, Min({index_of_first_empty_column, Len(file.header)}))
    BY <1>2, <1>4, <1>5 DEF Populated
  <2>2. empty = SubSeq(file.header, Len(populated) + 1, Len(file.header))
    BY <1>2, <1>3, <1>5, <1>6
  <2> QED BY <2>1, <2>2 DEF column_headers
<1>8. PICK all \in Seq(I) : all = column_headers
  BY <1>7, SpeltOnce
<1>9. Len(all) <= p + (n - p) /\ AddedOnce(populated, all) /\ \A m \in 1..(n - p) : Among(empty[m], all)
  BY <1>5, <1>6, <1>7, <1>8, SpeltOnce
<1>10. Len(all) \in p..n
  <2>1. Len(all) \in Nat
    BY LenProperties
  <2> QED BY <1>5, <1>9, <2>1 DEF AddedOnce
<1>11. \A c \in 1..p : all[c] = header[c]
  BY <1>5, <1>9 DEF AddedOnce
<1>12. \A c \in 1..Len(all) : \A m \in 1..(c - 1) : all[m] = all[c] => c <= p
  BY <1>5, <1>9 DEF AddedOnce
<1>13. ASSUME NEW c \in 1..n PROVE Among(header[c], all)
  <2>1. CASE c \in 1..p
    <3>1. c \in 1..Len(all)
      BY <1>10, <2>1
    <3> QED BY <1>11, <2>1, <3>1 DEF Among
  <2>2. CASE c \notin 1..p
    <3>1. PICK m : m = c - p
      OBVIOUS
    <3>2. m \in 1..(n - p) /\ p + m = c
      BY <2>2, <3>1
    <3> QED BY <1>6, <1>9, <3>2
  <2> QED BY <2>1, <2>2
<1> QED BY <1>1, <1>2, <1>3, <1>4, <1>8, <1>10, <1>11, <1>12, <1>13

(* Those under which something may be, or nothing at all.                  *)
KnownItems(dict) == ItemsOf(dict) \cup {Unheaded}

LEMMA RecipientIsHeaded ==
  ASSUME NEW item, RecipientHeader(item)
  PROVE  item # Unheaded
  BY RecipientAssumption DEF RecipientHeader, Unheaded

LEMMA InsertedItem ==
  ASSUME NEW I, NEW dict \in Seq(Entry(I)), NEW item \in I, NEW value \in Cells,
         ~IsLeftOut(dict, item, value, InsertOrAppend(dict, item, value))
  PROVE  ItemsOf(InsertOrAppend(dict, item, value)) = ItemsOf(dict) \cup {item}
<1>1. PICK n \in Nat : n = Len(dict)
  BY LenProperties
<1>2. PICK new : new = InsertOrAppend(dict, item, value)
  OBVIOUS
<1>3. CASE IsNew(dict, item, value, new)
  <2>1. Len(new) = n + 1 /\ new[n + 1].item = item /\ \A k \in 1..n : new[k] = dict[k]
    BY <1>1, <1>3 DEF IsNew
  <2>2. 1..(n + 1) = 1..n \cup {n + 1}
    OBVIOUS
  <2>3. ItemsOf(new) = {new[k].item : k \in 1..n} \cup {new[n + 1].item}
    BY <2>1, <2>2 DEF ItemsOf
  <2>4. {new[k].item : k \in 1..n} = ItemsOf(dict)
    BY <1>1, <2>1 DEF ItemsOf
  <2> QED BY <1>2, <2>1, <2>3, <2>4
<1>4. CASE IsThere(dict, item, value, new)
  <2>1. item \in ItemsOf(dict) /\ Len(new) = n
    BY <1>1, <1>4 DEF IsThere
  <2>2. ASSUME NEW k \in 1..n PROVE new[k].item = dict[k].item
    <3>1. CASE dict[k].item # item
      BY <1>1, <1>4, <3>1 DEF IsThere
    <3>2. CASE dict[k].item = item
      <4>1. new[k] = [item |-> item, data |-> AppendedTo(dict[k].data, value)]
        BY <1>1, <1>4, <3>2, Zenon DEF IsThere
      <4> QED BY <3>2, <4>1
    <3> QED BY <3>1, <3>2
  <2> QED BY <1>1, <1>2, <2>1, <2>2 DEF ItemsOf
<1> QED BY <1>2, <1>3, <1>4, Inserted

LEMMA InsertedItems ==
  ASSUME NEW I, NEW dict \in Seq(Entry(I)), NEW item \in I, NEW value \in Cells
  PROVE  KnownItems(InsertOrAppend(dict, item, value)) = KnownItems(dict) \cup {item}
<1>1. CASE IsLeftOut(dict, item, value, InsertOrAppend(dict, item, value))
  BY <1>1 DEF IsLeftOut, KnownItems
<1>2. CASE ~IsLeftOut(dict, item, value, InsertOrAppend(dict, item, value))
  BY <1>2, InsertedItem DEF KnownItems
<1> QED BY <1>1, <1>2

(* What the cells under a heading have come to.                            *)
Holds(dict, item, values) ==
  /\ \A n \in 1..Len(dict) : dict[n].item = item => Present(dict[n].data) = values
  /\ item \notin ItemsOf(dict) => values = <<>>

Stripped(value) == IF value = Blank THEN Empty ELSE value

LEMMA InsertedHolds ==
  ASSUME NEW I, NEW dict \in Seq(Entry(I)), NEW item \in I, NEW value \in Cells,
         NEW other, NEW values, Holds(dict, other, values)
  PROVE  /\ KnownItems(InsertOrAppend(dict, item, value)) = KnownItems(dict) \cup {item}
         /\ Holds(InsertOrAppend(dict, item, value), other,
                  IF item = other THEN Seen(values, Stripped(value)) ELSE values)
<1>1. PICK n \in Nat : n = Len(dict)
  BY LenProperties
<1>2. \A k \in 1..n : dict[k].data \in Seq(Nat)
  <2>1. \A k \in 1..n : dict[k] \in Entry(I)
    BY <1>1, LenProperties
  <2>2. \A e \in Entry(I) : e.data \in Seq(Nat)
    BY DEF Entry
  <2> QED BY <2>1, <2>2
<1>3. PICK new : new = InsertOrAppend(dict, item, value)
  OBVIOUS
<1>4. CASE IsNew(dict, item, value, new)
  <2>1. /\ item \notin ItemsOf(dict) /\ Len(new) = n + 1 /\ \A k \in 1..n : new[k] = dict[k]
        /\ new[n + 1].item = item /\ new[n + 1].data = DataOf(value)
    BY <1>1, <1>4 DEF IsNew
  <2>2. \A k \in 1..(n + 1) : k \in 1..n \/ k = n + 1
    OBVIOUS
  <2>3. ItemsOf(new) = ItemsOf(dict) \cup {item} /\ KnownItems(new) = KnownItems(dict) \cup {item}
    <3>1. ~IsLeftOut(dict, item, value, new)
      BY <1>1, <2>1 DEF IsLeftOut
    <3> QED BY <1>3, <3>1, InsertedItem, InsertedItems
  <2>4. CASE item = other
    <3>1. values = <<>>
      BY <2>1, <2>4 DEF Holds
    <3>2. Present(DataOf(value)) = Seen(<<>>, Stripped(value))
      <4>1. <<>> \in Seq(Nat)
        OBVIOUS
      <4>2. Present(AppendedTo(<<>>, value)) = Seen(Present(<<>>), Stripped(value))
        BY <4>1, PresentOfAppended DEF Stripped
      <4> QED BY <4>2, PresentOfNothing DEF AppendedTo
    <3>3. \A k \in 1..n : new[k].item # item
      BY <1>1, <2>1 DEF ItemsOf
    <3>4. \A k \in 1..(n + 1) : new[k].item = item => Present(new[k].data) = Seen(<<>>, Stripped(value))
      BY <2>1, <2>2, <3>2, <3>3
    <3>5. item \in ItemsOf(new)
      BY <2>3
    <3> QED BY <1>3, <2>1, <2>3, <2>4, <3>1, <3>4, <3>5 DEF Holds
  <2>5. CASE item # other
    <3>1. \A k \in 1..(n + 1) : new[k].item = other => Present(new[k].data) = values
      BY <1>1, <2>1, <2>2, <2>5 DEF Holds
    <3>2. other \notin ItemsOf(new) => values = <<>>
      BY <2>3 DEF Holds
    <3> QED BY <1>3, <2>1, <2>3, <2>5, <3>1, <3>2 DEF Holds
  <2> QED BY <2>4, <2>5
<1>5. CASE IsThere(dict, item, value, new)
  <2>1. item \in ItemsOf(dict) /\ Len(new) = n
    BY <1>1, <1>5 DEF IsThere
  <2>2. \A k \in 1..n : dict[k].item # item => new[k] = dict[k]
    BY <1>1, <1>5 DEF IsThere
  <2>3. \A k \in 1..n : dict[k].item = item =>
          new[k].item = item /\ new[k].data = AppendedTo(dict[k].data, value)
    <3> SUFFICES ASSUME NEW k \in 1..n, dict[k].item = item
                 PROVE  new[k].item = item /\ new[k].data = AppendedTo(dict[k].data, value)
      OBVIOUS
    <3>1. new[k] = [item |-> item, data |-> AppendedTo(dict[k].data, value)]
      BY <1>1, <1>5, Zenon DEF IsThere
    <3> QED BY <3>1
  <2>4. \A k \in 1..n : new[k].item = dict[k].item
    BY <2>2, <2>3
  <2>5. ItemsOf(new) = ItemsOf(dict) \cup {item} /\ KnownItems(new) = KnownItems(dict) \cup {item}
    <3>1. CASE IsLeftOut(dict, item, value, new)
      BY <2>1, <3>1 DEF IsLeftOut, KnownItems
    <3>2. CASE ~IsLeftOut(dict, item, value, new)
      BY <1>3, <3>2, InsertedItem, InsertedItems
    <3> QED BY <3>1, <3>2
  <2>6. CASE item = other
    <3>1. ASSUME NEW k \in 1..n, new[k].item = item
          PROVE  Present(new[k].data) = Seen(values, Stripped(value))
      <4>1. dict[k].item = item /\ Present(dict[k].data) = values
        BY <1>1, <2>4, <2>6, <3>1 DEF Holds
      <4>2. Present(AppendedTo(dict[k].data, value)) = Seen(Present(dict[k].data), Stripped(value))
        BY <1>2, PresentOfAppended DEF Stripped
      <4> QED BY <2>3, <4>1, <4>2
    <3>2. item \in ItemsOf(new)
      BY <2>5
    <3> QED BY <1>3, <2>1, <2>5, <2>6, <3>1, <3>2 DEF Holds
  <2>7. CASE item # other
    <3>1. \A k \in 1..n : new[k].item = other => Present(new[k].data) = values
      BY <1>1, <2>2, <2>4, <2>7 DEF Holds
    <3>2. other \notin ItemsOf(new) => values = <<>>
      BY <2>5 DEF Holds
    <3> QED BY <1>3, <2>1, <2>5, <2>7, <3>1, <3>2 DEF Holds
  <2> QED BY <2>6, <2>7
<1>6. CASE IsLeftOut(dict, item, value, new)
  <2>1. Seen(values, Stripped(value)) = values
    BY <1>6 DEF IsLeftOut, Seen, Stripped, Empty, Blank
  <2> QED BY <1>3, <1>6, <2>1 DEF IsLeftOut, KnownItems
<1> QED BY <1>3, <1>4, <1>5, <1>6, Inserted

LEMMA PutHolds ==
  ASSUME NEW I, NEW dict \in Seq(Entry(I)), NEW item \in I, NEW value \in Cells,
         NEW other, NEW values, Holds(dict, other, values),
         RecipientHeader(item) /\ item = other => item \notin ItemsOf(dict)
  PROVE  /\ KnownItems(Put(dict, item, value)) = KnownItems(dict) \cup {item}
         /\ Holds(Put(dict, item, value), other,
                  IF item = other THEN Seen(values, Stripped(value)) ELSE values)
<1>1. CASE ~RecipientHeader(item)
  BY <1>1, PutIsInserted, InsertedHolds
<1>2. CASE RecipientHeader(item)
  <2>1. PICK cleared \in Seq(Entry(I)) : cleared = Cleared(dict, item)
    BY ClearedEntries
  <2>2. PICK n \in Nat : n = Len(dict) /\ n = Len(cleared)
    BY <2>1, ClearedEntries, LenProperties
  <2>3. \A k \in 1..n : cleared[k].item = dict[k].item
    BY <2>1, <2>2, ClearedEntries
  <2>4. \A k \in 1..n : dict[k].item # item => cleared[k] = dict[k]
    BY <2>1, <2>2, ClearedEntries
  <2>5. ItemsOf(cleared) = ItemsOf(dict)
    BY <2>2, <2>3 DEF ItemsOf
  <2>6. Holds(cleared, other, values)
    <3>1. \A k \in 1..n : cleared[k].item = other => Present(cleared[k].data) = values
      <4>1. CASE item = other
        BY <1>2, <2>2, <2>3, <4>1 DEF ItemsOf
      <4>2. CASE item # other
        BY <2>2, <2>3, <2>4, <4>2 DEF Holds
      <4> QED BY <4>1, <4>2
    <3> QED BY <2>2, <2>5, <3>1 DEF Holds
  <2>7. Put(dict, item, value) = InsertOrAppend(cleared, item, value)
    BY <1>2, <2>1, PutIsInserted
  <2>8. KnownItems(cleared) = KnownItems(dict)
    BY <2>5 DEF KnownItems
  <2> QED BY <2>6, <2>7, <2>8, InsertedHolds
<1> QED BY <1>1, <1>2

(* A heading that no other column spells otherwise, nor, if it is the      *)
(* recipient's, has as well; and what stands under it.                     *)
IsAlone(item) ==
  /\ Among(item, file.header)
  /\ \A c \in 1..Len(file.header) : file.header[c].key = item.key => file.header[c] = item
  /\ RecipientHeader(item) =>
       \A c, d \in 1..Len(file.header) : file.header[c] = item /\ file.header[d] = item => c = d

Columns(row, key) ==
  [n \in DOMAIN row |-> IF HasKey(n, key) /\ row[n] # Blank THEN row[n] ELSE Empty]

(* A row is no longer than what is populated but for cells that are empty. *)
FitsIn(row) ==
  row \in Seq(Cells) /\ \A c \in 1..Len(row) : row[c] # Empty => c <= index_of_first_empty_column

LEMMA ValuesInColumns ==
  ASSUME FileInv, NEW row, FitsIn(row), NEW item, IsAlone(item)
  PROVE  /\ Columns(row, item.key) \in Seq(Nat)
         /\ Len(Columns(row, item.key)) = Len(row)
         /\ \A c \in 1..Len(row) :
              /\ c \in 1..Len(column_headers) =>
                   Columns(row, item.key)[c]
                     = IF column_headers[c] = item THEN Stripped(row[c]) ELSE Empty
              /\ c \notin 1..Len(column_headers) => Columns(row, item.key)[c] = Empty
<1>1. PICK n \in Nat : n = Len(row)
  BY LenProperties DEF FitsIn
<1>2. DOMAIN row = 1..n /\ \A c \in 1..n : row[c] \in Cells
  BY <1>1, LenProperties DEF FitsIn
<1>3. PICK columns : columns = Columns(row, item.key)
  OBVIOUS
<1>4. DOMAIN file.header = 1..Len(file.header)
  BY FileIsASpreadsheet, LenProperties
<1>5. ASSUME NEW c \in 1..n
      PROVE  columns[c] = IF HasKey(c, item.key) /\ row[c] # Blank THEN row[c] ELSE Empty
  BY <1>2, <1>3, Zenon DEF Columns
<1>6. \A c \in 1..n : columns[c] \in Nat
  <2>1. ASSUME NEW c \in 1..n PROVE columns[c] \in Nat
    BY <1>2, <1>5 DEF Cells, Empty
  <2> QED BY <2>1
<1>7. columns \in Seq(Nat) /\ Len(columns) = n
  <2>1. columns = [c \in 1..n |-> columns[c]]
    BY <1>2, <1>3, Zenon DEF Columns
  <2>2. columns \in [1..n -> Nat]
    BY <1>6, <2>1, Zenon
  <2> QED BY <2>2
<1>8. ASSUME NEW c \in 1..n, c \notin 1..Populated PROVE columns[c] = Empty
  <2>1. Populated \in Nat /\ c > Populated
    BY <1>8, PopulatedColumns
  <2>2. CASE c \in 1..Len(file.header)
    <3>1. Populated = index_of_first_empty_column
      BY <2>1, <2>2, PopulatedColumns
    <3>2. row[c] = Empty
      BY <1>1, <2>1, <3>1 DEF FitsIn
    <3> QED BY <1>5, <3>2
  <2>3. CASE c \notin 1..Len(file.header)
    BY <1>4, <1>5, <2>3 DEF HasKey
  <2> QED BY <2>2, <2>3
<1>9. ASSUME NEW c \in 1..n, c \in 1..Len(column_headers)
      PROVE  columns[c] = IF column_headers[c] = item THEN Stripped(row[c]) ELSE Empty
  <2>1. CASE c \in 1..Populated
    <3>1. c \in 1..Len(file.header) /\ column_headers[c] = file.header[c]
      BY <2>1, PopulatedColumns, ColumnHeaders
    <3>2. HasKey(c, item.key) <=> column_headers[c] = item
      BY <1>4, <3>1 DEF HasKey, IsAlone
    <3> QED BY <1>5, <3>2 DEF Stripped
  <2>2. CASE c \notin 1..Populated
    <3>1. columns[c] = Empty
      BY <1>8, <2>2
    <3>2. row[c] = Empty
      <4>1. Populated \in Nat /\ c > Populated /\ Len(column_headers) <= Len(file.header)
        BY <2>2, PopulatedColumns, ColumnHeaders
      <4>2. Populated = index_of_first_empty_column
        BY <1>9, <4>1, PopulatedColumns
      <4> QED BY <1>1, <4>1, <4>2 DEF FitsIn
    <3> QED BY <3>1, <3>2 DEF Stripped
  <2> QED BY <2>1, <2>2
<1>10. ASSUME NEW c \in 1..n, c \notin 1..Len(column_headers) PROVE columns[c] = Empty
  <2>1. c \notin 1..Populated
    BY <1>10, ColumnHeaders, PopulatedColumns
  <2> QED BY <1>8, <2>1
<1> QED BY <1>1, <1>3, <1>7, <1>9, <1>10

HasCells(row, headers) == \A k \in 1..Len(headers) : row[k] \in Cells

ByPutting(f, headers, row) ==
  /\ f[0] = <<>>
  /\ \A k \in 1..Len(headers) : f[k] = Put(f[k - 1], headers[k], row[k])
  /\ FilledIn(headers, row) = f[Len(headers)]

LEMMA FilledInSteps ==
  ASSUME NEW I, NEW headers \in Seq(I), NEW row, HasCells(row, headers)
  PROVE  \E f \in [0..Len(headers) -> Seq(Entry(I))] : ByPutting(f, headers, row)
  BY FilledSteps DEF HasCells, ByPutting

(* Under such a heading there is what stands in the columns of the row     *)
(* that are put into it.                                                   *)
LEMMA FilledColumns ==
  ASSUME FileInv, NEW row, FitsIn(row), NEW item, IsAlone(item),
         NEW headers \in Seq(ToSet(file.header)),
         Len(headers) = Min({Len(column_headers), Len(row)}),
         \A c \in 1..Len(headers) : headers[c] = column_headers[c]
  PROVE  /\ FilledIn(headers, row) \in Seq(Entry(ToSet(file.header)))
         /\ KnownItems(FilledIn(headers, row)) = {headers[c] : c \in 1..Len(headers)} \cup {Unheaded}
         /\ Holds(FilledIn(headers, row), item, Present(Columns(row, item.key)))
<1>1. PICK I : I = ToSet(file.header)
  OBVIOUS
<1>2. PICK n \in Nat : n = Len(row)
  BY LenProperties DEF FitsIn
<1>3. PICK m \in 0..n : m = Len(headers) /\ m <= Len(column_headers) /\ (m = n \/ m = Len(column_headers))
  <2>1. Len(column_headers) \in Nat
    BY ColumnHeaders, LenProperties
  <2> QED BY <1>2, <2>1, MinOfTwo
<1>4. /\ Len(column_headers) \in Nat /\ \A c \in 1..m : c \in 1..n /\ c \in 1..Len(column_headers)
      /\ \A c \in 1..m : headers[c] \in I /\ headers[c] = column_headers[c]
      /\ \A c \in 1..n : row[c] \in Cells
  <2>1. Len(column_headers) \in Nat
    BY ColumnHeaders, LenProperties
  <2>2. \A c \in 1..m : headers[c] \in I
    BY <1>1, <1>3, LenProperties
  <2>3. \A c \in 1..n : row[c] \in Cells
    BY <1>2, LenProperties DEF FitsIn
  <2>4. \A c \in 1..m : c \in 1..n /\ c \in 1..Len(column_headers)
    BY <1>3, <2>1
  <2>5. \A c \in 1..m : headers[c] = column_headers[c]
    BY <1>3
  <2> QED BY <2>1, <2>2, <2>3, <2>4, <2>5
<1>5. PICK columns \in Seq(Nat) :
        /\ columns = Columns(row, item.key) /\ Len(columns) = n
        /\ \A c \in 1..m : columns[c] = IF headers[c] = item THEN Stripped(row[c]) ELSE Empty
        /\ \A c \in 1..n : c \notin 1..m => columns[c] = Empty
  <2>1. PICK columns \in Seq(Nat) : columns = Columns(row, item.key) /\ Len(columns) = n
    BY <1>2, ValuesInColumns
  <2>2. ASSUME NEW c \in 1..m
        PROVE  columns[c] = IF headers[c] = item THEN Stripped(row[c]) ELSE Empty
    <3>1. c \in 1..Len(row) /\ c \in 1..Len(column_headers) /\ headers[c] = column_headers[c]
      BY <1>2, <1>4
    <3> QED BY <2>1, <3>1, ValuesInColumns
  <2>3. ASSUME NEW c \in 1..n, c \notin 1..m PROVE columns[c] = Empty
    <3>1. c \in 1..Len(row) /\ c \notin 1..Len(column_headers)
      BY <1>2, <1>3, <2>3
    <3> QED BY <2>1, <3>1, ValuesInColumns
  <2> QED BY <2>1, <2>2, <2>3
<1>6. PICK f \in [0..n -> Seq(Nat)] :
        /\ f[0] = <<>> /\ Present(columns) = f[n]
        /\ \A c \in 1..n : f[c] = Seen(f[c - 1], columns[c])
  <2>1. \E f \in [0..Len(columns) -> Seq(Nat)] :
          /\ f[0] = <<>>
          /\ \A k \in 1..Len(columns) : f[k] = Seen(f[k - 1], columns[k])
          /\ Present(columns) = f[Len(columns)]
    BY PresentSteps
  <2> QED BY <1>5, <2>1
<1>7. PICK g \in [0..m -> Seq(Entry(I))] :
        /\ g[0] = <<>> /\ FilledIn(headers, row) = g[m]
        /\ \A c \in 1..m : g[c] = Put(g[c - 1], headers[c], row[c])
  <2>1. headers \in Seq(I) /\ \A k \in 1..Len(headers) : row[k] \in Cells
    BY <1>1, <1>3, <1>4
  <2>2. HasCells(row, headers)
    BY <2>1 DEF HasCells
  <2>3. \E g \in [0..Len(headers) -> Seq(Entry(I))] : ByPutting(g, headers, row)
    BY <2>1, <2>2, FilledInSteps
  <2> QED BY <1>3, <2>3 DEF ByPutting
<1> DEFINE P(k) == KnownItems(g[k]) = {headers[c] : c \in 1..k} \cup {Unheaded} /\ Holds(g[k], item, f[k])
           T == {k \in 0..m : P(k)}
<1>8. P(0)
  BY <1>6, <1>7 DEF ItemsOf, KnownItems, Holds
<1>9. ASSUME NEW k \in 0..m, P(k), k < m PROVE P(k + 1)
  <2>1. k + 1 \in 1..m /\ k + 1 \in 1..n /\ (k + 1) - 1 = k /\ k \in Nat
    BY <1>3, <1>9
  <2>2. PICK header \in I, value \in Cells : header = headers[k + 1] /\ value = row[k + 1]
    BY <1>4, <2>1
  <2>3. PICK old \in Seq(Entry(I)) : old = g[k]
    BY <1>7
  <2>4. g[k + 1] = Put(old, header, value)
    BY <1>7, <2>1, <2>2, <2>3
  <2>5. ASSUME RecipientHeader(header), header = item PROVE header \notin ItemsOf(old)
    <3>0. header # Unheaded
      BY <2>5, RecipientIsHeaded
    <3>1. SUFFICES ASSUME NEW c \in 1..k, headers[c] = header PROVE FALSE
      BY <1>9, <2>3, <3>0 DEF KnownItems
    <3>2. c \in 1..m /\ c \in 1..((k + 1) - 1) /\ k + 1 \in 1..Len(column_headers)
      BY <1>4, <2>1
    <3>3. column_headers[c] = column_headers[k + 1]
      BY <1>4, <2>1, <2>2, <3>1, <3>2
    <3>4. k + 1 <= Populated
      BY <3>2, <3>3, ColumnHeaders
    <3>5. c \in 1..Populated /\ k + 1 \in 1..Populated
      BY <2>1, <3>4, PopulatedColumns
    <3>6. /\ file.header[c] = item /\ file.header[k + 1] = item
          /\ c \in 1..Len(file.header) /\ k + 1 \in 1..Len(file.header)
      <4>1. c \in 1..Len(file.header) /\ k + 1 \in 1..Len(file.header)
        <5>1. PICK p \in Nat, w \in Nat : p = Populated /\ w = Len(file.header) /\ p <= w
          <6>1. Len(file.header) \in Nat /\ Populated \in 0..Len(file.header)
            BY PopulatedColumns
          <6>2. Populated \in Nat /\ Populated <= Len(file.header)
            BY <6>1
          <6> QED BY <6>1, <6>2
        <5>2. c \in 1..p /\ k + 1 \in 1..p
          BY <3>5, <5>1
        <5>3. 1..p \subseteq 1..w
          BY <5>1
        <5> QED BY <5>1, <5>2, <5>3
      <4>2. file.header[c] = column_headers[c] /\ file.header[k + 1] = column_headers[k + 1]
        BY <3>5, ColumnHeaders
      <4>3. column_headers[k + 1] = item
        BY <1>4, <2>1, <2>2, <2>5
      <4> QED BY <3>3, <4>1, <4>2, <4>3
    <3>7. c = k + 1
      BY <2>5, <3>6 DEF IsAlone
    <3> QED BY <2>1, <3>7
  <2>6. Holds(old, item, f[k])
    BY <1>9, <2>3
  <2>7. /\ KnownItems(g[k + 1]) = KnownItems(old) \cup {header}
        /\ Holds(g[k + 1], item, IF header = item THEN Seen(f[k], Stripped(value)) ELSE f[k])
    BY <2>4, <2>5, <2>6, PutHolds
  <2>8. f[k + 1] = IF header = item THEN Seen(f[k], Stripped(value)) ELSE f[k]
    <3>1. f[k + 1] = Seen(f[k], columns[k + 1])
      BY <1>6, <2>1
    <3>2. columns[k + 1] = IF header = item THEN Stripped(value) ELSE Empty
      BY <1>5, <2>1, <2>2
    <3> QED BY <3>1, <3>2 DEF Seen
  <2>9. KnownItems(g[k + 1]) = {headers[c] : c \in 1..(k + 1)} \cup {Unheaded}
    <3>1. 1..(k + 1) = 1..k \cup {k + 1}
      BY <2>1
    <3> QED BY <1>9, <2>2, <2>3, <2>7, <3>1
  <2> QED BY <2>7, <2>8, <2>9
<1>10. P(m)
  <2> HIDE DEF P
  <2>1. 0 \in T /\ \A k \in 0..m : k \in T /\ k < m => k + 1 \in T
    <3>1. 0 \in 0..m /\ \A k \in 0..m : k < m => k + 1 \in 0..m
      OBVIOUS
    <3> QED BY <1>8, <1>9, <3>1, Zenon
  <2>2. m \in Nat /\ m \in 0..m
    OBVIOUS
  <2>3. \A k \in 0..m : k \in T
    <3> HIDE DEF T
    <3> QED BY <2>1, <2>2, StepByStep
  <2> QED BY <2>2, <2>3
<1> DEFINE U == {k \in 0..n : k >= m => f[k] = f[m]}
<1>11. f[n] = f[m]
  <2>1. 0 \in U
    OBVIOUS
  <2>2. ASSUME NEW k \in 0..n, k \in U, k < n PROVE k + 1 \in U
    <3>1. k + 1 \in 1..n /\ (k + 1) - 1 = k
      BY <2>2
    <3>2. CASE k >= m
      <4>1. columns[k + 1] = Empty
        BY <1>5, <3>1, <3>2
      <4>2. f[k + 1] = f[k]
        BY <1>6, <3>1, <4>1 DEF Seen
      <4> QED BY <2>2, <3>1, <3>2, <4>2
    <3>3. CASE ~(k >= m)
      <4>1. k + 1 >= m => k + 1 = m
        BY <3>3
      <4> QED BY <3>1, <4>1
    <3> QED BY <3>2, <3>3
  <2>3. \A k \in 0..n : k \in U
    <3> HIDE DEF U
    <3> QED BY <2>1, <2>2, StepByStep
  <2>4. n \in 0..n /\ n >= m
    OBVIOUS
  <2> QED BY <2>3, <2>4
<1>12. FilledIn(headers, row) \in Seq(Entry(I))
  BY <1>7
<1>13. Holds(FilledIn(headers, row), item, Present(Columns(row, item.key)))
  BY <1>5, <1>6, <1>7, <1>10, <1>11
<1>14. KnownItems(FilledIn(headers, row)) = {headers[c] : c \in 1..Len(headers)} \cup {Unheaded}
  BY <1>3, <1>7, <1>10
<1> QED BY <1>1, <1>12, <1>13, <1>14

ByPadding(f, dict, headers) ==
  /\ f[0] = dict
  /\ \A k \in 1..Len(headers) : f[k] = InsertOrAppend(f[k - 1], headers[k], Empty)
  /\ Padded(dict, headers) = f[Len(headers)]

LEMMA PaddedInSteps ==
  ASSUME NEW I, NEW headers \in Seq(I), NEW dict \in Seq(Entry(I))
  PROVE  \E f \in [0..Len(headers) -> Seq(Entry(I))] : ByPadding(f, dict, headers)
  BY PaddedSteps DEF ByPadding

(* Cells that are missing add headings and no values.                      *)
LEMMA PaddedColumns ==
  ASSUME NEW I, NEW headers \in Seq(I), NEW dict \in Seq(Entry(I)), NEW item, NEW values
  PROVE  /\ Padded(dict, headers) \in Seq(Entry(I))
         /\ Holds(dict, item, values) =>
              /\ KnownItems(Padded(dict, headers)) = KnownItems(dict) \cup {headers[c] : c \in 1..Len(headers)}
              /\ Holds(Padded(dict, headers), item, values)
<1>1. PICK n \in Nat : n = Len(headers) /\ \A c \in 1..n : headers[c] \in I
  BY LenProperties
<1>2. PICK f \in [0..n -> Seq(Entry(I))] : ByPadding(f, dict, headers)
  BY <1>1, PaddedInSteps
<1>3. /\ f[0] = dict /\ Padded(dict, headers) = f[n]
      /\ \A k \in 1..n : f[k] = InsertOrAppend(f[k - 1], headers[k], Empty)
  BY <1>1, <1>2 DEF ByPadding
<1>4. ASSUME Holds(dict, item, values)
      PROVE  /\ KnownItems(f[n]) = KnownItems(dict) \cup {headers[c] : c \in 1..n}
             /\ Holds(f[n], item, values)
  <2> DEFINE P(k) == /\ KnownItems(f[k]) = KnownItems(dict) \cup {headers[c] : c \in 1..k}
                     /\ Holds(f[k], item, values)
             T == {k \in 0..n : P(k)}
  <2>1. P(0)
    BY <1>3, <1>4
  <2>2. ASSUME NEW k \in 0..n, P(k), k < n PROVE P(k + 1)
    <3>1. k + 1 \in 1..n /\ (k + 1) - 1 = k /\ k \in Nat
      BY <2>2
    <3>2. PICK header \in I, old \in Seq(Entry(I)) : header = headers[k + 1] /\ old = f[k]
      BY <1>1, <1>2, <3>1
    <3>3. f[k + 1] = InsertOrAppend(old, header, Empty)
      BY <1>3, <3>1, <3>2
    <3>4. Empty \in Cells /\ Seen(values, Stripped(Empty)) = values
      BY DEF Cells, Empty, Stripped, Blank, Seen
    <3>5. /\ KnownItems(f[k + 1]) = KnownItems(old) \cup {header}
          /\ Holds(f[k + 1], item, IF header = item THEN Seen(values, Stripped(Empty)) ELSE values)
      <4>1. PICK value \in Cells : value = Empty
        BY <3>4
      <4>2. Holds(old, item, values)
        BY <2>2, <3>2
      <4>3. f[k + 1] = InsertOrAppend(old, header, value)
        BY <3>3, <4>1
      <4> QED BY <4>1, <4>2, <4>3, InsertedHolds
    <3>6. 1..(k + 1) = 1..k \cup {k + 1}
      BY <3>1
    <3>7. KnownItems(f[k + 1]) = KnownItems(dict) \cup {headers[c] : c \in 1..(k + 1)}
      BY <2>2, <3>2, <3>5, <3>6
    <3> QED BY <3>4, <3>5, <3>7
  <2>3. 0 \in T /\ \A k \in 0..n : k \in T /\ k < n => k + 1 \in T
    <3> HIDE DEF P
    <3> QED BY <2>1, <2>2
  <2>4. \A k \in 0..n : k \in T
    <3> HIDE DEF T
    <3> QED BY <2>3, StepByStep
  <2>5. n \in 0..n
    OBVIOUS
  <2> HIDE DEF P
  <2>6. P(n)
    BY <2>4, <2>5
  <2> QED BY <2>6 DEF P
<1>5. f[n] \in Seq(Entry(I))
  BY <1>2
<1> QED BY <1>1, <1>3, <1>4, <1>5

(* A row in parts: the columns with a header, the headers beyond its end,  *)
(* or what is beyond the last header.                                      *)
Extra(row) ==
  SubSeq(row, Len(column_headers) + 1, Min({length_of_widest_row, Len(row)}))

Below(row) == SubSeq(column_headers, 1, Min({Len(column_headers), Len(row)}))
Beyond(row) == SubSeq(column_headers, Len(row) + 1, Len(column_headers))

LEMMA PartsOfARow ==
  ASSUME FileInv, NEW row \in Seq(Cells)
  PROVE  /\ Len(row) \in Nat /\ Len(column_headers) \in Nat
         /\ Below(row) \in Seq(ToSet(file.header)) /\ Beyond(row) \in Seq(ToSet(file.header))
         /\ Len(Below(row)) = Min({Len(column_headers), Len(row)})
         /\ \A c \in 1..Len(Below(row)) : Below(row)[c] = column_headers[c]
         /\ \A c \in 1..Len(column_headers) :
              c > Len(row) => c - Len(row) \in 1..Len(Beyond(row))
                                /\ Beyond(row)[c - Len(row)] = column_headers[c]
<1>1. PICK I : I = ToSet(file.header)
  OBVIOUS
<1>2. PICK all \in Seq(I) : all = column_headers
  BY <1>1, ColumnHeaders
<1>3. PICK w \in Nat, n \in Nat : w = Len(all) /\ n = Len(row)
  BY LenProperties
<1>4. \A c \in 1..w : all[c] \in I
  BY <1>3, LenProperties
<1>5. PICK m \in 0..w : m = Min({w, n}) /\ m <= n
  BY MinOfTwo
<1>6. SubSeq(all, 1, m) \in Seq(I) /\ Len(SubSeq(all, 1, m)) = m /\ \A c \in 1..m : SubSeq(all, 1, m)[c] = all[c]
  <2>1. \A c \in 1..m : all[c] \in I
    BY <1>4
  <2>2. /\ SubSeq(all, 1, m) \in Seq(I)
        /\ Len(SubSeq(all, 1, m)) = IF 1 <= m THEN m - 1 + 1 ELSE 0
        /\ \A c \in 1..m - 1 + 1 : SubSeq(all, 1, m)[c] = all[1 + c - 1]
    BY <2>1, SubSeqProperties
  <2>3. ASSUME NEW c \in 1..m PROVE SubSeq(all, 1, m)[c] = all[c]
    <3>1. c \in 1..m - 1 + 1 /\ 1 + c - 1 = c
      OBVIOUS
    <3> QED BY <2>2, <3>1
  <2> QED BY <2>2, <2>3
<1>7. /\ SubSeq(all, n + 1, w) \in Seq(I)
      /\ \A c \in 1..w : c > n => c - n \in 1..Len(SubSeq(all, n + 1, w))
                                    /\ SubSeq(all, n + 1, w)[c - n] = all[c]
  <2>1. \A c \in n + 1..w : all[c] \in I
    BY <1>4
  <2>2. /\ SubSeq(all, n + 1, w) \in Seq(I)
        /\ Len(SubSeq(all, n + 1, w)) = IF n + 1 <= w THEN w - (n + 1) + 1 ELSE 0
        /\ \A c \in 1..w - (n + 1) + 1 : SubSeq(all, n + 1, w)[c] = all[n + 1 + c - 1]
    BY <2>1, SubSeqProperties
  <2>3. ASSUME NEW c \in 1..w, c > n
        PROVE  c - n \in 1..Len(SubSeq(all, n + 1, w)) /\ SubSeq(all, n + 1, w)[c - n] = all[c]
    <3>1. c - n \in 1..w - (n + 1) + 1 /\ n + 1 + (c - n) - 1 = c /\ n + 1 <= w
      BY <2>3
    <3> QED BY <2>2, <3>1
  <2> QED BY <2>2, <2>3
<1>8. Below(row) = SubSeq(all, 1, m) /\ Beyond(row) = SubSeq(all, n + 1, w)
  BY <1>2, <1>3, <1>5 DEF Below, Beyond
<1> QED BY <1>1, <1>2, <1>3, <1>5, <1>6, <1>7, <1>8

LEMMA OutputInParts ==
  ASSUME NEW row
  PROVE  OutputDict(row) = IF Extra(row) = <<>> THEN Padded(FilledIn(Below(row), row), Beyond(row))
                           ELSE Append(FilledIn(Below(row), row), [item |-> NoHeader, data |-> Extra(row)])
  BY Zenon DEF OutputDict, Extra, Below, Beyond

LEMMA ExtraCells ==
  ASSUME FileInv, NEW row \in Seq(Cells)
  PROVE  /\ Extra(row) # <<>> => Len(column_headers) < Len(row)
         /\ \A c \in 1..Len(row) :
              c > Len(column_headers) /\ c <= index_of_first_empty_column =>
                /\ Extra(row) # <<>>
                /\ c - Len(column_headers) \in 1..Len(Extra(row))
                /\ Extra(row)[c - Len(column_headers)] = row[c]
<1>1. PICK w \in Nat, n \in Nat : w = Len(column_headers) /\ n = Len(row)
  BY PartsOfARow
<1>2. PICK l \in Nat : l = length_of_widest_row /\ l >= index_of_first_empty_column
  BY <1>1, AllUsedColumns, MaxOfTwo DEF length_of_widest_row
<1>3. PICK m \in Nat : m = Min({l, n}) /\ m <= n /\ (m = l \/ m = n)
  BY MinOfTwo
<1>4. PICK extra : extra = Extra(row) /\ extra = SubSeq(row, w + 1, m)
  BY <1>1, <1>2, <1>3 DEF Extra
<1>5. /\ extra \in Seq(Cells) /\ Len(extra) = IF w + 1 <= m THEN m - (w + 1) + 1 ELSE 0
      /\ \A c \in 1..m - (w + 1) + 1 : extra[c] = row[w + 1 + c - 1]
  <2>1. \A c \in w + 1..m : row[c] \in Cells
    <3>1. \A c \in 1..n : row[c] \in Cells
      BY <1>1, LenProperties
    <3>2. \A c \in w + 1..m : c \in 1..n
      BY <1>3
    <3> QED BY <3>1, <3>2
  <2> QED BY <1>4, <2>1, SubSeqProperties
<1>6. ASSUME extra # <<>> PROVE w < n
  <2>1. Len(extra) # 0
    BY <1>5, <1>6, EmptySeq
  <2> QED BY <1>3, <1>5, <2>1
<1>7. ASSUME NEW c \in 1..n, c > w, c <= index_of_first_empty_column
      PROVE  extra # <<>> /\ c - w \in 1..Len(extra) /\ extra[c - w] = row[c]
  <2>1. c \in Nat /\ index_of_first_empty_column \in Nat
    BY AllUsedColumns
  <2>2. c <= m
    BY <1>2, <1>3, <1>7, <2>1
  <2>3. c - w \in 1..m - (w + 1) + 1 /\ w + 1 <= m /\ w + 1 + (c - w) - 1 = c
    BY <1>7, <2>1, <2>2
  <2>4. c - w \in 1..Len(extra) /\ extra[c - w] = row[c]
    BY <1>5, <2>3
  <2>5. extra # <<>>
    BY <2>3, <2>4
  <2> QED BY <2>4, <2>5
<1> QED BY <1>1, <1>4, <1>6, <1>7

(* A row's entries are under headings, but for one without.                *)
AreEntries(dict) ==
  /\ \E S : dict \in Seq(S)
  /\ \A n \in 1..Len(dict) : dict[n] \in Entry(ToSet(file.header)) \/ dict[n].item = NoHeader

LEMMA ItemsOfTheFile ==
  ASSUME FileInv
  PROVE  /\ \A item \in ToSet(file.header) : item.key # NoHeader.key
         /\ \A e \in Entry(ToSet(file.header)) : e.item \in ToSet(file.header) /\ e.data \in Seq(Nat)
<1>1. \A item \in ToSet(file.header) : item.key # NoHeader.key
  <2> SUFFICES ASSUME NEW item \in ToSet(file.header), item.key = NoHeader.key PROVE FALSE
    OBVIOUS
  <2>1. item.key \in KeysOf(file.header)
    BY DEF KeysOf
  <2> QED BY <2>1, FileIsASpreadsheet
<1>2. \A e \in Entry(ToSet(file.header)) : e.item \in ToSet(file.header) /\ e.data \in Seq(Nat)
  BY DEF Entry
<1> QED BY <1>1, <1>2

LEMMA OutputEntries ==
  ASSUME FileInv, NEW row \in Seq(Cells)
  PROVE  /\ FilledIn(Below(row), row) \in Seq(Entry(ToSet(file.header)))
         /\ AreEntries(OutputDict(row))
<1>1. PICK I : I = ToSet(file.header)
  OBVIOUS
<1>2. PICK headers \in Seq(I), rest \in Seq(I) : headers = Below(row) /\ rest = Beyond(row)
  BY <1>1, PartsOfARow
<1>3. HasCells(row, headers)
  <2>1. Len(headers) <= Len(row) /\ \A c \in 1..Len(row) : row[c] \in Cells
    <3>1. Len(row) \in Nat /\ Len(column_headers) \in Nat
      BY PartsOfARow
    <3>2. Len(headers) = Min({Len(column_headers), Len(row)})
      BY <1>2, PartsOfARow
    <3>3. Len(headers) <= Len(row)
      BY <3>1, <3>2, MinOfTwo
    <3> QED BY <3>3, LenProperties
  <2>2. Len(headers) \in Nat /\ Len(row) \in Nat
    BY LenProperties
  <2> QED BY <2>1, <2>2 DEF HasCells
<1>4. PICK filled \in Seq(Entry(I)) : filled = FilledIn(headers, row)
  <2>1. PICK f \in [0..Len(headers) -> Seq(Entry(I))] : ByPutting(f, headers, row)
    BY <1>3, FilledInSteps
  <2>2. Len(headers) \in 0..Len(headers)
    BY LenProperties
  <2> QED BY <2>1, <2>2 DEF ByPutting
<1>5. CASE Extra(row) = <<>>
  <2>1. PICK padded \in Seq(Entry(I)) : padded = Padded(filled, rest)
    BY PaddedColumns
  <2>2. OutputDict(row) = padded
    BY <1>2, <1>4, <1>5, <2>1, OutputInParts
  <2>3. \A n \in 1..Len(padded) : padded[n] \in Entry(I)
    BY LenProperties
  <2> QED BY <1>1, <1>2, <1>4, <2>1, <2>2, <2>3 DEF AreEntries
<1>6. CASE Extra(row) # <<>>
  <2>1. PICK e : e = [item |-> NoHeader, data |-> Extra(row)]
    OBVIOUS
  <2>2. PICK S : S = Entry(I) \cup {e}
    OBVIOUS
  <2>3. filled \in Seq(S) /\ e \in S
    BY <2>2
  <2>4. PICK out \in Seq(S) : out = Append(filled, e)
    BY <2>3, Appended
  <2>5. OutputDict(row) = out
    BY <1>2, <1>4, <1>6, <2>1, <2>4, OutputInParts
  <2>6. \A n \in 1..Len(out) : out[n] \in Entry(I) \/ out[n].item = NoHeader
    <3>1. \A n \in 1..Len(out) : out[n] \in S
      BY LenProperties
    <3> QED BY <2>1, <2>2, <3>1
  <2> QED BY <1>1, <1>2, <1>4, <2>5, <2>6 DEF AreEntries
<1> QED BY <1>5, <1>6

(* Under a heading that is alone there is what stands in its columns.      *)
LEMMA OutputHolds ==
  ASSUME FileInv, NEW row, FitsIn(row), NEW item, IsAlone(item)
  PROVE  /\ item \in KnownItems(OutputDict(row))
         /\ Holds(OutputDict(row), item, Present(Columns(row, item.key)))
<1>0. row \in Seq(Cells)
  BY DEF FitsIn
<1>1. PICK I : I = ToSet(file.header)
  OBVIOUS
<1>2. PICK headers \in Seq(I), rest \in Seq(I) : headers = Below(row) /\ rest = Beyond(row)
  BY <1>0, <1>1, PartsOfARow
<1>3. PICK values : values = Present(Columns(row, item.key))
  OBVIOUS
<1>4. PICK filled \in Seq(Entry(I)) :
        /\ filled = FilledIn(headers, row) /\ Holds(filled, item, values)
        /\ KnownItems(filled) = {headers[c] : c \in 1..Len(headers)} \cup {Unheaded}
  <2>1. /\ Len(headers) = Min({Len(column_headers), Len(row)})
        /\ \A c \in 1..Len(headers) : headers[c] = column_headers[c]
    BY <1>0, <1>2, PartsOfARow
  <2> QED BY <1>1, <1>3, <2>1, FilledColumns
<1>5. PICK w \in Nat, n \in Nat : w = Len(column_headers) /\ n = Len(row)
  BY <1>0, PartsOfARow
<1>6. PICK d \in 1..w : column_headers[d] = item
  <2>1. PICK c \in 1..Len(file.header) : file.header[c] = item
    BY DEF IsAlone, Among
  <2>2. Among(item, column_headers)
    BY <2>1, ColumnHeaders
  <2> QED BY <1>5, <2>2 DEF Among
<1>7. d <= n => item \in KnownItems(filled)
  <2> SUFFICES ASSUME d <= n PROVE item \in KnownItems(filled)
    OBVIOUS
  <2>1. Len(headers) = Min({w, n})
    BY <1>0, <1>2, <1>5, PartsOfARow
  <2>2. d \in 1..Len(headers)
    BY <2>1, MinOfTwo
  <2>3. headers[d] = item
    BY <1>0, <1>2, <1>6, <2>2, PartsOfARow
  <2> QED BY <1>4, <2>2, <2>3
<1>8. CASE Extra(row) = <<>>
  <2>1. PICK padded : padded = Padded(filled, rest)
    OBVIOUS
  <2>2. OutputDict(row) = padded
    BY <1>2, <1>4, <1>8, <2>1, OutputInParts
  <2>3. /\ KnownItems(padded) = KnownItems(filled) \cup {rest[c] : c \in 1..Len(rest)}
        /\ Holds(padded, item, values)
    BY <1>4, <2>1, PaddedColumns
  <2>4. item \in KnownItems(padded)
    <3>1. CASE d <= n
      BY <1>7, <2>3, <3>1
    <3>2. CASE ~(d <= n)
      <4>1. d > n
        BY <3>2
      <4>2. d - n \in 1..Len(rest) /\ rest[d - n] = item
        BY <1>0, <1>2, <1>5, <1>6, <4>1, PartsOfARow
      <4> QED BY <2>3, <4>2
    <3> QED BY <3>1, <3>2
  <2> QED BY <1>3, <2>2, <2>3, <2>4
<1>9. CASE Extra(row) # <<>>
  <2>1. PICK e : e = [item |-> NoHeader, data |-> Extra(row)]
    OBVIOUS
  <2>2. PICK S : S = Entry(I) \cup {e}
    OBVIOUS
  <2>3. filled \in Seq(S) /\ e \in S
    BY <2>2
  <2>4. PICK out \in Seq(S) : out = Append(filled, e)
    BY <2>3, Appended
  <2>5. OutputDict(row) = out
    BY <1>2, <1>4, <1>9, <2>1, <2>4, OutputInParts
  <2>6. /\ Len(filled) \in Nat /\ Len(out) = Len(filled) + 1 /\ out[Len(filled) + 1] = e
        /\ \A k \in 1..Len(filled) : out[k] = filled[k]
    BY <2>3, <2>4, Appended
  <2>7. e.item # item
    <3>1. item \in ToSet(file.header)
      <4>1. file.header \in Seq(ToSet(file.header))
        BY FileIsASpreadsheet
      <4> QED BY <4>1, AmongThem DEF IsAlone
    <3> QED BY <2>1, <3>1, ItemsOfTheFile
  <2>8. item \in KnownItems(filled)
    <3>1. w < n
      BY <1>0, <1>5, <1>9, ExtraCells
    <3> QED BY <1>7, <3>1
  <2>9. item \in KnownItems(out)
    <3>1. \A k \in 1..Len(filled) : k \in 1..Len(out) /\ out[k].item = filled[k].item
      BY <2>6
    <3> QED BY <2>8, <3>1 DEF KnownItems, ItemsOf
  <2>10. \A k \in 1..Len(out) : out[k].item = item => Present(out[k].data) = values
    <3> SUFFICES ASSUME NEW k \in 1..Len(out), out[k].item = item
                 PROVE  Present(out[k].data) = values
      OBVIOUS
    <3>1. k \in 1..Len(filled)
      BY <2>6, <2>7
    <3> QED BY <1>4, <2>6, <3>1 DEF Holds
  <2>11. item \notin ItemsOf(out) => values = <<>>
    <3>1. \A k \in 1..Len(filled) : k \in 1..Len(out) /\ out[k].item = filled[k].item
      BY <2>6
    <3>2. item \notin ItemsOf(out) => item \notin ItemsOf(filled)
      BY <3>1 DEF ItemsOf
    <3> QED BY <1>4, <3>2 DEF Holds
  <2> QED BY <1>3, <2>5, <2>9, <2>10, <2>11 DEF Holds
<1> QED BY <1>8, <1>9

(* The data of a row, by its keys.                                         *)
DataOfRow(row) == DictOf(OutputDict(row))
UnderKey(data, key) == IF key \in DOMAIN data THEN data[key] ELSE <<>>

LEMMA DataIsData ==
  ASSUME FileInv, NEW row \in Seq(Cells)
  PROVE  IsData(DataOfRow(row))
<1>1. PICK out : out = OutputDict(row)
  OBVIOUS
<1>2. AreEntries(out)
  BY <1>1, OutputEntries
<1>3. PICK S : out \in Seq(S)
  BY <1>2 DEF AreEntries
<1>4. ASSUME NEW key \in DOMAIN DictOf(out), key # NoHeader.key PROVE DictOf(out)[key] \in Seq(Nat)
  <2>0. \A other \in DOMAIN DictOf(out) :
          \E k \in 1..Len(out) :
            /\ out[k].item.key = other /\ DictOf(out)[other] = out[k].data
            /\ \A m \in 1..Len(out) : out[m].item.key = other => m <= k
    BY <1>3, LastEntryCounts
  <2>1. PICK k \in 1..Len(out) : out[k].item.key = key /\ DictOf(out)[key] = out[k].data
    BY <1>4, <2>0
  <2>2. out[k] \in Entry(ToSet(file.header))
    BY <1>2, <1>4, <2>1 DEF AreEntries
  <2> QED BY <2>1, <2>2, ItemsOfTheFile
<1> QED BY <1>1, <1>4 DEF IsData, DataOfRow

LEMMA AtMostOne ==
  ASSUME NEW n \in Nat, NEW places, places \subseteq 1..n, ~(Cardinality(places) > 1)
  PROVE  \A c, d \in places : c = d
<1> SUFFICES ASSUME NEW c \in places, NEW d \in places, c # d PROVE FALSE
  OBVIOUS
<1>1. IsFiniteSet(places)
  <2>1. IsFiniteSet(1..n)
    BY FS_Interval
  <2> QED BY <2>1, FS_Subset
<1>2. Cardinality({c, d}) <= Cardinality(places)
  BY <1>1, FS_Subset
<1>3. Cardinality({c, d}) = 2
  <2>1. IsFiniteSet({c}) /\ Cardinality({c}) = 1
    BY FS_Singleton
  <2>2. Cardinality({c} \cup {d}) = Cardinality({c}) + 1
    BY <2>1, FS_AddElement
  <2>3. {c} \cup {d} = {c, d}
    OBVIOUS
  <2> QED BY <2>1, <2>2, <2>3
<1>4. Cardinality(places) \in Nat
  BY <1>1, FS_CardinalityType
<1> QED BY <1>2, <1>3, <1>4

(* A key with one spelling is that of a heading that is alone.             *)
LEMMA OneSpellingIsAlone ==
  ASSUME FileInv, NEW key \in KeysOf(file.header), OneSpelling(key),
         key = Recipient => ~duplicate_recipient_column_headers
  PROVE  \E item : item.key = key /\ IsAlone(item)
<1>1. PICK n \in Nat : n = Len(file.header) /\ DOMAIN file.header = 1..n
  BY FileIsASpreadsheet, LenProperties
<1>2. PICK c \in 1..n : file.header[c].key = key
  <2>1. key \in FirstKeys(file.header, n)
    BY <1>1, FileIsASpreadsheet, KeysAreFirstKeys
  <2> QED BY <2>1 DEF FirstKeys
<1>3. PICK item : item = file.header[c]
  OBVIOUS
<1>4. Among(item, file.header)
  BY <1>1, <1>3 DEF Among
<1>5. \A d \in 1..n : file.header[d].key = key => file.header[d] = item
  <2>1. PICK spelt : spelt = {i \in ToSet(file.header) : i.key = key}
    OBVIOUS
  <2>2. \A d \in 1..n : file.header[d] \in ToSet(file.header)
    BY <1>1 DEF ToSet
  <2>3. Cardinality(spelt) = 1
    BY <2>1 DEF OneSpelling
  <2>4. IsFiniteSet(spelt)
    <3>1. IsFiniteSet(1..n)
      BY FS_Interval
    <3>2. PICK f : f = [d \in 1..n |-> file.header[d]]
      OBVIOUS
    <3>3. f \in Surjection(1..n, ToSet(file.header))
      <4>1. f \in [1..n -> ToSet(file.header)]
        BY <2>2, <3>2
      <4>2. \A i \in ToSet(file.header) : \E d \in 1..n : f[d] = i
        BY <1>1, <3>2 DEF ToSet
      <4> QED BY <4>1, <4>2 DEF Surjection
    <3>4. IsFiniteSet(ToSet(file.header))
      BY <3>1, <3>3, FS_Surjection
    <3> QED BY <2>1, <3>4, FS_Subset
  <2>5. \E x : spelt = {x}
    BY <2>3, <2>4, FS_Singleton
  <2> QED BY <1>2, <1>3, <2>1, <2>2, <2>5
<1>6. ASSUME RecipientHeader(item), NEW d \in 1..n, NEW e \in 1..n,
             file.header[d] = item, file.header[e] = item
      PROVE  d = e
  <2>1. key = Recipient
    BY <1>2, <1>3, <1>6 DEF RecipientHeader
  <2>2. ~(Cardinality(raw_recipient_columns) > 1)
    BY <2>1 DEF duplicate_recipient_column_headers
  <2>3. /\ raw_recipient_columns \subseteq 1..n
        /\ d \in raw_recipient_columns /\ e \in raw_recipient_columns
    BY <1>1, <1>6 DEF raw_recipient_columns
  <2> QED BY <2>2, <2>3, AtMostOne
<1>7. IsAlone(item)
  BY <1>1, <1>2, <1>3, <1>4, <1>5, <1>6 DEF IsAlone
<1> QED BY <1>2, <1>3, <1>7

LEMMA ValuesStay ==
  ASSUME FileInv, NEW row, FitsIn(row), NEW key \in KeysOf(file.header), OneSpelling(key),
         key = Recipient => ~duplicate_recipient_column_headers
  PROVE  Present(UnderKey(DataOfRow(row), key)) = ValuesUnder(row, key)
<1>0. row \in Seq(Cells)
  BY DEF FitsIn
<1>1. PICK item : item.key = key /\ IsAlone(item)
  BY OneSpellingIsAlone
<1>2. PICK out : out = OutputDict(row)
  OBVIOUS
<1>3. AreEntries(out)
  BY <1>0, <1>2, OutputEntries
<1>4. Holds(out, item, Present(Columns(row, key)))
  BY <1>1, <1>2, OutputHolds
<1>5. PICK S : out \in Seq(S)
  BY <1>3 DEF AreEntries
<1>6. ValuesUnder(row, key) = Present(Columns(row, key))
  BY Zenon DEF ValuesUnder, Columns
<1>7. CASE key \in DOMAIN DictOf(out)
  <2>1. PICK k \in 1..Len(out) : out[k].item.key = key /\ DictOf(out)[key] = out[k].data
    BY <1>5, <1>7, LastEntryCounts
  <2>2. out[k].item = item
    <3>1. key # NoHeader.key
      BY FileIsASpreadsheet
    <3>2. out[k] \in Entry(ToSet(file.header))
      BY <1>3, <2>1, <3>1 DEF AreEntries
    <3>3. out[k].item \in ToSet(file.header)
      BY <3>2, ItemsOfTheFile
    <3>4. Among(out[k].item, file.header)
      BY <3>3, FileIsASpreadsheet, AmongThem
    <3> QED BY <1>1, <2>1, <3>4 DEF Among, IsAlone
  <2>3. Present(out[k].data) = Present(Columns(row, key))
    BY <1>4, <2>2 DEF Holds
  <2> QED BY <1>2, <1>6, <1>7, <2>1, <2>3 DEF DataOfRow, UnderKey
<1>8. CASE key \notin DOMAIN DictOf(out)
  <2>1. item \notin ItemsOf(out)
    <3> SUFFICES ASSUME NEW k \in 1..Len(out), out[k].item = item PROVE FALSE
      BY DEF ItemsOf
    <3> QED BY <1>1, <1>5, <1>8, LastEntryCounts
  <2>2. Present(Columns(row, key)) = <<>>
    BY <1>4, <2>1 DEF Holds
  <2> QED BY <1>2, <1>6, <1>8, <2>2, PresentOfNothing DEF DataOfRow, UnderKey
<1> QED BY <1>7, <1>8

(* What stands beyond the last header is under no header.                  *)
LEMMA ExtraStays ==
  ASSUME FileInv, NEW row, FitsIn(row), Used(row) > Len(file.header),
         Used(row) <= index_of_first_empty_column,
         NEW c \in Len(file.header) + 1..Used(row)
  PROVE  \E d \in DOMAIN DataOfRow(row)[NoHeader.key] : DataOfRow(row)[NoHeader.key][d] = row[c]
<1>0. row \in Seq(Cells)
  BY DEF FitsIn
<1>1. PICK w \in Nat : w = Len(column_headers) /\ w <= Len(file.header)
  BY ColumnHeaders, PopulatedColumns
<1>2. /\ Len(file.header) \in Nat /\ Len(row) \in Nat /\ index_of_first_empty_column \in Nat
      /\ Used(row) \in 0..Len(row)
  BY <1>0, AllUsedColumns, FileIsASpreadsheet, LenProperties, UsedColumns
<1>3. c \in 1..Len(row) /\ c > w /\ c <= index_of_first_empty_column
  BY <1>1, <1>2
<1>4. /\ Extra(row) # <<>> /\ c - w \in 1..Len(Extra(row)) /\ Extra(row)[c - w] = row[c]
  BY <1>0, <1>1, <1>3, ExtraCells
<1>5. PICK e : e = [item |-> NoHeader, data |-> Extra(row)]
  OBVIOUS
<1>6. PICK filled : filled = FilledIn(Below(row), row) /\ filled \in Seq(Entry(ToSet(file.header)))
  BY <1>0, OutputEntries
<1>7. PICK S : S = Entry(ToSet(file.header)) \cup {e}
  OBVIOUS
<1>8. filled \in Seq(S) /\ e \in S
  BY <1>6, <1>7
<1>9. PICK out \in Seq(S) : out = Append(filled, e)
  BY <1>8, Appended
<1>10. OutputDict(row) = out
  BY <1>4, <1>5, <1>6, <1>9, OutputInParts
<1>11. Len(filled) \in Nat /\ Len(out) = Len(filled) + 1 /\ out[Len(filled) + 1] = e
  BY <1>8, <1>9, Appended
<1>12. Len(out) \in 1..Len(out) /\ out[Len(out)] = e
  BY <1>11
<1>13. NoHeader.key \in DOMAIN DictOf(out)
  <2>1. out[Len(out)].item.key \in DOMAIN DictOf(out)
    BY <1>9, <1>12, LastEntryCounts
  <2> QED BY <1>5, <1>12, <2>1
<1>14. PICK k \in 1..Len(out) :
         /\ out[k].item.key = NoHeader.key /\ DictOf(out)[NoHeader.key] = out[k].data
         /\ \A m \in 1..Len(out) : out[m].item.key = NoHeader.key => m <= k
  BY <1>9, <1>13, LastEntryCounts
<1>15. k = Len(out)
  <2>1. Len(out) <= k
    BY <1>5, <1>12, <1>14
  <2> QED BY <1>11, <2>1
<1>16. DataOfRow(row)[NoHeader.key] = Extra(row)
  BY <1>5, <1>10, <1>12, <1>14, <1>15 DEF DataOfRow
<1>17. c - w \in DOMAIN Extra(row)
  BY <1>4
<1> QED BY <1>4, <1>16, <1>17

-----------------------------------------------------------------------------
(* What is read under a heading, whatever other columns there are: no      *)
(* value that does not stand in one of its columns, nothing before the     *)
(* first, and of recipients one at most.                                   *)
Stands(value, item, row) ==
  \E c \in 1..Len(row) : c <= Len(column_headers) /\ column_headers[c] = item /\ row[c] = value

IsRead(entry, row) ==
  /\ entry.data # <<>> => entry.data[1] # Empty
  /\ \A d \in 1..Len(entry.data) :
       entry.data[d] # Empty => Stands(entry.data[d], entry.item, row)
  /\ RecipientHeader(entry.item) => Len(entry.data) <= 1

AreRead(dict, row) == \A n \in 1..Len(dict) : IsRead(dict[n], row)

LEMMA FirstIsRead ==
  ASSUME NEW item, NEW value \in Cells, NEW row,
         value \notin {Empty, Blank} => Stands(value, item, row)
  PROVE  IsRead([item |-> item, data |-> DataOf(value)], row)
<1>1. CASE value \in {Empty, Blank}
  <2>1. DataOf(value) = <<>>
    BY <1>1 DEF DataOf
  <2> QED BY <2>1 DEF IsRead
<1>2. CASE value \notin {Empty, Blank}
  <2>1. PICK data : data = <<value>>
    OBVIOUS
  <2>2. DataOf(value) = data /\ Len(data) = 1 /\ data[1] = value
    BY <1>2, <2>1 DEF DataOf
  <2>3. \A d \in 1..Len(data) : data[d] = value
    BY <2>2
  <2>4. Stands(value, item, row) /\ value # Empty
    BY <1>2
  <2>5. PICK entry : entry.item = item /\ entry.data = data /\ entry = [item |-> item, data |-> data]
    OBVIOUS
  <2>6. IsRead(entry, row)
    <3>1. Len(entry.data) = 1 /\ entry.data[1] # Empty
      BY <2>2, <2>4, <2>5
    <3>2. \A d \in 1..Len(entry.data) : Stands(entry.data[d], entry.item, row)
      BY <2>3, <2>4, <2>5
    <3> QED BY <3>1, <3>2 DEF IsRead
  <2> QED BY <2>2, <2>5, <2>6
<1> QED BY <1>1, <1>2

LEMMA NextIsRead ==
  ASSUME NEW item, NEW data \in Seq(Nat), NEW value \in Cells, NEW row,
         IsRead([item |-> item, data |-> data], row),
         value \notin {Empty, Blank} => Stands(value, item, row),
         RecipientHeader(item) => data = <<>>
  PROVE  IsRead([item |-> item, data |-> AppendedTo(data, value)], row)
<1>1. CASE data = <<>>
  BY <1>1, FirstIsRead DEF AppendedTo
<1>2. CASE data # <<>>
  <2>1. PICK n \in Nat : n = Len(data)
    BY LenProperties
  <2>2. PICK added \in Nat : added = Max({value, Empty}) /\ (added # Empty => added = value)
    BY NotBlank DEF Cells, Blank, Empty
  <2>3. PICK more : more = Append(data, added)
    OBVIOUS
  <2>4. /\ Len(more) = n + 1 /\ more[n + 1] = added /\ \A d \in 1..n : more[d] = data[d]
    BY <2>1, <2>2, <2>3, Appended
  <2>5. n >= 1
    BY <1>2, <2>1, EmptySeq
  <2>6. more[1] # Empty
    BY <1>2, <2>4, <2>5 DEF IsRead
  <2>7. ASSUME NEW d \in 1..(n + 1), more[d] # Empty PROVE Stands(more[d], item, row)
    <3>1. CASE d \in 1..n
      BY <2>1, <2>4, <2>7, <3>1 DEF IsRead
    <3>2. CASE d = n + 1
      <4>1. more[d] = value /\ value # Empty
        BY <2>2, <2>4, <2>7, <3>2
      <4>2. value # Blank
        BY <2>2, <2>4, <2>7, <3>2 DEF Blank
      <4> QED BY <4>1, <4>2
    <3> QED BY <3>1, <3>2
  <2>8. AppendedTo(data, value) = more
    BY <1>2, <2>2, <2>3 DEF AppendedTo
  <2> QED BY <1>2, <2>4, <2>6, <2>7, <2>8 DEF IsRead
<1> QED BY <1>1, <1>2

(* An entry and its copy say the same.                                     *)
LEMMA InsertedIsRead ==
  ASSUME NEW I, NEW row, NEW dict \in Seq(Entry(I)), NEW item \in I, NEW value \in Cells,
         AreRead(dict, row), value \notin {Empty, Blank} => Stands(value, item, row),
         RecipientHeader(item) => \A n \in 1..Len(dict) : dict[n].item = item => dict[n].data = <<>>
  PROVE  AreRead(InsertOrAppend(dict, item, value), row)
<1>1. PICK n \in Nat : n = Len(dict)
  BY LenProperties
<1>2. PICK new : new = InsertOrAppend(dict, item, value)
  OBVIOUS
<1>3. CASE IsNew(dict, item, value, new)
  <2>1. /\ Len(new) = n + 1 /\ \A k \in 1..n : new[k] = dict[k]
        /\ new[n + 1] = [item |-> item, data |-> DataOf(value)]
    BY <1>1, <1>3 DEF IsNew
  <2>2. IsRead(new[n + 1], row)
    BY <2>1, FirstIsRead
  <2>3. \A k \in 1..(n + 1) : k \in 1..n \/ k = n + 1
    OBVIOUS
  <2> QED BY <1>1, <1>2, <2>1, <2>2, <2>3 DEF AreRead
<1>4. CASE IsThere(dict, item, value, new)
  <2>1. Len(new) = n
    BY <1>1, <1>4 DEF IsThere
  <2>2. ASSUME NEW k \in 1..n PROVE IsRead(new[k], row)
    <3>1. CASE dict[k].item # item
      <4>1. new[k] = dict[k]
        BY <1>1, <1>4, <3>1 DEF IsThere
      <4> QED BY <1>1, <4>1 DEF AreRead
    <3>2. CASE dict[k].item = item
      <4>1. PICK data \in Seq(Nat) : dict[k] = [item |-> item, data |-> data]
        <5>1. PICK e \in Entry(I) : e = dict[k]
          BY <1>1, LenProperties
        <5>2. e = [item |-> e.item, data |-> e.data] /\ e.data \in Seq(Nat)
          BY DEF Entry
        <5> QED BY <3>2, <5>1, <5>2
      <4>2. new[k] = [item |-> item, data |-> AppendedTo(dict[k].data, value)]
        BY <1>1, <1>4, <3>2, Zenon DEF IsThere
      <4>3. new[k] = [item |-> item, data |-> AppendedTo(data, value)]
        BY <4>1, <4>2
      <4>4. IsRead([item |-> item, data |-> data], row)
        BY <1>1, <4>1 DEF AreRead
      <4>5. RecipientHeader(item) => data = <<>>
        BY <1>1, <3>2, <4>1
      <4> QED BY <4>3, <4>4, <4>5, NextIsRead
    <3> QED BY <3>1, <3>2
  <2> QED BY <1>2, <2>1, <2>2 DEF AreRead
<1>5. CASE IsLeftOut(dict, item, value, new)
  BY <1>2, <1>5 DEF IsLeftOut
<1> QED BY <1>2, <1>3, <1>4, <1>5, Inserted

LEMMA PutIsRead ==
  ASSUME NEW I, NEW row, NEW dict \in Seq(Entry(I)), NEW item \in I, NEW value \in Cells,
         AreRead(dict, row), value \notin {Empty, Blank} => Stands(value, item, row)
  PROVE  /\ AreRead(Put(dict, item, value), row)
         /\ KnownItems(Put(dict, item, value)) = KnownItems(dict) \cup {item}
<1>1. CASE ~RecipientHeader(item)
  BY <1>1, PutIsInserted, InsertedIsRead, InsertedItems
<1>2. CASE RecipientHeader(item)
  <2>1. PICK cleared \in Seq(Entry(I)) : cleared = Cleared(dict, item)
    BY ClearedEntries
  <2>2. PICK n \in Nat : n = Len(dict) /\ n = Len(cleared)
    BY <2>1, ClearedEntries, LenProperties
  <2>3. \A k \in 1..n : /\ cleared[k].item = dict[k].item
                        /\ IF dict[k].item = item THEN cleared[k].data = <<>>
                           ELSE cleared[k] = dict[k]
    BY <2>1, <2>2, ClearedEntries
  <2>4. ItemsOf(cleared) = ItemsOf(dict)
    BY <2>2, <2>3 DEF ItemsOf
  <2>5. ASSUME NEW k \in 1..n PROVE IsRead(cleared[k], row)
    <3>1. CASE dict[k].item = item
      <4>1. cleared[k].data = <<>>
        BY <2>3, <3>1
      <4> QED BY <4>1 DEF IsRead
    <3>2. CASE dict[k].item # item
      BY <2>2, <2>3, <3>2 DEF AreRead
    <3> QED BY <3>1, <3>2
  <2>6. AreRead(cleared, row)
    BY <2>2, <2>5 DEF AreRead
  <2>7. \A k \in 1..n : cleared[k].item = item => cleared[k].data = <<>>
    BY <2>3
  <2>8. Put(dict, item, value) = InsertOrAppend(cleared, item, value)
    BY <1>2, <2>1, PutIsInserted
  <2>9. AreRead(InsertOrAppend(cleared, item, value), row)
    BY <2>2, <2>6, <2>7, InsertedIsRead
  <2>10. KnownItems(cleared) = KnownItems(dict)
    BY <2>4 DEF KnownItems
  <2> QED BY <2>8, <2>9, <2>10, InsertedItems
<1> QED BY <1>1, <1>2

(* The columns with a header that the row has.                             *)
LEMMA FilledIsRead ==
  ASSUME FileInv, NEW row \in Seq(Cells)
  PROVE  /\ FilledIn(Below(row), row) \in Seq(Entry(ToSet(file.header)))
         /\ AreRead(FilledIn(Below(row), row), row)
         /\ KnownItems(FilledIn(Below(row), row))
              = {Below(row)[c] : c \in 1..Len(Below(row))} \cup {Unheaded}
<1>1. PICK I : I = ToSet(file.header)
  OBVIOUS
<1>2. PICK headers \in Seq(I) : headers = Below(row)
  BY <1>1, PartsOfARow
<1>3. PICK n \in Nat, w \in Nat : n = Len(headers) /\ w = Len(column_headers) /\ n <= w /\ n <= Len(row)
  <2>1. Len(row) \in Nat /\ Len(column_headers) \in Nat
    BY PartsOfARow
  <2>2. Len(headers) = Min({Len(column_headers), Len(row)})
    BY <1>2, PartsOfARow
  <2> QED BY <2>1, <2>2, MinOfTwo, LenProperties
<1>4. \A c \in 1..n : headers[c] \in I /\ headers[c] = column_headers[c] /\ row[c] \in Cells
  <2>1. \A c \in 1..n : c \in 1..Len(row)
    BY <1>3, PartsOfARow
  <2>2. \A c \in 1..n : headers[c] = column_headers[c]
    BY <1>2, <1>3, PartsOfARow
  <2> QED BY <1>3, <2>1, <2>2, LenProperties
<1>5. PICK f \in [0..n -> Seq(Entry(I))] : ByPutting(f, headers, row)
  <2>1. HasCells(row, headers)
    BY <1>3, <1>4 DEF HasCells
  <2> QED BY <1>3, <2>1, FilledInSteps
<1>6. /\ f[0] = <<>> /\ FilledIn(headers, row) = f[n]
      /\ \A k \in 1..n : f[k] = Put(f[k - 1], headers[k], row[k])
  BY <1>3, <1>5 DEF ByPutting
<1> DEFINE P(k) == AreRead(f[k], row) /\ KnownItems(f[k]) = {headers[c] : c \in 1..k} \cup {Unheaded}
           T == {k \in 0..n : P(k)}
<1>7. P(0)
  <2>1. Len(f[0]) = 0
    BY <1>6
  <2> QED BY <2>1 DEF AreRead, ItemsOf, KnownItems
<1>8. ASSUME NEW k \in 0..n, P(k), k < n PROVE P(k + 1)
  <2>1. k + 1 \in 1..n /\ (k + 1) - 1 = k /\ k \in Nat
    BY <1>8
  <2>2. PICK header \in I, old \in Seq(Entry(I)), value \in Cells :
          header = headers[k + 1] /\ old = f[k] /\ value = row[k + 1]
    BY <1>4, <1>5, <2>1
  <2>3. f[k + 1] = Put(old, header, value)
    BY <1>6, <2>1, <2>2
  <2>4. Stands(value, header, row)
    <3>1. k + 1 \in 1..Len(row) /\ k + 1 <= Len(column_headers)
      BY <1>3, <2>1, PartsOfARow
    <3> QED BY <1>4, <2>1, <2>2, <3>1 DEF Stands
  <2>5. AreRead(old, row) /\ KnownItems(old) = {headers[c] : c \in 1..k} \cup {Unheaded}
    BY <1>8, <2>2
  <2>6. AreRead(f[k + 1], row) /\ KnownItems(f[k + 1]) = KnownItems(old) \cup {header}
    BY <2>3, <2>4, <2>5, PutIsRead
  <2>7. 1..(k + 1) = 1..k \cup {k + 1}
    BY <2>1
  <2>8. KnownItems(f[k + 1]) = {headers[c] : c \in 1..(k + 1)} \cup {Unheaded}
    BY <2>2, <2>5, <2>6, <2>7
  <2> QED BY <2>6, <2>8
<1>9. 0 \in T /\ \A k \in 0..n : k \in T /\ k < n => k + 1 \in T
  <2> HIDE DEF P
  <2> QED BY <1>7, <1>8
<1>10. \A k \in 0..n : k \in T
  <2> HIDE DEF T
  <2> QED BY <1>9, StepByStep
<1>11. n \in 0..n
  OBVIOUS
<1> HIDE DEF P
<1>12. P(n) /\ f[n] \in Seq(Entry(I))
  BY <1>5, <1>10, <1>11
<1> QED BY <1>1, <1>2, <1>3, <1>6, <1>12 DEF P

(* A recipient column that is not repeated is one of the columns once.     *)
LEMMA OneRecipientColumn ==
  ASSUME FileInv, ~duplicate_recipient_column_headers,
         NEW c \in 1..Len(column_headers), NEW d \in 1..Len(column_headers),
         RecipientHeader(column_headers[c]), RecipientHeader(column_headers[d])
  PROVE  c = d
<1>1. PICK n \in Nat : n = Len(file.header) /\ DOMAIN file.header = 1..n
  BY FileIsASpreadsheet, LenProperties
<1>2. PICK w \in Nat : w = Len(column_headers) /\ \A k \in 1..w : column_headers[k] \in ToSet(file.header)
  BY ColumnHeaders, LenProperties
<1>3. raw_recipient_columns \subseteq 1..n /\ ~(Cardinality(raw_recipient_columns) > 1)
  BY <1>1 DEF raw_recipient_columns, duplicate_recipient_column_headers
<1>4. \A k, l \in 1..n : RecipientHeader(file.header[k]) /\ RecipientHeader(file.header[l]) => k = l
  <2>1. \A k, l \in raw_recipient_columns : k = l
    BY <1>3, AtMostOne
  <2> QED BY <1>1, <2>1 DEF raw_recipient_columns
<1>5. column_headers[c] = column_headers[d]
  <2>1. column_headers[c] \in ToSet(file.header) /\ column_headers[d] \in ToSet(file.header)
    BY <1>2
  <2>2. PICK k \in 1..n : file.header[k] = column_headers[c]
    BY <1>1, <2>1 DEF ToSet
  <2>3. PICK l \in 1..n : file.header[l] = column_headers[d]
    BY <1>1, <2>1 DEF ToSet
  <2> QED BY <1>4, <2>2, <2>3
<1>6. ASSUME NEW k \in 1..w, NEW m \in 1..(k - 1), column_headers[m] = column_headers[k],
             RecipientHeader(column_headers[k])
      PROVE  FALSE
  <2>1. k <= Populated /\ Populated \in 0..n
    BY <1>1, <1>2, <1>6, ColumnHeaders, PopulatedColumns
  <2>2. k \in 1..Populated /\ m \in 1..Populated /\ k \in 1..n /\ m \in 1..n
    BY <1>6, <2>1
  <2>3. column_headers[k] = file.header[k] /\ column_headers[m] = file.header[m]
    BY <2>2, ColumnHeaders
  <2>4. k = m
    BY <1>4, <1>6, <2>2, <2>3
  <2> QED BY <2>4
<1>7. c \in 1..w /\ d \in 1..w
  BY <1>2
<1>8. ~(d < c)
  <2> SUFFICES ASSUME d < c PROVE FALSE
    OBVIOUS
  <2>1. d \in 1..(c - 1)
    BY <1>7
  <2> QED BY <1>5, <1>6, <1>7, <2>1
<1>9. ~(c < d)
  <2> SUFFICES ASSUME c < d PROVE FALSE
    OBVIOUS
  <2>1. c \in 1..(d - 1)
    BY <1>7
  <2> QED BY <1>5, <1>6, <1>7, <2>1
<1> QED BY <1>7, <1>8, <1>9

(* And those that are missing at its end.                                  *)
LEMMA PaddedIsRead ==
  ASSUME FileInv, NEW row \in Seq(Cells), ~duplicate_recipient_column_headers
  PROVE  LET padded == Padded(FilledIn(Below(row), row), Beyond(row))
         IN /\ padded \in Seq(Entry(ToSet(file.header))) /\ AreRead(padded, row)
            /\ \A c \in 1..Len(column_headers) : column_headers[c] \in KnownItems(padded)
<1>1. PICK I : I = ToSet(file.header)
  OBVIOUS
<1>2. PICK filled \in Seq(Entry(I)) :
        /\ filled = FilledIn(Below(row), row) /\ AreRead(filled, row)
        /\ KnownItems(filled) = {Below(row)[c] : c \in 1..Len(Below(row))} \cup {Unheaded}
  BY <1>1, FilledIsRead
<1>3. PICK rest \in Seq(I) : rest = Beyond(row)
  BY <1>1, PartsOfARow
<1>4. PICK w \in Nat, n \in Nat, r \in Nat : w = Len(column_headers) /\ n = Len(row) /\ r = Len(rest)
  BY PartsOfARow, LenProperties
<1>5. Len(Below(row)) = IF w <= n THEN w ELSE n
  <2>1. Min({w, n}) = IF w <= n THEN w ELSE n
    BY MinOfTwo
  <2> QED BY <1>4, <2>1, PartsOfARow
<1>6. \A c \in 1..Len(Below(row)) : Below(row)[c] = column_headers[c]
  BY PartsOfARow
<1>7. /\ r = IF w > n THEN w - n ELSE 0
      /\ \A c \in 1..r : rest[c] = column_headers[n + c] /\ n + c \in 1..w
  <2>1. PICK all \in Seq(I) : all = column_headers
    BY <1>1, ColumnHeaders
  <2>2. rest = SubSeq(all, n + 1, w)
    BY <1>3, <1>4, <2>1 DEF Beyond
  <2>3. \A c \in 1..w : all[c] \in I
    BY <1>4, <2>1, LenProperties
  <2>4. n + 1 \in Int /\ w \in Int /\ \A c \in n + 1..w : all[c] \in I
    BY <2>3
  <2>5. /\ Len(rest) = IF n + 1 <= w THEN w - (n + 1) + 1 ELSE 0
        /\ \A c \in 1..w - (n + 1) + 1 : rest[c] = all[n + 1 + c - 1]
    BY <2>2, <2>4, SubSeqProperties
  <2>6. r = IF w > n THEN w - n ELSE 0
    BY <1>4, <2>5
  <2>7. ASSUME NEW c \in 1..r PROVE rest[c] = all[n + c] /\ n + c \in 1..w
    <3>1. c \in 1..w - (n + 1) + 1 /\ n + 1 + c - 1 = n + c /\ n + c \in 1..w
      BY <2>6
    <3>2. rest[c] = all[n + 1 + c - 1]
      BY <2>5, <3>1
    <3> QED BY <3>1, <3>2
  <2> QED BY <2>1, <2>6, <2>7
<1>8. PICK f \in [0..r -> Seq(Entry(I))] : ByPadding(f, filled, rest)
  BY <1>4, PaddedInSteps
<1>9. /\ f[0] = filled /\ Padded(filled, rest) = f[r]
      /\ \A k \in 1..r : f[k] = InsertOrAppend(f[k - 1], rest[k], Empty)
  BY <1>4, <1>8 DEF ByPadding
<1> DEFINE P(k) == AreRead(f[k], row) /\ KnownItems(f[k]) = KnownItems(filled) \cup {rest[c] : c \in 1..k}
           T == {k \in 0..r : P(k)}
<1>10. P(0)
  BY <1>2, <1>9
<1>11. ASSUME NEW k \in 0..r, P(k), k < r PROVE P(k + 1)
  <2>1. k + 1 \in 1..r /\ (k + 1) - 1 = k /\ k \in Nat
    BY <1>11
  <2>2. PICK header \in I, old \in Seq(Entry(I)), value \in Cells :
          header = rest[k + 1] /\ old = f[k] /\ value = Empty
    <3>1. rest[k + 1] \in I /\ f[k] \in Seq(Entry(I))
      BY <1>4, <1>8, <2>1, LenProperties
    <3> QED BY <3>1 DEF Cells, Empty
  <2>3. f[k + 1] = InsertOrAppend(old, header, value)
    BY <1>9, <2>1, <2>2
  <2>4. AreRead(old, row) /\ KnownItems(old) = KnownItems(filled) \cup {rest[c] : c \in 1..k}
    BY <1>11, <2>2
  <2>5. ASSUME RecipientHeader(header) PROVE header \notin KnownItems(old)
    <3> SUFFICES ASSUME header \in KnownItems(old) PROVE FALSE
      OBVIOUS
    <3>0. header # Unheaded
      BY <2>5, RecipientIsHeaded
    <3>1. n + (k + 1) \in 1..w /\ column_headers[n + (k + 1)] = header
      BY <1>7, <2>1, <2>2
    <3>2. PICK c \in 1..w : column_headers[c] = header /\ c # n + (k + 1)
      <4>1. CASE header \in KnownItems(filled)
        <5>1. PICK c \in 1..Len(Below(row)) : Below(row)[c] = header
          BY <1>2, <3>0, <4>1
        <5>2. c \in 1..w /\ c <= n /\ column_headers[c] = header
          BY <1>5, <1>6, <5>1
        <5> QED BY <2>1, <5>2
      <4>2. CASE header \notin KnownItems(filled)
        <5>1. PICK c \in 1..k : rest[c] = header
          BY <2>4, <4>2
        <5>2. c \in 1..r /\ c # k + 1
          BY <2>1
        <5>3. n + c \in 1..w /\ column_headers[n + c] = header
          BY <1>7, <5>1, <5>2
        <5> QED BY <2>1, <5>2, <5>3
      <4> QED BY <4>1, <4>2
    <3> QED BY <1>4, <2>5, <3>1, <3>2, OneRecipientColumn
  <2>6. RecipientHeader(header) => \A m \in 1..Len(old) : old[m].item = header => old[m].data = <<>>
    BY <2>5 DEF ItemsOf, KnownItems
  <2>7. AreRead(f[k + 1], row)
    BY <2>2, <2>3, <2>4, <2>6, InsertedIsRead
  <2>8. KnownItems(f[k + 1]) = KnownItems(old) \cup {header}
    BY <2>3, InsertedItems
  <2>9. 1..(k + 1) = 1..k \cup {k + 1}
    <3>1. k \in Nat
      BY <2>1
    <3> QED BY <3>1
  <2>10. KnownItems(f[k + 1]) = KnownItems(filled) \cup {rest[c] : c \in 1..(k + 1)}
    BY <2>2, <2>4, <2>8, <2>9
  <2> QED BY <2>7, <2>10
<1>12. 0 \in T /\ \A k \in 0..r : k \in T /\ k < r => k + 1 \in T
  <2> HIDE DEF P
  <2> QED BY <1>10, <1>11
<1>13. \A k \in 0..r : k \in T
  <2> HIDE DEF T
  <2> QED BY <1>12, StepByStep
<1>14. r \in 0..r
  OBVIOUS
<1> HIDE DEF P
<1>15. P(r) /\ f[r] \in Seq(Entry(I))
  BY <1>8, <1>13, <1>14
<1>16. AreRead(f[r], row) /\ KnownItems(f[r]) = KnownItems(filled) \cup {rest[c] : c \in 1..r}
  BY <1>15 DEF P
<1>17. ASSUME NEW c \in 1..w PROVE column_headers[c] \in KnownItems(f[r])
  <2>1. CASE c <= n
    <3>1. c \in 1..Len(Below(row))
      BY <1>5, <2>1
    <3> QED BY <1>2, <1>6, <1>16, <3>1
  <2>2. CASE ~(c <= n)
    <3>1. c - n \in 1..r /\ n + (c - n) = c
      BY <1>7, <2>2
    <3>2. rest[c - n] = column_headers[c]
      BY <1>7, <3>1
    <3> QED BY <1>16, <3>1, <3>2
  <2> QED BY <2>1, <2>2
<1> QED BY <1>1, <1>2, <1>3, <1>4, <1>9, <1>15, <1>16, <1>17

LEMMA OutputIsRead ==
  ASSUME FileInv, NEW row \in Seq(Cells), ~duplicate_recipient_column_headers
  PROVE  /\ \A n \in 1..Len(OutputDict(row)) :
              OutputDict(row)[n].item = NoHeader \/ IsRead(OutputDict(row)[n], row)
         /\ \A c \in 1..Len(column_headers) : column_headers[c] \in KnownItems(OutputDict(row))
<1>1. PICK E : E = Entry(ToSet(file.header))
  OBVIOUS
<1>2. PICK filled \in Seq(E) :
        /\ filled = FilledIn(Below(row), row) /\ AreRead(filled, row)
        /\ KnownItems(filled) = {Below(row)[c] : c \in 1..Len(Below(row))} \cup {Unheaded}
  BY <1>1, FilledIsRead
<1>3. CASE Extra(row) = <<>>
  <2>1. PICK padded : padded = Padded(filled, Beyond(row))
    OBVIOUS
  <2>2. AreRead(padded, row) /\ \A c \in 1..Len(column_headers) : column_headers[c] \in KnownItems(padded)
    BY <1>2, <2>1, PaddedIsRead
  <2>3. OutputDict(row) = padded
    BY <1>2, <1>3, <2>1, OutputInParts
  <2> QED BY <2>2, <2>3 DEF AreRead
<1>4. CASE Extra(row) # <<>>
  <2>1. PICK e : e = [item |-> NoHeader, data |-> Extra(row)]
    OBVIOUS
  <2>2. PICK S : S = E \cup {e}
    OBVIOUS
  <2>3. filled \in Seq(S) /\ e \in S
    BY <2>2
  <2>4. PICK out \in Seq(S) : out = Append(filled, e)
    BY <2>3, Appended
  <2>5. OutputDict(row) = out
    BY <1>2, <1>4, <2>1, <2>4, OutputInParts
  <2>6. /\ Len(filled) \in Nat /\ Len(out) = Len(filled) + 1 /\ out[Len(filled) + 1] = e
        /\ \A k \in 1..Len(filled) : out[k] = filled[k]
    BY <2>3, <2>4, Appended
  <2>7. ASSUME NEW k \in 1..Len(out) PROVE out[k].item = NoHeader \/ IsRead(out[k], row)
    <3>1. CASE k \in 1..Len(filled)
      BY <1>2, <2>6, <3>1 DEF AreRead
    <3>2. CASE k = Len(filled) + 1
      BY <2>1, <2>6, <3>2
    <3> QED BY <2>6, <3>1, <3>2
  <2>8. Len(Below(row)) = Len(column_headers)
    <3>1. Len(column_headers) < Len(row)
      BY <1>4, ExtraCells
    <3>2. Len(column_headers) \in Nat /\ Len(row) \in Nat
      BY PartsOfARow
    <3>3. Min({Len(column_headers), Len(row)}) = Len(column_headers)
      BY <3>1, <3>2, MinOfTwo
    <3> QED BY <3>3, PartsOfARow
  <2>9. ASSUME NEW c \in 1..Len(column_headers) PROVE column_headers[c] \in KnownItems(out)
    <3>1. Below(row)[c] = column_headers[c] /\ Below(row)[c] \in KnownItems(filled)
      BY <1>2, <2>8, PartsOfARow
    <3>2. \A k \in 1..Len(filled) : k \in 1..Len(out) /\ out[k].item = filled[k].item
      BY <2>6
    <3> QED BY <3>1, <3>2 DEF KnownItems, ItemsOf
  <2> QED BY <2>5, <2>7, <2>9
<1> QED BY <1>3, <1>4

(* Present leaves out what is empty, and nothing else.                     *)
LEMMA PresentValues ==
  ASSUME NEW S, NEW data \in Seq(S)
  PROVE  /\ Present(data) \in Seq(S)
         /\ \A value : Among(value, Present(data)) <=> value # Empty /\ Among(value, data)
<1>1. PICK n \in Nat : n = Len(data) /\ \A k \in 1..n : data[k] \in S
  BY LenProperties
<1>2. PICK f \in [0..n -> Seq(S)] :
        /\ f[0] = <<>> /\ Present(data) = f[n]
        /\ \A k \in 1..n : f[k] = Seen(f[k - 1], data[k])
  BY <1>1, PresentSteps
<1> DEFINE P(k) == \A value :
             Among(value, f[k]) <=> value # Empty /\ \E d \in 1..k : data[d] = value
           T == {k \in 0..n : P(k)}
<1>3. P(0)
  <2>1. Len(f[0]) = 0
    BY <1>2
  <2> QED BY <2>1 DEF Among
<1>4. ASSUME NEW k \in 0..n, P(k), k < n PROVE P(k + 1)
  <2>1. k + 1 \in 1..n /\ (k + 1) - 1 = k /\ k \in Nat
    BY <1>4
  <2>2. PICK some \in Seq(S), new \in S : some = f[k] /\ new = data[k + 1]
    BY <1>1, <1>2, <2>1
  <2>3. f[k + 1] = Seen(some, new)
    BY <1>2, <2>1, <2>2
  <2>4. \A value : Among(value, some) <=> value # Empty /\ \E d \in 1..k : data[d] = value
    BY <1>4, <2>2
  <2>5. \A value : Among(value, f[k + 1]) <=> Among(value, some) \/ (value = new /\ new # Empty)
    <3>1. CASE new = Empty
      BY <2>3, <3>1 DEF Seen
    <3>2. CASE new # Empty
      <4>1. f[k + 1] = Append(some, new)
        BY <2>3, <3>2 DEF Seen
      <4>2. PICK m \in Nat : m = Len(some)
        BY LenProperties
      <4>3. PICK more : more = f[k + 1]
        OBVIOUS
      <4>4. Len(more) = m + 1 /\ more[m + 1] = new /\ \A l \in 1..m : more[l] = some[l]
        BY <4>1, <4>2, <4>3, Appended
      <4>5. 1..(m + 1) = 1..m \cup {m + 1}
        BY <4>2
      <4> QED BY <3>2, <4>2, <4>3, <4>4, <4>5 DEF Among
    <3> QED BY <3>1, <3>2
  <2>6. 1..(k + 1) = 1..k \cup {k + 1}
    <3>1. k \in Nat
      BY <2>1
    <3> QED BY <3>1, OneMorePlace, Zenon
  <2>7. \A value : (\E d \in 1..(k + 1) : data[d] = value)
                     <=> (\E d \in 1..k : data[d] = value) \/ value = new
    BY <2>2, <2>6
  <2> QED BY <2>4, <2>5, <2>7
<1>5. 0 \in T /\ \A k \in 0..n : k \in T /\ k < n => k + 1 \in T
  <2> HIDE DEF P
  <2> QED BY <1>3, <1>4
<1>6. \A k \in 0..n : k \in T
  <2> HIDE DEF T
  <2> QED BY <1>5, StepByStep
<1>7. n \in 0..n
  OBVIOUS
<1> HIDE DEF P
<1>8. P(n) /\ f[n] \in Seq(S)
  BY <1>2, <1>6, <1>7
<1>9. \A value : Among(value, f[n]) <=> value # Empty /\ \E d \in 1..n : data[d] = value
  BY <1>8 DEF P
<1>10. \A value : Among(value, data) <=> \E d \in 1..n : data[d] = value
  BY <1>1 DEF Among
<1> QED BY <1>2, <1>8, <1>9, <1>10

(* Whatever stands under a heading is among the values under its key.      *)
LEMMA StandsUnderTheKey ==
  ASSUME FileInv, NEW row, FitsIn(row), NEW item, NEW value \in Nat, value # Empty,
         Stands(value, item, row)
  PROVE  value \in ToSet(ValuesUnder(row, item.key))
<1>1. PICK n \in Nat : n = Len(row) /\ DOMAIN row = 1..n
  BY LenProperties DEF FitsIn
<1>2. PICK c \in 1..n : c <= Len(column_headers) /\ column_headers[c] = item /\ row[c] = value
  BY <1>1 DEF Stands
<1>3. c <= index_of_first_empty_column
  BY <1>1, <1>2 DEF FitsIn
<1>4. c \in 1..Populated
  <2>1. /\ Len(column_headers) \in Int /\ Len(column_headers) <= Len(file.header)
        /\ Populated \in Nat /\ Len(file.header) \in Nat
        /\ Populated = Len(file.header) \/ Populated = index_of_first_empty_column
    BY ColumnHeaders, PopulatedColumns
  <2> QED BY <1>2, <1>3, <2>1
<1>5. HasKey(c, item.key)
  <2>1. file.header[c] = item
    BY <1>2, <1>4, ColumnHeaders
  <2>2. c \in DOMAIN file.header
    BY <1>4, PopulatedColumns, FileIsASpreadsheet, LenProperties
  <2> QED BY <2>1, <2>2 DEF HasKey
<1>6. PICK columns : columns = Columns(row, item.key)
  OBVIOUS
<1>7. columns = [d \in 1..n |-> IF HasKey(d, item.key) /\ row[d] # Blank THEN row[d] ELSE Empty]
  BY <1>1, <1>6, Zenon DEF Columns
<1>8. columns \in Seq(Nat) /\ Len(columns) = n
  <2>1. \A d \in 1..n : row[d] \in Cells
    BY <1>1, LenProperties DEF FitsIn
  <2>2. \A d \in 1..n : (IF HasKey(d, item.key) /\ row[d] # Blank THEN row[d] ELSE Empty) \in Nat
    BY <2>1 DEF Cells, Empty
  <2>3. columns \in [1..n -> Nat]
    BY <1>7, <2>2
  <2> QED BY <2>3
<1>9. columns[c] = value
  BY <1>2, <1>5, <1>7 DEF Blank
<1>10. Among(value, columns)
  BY <1>8, <1>9 DEF Among
<1>11. Present(columns) \in Seq(Nat) /\ Among(value, Present(columns))
  BY <1>8, <1>10, PresentValues
<1>12. ValuesUnder(row, item.key) = Present(columns)
  BY <1>6, Zenon DEF ValuesUnder, Columns
<1> QED BY <1>11, <1>12, AmongThem

(* What may be said of a row that is read from a file whose recipient      *)
(* column is not repeated.                                                 *)
DataIsOf(key, data, row) ==
  /\ data \in Seq(Nat)
  /\ data # <<>> => ToSet(Present(data)) # {}
  /\ ToSet(Present(data)) \subseteq ToSet(ValuesUnder(row, key))
  /\ key = Recipient => Len(data) <= 1

LEMMA DataIsRead ==
  ASSUME FileInv, NEW row, FitsIn(row), ~duplicate_recipient_column_headers
  PROVE  /\ KeysOf(file.header) \ {Unheaded.key} \subseteq DOMAIN DataOfRow(row)
         /\ \A key \in DOMAIN DataOfRow(row) :
              key # NoHeader.key => DataIsOf(key, DataOfRow(row)[key], row)
<1>0. row \in Seq(Cells)
  BY DEF FitsIn
<1>1. PICK out : out = OutputDict(row)
  OBVIOUS
<1>2. AreEntries(out)
  BY <1>0, <1>1, OutputEntries
<1>3. PICK S : out \in Seq(S)
  BY <1>2 DEF AreEntries
<1>4. ASSUME NEW key \in KeysOf(file.header), key # Unheaded.key PROVE key \in DOMAIN DictOf(out)
  <2>1. PICK item \in ToSet(file.header) : item.key = key
    BY DEF KeysOf
  <2>2. Among(item, file.header)
    BY FileIsASpreadsheet, AmongThem
  <2>3. Among(item, column_headers)
    BY <2>2, ColumnHeaders DEF Among
  <2>4. item \in ItemsOf(out)
    BY <1>0, <1>1, <1>4, <2>1, <2>3, OutputIsRead DEF Among, KnownItems
  <2>5. PICK k \in 1..Len(out) : out[k].item = item
    BY <2>4 DEF ItemsOf
  <2> QED BY <1>3, <2>1, <2>5, LastEntryCounts
<1>5. ASSUME NEW key \in DOMAIN DictOf(out), key # NoHeader.key
      PROVE  DataIsOf(key, DictOf(out)[key], row)
  <2>1. PICK k \in 1..Len(out) : out[k].item.key = key /\ DictOf(out)[key] = out[k].data
    BY <1>3, LastEntryCounts
  <2>2. PICK entry : entry = out[k]
    OBVIOUS
  <2>3. entry \in Entry(ToSet(file.header)) /\ IsRead(entry, row)
    BY <1>0, <1>1, <1>2, <1>5, <2>1, <2>2, OutputIsRead DEF AreEntries
  <2>4. PICK data \in Seq(Nat) : data = entry.data
    BY <2>3 DEF Entry
  <2>5. PICK n \in Nat : n = Len(data) /\ \A d \in 1..n : data[d] \in Nat
    BY LenProperties
  <2>6. Present(data) \in Seq(Nat)
    BY PresentValues
  <2>7. \A value : value \in ToSet(Present(data)) <=> value # Empty /\ Among(value, data)
    BY <2>6, PresentValues, AmongThem
  <2>8. data # <<>> => ToSet(Present(data)) # {}
    <3> SUFFICES ASSUME data # <<>> PROVE data[1] \in ToSet(Present(data))
      OBVIOUS
    <3>1. 1 \in 1..n
      BY <2>5, EmptySeq
    <3>2. data[1] # Empty
      BY <2>3, <2>4 DEF IsRead
    <3> QED BY <2>5, <2>7, <3>1, <3>2 DEF Among
  <2>9. ASSUME NEW value \in ToSet(Present(data)) PROVE value \in ToSet(ValuesUnder(row, key))
    <3>1. value # Empty /\ Among(value, data)
      BY <2>7
    <3>2. PICK d \in 1..n : data[d] = value
      BY <2>5, <3>1 DEF Among
    <3>3. value \in Nat /\ Stands(value, entry.item, row)
      BY <2>3, <2>4, <2>5, <3>1, <3>2 DEF IsRead
    <3>4. entry.item.key = key
      BY <2>1, <2>2
    <3> QED BY <3>1, <3>3, <3>4, StandsUnderTheKey
  <2>10. key = Recipient => Len(data) <= 1
    BY <2>1, <2>2, <2>3, <2>4 DEF IsRead, RecipientHeader
  <2> QED BY <2>1, <2>2, <2>4, <2>8, <2>9, <2>10 DEF DataIsOf
<1> QED BY <1>1, <1>4, <1>5 DEF DataOfRow

(* What a template is made of (template.py:177).                           *)
IsTemplate(t) ==
  /\ t = [values |-> t.values, prefix |-> t.prefix,
          unsanitised_content |-> t.unsanitised_content, content_count |-> t.content_count]
  /\ t.prefix \in Nat

(* A template that is reset keeps its values and prefix, and has no text or  *)
(* count left of before (template.py:200).                                   *)
LEMMA ResetEmptiesTheCaches ==
  ASSUME NEW t, NEW values, NEW pre, NEW body, NEW count,
         t = [values |-> values, prefix |-> pre,
              unsanitised_content |-> body, content_count |-> count]
  PROVE  Reset(t) = [values |-> values, prefix |-> pre,
                     unsanitised_content |-> Unset, content_count |-> Unset]
<1>1. PICK once : once = [t EXCEPT !.unsanitised_content = Unset]
  OBVIOUS
<1>2. once = [values |-> values, prefix |-> pre,
              unsanitised_content |-> Unset, content_count |-> count]
  BY <1>1
<1>3. [once EXCEPT !.content_count = Unset]
        = [values |-> values, prefix |-> pre,
           unsanitised_content |-> Unset, content_count |-> Unset]
  BY <1>2
<1>4. Reset(t) = [once EXCEPT !.content_count = Unset]
  BY <1>1 DEF Reset
<1> QED BY <1>3, <1>4

(* A row's message is measured as the length of the template with the      *)
(* row's data, whatever the prefix: it is counted with it and taken off.   *)
LEMMA Measured ==
  ASSUME NEW t, IsTemplate(t), NEW data, IsData(data)
  PROVE  /\ content_count_without_prefix(SetValues(t, data)) = BodyLength(data)
         /\ IsTemplate(content_count(SetValues(t, data))) /\ IsTemplate(SetValues(t, data))
<1>1. PICK length \in Nat : length = BodyLength(data)
  BY BodyLengthIsANumber
<1>2. PICK pre \in Nat : pre = t.prefix
  BY DEF IsTemplate
<1>3. PICK renewed : renewed = [values |-> data, prefix |-> pre,
                            unsanitised_content |-> Unset, content_count |-> Unset]
  OBVIOUS
<1>4. renewed = SetValues(t, data)
  <2>1. PICK values, body, count :
          t = [values |-> values, prefix |-> pre,
               unsanitised_content |-> body, content_count |-> count]
    BY <1>2 DEF IsTemplate
  <2>2. Reset(t) = [values |-> values, prefix |-> pre,
                    unsanitised_content |-> Unset, content_count |-> Unset]
    BY <2>1, ResetEmptiesTheCaches
  <2> QED BY <1>3, <2>2 DEF SetValues
<1>5. PICK count : count = AddPrefix(pre, length)
  OBVIOUS
<1>6. unsanitised_content(renewed) = [values |-> data, prefix |-> pre,
                                    unsanitised_content |-> count, content_count |-> Unset]
  BY <1>1, <1>3, <1>5 DEF unsanitised_content
<1>7. content_count(renewed) = [values |-> data, prefix |-> pre,
                              unsanitised_content |-> count, content_count |-> count]
  BY <1>3, <1>6 DEF content_count
<1>8. content_count_without_prefix(renewed) = length
  <2>1. renewed.prefix = pre /\ content_count(renewed).content_count = count
    BY <1>3, <1>7
  <2>2. CASE pre = 0
    BY <1>5, <2>1, <2>2 DEF content_count_without_prefix, AddPrefix
  <2>3. CASE pre # 0
    <3>1. count \in Int /\ Max({count - pre - 2, 0}) = length
      <4>1. CASE length = 0
        <5>1. count = pre + 1 /\ count - pre - 2 = -1
          BY <1>5, <2>3, <4>1 DEF AddPrefix
        <5>2. Max({-1, 0}) = 0
          BY MaxOfTwo
        <5> QED BY <4>1, <5>1, <5>2
      <4>2. CASE length # 0
        <5>1. count = pre + 2 + length /\ count - pre - 2 = length
          BY <1>5, <2>3, <4>2 DEF AddPrefix
        <5> QED BY <4>2, <5>1, MaxOfTwo
      <4> QED BY <4>1, <4>2
    <3> QED BY <2>1, <2>3, <3>1 DEF content_count_without_prefix
  <2> QED BY <2>2, <2>3
<1>9. IsTemplate(content_count(renewed)) /\ IsTemplate(renewed)
  BY <1>3, <1>7 DEF IsTemplate
<1> QED BY <1>1, <1>4, <1>8, <1>9

(* Every row up to max_rows has the data that is read from the file, and   *)
(* is measured by it alone.                                                *)
IsReadFrom(row, read) ==
  /\ row.data = DataOfRow(read)
  /\ row.message_too_long <=> BodyLength(row.data) > SMS_CHAR_COUNT_LIMIT
  /\ row.message_empty <=> BodyLength(row.data) = 0

RowIsRead(n) == IF n <= max_rows THEN IsReadFrom(rows[n], file.rows[n]) ELSE rows[n] = NoRow

RowsInv ==
  /\ \E S : rows \in Seq(S)
  /\ Len(rows) <= Len(file.rows) /\ max_rows \in Nat
  /\ \A n \in 1..Len(rows) : RowIsRead(n)

RecipientsInv == FileInv /\ IsTemplate(template) /\ RowsInv

LEMMA NoRowsAtFirst ==
  ASSUME FileInv, rows = <<>>, max_rows \in Nat
  PROVE  RowsInv
<1>1. rows \in Seq({}) /\ Len(rows) = 0
  OBVIOUS
<1>2. Len(file.rows) \in Nat
  BY FileIsASpreadsheet, LenProperties
<1> QED BY <1>1, <1>2 DEF RowsInv

LEMMA RecipientsInitially == RecipientsInit => RecipientsInv
<1> SUFFICES ASSUME RecipientsInit PROVE RecipientsInv
  OBVIOUS
<1>1. FileInv
  BY DEF RecipientsInit, FileInv
<1>2. RowsInv
  BY <1>1, NoRowsAtFirst, RecipientAssumption DEF RecipientsInit
<1>3. IsTemplate(template)
  <2>1. PICK pre \in Nat : template = [values |-> NoValues, prefix |-> pre,
                                           unsanitised_content |-> Unset, content_count |-> Unset]
    BY RecipientAssumption DEF RecipientsInit
  <2> QED BY <2>1 DEF IsTemplate
<1> QED BY <1>1, <1>2, <1>3 DEF RecipientsInv

(* What is read of a row stays as long as the file does.                   *)
LEMMA SameFileSameData ==
  ASSUME file' = file, NEW n
  PROVE  DataOfRow(file.rows[n])' = DataOfRow(file.rows[n])
  BY Zenon DEF DataOfRow, OutputDict, column_headers, length_of_widest_row, index_of_first_empty_column

LEMMA SameRowIsRead ==
  ASSUME file' = file, max_rows' = max_rows, NEW n, rows'[n] = rows[n], RowIsRead(n)
  PROVE  RowIsRead(n)'
<1>1. DataOfRow(file.rows[n])' = DataOfRow(file.rows[n])
  BY SameFileSameData
<1> QED BY <1>1 DEF RowIsRead, IsReadFrom

LEMMA OneMoreRow ==
  ASSUME FileInv, RowsInv, Len(rows) < Len(file.rows), NEW row,
         rows' = Append(rows, row), file' = file, max_rows' = max_rows,
         IF Len(rows) >= max_rows THEN row = NoRow
         ELSE IsReadFrom(row, file.rows[Len(rows) + 1])
  PROVE  RowsInv'
<1>1. PICK S : rows \in Seq(S)
  BY DEF RowsInv
<1>2. PICK n \in Nat : n = Len(rows)
  BY <1>1, LenProperties
<1>3. PICK U : U = S \cup {row}
  OBVIOUS
<1>4. rows \in Seq(U) /\ row \in U
  BY <1>1, <1>3
<1>5. /\ rows' \in Seq(U) /\ Len(rows') = n + 1 /\ rows'[n + 1] = row
      /\ \A k \in 1..n : rows'[k] = rows[k]
  BY <1>2, <1>4, Appended
<1>6. Len(file.rows) \in Nat
  BY FileIsASpreadsheet, LenProperties
<1>7. Len(rows') <= Len(file'.rows)
  BY <1>2, <1>5, <1>6
<1>8. max_rows \in Nat
  BY DEF RowsInv
<1>9. ASSUME NEW k \in 1..(n + 1) PROVE RowIsRead(k)'
  <2>1. CASE k \in 1..n
    <3>1. RowIsRead(k) /\ rows'[k] = rows[k]
      BY <1>2, <1>5, <2>1 DEF RowsInv
    <3> QED BY <3>1, SameRowIsRead
  <2>2. CASE k = n + 1
    <3>1. rows'[k] = row
      BY <1>5, <2>2
    <3>2. DataOfRow(file.rows[k])' = DataOfRow(file.rows[k])
      BY SameFileSameData
    <3>3. n >= max_rows <=> ~(k <= max_rows)
      BY <1>8, <2>2
    <3> QED BY <1>2, <2>2, <3>1, <3>2, <3>3 DEF RowIsRead, IsReadFrom
  <2> QED BY <2>1, <2>2
<1> QED BY <1>5, <1>7, <1>8, <1>9 DEF RowsInv

LEMMA RecipientsStep ==
  ASSUME RecipientsInv, [RecipientsNext]_recipients_vars
  PROVE  RecipientsInv'
<1> USE DEF RecipientsInv
<1>1. CASE BuildRow
  <2>1. CASE Len(rows) >= max_rows
    <3>1. /\ rows' = Append(rows, NoRow) /\ template' = template /\ file' = file
          /\ max_rows' = max_rows /\ Len(rows) < Len(file.rows)
      BY <1>1, <2>1 DEF BuildRow
    <3>2. RowsInv'
      BY <2>1, <3>1, OneMoreRow
    <3>3. FileInv' /\ IsTemplate(template')
      BY <3>1 DEF FileInv
    <3> QED BY <3>2, <3>3
  <2>2. CASE ~(Len(rows) >= max_rows)
    <3>1. PICK data : data = DataOfRow(file.rows[Len(rows) + 1])
      OBVIOUS
    <3>2. PICK renewed : renewed = SetValues(template, data)
      OBVIOUS
    <3>3. /\ Len(rows) < Len(file.rows) /\ max_rows' = max_rows
          /\ IF ReplacementRaises(data)
             THEN rows' = <<>> /\ file' = NoFile /\ template' = renewed
             ELSE rows' = Append(rows, RowOf(data, renewed)) /\ template' = content_count(renewed) /\ file' = file
      BY <1>1, <2>2, <3>1, <3>2 DEF BuildRow, DataOfRow
    <3>4. file.rows[Len(rows) + 1] \in Seq(Cells)
      <4>1. Len(rows) \in Nat
        BY LenProperties DEF RowsInv
      <4>2. PICK sheet \in Seq(Seq(Cells)) : sheet = file.rows
        BY FileIsASpreadsheet
      <4>3. Len(sheet) \in Nat /\ Len(rows) + 1 \in 1..Len(sheet)
        BY <3>3, <4>1, <4>2, LenProperties
      <4> QED BY <4>2, <4>3, LenProperties
    <3>5. IsData(data)
      BY <3>1, <3>4, DataIsData
    <3>6. /\ content_count_without_prefix(renewed) = BodyLength(data)
          /\ IsTemplate(content_count(renewed)) /\ IsTemplate(renewed)
      BY <3>2, <3>5, Measured
    <3>7. CASE ReplacementRaises(data)
      <4>1. rows' = <<>> /\ file' = NoFile /\ template' = renewed
        BY <3>3, <3>7
      <4>2. FileInv'
        BY <4>1 DEF FileInv
      <4>3. RowsInv'
        <5>1. rows' \in Seq({}) /\ Len(rows') = 0
          BY <4>1
        <5>2. Len(file'.rows) = 0
          BY <4>1 DEF NoFile
        <5>3. max_rows' \in Nat
          BY <3>3 DEF RowsInv
        <5> QED BY <5>1, <5>2, <5>3 DEF RowsInv
      <4> QED BY <3>6, <4>1, <4>2, <4>3
    <3>8. CASE ~ReplacementRaises(data)
      <4>1. rows' = Append(rows, RowOf(data, renewed)) /\ template' = content_count(renewed) /\ file' = file
        BY <3>3, <3>8
      <4>2. PICK row : row = RowOf(data, renewed)
        OBVIOUS
      <4>3. IsReadFrom(row, file.rows[Len(rows) + 1])
        BY <3>1, <3>6, <4>2 DEF RowOf, IsReadFrom
      <4>4. RowsInv'
        BY <2>2, <3>3, <4>1, <4>2, <4>3, OneMoreRow
      <4>5. FileInv'
        BY <4>1 DEF FileInv
      <4> QED BY <3>6, <4>1, <4>4, <4>5
    <3> QED BY <3>7, <3>8
  <2> QED BY <2>1, <2>2
<1>2. ASSUME rows = <<>>, UNCHANGED <<file, max_rows, rows>>, IsTemplate(template') PROVE RecipientsInv'
  <2>1. FileInv' /\ rows' = <<>> /\ file' = file
    BY <1>2 DEF FileInv
  <2>2. RowsInv'
    <3>1. rows' \in Seq({}) /\ Len(rows') = 0
      BY <2>1
    <3>2. Len(file'.rows) \in Nat
      BY <2>1, FileIsASpreadsheet, LenProperties
    <3>3. max_rows' \in Nat
      BY <1>2 DEF RowsInv
    <3> QED BY <3>1, <3>2, <3>3 DEF RowsInv
  <2> QED BY <1>2, <2>1, <2>2
<1>3. CASE OwnerReads
  <2>1. IsTemplate(unsanitised_content(template)) /\ IsTemplate(content_count(template))
    <3>1. \A t : IsTemplate(t) => IsTemplate(unsanitised_content(t))
      BY DEF IsTemplate, unsanitised_content
    <3>2. \A t : IsTemplate(t) => IsTemplate(content_count(t))
      <4> SUFFICES ASSUME NEW t, IsTemplate(t) PROVE IsTemplate(content_count(t))
        OBVIOUS
      <4>1. PICK u : u = unsanitised_content(t) /\ IsTemplate(u)
        BY <3>1
      <4>2. IsTemplate([u EXCEPT !.content_count = u.unsanitised_content])
        BY <4>1 DEF IsTemplate
      <4> QED BY <4>1, <4>2 DEF content_count
    <3> QED BY <3>1, <3>2
  <2>2. IsTemplate(template')
    BY <1>3, <2>1 DEF OwnerReads
  <2> QED BY <1>2, <1>3, <2>2 DEF OwnerReads
<1>4. ASSUME NEW pre \in PrefixLengths, OwnerSetsPrefix(pre) PROVE RecipientsInv'
  <2>1. pre \in Nat
    BY RecipientAssumption
  <2>2. IsTemplate([template EXCEPT !.prefix = pre])
    BY <2>1 DEF IsTemplate
  <2> QED BY <1>2, <1>4, <2>2 DEF OwnerSetsPrefix
<1>5. ASSUME NEW values, OwnerSetsValues(values) PROVE RecipientsInv'
  <2>1. IsTemplate(Reset(template))
    BY ResetEmptiesTheCaches DEF IsTemplate
  <2>2. IsTemplate([Reset(template) EXCEPT !.values = values])
    BY <2>1 DEF IsTemplate
  <2>3. IsTemplate(SetValues(template, values))
    BY <2>2 DEF SetValues
  <2> QED BY <1>2, <1>5, <2>3 DEF OwnerSetsValues
<1>6. CASE UNCHANGED recipients_vars
  <2>1. file' = file /\ rows' = rows /\ template' = template /\ max_rows' = max_rows
    BY <1>6 DEF recipients_vars
  <2>2. RowsInv'
    <3>1. \A n : RowIsRead(n) => RowIsRead(n)'
      BY <2>1, SameRowIsRead
    <3> QED BY <2>1, <3>1 DEF RowsInv
  <2> QED BY <2>1, <2>2 DEF FileInv
<1> QED BY <1>1, <1>3, <1>4, <1>5, <1>6 DEF RecipientsNext, Finish

(* The invariant of RecipientCSV.                                          *)
THEOREM RecipientsInductive == RecipientsSpec => []RecipientsInv
BY RecipientsInitially, RecipientsStep, PTL DEF RecipientsSpec

(* A file's checks, one after the other.                                   *)
LEMMA SevenChecks ==
  ASSUME NEW service
  PROVE  /\ DOMAIN Checks(service) = 1..7
         /\ Checks(service)[1] = Answer(missing_column_headers # {})
         /\ Checks(service)[2] = Answer(duplicate_recipient_column_headers)
         /\ Checks(service)[3] = Answer(more_rows_than_can_send(service))
         /\ Checks(service)[4] = Answer(too_many_rows)
         /\ Checks(service)[5] = NotAllowed(service)
         /\ Checks(service)[6] = OfTheRows(service)
         /\ Checks(service)[7] = more_international_sms_than_can_send(service)
         /\ \A n \in 1..5 : Checks(service)[n] \in ToSet(OfTheFile(service))
<1>1. PICK a, b, c, d, e :
        /\ a = Answer(missing_column_headers # {})
        /\ b = Answer(duplicate_recipient_column_headers)
        /\ c = Answer(more_rows_than_can_send(service)) /\ d = Answer(too_many_rows)
        /\ e = NotAllowed(service)
  OBVIOUS
<1>2. PICK f, g : f = OfTheRows(service) /\ g = more_international_sms_than_can_send(service)
  OBVIOUS
<1>3. OfTheFile(service) = <<a, b, c, d, e>>
  BY <1>1 DEF OfTheFile
<1>4. Checks(service) = <<a, b, c, d, e>> \o <<f, g>>
  BY <1>2, <1>3 DEF Checks
<1>5. /\ DOMAIN Checks(service) = 1..7
      /\ Checks(service)[1] = a /\ Checks(service)[2] = b /\ Checks(service)[3] = c
      /\ Checks(service)[4] = d /\ Checks(service)[5] = e
      /\ Checks(service)[6] = f /\ Checks(service)[7] = g
  <2>1. PICK s : s = <<a, b, c, d, e>>
    OBVIOUS
  <2>2. PICK t : t = <<f, g>>
    OBVIOUS
  <2>3. PICK S : S = {a, b, c, d, e, f, g}
    OBVIOUS
  <2>4. s \in Seq(S) /\ Len(s) = 5
    BY <2>1, <2>3
  <2>5. t \in Seq(S) /\ Len(t) = 2
    BY <2>2, <2>3
  <2>6. PICK all : all = s \o t
    OBVIOUS
  <2>7. /\ all \in Seq(S) /\ Len(all) = Len(s) + Len(t)
        /\ \A n \in 1..Len(s) + Len(t) : all[n] = IF n <= Len(s) THEN s[n] ELSE t[n - Len(s)]
    BY <2>4, <2>5, <2>6, ConcatProperties
  <2>8. Len(all) = 7 /\ \A n \in 1..7 : all[n] = IF n <= 5 THEN s[n] ELSE t[n - 5]
    BY <2>4, <2>5, <2>7
  <2>9. DOMAIN all = 1..7
    BY <2>7, <2>8, LenProperties
  <2>10. all[1] = s[1] /\ all[2] = s[2] /\ all[3] = s[3] /\ all[4] = s[4] /\ all[5] = s[5]
    BY <2>8
  <2>11. all[6] = t[1] /\ all[7] = t[2]
    BY <2>8
  <2> QED BY <1>4, <2>1, <2>2, <2>6, <2>9, <2>10, <2>11
<1>6. \A n \in 1..5 : Checks(service)[n] \in ToSet(OfTheFile(service))
  <2>1. ToSet(OfTheFile(service)) = {a, b, c, d, e}
    BY <1>3 DEF ToSet
  <2> QED BY <1>5, <2>1
<1> QED BY <1>1, <1>2, <1>5, <1>6

LEMMA FirstAnswer ==
  ASSUME NEW service
  PROVE  \/ has_errors(service) = "no" /\ \A n \in 1..7 : Checks(service)[n] = "no"
         \/ \E n \in 1..7 :
              /\ has_errors(service) = Checks(service)[n] /\ Checks(service)[n] # "no"
              /\ \A m \in 1..7 : m < n => Checks(service)[m] = "no"
<1>1. PICK checks : checks = Checks(service)
  OBVIOUS
<1>2. PICK said : said = {n \in DOMAIN checks : checks[n] # "no"}
  OBVIOUS
<1>3. has_errors(service) = IF said = {} THEN "no" ELSE checks[Min(said)]
  BY <1>1, <1>2 DEF has_errors
<1>4. said \subseteq 1..7 /\ \A n \in 1..7 : n \in said <=> checks[n] # "no"
  BY <1>1, <1>2, SevenChecks
<1>5. CASE said = {}
  BY <1>1, <1>3, <1>4, <1>5
<1>6. CASE said # {}
  <2>1. PICK n : n = Min(said)
    OBVIOUS
  <2>2. n \in said /\ \A m \in said : n <= m
    BY <1>4, <1>6, <2>1, LeastPlace
  <2>3. \A m \in 1..7 : m < n => checks[m] = "no"
    BY <1>4, <2>2
  <2> QED BY <1>1, <1>3, <1>4, <1>6, <2>1, <2>2, <2>3
<1> QED BY <1>5, <1>6

(* What is wrong with a row is in one of four lists.                       *)
LEMMA WrongIsListed ==
  ASSUME NEW row, NEW service
  PROVE  has_error(row, service) <=>
           \/ has_bad_recipient(row, service) \/ has_missing_data(row, service)
           \/ row.message_too_long \/ row.message_empty
<1>1. \A key, data : CellError(key, data, service) \in {"none", "missing", "bad recipient"}
  BY DEF CellError
<1>2. \A key, data : CellError(key, data, service) = "bad recipient" => key = Recipient
  BY DEF CellError
<1> HIDE DEF CellError
<1>3. \A error : error \in Errors(row, service) <=>
        error # "none" /\ \E key \in DOMAIN row.data : error = CellError(key, row.data[key], service)
  BY DEF Errors
<1>4. Errors(row, service) # {} <=>
        has_bad_recipient(row, service) \/ has_missing_data(row, service)
  BY <1>1, <1>2, <1>3 DEF has_bad_recipient, has_missing_data
<1> QED BY <1>4 DEF has_error

LEMMA FilteredRows ==
  ASSUME RowsInv
  PROVE  \E S : /\ _filter_rows \in Seq(S)
                /\ ToSet(_filter_rows) = {row \in ToSet(rows) : row.data # NoValues}
<1>1. PICK S : rows \in Seq(S)
  BY DEF RowsInv
<1>2. PICK chosen : chosen = {row \in ToSet(rows) : row.data # NoValues}
  OBVIOUS
<1>3. Where(rows, chosen) \in Seq(S) /\ ToSet(Where(rows, chosen)) = ToSet(rows) \cap chosen
  BY <1>1, WhereItems
<1> QED BY <1>2, <1>3 DEF _filter_rows

LEMMA ListedRows ==
  ASSUME RowsInv, NEW service
  PROVE  /\ \E S : rows_with_errors(service) \in Seq(S)
         /\ ToSet(rows_with_errors(service)) = {row \in ToSet(_filter_rows) : has_error(row, service)}
         /\ ToSet(rows_with_bad_recipients(service))
              = {row \in ToSet(_filter_rows) : has_bad_recipient(row, service)}
         /\ ToSet(rows_with_missing_data(service))
              = {row \in ToSet(_filter_rows) : has_missing_data(row, service)}
         /\ ToSet(rows_with_message_too_long) = {row \in ToSet(_filter_rows) : row.message_too_long}
         /\ ToSet(rows_with_empty_message) = {row \in ToSet(_filter_rows) : row.message_empty}
<1>1. PICK S : /\ _filter_rows \in Seq(S)
               /\ ToSet(_filter_rows) = {row \in ToSet(rows) : row.data # NoValues}
  BY FilteredRows
<1>2. ToSet(_filter_rows) \subseteq ToSet(rows)
  BY <1>1
<1>3. \A chosen : /\ Where(_filter_rows, chosen) \in Seq(S)
                  /\ ToSet(Where(_filter_rows, chosen)) = ToSet(_filter_rows) \cap chosen
  BY <1>1, WhereItems
<1>4. rows_with_errors(service) \in Seq(S)
  BY <1>3 DEF rows_with_errors
<1>5. ToSet(rows_with_errors(service)) = {row \in ToSet(_filter_rows) : has_error(row, service)}
  BY <1>2, <1>3 DEF rows_with_errors
<1>6. ToSet(rows_with_bad_recipients(service))
        = {row \in ToSet(_filter_rows) : has_bad_recipient(row, service)}
  BY <1>2, <1>3 DEF rows_with_bad_recipients
<1>7. ToSet(rows_with_missing_data(service))
        = {row \in ToSet(_filter_rows) : has_missing_data(row, service)}
  BY <1>2, <1>3 DEF rows_with_missing_data
<1>8. ToSet(rows_with_message_too_long) = {row \in ToSet(_filter_rows) : row.message_too_long}
  BY <1>2, <1>3 DEF rows_with_message_too_long
<1>9. ToSet(rows_with_empty_message) = {row \in ToSet(_filter_rows) : row.message_empty}
  BY <1>2, <1>3 DEF rows_with_empty_message
<1> QED BY <1>4, <1>5, <1>6, <1>7, <1>8, <1>9

(* Of a file that has errors, something that is wrong is shown.            *)
LEMMA ErrorsAreShown ==
  ASSUME RowsInv, NEW service, has_errors(service) = "yes"
  PROVE  SomethingIsShown(service)
<1>1. PICK filtered : filtered = ToSet(_filter_rows)
  OBVIOUS
<1>2. PICK listed :
        listed = UNION {ToSet(list) :
                   list \in {rows_with_bad_recipients(service), rows_with_missing_data(service),
                             rows_with_message_too_long, rows_with_empty_message}}
  OBVIOUS
<1>3. PICK wrong : wrong = rows_with_errors(service)
  OBVIOUS
<1>4. ToSet(wrong) = {row \in filtered : has_error(row, service)}
  BY <1>1, <1>3, ListedRows
<1>5. listed = ToSet(wrong)
  <2>1. listed = ToSet(rows_with_bad_recipients(service)) \cup ToSet(rows_with_missing_data(service))
                   \cup ToSet(rows_with_message_too_long) \cup ToSet(rows_with_empty_message)
    BY <1>2
  <2>2. listed = {row \in filtered : \/ has_bad_recipient(row, service) \/ has_missing_data(row, service)
                                     \/ row.message_too_long \/ row.message_empty}
    BY <1>1, <2>1, ListedRows
  <2> QED BY <1>4, <2>2, WrongIsListed
<1>6. has_recipient_columns <=> Recipient \notin missing_column_headers
  BY DEF has_recipient_columns, missing_column_headers, KeysOf
<1>7. PICK n \in 1..7 :
        /\ Checks(service)[n] = "yes"
        /\ \A m \in 1..7 : m < n => Checks(service)[m] = "no"
  BY FirstAnswer
<1>8. CASE n \in 1..5
  BY <1>2, <1>3, <1>5, <1>6, <1>7, <1>8, SevenChecks DEF SomethingIsShown
<1>9. CASE n = 7
  BY <1>2, <1>3, <1>5, <1>6, <1>7, <1>9, SevenChecks DEF SomethingIsShown
<1>10. CASE n = 6
  <2>1. OfTheRows(service) = "yes" /\ Answer(missing_column_headers # {}) = "no"
    BY <1>7, <1>10, SevenChecks
  <2>2. missing_column_headers = {}
    BY <2>1 DEF Answer
  <2>3. PICK row \in filtered : has_error(row, service)
    BY <1>1, <2>1 DEF OfTheRows, Answer
  <2>4. PICK S : wrong \in Seq(S)
    BY <1>3, ListedRows
  <2>5. PICK k \in Nat : k = Len(wrong)
    BY <2>4, LenProperties
  <2>6. Among(row, wrong)
    BY <1>4, <2>3, <2>4, AmongThem
  <2>7. k >= 1 /\ wrong # <<>>
    BY <2>4, <2>5, <2>6, EmptySeq DEF Among
  <2>8. displayed_rows(service) = SubSeq(wrong, 1, Min({max_errors_shown, k}))
    BY <1>3, <2>2, <2>5, <2>7 DEF displayed_rows, FirstOf
  <2>9. PICK m \in 1..k : m = Min({max_errors_shown, k})
    BY <2>7, MinOfTwo, RecipientAssumption
  <2>10. wrong[1] \in ToSet(displayed_rows(service))
    <3>1. \A d \in 1..m : wrong[d] \in S
      BY <2>4, <2>5, <2>9, LenProperties
    <3>2. PICK shown : shown = SubSeq(wrong, 1, m)
      OBVIOUS
    <3>3. /\ shown \in Seq(S) /\ Len(shown) = IF 1 <= m THEN m - 1 + 1 ELSE 0
          /\ \A d \in 1..m - 1 + 1 : shown[d] = wrong[1 + d - 1]
      BY <3>1, <3>2, SubSeqProperties
    <3>4. m - 1 + 1 = m /\ 1 \in 1..m /\ 1 + 1 - 1 = 1 /\ 1 <= m
      BY <2>9
    <3>5. Len(shown) = m /\ shown[1] = wrong[1]
      BY <3>3, <3>4
    <3>6. Among(wrong[1], shown)
      BY <3>4, <3>5 DEF Among
    <3> QED BY <2>8, <2>9, <3>2, <3>3, <3>6, AmongThem
  <2>11. wrong[1] \in ToSet(wrong)
    BY <2>4, <2>5, <2>7, AmongThem DEF Among
  <2> QED BY <1>2, <1>3, <1>5, <1>6, <2>10, <2>11 DEF SomethingIsShown
<1> QED BY <1>7, <1>8, <1>9, <1>10

(* What is kept of a file's rows fits into its columns.                    *)
LEMMA RowsFit ==
  ASSUME FileInv, RowsInv, NEW n \in 1..Len(rows)
  PROVE  n \in Nat /\ n \in 1..Len(file.rows) /\ FitsIn(file.rows[n])
<1>1. Len(rows) \in Nat /\ Len(rows) <= Len(file.rows)
  BY LenProperties DEF RowsInv
<1>2. n \in 1..Len(file.rows)
  BY <1>1, FileIsASpreadsheet, LenProperties
<1>3. PICK sheet \in Seq(Seq(Cells)) : sheet = file.rows
  BY FileIsASpreadsheet
<1>4. PICK row \in Seq(Cells) : row = file.rows[n]
  BY <1>2, <1>3, LenProperties
<1>5. /\ index_of_first_empty_column \in Nat /\ Used(row) \in Nat
      /\ Used(row) <= index_of_first_empty_column
  BY <1>2, <1>4, AllUsedColumns, UsedColumns, LenProperties
<1>6. \A c \in 1..Len(row) : row[c] # Empty => c <= Used(row)
  BY UsedColumns
<1> QED BY <1>1, <1>2, <1>4, <1>5, <1>6 DEF FitsIn

(* A row that is looked at is one that was read.                           *)
LEMMA LookedAtIsRead ==
  ASSUME FileInv, RowsInv, NEW row \in ToSet(_filter_rows)
  PROVE  \E read : FitsIn(read) /\ row.data = DataOfRow(read)
<1>1. row \in ToSet(rows) /\ row.data # NoValues
  BY FilteredRows
<1>2. PICK S : rows \in Seq(S)
  BY DEF RowsInv
<1>3. PICK n \in 1..Len(rows) : rows[n] = row
  BY <1>1, <1>2, AmongThem DEF Among
<1>4. row # NoRow
  BY <1>1 DEF NoRow
<1>5. row.data = DataOfRow(file.rows[n])
  BY <1>3, <1>4 DEF RowsInv, RowIsRead, IsReadFrom
<1> QED BY <1>5, RowsFit

LEMMA RecipientsAreOne ==
  ASSUME FileInv, RowsInv, ~duplicate_recipient_column_headers, NEW row \in ToSet(_filter_rows)
  PROVE  recipient(row) \in Seq(Nat) /\ Len(recipient(row)) \in {0, 1}
<1>1. PICK read : FitsIn(read) /\ row.data = DataOfRow(read)
  BY LookedAtIsRead
<1>2. CASE Recipient \in DOMAIN row.data
  <2>1. DataIsOf(Recipient, row.data[Recipient], read)
    BY <1>1, <1>2, DataIsRead, RecipientAssumption
  <2>2. PICK data \in Seq(Nat) : data = row.data[Recipient] /\ Len(data) <= 1
    BY <2>1 DEF DataIsOf
  <2>3. PICK k \in Nat : k = Len(data)
    BY LenProperties
  <2>4. k \in {0, 1}
    <3>1. k <= 1
      BY <2>2, <2>3
    <3> QED BY <3>1
  <2> QED BY <1>2, <2>2, <2>3, <2>4 DEF recipient
<1>3. CASE Recipient \notin DOMAIN row.data
  BY <1>3 DEF recipient
<1> QED BY <1>2, <1>3

(* A file whose columns are all there, and whose recipient column is not   *)
(* repeated; and a row of it with nothing wrong.                           *)
Required == KeysOf(Placeholders) \cup {Recipient}
HasItsColumns == missing_column_headers = {} /\ ~duplicate_recipient_column_headers

LEMMA RequiredColumns ==
  ASSUME FileInv, HasItsColumns
  PROVE  Required \subseteq KeysOf(file.header) \ {Unheaded.key} /\ NoHeader.key \notin Required
<1>1. Required \subseteq KeysOf(file.header)
  BY DEF HasItsColumns, missing_column_headers, KeysOf, Required
<1>2. Unheaded.key \notin Required
  BY RecipientAssumption DEF Required
<1> QED BY <1>1, <1>2, FileIsASpreadsheet

IsComplete(row, service) ==
  /\ Required \subseteq DOMAIN row.data
  /\ \A key \in Required : row.data[key] # <<>>
  /\ row.data[Recipient] \in Seq(Nat) /\ Len(row.data[Recipient]) = 1
  /\ Valid(Head(row.data[Recipient]), service)

LEMMA RightIsComplete ==
  ASSUME FileInv, RowsInv, HasItsColumns, NEW service, NEW row \in ToSet(_filter_rows),
         ~has_error(row, service)
  PROVE  IsComplete(row, service)
<1>1. PICK read : FitsIn(read) /\ row.data = DataOfRow(read)
  BY LookedAtIsRead
<1>2. Required \subseteq DOMAIN row.data
  BY <1>1, RequiredColumns, DataIsRead DEF HasItsColumns
<1>3. \A key \in DOMAIN row.data : CellError(key, row.data[key], service) = "none"
  BY DEF has_error, Errors
<1>4. \A key \in Required : row.data[key] # <<>>
  <2> SUFFICES ASSUME NEW key \in Required, row.data[key] = <<>> PROVE FALSE
    OBVIOUS
  <2>1. CellError(key, row.data[key], service) = "missing"
    BY DEF CellError, Required, HasItsColumns
  <2> QED BY <1>2, <1>3, <2>1
<1>5. Recipient \in Required /\ Recipient \in DOMAIN row.data /\ row.data[Recipient] # <<>>
  BY <1>2, <1>4 DEF Required
<1>6. Valid(Head(row.data[Recipient]), service)
  <2>1. CellError(Recipient, row.data[Recipient], service) = "none"
    BY <1>3, <1>5
  <2> QED BY <1>5, <2>1 DEF CellError, HasItsColumns
<1>7. row.data[Recipient] \in Seq(Nat) /\ Len(row.data[Recipient]) = 1
  <2>1. PICK data \in Seq(Nat) : data = row.data[Recipient] /\ Len(data) \in {0, 1}
    BY <1>5, RecipientsAreOne DEF recipient, HasItsColumns
  <2>2. Len(data) # 0
    BY <1>5, <2>1, EmptySeq
  <2> QED BY <2>1, <2>2
<1> QED BY <1>2, <1>4, <1>6, <1>7 DEF IsComplete

(* The checks that say something say that there are errors, or that there  *)
(* are none.                                                               *)
LEMMA ChecksCanBeMade ==
  ASSUME FileInv, RowsInv, NEW service
  PROVE  has_errors(service) # "raises"
<1> SUFFICES ASSUME has_errors(service) = "raises" PROVE FALSE
  OBVIOUS
<1>1. PICK n \in 1..7 :
        /\ Checks(service)[n] = "raises"
        /\ \A m \in 1..7 : m < n => Checks(service)[m] = "no"
  BY FirstAnswer
<1>2. \A bad : Answer(bad) # "raises"
  BY DEF Answer
<1>3. n \in {5, 7}
  <2>1. /\ Checks(service)[1] # "raises" /\ Checks(service)[2] # "raises"
        /\ Checks(service)[3] # "raises" /\ Checks(service)[4] # "raises"
    BY <1>2, SevenChecks
  <2>2. Checks(service)[6] # "raises"
    BY <1>2, SevenChecks DEF OfTheRows
  <2>3. n \in {1, 2, 3, 4, 5, 6, 7}
    OBVIOUS
  <2> QED BY <1>1, <2>1, <2>2, <2>3
<1>4. Checks(service)[1] = "no" /\ Checks(service)[2] = "no"
  BY <1>1, <1>3
<1>5. HasItsColumns
  BY <1>4, SevenChecks DEF Answer, HasItsColumns
<1>6. CASE n = 5
  <2>1. NotAllowed(service) = "raises"
    BY <1>1, <1>6, SevenChecks
  <2>2. PICK row \in ToSet(_filter_rows) : Len(recipient(row)) > 1
    BY <1>2, <2>1 DEF NotAllowed
  <2>3. PICK k \in {0, 1} : k = Len(recipient(row))
    BY <1>5, RecipientsAreOne DEF HasItsColumns
  <2>4. k > 1
    BY <2>2, <2>3
  <2> QED BY <2>4
<1>7. CASE n = 7
  <2>1. more_international_sms_than_can_send(service) = "raises" /\ OfTheRows(service) = "no"
    BY <1>1, <1>7, SevenChecks
  <2>2. PICK row \in ToSet(_filter_rows) : Len(recipient(row)) # 1
    BY <1>2, <2>1 DEF more_international_sms_than_can_send
  <2>3. ~has_error(row, service)
    BY <2>1 DEF OfTheRows, Answer
  <2>4. IsComplete(row, service)
    BY <1>5, <2>3, RightIsComplete
  <2> QED BY <2>2, <2>4 DEF IsComplete, recipient, Required
<1> QED BY <1>3, <1>6, <1>7


(* A list with one value.                                                  *)
LEMMA OneValue ==
  ASSUME NEW data \in Seq(Nat), Len(data) = 1
  PROVE  /\ Head(data) \in Nat /\ data = <<Head(data)>> /\ ToSet(data) = {Head(data)}
         /\ ToSet(Present(data)) # {} => Present(data) = data
<1>1. PICK value \in Nat : value = data[1]
  <2>1. 1 \in 1..Len(data)
    OBVIOUS
  <2> QED BY <2>1, LenProperties
<1>2. data = <<value>> /\ Head(data) = value /\ data = Append(<<>>, value)
  BY <1>1
<1>3. Present(data) = Seen(<<>>, value)
  <2>1. PICK none \in Seq(Nat) : none = <<>>
    <3>1. <<>> \in Seq(Nat)
      OBVIOUS
    <3> QED BY <3>1
  <2>2. Present(Append(none, value)) = Seen(Present(none), value)
    BY OneMoreValue
  <2> QED BY <1>2, <2>1, <2>2, PresentOfNothing
<1>4. ToSet(data) = {value}
  BY <1>2 DEF ToSet
<1>5. ToSet(<<>>) = {}
  BY DEF ToSet
<1>6. ToSet(Present(data)) # {} => Present(data) = data
  BY <1>2, <1>3, <1>5 DEF Seen
<1> QED BY <1>2, <1>4, <1>6

(* The one recipient column has one heading.                               *)
LEMMA RecipientHasOneSpelling ==
  ASSUME FileInv, HasItsColumns
  PROVE  OneSpelling(Recipient)
<1>1. PICK n \in Nat : n = Len(file.header) /\ DOMAIN file.header = 1..n
  BY FileIsASpreadsheet, LenProperties
<1>2. PICK item \in ToSet(file.header) : item.key = Recipient
  BY RequiredColumns DEF Required, KeysOf
<1>3. \A c, d \in raw_recipient_columns : c = d
  <2>1. ~(Cardinality(raw_recipient_columns) > 1)
    BY DEF HasItsColumns, duplicate_recipient_column_headers
  <2>2. raw_recipient_columns \subseteq 1..n
    BY <1>1 DEF raw_recipient_columns
  <2> QED BY <2>1, <2>2, AtMostOne
<1>4. {spelt \in ToSet(file.header) : spelt.key = Recipient} = {item}
  <2> SUFFICES ASSUME NEW spelt \in ToSet(file.header), spelt.key = Recipient PROVE spelt = item
    BY <1>2
  <2>1. PICK c \in DOMAIN file.header : file.header[c] = item
    BY <1>2 DEF ToSet
  <2>2. PICK d \in DOMAIN file.header : file.header[d] = spelt
    BY DEF ToSet
  <2>3. c \in raw_recipient_columns /\ d \in raw_recipient_columns
    BY <1>2, <2>1, <2>2 DEF raw_recipient_columns, RecipientHeader
  <2> QED BY <1>3, <2>1, <2>2, <2>3
<1> QED BY <1>4, FS_Singleton DEF OneSpelling

(* A row of a file with no errors is one that was read, and has nothing    *)
(* wrong.                                                                  *)
LEMMA EachIsComplete ==
  ASSUME FileInv, RowsInv, NEW service, has_errors(service) = "no", NEW n \in 1..Len(rows)
  PROVE  /\ HasItsColumns
         /\ rows[n].data = DataOfRow(file.rows[n]) /\ FitsIn(file.rows[n])
         /\ rows[n] \in ToSet(_filter_rows) /\ rows[n].data # NoValues
         /\ IsComplete(rows[n], service)
<1>1. \A m \in 1..7 : Checks(service)[m] = "no"
  BY FirstAnswer
<1>2. HasItsColumns
  <2>1. Checks(service)[1] = "no" /\ Checks(service)[2] = "no"
    BY <1>1
  <2> QED BY <2>1, SevenChecks DEF Answer, HasItsColumns
<1>3. ~(Len(rows) > max_rows) /\ OfTheRows(service) = "no"
  <2>1. Checks(service)[4] = "no" /\ Checks(service)[6] = "no"
    BY <1>1
  <2> QED BY <2>1, SevenChecks DEF Answer, too_many_rows
<1>4. PICK length \in Nat : length = Len(rows)
  BY LenProperties DEF RowsInv
<1>5. n <= max_rows
  <2>1. max_rows \in Nat
    BY DEF RowsInv
  <2>2. n \in 1..length /\ ~(length > max_rows)
    BY <1>3, <1>4
  <2> QED BY <1>4, <2>1, <2>2
<1>6. rows[n].data = DataOfRow(file.rows[n]) /\ FitsIn(file.rows[n])
  BY <1>5, RowsFit DEF RowsInv, RowIsRead, IsReadFrom
<1>7. rows[n].data # NoValues
  <2>1. Recipient \in DOMAIN rows[n].data
    BY <1>2, <1>6, RequiredColumns, DataIsRead DEF HasItsColumns, Required
  <2>2. DOMAIN NoValues = {}
    BY DEF NoValues
  <2> QED BY <2>1, <2>2
<1>8. rows[n] \in ToSet(_filter_rows)
  <2>1. PICK S : rows \in Seq(S)
    BY DEF RowsInv
  <2>2. rows[n] \in ToSet(rows)
    BY <2>1, AmongThem DEF Among
  <2> QED BY <1>7, <2>2, FilteredRows
<1>9. ~has_error(rows[n], service)
  BY <1>3, <1>8 DEF OfTheRows, Answer
<1> QED BY <1>2, <1>6, <1>7, <1>8, <1>9, RightIsComplete

LEMMA EachIsSendable ==
  ASSUME FileInv, RowsInv, NEW service, has_errors(service) = "no", NEW n \in 1..Len(rows)
  PROVE  IsSendable(n)
<1>1. PICK values, read : values = rows[n].data /\ read = file.rows[n]
  OBVIOUS
<1>2. /\ HasItsColumns /\ ~duplicate_recipient_column_headers
      /\ values = DataOfRow(read) /\ FitsIn(read) /\ IsComplete(rows[n], service)
  BY <1>1, EachIsComplete DEF HasItsColumns
<1>3. PICK data : data = personalisation(rows[n])
  OBVIOUS
<1>4. data = [key \in DOMAIN values \cap Required |-> values[key]]
  BY <1>1, <1>3 DEF personalisation, Required
<1>5. Required \subseteq DOMAIN values
  BY <1>1, <1>2 DEF IsComplete
<1>6. DOMAIN data = Required /\ \A key \in Required : data[key] = values[key]
  BY <1>4, <1>5
<1>7. \A key \in Required : DataIsOf(key, data[key], read)
  BY <1>2, <1>5, <1>6, RequiredColumns, DataIsRead
<1>8. \A key \in Required : ToSet(Present(data[key])) # {}
  <2>1. \A key \in Required : data[key] # <<>>
    BY <1>1, <1>2, <1>6 DEF IsComplete
  <2> QED BY <1>7, <2>1 DEF DataIsOf
<1>9. Recipient \in Required
  BY DEF Required
<1>10. PICK numbers \in Seq(Nat) : numbers = data[Recipient] /\ Len(numbers) = 1
  BY <1>1, <1>2, <1>6, <1>9 DEF IsComplete
<1>11. Present(numbers) = numbers /\ numbers = <<Head(numbers)>>
  BY <1>8, <1>9, <1>10, OneValue
<1>12. data[Recipient] = ValuesUnder(read, Recipient)
  <2>1. Recipient \in KeysOf(file.header) /\ OneSpelling(Recipient)
    BY <1>2, <1>9, RequiredColumns, RecipientHasOneSpelling
  <2>2. Present(values[Recipient]) = ValuesUnder(read, Recipient)
    BY <1>2, <1>5, <1>9, <2>1, ValuesStay DEF UnderKey
  <2> QED BY <1>6, <1>9, <1>10, <1>11, <2>2
<1>13. data[Recipient] # <<Wrong>>
  <2>1. Head(numbers) # Wrong
    BY <1>1, <1>2, <1>6, <1>9, <1>10 DEF IsComplete, Valid
  <2> QED BY <1>10, <1>11, <2>1
<1>14. \A key \in KeysOf(Placeholders) :
         /\ ToSet(Present(data[key])) # {}
         /\ ToSet(Present(data[key])) \subseteq ToSet(ValuesUnder(read, key))
  BY <1>7, <1>8 DEF DataIsOf, Required
<1>15. DOMAIN data = KeysOf(Placeholders) \cup {Recipient}
  BY <1>6 DEF Required
<1> QED BY <1>1, <1>3, <1>12, <1>13, <1>14, <1>15, Zenon DEF IsSendable

LEMMA TheServiceAllowsIt ==
  ASSUME FileInv, RowsInv, NEW service \in Services, has_errors(service) = "no"
  PROVE  WithinTheService(service)
<1>1. \A m \in 1..7 : Checks(service)[m] = "no"
  BY FirstAnswer
<1>2. PICK length \in Nat : length = Len(rows) /\ DOMAIN rows = 1..length
  BY LenProperties DEF RowsInv
<1> DEFINE number(n) == Head(rows[n].data[Recipient])
           abroad == {n \in DOMAIN rows : number(n) = Elsewhere}
<1>3. \A n \in DOMAIN rows :
        /\ rows[n] \in ToSet(_filter_rows) /\ rows[n].data # NoValues
        /\ recipient(rows[n]) = <<number(n)>> /\ ToSet(recipient(rows[n])) = {number(n)}
        /\ Valid(number(n), service)
  <2> SUFFICES ASSUME NEW n \in DOMAIN rows
               PROVE  /\ rows[n] \in ToSet(_filter_rows) /\ rows[n].data # NoValues
                      /\ recipient(rows[n]) = <<number(n)>>
                      /\ ToSet(recipient(rows[n])) = {number(n)}
                      /\ Valid(number(n), service)
    OBVIOUS
  <2>1. /\ rows[n] \in ToSet(_filter_rows) /\ rows[n].data # NoValues
        /\ IsComplete(rows[n], service)
    BY <1>2, EachIsComplete
  <2>2. PICK numbers \in Seq(Nat) : numbers = rows[n].data[Recipient] /\ Len(numbers) = 1
    BY <2>1 DEF IsComplete
  <2>3. recipient(rows[n]) = numbers
    BY <2>1, <2>2 DEF IsComplete, recipient, Required
  <2>4. numbers = <<Head(numbers)>> /\ ToSet(numbers) = {Head(numbers)}
    BY <2>2, OneValue
  <2> QED BY <2>1, <2>2, <2>3, <2>4 DEF IsComplete
<1>4. Len(rows) <= service.remaining_messages
  <2>1. ~(Len(rows) > service.remaining_messages)
    <3>1. Checks(service)[3] = "no"
      BY <1>1
    <3> QED BY <3>1, SevenChecks DEF Answer, more_rows_than_can_send
  <2>2. PICK remaining \in Int : remaining = service.remaining_messages
    BY ServicesAssumption
  <2> QED BY <1>2, <2>1, <2>2
<1>5. ASSUME NEW n \in DOMAIN rows, service.guestlist # {} PROVE number(n) \in service.guestlist
  <2>1. NotAllowed(service) = "no"
    <3>1. Checks(service)[5] = "no"
      BY <1>1
    <3> QED BY <3>1, SevenChecks
  <2>2. \A row \in ToSet(_filter_rows) : ToSet(recipient(row)) \cap service.guestlist # {}
    BY <1>5, <2>1 DEF NotAllowed, Answer
  <2> QED BY <1>3, <2>2
<1>6. abroad # {} => service.allow_international_sms
  BY <1>3 DEF Valid
<1>7. Cardinality(abroad) <= Max({service.remaining_international_sms_messages, 0})
  <2>1. International = abroad
    <3>1. \A n \in DOMAIN rows : recipient(rows[n]) = <<Elsewhere>> <=> number(n) = Elsewhere
      BY <1>3
    <3> QED BY <1>3, <3>1 DEF International
  <2>2. more_international_sms_than_can_send(service) = "no"
    <3>1. Checks(service)[7] = "no"
      BY <1>1
    <3> QED BY <3>1, SevenChecks
  <2>3. ~(Cardinality(International) > Max({service.remaining_international_sms_messages, 0}))
    BY <2>2 DEF more_international_sms_than_can_send, Answer
  <2>4. PICK many \in Nat : many = Cardinality(International)
    <3>1. International \subseteq 1..length
      BY <1>2 DEF International
    <3>2. IsFiniteSet(1..length)
      BY FS_Interval
    <3>3. IsFiniteSet(International)
      BY <3>1, <3>2, FS_Subset
    <3> QED BY <3>3, FS_CardinalityType
  <2>5. PICK most \in Int : most = Max({service.remaining_international_sms_messages, 0})
    BY ServicesAssumption, MaxOfTwo
  <2>6. many <= most
    BY <2>3, <2>4, <2>5
  <2> QED BY <2>1, <2>4, <2>5, <2>6
<1> QED BY <1>4, <1>5, <1>6, <1>7, Zenon DEF WithinTheService

(* RowsAreMeasuredAlone: whether a row's message is too long or empty      *)
(* depends on its own values only, whatever was read and cached before.    *)
THEOREM RowsAreAlwaysMeasuredAlone == RecipientsSpec => []RowsAreMeasuredAlone
<1>1. RecipientsInv => RowsAreMeasuredAlone
  <2> SUFFICES ASSUME RecipientsInv PROVE RowsAreMeasuredAlone
    OBVIOUS
  <2>1. DOMAIN rows = 1..Len(rows)
    BY LenProperties DEF RecipientsInv, RowsInv
  <2>2. \A n \in DOMAIN rows : RowIsRead(n)
    BY <2>1 DEF RecipientsInv, RowsInv
  <2> QED BY <2>2, Zenon DEF RowsAreMeasuredAlone, RowIsRead, IsReadFrom
<1> QED BY <1>1, RecipientsInductive, PTL

(* NoValueIsLost: what stands in a row is in its data, whatever columns    *)
(* there are, repeated, missing at its end or beyond the last header.      *)
THEOREM ValuesAreNeverLost == RecipientsSpec => []NoValueIsLost
<1>1. RecipientsInv => NoValueIsLost
  <2> SUFFICES ASSUME RecipientsInv, NEW n \in DOMAIN rows, rows[n] # NoRow
               PROVE  /\ \A key \in KeysOf(file.header) :
                           OneSpelling(key) /\ (key = Recipient => ~duplicate_recipient_column_headers) =>
                             Present(CellData(rows[n], key)) = ValuesUnder(file.rows[n], key)
                      /\ Used(file.rows[n]) > Len(file.header) =>
                           \A c \in Len(file.header) + 1..Used(file.rows[n]) :
                             \E d \in DOMAIN rows[n].data[NoHeader.key] :
                               rows[n].data[NoHeader.key][d] = file.rows[n][c]
    BY Zenon DEF NoValueIsLost
  <2>1. FileInv /\ RowsInv
    BY DEF RecipientsInv
  <2>2. n \in 1..Len(rows)
    BY <2>1, LenProperties DEF RowsInv
  <2>3. rows[n].data = DataOfRow(file.rows[n])
    BY <2>1, <2>2 DEF RowsInv, RowIsRead, IsReadFrom
  <2>4. n \in 1..Len(file.rows) /\ FitsIn(file.rows[n])
    BY <2>1, <2>2, RowsFit
  <2>5. Used(file.rows[n]) <= index_of_first_empty_column
    BY <2>1, <2>4, AllUsedColumns
  <2>6. \A key \in KeysOf(file.header) :
          OneSpelling(key) /\ (key = Recipient => ~duplicate_recipient_column_headers) =>
            Present(UnderKey(DataOfRow(file.rows[n]), key)) = ValuesUnder(file.rows[n], key)
    BY <2>1, <2>4, ValuesStay
  <2>7. Used(file.rows[n]) > Len(file.header) =>
          \A c \in Len(file.header) + 1..Used(file.rows[n]) :
            \E d \in DOMAIN DataOfRow(file.rows[n])[NoHeader.key] :
              DataOfRow(file.rows[n])[NoHeader.key][d] = file.rows[n][c]
    BY <2>1, <2>4, <2>5, ExtraStays
  <2>8. \A key : CellData(rows[n], key) = UnderKey(DataOfRow(file.rows[n]), key)
    BY <2>3 DEF CellData, UnderKey
  <2> QED BY <2>3, <2>6, <2>7, <2>8
<1> QED BY <1>1, RecipientsInductive, PTL

(* ErrorFreeFilesAreSendable: of every file it can be said whether it has  *)
(* errors. Of one that has none every row has the phone number that stands *)
(* in it and, for each placeholder, values that do, and all may be sent    *)
(* for the service; of one that has, something that is wrong is shown.     *)
THEOREM FilesAreSendable == RecipientsSpec => []ErrorFreeFilesAreSendable
<1>1. RecipientsInv => ErrorFreeFilesAreSendable
  <2> SUFFICES ASSUME RecipientsInv, NEW service \in Services
               PROVE  /\ has_errors(service) # "raises"
                      /\ has_errors(service) = "no" =>
                           (\A n \in DOMAIN rows : IsSendable(n)) /\ WithinTheService(service)
                      /\ has_errors(service) = "yes" => SomethingIsShown(service)
    BY Zenon DEF ErrorFreeFilesAreSendable
  <2>1. FileInv /\ RowsInv
    BY DEF RecipientsInv
  <2>2. DOMAIN rows = 1..Len(rows)
    BY <2>1, LenProperties DEF RowsInv
  <2>3. has_errors(service) # "raises"
    BY <2>1, ChecksCanBeMade
  <2>4. has_errors(service) = "no" => (\A n \in DOMAIN rows : IsSendable(n))
    BY <2>1, <2>2, EachIsSendable
  <2>5. has_errors(service) = "no" => WithinTheService(service)
    BY <2>1, TheServiceAllowsIt
  <2>6. has_errors(service) = "yes" => SomethingIsShown(service)
    BY <2>1, ErrorsAreShown
  <2> QED BY <2>3, <2>4, <2>5, <2>6
<1> QED BY <1>1, RecipientsInductive, PTL

-----------------------------------------------------------------------------
(* InsensitiveSets: sets are read as the lists of their items.             *)

(* Of d places every s-th.                                                 *)
EveryNth(d, s) == (d + s - 1) \div s

LEMMA EveryNthPlace ==
  ASSUME NEW s \in 1..3, NEW d \in Nat
  PROVE  /\ EveryNth(d, s) \in Nat
         /\ \A k \in Nat : (k < d /\ k % s = 0) <=> \E j \in 1..EveryNth(d, s) : k = (j - 1) * s
<1>1. CASE s = 1
  <2>1. EveryNth(d, s) = d
    BY <1>1 DEF EveryNth
  <2>2. ASSUME NEW k \in Nat, k < d PROVE k + 1 \in 1..d /\ k = ((k + 1) - 1) * 1
    BY <2>2
  <2>3. \A k \in Nat : k % 1 = 0
    OBVIOUS
  <2>4. \A k \in Nat, j \in 1..d : k = (j - 1) * 1 => k < d
    OBVIOUS
  <2> QED BY <1>1, <2>1, <2>2, <2>3, <2>4
<1>2. CASE s = 2
  <2>1. PICK n \in Nat : n = EveryNth(d, s) /\ (d = 2 * n \/ d = 2 * n - 1)
    BY <1>2 DEF EveryNth
  <2>2. ASSUME NEW k \in Nat, k < d, k % 2 = 0 PROVE \E j \in 1..n : k = (j - 1) * 2
    <3>1. PICK i \in Nat : k = i * 2
      BY <2>2
    <3>2. i + 1 \in 1..n /\ k = ((i + 1) - 1) * 2
      BY <2>1, <2>2, <3>1
    <3> QED BY <3>2
  <2>3. ASSUME NEW k \in Nat, NEW j \in 1..n, k = (j - 1) * 2 PROVE k < d /\ k % 2 = 0
    BY <2>1, <2>3
  <2> QED BY <1>2, <2>1, <2>2, <2>3
<1>3. CASE s = 3
  <2>1. PICK n \in Nat : n = EveryNth(d, s) /\ (d = 3 * n \/ d = 3 * n - 1 \/ d = 3 * n - 2)
    BY <1>3 DEF EveryNth
  <2>2. ASSUME NEW k \in Nat, k < d, k % 3 = 0 PROVE \E j \in 1..n : k = (j - 1) * 3
    <3>1. PICK i \in Nat : k = i * 3
      BY <2>2
    <3>2. i + 1 \in 1..n /\ k = ((i + 1) - 1) * 3
      BY <2>1, <2>2, <3>1
    <3> QED BY <3>2
  <2>3. ASSUME NEW k \in Nat, NEW j \in 1..n, k = (j - 1) * 3 PROVE k < d /\ k % 3 = 0
    BY <2>1, <2>3
  <2> QED BY <1>3, <2>1, <2>2, <2>3
<1> QED BY <1>1, <1>2, <1>3

(* What is in places of a row of different numbers is as much as the places. *)
Differ(p, n) == \A i, j \in 1..n : p[i] = p[j] => i = j

LEMMA AsManyAsPlaces ==
  ASSUME NEW n \in Nat, NEW p, Differ(p, n)
  PROVE  Cardinality({p[i] : i \in 1..n}) = n
<1>1. PICK f, T : f = [k \in 1..n |-> p[k]] /\ T = {p[i] : i \in 1..n}
  OBVIOUS
<1>2. f \in Bijection(1..n, T)
  BY <1>1 DEF Differ, Bijection, Injection, IsInjective, Surjection
<1>3. IsFiniteSet(1..n) /\ Cardinality(1..n) = n
  <2>1. IsFiniteSet(1..n) /\ Cardinality(1..n) = IF 1 > n THEN 0 ELSE n - 1 + 1
    BY FS_Interval
  <2> QED BY <2>1
<1>4. ExistsBijection(1..n, T)
  BY <1>2, Zenon DEF ExistsBijection
<1>5. Cardinality(T) = n
  BY <1>3, <1>4, FS_Bijection
<1> QED BY <1>1, <1>5

(* What islice takes.                                                      *)
IsIsliced(taken, items, a, c, s) ==
  /\ Len(taken) = c
  /\ \A j \in 1..c : taken[j] = items[a + (j - 1) * s + 1]

LEMMA Isliced ==
  ASSUME NEW S, NEW items \in Seq(S), NEW a \in Nat, NEW b \in Nat, NEW s \in 1..3,
         NEW d \in Nat, d = Max({Min({b, Len(items)}) - a, 0})
  PROVE  /\ IsIsliced(islice(items, a, b, s), items, a, EveryNth(d, s), s)
         /\ islice(items, a, b, s) \in Seq(S)
         /\ \A j \in 1..EveryNth(d, s) : a + (j - 1) * s + 1 \in 1..Len(items)
<1>1. PICK n \in Nat : n = Len(items) /\ DOMAIN items = 1..n /\ \A k \in 1..n : items[k] \in S
  BY LenProperties
<1>2. PICK c \in Nat : c = EveryNth(d, s)
  BY EveryNthPlace
<1>3. \A j \in 1..c : (j - 1) * s \in Nat
  OBVIOUS
<1>4. d = 0 \/ a + d <= n
  <2>1. Min({b, n}) = IF b <= n THEN b ELSE n
    BY MinOfTwo
  <2>2. PICK m \in Nat : m = Min({b, n}) /\ m <= n
    BY <2>1
  <2>3. d = IF m - a >= 0 THEN m - a ELSE 0
    <3>1. PICK more \in Int : more = m - a
      OBVIOUS
    <3>2. Max({more, 0}) = IF more >= 0 THEN more ELSE 0
      BY MaxOfTwo
    <3> QED BY <1>1, <2>2, <3>1, <3>2
  <2> QED BY <2>2, <2>3
<1>5. ASSUME NEW j \in 1..c PROVE a + (j - 1) * s + 1 \in 1..n
  <2>1. PICK k \in Nat : k = (j - 1) * s
    BY <1>3
  <2>2. k < d
    BY <1>2, <2>1, EveryNthPlace
  <2> QED BY <1>1, <1>4, <2>1, <2>2
<1>6. PICK taken : taken = [j \in 1..c |-> items[a + (j - 1) * s + 1]]
  OBVIOUS
<1>7. islice(items, a, b, s) = taken
  BY <1>2, <1>6 DEF islice, EveryNth
<1>8. taken \in Seq(S) /\ Len(taken) = c
  BY <1>1, <1>5, <1>6
<1>9. IsIsliced(taken, items, a, c, s)
  BY <1>6, <1>8 DEF IsIsliced
<1> QED BY <1>1, <1>2, <1>5, <1>7, <1>8, <1>9

(* Of places in the order of a slice, as many stand before one as come     *)
(* before it.                                                              *)
InOrder(p, c, step) ==
  /\ \A i \in 1..c : p[i] \in Int
  /\ \A i, j \in 1..c : (p[i] - p[j]) * step < 0 <=> i < j

AsManyBefore(p, c, taken, step) ==
  /\ Cardinality(taken) = c
  /\ \A j \in 1..c : Cardinality({x \in taken : (x - p[j]) * step < 0}) + 1 = j

LEMMA PlacesBefore ==
  ASSUME NEW c \in Nat, NEW p, NEW step \in Int, InOrder(p, c, step),
         NEW taken, taken = {p[i] : i \in 1..c}
  PROVE  AsManyBefore(p, c, taken, step)
<1>1. ASSUME NEW i \in 1..c, NEW j \in 1..c, p[i] = p[j] PROVE i = j
  <2>1. (p[i] - p[j]) * step = 0 /\ (p[j] - p[i]) * step = 0
    BY <1>1 DEF InOrder
  <2>2. ~(i < j) /\ ~(j < i)
    BY <2>1 DEF InOrder
  <2>3. i \in Int /\ j \in Int
    OBVIOUS
  <2> QED BY <2>2, <2>3
<1>2. ASSUME NEW j \in 1..c
      PROVE  Cardinality({x \in taken : (x - p[j]) * step < 0}) + 1 = j
  <2>1. PICK n \in Nat : n = j - 1 /\ n <= c
    OBVIOUS
  <2>2. \A i \in 1..c : i < j <=> i \in 1..n
    BY <2>1
  <2>3. 1..n \subseteq 1..c
    BY <2>1
  <2>4. {x \in taken : (x - p[j]) * step < 0} = {p[i] : i \in 1..n}
    <3>1. \A i \in 1..c : (p[i] - p[j]) * step < 0 <=> i \in 1..n
      BY <2>2 DEF InOrder
    <3> QED BY <2>3, <3>1
  <2>5. Cardinality({p[i] : i \in 1..n}) = n
    <3>1. Differ(p, n)
      BY <1>1, <2>3 DEF Differ
    <3> QED BY <3>1, AsManyAsPlaces
  <2>6. Cardinality({x \in taken : (x - p[j]) * step < 0}) = n
    BY <2>4, <2>5
  <2> QED BY <2>1, <2>6
<1>3. Cardinality(taken) = c
  <2>1. Cardinality({p[i] : i \in 1..c}) = c
    <3>1. Differ(p, c)
      BY <1>1 DEF Differ
    <3> QED BY <3>1, AsManyAsPlaces
  <2> QED BY <2>1
<1> QED BY <1>2, <1>3 DEF AsManyBefore

(* Where a slice of n items begins and ends.                               *)
Begin(n, start, step) ==
  Place(FromEnd(IF start # NoBound THEN start ELSE IF step > 0 THEN 0 ELSE n, n), n, step)
End(n, stop, step) ==
  Place(FromEnd(IF stop # NoBound THEN stop ELSE IF step > 0 THEN n ELSE -(n + 1), n), n, step)
Between(n, start, stop, step) ==
  Max({Min({End(n, stop, step), n}) - Begin(n, start, step), 0})

LEMMA BetweenIs ==
  ASSUME NEW n \in Nat, NEW a \in Int, NEW b \in Int
  PROVE  Max({Min({b, n}) - a, 0})
           = IF (IF b <= n THEN b ELSE n) >= a THEN (IF b <= n THEN b ELSE n) - a ELSE 0
<1>1. PICK m \in Int : m = Min({b, n}) /\ m = IF b <= n THEN b ELSE n
  BY MinOfTwo
<1>2. PICK more \in Int : more = m - a
  OBVIOUS
<1>3. Max({more, 0}) = IF more >= 0 THEN more ELSE 0
  BY MaxOfTwo
<1> QED BY <1>1, <1>2, <1>3

LEMMA Clamped ==
  ASSUME NEW m \in Int, NEW low \in Int, NEW high \in Int, low <= high
  PROVE  Min({Max({m, low}), high}) = IF m < low THEN low ELSE IF m > high THEN high ELSE m
<1>1. PICK k \in Int : k = Max({m, low}) /\ k = IF m >= low THEN m ELSE low
  BY MaxOfTwo
<1>2. Min({k, high}) = IF k <= high THEN k ELSE high
  BY MinOfTwo
<1> QED BY <1>1, <1>2

TakenForwards(n, start, stop, step) ==
  \A m : m \in Sliced(n, start, stop, step)
    <=> \E k \in Nat : /\ k < Between(n, start, stop, step) /\ k % step = 0
                       /\ m = Begin(n, start, step) + k

LEMMA Forwards ==
  ASSUME NEW n \in Nat, NEW start \in Int \cup {NoBound}, NEW stop \in Int \cup {NoBound},
         NEW step \in 1..3
  PROVE  /\ Begin(n, start, step) \in Nat /\ End(n, stop, step) \in Nat
         /\ Between(n, start, stop, step) \in Nat
         /\ TakenForwards(n, start, stop, step)
<1>1. PICK f \in Int : f = FromEnd(IF start # NoBound THEN start ELSE 0, n)
  BY DEF FromEnd
<1>2. PICK l \in Int : l = FromEnd(IF stop # NoBound THEN stop ELSE n, n)
  BY DEF FromEnd
<1>3. PICK a \in Nat : a = Begin(n, start, step) /\ a = IF f >= 0 THEN f ELSE 0
  <2>1. Max({f, 0}) = IF f >= 0 THEN f ELSE 0
    BY MaxOfTwo
  <2> QED BY <1>1, <2>1 DEF Begin, Place
<1>4. PICK b \in Nat : b = End(n, stop, step) /\ b = IF l >= 0 THEN l ELSE 0
  <2>1. Max({l, 0}) = IF l >= 0 THEN l ELSE 0
    BY MaxOfTwo
  <2>2. step > 0 /\ ~(step < 0)
    OBVIOUS
  <2>3. End(n, stop, step) = Max({l, 0})
    BY <1>2, <2>2, Zenon DEF End, Place
  <2> QED BY <2>1, <2>3
<1>5. PICK d \in Nat : /\ d = Between(n, start, stop, step)
                       /\ d = IF (IF b <= n THEN b ELSE n) >= a THEN (IF b <= n THEN b ELSE n) - a ELSE 0
  BY <1>3, <1>4, BetweenIs DEF Between
<1>6. PICK first \in 0..n : /\ first = IF f < 0 THEN 0 ELSE IF f > n THEN n ELSE f
                            /\ first = IF start # NoBound
                                       THEN Min({Max({IF start < 0 THEN start + n ELSE start, 0}), n}) ELSE 0
  <2>1. CASE start # NoBound
    <3>1. start \in Int /\ f = IF start < 0 THEN start + n ELSE start
      BY <1>1, <2>1 DEF FromEnd
    <3>2. Min({Max({f, 0}), n}) = IF f < 0 THEN 0 ELSE IF f > n THEN n ELSE f
      BY Clamped
    <3> QED BY <2>1, <3>1, <3>2
  <2>2. CASE start = NoBound
    BY <1>1, <2>2 DEF FromEnd
  <2> QED BY <2>1, <2>2
<1>7. PICK last \in 0..n : /\ last = IF l < 0 THEN 0 ELSE IF l > n THEN n ELSE l
                           /\ last = IF stop # NoBound
                                     THEN Min({Max({IF stop < 0 THEN stop + n ELSE stop, 0}), n}) ELSE n
  <2>1. CASE stop # NoBound
    <3>1. stop \in Int /\ l = IF stop < 0 THEN stop + n ELSE stop
      BY <1>2, <2>1 DEF FromEnd
    <3>2. Min({Max({l, 0}), n}) = IF l < 0 THEN 0 ELSE IF l > n THEN n ELSE l
      BY Clamped
    <3> QED BY <2>1, <3>1, <3>2
  <2>2. CASE stop = NoBound
    BY <1>2, <2>2 DEF FromEnd
  <2> QED BY <2>1, <2>2
<1>8. Sliced(n, start, stop, step)
        = {m \in 0..n - 1 : first <= m /\ m < last /\ (m - first) % step = 0}
  <2>1. step > 0
    OBVIOUS
  <2> QED BY <1>6, <1>7, <2>1, Zenon DEF Sliced
<1>9. \A m \in 0..n - 1 : first <= m /\ m < last <=> a <= m /\ m - a < d
  BY <1>3, <1>4, <1>5, <1>6, <1>7
<1>10. \A m \in 0..n - 1 : first <= m /\ m < last => first = a
  BY <1>3, <1>6
<1>11. ASSUME NEW m, m \in Sliced(n, start, stop, step)
       PROVE  \E k \in Nat : k < d /\ k % step = 0 /\ m = a + k
  <2>1. m \in 0..n - 1 /\ first <= m /\ m < last /\ (m - first) % step = 0
    BY <1>8, <1>11
  <2>2. first = a /\ a <= m /\ m - a < d
    BY <1>9, <1>10, <2>1
  <2>3. PICK k \in Nat : k = m - a
    BY <2>1, <2>2
  <2>4. m = a + k /\ k < d /\ k % step = 0
    BY <2>1, <2>2, <2>3
  <2> QED BY <2>4
<1>12. ASSUME NEW k \in Nat, k < d, k % step = 0 PROVE a + k \in Sliced(n, start, stop, step)
  <2>1. PICK m \in 0..n - 1 : m = a + k
    BY <1>4, <1>5, <1>12
  <2>2. m - a = k /\ a <= m
    BY <2>1
  <2>3. first <= m /\ m < last /\ first = a
    BY <1>9, <1>10, <1>12, <2>1, <2>2
  <2> QED BY <1>8, <1>12, <2>1, <2>2, <2>3
<1>13. TakenForwards(n, start, stop, step)
  BY <1>3, <1>5, <1>11, <1>12 DEF TakenForwards
<1> QED BY <1>3, <1>4, <1>5, <1>13

TakenBackwards(n, start, stop, step) ==
  \A m : m \in Sliced(n, start, stop, step)
    <=> \E k \in Nat : /\ k < Between(n, start, stop, step) /\ k % (-step) = 0
                       /\ m = n - 1 - Begin(n, start, step) - k

LEMMA Backwards ==
  ASSUME NEW n \in Nat, NEW start \in Int \cup {NoBound}, NEW stop \in Int \cup {NoBound},
         NEW step \in -3..-1
  PROVE  /\ Begin(n, start, step) \in Nat /\ End(n, stop, step) \in Nat
         /\ Between(n, start, stop, step) \in Nat
         /\ TakenBackwards(n, start, stop, step)
<1>0. step < 0 /\ ~(step > 0)
  OBVIOUS
<1>1. PICK f \in Int : f = FromEnd(IF start # NoBound THEN start ELSE n, n)
  BY DEF FromEnd
<1>2. PICK l \in Int : l = FromEnd(IF stop # NoBound THEN stop ELSE -(n + 1), n)
  BY DEF FromEnd
<1>3. PICK a \in Nat : a = Begin(n, start, step) /\ a = IF n - (f + 1) >= 0 THEN n - (f + 1) ELSE 0
  <2>1. PICK x \in Int : x = n - (f + 1)
    OBVIOUS
  <2>2. Max({x, 0}) = IF x >= 0 THEN x ELSE 0
    BY MaxOfTwo
  <2>3. Begin(n, start, step) = Max({x, 0})
    BY <1>0, <1>1, <2>1, Zenon DEF Begin, Place
  <2> QED BY <2>1, <2>2, <2>3
<1>4. PICK b \in Nat : b = End(n, stop, step) /\ b = IF n - (l + 1) >= 0 THEN n - (l + 1) ELSE 0
  <2>1. PICK x \in Int : x = n - (l + 1)
    OBVIOUS
  <2>2. Max({x, 0}) = IF x >= 0 THEN x ELSE 0
    BY MaxOfTwo
  <2>3. End(n, stop, step) = Max({x, 0})
    BY <1>0, <1>2, <2>1, Zenon DEF End, Place
  <2> QED BY <2>1, <2>2, <2>3
<1>5. PICK d \in Nat : /\ d = Between(n, start, stop, step)
                       /\ d = IF (IF b <= n THEN b ELSE n) >= a THEN (IF b <= n THEN b ELSE n) - a ELSE 0
  BY <1>3, <1>4, BetweenIs DEF Between
<1>6. PICK first \in -1..n - 1 :
        /\ first = IF f < -1 THEN -1 ELSE IF f > n - 1 THEN n - 1 ELSE f
        /\ first = IF start # NoBound
                   THEN Min({Max({IF start < 0 THEN start + n ELSE start, -1}), n - 1}) ELSE n - 1
  <2>1. CASE start # NoBound
    <3>1. start \in Int /\ f = IF start < 0 THEN start + n ELSE start
      BY <1>1, <2>1 DEF FromEnd
    <3>2. PICK high \in Int : high = n - 1 /\ -1 <= high
      OBVIOUS
    <3>3. Min({Max({f, -1}), high}) = IF f < -1 THEN -1 ELSE IF f > high THEN high ELSE f
      BY <3>2, Clamped
    <3> QED BY <2>1, <3>1, <3>2, <3>3
  <2>2. CASE start = NoBound
    BY <1>1, <2>2 DEF FromEnd
  <2> QED BY <2>1, <2>2
<1>7. PICK last \in -1..n - 1 :
        /\ last = IF l < -1 THEN -1 ELSE IF l > n - 1 THEN n - 1 ELSE l
        /\ last = IF stop # NoBound
                  THEN Min({Max({IF stop < 0 THEN stop + n ELSE stop, -1}), n - 1}) ELSE -1
  <2>1. CASE stop # NoBound
    <3>1. stop \in Int /\ l = IF stop < 0 THEN stop + n ELSE stop
      BY <1>2, <2>1 DEF FromEnd
    <3>2. PICK high \in Int : high = n - 1 /\ -1 <= high
      OBVIOUS
    <3>3. Min({Max({l, -1}), high}) = IF l < -1 THEN -1 ELSE IF l > high THEN high ELSE l
      BY <3>2, Clamped
    <3> QED BY <2>1, <3>1, <3>2, <3>3
  <2>2. CASE stop = NoBound
    BY <1>2, <2>2 DEF FromEnd
  <2> QED BY <2>1, <2>2
<1>8. Sliced(n, start, stop, step)
        = {m \in 0..n - 1 : last < m /\ m <= first /\ (first - m) % (-step) = 0}
  BY <1>0, <1>6, <1>7, Zenon DEF Sliced
<1>9. \A m \in 0..n - 1 : last < m /\ m <= first <=> m <= n - 1 - a /\ (n - 1 - a) - m < d
  BY <1>3, <1>4, <1>5, <1>6, <1>7
<1>10. \A m \in 0..n - 1 : last < m /\ m <= first => first = n - 1 - a
  BY <1>3, <1>6
<1>11. ASSUME NEW m, m \in Sliced(n, start, stop, step)
       PROVE  \E k \in Nat : k < d /\ k % (-step) = 0 /\ m = n - 1 - a - k
  <2>1. m \in 0..n - 1 /\ last < m /\ m <= first /\ (first - m) % (-step) = 0
    BY <1>8, <1>11
  <2>2. first = n - 1 - a /\ (n - 1 - a) - m < d
    BY <1>9, <1>10, <2>1
  <2>3. PICK k \in Nat : k = first - m
    BY <2>1, <2>2
  <2>4. m = n - 1 - a - k /\ k < d /\ k % (-step) = 0
    BY <2>1, <2>2, <2>3
  <2> QED BY <2>4
<1>12. ASSUME NEW k \in Nat, k < d, k % (-step) = 0
       PROVE  n - 1 - a - k \in Sliced(n, start, stop, step)
  <2>1. PICK m \in 0..n - 1 : m = n - 1 - a - k
    BY <1>4, <1>5, <1>12
  <2>2. (n - 1 - a) - m = k /\ m <= n - 1 - a
    BY <2>1
  <2>3. last < m /\ m <= first /\ first = n - 1 - a
    BY <1>9, <1>10, <1>12, <2>1, <2>2
  <2>4. (first - m) % (-step) = 0
    BY <1>12, <2>2, <2>3
  <2> QED BY <1>8, <2>1, <2>3, <2>4
<1>13. TakenBackwards(n, start, stop, step)
  BY <1>3, <1>5, <1>11, <1>12 DEF TakenBackwards
<1> QED BY <1>3, <1>4, <1>5, <1>13

(* A slice has the items of the places that are taken, in their order.     *)
IsSliceOf(slice, items, taken, step) ==
  /\ Len(slice) = Cardinality(taken)
  /\ \A m \in taken :
       slice[Cardinality({n \in taken : (n - m) * step < 0}) + 1] = items[m + 1]

LEMMA SliceForwards ==
  ASSUME NEW S, NEW items \in Seq(S), NEW n \in Nat, n = Len(items),
         NEW start \in Int \cup {NoBound}, NEW stop \in Int \cup {NoBound}, NEW step \in 1..3
  PROVE  IsSliceOf(Slice(items, start, stop, step), items, Sliced(n, start, stop, step), step)
<1>1. PICK a \in Nat, b \in Nat, d \in Nat :
        /\ a = Begin(n, start, step) /\ b = End(n, stop, step) /\ d = Between(n, start, stop, step)
        /\ d = Max({Min({b, n}) - a, 0})
  BY Forwards DEF Between
<1>2. PICK slice : slice = islice(items, a, b, step)
  OBVIOUS
<1>3. Slice(items, start, stop, step) = slice
  <2>1. step > 0 /\ ~(step < 0)
    OBVIOUS
  <2> QED BY <1>1, <1>2, <2>1, Zenon DEF Slice, Begin, End
<1>4. PICK c \in Nat : c = EveryNth(d, step)
  BY EveryNthPlace
<1>5. Len(slice) = c /\ \A j \in 1..c : slice[j] = items[a + (j - 1) * step + 1]
  <2>1. d = Max({Min({b, Len(items)}) - a, 0})
    BY <1>1
  <2>2. IsIsliced(islice(items, a, b, step), items, a, EveryNth(d, step), step)
    BY <2>1, Isliced
  <2> QED BY <1>2, <1>4, <2>2 DEF IsIsliced
<1>6. PICK p : p = [j \in 1..c |-> a + (j - 1) * step]
  OBVIOUS
<1>7. \A j \in 1..c : (j - 1) * step \in Nat /\ p[j] \in Int /\ p[j] = a + (j - 1) * step
  BY <1>6
<1>8. PICK taken : taken = Sliced(n, start, stop, step)
  OBVIOUS
<1>9. taken = {p[j] : j \in 1..c}
  <2>0. \A m : m \in Sliced(n, start, stop, step)
          <=> \E k \in Nat : /\ k < Between(n, start, stop, step) /\ k % step = 0
                             /\ m = Begin(n, start, step) + k
    <3>1. TakenForwards(n, start, stop, step)
      BY Forwards
    <3> QED BY <3>1 DEF TakenForwards
  <2>1. \A m : m \in taken <=> \E k \in Nat : k < d /\ k % step = 0 /\ m = a + k
    BY <1>1, <1>8, <2>0
  <2>2. \A k \in Nat : (k < d /\ k % step = 0) <=> \E j \in 1..c : k = (j - 1) * step
    BY <1>4, EveryNthPlace
  <2>3. ASSUME NEW m \in taken PROVE \E j \in 1..c : m = p[j]
    <3>1. PICK k \in Nat : k < d /\ k % step = 0 /\ m = a + k
      BY <2>1
    <3>2. PICK j \in 1..c : k = (j - 1) * step
      BY <2>2, <3>1
    <3> QED BY <1>7, <3>1, <3>2
  <2>4. ASSUME NEW j \in 1..c PROVE p[j] \in taken
    <3>1. PICK k \in Nat : k = (j - 1) * step
      BY <1>7
    <3>2. k < d /\ k % step = 0 /\ p[j] = a + k
      BY <1>7, <2>2, <3>1
    <3> QED BY <2>1, <3>2
  <2> QED BY <2>3, <2>4
<1>10. \A i, j \in 1..c : (p[i] - p[j]) * step < 0 <=> i < j
  <2>1. step = 1 \/ step = 2 \/ step = 3
    OBVIOUS
  <2>2. CASE step = 1
    BY <1>7, <2>2
  <2>3. CASE step = 2
    BY <1>7, <2>3
  <2>4. CASE step = 3
    BY <1>7, <2>4
  <2> QED BY <2>1, <2>2, <2>3, <2>4
<1>11. AsManyBefore(p, c, taken, step)
  <2>1. InOrder(p, c, step)
    BY <1>7, <1>10 DEF InOrder
  <2> QED BY <1>9, <2>1, PlacesBefore
<1>12. \A j \in 1..c : slice[j] = items[p[j] + 1]
  BY <1>5, <1>7
<1>13. ASSUME NEW m \in taken
       PROVE  slice[Cardinality({x \in taken : (x - m) * step < 0}) + 1] = items[m + 1]
  <2>1. PICK j \in 1..c : m = p[j]
    BY <1>9
  <2> QED BY <1>11, <1>12, <2>1 DEF AsManyBefore
<1>14. IsSliceOf(slice, items, taken, step)
  BY <1>5, <1>11, <1>13 DEF IsSliceOf, AsManyBefore
<1> QED BY <1>3, <1>8, <1>14

LEMMA Reversed ==
  ASSUME NEW S, NEW items \in Seq(S), NEW n \in Nat, n = Len(items)
  PROVE  /\ Reverse(items) \in Seq(S) /\ Len(Reverse(items)) = n
         /\ \A k \in 1..n : Reverse(items)[k] = items[n - k + 1]
<1>1. \A k \in 1..n : items[n - k + 1] \in S
  <2>1. \A k \in 1..n : items[k] \in S
    BY LenProperties
  <2> QED BY <2>1
<1>2. Reverse(items) = [k \in 1..n |-> items[n - k + 1]]
  BY DEF Reverse
<1> QED BY <1>1, <1>2

LEMMA SliceBackwards ==
  ASSUME NEW S, NEW items \in Seq(S), NEW n \in Nat, n = Len(items),
         NEW start \in Int \cup {NoBound}, NEW stop \in Int \cup {NoBound}, NEW step \in -3..-1
  PROVE  IsSliceOf(Slice(items, start, stop, step), items, Sliced(n, start, stop, step), step)
<1>1. PICK a \in Nat, b \in Nat, d \in Nat :
        /\ a = Begin(n, start, step) /\ b = End(n, stop, step) /\ d = Between(n, start, stop, step)
        /\ d = Max({Min({b, n}) - a, 0})
  BY Backwards DEF Between
<1>2. PICK mirrored \in Seq(S) :
        /\ mirrored = Reverse(items) /\ Len(mirrored) = n
        /\ \A k \in 1..n : mirrored[k] = items[n - k + 1]
  BY Reversed
<1>3. PICK s \in 1..3 : s = -step
  OBVIOUS
<1>4. PICK slice : slice = islice(mirrored, a, b, s)
  OBVIOUS
<1>5. Slice(items, start, stop, step) = slice
  <2>1. step < 0 /\ ~(step > 0)
    OBVIOUS
  <2> QED BY <1>1, <1>2, <1>3, <1>4, <2>1, Zenon DEF Slice, Begin, End
<1>6. PICK c \in Nat : c = EveryNth(d, s)
  BY EveryNthPlace
<1>7. /\ Len(slice) = c
      /\ \A j \in 1..c : slice[j] = mirrored[a + (j - 1) * s + 1] /\ a + (j - 1) * s + 1 \in 1..n
  <2>1. d = Max({Min({b, Len(mirrored)}) - a, 0})
    BY <1>1, <1>2
  <2>2. /\ IsIsliced(islice(mirrored, a, b, s), mirrored, a, EveryNth(d, s), s)
        /\ \A j \in 1..EveryNth(d, s) : a + (j - 1) * s + 1 \in 1..Len(mirrored)
    BY <2>1, Isliced
  <2> QED BY <1>2, <1>4, <1>6, <2>2 DEF IsIsliced
<1>8. PICK p : p = [j \in 1..c |-> n - 1 - a - (j - 1) * s]
  OBVIOUS
<1>9. \A j \in 1..c : (j - 1) * s \in Nat /\ p[j] \in Int /\ p[j] = n - 1 - a - (j - 1) * s
  BY <1>8
<1>10. PICK taken : taken = Sliced(n, start, stop, step)
  OBVIOUS
<1>11. taken = {p[j] : j \in 1..c}
  <2>0. \A m : m \in Sliced(n, start, stop, step)
          <=> \E k \in Nat : /\ k < Between(n, start, stop, step) /\ k % (-step) = 0
                             /\ m = n - 1 - Begin(n, start, step) - k
    <3>1. TakenBackwards(n, start, stop, step)
      BY Backwards
    <3> QED BY <3>1 DEF TakenBackwards
  <2>1. \A m : m \in taken <=> \E k \in Nat : k < d /\ k % s = 0 /\ m = n - 1 - a - k
    BY <1>1, <1>3, <1>10, <2>0
  <2>2. \A k \in Nat : (k < d /\ k % s = 0) <=> \E j \in 1..c : k = (j - 1) * s
    BY <1>6, EveryNthPlace
  <2>3. ASSUME NEW m \in taken PROVE \E j \in 1..c : m = p[j]
    <3>1. PICK k \in Nat : k < d /\ k % s = 0 /\ m = n - 1 - a - k
      BY <2>1
    <3>2. PICK j \in 1..c : k = (j - 1) * s
      BY <2>2, <3>1
    <3> QED BY <1>9, <3>1, <3>2
  <2>4. ASSUME NEW j \in 1..c PROVE p[j] \in taken
    <3>1. PICK k \in Nat : k = (j - 1) * s
      BY <1>9
    <3>2. k < d /\ k % s = 0 /\ p[j] = n - 1 - a - k
      BY <1>9, <2>2, <3>1
    <3> QED BY <2>1, <3>2
  <2> QED BY <2>3, <2>4
<1>12. \A i, j \in 1..c : (p[i] - p[j]) * step < 0 <=> i < j
  <2>0. step = -1 \/ step = -2 \/ step = -3
    OBVIOUS
  <2>1. \/ step = -1 /\ s = 1
        \/ step = -2 /\ s = 2
        \/ step = -3 /\ s = 3
    BY <1>3, <2>0
  <2>2. CASE step = -1 /\ s = 1
    BY <1>9, <2>2
  <2>3. CASE step = -2 /\ s = 2
    BY <1>9, <2>3
  <2>4. CASE step = -3 /\ s = 3
    BY <1>9, <2>4
  <2> QED BY <2>1, <2>2, <2>3, <2>4
<1>13. AsManyBefore(p, c, taken, step)
  <2>1. InOrder(p, c, step)
    BY <1>9, <1>12 DEF InOrder
  <2>2. step \in Int
    OBVIOUS
  <2> QED BY <1>11, <2>1, <2>2, PlacesBefore
<1>14. ASSUME NEW j \in 1..c PROVE slice[j] = items[p[j] + 1]
  <2>1. PICK k \in 1..n : k = a + (j - 1) * s + 1
    BY <1>7
  <2>2. slice[j] = items[n - k + 1]
    BY <1>2, <1>7, <2>1
  <2>3. n - k + 1 = p[j] + 1
    BY <1>9, <2>1
  <2> QED BY <2>2, <2>3
<1>15. ASSUME NEW m \in taken
       PROVE  slice[Cardinality({x \in taken : (x - m) * step < 0}) + 1] = items[m + 1]
  <2>1. PICK j \in 1..c : m = p[j]
    BY <1>11
  <2> QED BY <1>13, <1>14, <2>1 DEF AsManyBefore
<1>16. IsSliceOf(slice, items, taken, step)
  BY <1>7, <1>13, <1>15 DEF IsSliceOf, AsManyBefore
<1> QED BY <1>5, <1>10, <1>16

(* One item, from whichever end.                                           *)
LEMMA OneIsTaken ==
  ASSUME NEW S, NEW items \in Seq(S), NEW n \in Nat, n = Len(items), NEW a \in 0..n - 1
  PROVE  islice(items, a, a + 1, 1) = <<items[a + 1]>>
<1>1. PICK b \in Nat : b = a + 1 /\ b <= n
  OBVIOUS
<1>2. Max({Min({b, Len(items)}) - a, 0}) = 1
  <2>1. Min({b, n}) = b
    BY <1>1, MinOfTwo
  <2>2. PICK more \in Int : more = b - a /\ more = 1
    BY <1>1
  <2>3. Max({more, 0}) = 1
    BY <2>2, MaxOfTwo
  <2> QED BY <2>1, <2>2, <2>3
<1>3. (1 + 1 - 1) \div 1 = 1
  OBVIOUS
<1>4. islice(items, a, b, 1) = [j \in 1..1 |-> items[a + (j - 1) * 1 + 1]]
  BY <1>2, <1>3, Zenon DEF islice
<1>5. \A j \in 1..1 : a + (j - 1) * 1 + 1 = a + 1
  OBVIOUS
<1>6. islice(items, a, b, 1) = [j \in 1..1 |-> items[a + 1]]
  BY <1>4, <1>5
<1> QED BY <1>1, <1>6

LEMMA ItemAt ==
  ASSUME NEW S, NEW items \in Seq(S), NEW n \in Nat, n = Len(items), NEW m \in Int
  PROVE  At(items, m) = IF m \in -n..n - 1
                        THEN <<items[IF m < 0 THEN m + n + 1 ELSE m + 1]>> ELSE <<>>
<1>1. PICK f \in Int : f = FromEnd(m, n) /\ f = IF m < 0 THEN m + n ELSE m
  BY DEF FromEnd
<1>2. f \in 0..n - 1 <=> m \in -n..n - 1
  BY <1>1
<1>3. f + 1 = IF m < 0 THEN m + n + 1 ELSE m + 1
  BY <1>1
<1>4. CASE f \notin 0..n - 1
  BY <1>1, <1>2, <1>4 DEF At
<1>5. CASE f \in 0..n - 1
  <2>1. PICK mirrored \in Seq(S) :
          /\ mirrored = Reverse(items) /\ Len(mirrored) = n
          /\ \A k \in 1..n : mirrored[k] = items[n - k + 1]
    BY Reversed
  <2>2. PICK a \in 0..n - 1 : a = n - (f + 1) /\ a + 1 = n - f
    BY <1>5
  <2>3. islice(mirrored, a, a + 1, 1) = <<mirrored[a + 1]>>
    BY <2>1, OneIsTaken
  <2>4. mirrored[a + 1] = items[f + 1]
    BY <1>5, <2>1, <2>2
  <2>5. islice(items, f, f + 1, 1) = <<items[f + 1]>>
    BY <1>5, OneIsTaken
  <2>6. At(items, m) = IF f > n \div 2 THEN islice(mirrored, a, a + 1, 1) ELSE islice(items, f, f + 1, 1)
    BY <1>1, <1>5, <2>1, <2>2, Zenon DEF At
  <2>7. At(items, m) = <<items[f + 1]>>
    BY <2>3, <2>4, <2>5, <2>6
  <2> QED BY <1>2, <1>3, <1>5, <2>7
<1> QED BY <1>4, <1>5

LEMMA WhereAnItemIs ==
  ASSUME NEW S, NEW items \in Seq(S), NEW n \in Nat, n = Len(items), NEW item,
         NEW start \in Nat, NEW stop \in Nat \cup {NoBound}
  PROVE  index(items, item, start, stop)
           = {m \in Sliced(n, start, stop, 1) : items[m + 1].key = item.key}
<1>0. start \in Int \cup {NoBound} /\ stop \in Int \cup {NoBound} /\ 1 \in 1..3
  OBVIOUS
<1>1. PICK b \in Nat : b = IF stop = NoBound THEN n ELSE stop
  OBVIOUS
<1>2. PICK d \in Nat : d = Between(n, start, stop, 1)
  BY <1>0, Forwards
<1>3. Begin(n, start, 1) = start /\ End(n, stop, 1) = b
  <2>1. Max({start, 0}) = start /\ Max({b, 0}) = b
    BY MaxOfTwo
  <2>2. start # NoBound /\ ~(start < 0) /\ ~(b < 0) /\ 1 > 0 /\ ~(1 < 0)
    BY BoundAssumption
  <2>3. Begin(n, start, 1) = Max({start, 0})
    BY <2>2, Zenon DEF Begin, Place, FromEnd
  <2>4. End(n, stop, 1) = Max({b, 0})
    BY <1>1, <2>2, Zenon DEF End, Place, FromEnd
  <2> QED BY <2>1, <2>3, <2>4
<1>4. d = Max({Min({b, Len(items)}) - start, 0})
  BY <1>2, <1>3 DEF Between
<1>5. EveryNth(d, 1) = d
  BY DEF EveryNth
<1>6. PICK among \in Seq(S) : among = islice(items, start, b, 1) /\ IsIsliced(among, items, start, d, 1)
  <2>1. b \in Nat /\ start \in Nat /\ 1 \in 1..3
    BY <1>1
  <2>2. /\ IsIsliced(islice(items, start, b, 1), items, start, EveryNth(d, 1), 1)
        /\ islice(items, start, b, 1) \in Seq(S)
    BY <1>4, <2>1, Isliced
  <2> QED BY <1>5, <2>2
<1>7. DOMAIN among = 1..d /\ \A j \in 1..d : among[j] = items[start + j]
  <2>1. Len(among) = d /\ \A j \in 1..d : among[j] = items[start + (j - 1) * 1 + 1]
    BY <1>6 DEF IsIsliced
  <2>2. \A j \in 1..d : start + (j - 1) * 1 + 1 = start + j
    OBVIOUS
  <2> QED BY <2>1, <2>2, LenProperties
<1>8. index(items, item, start, stop) = {start + j - 1 : j \in {k \in 1..d : among[k].key = item.key}}
  BY <1>1, <1>6, <1>7 DEF index
<1>9. \A m : m \in Sliced(n, start, stop, 1) <=> \E k \in Nat : k < d /\ m = start + k
  <2>1. \A m : m \in Sliced(n, start, stop, 1)
          <=> \E k \in Nat : /\ k < Between(n, start, stop, 1) /\ k % 1 = 0
                             /\ m = Begin(n, start, 1) + k
    <3>1. TakenForwards(n, start, stop, 1)
      BY <1>0, Forwards
    <3> QED BY <3>1 DEF TakenForwards
  <2>2. \A k \in Nat : k % 1 = 0
    OBVIOUS
  <2> QED BY <1>2, <1>3, <2>1, <2>2
<1>10. ASSUME NEW j \in 1..d, among[j].key = item.key
       PROVE  /\ start + j - 1 \in Sliced(n, start, stop, 1)
              /\ items[(start + j - 1) + 1].key = item.key
  <2>1. PICK k \in Nat : k = j - 1 /\ k < d /\ start + j - 1 = start + k /\ (start + k) + 1 = start + j
    OBVIOUS
  <2> QED BY <1>7, <1>9, <1>10, <2>1
<1>11. ASSUME NEW m \in Sliced(n, start, stop, 1), items[m + 1].key = item.key
       PROVE  \E j \in 1..d : among[j].key = item.key /\ m = start + j - 1
  <2>1. PICK k \in Nat : k < d /\ m = start + k
    BY <1>9
  <2>2. PICK j \in 1..d : j = k + 1 /\ start + j = m + 1 /\ m = start + j - 1
    BY <2>1
  <2> QED BY <1>7, <1>11, <2>2
<1>12. PICK found : found = {start + j - 1 : j \in {k \in 1..d : among[k].key = item.key}}
  OBVIOUS
<1>13. \A m : m \in found <=> m \in Sliced(n, start, stop, 1) /\ items[m + 1].key = item.key
  <2>1. ASSUME NEW m \in found PROVE m \in Sliced(n, start, stop, 1) /\ items[m + 1].key = item.key
    <3>1. PICK j \in 1..d : among[j].key = item.key /\ m = start + j - 1
      BY <1>12
    <3> QED BY <1>10, <3>1
  <2>2. ASSUME NEW m \in Sliced(n, start, stop, 1), items[m + 1].key = item.key PROVE m \in found
    <3>1. PICK j \in 1..d : among[j].key = item.key /\ m = start + j - 1
      BY <1>11, <2>2
    <3> QED BY <1>12, <3>1
  <2> QED BY <2>1, <2>2
<1>14. found = {m \in Sliced(n, start, stop, 1) : items[m + 1].key = item.key}
  BY <1>13
<1> QED BY <1>8, <1>12, <1>14

LEMMA Compared ==
  ASSUME NEW items \in OrderedSets, NEW others \in OrderedSets
  PROVE  /\ Equals(items, others) <=> AtMost(items, others) /\ AtMost(others, items)
         /\ AtMost(items, others) <=> Sub(items, others) = <<>>
         /\ EqualsList(items, others) => Equals(items, others)
<1>1. KeysOf(Sub(items, others)) = KeysOf(items) \ KeysOf(others) /\ Sub(items, others) \in OrderedSets
  BY AndSub
<1>2. (Sub(items, others) = <<>>) <=> KeysOf(items) \ KeysOf(others) = {}
  <2>1. PICK left \in OrderedSets : left = Sub(items, others) /\ KeysOf(left) = KeysOf(items) \ KeysOf(others)
    BY <1>1
  <2>2. PICK n \in Nat : n = Len(left)
    BY LenProperties DEF OrderedSets
  <2>3. CASE n = 0
    <3>1. left = <<>>
      BY <2>2, <2>3, EmptySeq DEF OrderedSets
    <3> QED BY <2>1, <3>1, NothingIsASet
  <2>4. CASE n # 0
    <3>1. left # <<>>
      BY <2>2, <2>4
    <3>2. KeysOf(left) = FirstKeys(left, n)
      BY <2>2, KeysAreFirstKeys DEF OrderedSets
    <3>3. left[1].key \in FirstKeys(left, n)
      BY <2>4 DEF FirstKeys
    <3> QED BY <2>1, <3>1, <3>2, <3>3
  <2> QED BY <2>3, <2>4
<1>3. ASSUME EqualsList(items, others) PROVE Equals(items, others)
  <2>1. /\ KeysOf(items) = {items[k].key : k \in DOMAIN items}
        /\ KeysOf(others) = {others[k].key : k \in DOMAIN others}
    BY DEF KeysOf, ToSet
  <2>2. [k \in DOMAIN items |-> items[k].key] = [k \in DOMAIN others |-> others[k].key]
    BY <1>3 DEF EqualsList, KeysInOrder
  <2>3. DOMAIN items = DOMAIN others
    BY <2>2
  <2>4. \A k \in DOMAIN items : items[k].key = others[k].key
    BY <2>2, <2>3
  <2> QED BY <2>1, <2>3, <2>4 DEF Equals
<1> QED BY <1>2, <1>3 DEF Equals, AtMost

(* SetsReadAsListsAndAsSets: a set of any length is indexed, sliced,       *)
(* backwards and beyond its ends too, and searched as the list of its      *)
(* items is, and compared as the set of its keys is.                       *)
THEOREM SetsAlwaysReadAsLists == SetsSpec => []SetsReadAsListsAndAsSets
<1>1. SetsInv => ReadAsListAndAsSet
  <2> SUFFICES ASSUME SetsInv PROVE ReadAsListAndAsSet
    OBVIOUS
  <2> SUFFICES ASSUME NEW s \in Sets, NEW items \in OrderedSets, items = inner[s],
                      NEW n \in Nat, n = Len(items)
               PROVE  /\ \A start, stop \in -(n + 2)..n + 2 \cup {NoBound}, step \in -3..3 \ {0} :
                           IsSliceOf(Slice(items, start, stop, step), items,
                                     Sliced(n, start, stop, step), step)
                      /\ \A m \in -(n + 2)..n + 2 :
                           At(items, m) = IF m \in -n..n - 1
                             THEN <<items[IF m < 0 THEN m + n + 1 ELSE m + 1]>> ELSE <<>>
                      /\ \A item \in Items, start \in 0..n + 2, stop \in (0..n + 2) \cup {NoBound} :
                           index(items, item, start, stop)
                             = {m \in Sliced(n, start, stop, 1) : items[m + 1].key = item.key}
                      /\ \A o \in Operands :
                           /\ Equals(items, Operand(o))
                                <=> AtMost(items, Operand(o)) /\ AtMost(Operand(o), items)
                           /\ AtMost(items, Operand(o)) <=> Sub(items, Operand(o)) = <<>>
                           /\ EqualsList(items, Operand(o)) => Equals(items, Operand(o))
    <3>1. \A s \in Sets : inner[s] \in OrderedSets /\ Len(inner[s]) \in Nat
      <4>1. \A s \in Sets : inner[s] \in OrderedSets
        BY DEF SetsInv
      <4> QED BY <4>1, LenProperties DEF OrderedSets
    <3> QED BY <3>1, Zenon DEF ReadAsListAndAsSet, IsSliceOf
  <2>0. items \in Seq(AllItems)
    BY DEF OrderedSets
  <2>1. ASSUME NEW start \in -(n + 2)..n + 2 \cup {NoBound}, NEW stop \in -(n + 2)..n + 2 \cup {NoBound},
               NEW step \in -3..3 \ {0}
        PROVE  IsSliceOf(Slice(items, start, stop, step), items, Sliced(n, start, stop, step), step)
    <3>1. start \in Int \cup {NoBound} /\ stop \in Int \cup {NoBound}
      OBVIOUS
    <3>2. step \in 1..3 \/ step \in -3..-1
      OBVIOUS
    <3> QED BY <2>0, <3>1, <3>2, SliceForwards, SliceBackwards
  <2>2. ASSUME NEW m \in -(n + 2)..n + 2
        PROVE  At(items, m) = IF m \in -n..n - 1
                 THEN <<items[IF m < 0 THEN m + n + 1 ELSE m + 1]>> ELSE <<>>
    <3>1. m \in Int
      OBVIOUS
    <3> QED BY <2>0, <3>1, ItemAt
  <2>3. ASSUME NEW item \in Items, NEW start \in 0..n + 2, NEW stop \in (0..n + 2) \cup {NoBound}
        PROVE  index(items, item, start, stop)
                 = {m \in Sliced(n, start, stop, 1) : items[m + 1].key = item.key}
    <3>1. start \in Nat /\ stop \in Nat \cup {NoBound}
      OBVIOUS
    <3> QED BY <2>0, <3>1, WhereAnItemIs
  <2>4. ASSUME NEW o \in Operands
        PROVE  /\ Equals(items, Operand(o))
                    <=> AtMost(items, Operand(o)) /\ AtMost(Operand(o), items)
               /\ AtMost(items, Operand(o)) <=> Sub(items, Operand(o)) = <<>>
               /\ EqualsList(items, Operand(o)) => Equals(items, Operand(o))
    BY OperandIsASet, Compared
  <2> QED BY <2>1, <2>2, <2>3, <2>4
<1>2. SetsInv => SetsReadAsListsAndAsSets
  BY <1>1 DEF SetsReadAsListsAndAsSets
<1> QED BY <1>2, SetsAreOrdered, PTL
=============================================================================
