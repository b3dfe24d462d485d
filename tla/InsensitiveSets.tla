---------------------------- MODULE InsensitiveSets ----------------------------
(***************************************************************************)
(* insensitive_dict.py, InsensitiveSet: ordered sets of headings, in which *)
(* those that differ only in case, spaces, underscores and hyphens are one *)
(* and keep the spelling that came first.  They are worked on with each    *)
(* other, with themselves and with immutable sets and lists that come from *)
(* elsewhere.                                                              *)
(***************************************************************************)
EXTENDS Insensitive

CONSTANTS Sets,   \* of one mutable type
          Items,
          Given,  \* sequences of items: lists, generators, immutable sets
          NoBound \* None, where a slice begins or ends

ASSUME SetsAssumption == \A items \in Given : items \in Seq(ToSet(items))
ASSUME BoundAssumption == NoBound \notin Int

VARIABLE inner    \* _inner's items, in their order

New(op, items, others) ==
  CASE op = "and" -> And(items, others)
    [] op = "sub" -> Sub(items, others)
    [] op = "or" -> Or(items, others)
    [] op = "xor" -> Xor(items, others)

Ops == {"and", "sub", "or", "xor"}
Operands == Sets \cup Given

Operand(o) == IF o \in Sets THEN inner[o] ELSE FromIterable(o)

SetsInit == inner = [s \in Sets |-> <<>>]

(* s = left op right; a list to the left leaves it to the set on its right, *)
(* which is asked with the operands swapped.                               *)
Assign(s, op, left, right) ==
  inner' = [inner EXCEPT ![s] = New(op, Operand(left), Operand(right))]

add(s, item) == inner' = [inner EXCEPT ![s] = AddPairs(@, <<item>>)]

(* discard, and remove, which raises for what is not there.                *)
discard(s, item) == inner' = [inner EXCEPT ![s] = Sub(@, <<item>>)]

pop(s) ==
  /\ inner[s] # <<>>
  /\ inner' = [inner EXCEPT ![s] = Front(@)]

clear(s) == inner' = [inner EXCEPT ![s] = <<>>]

(* The operators in place: what they leave of all sets.                    *)
iand(s, o) == [inner EXCEPT ![s] = And(@, Operand(o))]

ior(s, o) == [inner EXCEPT ![s] = AddPairs(@, Operand(o))]

(* The keys of a set of its type are taken out while they are iterated     *)
(* over, so that a set with items raises when it is taken out of itself.   *)
IsubRaises(s, o) == o = s /\ inner[s] # <<>>

isub(s, o) ==
  [inner EXCEPT ![s] = IF IsubRaises(s, o) THEN Tail(@) ELSE Sub(@, Operand(o))]

(* Mutant of Rest: what was in both comes back.                            *)
RestAll(others, intersection) == others

Rest(others, intersection) == Sub(others, intersection)

(* What is in both is taken out of s and, in place if it is a set of its   *)
(* type, out of o.                                                         *)
ixor(s, o) ==
  LET intersection == And(inner[s], Operand(o))
      subtracted == [inner EXCEPT ![s] = Sub(@, intersection)]
      others == Rest(IF o \in Sets THEN subtracted[o] ELSE Operand(o), intersection)
      rest == [n \in Sets |-> IF n = o THEN others ELSE subtracted[n]]
  IN [rest EXCEPT ![s] = AddPairs(@, others)]

InPlace(op, s, o) ==
  CASE op = "and" -> iand(s, o)
    [] op = "sub" -> isub(s, o)
    [] op = "or" -> ior(s, o)
    [] op = "xor" -> ixor(s, o)

SetsNext ==
  \E s \in Sets :
    \/ pop(s) \/ clear(s)
    \/ \E item \in Items : add(s, item) \/ discard(s, item)
    \/ \E op \in Ops, o \in Operands :
         \/ inner' = InPlace(op, s, o)
         \/ \E left \in Operands : Assign(s, op, left, o)

SetsSpec == SetsInit /\ [][SetsNext]_inner

-----------------------------------------------------------------------------
(* How they are read: slices of a set, in which NoBound is None, and the   *)
(* item at an index, both counted from 0, or from the end if negative; and *)
(* comparisons, of a set with others and of a set with a list.             *)
islice(items, start, stop, step) ==
  [n \in 1..(Max({Min({stop, Len(items)}) - start, 0}) + step - 1) \div step |->
     items[start + (n - 1) * step + 1]]

FromEnd(n, length) == IF n < 0 THEN n + length ELSE n

(* Mutant of Place: not the last item but the one beyond is the first.     *)
PlaceBeyond(n, length, step) == Max({IF step < 0 THEN length - n ELSE n, 0})

Place(n, length, step) == Max({IF step < 0 THEN length - (n + 1) ELSE n, 0})

Slice(items, start, stop, step) ==
  LET length == Len(items)
      first == IF start # NoBound THEN start ELSE IF step > 0 THEN 0 ELSE length
      last == IF stop # NoBound THEN stop ELSE IF step > 0 THEN length ELSE -(length + 1)
      place(n) == Place(FromEnd(n, length), length, step)
  IN islice(IF step < 0 THEN Reverse(items) ELSE items,
            place(first), place(last), IF step < 0 THEN -step ELSE step)

(* From the end if that is nearer; none for an IndexError.                 *)
At(items, n) ==
  LET length == Len(items)
      m == FromEnd(n, length)
  IN IF m \notin 0..length - 1 THEN <<>>
     ELSE IF m > length \div 2
          THEN islice(Reverse(items), length - (m + 1), length - m, 1)
          ELSE islice(items, m, m + 1, 1)

(* Where the item is between two places, neither from the end; nowhere for *)
(* a KeyError.                                                             *)
index(items, item, start, stop) ==
  LET among == islice(items, start, IF stop = NoBound THEN Len(items) ELSE stop, 1)
  IN {start + n - 1 : n \in {m \in DOMAIN among : among[m].key = item.key}}

KeysInOrder(items) == [n \in DOMAIN items |-> items[n].key]

EqualsList(items, list) == KeysInOrder(items) = KeysInOrder(list)
Equals(items, others) == KeysOf(items) = KeysOf(others)
AtMost(items, others) == KeysOf(items) \subseteq KeysOf(others)

-----------------------------------------------------------------------------
(* Properties.                                                             *)

Algebra(op, keys, others) ==
  CASE op = "and" -> keys \cap others
    [] op = "sub" -> keys \ others
    [] op = "or" -> keys \cup others
    [] op = "xor" -> (keys \cup others) \ (keys \cap others)

SomethingIsInThem == \E s \in Sets : inner[s] # <<>>

(* A set holds one spelling of each key; and whatever way it takes, an     *)
(* operator in place leaves what the one that makes a new set would have   *)
(* made of the same operands, in the same order and spellings, with the    *)
(* keys that the algebra of sets says.  Only a set that is taken out of    *)
(* itself is none of it, and raises.  The other sets are as they were, but *)
(* for the operand of s ^= o: it loses, order and spellings kept, what s   *)
(* and it had in common.                                                   *)
InPlaceAsNew ==
  \A s \in Sets :
    /\ Len(inner[s]) = Cardinality(KeysOf(inner[s]))
    /\ \A op \in Ops, o \in Operands :
         LET items == InPlace(op, s, o)[s]
         IN ~(op = "sub" /\ IsubRaises(s, o)) =>
              /\ items = New(op, inner[s], Operand(o))
              /\ KeysOf(items) = Algebra(op, KeysOf(inner[s]), KeysOf(Operand(o)))
    /\ \A op \in Ops, o \in Operands, t \in Sets \ {s} :
         InPlace(op, s, o)[t] =
           IF op = "xor" /\ t = o THEN New("sub", inner[t], inner[s]) ELSE inner[t]

(* Where there is something in one of the sets, so that TLC does not work  *)
(* it out for the empty ones in all states of other modules: InPlaceAsNew. *)
InPlaceIsAsNew == SomethingIsInThem => InPlaceAsNew

(* What list[start:stop:step] takes of n items, by their numbers from 0.   *)
Sliced(n, start, stop, step) ==
  LET low == IF step > 0 THEN 0 ELSE -1
      high == IF step > 0 THEN n ELSE n - 1
      clamped(m) == Min({Max({IF m < 0 THEN m + n ELSE m, low}), high})
      first == IF start # NoBound THEN clamped(start) ELSE IF step > 0 THEN low ELSE high
      last == IF stop # NoBound THEN clamped(stop) ELSE IF step > 0 THEN high ELSE low
  IN {m \in 0..n - 1 :
        IF step > 0 THEN first <= m /\ m < last /\ (m - first) % step = 0
        ELSE last < m /\ m <= first /\ (first - m) % (-step) = 0}

(* A set is indexed, sliced and searched as the list of its items is, each *)
(* item of a slice standing behind those that are taken before it,         *)
(* backwards and beyond its ends too; and it is compared as the set of its *)
(* keys is, but with a list as the list of them.                           *)
ReadAsListAndAsSet ==
  \A s \in Sets :
    LET items == inner[s]
        length == Len(items)
        bounds == -(length + 2)..length + 2
    IN /\ \A start, stop \in bounds \cup {NoBound}, step \in -3..3 \ {0} :
            LET slice == Slice(items, start, stop, step)
                taken == Sliced(length, start, stop, step)
            IN /\ Len(slice) = Cardinality(taken)
               /\ \A m \in taken :
                    slice[Cardinality({n \in taken : (n - m) * step < 0}) + 1] = items[m + 1]
       /\ \A n \in bounds :
            At(items, n) = IF n \in -length..length - 1
                           THEN <<items[IF n < 0 THEN n + length + 1 ELSE n + 1]>> ELSE <<>>
       /\ \A item \in Items, start \in 0..length + 2, stop \in (0..length + 2) \cup {NoBound} :
            index(items, item, start, stop)
              = {n \in Sliced(length, start, stop, 1) : items[n + 1].key = item.key}
       /\ \A o \in Operands :
            LET others == Operand(o)
            IN /\ Equals(items, others) <=> AtMost(items, others) /\ AtMost(others, items)
               /\ AtMost(items, others) <=> Sub(items, others) = <<>>
               /\ EqualsList(items, others) => Equals(items, others)

(* Where there is something in one of the sets: ReadAsListAndAsSet.        *)
SetsReadAsListsAndAsSets == SomethingIsInThem => ReadAsListAndAsSet
=============================================================================
