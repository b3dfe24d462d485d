------------------------------ MODULE Insensitive ------------------------------
(***************************************************************************)
(* insensitive_dict.py: what its sets and dicts do, as operators.          *)
(*                                                                         *)
(* An item, a heading, is a key, what make_key makes of it, and a spelling *)
(* of it: headings that differ only in case, spaces, underscores and       *)
(* hyphens have one key.  A set is its items in order; a dict, what it is  *)
(* made of: entries, each of an item and data.                             *)
(***************************************************************************)
EXTENDS Integers, Lists

KeysOf(items) == {item.key : item \in ToSet(items)}

(* Like those of an OrderedSet: what is there is looked for by its spelling. *)
AddPairsSpelt(items, pairs) ==
  FoldLeft(LAMBDA known, item :
             IF item \in ToSet(known) THEN known ELSE Append(known, item),
           items, pairs)

(* _add_inner_pairs: earlier values take precedence.                       *)
AddPairs(items, pairs) ==
  FoldLeft(LAMBDA known, item :
             IF item.key \in KeysOf(known) THEN known ELSE Append(known, item),
           items, pairs)

FromIterable(items) == AddPairs(<<>>, items)

(* The items that have one of the keys, in their order; and the operators  *)
(* that make a new set.                                                    *)
OfKeys(items, keys) ==
  FoldLeft(LAMBDA known, item : IF item.key \in keys THEN Append(known, item) ELSE known,
           <<>>, items)

And(items, others) == OfKeys(items, KeysOf(others))
Sub(items, others) == OfKeys(items, KeysOf(items) \ KeysOf(others))
Or(items, others) == AddPairs(items, others)
Xor(items, others) == Sub(items, others) \o Sub(others, items)

EntriesOf(entries, key) == {n \in DOMAIN entries : entries[n].item.key = key}

(* InsensitiveDict(entries): later values take precedence.                 *)
DictOf(entries) ==
  [key \in {entry.item.key : entry \in ToSet(entries)} |->
     entries[Max(EntriesOf(entries, key))].data]
=============================================================================
