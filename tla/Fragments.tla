------------------------------- MODULE Fragments -------------------------------
(***************************************************************************)
(* template.py, BaseSMSTemplate: how many fragments a text message is sent *)
(* and paid for as.  count is its content_count, extended how many of its  *)
(* characters are extended GSM characters, and unicode whether it has      *)
(* non_gsm_characters.                                                     *)
(***************************************************************************)
EXTENDS Integers

Alone(unicode) == IF unicode THEN 70 ELSE 160

(* The rest of a part says which part of which message it is.              *)
InParts(unicode) == IF unicode THEN 67 ELSE 153

character_count(count, extended, unicode) == IF unicode THEN count ELSE count + extended

Ceil(n, d) == (n + d - 1) \div d

fragment_count(count, extended, unicode) ==
  LET n == character_count(count, extended, unicode)
  IN IF n <= Alone(unicode) THEN 1 ELSE Ceil(n, InParts(unicode))

boundary(fragments, unicode) ==
  IF fragments = 2 THEN Alone(unicode) ELSE InParts(unicode) * (fragments - 1)

count_of_characters_above_previous_fragment_boundary(count, extended, unicode) ==
  character_count(count, extended, unicode)
    - boundary(fragment_count(count, extended, unicode), unicode)

(* What n fragments hold.                                                  *)
Room(n, unicode) == IF n = 1 THEN Alone(unicode) ELSE n * InParts(unicode)

(* A message fits in the fragments that are paid for, would not fit in     *)
(* fewer, and the characters above the boundary are those that would not.  *)
NoFragmentTooMany(count, extended, unicode) ==
  LET n == character_count(count, extended, unicode)
      fragments == fragment_count(count, extended, unicode)
      above == count_of_characters_above_previous_fragment_boundary(count, extended, unicode)
  IN /\ fragments >= 1 /\ n <= Room(fragments, unicode)
     /\ fragments > 1 => /\ n > Room(fragments - 1, unicode)
                         /\ above = n - Room(fragments - 1, unicode)
     /\ fragments = 1 => above = n
=============================================================================
