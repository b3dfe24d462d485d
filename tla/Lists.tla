--------------------------------- MODULE Lists ---------------------------------
(***************************************************************************)
(* What is chosen of a list: Python's [item for item in list if ...].      *)
(***************************************************************************)
EXTENDS SequencesExt

(* Those of a list that are chosen, in their order.                        *)
Where(list, chosen) ==
  FoldLeft(LAMBDA some, item : IF item \in chosen THEN Append(some, item) ELSE some, <<>>, list)
=============================================================================
