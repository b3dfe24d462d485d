------------------------------- MODULE Eventlet -------------------------------
(* What the models of an eventlet worker's parts share.                    *)
EXTENDS Integers, FiniteSets

CONSTANTS Greenlets,
          None   \* Python's None, or an attribute that is not there

ASSUME EventletAssumption ==
  /\ IsFiniteSet(Greenlets)
  /\ None \notin Int

Max2(a, b) == IF a >= b THEN a ELSE b
=============================================================================
