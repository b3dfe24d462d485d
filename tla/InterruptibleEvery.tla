-------------------------- MODULE InterruptibleEvery --------------------------
(***************************************************************************)
(* interruptible_io.py: a function decorated with interruptible_every, and *)
(* the generator, interruptible_iter over repeat(None), that all its       *)
(* callers advance.  The generator switches green threads, or releases the *)
(* GIL, while it is being advanced.                                        *)
(***************************************************************************)
EXTENDS Eventlet

CONSTANT iterations

ASSUME EveryAssumption == iterations \in Nat \ {0}

VARIABLES
  generator,  \* "fresh", "suspended" at its yield, "executing" or "ended"
  i,          \* its counter
  place,      \* where each green thread is
  runs        \* calls of the inner function since the last switch (history)

every_vars == <<generator, i, place, runs>>

EveryInit ==
  /\ generator = "fresh"
  /\ i = 0
  /\ place = [g \in Greenlets |-> "outside"]
  /\ runs = 0

-----------------------------------------------------------------------------
(* interruptible_iter, from the point where it is advanced.                *)

Count == IF generator = "fresh" THEN 0 ELSE i + 1

Interrupts == Count >= iterations

-----------------------------------------------------------------------------
(* The generator is advanced to its next yield and the inner function is   *)
(* called.                                                                 *)
CallInner(g) ==
  /\ place[g] = "outside"
  /\ generator \in {"fresh", "suspended"}
  /\ ~Interrupts
  /\ i' = Count
  /\ generator' = "suspended"
  /\ runs' = runs + 1
  /\ place' = [place EXCEPT ![g] = "inner"]

(* The generator calls _allow_interruption: sleep(0).                      *)
Interrupt(g) ==
  /\ place[g] = "outside"
  /\ generator \in {"fresh", "suspended"}
  /\ Interrupts
  /\ i' = Count
  /\ generator' = "executing"
  /\ place' = [place EXCEPT ![g] = "switched"]
  /\ UNCHANGED runs

(* Mutant of Resume: the counter goes on from where it was.                *)
ResumeCounting(g) ==
  /\ place[g] = "switched"
  /\ i' = i
  /\ generator' = "suspended"
  /\ runs' = 1
  /\ place' = [place EXCEPT ![g] = "inner"]

(* ... and goes on when it is this green thread's turn again.              *)
Resume(g) ==
  /\ place[g] = "switched"
  /\ i' = 0
  /\ generator' = "suspended"
  /\ runs' = 1
  /\ place' = [place EXCEPT ![g] = "inner"]

(* The timer of this request has run out: the hub raises the exception in  *)
(* the green thread, inside the generator, which is over with it.          *)
TimeOut(g) ==
  /\ place[g] = "switched"
  /\ generator' = "ended"
  /\ place' = [place EXCEPT ![g] = "outside"]
  /\ UNCHANGED <<i, runs>>

(* ValueError: generator already executing.                                *)
Collide(g) ==
  /\ place[g] = "outside"
  /\ generator = "executing"
  /\ place' = [place EXCEPT ![g] = "ValueError"]
  /\ UNCHANGED <<generator, i, runs>>

(* StopIteration out of next(dummy_iterator).                              *)
Exhaust(g) ==
  /\ place[g] = "outside"
  /\ generator = "ended"
  /\ place' = [place EXCEPT ![g] = "StopIteration"]
  /\ UNCHANGED <<generator, i, runs>>

(* The call ends, with the inner function's result or an exception.        *)
Leave(g) ==
  /\ place[g] \in {"inner", "ValueError", "StopIteration"}
  /\ place' = [place EXCEPT ![g] = "outside"]
  /\ UNCHANGED <<generator, i, runs>>

EveryNext ==
  \E g \in Greenlets :
    \/ CallInner(g) \/ Interrupt(g) \/ Resume(g) \/ TimeOut(g)
    \/ Collide(g) \/ Exhaust(g) \/ Leave(g)

EverySpec == EveryInit /\ [][EveryNext]_every_vars

-----------------------------------------------------------------------------
(* Properties.                                                             *)

(* Whoever makes the calls, the inner function runs iterations times from  *)
(* one switch to the next: the other green threads are not kept waiting    *)
(* for longer, and switches are no more frequent than asked for.           *)
TakesTurns ==
  /\ runs <= iterations
  /\ generator = "executing" => runs = iterations

(* "Returns a decorator that, applied to a function, will keep a global    *)
(* counter of invocations and yield before every `iterations`'th call":    *)
(* a call yields or does not, and reaches the function.  It does not fail  *)
(* because another is yielding, nor for ever after one that was yielding   *)
(* has been timed out.                                                     *)
CallsReachTheFunction ==
  \A g \in Greenlets : place[g] \notin {"ValueError", "StopIteration"}
=============================================================================
