----------------------------- MODULE ContextPool -----------------------------
(***************************************************************************)
(* gunicorn/eventlet.py, ContextRecyclingEventletWorker: green threads     *)
(* that handle connections pass their thread contexts on through a stack,  *)
(* so that what local_vars.py, LazyLocalGetter, keeps in a context         *)
(* variable outlives the green thread that made it.                        *)
(*                                                                         *)
(* Green threads switch only while a connection is handled and while a     *)
(* resource is made, so the code before and after super().handle is one    *)
(* step each.                                                              *)
(***************************************************************************)
EXTENDS Sequences, Eventlet

CONSTANTS MaxContexts,     \* bound: contexts ever made
          MaxResources     \* bound: resources ever made

ASSUME PoolAssumption ==
  /\ MaxContexts \in Nat
  /\ MaxResources \in Nat

VARIABLES
  context_pool,  \* the deque: contexts no green thread is using
  pc,            \* what each green thread is doing
  gr_context,    \* its context; None before anything is stored in it
  resource,      \* what each context's variable holds; None if unset
  contexts,      \* number of contexts made
  resources,     \* number of resources made
  peak           \* most green threads that ever handled at once

pool_vars ==
  <<context_pool, pc, gr_context, resource, contexts, resources, peak>>

Ids == 1..MaxContexts
Handling == {g \in Greenlets : pc[g] \in {"handling", "making"}}

PoolInit ==
  /\ context_pool = <<>>
  /\ pc = [g \in Greenlets |-> "dead"]
  /\ gr_context = [g \in Greenlets |-> None]
  /\ resource = [x \in Ids |-> None]
  /\ contexts = 0
  /\ resources = 0
  /\ peak = 0

-----------------------------------------------------------------------------
(* ContextRecyclingEventletWorker.handle                                   *)

(* Mutant of TakeContext: contexts are stashed but never reused.           *)
TakeContextNever(g) == UNCHANGED <<gr_context, context_pool>>

TakeContext(g) ==
  \/ /\ context_pool = <<>>
     /\ UNCHANGED <<gr_context, context_pool>>
  \/ /\ context_pool # <<>>
     /\ gr_context' = [gr_context EXCEPT ![g] = context_pool[Len(context_pool)]]
     /\ context_pool' = SubSeq(context_pool, 1, Len(context_pool) - 1)

(* A connection is accepted and a green thread of the pool starts on it.   *)
Handle(g) ==
  /\ pc[g] = "dead"
  /\ TakeContext(g)
  /\ pc' = [pc EXCEPT ![g] = "handling"]
  /\ peak' = Max2(peak, Cardinality(Handling) + 1)
  /\ UNCHANGED <<resource, contexts, resources>>

(* Mutant of Stash: the context is stashed and kept.                       *)
StashAndKeep(g) ==
  /\ context_pool' = Append(context_pool, gr_context[g])
  /\ UNCHANGED gr_context

Stash(g) ==
  /\ context_pool' = Append(context_pool, gr_context[g])
  /\ gr_context' = [gr_context EXCEPT ![g] = None]

(* super().handle returns.  The green thread has its own end yet to come   *)
(* (closing the connection), in an empty context.                          *)
Return(g) ==
  /\ pc[g] = "handling"
  /\ Stash(g)
  /\ pc' = [pc EXCEPT ![g] = "closing"]
  /\ UNCHANGED <<resource, contexts, resources, peak>>

(* super().handle raises: nothing after it is run.                         *)
Raise(g) ==
  /\ pc[g] \in {"handling", "making"}
  /\ pc' = [pc EXCEPT ![g] = "closing"]
  /\ UNCHANGED <<context_pool, gr_context, resource, contexts, resources, peak>>

(* The green thread ends; what only its context referred to is freed.      *)
End(g) ==
  /\ pc[g] = "closing"
  /\ pc' = [pc EXCEPT ![g] = "dead"]
  /\ gr_context' = [gr_context EXCEPT ![g] = None]
  /\ UNCHANGED <<context_pool, resource, contexts, resources, peak>>

-----------------------------------------------------------------------------
(* LazyLocalGetter, called by the app or by what closes the connection.    *)

(* Mutant of Held: whatever the variable holds, the factory is called.     *)
HeldIgnored(g) == None

Held(g) == IF gr_context[g] = None THEN None ELSE resource[gr_context[g]]

(* __call__ finds the variable empty or None and calls the factory, during *)
(* which other green threads may run.                                      *)
StartFactory(g) ==
  /\ pc[g] = "handling"
  /\ Held(g) = None
  /\ pc' = [pc EXCEPT ![g] = "making"]
  /\ UNCHANGED <<context_pool, gr_context, resource, contexts, resources, peak>>

(* The factory's result is of the expected type and is stored.  Storing in *)
(* a green thread without a context makes one.                             *)
StoreResource(g) ==
  /\ pc[g] = "making"
  /\ resources < MaxResources
  /\ resources' = resources + 1
  /\ \/ /\ gr_context[g] # None
        /\ resource' = [resource EXCEPT ![gr_context[g]] = resources']
        /\ UNCHANGED <<gr_context, contexts>>
     \/ /\ gr_context[g] = None
        /\ contexts < MaxContexts
        /\ contexts' = contexts + 1
        /\ gr_context' = [gr_context EXCEPT ![g] = contexts']
        /\ resource' = [resource EXCEPT ![contexts'] = resources']
  /\ pc' = [pc EXCEPT ![g] = "handling"]
  /\ UNCHANGED <<context_pool, peak>>

(* The factory raises, or returns something of another type: a TypeError   *)
(* the app handles (if it does not, Raise).                                *)
RejectResource(g) ==
  /\ pc[g] = "making"
  /\ pc' = [pc EXCEPT ![g] = "handling"]
  /\ UNCHANGED <<context_pool, gr_context, resource, contexts, resources, peak>>

(* clear(); a context is made for a None too.                              *)
Clear(g) ==
  /\ pc[g] = "handling"
  /\ \/ /\ gr_context[g] # None
        /\ resource' = [resource EXCEPT ![gr_context[g]] = None]
        /\ UNCHANGED <<gr_context, contexts>>
     \/ /\ gr_context[g] = None
        /\ contexts < MaxContexts
        /\ contexts' = contexts + 1
        /\ gr_context' = [gr_context EXCEPT ![g] = contexts']
        /\ UNCHANGED resource
  /\ UNCHANGED <<context_pool, pc, resources, peak>>

PoolNext ==
  \E g \in Greenlets :
    \/ Handle(g) \/ Return(g) \/ Raise(g) \/ End(g)
    \/ StartFactory(g) \/ StoreResource(g) \/ RejectResource(g) \/ Clear(g)

PoolSpec == PoolInit /\ [][PoolNext]_pool_vars

-----------------------------------------------------------------------------
(* Properties.                                                             *)

PoolTypeOK ==
  /\ context_pool \in Seq(Ids \cup {None})
  /\ pc \in [Greenlets -> {"dead", "handling", "making", "closing"}]
  /\ gr_context \in [Greenlets -> Ids \cup {None}]
  /\ resource \in [Ids -> (1..MaxResources) \cup {None}]
  /\ contexts \in 0..MaxContexts
  /\ resources \in 0..MaxResources
  /\ peak \in Nat

(* What a context holds is never in the hands of two green threads, also   *)
(* while one of them is only closing its connection, nor of one while it   *)
(* waits in the pool for another.                                          *)
NoContextIsShared ==
  /\ \A g \in Greenlets, h \in Greenlets :
       g # h /\ gr_context[g] = gr_context[h] => gr_context[g] = None
  /\ \A g \in Greenlets, i \in DOMAIN context_pool :
       gr_context[g] = context_pool[i] => gr_context[g] = None
  /\ \A i \in DOMAIN context_pool, j \in DOMAIN context_pool :
       i # j /\ context_pool[i] = context_pool[j] => context_pool[i] = None

(* "We will never have more thread contexts than the maximum number of     *)
(* concurrent GreenThreads handling connections we've ever had": those in  *)
(* the pool and those in use add up to no more, whatever was raised.       *)
ContextsAreBounded ==
  Len(context_pool) + Cardinality(Handling) <= peak

(* A resource changes hands only through the pool: it is found again in    *)
(* the context it was stored in, until cleared, however many green threads *)
(* have passed the context on.                                             *)
ResourcesStay ==
  [][\A x \in Ids : resource'[x] # resource[x] =>
       \/ resource[x] = None
       \/ resource'[x] = None
            /\ \E g \in Handling : gr_context[g] = x]_pool_vars
=============================================================================
