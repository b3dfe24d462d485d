----------------------------- MODULE WorkerProofs -----------------------------
(***************************************************************************)
(* Theorems about an eventlet worker: ContextPool, for any number of green *)
(* threads, GreenletAccounting, for any number of greenlets and switches,  *)
(* InterruptibleEvery, for any number of callers and iterations, and       *)
(* RequestLog, for any requests and what is said outside.                  *)
(***************************************************************************)
EXTENDS ContextPool, GreenletAccounting, InterruptibleEvery, RequestLog,
        FiniteSetTheorems, TLAPS

-----------------------------------------------------------------------------
(* The pool of contexts.                                                   *)

(* Contexts in use or in the pool were made, so a new one is nobody's.     *)
OnlyMadeContexts ==
  /\ \A g \in Greenlets : gr_context[g] # None => gr_context[g] <= contexts
  /\ \A at \in DOMAIN context_pool :
       context_pool[at] # None => context_pool[at] <= contexts

PoolInv == PoolTypeOK /\ NoContextIsShared /\ OnlyMadeContexts /\ ContextsAreBounded

LEMMA PoolInitially == PoolInit => PoolInv
<1> SUFFICES ASSUME PoolInit PROVE PoolInv
  OBVIOUS
<1> USE PoolAssumption, EventletAssumption DEF PoolInit
<1>1. PoolTypeOK
  BY DEF PoolTypeOK
<1>2. NoContextIsShared /\ OnlyMadeContexts
  BY DEF NoContextIsShared, OnlyMadeContexts
<1>3. Handling = {}
  BY DEF Handling
<1>4. ContextsAreBounded
  BY <1>3, FS_EmptySet DEF ContextsAreBounded
<1> QED BY <1>1, <1>2, <1>4 DEF PoolInv

LEMMA HandlingIsFinite == IsFiniteSet(Handling) /\ Cardinality(Handling) \in Nat
<1>1. Handling \subseteq Greenlets
  BY DEF Handling
<1> QED BY <1>1, PoolAssumption, EventletAssumption, FS_Subset, FS_CardinalityType

(* What the stack gives and takes.                                         *)
LEMMA PopFacts ==
  ASSUME NEW S, NEW s \in Seq(S), s # <<>>
  PROVE  /\ Len(s) \in Nat \ {0}
         /\ s[Len(s)] \in S
         /\ SubSeq(s, 1, Len(s) - 1) \in Seq(S)
         /\ Len(SubSeq(s, 1, Len(s) - 1)) = Len(s) - 1
         /\ \A at \in DOMAIN SubSeq(s, 1, Len(s) - 1) :
              /\ at \in DOMAIN s /\ at # Len(s)
              /\ SubSeq(s, 1, Len(s) - 1)[at] = s[at]
<1>1. Len(s) \in Nat \ {0} /\ DOMAIN s = 1..Len(s)
  OBVIOUS
<1> DEFINE n == Len(s) - 1
           t == SubSeq(s, 1, n)
<1>2. \A at \in 1..n : at \in DOMAIN s /\ s[at] \in S
  BY <1>1
<1>3. t = [at \in 1..n |-> s[at]]
  BY <1>1, Z3
<1>4. t \in Seq(S) /\ Len(t) = n
  BY <1>1, <1>2, <1>3
<1>5. \A at \in DOMAIN t : at \in DOMAIN s /\ at # Len(s) /\ t[at] = s[at]
  BY <1>1, <1>3
<1> QED BY <1>1, <1>4, <1>5

LEMMA AppendFacts ==
  ASSUME NEW S, NEW s \in Seq(S), NEW x \in S
  PROVE  /\ Append(s, x) \in Seq(S)
         /\ Len(Append(s, x)) = Len(s) + 1
         /\ \A at \in DOMAIN Append(s, x) :
              \/ at \in DOMAIN s /\ Append(s, x)[at] = s[at]
              \/ at = Len(s) + 1 /\ at \notin DOMAIN s /\ Append(s, x)[at] = x
OBVIOUS

(* The steps of handle.                                                    *)
LEMMA HandleStep ==
  ASSUME PoolInv, NEW g \in Greenlets, Handle(g)
  PROVE  PoolInv'
<1> USE PoolAssumption, EventletAssumption DEF PoolInv
<1>1. /\ Handling' = Handling \cup {g}
      /\ g \notin Handling
  BY DEF Handle, Handling, PoolTypeOK
<1>2. Cardinality(Handling') = Cardinality(Handling) + 1
  BY <1>1, HandlingIsFinite, FS_AddElement
<1>3. /\ peak' \in Nat
      /\ peak' >= peak
      /\ peak' >= Cardinality(Handling) + 1
  BY HandlingIsFinite DEF Handle, PoolTypeOK, Max2
<1>4. CASE context_pool = <<>>
  <2>1. UNCHANGED <<gr_context, context_pool, contexts>>
    BY <1>4 DEF Handle, TakeContext
  <2>2. PoolTypeOK'
    BY <1>3, <2>1 DEF Handle, PoolTypeOK
  <2>3. NoContextIsShared' /\ OnlyMadeContexts'
    BY <2>1 DEF NoContextIsShared, OnlyMadeContexts
  <2>4. ContextsAreBounded'
    <3>1. Len(context_pool') = 0
      BY <1>4, <2>1
    <3> QED BY <1>2, <1>3, <3>1, HandlingIsFinite DEF ContextsAreBounded
  <2> QED BY <2>2, <2>3, <2>4
<1>5. CASE context_pool # <<>>
  <2> DEFINE top == context_pool[Len(context_pool)]
  <2>1. /\ gr_context' = [gr_context EXCEPT ![g] = top]
        /\ context_pool' = SubSeq(context_pool, 1, Len(context_pool) - 1)
        /\ UNCHANGED contexts
    BY <1>5 DEF Handle, TakeContext
  <2>2. context_pool \in Seq(Ids \cup {None})
    BY DEF PoolTypeOK
  <2>3. /\ Len(context_pool) \in Nat \ {0}
        /\ top \in Ids \cup {None}
        /\ context_pool' \in Seq(Ids \cup {None})
        /\ Len(context_pool') = Len(context_pool) - 1
        /\ \A at \in DOMAIN context_pool' :
             /\ at \in DOMAIN context_pool /\ at # Len(context_pool)
             /\ context_pool'[at] = context_pool[at]
    BY <1>5, <2>1, <2>2, PopFacts
  <2>4. Len(context_pool) \in DOMAIN context_pool
    BY <2>2, <2>3
  <2>5. PoolTypeOK'
    BY <1>3, <2>1, <2>3 DEF Handle, PoolTypeOK
  <2>6. NoContextIsShared'
    <3> HIDE DEF top
    <3>1. \A h \in Greenlets : gr_context[h] = top => top = None
      BY <2>4 DEF NoContextIsShared, top
    <3>2. \A at \in DOMAIN context_pool' : context_pool'[at] = top => top = None
      BY <2>3, <2>4 DEF NoContextIsShared, top
    <3> QED BY <2>1, <2>3, <3>1, <3>2 DEF NoContextIsShared, PoolTypeOK
  <2>7. OnlyMadeContexts'
    BY <2>1, <2>3, <2>4 DEF OnlyMadeContexts, PoolTypeOK
  <2>8. ContextsAreBounded'
    BY <1>2, <1>3, <2>3, HandlingIsFinite DEF ContextsAreBounded, PoolTypeOK
  <2> QED BY <2>5, <2>6, <2>7, <2>8
<1> QED BY <1>4, <1>5

(* A green thread is done with its connection.                             *)
LEMMA OneLessHandling ==
  ASSUME PoolInv, NEW g \in Handling, pc' = [pc EXCEPT ![g] = "closing"]
  PROVE  Cardinality(Handling') = Cardinality(Handling) - 1
<1>1. Handling' = Handling \ {g}
  BY DEF PoolInv, Handling, PoolTypeOK
<1> QED BY <1>1, HandlingIsFinite, FS_RemoveElement

LEMMA ReturnStep ==
  ASSUME PoolInv, NEW g \in Greenlets, Return(g)
  PROVE  PoolInv'
<1> USE PoolAssumption, EventletAssumption DEF PoolInv
<1> DEFINE mine == gr_context[g]
<1>1. Cardinality(Handling') = Cardinality(Handling) - 1
  BY OneLessHandling DEF Return, Handling
<1>2. /\ context_pool' = Append(context_pool, mine)
      /\ gr_context' = [gr_context EXCEPT ![g] = None]
      /\ UNCHANGED <<contexts, peak>>
  BY DEF Return, Stash
<1>3. context_pool \in Seq(Ids \cup {None}) /\ mine \in Ids \cup {None}
  BY DEF PoolTypeOK
<1>4. /\ context_pool' \in Seq(Ids \cup {None})
      /\ Len(context_pool') = Len(context_pool) + 1
      /\ \A at \in DOMAIN context_pool' :
           \/ at \in DOMAIN context_pool /\ context_pool'[at] = context_pool[at]
           \/ at = Len(context_pool) + 1 /\ at \notin DOMAIN context_pool
                /\ context_pool'[at] = mine
  BY <1>2, <1>3, AppendFacts
<1>5. PoolTypeOK'
  BY <1>4 DEF Return, Stash, PoolTypeOK
<1>6. NoContextIsShared'
  <2>1. \A h \in Greenlets, k \in Greenlets :
          h # k /\ gr_context'[h] = gr_context'[k] => gr_context'[h] = None
    BY <1>2 DEF NoContextIsShared, PoolTypeOK
  <2>2. \A h \in Greenlets, at \in DOMAIN context_pool' :
          gr_context'[h] = context_pool'[at] => gr_context'[h] = None
    BY <1>2, <1>4 DEF NoContextIsShared, PoolTypeOK
  <2>3. \A at \in DOMAIN context_pool', j \in DOMAIN context_pool' :
          at # j /\ context_pool'[at] = context_pool'[j] => context_pool'[at] = None
    BY <1>4 DEF NoContextIsShared
  <2> QED BY <2>1, <2>2, <2>3 DEF NoContextIsShared
<1>7. OnlyMadeContexts'
  BY <1>2, <1>4 DEF OnlyMadeContexts, PoolTypeOK
<1>8. ContextsAreBounded'
  <2>1. Len(context_pool) \in Nat /\ Cardinality(Handling) \in Nat /\ peak \in Nat
    BY <1>3, HandlingIsFinite DEF PoolTypeOK
  <2> QED BY <1>1, <1>2, <1>4, <2>1 DEF ContextsAreBounded
<1> QED BY <1>5, <1>6, <1>7, <1>8

LEMMA RaiseStep ==
  ASSUME PoolInv, NEW g \in Greenlets, Raise(g)
  PROVE  PoolInv'
<1> USE PoolAssumption, EventletAssumption DEF PoolInv
<1>1. Cardinality(Handling') = Cardinality(Handling) - 1
  BY OneLessHandling DEF Raise, Handling
<1>2. UNCHANGED <<context_pool, gr_context, contexts, peak>>
  BY DEF Raise
<1>3. PoolTypeOK'
  BY DEF Raise, PoolTypeOK
<1>4. NoContextIsShared' /\ OnlyMadeContexts'
  BY <1>2 DEF NoContextIsShared, OnlyMadeContexts
<1>5. ContextsAreBounded'
  <2>1. Len(context_pool) \in Nat /\ Cardinality(Handling) \in Nat /\ peak \in Nat
    BY HandlingIsFinite DEF PoolTypeOK
  <2> QED BY <1>1, <1>2, <2>1 DEF ContextsAreBounded
<1> QED BY <1>3, <1>4, <1>5

(* The other steps leave the pool and who is handling alone.               *)
LEMMA StillBounded ==
  ASSUME PoolInv, Handling' = Handling, UNCHANGED <<context_pool, peak>>
  PROVE  ContextsAreBounded'
BY DEF PoolInv, ContextsAreBounded

LEMMA NewContext ==
  ASSUME PoolInv, NEW g \in Greenlets, gr_context[g] = None,
         contexts < MaxContexts, contexts' = contexts + 1,
         gr_context' = [gr_context EXCEPT ![g] = contexts'],
         UNCHANGED context_pool
  PROVE  /\ contexts' \in Ids
         /\ contexts' \in 0..MaxContexts
         /\ gr_context' \in [Greenlets -> Ids \cup {None}]
         /\ NoContextIsShared'
         /\ OnlyMadeContexts'
<1> USE PoolAssumption, EventletAssumption DEF PoolInv
<1>1. contexts' \in Ids /\ contexts' \in 0..MaxContexts /\ contexts' # None
  BY DEF PoolTypeOK, Ids
<1>2. gr_context' \in [Greenlets -> Ids \cup {None}]
  BY <1>1 DEF PoolTypeOK
<1>3. \A h \in Greenlets : gr_context[h] # contexts'
  BY <1>1 DEF PoolTypeOK, OnlyMadeContexts, Ids
<1>4. \A at \in DOMAIN context_pool : context_pool[at] # contexts'
  BY <1>1 DEF PoolTypeOK, OnlyMadeContexts, Ids
<1>5. NoContextIsShared'
  BY <1>3, <1>4 DEF NoContextIsShared, PoolTypeOK
<1>6. \A n \in Ids : n <= contexts => n <= contexts'
  BY DEF PoolTypeOK, Ids
<1>7. \A at \in DOMAIN context_pool : context_pool[at] \in Ids \cup {None}
  BY DEF PoolTypeOK
<1>8. OnlyMadeContexts'
  BY <1>1, <1>6, <1>7 DEF OnlyMadeContexts, PoolTypeOK, Ids
<1> QED BY <1>1, <1>2, <1>5, <1>8

LEMMA PoolStep == PoolInv /\ [PoolNext]_pool_vars => PoolInv'
<1> SUFFICES ASSUME PoolInv, [PoolNext]_pool_vars
             PROVE  PoolInv'
  OBVIOUS
<1> USE PoolAssumption, EventletAssumption DEF PoolInv
<1>1. ASSUME NEW g \in Greenlets, End(g)
      PROVE  PoolInv'
  <2>1. PoolTypeOK' /\ NoContextIsShared' /\ OnlyMadeContexts'
    BY <1>1 DEF End, PoolTypeOK, NoContextIsShared, OnlyMadeContexts
  <2>2. Handling' = Handling
    BY <1>1 DEF End, Handling, PoolTypeOK
  <2> QED BY <1>1, <2>1, <2>2, StillBounded DEF End
<1>2. ASSUME NEW g \in Greenlets, StartFactory(g) \/ RejectResource(g)
      PROVE  PoolInv'
  <2>1. PoolTypeOK' /\ NoContextIsShared' /\ OnlyMadeContexts'
    BY <1>2
       DEF StartFactory, RejectResource, PoolTypeOK, NoContextIsShared, OnlyMadeContexts
  <2>2. Handling' = Handling
    BY <1>2 DEF StartFactory, RejectResource, Handling, PoolTypeOK
  <2> QED BY <1>2, <2>1, <2>2, StillBounded DEF StartFactory, RejectResource
<1>3. ASSUME NEW g \in Greenlets, StoreResource(g)
      PROVE  PoolInv'
  <2>1. Handling' = Handling
    BY <1>3 DEF StoreResource, Handling, PoolTypeOK
  <2>2. ContextsAreBounded'
    BY <1>3, <2>1, StillBounded DEF StoreResource
  <2>3. resources' \in 1..MaxResources
    BY <1>3 DEF StoreResource, PoolTypeOK
  <2>4. CASE gr_context[g] # None
    <3>1. UNCHANGED <<context_pool, gr_context, contexts>>
      BY <1>3, <2>4 DEF StoreResource
    <3>2. gr_context[g] \in Ids
      BY <2>4 DEF PoolTypeOK
    <3>3. PoolTypeOK'
      BY <1>3, <2>3, <2>4, <3>1, <3>2 DEF StoreResource, PoolTypeOK
    <3> QED BY <2>2, <3>1, <3>3 DEF NoContextIsShared, OnlyMadeContexts
  <2>5. CASE gr_context[g] = None
    <3>1. /\ contexts' \in Ids
          /\ contexts' \in 0..MaxContexts
          /\ gr_context' \in [Greenlets -> Ids \cup {None}]
          /\ NoContextIsShared'
          /\ OnlyMadeContexts'
      BY <1>3, <2>5, NewContext DEF StoreResource
    <3>2. PoolTypeOK'
      BY <1>3, <2>3, <2>5, <3>1 DEF StoreResource, PoolTypeOK
    <3> QED BY <2>2, <3>1, <3>2
  <2> QED BY <2>4, <2>5
<1>4. ASSUME NEW g \in Greenlets, Clear(g)
      PROVE  PoolInv'
  <2>1. Handling' = Handling
    BY <1>4 DEF Clear, Handling
  <2>2. ContextsAreBounded'
    BY <1>4, <2>1, StillBounded DEF Clear
  <2>3. CASE gr_context[g] # None
    <3>1. UNCHANGED <<context_pool, gr_context, contexts>>
      BY <1>4, <2>3 DEF Clear
    <3>2. PoolTypeOK'
      BY <1>4, <2>3, <3>1 DEF Clear, PoolTypeOK
    <3> QED BY <2>2, <3>1, <3>2 DEF NoContextIsShared, OnlyMadeContexts
  <2>4. CASE gr_context[g] = None
    <3>1. /\ contexts' \in 0..MaxContexts
          /\ gr_context' \in [Greenlets -> Ids \cup {None}]
          /\ NoContextIsShared'
          /\ OnlyMadeContexts'
      BY <1>4, <2>4, NewContext DEF Clear
    <3>2. PoolTypeOK'
      BY <1>4, <2>4, <3>1 DEF Clear, PoolTypeOK
    <3> QED BY <2>2, <3>1, <3>2
  <2> QED BY <2>3, <2>4
<1>5. CASE UNCHANGED pool_vars
  BY <1>5 DEF pool_vars, PoolTypeOK, NoContextIsShared, OnlyMadeContexts,
     ContextsAreBounded, Handling
<1> QED BY <1>1, <1>2, <1>3, <1>4, <1>5, HandleStep, ReturnStep, RaiseStep DEF PoolNext

THEOREM PoolInvariance == PoolSpec => []PoolInv
BY PoolInitially, PoolStep, PTL DEF PoolSpec

(* The types of the model.                                                 *)
THEOREM PoolTypes == PoolSpec => []PoolTypeOK
BY PoolInvariance, PTL DEF PoolInv

(* No two green threads are ever in the same context, and none is in one   *)
(* that waits in the pool.                                                 *)
THEOREM ContextsAreExclusive == PoolSpec => []NoContextIsShared
BY PoolInvariance, PTL DEF PoolInv

(* There are never more contexts to hand than green threads have been      *)
(* handling connections at once.                                           *)
THEOREM PoolIsBounded == PoolSpec => []ContextsAreBounded
BY PoolInvariance, PTL DEF PoolInv

(* A factory is only asked for what its context does not hold, and a context *)
(* that is yet to be made holds nothing.                                   *)
NothingIsReplaced ==
  /\ \A g \in Greenlets :
       pc[g] = "making" /\ gr_context[g] # None => resource[gr_context[g]] = None
  /\ \A x \in Ids : x > contexts => resource[x] = None

LEMMA NothingReplacedStep ==
  ASSUME PoolInv, NothingIsReplaced, [PoolNext]_pool_vars
  PROVE  NothingIsReplaced'
<1> USE PoolAssumption, EventletAssumption DEF PoolInv
<1>1. /\ pc \in [Greenlets -> {"dead", "handling", "making", "closing"}]
      /\ gr_context \in [Greenlets -> Ids \cup {None}]
      /\ resource \in [Ids -> (1..MaxResources) \cup {None}]
      /\ contexts \in 0..MaxContexts
  BY DEF PoolTypeOK
<1>2. ASSUME NEW g \in Greenlets,
             Handle(g) \/ Return(g) \/ Raise(g) \/ End(g) \/ RejectResource(g)
      PROVE  NothingIsReplaced'
  <2>1. UNCHANGED <<resource, contexts>>
    BY <1>2 DEF Handle, Return, Raise, End, RejectResource
  <2>2. pc'[g] # "making"
    BY <1>1, <1>2 DEF Handle, Return, Raise, End, RejectResource
  <2>3. \A h \in Greenlets : h # g => pc'[h] = pc[h] /\ gr_context'[h] = gr_context[h]
    BY <1>1, <1>2 DEF Handle, TakeContext, Return, Stash, Raise, End, RejectResource
  <2> QED BY <2>1, <2>2, <2>3 DEF NothingIsReplaced
<1>3. ASSUME NEW g \in Greenlets, StartFactory(g)
      PROVE  NothingIsReplaced'
  <2>1. \A h \in Greenlets : h # g => pc'[h] = pc[h]
    BY <1>1, <1>3 DEF StartFactory
  <2>2. gr_context[g] # None => resource[gr_context[g]] = None
    BY <1>3 DEF StartFactory, Held
  <2> QED BY <1>3, <2>1, <2>2 DEF StartFactory, NothingIsReplaced
<1>4. ASSUME NEW g \in Greenlets, StoreResource(g) \/ Clear(g)
      PROVE  NothingIsReplaced'
  <2>1. pc'[g] # "making"
    BY <1>1, <1>4 DEF StoreResource, Clear
  <2>2. \A h \in Greenlets : h # g => pc'[h] = pc[h] /\ gr_context'[h] = gr_context[h]
    BY <1>1, <1>4 DEF StoreResource, Clear
  <2>3. \A h \in Greenlets :
          h # g /\ gr_context[h] # None => resource'[gr_context[h]] = resource[gr_context[h]]
    BY <1>1, <1>4 DEF StoreResource, Clear, NoContextIsShared, OnlyMadeContexts, Ids
  <2>4. \A x \in Ids : x > contexts' => resource'[x] = None
    BY <1>1, <1>4 DEF StoreResource, Clear, NothingIsReplaced, OnlyMadeContexts, Ids
  <2> QED BY <2>1, <2>2, <2>3, <2>4 DEF NothingIsReplaced
<1>5. CASE UNCHANGED pool_vars
  BY <1>5 DEF pool_vars, NothingIsReplaced
<1> QED BY <1>2, <1>3, <1>4, <1>5 DEF PoolNext

(* What a context holds stays there until the green thread that has the    *)
(* context clears it.                                                      *)
THEOREM ResourcesAlwaysStay == PoolSpec => ResourcesStay
<1> USE PoolAssumption, EventletAssumption
<1> DEFINE Stays ==
      \A x \in Ids : resource'[x] # resource[x] =>
        \/ resource[x] = None
        \/ resource'[x] = None
             /\ \E g \in Handling : gr_context[g] = x
<1>1. PoolInit => NothingIsReplaced
  BY DEF PoolInit, NothingIsReplaced
<1>2. PoolInv /\ NothingIsReplaced /\ [PoolNext]_pool_vars => NothingIsReplaced'
  BY NothingReplacedStep
<1>3. ASSUME PoolInv, NothingIsReplaced, PoolNext, NEW x \in Ids,
             resource'[x] # resource[x], resource[x] # None
      PROVE  resource'[x] = None /\ \E g \in Handling : gr_context[g] = x
  <2>1. PICK g \in Greenlets : StoreResource(g) \/ Clear(g)
    BY <1>3 DEF PoolNext, Handle, Return, Raise, End, StartFactory, RejectResource
  <2>2. resource \in [Ids -> (1..MaxResources) \cup {None}] /\ contexts \in 0..MaxContexts
    BY <1>3 DEF PoolInv, PoolTypeOK
  <2>3. ~ StoreResource(g)
    BY <1>3, <2>2 DEF StoreResource, NothingIsReplaced, Ids
  <2>4. Clear(g)
    BY <2>1, <2>3
  <2> QED BY <1>3, <2>2, <2>4 DEF Clear, Handling
<1>4. PoolInv /\ NothingIsReplaced /\ [PoolNext]_pool_vars => [Stays]_pool_vars
  BY <1>3
<1> QED BY <1>1, <1>2, <1>4, PoolInvariance, PTL DEF ResourcesStay, PoolSpec

-----------------------------------------------------------------------------
(* The accounts of greenlets.                                              *)

(* The inductive invariant: what the accounts and the clock add up to for  *)
(* each greenlet, of which a greenlet is only told its own.                *)

Running(g) == IF atstart[g] = None THEN 0 ELSE clock - atstart[g]

Longest(g) == Max2(Running(g), OrZero(max_continuous[g]))

(* Only the greenlet that is running is on the clock, and has its account  *)
(* open; the time of its closed turns and of the open one is all its time. *)
AccountOf(g) ==
  /\ atstart[g] # None <=> g = current /\ g \in seen
  /\ accum[g] # None => g \in seen
  /\ g \in seen /\ g # current => accum[g] # None
  /\ OrZero(accum[g]) + Running(g) = ran[g]
  /\ ran[g] <= clock

LongestOf(g) ==
  /\ g = current /\ g \in seen => piece <= Running(g)
  /\ g = current => piece <= recent[g]
  /\ recent[g] <= Longest(g)
  /\ Longest(g) <= ran[g]

Untraced == ~tracing => seen = {} /\ piece = 0

AccountsInv ==
  /\ AccountsTypeOK
  /\ Untraced
  /\ \A g \in Greenlets : AccountOf(g) /\ LongestOf(g)

LEMMA AccountsInitially == AccountsInit => AccountsInv
<1> SUFFICES ASSUME AccountsInit PROVE AccountsInv
  OBVIOUS
<1> USE AccountsAssumption, EventletAssumption DEF AccountsInit
<1>1. AccountsTypeOK
  <2>1. clock = 0 /\ 0 \in 0..MaxClock /\ None \in (0..clock) \cup {None}
    OBVIOUS
  <2>2. /\ atstart \in [Greenlets -> (0..clock) \cup {None}]
        /\ accum \in [Greenlets -> (0..clock) \cup {None}]
        /\ max_continuous \in [Greenlets -> (0..clock) \cup {None}]
        /\ switch_count \in [Greenlets -> (1..MaxSwitches) \cup {None}]
    OBVIOUS
  <2> QED BY <2>1, <2>2 DEF AccountsTypeOK
<1>2. Untraced
  BY DEF Untraced
<1>3. ASSUME NEW g \in Greenlets PROVE AccountOf(g) /\ LongestOf(g)
  <2>1. /\ Running(g) = 0 /\ OrZero(accum[g]) = 0
        /\ Longest(g) = 0
    BY DEF Running, OrZero, Longest, Max2
  <2> QED BY <2>1 DEF AccountOf, LongestOf
<1> QED BY <1>1, <1>2, <1>3 DEF AccountsInv

(* What the types say of one greenlet.                                     *)
LEMMA Values ==
  ASSUME AccountsTypeOK, NEW g \in Greenlets
  PROVE  /\ clock \in Nat /\ current \in Greenlets /\ piece \in Nat
         /\ atstart[g] = None \/ atstart[g] \in 0..clock
         /\ accum[g] = None \/ accum[g] \in 0..clock
         /\ max_continuous[g] = None \/ max_continuous[g] \in 0..clock
         /\ OrZero(accum[g]) \in 0..clock
         /\ OrZero(max_continuous[g]) \in 0..clock
         /\ Running(g) \in 0..clock
         /\ ran[g] \in Nat /\ recent[g] \in Nat
  BY AccountsAssumption, EventletAssumption DEF AccountsTypeOK, OrZero, Running

LEMMA SwitchInvariant ==
  ASSUME AccountsInv, NEW target \in Greenlets, Switch(target)
  PROVE  AccountsInv'
<1> USE AccountsAssumption, EventletAssumption
<1>1. /\ clock' = clock /\ current' = target /\ tracing' = tracing
      /\ atstart' = [atstart EXCEPT ![current] = None, ![target] = clock]
      /\ ran' = ran /\ recent' = recent /\ piece' = 0
      /\ seen' = seen \cup {target} /\ tracing
  BY DEF Switch, Restarted
<1>2. AccountsTypeOK /\ current \in Greenlets /\ clock \in Nat
  BY DEF AccountsInv, AccountsTypeOK
<1>3. CASE atstart[current] # None
  <2>1. /\ accum' = [accum EXCEPT ![current] =
                       OrZero(accum[current]) + (clock - atstart[current])]
        /\ max_continuous' = [max_continuous EXCEPT ![current] =
                       Max2(clock - atstart[current],
                            OrZero(max_continuous[current]))]
    BY <1>3 DEF Switch, Accounted
  <2>2. OrZero(accum[current]) + (clock - atstart[current]) \in 0..clock
    BY <1>2, <1>3, Values DEF AccountsInv, AccountOf, Running
  <2>3. Max2(clock - atstart[current], OrZero(max_continuous[current]))
          \in 0..clock
    BY <1>2, <1>3, Values DEF Max2
  <2>4. accum' \in [Greenlets -> (0..clock) \cup {None}]
        /\ max_continuous' \in [Greenlets -> (0..clock) \cup {None}]
    BY <1>2, <2>1, <2>2, <2>3 DEF AccountsTypeOK
  <2>5. ASSUME NEW g \in Greenlets PROVE AccountOf(g)'
    BY <1>1, <1>2, <1>3, <2>1, <2>2, <2>5, Values
    DEF AccountsInv, AccountOf, Running, OrZero, AccountsTypeOK
  <2>6. ASSUME NEW g \in Greenlets PROVE LongestOf(g)'
    BY <1>1, <1>2, <1>3, <2>1, <2>3, <2>6, Values
    DEF AccountsInv, AccountOf, LongestOf, Longest, Running, OrZero, Max2, AccountsTypeOK
  <2> QED
    BY <1>1, <1>2, <2>4, <2>5, <2>6
    DEF AccountsInv, AccountsTypeOK, Untraced, Switch, Restarted, OrZero
<1>4. CASE atstart[current] = None
  <2>1. accum' = accum /\ max_continuous' = max_continuous
    BY <1>4 DEF Switch
  <2>2. ASSUME NEW g \in Greenlets PROVE AccountOf(g)'
    BY <1>1, <1>2, <1>4, <2>1, <2>2, Values
    DEF AccountsInv, AccountOf, Running, OrZero, AccountsTypeOK
  <2>3. ASSUME NEW g \in Greenlets PROVE LongestOf(g)'
    BY <1>1, <1>2, <1>4, <2>1, <2>3, Values
    DEF AccountsInv, AccountOf, LongestOf, Longest, Running, OrZero, Max2, AccountsTypeOK
  <2> QED
    BY <1>1, <1>2, <2>1, <2>2, <2>3
    DEF AccountsInv, AccountsTypeOK, Untraced, Switch, Restarted, OrZero
<1> QED BY <1>3, <1>4

LEMMA TickInvariant == AccountsInv /\ Tick => AccountsInv'
<1> SUFFICES ASSUME AccountsInv, Tick PROVE AccountsInv'
  OBVIOUS
<1> USE AccountsAssumption, EventletAssumption
<1>1. /\ clock' = clock + 1 /\ clock < MaxClock /\ clock \in Nat
      /\ current' = current /\ tracing' = tracing /\ atstart' = atstart
      /\ accum' = accum /\ max_continuous' = max_continuous /\ seen' = seen
      /\ switch_count' = switch_count
      /\ current \in Greenlets /\ AccountsTypeOK
  BY DEF Tick, AccountsInv, AccountsTypeOK
<1>2. CASE current \in seen
  <2>1. /\ ran' = [ran EXCEPT ![current] = ran[current] + 1]
        /\ piece' = piece + 1
        /\ recent' = [recent EXCEPT ![current] =
                        Max2(recent[current], piece + 1)]
    BY <1>2 DEF Tick
  <2>2. AccountsTypeOK'
    BY <1>1, <2>1, Values DEF AccountsTypeOK, Max2
  <2>3. ASSUME NEW g \in Greenlets PROVE AccountOf(g)' /\ LongestOf(g)'
    <3>1. AccountOf(g) /\ LongestOf(g)
      BY DEF AccountsInv
    <3>2. ran'[g] = (IF g = current THEN ran[g] + 1 ELSE ran[g])
      BY <1>1, <2>1 DEF AccountsTypeOK
    <3>3. recent'[g] = (IF g = current THEN Max2(recent[g], piece + 1)
                        ELSE recent[g])
      BY <1>1, <2>1 DEF AccountsTypeOK
    <3>4. Running(g)' = (IF g = current THEN Running(g) + 1 ELSE Running(g))
      BY <1>1, <1>2, <3>1, Values DEF AccountOf, Running
    <3>5. AccountOf(g)'
      BY <1>1, <3>1, <3>2, <3>4, Values DEF AccountOf, OrZero
    <3>6. LongestOf(g)'
      BY <1>1, <1>2, <2>1, <3>1, <3>2, <3>3, <3>4, Values
      DEF LongestOf, Longest, OrZero, Max2
    <3> QED BY <3>5, <3>6
  <2> QED BY <1>1, <1>2, <2>1, <2>2, <2>3 DEF AccountsInv, Untraced
<1>3. CASE current \notin seen
  <2>1. ran' = ran /\ piece' = piece /\ recent' = recent
    BY <1>3 DEF Tick
  <2>2. AccountsTypeOK'
    BY <1>1, <2>1 DEF AccountsTypeOK
  <2>3. ASSUME NEW g \in Greenlets PROVE AccountOf(g)' /\ LongestOf(g)'
    <3>1. AccountOf(g) /\ LongestOf(g) /\ atstart[g] = None
      BY <1>3 DEF AccountsInv, AccountOf
    <3> QED
      BY <1>1, <2>1, <3>1, Values DEF AccountOf, LongestOf, Longest, Running
  <2> QED BY <1>1, <2>1, <2>2, <2>3 DEF AccountsInv, Untraced
<1> QED BY <1>2, <1>3

LEMMA ResetInvariant == AccountsInv /\ reset_greenlet_stats => AccountsInv'
<1> SUFFICES ASSUME AccountsInv, reset_greenlet_stats PROVE AccountsInv'
  OBVIOUS
<1> USE AccountsAssumption, EventletAssumption DEF reset_greenlet_stats
<1>1. AccountsTypeOK /\ current \in Greenlets /\ clock \in Nat
  BY DEF AccountsInv, AccountsTypeOK
<1>2. AccountsTypeOK'
  BY <1>1 DEF AccountsTypeOK
<1>3. ASSUME NEW g \in Greenlets PROVE AccountOf(g)'
  BY <1>3 DEF AccountsInv, AccountOf, Running
<1>4. ASSUME NEW g \in Greenlets PROVE LongestOf(g)'
  <2>1. AccountOf(g) /\ LongestOf(g)
    BY DEF AccountsInv
  <2> QED
    BY <1>1, <2>1, Values
    DEF AccountOf, LongestOf, Longest, Running, OrZero, Max2, AccountsTypeOK
<1> QED BY <1>2, <1>3, <1>4 DEF AccountsInv, Untraced

LEMMA AccountsStep == AccountsInv /\ [AccountsNext]_accounts_vars => AccountsInv'
<1> SUFFICES ASSUME AccountsInv, [AccountsNext]_accounts_vars PROVE AccountsInv'
  OBVIOUS
<1>1. ASSUME NEW g \in Greenlets, SwitchUntraced(g) PROVE AccountsInv'
  <2>1. seen = {} /\ piece = 0 /\ \A h \in Greenlets : atstart[h] = None
    BY <1>1 DEF SwitchUntraced, AccountsInv, Untraced, AccountOf
  <2>2. AccountsTypeOK'
    BY <1>1 DEF AccountsInv, AccountsTypeOK, SwitchUntraced
  <2>3. ASSUME NEW h \in Greenlets PROVE AccountOf(h)' /\ LongestOf(h)'
    BY <1>1, <2>1, Values
    DEF SwitchUntraced, AccountsInv, AccountOf, LongestOf, Longest, Running
  <2> QED BY <1>1, <2>2, <2>3 DEF AccountsInv, Untraced, SwitchUntraced
<1>2. CASE Install
  BY <1>2
  DEF Install, history, AccountsInv, AccountsTypeOK, Untraced, AccountOf, LongestOf,
      Longest, Running
<1>3. CASE UNCHANGED accounts_vars
  BY <1>3
  DEF accounts_vars, AccountsInv, AccountsTypeOK, Untraced, AccountOf, LongestOf,
      Longest, Running
<1> QED
  BY <1>1, <1>2, <1>3, SwitchInvariant, TickInvariant, ResetInvariant DEF AccountsNext

LEMMA AccountsInvariance == AccountsSpec => []AccountsInv
  BY AccountsInitially, AccountsStep, PTL DEF AccountsSpec

-----------------------------------------------------------------------------
(* The attributes hold what they should.                                   *)
THEOREM AccountsTypes == AccountsSpec => []AccountsTypeOK
  BY AccountsInvariance, PTL DEF AccountsInv

(* TimesAreExact: all of a greenlet's time is on its account, and no other *)
(* time is.                                                                *)
THEOREM ExactTimes == AccountsSpec => []TimesAreExact
<1>1. AccountsInv => TimesAreExact
  <2> SUFFICES ASSUME AccountsInv PROVE TimesAreExact
    OBVIOUS
  <2>1. current \in Greenlets /\ AccountsTypeOK
    BY DEF AccountsInv, AccountsTypeOK
  <2>2. AccountOf(current)
    BY <2>1 DEF AccountsInv
  <2>3. IF current \in seen THEN greenlet_perf_counter_ns = ran[current]
        ELSE greenlet_perf_counter_ns = None
    BY <2>1, <2>2, Values, AccountsAssumption, EventletAssumption
    DEF AccountOf, greenlet_perf_counter_ns, Running
  <2>4. ASSUME NEW g \in Greenlets \ {current}
        PROVE  IF g \in seen THEN greenlet_real_time(g) = ran[g]
               ELSE greenlet_real_time(g) = None
    BY <2>1, Values, AccountsAssumption, EventletAssumption
    DEF AccountsInv, AccountOf, greenlet_real_time, Running, OrZero
  <2> QED BY <2>3, <2>4 DEF TimesAreExact
<1> QED BY <1>1, AccountsInvariance, PTL

(* LongestTurnIsBounded: the longest turn reported is between the longest  *)
(* since the reset and all the time the greenlet ran.                      *)
THEOREM LongestTurn == AccountsSpec => []LongestTurnIsBounded
<1>1. AccountsInv => LongestTurnIsBounded
  <2> SUFFICES ASSUME AccountsInv, current \in seen
               PROVE  greenlet_perf_counter_ns_max_continuous
                        \in recent[current]..ran[current]
    BY DEF LongestTurnIsBounded
  <2>1. current \in Greenlets /\ AccountsTypeOK
    BY DEF AccountsInv, AccountsTypeOK
  <2>2. AccountOf(current) /\ LongestOf(current)
    BY <2>1 DEF AccountsInv
  <2>3. greenlet_perf_counter_ns_max_continuous = Longest(current)
    BY <2>2 DEF AccountOf, greenlet_perf_counter_ns_max_continuous, Longest,
                Running
  <2>4. Longest(current) \in Nat
    BY <2>1, Values DEF Longest, Max2
  <2> QED BY <2>1, <2>2, <2>3, <2>4, Values DEF LongestOf
<1> QED BY <1>1, AccountsInvariance, PTL

-----------------------------------------------------------------------------
(* The generator behind interruptible_every.                               *)

Places == {"outside", "inner", "switched", "ValueError", "StopIteration"}

EveryTypeOK ==
  /\ generator \in {"fresh", "suspended", "executing", "ended"}
  /\ i \in Nat /\ runs \in Nat
  /\ place \in [Greenlets -> Places]

(* The counter counts the calls since the last switch, but the one that it *)
(* waited before.                                                          *)
CounterIsRight ==
  /\ generator = "fresh" => runs = 0
  /\ generator = "suspended" => runs = i + 1 /\ i < iterations
  /\ generator = "executing" => runs = iterations
  /\ runs <= iterations

EveryInv == EveryTypeOK /\ CounterIsRight

LEMMA EveryStep == EveryInv /\ [EveryNext]_every_vars => EveryInv'
<1> SUFFICES ASSUME EveryInv, [EveryNext]_every_vars PROVE EveryInv'
  OBVIOUS
<1> USE EveryAssumption DEF EveryInv, EveryTypeOK, CounterIsRight, Places
<1>1. ASSUME NEW g \in Greenlets, CallInner(g) PROVE EveryInv'
  BY <1>1 DEF CallInner, Count, Interrupts
<1>2. ASSUME NEW g \in Greenlets, Interrupt(g) PROVE EveryInv'
  BY <1>2 DEF Interrupt, Count, Interrupts
<1>3. ASSUME NEW g \in Greenlets, Resume(g) PROVE EveryInv'
  BY <1>3 DEF Resume
<1>4. ASSUME NEW g \in Greenlets, TimeOut(g) PROVE EveryInv'
  BY <1>4 DEF TimeOut
<1>5. ASSUME NEW g \in Greenlets, Collide(g) \/ Exhaust(g) \/ Leave(g) PROVE EveryInv'
  BY <1>5 DEF Collide, Exhaust, Leave
<1>6. CASE UNCHANGED every_vars
  BY <1>6 DEF every_vars
<1> QED BY <1>1, <1>2, <1>3, <1>4, <1>5, <1>6 DEF EveryNext

LEMMA EveryInvariance == EverySpec => []EveryInv
<1>1. EveryInit => EveryInv
  BY EveryAssumption DEF EveryInit, EveryInv, EveryTypeOK, CounterIsRight, Places
<1> QED BY <1>1, EveryStep, PTL DEF EverySpec

(* TakesTurns: however many share the generator, and whichever of them are *)
(* timed out or collide at its switch, the inner function runs iterations  *)
(* times from one switch to the next.                                      *)
THEOREM EveryOneTakesTurns == EverySpec => []TakesTurns
<1>1. EveryInv => TakesTurns
  BY DEF EveryInv, CounterIsRight, TakesTurns
<1> QED BY <1>1, EveryInvariance, PTL

-----------------------------------------------------------------------------
(* The log of requests.                                                    *)

(* What a request's ids are, or will be when it is first asked for them;   *)
(* NoId if they are still to be made up.                                   *)

Answered(r) == request[r].stage \in {"streaming", "gone"}

Begun(r) == request[r].stage \in {"viewed", "streaming", "gone"}

Here(r) == request[r].stage # "absent"

TraceOf(r) == IF Answered(r) THEN baked[r].trace ELSE request[r].trace

SpanOf(r) == IF Answered(r) THEN baked[r].span ELSE request[r].span

ParentOf(r) == IF Answered(r) THEN baked[r].parent ELSE request[r].headers.parent

TraceToBe(r) ==
  IF TraceOf(r) # NoId THEN TraceOf(r) ELSE request[r].headers.trace

SpanToBe(r) ==
  IF SpanOf(r) # NoId THEN SpanOf(r) ELSE request[r].headers.span

(* The inductive invariant.                                                *)

Stages == {"absent", "arrived", "viewed", "streaming", "gone"}

Headers == [trace : Nat, span : Nat, parent : Nat]

RequestRecords ==
  [stage : Stages, headers : Headers, quiet : BOOLEAN, trace : Nat, span : Nat,
   service : Services \cup {NoId}, marked : BOOLEAN]

BakedRecords ==
  [trace : Nat, span : Nat, parent : Nat, service : Services \cup {NoId},
   marked : BOOLEAN, level : {DEBUG, INFO, WARNING},
   response : [failed : BOOLEAN, streamed : BOOLEAN, quiet : BOOLEAN]]

LineRecords ==
  [request : Requests, kind : {"received", "took", "closed"}, trace : Nat,
   span : Nat, service : Services \cup {NoId}, parent : Nat]

LogTypeOK ==
  /\ level \in RequestLevels /\ last_id \in Nat
  /\ request \in [Requests -> RequestRecords]
  /\ baked \in [Requests -> BakedRecords]
  /\ answer \in [Requests -> Seq(Nat)]
  /\ caller \in [Requests -> Requests \cup {NoId}]
  /\ lines \subseteq LineRecords

(* Nobody knows of ids that are still to be made up.                       *)
IdsAreMade ==
  /\ \A id \in OutsideIds : id <= last_id
  /\ \A r \in Requests : SpanToBe(r) <= last_id

(* Who answered has ids.  Nothing is kept of who did not, and nothing is   *)
(* known of who is not there.                                              *)
StageOK(r) ==
  /\ ~Here(r) => request[r] = Absent /\ caller[r] = NoId
  /\ request[r].stage = "arrived" => request[r].trace = NoId /\ request[r].span = NoId
  /\ IF Answered(r)
     THEN /\ TraceOf(r) # NoId /\ SpanOf(r) # NoId
          /\ request[r].headers = NoHeaders
          /\ answer[r] # <<>> /\ ToSet(answer[r]) = {TraceOf(r)}
     ELSE answer[r] = <<>> /\ ~baked[r].marked

(* Who was called has, or will have, the ids of its caller.                *)
CallOK(s) ==
  caller[s] # NoId =>
    /\ Begun(caller[s]) /\ TraceOf(caller[s]) # NoId /\ SpanOf(caller[s]) # NoId
    /\ TraceToBe(s) = TraceOf(caller[s])
    /\ ParentOf(s) = SpanOf(caller[s])

SpansDiffer ==
  \A r, s \in Requests :
    r # s /\ SpanToBe(r) = SpanToBe(s) => SpanToBe(r) \in OutsideIds \cup {NoId}

LineOK(l) ==
  /\ Begun(l.request) /\ TraceOf(l.request) # NoId /\ SpanOf(l.request) # NoId
  /\ l.trace = TraceOf(l.request) /\ l.span = SpanOf(l.request)
  /\ l.parent = ParentOf(l.request)
  /\ l.kind \in {"took", "closed"} =>
       Answered(l.request) /\ l.service = baked[l.request].service

Has(r, kind) == \E l \in lines : l.request = r /\ l.kind = kind

LevelOK(r) ==
  baked[r].marked =>
    baked[r].level = IF baked[r].response.failed THEN WARNING
                     ELSE IF baked[r].response.quiet THEN DEBUG ELSE INFO

LoggedOK(r) ==
  baked[r].marked /\ level <= baked[r].level =>
    /\ Has(r, "took")
    /\ baked[r].response.streamed /\ request[r].stage = "gone" => Has(r, "closed")

IInv ==
  /\ LogTypeOK /\ IdsAreMade /\ SpansDiffer
  /\ \A r \in Requests : StageOK(r) /\ CallOK(r) /\ LevelOK(r) /\ LoggedOK(r)
  /\ \A l \in lines : LineOK(l)

-----------------------------------------------------------------------------
LEMMA LatestOutside ==
  Max(OutsideIds) \in Nat /\ \A id \in OutsideIds : id <= Max(OutsideIds)
<1>1. \E latest \in OutsideIds : \A id \in OutsideIds : latest >= id
  BY LogAssumption
<1>2. /\ Max(OutsideIds) \in OutsideIds
      /\ \A id \in OutsideIds : Max(OutsideIds) >= id
  BY <1>1 DEF Max
<1> QED BY <1>2, LogAssumption

LEMMA AbsentIsARecord == Absent \in RequestRecords /\ NotBaked \in BakedRecords
BY DEF Absent, NoHeaders, NotBaked, NoId, DEBUG, RequestRecords, BakedRecords, Headers, Stages

(* What it starts with, and starts over with.                              *)
Fresh ==
  /\ level \in RequestLevels
  /\ request = AllAre(Absent) /\ answer = AllAre(<<>>) /\ baked = AllAre(NotBaked)
  /\ lines = {} /\ last_id = Max(OutsideIds) /\ caller = AllAre(NoId)

LEMMA FreshInvariant == Fresh => IInv
<1> SUFFICES ASSUME Fresh PROVE IInv
  OBVIOUS
<1> USE LogAssumption
<1>1. \A r \in Requests :
        /\ request[r] = Absent /\ baked[r] = NotBaked /\ answer[r] = <<>>
        /\ caller[r] = NoId
  BY DEF Fresh, AllAre
<1>2. LogTypeOK
  <2>1. /\ request \in [Requests -> RequestRecords] /\ baked \in [Requests -> BakedRecords]
    BY AbsentIsARecord DEF Fresh, AllAre
  <2>2. answer \in [Requests -> Seq(Nat)] /\ caller \in [Requests -> Requests \cup {NoId}]
    BY DEF Fresh, AllAre
  <2>3. level \in RequestLevels /\ last_id \in Nat /\ lines = {}
    BY LatestOutside DEF Fresh
  <2> QED BY <2>1, <2>2, <2>3 DEF LogTypeOK
<1>3. \A r \in Requests : SpanToBe(r) = NoId /\ ~Answered(r) /\ ~Here(r)
  BY <1>1 DEF SpanToBe, SpanOf, Answered, Here, Absent, NoHeaders
<1>4. IdsAreMade /\ SpansDiffer
  BY <1>3, LatestOutside DEF Fresh, IdsAreMade, SpansDiffer, NoId
<1>5. \A r \in Requests : StageOK(r) /\ CallOK(r) /\ LevelOK(r) /\ LoggedOK(r)
  <2>1. \A r \in Requests : ~baked[r].marked
    BY <1>1 DEF NotBaked
  <2> QED BY <1>1, <1>3, <2>1 DEF StageOK, CallOK, LevelOK, LoggedOK, Here, Absent
<1> QED BY <1>2, <1>4, <1>5 DEF Fresh, IInv

LEMMA InitInvariant == LogInit => IInv
BY FreshInvariant DEF LogInit, Fresh

-----------------------------------------------------------------------------
(* Ids stay once they are known, or known to be.                           *)
Grows(r) ==
  /\ Here(r) => Here(r)' /\ ParentOf(r)' = ParentOf(r)
  /\ Begun(r) => Begun(r)'
  /\ TraceOf(r) # NoId => TraceOf(r)' = TraceOf(r)
  /\ SpanOf(r) # NoId => SpanOf(r)' = SpanOf(r)
  /\ TraceToBe(r) # NoId => TraceToBe(r)' = TraceToBe(r)
  /\ Answered(r) => Answered(r)' /\ baked'[r].service = baked[r].service

Untouched(r) ==
  /\ request'[r] = request[r] /\ baked'[r] = baked[r]
  /\ answer'[r] = answer[r] /\ caller'[r] = caller[r]

(* The span that it is to have it had, or was given from outside, or new.  *)
SpanComes(r) ==
  /\ SpanToBe(r)' <= last_id'
  /\ \/ SpanToBe(r)' = SpanToBe(r)
     \/ SpanToBe(r)' \in OutsideIds \cup {NoId}
     \/ SpanToBe(r)' > last_id

Changed(r) ==
  /\ Grows(r) /\ SpanComes(r)
  /\ StageOK(r)' /\ LevelOK(r)' /\ LoggedOK(r)'
  /\ caller'[r] = caller[r] \/ CallOK(r)'

LEMMA SpansAreNat ==
  ASSUME LogTypeOK, NEW r \in Requests
  PROVE  SpanToBe(r) \in Nat /\ TraceToBe(r) \in Nat /\ SpanOf(r) \in Nat /\ TraceOf(r) \in Nat
<1>1. request[r] \in RequestRecords /\ baked[r] \in BakedRecords
  BY DEF LogTypeOK
<1>2. request[r].headers \in Headers
  BY <1>1 DEF RequestRecords
<1> QED BY <1>1, <1>2 DEF RequestRecords, BakedRecords, Headers, SpanToBe, TraceToBe, SpanOf, TraceOf

LEMMA HasStays ==
  ASSUME lines \subseteq lines', NEW r, NEW kind, Has(r, kind)
  PROVE  Has(r, kind)'
BY DEF Has

LEMMA UntouchedIsOK ==
  ASSUME IInv, LogTypeOK', NEW r \in Requests, Untouched(r), lines \subseteq lines',
         last_id <= last_id', level' = level
  PROVE  Changed(r)
<1>1. StageOK(r) /\ LevelOK(r) /\ LoggedOK(r) /\ SpanToBe(r) <= last_id
  BY DEF IInv, IdsAreMade
<1>2. Grows(r)
  BY DEF Grows, Untouched, Here, Begun, Answered, ParentOf, TraceOf, SpanOf, TraceToBe
<1>3. StageOK(r)' /\ LevelOK(r)'
  BY <1>1 DEF StageOK, LevelOK, Untouched, Here, Answered, TraceOf, SpanOf
<1>4. LoggedOK(r)'
  BY <1>1, HasStays DEF LoggedOK, Untouched
<1>5. SpanToBe(r)' = SpanToBe(r)
  BY DEF SpanToBe, SpanOf, Answered, Untouched
<1>6. SpanToBe(r) \in Nat /\ last_id \in Nat /\ last_id' \in Nat
  BY SpansAreNat DEF IInv, LogTypeOK
<1>7. SpanComes(r)
  BY <1>1, <1>5, <1>6 DEF SpanComes
<1> QED BY <1>2, <1>3, <1>4, <1>7 DEF Changed, Untouched

(* A step that touches some requests.                                      *)
LEMMA StepAt ==
  ASSUME IInv, LogTypeOK', NEW T \in SUBSET Requests,
         lines \subseteq lines', last_id <= last_id', level' = level,
         \A r \in Requests \ T : Untouched(r),
         \A r \in T : Changed(r),
         \A r, s \in T : r # s /\ SpanToBe(r)' > last_id => SpanToBe(r)' # SpanToBe(s)',
         \A l \in lines' \ lines : LineOK(l)'
  PROVE  IInv'
<1>1. \A r \in Requests : Changed(r)
  BY UntouchedIsOK
<1>2. last_id \in Nat /\ last_id' \in Nat /\ OutsideIds \subseteq Nat
  BY LogAssumption DEF IInv, LogTypeOK
<1>3. \A r \in Requests : SpanToBe(r) \in Nat /\ SpanToBe(r)' \in Nat
  <2>1. \A r \in Requests : SpanToBe(r) \in Nat
    BY SpansAreNat DEF IInv
  <2>2. \A r \in Requests : SpanToBe(r)' \in Nat
    <3>1. TAKE r \in Requests
    <3>2. request'[r] \in RequestRecords /\ baked'[r] \in BakedRecords
      BY DEF LogTypeOK
    <3>3. request'[r].headers \in Headers
      BY <3>2 DEF RequestRecords
    <3> QED BY <3>2, <3>3 DEF RequestRecords, BakedRecords, Headers, SpanToBe, SpanOf
  <2> QED BY <2>1, <2>2
<1>4. IdsAreMade'
  <2>1. \A id \in OutsideIds : id <= last_id
    BY DEF IInv, IdsAreMade
  <2>2. \A id \in OutsideIds : id <= last_id'
    BY <1>2, <2>1
  <2> QED BY <1>1, <2>2 DEF IdsAreMade, Changed, SpanComes
<1>5. SpansDiffer'
  <2> SUFFICES ASSUME NEW r \in Requests, NEW s \in Requests, r # s,
                      SpanToBe(r)' = SpanToBe(s)', SpanToBe(r)' \notin OutsideIds \cup {NoId}
               PROVE  FALSE
    BY DEF SpansDiffer
  <2>1. SpanToBe(r) <= last_id /\ SpanToBe(s) <= last_id
    BY DEF IInv, IdsAreMade
  <2>2. \A q \in Requests : SpanToBe(q)' > last_id => q \in T
    <3> SUFFICES ASSUME NEW q \in Requests, q \notin T, SpanToBe(q)' > last_id PROVE FALSE
      OBVIOUS
    <3>1. SpanToBe(q)' = SpanToBe(q)
      BY DEF SpanToBe, SpanOf, Answered, Untouched
    <3>2. SpanToBe(q) <= last_id
      BY DEF IInv, IdsAreMade
    <3> QED BY <1>2, <1>3, <3>1, <3>2
  <2>3. CASE SpanToBe(r)' > last_id
    <3>1. r \in T /\ s \in T
      BY <2>2, <2>3
    <3> QED BY <2>3, <3>1, Zenon
  <2>4. CASE ~(SpanToBe(r)' > last_id)
    <3>1. SpanToBe(r)' = SpanToBe(r) /\ SpanToBe(s)' = SpanToBe(s)
      BY <1>1, <2>4 DEF Changed, SpanComes
    <3> QED BY <3>1 DEF IInv, SpansDiffer
  <2> QED BY <2>3, <2>4
<1>6. \A r \in Requests : CallOK(r)'
  <2> SUFFICES ASSUME NEW s \in Requests, caller'[s] = caller[s], caller[s] # NoId
               PROVE  CallOK(s)'
    BY <1>1 DEF Changed, CallOK
  <2>1. PICK r \in Requests : r = caller[s]
    BY DEF IInv, LogTypeOK
  <2>2. /\ Begun(r) /\ TraceOf(r) # NoId /\ SpanOf(r) # NoId
        /\ TraceToBe(s) = TraceOf(r) /\ ParentOf(s) = SpanOf(r)
    BY <2>1 DEF IInv, CallOK
  <2>3. Here(s)
    BY DEF IInv, StageOK
  <2>4. Grows(r) /\ Grows(s)
    BY <1>1, <2>1 DEF Changed
  <2>5. /\ Begun(r)' /\ TraceOf(r)' = TraceOf(r) /\ SpanOf(r)' = SpanOf(r)
        /\ TraceToBe(s)' = TraceToBe(s) /\ ParentOf(s)' = ParentOf(s)
    BY <2>2, <2>3, <2>4 DEF Grows
  <2>6. caller'[s] = r
    BY <2>1
  <2> QED BY <2>2, <2>5, <2>6, Zenon DEF CallOK
<1>7. \A l \in lines' : LineOK(l)'
  <2> SUFFICES ASSUME NEW l \in lines PROVE LineOK(l)'
    OBVIOUS
  <2>1. LineOK(l) /\ l.request \in Requests
    BY DEF IInv, LogTypeOK, LineRecords
  <2>2. Grows(l.request)
    BY <1>1, <2>1 DEF Changed
  <2>3. Here(l.request)
    BY <2>1 DEF LineOK, Begun, Here
  <2> QED BY <2>1, <2>2, <2>3 DEF LineOK, Grows
<1> QED BY <1>1, <1>4, <1>5, <1>6, <1>7 DEF IInv, Changed

-----------------------------------------------------------------------------
(* A request that is asked for its ids has them, those of its headers if   *)
(* it has some.                                                            *)
MoreKnown(q, k, last, now) ==
  /\ k.headers = q.headers
  /\ q.trace # NoId => k.trace = q.trace
  /\ q.trace = NoId /\ q.headers.trace # NoId => k.trace \in {NoId, q.headers.trace}
  /\ q.span # NoId => k.span = q.span
  /\ q.span = NoId =>
       \/ k.span = NoId
       \/ IF q.headers.span # NoId THEN k.span = q.headers.span
          ELSE last < k.span /\ k.span <= now

LEMMA IdentifiedFacts ==
  ASSUME NEW q \in RequestRecords, NEW last \in Nat
  PROVE  /\ Identified(q, last)[1] \in RequestRecords
         /\ Identified(q, last)[2] \in Nat /\ last <= Identified(q, last)[2]
         /\ Identified(q, last)[1].trace # NoId /\ Identified(q, last)[1].span # NoId
         /\ MoreKnown(q, Identified(q, last)[1], last, Identified(q, last)[2])
         /\ Identified(q, last)[1].stage = q.stage
         /\ Identified(q, last)[1].service = q.service
         /\ Identified(q, last)[1].marked = q.marked
         /\ Identified(q, last)[1].quiet = q.quiet
<1> DEFINE t == trace_id(q, last)
           k == span_id(t[1], t[2])
<1>1. /\ q.trace \in Nat /\ q.span \in Nat /\ q.headers.trace \in Nat /\ q.headers.span \in Nat
  BY DEF RequestRecords, Headers
<1>2. /\ t[1] \in RequestRecords /\ t[2] \in Nat /\ last <= t[2]
      /\ t[1].trace # NoId /\ t[1].span = q.span /\ t[1].headers = q.headers
      /\ q.trace # NoId => t[1].trace = q.trace
      /\ q.trace = NoId /\ q.headers.trace # NoId => t[1].trace = q.headers.trace
      /\ t[1].stage = q.stage /\ t[1].service = q.service
      /\ t[1].marked = q.marked /\ t[1].quiet = q.quiet
  BY <1>1 DEF trace_id, NoId, RequestRecords
<1> HIDE DEF t
<1>3. /\ k[1] \in RequestRecords /\ k[2] \in Nat /\ t[2] <= k[2]
      /\ k[1].span # NoId /\ k[1].trace = t[1].trace /\ k[1].headers = t[1].headers
      /\ t[1].span # NoId => k[1].span = t[1].span
      /\ t[1].span = NoId =>
           IF t[1].headers.span # NoId THEN k[1].span = t[1].headers.span
           ELSE k[1].span = t[2] + 1 /\ k[2] = t[2] + 1
      /\ k[1].stage = t[1].stage /\ k[1].service = t[1].service
      /\ k[1].marked = t[1].marked /\ k[1].quiet = t[1].quiet
  BY <1>1, <1>2 DEF span_id, NoId, RequestRecords
<1> HIDE DEF k
<1>4. last <= k[2]
  BY <1>2, <1>3
<1>5. MoreKnown(q, k[1], last, k[2])
  BY <1>1, <1>2, <1>3 DEF MoreKnown
<1>6. Identified(q, last) = k
  BY DEF Identified, t, k
<1> QED BY <1>2, <1>3, <1>4, <1>5, <1>6

(* What a request is before it is answered.                                *)
LEMMA NotAnswered ==
  ASSUME IInv, NEW r \in Requests, ~Answered(r)
  PROVE  /\ TraceOf(r) = request[r].trace /\ SpanOf(r) = request[r].span
         /\ ParentOf(r) = request[r].headers.parent
         /\ answer[r] = <<>> /\ ~baked[r].marked
BY DEF IInv, StageOK, TraceOf, SpanOf, ParentOf

(* It goes on to be viewed, and may be asked for its ids.                  *)
LEMMA ViewedIsOK ==
  ASSUME IInv, LogTypeOK', NEW r \in Requests, request[r].stage \in {"arrived", "viewed"},
         request'[r].stage = "viewed",
         MoreKnown(request[r], request'[r], last_id, last_id'),
         baked'[r] = baked[r], answer'[r] = answer[r], caller'[r] = caller[r],
         last_id <= last_id'
  PROVE  /\ Changed(r)
         /\ TraceOf(r)' = request'[r].trace /\ SpanOf(r)' = request'[r].span
         /\ ParentOf(r)' = ParentOf(r) /\ ParentOf(r)' = request'[r].headers.parent
         /\ Begun(r)' /\ ~Answered(r)'
<1>1. ~Answered(r) /\ ~Answered(r)' /\ Begun(r)' /\ Here(r)'
  BY DEF Answered, Begun, Here
<1>2. /\ TraceOf(r) = request[r].trace /\ SpanOf(r) = request[r].span
      /\ ParentOf(r) = request[r].headers.parent
      /\ answer[r] = <<>> /\ ~baked[r].marked
  BY <1>1, NotAnswered
<1>3. /\ TraceOf(r)' = request'[r].trace /\ SpanOf(r)' = request'[r].span
      /\ ParentOf(r)' = request'[r].headers.parent
  BY <1>1 DEF TraceOf, SpanOf, ParentOf
<1>4. request'[r].headers = request[r].headers
  BY DEF MoreKnown
<1>5. Grows(r)
  <2>1. TraceToBe(r) # NoId => TraceToBe(r)' = TraceToBe(r)
    BY <1>2, <1>3, <1>4 DEF MoreKnown, TraceToBe
  <2> QED BY <1>1, <1>2, <1>3, <1>4, <2>1 DEF Grows, MoreKnown
<1>6. SpanComes(r)
  <2>1. SpanToBe(r) \in Nat /\ last_id \in Nat /\ last_id' \in Nat /\ SpanToBe(r) <= last_id
    BY SpansAreNat DEF IInv, LogTypeOK, IdsAreMade
  <2>2. \/ SpanToBe(r)' = SpanToBe(r)
        \/ last_id < SpanToBe(r)' /\ SpanToBe(r)' <= last_id'
    BY <1>2, <1>3, <1>4 DEF MoreKnown, SpanToBe
  <2> QED BY <2>1, <2>2 DEF SpanComes
<1>7. StageOK(r)' /\ LevelOK(r)' /\ LoggedOK(r)'
  BY <1>1, <1>2 DEF StageOK, LevelOK, LoggedOK
<1> QED BY <1>1, <1>2, <1>3, <1>4, <1>5, <1>6, <1>7 DEF Changed

(* It arrives, from outside or from another.                               *)
LEMMA ArrivedIsOK ==
  ASSUME IInv, LogTypeOK', NEW r \in Requests, request[r].stage = "absent",
         NEW headers \in Headers,
         request'[r].stage = "arrived", request'[r].headers = headers,
         request'[r].trace = NoId, request'[r].span = NoId,
         baked'[r] = baked[r], answer'[r] = answer[r],
         headers.span <= last_id',
         headers.span \in OutsideIds \cup {NoId} \/ headers.span > last_id,
         caller'[r] = caller[r] \/ CallOK(r)'
  PROVE  /\ Changed(r)
         /\ SpanToBe(r)' = headers.span /\ TraceToBe(r)' = headers.trace
         /\ ParentOf(r)' = headers.parent
<1>1. /\ ~Answered(r) /\ ~Answered(r)' /\ Here(r)' /\ ~Here(r) /\ ~Begun(r)
  BY DEF Answered, Begun, Here
<1>2. request[r] = Absent /\ answer[r] = <<>> /\ ~baked[r].marked
  BY <1>1 DEF IInv, StageOK
<1>3. /\ TraceOf(r) = NoId /\ SpanOf(r) = NoId /\ TraceToBe(r) = NoId
  BY <1>1, <1>2 DEF TraceOf, SpanOf, TraceToBe, Absent, NoHeaders
<1>4. /\ SpanToBe(r)' = headers.span /\ TraceToBe(r)' = headers.trace
      /\ ParentOf(r)' = headers.parent
  BY <1>1 DEF TraceOf, SpanOf, SpanToBe, TraceToBe, ParentOf
<1>5. Grows(r) /\ SpanComes(r)
  BY <1>1, <1>3, <1>4 DEF Grows, SpanComes
<1>6. StageOK(r)' /\ LevelOK(r)' /\ LoggedOK(r)'
  BY <1>1, <1>2 DEF StageOK, LevelOK, LoggedOK
<1> QED BY <1>4, <1>5, <1>6 DEF Changed

LEMMA ArriveStep ==
  ASSUME IInv, NEW r \in Requests, NEW headers \in HeadersFromOutside,
         NEW quiet \in BOOLEAN, Arrive(r, headers, quiet)
  PROVE  IInv'
<1> USE LogAssumption
<1> DEFINE q == [Absent EXCEPT !.stage = "arrived", !.headers = headers, !.quiet = quiet]
<1>1. /\ request' = [request EXCEPT ![r] = q] /\ request[r].stage = "absent"
      /\ UNCHANGED <<level, answer, baked, lines, last_id, caller>>
  BY DEF Arrive
<1>2. headers \in Headers /\ headers.span \in OutsideIds \cup {NoId}
  <2>1. OutsideIds \cup {NoId} \subseteq Nat
    BY DEF NoId
  <2> HIDE LogAssumption
  <2> QED BY <2>1 DEF HeadersFromOutside, Headers, NoId
<1>3. q \in RequestRecords
  BY <1>2, AbsentIsARecord DEF RequestRecords, Absent, Stages
<1>4. q.stage = "arrived" /\ q.headers = headers /\ q.trace = NoId /\ q.span = NoId
  BY DEF Absent
<1> HIDE DEF q
<1>5. LogTypeOK'
  BY <1>1, <1>3 DEF IInv, LogTypeOK
<1>6. request'[r] = q /\ \A s \in Requests \ {r} : Untouched(s)
  BY <1>1 DEF IInv, LogTypeOK, Untouched
<1>7. headers.span <= last_id'
  <2>1. last_id \in Nat /\ last_id' = last_id /\ \A id \in OutsideIds : id <= last_id
    BY <1>1 DEF IInv, LogTypeOK, IdsAreMade
  <2>2. \A id \in OutsideIds \cup {NoId} : id <= last_id
    BY <2>1 DEF NoId
  <2> QED BY <1>2, <2>1, <2>2
<1>8. Changed(r)
  BY <1>1, <1>2, <1>5, <1>6, <1>7, <1>4, ArrivedIsOK
<1>9. last_id <= last_id'
  BY <1>1 DEF IInv, LogTypeOK
<1>10. lines \subseteq lines' /\ level' = level /\ lines' \ lines = {}
  BY <1>1
<1> DEFINE T == {r}
<1>11. T \in SUBSET Requests /\ \A s \in T : s = r
  OBVIOUS
<1> QED BY <1>5, <1>6, <1>8, <1>9, <1>10, <1>11, StepAt

(* A step in which only a request goes on to be viewed.                    *)
LEMMA ViewedStep ==
  ASSUME IInv, NEW r \in Requests, request[r].stage \in {"arrived", "viewed"},
         NEW q \in RequestRecords, request' = [request EXCEPT ![r] = q],
         q.stage = "viewed", MoreKnown(request[r], q, last_id, last_id'),
         last_id' \in Nat, last_id <= last_id',
         UNCHANGED <<level, answer, baked, caller>>,
         lines \subseteq lines', \A l \in lines' \ lines : LineOK(l)' /\ l \in LineRecords
  PROVE  IInv'
<1>1. LogTypeOK'
  BY DEF IInv, LogTypeOK
<1>2. request'[r] = q /\ \A s \in Requests \ {r} : Untouched(s)
  BY DEF IInv, LogTypeOK, Untouched
<1>3. Changed(r)
  BY <1>1, <1>2, ViewedIsOK
<1> DEFINE T == {r}
<1>4. T \in SUBSET Requests /\ \A s \in T : s = r
  OBVIOUS
<1> QED BY <1>1, <1>2, <1>3, <1>4, StepAt

LEMMA SameIsMore ==
  ASSUME NEW q, NEW k, NEW last, NEW now,
         k.headers = q.headers, k.trace = q.trace, k.span = q.span
  PROVE  MoreKnown(q, k, last, now)
BY DEF MoreKnown

LEMMA CutShortStep ==
  ASSUME IInv, NEW r \in Requests, CutShort(r)
  PROVE  IInv'
<1> DEFINE q == [request[r] EXCEPT !.stage = "viewed"]
<1>1. request[r] \in RequestRecords /\ last_id \in Nat
  BY DEF IInv, LogTypeOK
<1>2. q \in RequestRecords /\ q.stage = "viewed" /\ MoreKnown(request[r], q, last_id, last_id')
  BY <1>1, SameIsMore DEF RequestRecords, Stages
<1>3. /\ request[r].stage = "arrived" /\ request' = [request EXCEPT ![r] = q]
      /\ UNCHANGED <<level, answer, baked, lines, last_id, caller>>
  BY DEF CutShort
<1> HIDE DEF q
<1>4. /\ last_id' \in Nat /\ last_id <= last_id'
      /\ lines \subseteq lines' /\ lines' \ lines = {}
  BY <1>1, <1>3
<1> QED BY <1>2, <1>3, <1>4, ViewedStep

LEMMA LookStep ==
  ASSUME IInv, NEW r \in Requests, NEW service \in Services, Look(r, service)
  PROVE  IInv'
<1> DEFINE q == [request[r] EXCEPT !.service = service]
<1>1. request[r] \in RequestRecords /\ last_id \in Nat
  BY DEF IInv, LogTypeOK
<1>2. q \in RequestRecords /\ q.stage = request[r].stage
      /\ MoreKnown(request[r], q, last_id, last_id')
  BY <1>1, SameIsMore DEF RequestRecords
<1>3. /\ request[r].stage = "viewed" /\ request' = [request EXCEPT ![r] = q]
      /\ UNCHANGED <<level, answer, baked, lines, last_id, caller>>
  BY DEF Look
<1> HIDE DEF q
<1>4. /\ last_id' \in Nat /\ last_id <= last_id'
      /\ lines \subseteq lines' /\ lines' \ lines = {}
  BY <1>1, <1>3
<1> QED BY <1>2, <1>3, <1>4, ViewedStep

(* The lines of a request that is there have its ids.                      *)
LEMMA LineFacts ==
  ASSUME NEW r, NEW kind, NEW q \in RequestRecords
  PROVE  /\ Line(r, kind, q, NothingGiven).request = r
         /\ Line(r, kind, q, NothingGiven).kind = kind
         /\ Line(r, kind, q, NothingGiven).trace = q.trace
         /\ Line(r, kind, q, NothingGiven).span = q.span
         /\ Line(r, kind, q, NothingGiven).parent = q.headers.parent
         /\ Line(r, kind, q, NothingGiven).service = q.service
         /\ r \in Requests /\ kind \in {"received", "took", "closed"} =>
              Line(r, kind, q, NothingGiven) \in LineRecords
<1> DEFINE l == Line(r, kind, q, NothingGiven)
<1>1. \A x : Filtered(x, NoId) = x
  BY DEF Filtered
<1>2. l = [request |-> r, kind |-> kind, trace |-> q.trace, span |-> q.span,
           service |-> q.service, parent |-> q.headers.parent]
  BY <1>1 DEF Line, NothingGiven, parent_span_id
<1>3. /\ q.trace \in Nat /\ q.span \in Nat /\ q.headers.parent \in Nat
      /\ q.service \in Services \cup {NoId}
  BY DEF RequestRecords, Headers
<1> HIDE DEF l
<1>4. r \in Requests /\ kind \in {"received", "took", "closed"} => l \in LineRecords
  BY <1>2, <1>3 DEF LineRecords
<1>5. /\ l.request = r /\ l.kind = kind /\ l.trace = q.trace /\ l.span = q.span
      /\ l.parent = q.headers.parent /\ l.service = q.service
  BY <1>2
<1> QED BY <1>4, <1>5 DEF l

LEMMA BeforeRequestStep ==
  ASSUME IInv, NEW r \in Requests, before_request(r)
  PROVE  IInv'
<1> DEFINE begun == [request[r] EXCEPT !.stage = "viewed", !.marked = TRUE]
           known == IF Enabled(DEBUG) THEN Identified(begun, last_id) ELSE <<begun, last_id>>
<1>1. request[r] \in RequestRecords /\ last_id \in Nat
  BY DEF IInv, LogTypeOK
<1>2. /\ begun \in RequestRecords /\ begun.stage = "viewed"
      /\ begun.headers = request[r].headers /\ begun.trace = request[r].trace
      /\ begun.span = request[r].span
  BY <1>1 DEF RequestRecords, Stages
<1>3. /\ request[r].stage = "arrived" /\ request' = [request EXCEPT ![r] = known[1]]
      /\ last_id' = known[2]
      /\ lines' = IF Enabled(DEBUG)
                  THEN lines \cup {Line(r, "received", known[1], NothingGiven)} ELSE lines
      /\ UNCHANGED <<level, answer, baked, caller>>
  BY DEF before_request
<1> HIDE DEF begun
<1>4. PICK q \in RequestRecords :
        /\ q = known[1] /\ q.stage = "viewed"
        /\ MoreKnown(request[r], q, last_id, last_id')
        /\ last_id' \in Nat /\ last_id <= last_id'
        /\ Enabled(DEBUG) => q.trace # NoId /\ q.span # NoId
  <2>1. CASE Enabled(DEBUG)
    <3>1. known = Identified(begun, last_id)
      BY <2>1
    <3>2. /\ known[1] \in RequestRecords /\ known[1].stage = "viewed"
          /\ known[1].trace # NoId /\ known[1].span # NoId
          /\ MoreKnown(begun, known[1], last_id, known[2])
          /\ known[2] \in Nat /\ last_id <= known[2]
      BY <1>1, <1>2, <3>1, IdentifiedFacts
    <3> HIDE DEF known
    <3>3. MoreKnown(request[r], known[1], last_id, known[2])
      BY <1>2, <3>2 DEF MoreKnown
    <3> QED BY <1>3, <3>2, <3>3
  <2>2. CASE ~Enabled(DEBUG)
    <3>1. known[1] = begun /\ known[2] = last_id
      BY <2>2
    <3> QED BY <1>1, <1>2, <1>3, <2>2, <3>1, SameIsMore
  <2> QED BY <2>1, <2>2
<1> HIDE DEF known
<1>5. request' = [request EXCEPT ![r] = q] /\ request'[r] = q
  BY <1>3, <1>4 DEF IInv, LogTypeOK
<1>6. /\ TraceOf(r)' = q.trace /\ SpanOf(r)' = q.span
      /\ ParentOf(r)' = q.headers.parent /\ Begun(r)'
  BY <1>4, <1>5 DEF TraceOf, SpanOf, ParentOf, Answered, Begun
<1>7. \A l \in lines' \ lines : LineOK(l)' /\ l \in LineRecords
  <2> SUFFICES ASSUME NEW l \in lines' \ lines PROVE LineOK(l)' /\ l \in LineRecords
    OBVIOUS
  <2>1. Enabled(DEBUG) /\ l = Line(r, "received", q, NothingGiven)
    BY <1>3, <1>4
  <2>2. /\ l.request = r /\ l.kind = "received" /\ l.trace = q.trace /\ l.span = q.span
        /\ l.parent = q.headers.parent /\ l \in LineRecords
    BY <1>4, <2>1, LineFacts
  <2> QED BY <1>4, <1>6, <2>1, <2>2 DEF LineOK
<1>8. lines \subseteq lines'
  BY <1>3
<1> QED BY <1>3, <1>4, <1>5, <1>7, <1>8, ViewedStep

LEMMA CallStep ==
  ASSUME IInv, NEW r \in Requests, NEW s \in Requests, NEW quiet \in BOOLEAN,
         Call(r, s, quiet)
  PROVE  IInv'
<1> USE LogAssumption
<1> DEFINE known == Identified(request[r], last_id)
           arrived == [Absent EXCEPT !.stage = "arrived", !.quiet = quiet,
                         !.headers = get_onwards_request_headers(known[1], known[2] + 1)]
<1>1. /\ request[r] \in RequestRecords /\ last_id \in Nat
      /\ request[r].stage = "viewed" /\ request[s].stage = "absent" /\ r # s
  BY DEF IInv, LogTypeOK, Call
<1>2. PICK q \in RequestRecords, n \in Nat :
        /\ q = known[1] /\ n = known[2] /\ last_id <= n
        /\ q.stage = "viewed" /\ q.trace # NoId /\ q.span # NoId
        /\ MoreKnown(request[r], q, last_id, n)
  <2>1. /\ known[1] \in RequestRecords /\ known[2] \in Nat /\ last_id <= known[2]
        /\ known[1].stage = "viewed" /\ known[1].trace # NoId /\ known[1].span # NoId
        /\ MoreKnown(request[r], known[1], last_id, known[2])
    BY <1>1, IdentifiedFacts
  <2> HIDE DEF known
  <2> QED BY <2>1
<1>3. PICK headers \in Headers :
        /\ headers = [trace |-> q.trace, span |-> n + 1, parent |-> q.span]
        /\ headers.span = n + 1 /\ headers.trace = q.trace /\ headers.parent = q.span
  <2> DEFINE h == [trace |-> q.trace, span |-> n + 1, parent |-> q.span]
  <2>1. q.trace \in Nat /\ q.span \in Nat /\ n + 1 \in Nat
    BY DEF RequestRecords
  <2>2. h \in Headers /\ h.span = n + 1 /\ h.trace = q.trace /\ h.parent = q.span
    BY <2>1 DEF Headers
  <2> QED BY <2>2
<1> DEFINE a == [Absent EXCEPT !.stage = "arrived", !.headers = headers, !.quiet = quiet]
<1>4. a \in RequestRecords
  BY <1>3, AbsentIsARecord DEF RequestRecords, Absent, Stages
<1>5. arrived = a
  BY <1>2, <1>3 DEF get_onwards_request_headers
<1>6. /\ request' = [request EXCEPT ![r] = q, ![s] = a]
      /\ last_id' = n + 1 /\ caller' = [caller EXCEPT ![s] = r]
      /\ UNCHANGED <<level, answer, baked, lines>>
  <2>1. /\ request' = [request EXCEPT ![r] = known[1], ![s] =
              [Absent EXCEPT !.stage = "arrived",
                 !.headers = get_onwards_request_headers(known[1], known[2] + 1),
                 !.quiet = quiet]]
        /\ last_id' = known[2] + 1 /\ caller' = [caller EXCEPT ![s] = r]
        /\ UNCHANGED <<level, answer, baked, lines>>
    BY DEF Call
  <2>2. get_onwards_request_headers(known[1], known[2] + 1) = headers
    BY <1>2, <1>3 DEF get_onwards_request_headers
  <2> QED BY <1>2, <2>1, <2>2
<1> HIDE DEF known, arrived, a
<1>7. /\ request'[r] = q /\ request'[s] = a
      /\ caller'[s] = r /\ caller'[r] = caller[r]
      /\ \A o \in Requests \ {r, s} : Untouched(o)
  BY <1>1, <1>6 DEF IInv, LogTypeOK, Untouched
<1>8. LogTypeOK'
  <2>1. /\ request \in [Requests -> RequestRecords]
        /\ caller \in [Requests -> Requests \cup {NoId}]
    BY DEF IInv, LogTypeOK
  <2>2. /\ request' \in [Requests -> RequestRecords]
        /\ caller' \in [Requests -> Requests \cup {NoId}]
    BY <1>4, <1>6, <2>1
  <2> QED BY <1>6, <2>2 DEF IInv, LogTypeOK
<1>9. last_id <= last_id' /\ n <= last_id' /\ last_id' \in Nat
  BY <1>1, <1>2, <1>6
<1>10. MoreKnown(request[r], q, last_id, last_id')
  BY <1>1, <1>2, <1>6 DEF MoreKnown, RequestRecords
<1>11. /\ Changed(r) /\ TraceOf(r)' = q.trace /\ SpanOf(r)' = q.span /\ Begun(r)'
  BY <1>1, <1>2, <1>6, <1>7, <1>8, <1>9, <1>10, ViewedIsOK
<1>12. /\ ~Answered(s)' /\ TraceOf(s)' = NoId
       /\ request'[s].stage = "arrived" /\ request'[s].headers = headers
       /\ request'[s].trace = NoId /\ request'[s].span = NoId
  BY <1>7 DEF a, Absent, Answered, TraceOf
<1>13. CallOK(s)'
  <2>1. TraceToBe(s)' = q.trace /\ ParentOf(s)' = q.span
    BY <1>3, <1>12 DEF TraceToBe, ParentOf
  <2> QED BY <1>2, <1>7, <1>11, <2>1, Zenon DEF CallOK
<1>14. headers.span <= last_id' /\ headers.span > last_id
  BY <1>1, <1>2, <1>3, <1>6
<1>15. Changed(s) /\ SpanToBe(s)' = n + 1
  <2>1. baked'[s] = baked[s] /\ answer'[s] = answer[s]
    BY <1>6
  <2>2. /\ Changed(s) /\ SpanToBe(s)' = headers.span
    BY <1>1, <1>8, <1>12, <1>13, <1>14, <2>1, ArrivedIsOK
  <2> QED BY <1>3, <2>2
<1>16. SpanToBe(r)' <= n /\ SpanToBe(r)' \in Nat
  <2>1. SpanToBe(r)' = q.span
    BY <1>2, <1>11 DEF SpanToBe
  <2>2. SpanToBe(r) \in Nat /\ SpanToBe(r) <= last_id
    BY SpansAreNat DEF IInv, IdsAreMade
  <2>3. q.span = SpanToBe(r) \/ q.span <= n
    <3>1. SpanOf(r) = request[r].span
      BY <1>1 DEF SpanOf, Answered
    <3> QED BY <1>2, <3>1 DEF MoreKnown, SpanToBe
  <2>4. q.span \in Nat
    BY DEF RequestRecords
  <2> QED BY <1>1, <1>2, <2>1, <2>2, <2>3, <2>4
<1> DEFINE T == {r, s}
<1>17. /\ T \in SUBSET Requests /\ \A o \in T : Changed(o)
       /\ \A o \in Requests \ T : Untouched(o)
  BY <1>7, <1>11, <1>15
<1>18. SpanToBe(r)' # SpanToBe(s)'
  BY <1>15, <1>16
<1>19. \A o, t \in T : o # t /\ SpanToBe(o)' > last_id => SpanToBe(o)' # SpanToBe(t)'
  BY <1>18, Zenon
<1>20. lines \subseteq lines' /\ level' = level /\ lines' \ lines = {}
  BY <1>6
<1> HIDE DEF T
<1> QED BY <1>8, <1>9, <1>17, <1>19, <1>20, StepAt

(* A step in which only a request is answered, or its response is closed,  *)
(* when it has its ids.                                                    *)
LEMMA AnsweredStep ==
  ASSUME IInv, LogTypeOK', NEW r \in Requests,
         \A s \in Requests \ {r} : Untouched(s),
         UNCHANGED <<level, caller>>, last_id <= last_id',
         Grows(r), SpanComes(r), StageOK(r)', LevelOK(r)', LoggedOK(r)',
         lines \subseteq lines', \A l \in lines' \ lines : LineOK(l)'
  PROVE  IInv'
<1> DEFINE T == {r}
<1>1. T \in SUBSET Requests /\ \A s \in T : s = r
  OBVIOUS
<1>2. Changed(r)
  BY DEF Changed
<1> QED BY <1>1, <1>2, StepAt

LEMMA ClosedStep ==
  ASSUME IInv, NEW r \in Requests, _log_response_closed(r)
  PROVE  IInv'
<1> DEFINE q == [request[r] EXCEPT !.stage = "gone"]
<1>0. PICK l : l = Line(r, "closed", Absent, baked[r])
  OBVIOUS
<1>1. /\ request[r].stage = "streaming" /\ request' = [request EXCEPT ![r] = q]
      /\ lines' = IF baked[r].marked /\ Enabled(baked[r].level) THEN lines \cup {l} ELSE lines
      /\ UNCHANGED <<level, answer, baked, last_id, caller>>
  BY <1>0 DEF _log_response_closed
<1>2. request[r] \in RequestRecords /\ baked[r] \in BakedRecords /\ last_id \in Nat
  BY DEF IInv, LogTypeOK
<1>3. q \in RequestRecords /\ q.stage = "gone" /\ q.headers = request[r].headers
  BY <1>2 DEF RequestRecords, Stages
<1> HIDE DEF q
<1>4. request'[r] = q /\ \A s \in Requests \ {r} : Untouched(s)
  BY <1>1 DEF IInv, LogTypeOK, Untouched
<1>5. /\ Answered(r) /\ Answered(r)' /\ Begun(r)' /\ Here(r)'
  BY <1>1, <1>3, <1>4 DEF Answered, Begun, Here
<1>6. /\ TraceOf(r) = baked[r].trace /\ SpanOf(r) = baked[r].span
      /\ ParentOf(r) = baked[r].parent
      /\ TraceOf(r)' = baked[r].trace /\ SpanOf(r)' = baked[r].span
      /\ ParentOf(r)' = baked[r].parent
  BY <1>1, <1>5 DEF TraceOf, SpanOf, ParentOf
<1>7. StageOK(r) /\ LevelOK(r) /\ LoggedOK(r) /\ SpanToBe(r) <= last_id
  BY DEF IInv, IdsAreMade
<1>8. l = [request |-> r, kind |-> "closed", trace |-> baked[r].trace,
           span |-> baked[r].span, service |-> baked[r].service,
           parent |-> baked[r].parent]
  <2>1. \A x : Filtered(NoId, x) = x
    BY DEF Filtered
  <2>2. Absent.trace = NoId /\ Absent.span = NoId /\ Absent.service = NoId
        /\ parent_span_id(Absent) = NoId
    BY DEF Absent, NoHeaders, parent_span_id
  <2> QED BY <1>0, <2>1, <2>2 DEF Line
<1>9. l \in LineRecords
  BY <1>2, <1>8 DEF LineRecords, BakedRecords
<1>10. LogTypeOK'
  BY <1>1, <1>3, <1>9 DEF IInv, LogTypeOK
<1>11. l.request = r /\ l.kind = "closed" /\ l.trace = baked[r].trace
       /\ l.span = baked[r].span /\ l.service = baked[r].service /\ l.parent = baked[r].parent
  BY <1>8
<1>12. LineOK(l)'
  BY <1>1, <1>5, <1>6, <1>7, <1>11 DEF LineOK, StageOK
<1>13. Grows(r)
  BY <1>1, <1>3, <1>4, <1>5, <1>6 DEF Grows, TraceToBe
<1>14. SpanComes(r)
  BY <1>1, <1>3, <1>4, <1>6, <1>7 DEF SpanComes, SpanToBe
<1>15. StageOK(r)' /\ LevelOK(r)'
  BY <1>1, <1>3, <1>4, <1>5, <1>6, <1>7 DEF StageOK, LevelOK
<1>16. LoggedOK(r)'
  <2> SUFFICES ASSUME baked[r].marked, level <= baked[r].level
               PROVE  Has(r, "took")' /\ Has(r, "closed")'
    BY <1>1 DEF LoggedOK
  <2>1. Has(r, "took")
    BY <1>7 DEF LoggedOK
  <2>2. Enabled(baked[r].level)
    <3>1. level \in Int /\ baked[r].level \in Int
      BY <1>2, LogAssumption DEF IInv, LogTypeOK, BakedRecords, DEBUG, INFO, WARNING
    <3> QED BY <3>1 DEF Enabled
  <2> QED BY <1>1, <1>11, <2>1, <2>2 DEF Has
<1>17. last_id <= last_id' /\ lines \subseteq lines' /\ \A m \in lines' \ lines : LineOK(m)'
  <2>1. lines' \subseteq lines \cup {l} /\ lines \subseteq lines' /\ last_id' = last_id
    BY <1>1
  <2> QED BY <1>2, <1>12, <2>1
<1> QED BY <1>1, <1>4, <1>10, <1>13, <1>14, <1>15, <1>16, <1>17, AnsweredStep

LEMMA TraceIsAdded ==
  ASSUME NEW own \in Seq(Nat), NEW trace \in Nat, ToSet(own) \subseteq {trace}
  PROVE  /\ Append(own, trace) \in Seq(Nat) /\ Append(own, trace) # <<>>
         /\ ToSet(Append(own, trace)) = {trace}
<1>1. /\ Append(own, trace) \in Seq(Nat) /\ Len(Append(own, trace)) = Len(own) + 1
      /\ Len(own) \in Nat
      /\ DOMAIN Append(own, trace) = 1..Len(own) + 1 /\ DOMAIN own = 1..Len(own)
      /\ \A k \in 1..Len(own) : Append(own, trace)[k] = own[k]
      /\ Append(own, trace)[Len(own) + 1] = trace
  OBVIOUS
<1>2. \A k \in DOMAIN own : own[k] = trace
  BY DEF ToSet
<1>3. \A k \in 1..Len(own) + 1 : Append(own, trace)[k] = trace
  BY <1>1, <1>2
<1>4. Len(own) + 1 \in DOMAIN Append(own, trace)
  BY <1>1
<1>5. ToSet(Append(own, trace)) = {trace}
  BY <1>1, <1>3, <1>4 DEF ToSet
<1> QED BY <1>1, <1>5

(* The ids in the headers that a view hands on are those of its request.   *)
Passed(r, own) ==
  own = <<>> \/ \E s \in Requests : caller[s] = r /\ answer[s] # <<>> /\ own = answer[s]

LEMMA PassedIsTheTrace ==
  ASSUME IInv, NEW r \in Requests, NEW own, Passed(r, own)
  PROVE  /\ own \in Seq(Nat)
         /\ own # <<>> => TraceOf(r) # NoId /\ ToSet(own) = {TraceOf(r)}
<1>1. CASE own = <<>>
  BY <1>1
<1>2. CASE own # <<>>
  <2>1. PICK s \in Requests : caller[s] = r /\ answer[s] # <<>> /\ own = answer[s]
    BY <1>2 DEF Passed
  <2>2. own \in Seq(Nat)
    BY <2>1 DEF IInv, LogTypeOK
  <2>3. TraceOf(s) # NoId /\ ToSet(own) = {TraceOf(s)}
    BY <2>1 DEF IInv, StageOK
  <2>4. caller[s] # NoId
    BY <2>1, LogAssumption
  <2>5. TraceToBe(s) = TraceOf(r)
    BY <2>1, <2>4 DEF IInv, CallOK
  <2> QED BY <2>2, <2>3, <2>5 DEF TraceToBe
<1> QED BY <1>1, <1>2

LEMMA AfterRequestStep ==
  ASSUME IInv, NEW r \in Requests, NEW failed \in BOOLEAN, NEW streamed \in BOOLEAN,
         NEW own, Passed(r, own), after_request(r, failed, streamed, own)
  PROVE  IInv'
<1> DEFINE known == Identified(request[r], last_id)
<1>1. /\ request[r] \in RequestRecords /\ last_id \in Nat
      /\ request[r].stage = "viewed" /\ baked[r] \in BakedRecords
  BY DEF IInv, LogTypeOK, after_request
<1>2. PICK q \in RequestRecords :
        /\ q = known[1] /\ q.stage = "viewed" /\ q.trace # NoId /\ q.span # NoId
        /\ q.marked = request[r].marked
        /\ MoreKnown(request[r], q, last_id, known[2])
        /\ known[2] \in Nat /\ last_id <= known[2]
  <2>1. /\ known[1] \in RequestRecords /\ known[2] \in Nat /\ last_id <= known[2]
        /\ known[1].stage = "viewed" /\ known[1].trace # NoId /\ known[1].span # NoId
        /\ known[1].marked = request[r].marked
        /\ MoreKnown(request[r], known[1], last_id, known[2])
    BY <1>1, IdentifiedFacts
  <2> HIDE DEF known
  <2> QED BY <2>1
<1> DEFINE over == [Absent EXCEPT !.stage = IF streamed THEN "streaming" ELSE "gone"]
           kept == [trace |-> q.trace, span |-> q.span, parent |-> parent_span_id(q),
                    service |-> q.service, marked |-> q.marked,
                    level |-> LineLevel(q, failed),
                    response |-> [failed |-> failed, streamed |-> streamed,
                                  quiet |-> q.quiet]]
<1>3. PICK l : l = Line(r, "took", q, NothingGiven)
  OBVIOUS
<1>4. /\ request' = [request EXCEPT ![r] = over] /\ last_id' = known[2]
      /\ answer' = [answer EXCEPT ![r] = Append(own, q.trace)]
      /\ baked' = [baked EXCEPT ![r] = kept]
      /\ lines' = IF request[r].marked /\ Enabled(LineLevel(q, failed))
                  THEN lines \cup {l} ELSE lines
      /\ UNCHANGED <<level, caller>>
  <2>1. over = IF streamed THEN [Absent EXCEPT !.stage = "streaming"]
               ELSE [Absent EXCEPT !.stage = "gone"]
    OBVIOUS
  <2> QED BY <1>2, <1>3, <2>1 DEF after_request
<1>5. /\ over \in RequestRecords /\ over.headers = NoHeaders
      /\ over.stage = IF streamed THEN "streaming" ELSE "gone"
  <2>1. Absent \in RequestRecords /\ Absent.headers = NoHeaders
    BY AbsentIsARecord DEF Absent
  <2> QED BY <2>1 DEF RequestRecords, Stages, Absent
<1>6. /\ q.trace \in Nat /\ q.span \in Nat /\ q.headers.parent \in Nat
      /\ q.service \in Services \cup {NoId} /\ q.marked \in BOOLEAN /\ q.quiet \in BOOLEAN
  BY DEF RequestRecords, Headers
<1>7. LineLevel(q, failed) \in {DEBUG, INFO, WARNING}
  BY DEF LineLevel
<1>8. /\ kept \in BakedRecords /\ kept.trace = q.trace /\ kept.span = q.span
      /\ kept.parent = q.headers.parent /\ kept.service = q.service
      /\ kept.marked = q.marked /\ kept.level = LineLevel(q, failed)
      /\ kept.response.failed = failed /\ kept.response.streamed = streamed
      /\ kept.response.quiet = q.quiet
  BY <1>6, <1>7 DEF BakedRecords, parent_span_id
<1>9. /\ l.request = r /\ l.kind = "took" /\ l.trace = q.trace /\ l.span = q.span
      /\ l.parent = q.headers.parent /\ l.service = q.service /\ l \in LineRecords
  BY <1>3, LineFacts
<1> HIDE DEF over, kept
<1>10. ~Answered(r)
  BY <1>1 DEF Answered
<1>11. /\ TraceOf(r) = request[r].trace /\ SpanOf(r) = request[r].span
       /\ ParentOf(r) = request[r].headers.parent
  BY <1>10, NotAnswered
<1>12. own \in Seq(Nat) /\ ToSet(own) \subseteq {q.trace}
  <2>1. CASE own = <<>>
    BY <2>1 DEF ToSet
  <2>2. CASE own # <<>>
    BY <1>2, <1>11, <2>2, PassedIsTheTrace DEF MoreKnown
  <2> QED BY <2>1, <2>2
<1>13. /\ Append(own, q.trace) \in Seq(Nat) /\ Append(own, q.trace) # <<>>
       /\ ToSet(Append(own, q.trace)) = {q.trace}
  BY <1>6, <1>12, TraceIsAdded
<1>14. LogTypeOK'
  <2>1. /\ request' \in [Requests -> RequestRecords] /\ baked' \in [Requests -> BakedRecords]
    BY <1>4, <1>5, <1>8 DEF IInv, LogTypeOK
  <2>2. answer' \in [Requests -> Seq(Nat)] /\ lines' \subseteq LineRecords
    BY <1>4, <1>9, <1>13 DEF IInv, LogTypeOK
  <2> QED BY <1>2, <1>4, <2>1, <2>2 DEF IInv, LogTypeOK
<1>15. /\ request'[r] = over /\ baked'[r] = kept /\ answer'[r] = Append(own, q.trace)
       /\ \A s \in Requests \ {r} : Untouched(s)
  BY <1>4 DEF IInv, LogTypeOK, Untouched
<1>16. Answered(r)' /\ Begun(r)' /\ Here(r)'
  BY <1>5, <1>15 DEF Answered, Begun, Here
<1>17. TraceOf(r)' = q.trace /\ SpanOf(r)' = q.span /\ ParentOf(r)' = q.headers.parent
  BY <1>8, <1>15, <1>16 DEF TraceOf, SpanOf, ParentOf
<1>18. TraceToBe(r)' = q.trace /\ SpanToBe(r)' = q.span
  BY <1>2, <1>17 DEF TraceToBe, SpanToBe
<1>19. Grows(r)
  <2>1. TraceToBe(r) # NoId => TraceToBe(r)' = TraceToBe(r)
    BY <1>2, <1>11, <1>18 DEF MoreKnown, TraceToBe
  <2>2. ParentOf(r)' = ParentOf(r)
    BY <1>2, <1>11, <1>17 DEF MoreKnown
  <2> QED BY <1>2, <1>10, <1>11, <1>16, <1>17, <2>1, <2>2 DEF Grows, MoreKnown
<1>20. last_id' = known[2]
  BY <1>4
<1> HIDE DEF known
<1>21. SpanComes(r)
  <2>1. SpanToBe(r) \in Nat /\ SpanToBe(r) <= last_id
    BY SpansAreNat DEF IInv, IdsAreMade
  <2>2. \/ SpanToBe(r)' = SpanToBe(r)
        \/ last_id < SpanToBe(r)' /\ SpanToBe(r)' <= last_id'
    BY <1>2, <1>11, <1>18, <1>20 DEF MoreKnown, SpanToBe
  <2> QED BY <1>1, <1>2, <1>20, <2>1, <2>2 DEF SpanComes
<1>22. StageOK(r)'
  BY <1>2, <1>5, <1>13, <1>15, <1>16, <1>17 DEF StageOK, Answered, Here
<1>23. LevelOK(r)'
  BY <1>8, <1>15 DEF LevelOK, LineLevel
<1>24. Has(r, "took")' \/ ~q.marked \/ ~Enabled(LineLevel(q, failed))
  BY <1>2, <1>4, <1>9 DEF Has
<1>25. LoggedOK(r)'
  <2>1. Enabled(LineLevel(q, failed)) <=> level <= LineLevel(q, failed)
    <3>1. level \in Int /\ LineLevel(q, failed) \in Int
      BY <1>7, LogAssumption DEF IInv, LogTypeOK, DEBUG, INFO, WARNING
    <3> QED BY <3>1 DEF Enabled
  <2>2. ~(baked'[r].response.streamed /\ request'[r].stage = "gone")
    BY <1>5, <1>8, <1>15
  <2>3. /\ baked'[r].marked = q.marked /\ baked'[r].level = LineLevel(q, failed)
        /\ level' = level
    BY <1>4, <1>8, <1>15
  <2> QED BY <1>24, <2>1, <2>2, <2>3 DEF LoggedOK
<1>26. LineOK(l)'
  BY <1>2, <1>8, <1>9, <1>15, <1>16, <1>17 DEF LineOK
<1>27. lines \subseteq lines' /\ \A m \in lines' \ lines : LineOK(m)'
  <2>1. lines' \subseteq lines \cup {l} /\ lines \subseteq lines'
    BY <1>4
  <2> QED BY <1>26, <2>1
<1> QED BY <1>2, <1>4, <1>14, <1>15, <1>19, <1>20, <1>21, <1>22, <1>23, <1>25, <1>27,
           AnsweredStep

-----------------------------------------------------------------------------
LEMMA StepInvariant == IInv /\ [LogNext]_log_vars => IInv'
<1> SUFFICES ASSUME IInv, [LogNext]_log_vars PROVE IInv'
  OBVIOUS
<1>1. CASE StartOver
  <2>1. Fresh'
    BY <1>1 DEF StartOver, Fresh, AllAre, IInv, LogTypeOK
  <2> QED BY <2>1, FreshInvariant, PTL
<1>2. ASSUME NEW r \in Requests, NEW failed \in BOOLEAN, NEW streamed \in BOOLEAN,
             \/ after_request(r, failed, streamed, <<>>)
             \/ \E s \in Requests : /\ caller[s] = r /\ answer[s] # <<>>
                                    /\ after_request(r, failed, streamed, answer[s])
      PROVE  IInv'
  <2>1. PICK own : Passed(r, own) /\ after_request(r, failed, streamed, own)
    BY <1>2 DEF Passed
  <2> QED BY <2>1, AfterRequestStep
<1>3. CASE UNCHANGED log_vars
  <2>1. UNCHANGED <<level, request, answer, baked, lines, last_id, caller>>
    BY <1>3 DEF log_vars
  <2>2. LogTypeOK'
    BY <2>1 DEF IInv, LogTypeOK
  <2>3. \A r \in Requests : Untouched(r)
    BY <2>1 DEF Untouched
  <2>4. last_id <= last_id'
    BY <2>1 DEF IInv, LogTypeOK
  <2> DEFINE T == {}
  <2>5. T \in SUBSET Requests /\ \A r \in T : FALSE
    OBVIOUS
  <2> HIDE DEF T
  <2>6. lines \subseteq lines' /\ lines' \ lines = {} /\ level' = level
    BY <2>1
  <2> QED BY <2>2, <2>3, <2>4, <2>5, <2>6, StepAt
<1> QED BY <1>1, <1>2, <1>3, ArriveStep, CutShortStep, BeforeRequestStep, LookStep,
           CallStep, ClosedStep
        DEF LogNext

LEMMA Invariance == LogSpec => []IInv
BY InitInvariant, StepInvariant, PTL DEF LogSpec

-----------------------------------------------------------------------------
(* The types of the model.                                                 *)
THEOREM LogTypes == LogSpec => []LogTypeOK
BY Invariance, PTL DEF IInv

(* Calls can be followed through the log: the lines of a request have its  *)
(* ids, the last one too, which is logged when request and g are gone, and *)
(* those of a request that it made have its trace and name its span.       *)
THEOREM CallsAreAlwaysFollowed == LogSpec => []CallsAreFollowed
<1>1. IInv => CallsAreFollowed
  <2> SUFFICES ASSUME IInv, NEW l \in lines
               PROVE  /\ answer[l.request] # <<>> => ToSet(answer[l.request]) = {l.trace}
                      /\ \A m \in lines :
                           IF m.request = l.request
                           THEN /\ <<m.trace, m.span, m.parent>> = <<l.trace, l.span, l.parent>>
                                /\ {m.kind, l.kind} = {"took", "closed"} =>
                                     m.service = l.service
                           ELSE /\ m.span = l.span => l.span \in OutsideIds
                                /\ caller[m.request] = l.request =>
                                     m.trace = l.trace /\ m.parent = l.span
    BY DEF CallsAreFollowed
  <2>1. LineOK(l) /\ l.request \in Requests
    BY DEF IInv, LogTypeOK, LineRecords
  <2>2. answer[l.request] # <<>> => ToSet(answer[l.request]) = {l.trace}
    BY <2>1 DEF IInv, StageOK, LineOK
  <2>3. ASSUME NEW m \in lines
        PROVE  IF m.request = l.request
               THEN /\ <<m.trace, m.span, m.parent>> = <<l.trace, l.span, l.parent>>
                    /\ {m.kind, l.kind} = {"took", "closed"} => m.service = l.service
               ELSE /\ m.span = l.span => l.span \in OutsideIds
                    /\ caller[m.request] = l.request => m.trace = l.trace /\ m.parent = l.span
    <3>1. LineOK(m) /\ m.request \in Requests
      BY DEF IInv, LogTypeOK, LineRecords
    <3>2. CASE m.request = l.request
      BY <2>1, <3>1, <3>2 DEF LineOK
    <3>3. CASE m.request # l.request
      <4>1. SpanToBe(l.request) = l.span /\ SpanToBe(m.request) = m.span /\ l.span # NoId
        BY <2>1, <3>1 DEF LineOK, SpanToBe
      <4>2. m.span = l.span => l.span \in OutsideIds
        BY <2>1, <3>1, <3>3, <4>1 DEF IInv, SpansDiffer
      <4>3. ASSUME caller[m.request] = l.request
            PROVE  m.trace = l.trace /\ m.parent = l.span
        <5>1. caller[m.request] # NoId
          BY <2>1, <4>3, LogAssumption
        <5>2. /\ TraceToBe(m.request) = TraceOf(l.request)
              /\ ParentOf(m.request) = SpanOf(l.request)
          BY <3>1, <4>3, <5>1 DEF IInv, CallOK
        <5> QED BY <2>1, <3>1, <5>2 DEF LineOK, TraceToBe
      <4> QED BY <3>3, <4>2, <4>3
    <3> QED BY <3>2, <3>3
  <2> QED BY <2>2, <2>3
<1> QED BY <1>1, Invariance, PTL

(* Answers that failed are logged if warnings are, others, but on paths of *)
(* no interest, if information is; and when they are closed once more.     *)
THEOREM AnsweredIsAlwaysLogged == LogSpec => []AnsweredIsLogged
<1>1. IInv => AnsweredIsLogged
  <2> SUFFICES ASSUME IInv, NEW r \in Requests, baked[r].marked,
                      \/ baked[r].response.failed /\ level <= WARNING
                      \/ ~baked[r].response.quiet /\ level <= INFO
               PROVE  /\ Has(r, "took")
                      /\ baked[r].response.streamed /\ request[r].stage = "gone" =>
                           Has(r, "closed")
    BY DEF AnsweredIsLogged, Has
  <2>1. LevelOK(r) /\ LoggedOK(r) /\ level \in Int
    BY LogAssumption DEF IInv, LogTypeOK
  <2>2. level <= baked[r].level
    BY <2>1 DEF LevelOK, DEBUG, INFO, WARNING
  <2> QED BY <2>1, <2>2 DEF LoggedOK
<1> QED BY <1>1, Invariance, PTL

===============================================================================
