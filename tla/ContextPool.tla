----------------------------- MODULE ContextPool -----------------------------
(***************************************************************************)
(* The pool that the JavaScript binding takes its ABI contexts from        *)
(* (src/binds/js/qe6502_js.c): an array of contexts, a stack of pointers   *)
(* to the free ones, and a flag for each that says whether it is free.     *)
(***************************************************************************)
EXTENDS Integers, FiniteSets

CONSTANTS
  Capacity,      \* QE6502JS_CONTEXT_POOL_CAPACITY
  PoolAddress    \* of the first context in the memory of the module

\* The pool is not empty (a static assertion of the code), and no context is at address 0.
ASSUME CapacityAssumption == Capacity \in Nat \ {0}
ASSUME PoolAddressAssumption == PoolAddress \in Nat \ {0}

ContextSize == 64
Contexts == 0..Capacity - 1

Pointer(i) == PoolAddress + ContextSize * i
Index(ctx) == (ctx - PoolAddress) \div ContextSize

null == 0

Pool ==
  [ free_contexts : [Contexts -> Nat], is_context_free : [Contexts -> BOOLEAN],
    free_context_count : 0..Capacity, context_pool_ready : BOOLEAN ]

\* Statically initialized: everything is zero.
StaticPool ==
  [ free_contexts |-> [i \in Contexts |-> null], is_context_free |-> [i \in Contexts |-> FALSE],
    free_context_count |-> 0, context_pool_ready |-> FALSE ]

-----------------------------------------------------------------------------
\* Each function returns the pool it leaves; context_alloc also a pointer, or null.
context_pool_reset ==
  [ free_contexts |-> [i \in Contexts |-> Pointer(i)], is_context_free |-> [i \in Contexts |-> TRUE],
    free_context_count |-> Capacity, context_pool_ready |-> TRUE ]

Taken(pool) ==
  LET last == pool.free_context_count - 1
      ctx  == pool.free_contexts[last]
  IN  [ ptr |-> ctx,
        pool |-> [pool EXCEPT !.free_context_count = last,
                              !.is_context_free = [@ EXCEPT ![Index(ctx)] = FALSE]] ]

context_alloc(pool) ==
  LET ready == IF pool.context_pool_ready THEN pool ELSE context_pool_reset
  IN  IF ready.free_context_count = 0 THEN [ptr |-> null, pool |-> ready] ELSE Taken(ready)

\* What context_free insists on before it gives ctx back.
Frees(pool, ctx) ==
  /\ pool.context_pool_ready
  /\ ctx # null
  /\ PoolAddress <= ctx /\ ctx < Pointer(Capacity)
  /\ (ctx - PoolAddress) % ContextSize = 0
  /\ ~pool.is_context_free[Index(ctx)]
  /\ pool.free_context_count < Capacity

context_free(pool, ctx) ==
  IF Frees(pool, ctx)
  THEN [pool EXCEPT !.free_contexts = [@ EXCEPT ![pool.free_context_count] = ctx],
                    !.is_context_free = [@ EXCEPT ![Index(ctx)] = TRUE],
                    !.free_context_count = @ + 1]
  ELSE pool

-----------------------------------------------------------------------------
FreeContexts(pool) == {i \in Contexts : pool.is_context_free[i]}

\* The free list holds exactly the contexts that are flagged free, each of them once.
ListMatchesFlags(pool) ==
  LET listed == 0..pool.free_context_count - 1
  IN  /\ \A k \in listed : \E i \in FreeContexts(pool) : pool.free_contexts[k] = Pointer(i)
      /\ \A k, l \in listed : pool.free_contexts[k] = pool.free_contexts[l] => k = l
      /\ \A i \in FreeContexts(pool) : \E k \in listed : pool.free_contexts[k] = Pointer(i)

=============================================================================
