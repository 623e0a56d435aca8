---------------------------- MODULE JsBindingProofs ----------------------------
(***************************************************************************)
(* The JavaScript binding is correct for every pool capacity, any number   *)
(* of objects and snapshots, and every processor.                          *)
(***************************************************************************)
EXTENDS JsBinding, SnapshotProofs, FiniteSetTheorems

\* The context pool works for every capacity: while a context is free, one can be taken, a context
\* in use can always be given back, and the free list and the flags stay in agreement.
Ready(p) == p \in Pool /\ p.context_pool_ready /\ ListMatchesFlags(p)

\* A context and its pointer are the same thing, and context_free accepts the pointer.
LEMMA Pointers ==
  ASSUME NEW i \in Contexts
  PROVE  /\ Pointer(i) \in Nat /\ Pointer(i) # null
         /\ Index(Pointer(i)) = i
         /\ PoolAddress <= Pointer(i) /\ Pointer(i) < Pointer(Capacity)
         /\ (Pointer(i) - PoolAddress) % ContextSize = 0
<1>1. Capacity \in Nat /\ PoolAddress \in Nat /\ PoolAddress > 0 /\ i \in Nat /\ i < Capacity
  BY CapacityAssumption, PoolAddressAssumption DEF Contexts
<1>2. Pointer(i) = PoolAddress + 64 * i /\ Pointer(Capacity) = PoolAddress + 64 * Capacity
  BY DEF Pointer, ContextSize
<1>3. Pointer(i) - PoolAddress = 64 * i
  BY <1>1, <1>2
<1>4. (64 * i) \div 64 = i /\ (64 * i) % 64 = 0
  BY <1>1
<1> QED BY <1>1, <1>2, <1>3, <1>4 DEF Index, ContextSize, null

\* Two slots never share an address: the pointer gives the slot away.
LEMMA PointersDiffer ==
  ASSUME NEW i \in Contexts, NEW j \in Contexts, Pointer(i) = Pointer(j)
  PROVE  i = j
BY Pointers

\* What reset leaves is ready, with every context free.
LEMMA Reset == Ready(context_pool_reset) /\ FreeContexts(context_pool_reset) = Contexts
<1> DEFINE p == context_pool_reset
<1>1. /\ p.free_contexts = [i \in Contexts |-> Pointer(i)]
      /\ p.is_context_free = [i \in Contexts |-> TRUE]
      /\ p.free_context_count = Capacity /\ p.context_pool_ready = TRUE
  BY DEF context_pool_reset
<1>2. p \in Pool
  BY Pointers, CapacityAssumption DEF context_pool_reset, Pool, Contexts
<1>3. FreeContexts(p) = Contexts
  BY <1>1 DEF FreeContexts
<1>4. 0..p.free_context_count - 1 = Contexts
  BY <1>1 DEF Contexts
<1>5. \A k \in Contexts : p.free_contexts[k] = Pointer(k)
  BY <1>1
<1>6. ListMatchesFlags(p)
  BY <1>3, <1>4, <1>5, PointersDiffer DEF ListMatchesFlags
<1> QED BY <1>1, <1>2, <1>3, <1>6 DEF Ready

-----------------------------------------------------------------------------
\* While the count is not zero, a context that was free is taken, and no other one.
LEMMA TakenFrom ==
  ASSUME NEW p, Ready(p), p.free_context_count # 0
  PROVE  \E i \in FreeContexts(p) :
           /\ Taken(p).ptr = Pointer(i)
           /\ Ready(Taken(p).pool)
           /\ FreeContexts(Taken(p).pool) = FreeContexts(p) \ {i}
<1> DEFINE last == p.free_context_count - 1
           new  == Taken(p).pool
<1>1. /\ p \in Pool /\ p.context_pool_ready /\ ListMatchesFlags(p)
      /\ p.free_contexts \in [Contexts -> Nat]
      /\ p.is_context_free \in [Contexts -> BOOLEAN]
      /\ p.free_context_count \in 0..Capacity
  BY DEF Ready, Pool
<1>2. Capacity \in Nat /\ last \in 0..last /\ last \in 0..Capacity
  BY <1>1, CapacityAssumption
<1>3. PICK i \in FreeContexts(p) : p.free_contexts[last] = Pointer(i)
  BY <1>1, <1>2 DEF ListMatchesFlags
<1>4. i \in Contexts /\ p.is_context_free[i]
  BY <1>3 DEF FreeContexts
<1>5. Taken(p).ptr = Pointer(i)
  BY <1>3 DEF Taken
<1>6. new = [p EXCEPT !.free_context_count = last,
                         !.is_context_free = [@ EXCEPT ![i] = FALSE]]
  BY <1>3, <1>4, Pointers DEF Taken
<1>7. /\ new \in Pool /\ new.free_contexts = p.free_contexts
      /\ new.is_context_free = [p.is_context_free EXCEPT ![i] = FALSE]
      /\ new.free_context_count = last /\ new.context_pool_ready
  <2>1. [p.is_context_free EXCEPT ![i] = FALSE] \in [Contexts -> BOOLEAN]
    BY <1>1
  <2>2. new = [ free_contexts |-> p.free_contexts,
                is_context_free |-> [p.is_context_free EXCEPT ![i] = FALSE],
                free_context_count |-> last, context_pool_ready |-> TRUE ]
    BY <1>1, <1>6 DEF Pool
  <2> HIDE DEF new
  <2> QED BY <1>1, <1>2, <2>1, <2>2 DEF Pool
<1> HIDE DEF new
<1>8. FreeContexts(new) = FreeContexts(p) \ {i}
  BY <1>1, <1>4, <1>7 DEF FreeContexts
<1>9. \A k \in 0..last : k \in 0..last - 1 \/ k = last
  BY <1>2
<1>10. 0..last - 1 \subseteq 0..last
  BY <1>2
<1>11. ListMatchesFlags(new)
  <2>1. \A k \in 0..last - 1 : \E j \in FreeContexts(new) : new.free_contexts[k] = Pointer(j)
    <3> SUFFICES ASSUME NEW k \in 0..last - 1
                 PROVE  \E j \in FreeContexts(new) : new.free_contexts[k] = Pointer(j)
      OBVIOUS
    <3>1. k \in 0..last /\ k # last
      BY <1>2
    <3>2. PICK j \in FreeContexts(p) : p.free_contexts[k] = Pointer(j)
      BY <1>1, <3>1 DEF ListMatchesFlags
    <3>3. j # i
      BY <1>1, <1>2, <1>3, <3>1, <3>2 DEF ListMatchesFlags
    <3> QED BY <1>7, <1>8, <3>2, <3>3
  <2>2. \A k, l \in 0..last - 1 : new.free_contexts[k] = new.free_contexts[l] => k = l
    BY <1>1, <1>7, <1>10 DEF ListMatchesFlags
  <2>3. \A j \in FreeContexts(new) : \E k \in 0..last - 1 : new.free_contexts[k] = Pointer(j)
    <3> SUFFICES ASSUME NEW j \in FreeContexts(new)
                 PROVE  \E k \in 0..last - 1 : new.free_contexts[k] = Pointer(j)
      OBVIOUS
    <3>1. j \in FreeContexts(p) /\ j # i /\ j \in Contexts
      BY <1>8 DEF FreeContexts
    <3>2. PICK k \in 0..last : p.free_contexts[k] = Pointer(j)
      BY <1>1, <3>1 DEF ListMatchesFlags
    <3>3. k # last
      BY <1>3, <1>4, <3>1, <3>2, PointersDiffer
    <3> QED BY <1>7, <1>9, <3>2, <3>3
  <2> QED BY <1>7, <2>1, <2>2, <2>3 DEF ListMatchesFlags
<1> QED BY <1>3, <1>5, <1>7, <1>8, <1>11 DEF Ready, new

\* A pool with a count of zero has no free context.
LEMMA Exhausted ==
  ASSUME NEW p, Ready(p), p.free_context_count = 0
  PROVE  FreeContexts(p) = {}
<1>1. 0..p.free_context_count - 1 = {}
  OBVIOUS
<1> QED BY <1>1 DEF Ready, ListMatchesFlags

\* While a context is in use, the free list has room for it.
LEMMA RoomForMore ==
  ASSUME NEW p, Ready(p), NEW i \in Contexts, i \notin FreeContexts(p)
  PROVE  p.free_context_count < Capacity
<1>1. /\ p \in Pool /\ ListMatchesFlags(p)
      /\ p.free_context_count \in 0..Capacity
  BY DEF Ready, Pool
<1>2. Capacity \in Nat
  BY CapacityAssumption
<1> SUFFICES ASSUME p.free_context_count = Capacity PROVE FALSE
  BY <1>1, <1>2
<1>3. 0..p.free_context_count - 1 = Contexts
  BY DEF Contexts
<1>4. IsFiniteSet(Contexts) /\ Cardinality(Contexts) = Capacity
  BY <1>2, CapacityAssumption, FS_Interval DEF Contexts
<1> DEFINE others == Contexts \ {i}
           listed == [k \in Contexts |-> Index(p.free_contexts[k])]
<1>5. IsFiniteSet(others) /\ Cardinality(others) = Capacity - 1
  BY <1>4, FS_RemoveElement
<1>6. \A k \in Contexts : \E j \in others : p.free_contexts[k] = Pointer(j) /\ listed[k] = j
  <2> SUFFICES ASSUME NEW k \in Contexts
               PROVE  \E j \in others : p.free_contexts[k] = Pointer(j) /\ listed[k] = j
    OBVIOUS
  <2>1. PICK j \in FreeContexts(p) : p.free_contexts[k] = Pointer(j)
    BY <1>1, <1>3 DEF ListMatchesFlags
  <2>2. j \in others
    BY <2>1 DEF FreeContexts
  <2> QED BY <2>1, <2>2, Pointers
<1>7. listed \in [Contexts -> others]
  BY <1>6
<1> HIDE DEF listed, others
<1>8. PICK k \in Contexts, l \in Contexts : k # l /\ listed[k] = listed[l]
  BY <1>2, <1>4, <1>5, <1>7, FS_PigeonHole
<1>9. p.free_contexts[k] = p.free_contexts[l]
  BY <1>6, <1>8
<1> QED BY <1>1, <1>3, <1>8, <1>9 DEF ListMatchesFlags

\* A context in use can be given back, and is then free.
LEMMA Freed ==
  ASSUME NEW p, Ready(p), NEW i \in Contexts, i \notin FreeContexts(p)
  PROVE  /\ Ready(context_free(p, Pointer(i)))
         /\ FreeContexts(context_free(p, Pointer(i))) = FreeContexts(p) \cup {i}
<1> DEFINE new   == context_free(p, Pointer(i))
           count == p.free_context_count
<1>1. /\ p \in Pool /\ p.context_pool_ready /\ ListMatchesFlags(p)
      /\ p.free_contexts \in [Contexts -> Nat]
      /\ p.is_context_free \in [Contexts -> BOOLEAN]
      /\ count \in 0..Capacity
  BY DEF Ready, Pool
<1>2. Capacity \in Nat /\ count < Capacity /\ count \in Contexts
  BY <1>1, CapacityAssumption, RoomForMore DEF Contexts
<1>3. Frees(p, Pointer(i))
  BY <1>1, <1>2, Pointers DEF Frees, FreeContexts
<1>4. new = [p EXCEPT !.free_contexts = [@ EXCEPT ![count] = Pointer(i)],
                         !.is_context_free = [@ EXCEPT ![i] = TRUE],
                         !.free_context_count = @ + 1]
  BY <1>3, Pointers DEF context_free
<1>5. /\ new \in Pool /\ new.context_pool_ready
      /\ new.free_contexts = [p.free_contexts EXCEPT ![count] = Pointer(i)]
      /\ new.is_context_free = [p.is_context_free EXCEPT ![i] = TRUE]
      /\ new.free_context_count = count + 1
  <2>1. /\ [p.is_context_free EXCEPT ![i] = TRUE] \in [Contexts -> BOOLEAN]
        /\ [p.free_contexts EXCEPT ![count] = Pointer(i)] \in [Contexts -> Nat]
        /\ count + 1 \in 0..Capacity
    BY <1>1, <1>2, Pointers
  <2>2. new = [ free_contexts |-> [p.free_contexts EXCEPT ![count] = Pointer(i)],
                is_context_free |-> [p.is_context_free EXCEPT ![i] = TRUE],
                free_context_count |-> count + 1, context_pool_ready |-> TRUE ]
    BY <1>1, <1>4 DEF Pool
  <2> HIDE DEF new
  <2> QED BY <2>1, <2>2 DEF Pool
<1> HIDE DEF new
<1>6. FreeContexts(new) = FreeContexts(p) \cup {i}
  BY <1>1, <1>5 DEF FreeContexts
<1>7. 0..new.free_context_count - 1 = 0..count
  BY <1>1, <1>5
<1>8. \A k \in 0..count : k = count \/ (k \in 0..count - 1 /\ k # count)
  BY <1>1
<1>9. /\ new.free_contexts[count] = Pointer(i)
      /\ \A k \in 0..count - 1 : k # count /\ new.free_contexts[k] = p.free_contexts[k]
  BY <1>1, <1>2, <1>5
<1>10. \A k \in 0..count - 1 :
         \E j \in FreeContexts(p) : new.free_contexts[k] = Pointer(j) /\ j # i /\ j \in Contexts
  BY <1>1, <1>9 DEF ListMatchesFlags, FreeContexts
<1>11. \A k \in 0..count - 1 : new.free_contexts[k] # new.free_contexts[count]
  BY <1>9, <1>10, PointersDiffer
<1>12. ListMatchesFlags(new)
  <2>1. \A k \in 0..count : \E j \in FreeContexts(new) : new.free_contexts[k] = Pointer(j)
    BY <1>6, <1>8, <1>9, <1>10
  <2>2. \A k, l \in 0..count : new.free_contexts[k] = new.free_contexts[l] => k = l
    BY <1>1, <1>8, <1>9, <1>11 DEF ListMatchesFlags
  <2>3. \A j \in FreeContexts(new) : \E k \in 0..count : new.free_contexts[k] = Pointer(j)
    <3>1. count \in 0..count /\ 0..count - 1 \subseteq 0..count
      BY <1>1
    <3>2. \A j \in FreeContexts(p) : \E k \in 0..count - 1 : new.free_contexts[k] = Pointer(j)
      BY <1>1, <1>9 DEF ListMatchesFlags
    <3> QED BY <1>6, <1>9, <3>1, <3>2
  <2> QED BY <1>7, <2>1, <2>2, <2>3 DEF ListMatchesFlags
<1> QED BY <1>5, <1>6, <1>12 DEF Ready, new

-----------------------------------------------------------------------------
\* What context_alloc can hand out: it resets a pool that nobody has.
Available(p) == IF p.context_pool_ready THEN FreeContexts(p) ELSE Contexts

\* An allocation takes a free slot, marks it in use and leaves every other context alone.
LEMMA Allocates ==
  ASSUME NEW p \in Pool, p.context_pool_ready => ListMatchesFlags(p)
  PROVE  LET new == context_alloc(p)
         IN  /\ Ready(new.pool)
             /\ \/ new.ptr = null /\ Available(new.pool) = Available(p)
                \/ \E i \in Available(p) :
                     new.ptr = Pointer(i) /\ Available(new.pool) = Available(p) \ {i}
<1> DEFINE ready == IF p.context_pool_ready THEN p ELSE context_pool_reset
<1>1. Ready(ready) /\ FreeContexts(ready) = Available(p)
  BY Reset DEF Ready, Available
<1>2. context_alloc(p) =
        IF ready.free_context_count = 0 THEN [ptr |-> null, pool |-> ready] ELSE Taken(ready)
  BY DEF context_alloc
<1>3. \A q : Ready(q) => Available(q) = FreeContexts(q)
  BY DEF Ready, Available
<1> HIDE DEF ready
<1>4. CASE ready.free_context_count = 0
  BY <1>1, <1>2, <1>3, <1>4
<1>5. CASE ready.free_context_count # 0
  BY <1>1, <1>2, <1>3, <1>5, TakenFrom
<1> QED BY <1>4, <1>5

\* A refusal leaves what is available as it was.
LEMMA Refuses ==
  ASSUME NEW p \in Pool, p.context_pool_ready => ListMatchesFlags(p),
         context_alloc(p).ptr = null
  PROVE  /\ Ready(context_alloc(p).pool)
         /\ Available(context_alloc(p).pool) = Available(p)
<1>1. \A i \in Available(p) : Pointer(i) # null
  BY Pointers DEF Available, FreeContexts
<1> QED BY <1>1, Allocates

\* Freeing a context that is in use makes it available, and no other one.
LEMMA GivesBack ==
  ASSUME NEW p, Ready(p), NEW i \in Contexts, i \notin Available(p)
  PROVE  /\ Ready(context_free(p, Pointer(i)))
         /\ Available(context_free(p, Pointer(i))) = Available(p) \cup {i}
BY Freed DEF Ready, Available

\* A context that is borrowed and given back leaves the others as they were.
LEMMA Borrows ==
  ASSUME NEW p \in Pool, p.context_pool_ready => ListMatchesFlags(p),
         context_alloc(p).ptr # null
  PROVE  LET new == context_alloc(p)
         IN  /\ Ready(context_free(new.pool, new.ptr))
             /\ Available(context_free(new.pool, new.ptr)) = Available(p)
             /\ \E i \in Available(p) : i \in Contexts /\ new.ptr = Pointer(i)
<1> DEFINE new == context_alloc(p)
<1>1. Ready(new.pool)
  BY Allocates
<1>2. PICK i \in Available(p) : new.ptr = Pointer(i) /\ Available(new.pool) = Available(p) \ {i}
  BY Allocates
<1>3. i \in Contexts
  BY DEF Available, FreeContexts
<1> QED BY <1>1, <1>2, <1>3, GivesBack

-----------------------------------------------------------------------------

Owns(h, i) == Live(h) /\ objects[h].ptr = Pointer(i)

\* A context cannot be allocated exactly while one object owns it, and then it is initialized.
Ownership ==
  /\ pool.context_pool_ready => ListMatchesFlags(pool)
  /\ \A i \in Contexts : i \in Available(pool) <=> \A h \in Objects : ~Owns(h, i)
  /\ \A g, h \in Objects : \A i \in Contexts : Owns(g, i) /\ Owns(h, i) => g = h
  /\ \A h \in Objects : \A i \in Contexts : Owns(h, i) => contents[i].holds = "context"

IInv == JTypeOK /\ Ownership

-----------------------------------------------------------------------------
\* The views and bytes that the actions build are well formed.
LEMMA SetupType ==
  ASSUME NEW model \in Models
  PROVE  qe6502abi_setup(model) \in AbiContext /\ qe6502_setup(model) \in Context
<1>1. model \in U8 /\ 0 \in U8 /\ 0 \in U16
  BY ModelsAssumption, Words DEF U8
<1>2. context_magic \in U16 /\ context_version \in U16
  BY Words DEF context_magic, context_version
<1> QED BY <1>1, <1>2 DEF qe6502abi_setup, qe6502_setup, AbiContext, Context

\* What a load leaves is a context, whatever bytes the buffer has.
LEMMA LoadType ==
  ASSUME NEW bytes \in SnapshotBytes
  PROVE  qe6502abi_load(bytes) \in AbiContext /\ qe6502abi_load_tick(bytes) \in U32
<1>1. \A i \in 0..63 : bytes[i] \in U8
  BY DEF SnapshotBytes, SnapshotSize
<1>2. \A i \in 0..62 : 256 * bytes[i] + bytes[i + 1] \in U16
  BY <1>1, Word
<1>3. \A i \in 0..62 : snapshot_read_u16(bytes, i) \in U16
  BY <1>2 DEF snapshot_read_u16
<1>4. snapshot_read_cpu(bytes, 4) \in Context
  BY <1>1, <1>3 DEF snapshot_read_cpu, Context
<1>5. snapshot_read_u32(bytes, 20) \in U32
  BY <1>3 DEF snapshot_read_u32, U32
<1> QED BY <1>3, <1>4, <1>5 DEF qe6502abi_load, qe6502abi_load_tick, AbiContext

\* What a save writes fills the snapshot with bytes.
LEMMA SaveType ==
  /\ \A c \in AbiContext, word \in U32 : qe6502abi_save(c, word) \in SnapshotBytes
  /\ \A cpu \in Context, tick \in Tick : qe6502_save(cpu, tick) \in SnapshotBytes
<1>1. \A c \in AbiContext : c.cpu \in Context /\ c.magic \in U16 /\ c.version \in U16
  BY DEF AbiContext
<1>2. context_magic \in U16 /\ context_version \in U16
  BY Words DEF context_magic, context_version
<1> QED BY <1>1, <1>2, ImageType, PackTick DEF qe6502abi_save, qe6502_save

\* What a snapshot holds is a context and a tick.
LEMMA ContentType ==
  /\ \A c \in AbiContext : Initialized(c) \in Contents
  /\ \A bytes \in SnapshotBytes : Bytes(bytes) \in Contents
BY DEF Contents, Initialized, Bytes

\* The tick of a fresh object.
LEMMA NoTick == <<0, 0>> \in U32
BY Words DEF U32

\* The states of an object, told apart.
LEMMA States ==
  ASSUME JTypeOK, NEW h \in Objects
  PROVE  /\ Live(h) <=> objects[h] \in Living
         /\ Live(h) => /\ objects[h].tick \in U32
                       /\ \E i \in Contexts : objects[h].ptr = Pointer(i)
         /\ objects[h] \in {Unborn, Disposed} => ~Live(h)
<1>1. objects[h] \in Living \cup {Unborn, Disposed}
  BY DEF JTypeOK
<1>2. Unborn.state # "live" /\ Disposed.state # "live"
  BY DEF Unborn, Disposed
<1>3. \A o \in Living : o.state = "live" /\ o.tick \in U32 /\ \E i \in Contexts : o.ptr = Pointer(i)
  BY DEF Living
<1> QED BY <1>1, <1>2, <1>3 DEF Live

\* A living object owns one context, and its processor is in it.
LEMMA Owner ==
  ASSUME IInv, NEW h \in Objects, Live(h)
  PROVE  \E i \in Contexts : /\ Owns(h, i) /\ objects[h].ptr = Pointer(i)
                             /\ Index(objects[h].ptr) = i /\ i \notin Available(pool)
                             /\ impl(h) = contents[i].impl /\ impl(h) \in AbiContext
<1>1. PICK i \in Contexts : objects[h].ptr = Pointer(i)
  BY States DEF IInv
<1>2. Owns(h, i) /\ Index(objects[h].ptr) = i /\ impl(h) = contents[i].impl
  BY <1>1, Pointers DEF Owns, impl
<1>3. i \notin Available(pool) /\ contents[i].holds = "context"
  BY <1>2 DEF IInv, Ownership
<1>4. contents[i] \in Contents
  BY DEF IInv, JTypeOK
<1>5. contents[i].impl \in AbiContext
  BY <1>3, <1>4 DEF Contents
<1> QED BY <1>1, <1>2, <1>3, <1>5

-----------------------------------------------------------------------------
\* A step that changes no owner and initializes what it writes, unless nobody owns it, is safe.
LEMMA SameOwners ==
  ASSUME IInv,
         pool'.context_pool_ready => ListMatchesFlags(pool'),
         Available(pool') = Available(pool),
         \A h \in Objects : \A i \in Contexts : Owns(h, i)' <=> Owns(h, i),
         \A i \in Contexts : \/ contents'[i] = contents[i] \/ contents'[i].holds = "context"
                            \/ i \in Available(pool)
  PROVE  Ownership'
<1>1. \A i \in Contexts : i \in Available(pool') <=> \A h \in Objects : ~Owns(h, i)'
  BY DEF IInv, Ownership
<1>2. \A g, h \in Objects : \A i \in Contexts : Owns(g, i)' /\ Owns(h, i)' => g = h
  BY DEF IInv, Ownership
<1>3. \A h \in Objects : \A i \in Contexts : Owns(h, i)' => contents'[i].holds = "context"
  BY DEF IInv, Ownership
<1> QED BY <1>1, <1>2, <1>3 DEF Ownership

\* Before the module is instantiated nobody owns anything.
LEMMA Initially == Init => IInv
<1> SUFFICES ASSUME Init PROVE IInv
  OBVIOUS
<1>1. pool \in Pool /\ ~pool.context_pool_ready
  <2>1. 0 \in 0..Capacity
    BY CapacityAssumption
  <2> QED BY <2>1 DEF Init, StaticPool, Pool, null
<1>2. Zeros \in Contents
  <2>1. 0 \in U8
    BY DEF U8
  <2>2. [i \in 0..SnapshotSize - 1 |-> 0] \in SnapshotBytes
    BY <2>1 DEF SnapshotBytes
  <2> QED BY <2>2, ContentType DEF Zeros
<1>3. JTypeOK
  BY <1>1, <1>2 DEF Init, JTypeOK
<1>4. \A h \in Objects : ~Live(h)
  BY DEF Init, Live, Unborn
<1>5. Ownership
  BY <1>1, <1>4 DEF Ownership, Owns, Available
<1> QED BY <1>3, <1>5 DEF IInv

\* An object that is created owns the context that was allocated for it.
LEMMA CreateCpuSafe == ASSUME IInv, NEW h \in Objects, CreateCpu(h) PROVE IInv'
<1> DEFINE new == context_alloc(pool)
<1>1. /\ JTypeOK /\ Ownership /\ pool \in Pool
      /\ pool.context_pool_ready => ListMatchesFlags(pool)
  BY DEF IInv, JTypeOK, Ownership
<1>2. objects[h] = Unborn /\ new.ptr # null /\ pool' = new.pool /\ saved' = saved
  BY DEF CreateCpu
<1>3. PICK i \in Available(pool) :
        new.ptr = Pointer(i) /\ Available(pool') = Available(pool) \ {i} /\ Ready(pool')
  BY <1>1, <1>2, Allocates
<1>4. i \in Contexts /\ Index(new.ptr) = i
  BY <1>3, Pointers DEF Available, FreeContexts
<1>5. PICK model \in Models :
        /\ contents' = [contents EXCEPT ![i] = Initialized(qe6502abi_setup(model))]
        /\ objects' = [objects EXCEPT ![h] = [state |-> "live", ptr |-> Pointer(i), tick |-> <<0, 0>>]]
  BY <1>3, <1>4 DEF CreateCpu, Put
<1>6. Initialized(qe6502abi_setup(model)) \in Contents
  BY SetupType, ContentType
<1>7. [state |-> "live", ptr |-> Pointer(i), tick |-> <<0, 0>>] \in Living
  BY <1>4, NoTick DEF Living
<1>8. JTypeOK'
  <2>1. pool' \in Pool
    BY <1>3 DEF Ready
  <2>2. contents' \in [Contexts -> Contents]
    BY <1>1, <1>5, <1>6 DEF JTypeOK
  <2>3. objects' \in [Objects -> Living \cup {Unborn, Disposed}]
    BY <1>1, <1>5, <1>7 DEF JTypeOK
  <2> QED BY <1>1, <1>2, <2>1, <2>2, <2>3 DEF JTypeOK
<1>9. ~Live(h)
  BY <1>2 DEF Live, Unborn
<1>10. /\ Live(h)' /\ objects'[h].ptr = Pointer(i)
       /\ \A g \in Objects \ {h} : objects'[g] = objects[g]
  BY <1>1, <1>5 DEF JTypeOK, Live
<1>11. \A g \in Objects : \A j \in Contexts :
         Owns(g, j)' <=> IF g = h THEN j = i ELSE Owns(g, j)
  BY <1>4, <1>10, PointersDiffer DEF Owns, Live
<1>12. \A g \in Objects : \A j \in Contexts : Owns(g, j) => g # h /\ j # i
  BY <1>1, <1>3, <1>9 DEF Owns, Ownership
<1>13. /\ contents'[i].holds = "context"
       /\ \A j \in Contexts \ {i} : contents'[j] = contents[j]
  BY <1>1, <1>4, <1>5 DEF JTypeOK, Initialized
<1>14. Ownership'
  <2>1. ListMatchesFlags(pool')
    BY <1>3 DEF Ready
  <2>2. \A j \in Contexts : j \in Available(pool') <=> \A g \in Objects : ~Owns(g, j)'
    BY <1>1, <1>3, <1>11, <1>12 DEF Ownership
  <2>3. \A f, g \in Objects : \A j \in Contexts : Owns(f, j)' /\ Owns(g, j)' => f = g
    BY <1>1, <1>11, <1>12 DEF Ownership
  <2>4. \A g \in Objects : \A j \in Contexts : Owns(g, j)' => contents'[j].holds = "context"
    BY <1>1, <1>11, <1>12, <1>13 DEF Ownership
  <2> QED BY <2>1, <2>2, <2>3, <2>4 DEF Ownership
<1> QED BY <1>8, <1>14 DEF IInv

\* An object that is disposed of gives its context back.
LEMMA DisposeSafe == ASSUME IInv, NEW h \in Objects, Dispose(h) PROVE IInv'
<1>1. /\ JTypeOK /\ Ownership /\ Live(h) /\ contents' = contents /\ saved' = saved
      /\ objects' = [objects EXCEPT ![h] = Disposed]
      /\ pool' = context_free(pool, objects[h].ptr)
  BY DEF IInv, Dispose
<1>2. PICK i \in Contexts : Owns(h, i) /\ objects[h].ptr = Pointer(i) /\ i \notin Available(pool)
  BY <1>1, Owner
<1>3. Ready(pool)
  BY <1>1, <1>2 DEF Available, Ready, Ownership, JTypeOK
<1>4. Ready(pool') /\ Available(pool') = Available(pool) \cup {i}
  BY <1>1, <1>2, <1>3, GivesBack
<1>5. JTypeOK'
  <2>1. pool' \in Pool
    BY <1>4 DEF Ready
  <2>2. objects' \in [Objects -> Living \cup {Unborn, Disposed}]
    BY <1>1 DEF JTypeOK
  <2> QED BY <1>1, <2>1, <2>2 DEF JTypeOK
<1>6. ~Live(h)' /\ \A g \in Objects \ {h} : objects'[g] = objects[g]
  BY <1>1 DEF JTypeOK, Live, Disposed
<1>7. \A g \in Objects : \A j \in Contexts : Owns(g, j)' <=> g # h /\ Owns(g, j)
  BY <1>6 DEF Owns, Live
<1>8. \A g \in Objects : Owns(g, i) => g = h
  BY <1>1, <1>2 DEF Ownership
<1>9. \A j \in Contexts : Owns(h, j) => j = i
  BY <1>2, PointersDiffer DEF Owns
<1>10. Ownership'
  <2>1. ListMatchesFlags(pool')
    BY <1>4 DEF Ready
  <2>2. \A j \in Contexts : j \in Available(pool') <=> \A g \in Objects : ~Owns(g, j)'
    BY <1>1, <1>4, <1>7, <1>8, <1>9 DEF Ownership
  <2>3. \A f, g \in Objects : \A j \in Contexts : Owns(f, j)' /\ Owns(g, j)' => f = g
    BY <1>1, <1>7 DEF Ownership
  <2>4. \A g \in Objects : \A j \in Contexts : Owns(g, j)' => contents'[j].holds = "context"
    BY <1>1, <1>7 DEF Ownership
  <2> QED BY <2>1, <2>2, <2>3, <2>4 DEF Ownership
<1> QED BY <1>5, <1>10 DEF IInv

\* What a call does to a processor, it does in the context of its object.
LEMMA DriveSafe == ASSUME IInv, NEW h \in Objects, Drive(h) PROVE IInv'
<1>1. /\ JTypeOK /\ Ownership /\ Live(h) /\ pool' = pool /\ saved' = saved
  BY DEF IInv, Drive
<1>2. PICK i \in Contexts :
        Owns(h, i) /\ Index(objects[h].ptr) = i /\ impl(h) = contents[i].impl /\ impl(h) \in AbiContext
  BY <1>1, Owner
<1>3. PICK move \in Moves :
        /\ contents' = [contents EXCEPT ![i] = Initialized([impl(h) EXCEPT !.cpu = move[2].cpu])]
        /\ objects' = [objects EXCEPT ![h].tick = pack_tick(move[2].tick)]
  BY <1>2 DEF Drive, Put
<1>4. move[2].cpu \in Context /\ move[2].tick \in Tick
  BY MovesAssumption DEF View
<1>5. Initialized([impl(h) EXCEPT !.cpu = move[2].cpu]) \in Contents
  BY <1>2, <1>4, ContentType DEF AbiContext
<1>6. objects[h] \in Living /\ pack_tick(move[2].tick) \in U32
  BY <1>1, <1>4, States, PackTick
<1>7. [objects[h] EXCEPT !.tick = pack_tick(move[2].tick)] \in Living
  BY <1>6 DEF Living
<1>8. JTypeOK'
  <2>1. contents' \in [Contexts -> Contents]
    BY <1>1, <1>3, <1>5 DEF JTypeOK
  <2>2. objects' = [objects EXCEPT ![h] = [objects[h] EXCEPT !.tick = pack_tick(move[2].tick)]]
    BY <1>3
  <2>3. objects' \in [Objects -> Living \cup {Unborn, Disposed}]
    BY <1>1, <1>7, <2>2 DEF JTypeOK
  <2> QED BY <1>1, <2>1, <2>3 DEF JTypeOK
<1>9. \A g \in Objects : objects'[g].state = objects[g].state /\ objects'[g].ptr = objects[g].ptr
  BY <1>1, <1>3, <1>6 DEF JTypeOK, Living
<1>10. \A g \in Objects : \A j \in Contexts : Owns(g, j)' <=> Owns(g, j)
  BY <1>9 DEF Owns, Live
<1>11. \A j \in Contexts : contents'[j] = contents[j] \/ contents'[j].holds = "context"
  BY <1>1, <1>3 DEF JTypeOK, Initialized
<1>12. Ownership'
  BY <1>1, <1>10, <1>11, SameOwners DEF Ownership
<1> QED BY <1>8, <1>12 DEF IInv

\* A snapshot is written where no object is.
LEMMA SaveSafe == ASSUME IInv, NEW h \in Objects, NEW k \in Slots, Save(h, k) PROVE IInv'
<1> DEFINE scratch == context_alloc(pool)
           bytes   == qe6502abi_save(impl(h), objects[h].tick)
<1>1. /\ JTypeOK /\ Ownership /\ Live(h) /\ scratch.ptr # null /\ objects' = objects
      /\ pool' = context_free(scratch.pool, scratch.ptr)
      /\ contents' = Put(scratch.ptr, Bytes(bytes))
      /\ saved' = [saved EXCEPT ![k] = Snapped(bytes)] \/ saved' = saved
  BY DEF IInv, Save
<1>2. PICK i \in Available(pool) : i \in Contexts /\ scratch.ptr = Pointer(i)
  BY <1>1, Borrows DEF JTypeOK, Ownership
<1>3. Ready(pool') /\ Available(pool') = Available(pool)
  BY <1>1, Borrows DEF JTypeOK, Ownership
<1>4. bytes \in SnapshotBytes
  BY <1>1, Owner, States, SaveType
<1> HIDE DEF bytes
<1>5. contents' = [contents EXCEPT ![i] = Bytes(bytes)]
  BY <1>1, <1>2, Pointers DEF Put
<1>6. JTypeOK'
  <2>1. pool' \in Pool
    BY <1>3 DEF Ready
  <2>2. contents' \in [Contexts -> Contents]
    BY <1>1, <1>4, <1>5, ContentType DEF JTypeOK
  <2>3. Snapped(bytes) \in Snapshots
    BY <1>4 DEF Snapped, Snapshots
  <2>4. saved' \in [Slots -> Snapshots \cup {NoSnapshot}]
    BY <1>1, <2>3 DEF JTypeOK
  <2> QED BY <1>1, <2>1, <2>2, <2>4 DEF JTypeOK
<1>7. \A g \in Objects : \A j \in Contexts : Owns(g, j)' <=> Owns(g, j)
  BY <1>1 DEF Owns, Live
<1>8. \A j \in Contexts : contents'[j] = contents[j] \/ j \in Available(pool)
  BY <1>1, <1>5 DEF JTypeOK
<1>9. Ownership'
  BY <1>3, <1>7, <1>8, SameOwners DEF Ready
<1> QED BY <1>6, <1>9 DEF IInv

\* A snapshot is loaded into the context of its object, by way of one that no object has.
LEMMA LoadSafe == ASSUME IInv, NEW h \in Objects, NEW k \in Slots, Load(h, k) PROVE IInv'
<1> DEFINE scratch == context_alloc(pool)
           bytes   == saved[k].bytes
<1>1. /\ JTypeOK /\ Ownership /\ Live(h) /\ scratch.ptr # null /\ saved' = saved
      /\ saved[k].state = "bytes"
      /\ pool' = context_free(scratch.pool, scratch.ptr)
      /\ contents' = [contents EXCEPT ![Index(scratch.ptr)] = Bytes(bytes),
                       ![Index(objects[h].ptr)] = Initialized(qe6502abi_load(bytes))]
      /\ objects' = [objects EXCEPT ![h].tick = qe6502abi_load_tick(bytes)]
  BY DEF IInv, Load
<1>2. PICK i \in Available(pool) : i \in Contexts /\ scratch.ptr = Pointer(i)
  BY <1>1, Borrows DEF JTypeOK, Ownership
<1>3. Ready(pool') /\ Available(pool') = Available(pool)
  BY <1>1, Borrows DEF JTypeOK, Ownership
<1>4. PICK own \in Contexts : Index(objects[h].ptr) = own
  BY <1>1, Owner
<1>5. bytes \in SnapshotBytes
  BY <1>1 DEF JTypeOK, Snapshots, NoSnapshot
<1> HIDE DEF bytes
<1>6. /\ Bytes(bytes) \in Contents
      /\ Initialized(qe6502abi_load(bytes)) \in Contents
      /\ qe6502abi_load_tick(bytes) \in U32
  BY <1>5, LoadType, ContentType
<1>7. contents' = [contents EXCEPT ![i] = Bytes(bytes),
                                   ![own] = Initialized(qe6502abi_load(bytes))]
  BY <1>1, <1>2, <1>4, Pointers
<1>8. objects[h] \in Living
  BY <1>1, States
<1>9. [objects[h] EXCEPT !.tick = qe6502abi_load_tick(bytes)] \in Living
  BY <1>6, <1>8 DEF Living
<1>10. JTypeOK'
  <2>1. pool' \in Pool
    BY <1>3 DEF Ready
  <2>2. contents' \in [Contexts -> Contents]
    BY <1>1, <1>6, <1>7 DEF JTypeOK
  <2>3. objects' = [objects EXCEPT ![h] = [objects[h] EXCEPT !.tick = qe6502abi_load_tick(bytes)]]
    BY <1>1
  <2>4. objects' \in [Objects -> Living \cup {Unborn, Disposed}]
    BY <1>1, <1>9, <2>3 DEF JTypeOK
  <2> QED BY <1>1, <2>1, <2>2, <2>4 DEF JTypeOK
<1>11. \A g \in Objects : objects'[g].state = objects[g].state /\ objects'[g].ptr = objects[g].ptr
  BY <1>1, <1>8 DEF JTypeOK, Living
<1>12. \A g \in Objects : \A j \in Contexts : Owns(g, j)' <=> Owns(g, j)
  BY <1>11 DEF Owns, Live
<1>13. \A j \in Contexts : \/ contents'[j] = contents[j] \/ contents'[j].holds = "context"
                          \/ j \in Available(pool)
  BY <1>1, <1>2, <1>4, <1>7 DEF JTypeOK, Initialized
<1>14. Ownership'
  BY <1>3, <1>12, <1>13, SameOwners DEF Ready
<1> QED BY <1>10, <1>14 DEF IInv

\* The steps that leave every object and every context alone.
LEMMA PoolSafe ==
  ASSUME IInv, pool' \in Pool, pool'.context_pool_ready => ListMatchesFlags(pool'),
         Available(pool') = Available(pool), UNCHANGED <<contents, objects>>,
         saved' \in [Slots -> Snapshots \cup {NoSnapshot}]
  PROVE  IInv'
<1>1. JTypeOK'
  BY DEF IInv, JTypeOK
<1>2. \A g \in Objects : \A j \in Contexts : Owns(g, j)' <=> Owns(g, j)
  BY DEF Owns, Live
<1>3. Ownership'
  BY <1>2, SameOwners
<1> QED BY <1>1, <1>3 DEF IInv

\* A new instance starts with an empty pool.
LEMMA InstantiateSafe == ASSUME IInv, Instantiate PROVE IInv'
<1>1. JTypeOK /\ ~pool.context_pool_ready /\ pool' = context_pool_reset
  BY DEF IInv, Instantiate
<1>2. Ready(pool') /\ FreeContexts(pool') = Contexts
  BY <1>1, Reset
<1> QED BY <1>1, <1>2, PoolSafe DEF Instantiate, Ready, Available, JTypeOK

\* Where the pool is exhausted, createCpu throws and nothing changes.
LEMMA CreateCpuThrowsSafe == ASSUME IInv, CreateCpuThrows PROVE IInv'
<1> DEFINE new == context_alloc(pool)
<1>1. /\ JTypeOK /\ Ownership /\ UNCHANGED <<contents, objects, saved>>
      /\ pool' = IF new.ptr = null THEN new.pool ELSE context_free(new.pool, new.ptr)
  BY DEF IInv, CreateCpuThrows
<1>2. pool \in Pool /\ (pool.context_pool_ready => ListMatchesFlags(pool))
  BY <1>1 DEF JTypeOK, Ownership
<1>3. CASE new.ptr = null
  <2>1. Ready(pool') /\ Available(pool') = Available(pool)
    BY <1>1, <1>2, <1>3, Refuses
  <2> QED BY <1>1, <2>1, PoolSafe DEF Ready, JTypeOK
<1>4. CASE new.ptr # null
  <2>1. Ready(pool') /\ Available(pool') = Available(pool)
    BY <1>1, <1>2, <1>4, Borrows
  <2> QED BY <1>1, <2>1, PoolSafe DEF Ready, JTypeOK
<1> QED BY <1>3, <1>4

\* Where there is no context left for the scratch, save and load throw and nothing changes.
LEMMA SnapshotThrowsSafe == ASSUME IInv, NEW h \in Objects, SnapshotThrows(h) PROVE IInv'
<1>1. /\ JTypeOK /\ Ownership /\ UNCHANGED <<contents, objects, saved>>
      /\ context_alloc(pool).ptr = null /\ pool' = context_alloc(pool).pool
  BY DEF IInv, SnapshotThrows
<1>2. Ready(pool') /\ Available(pool') = Available(pool)
  BY <1>1, Refuses DEF JTypeOK, Ownership
<1> QED BY <1>1, <1>2, PoolSafe DEF Ready, JTypeOK

\* Bytes from elsewhere go into a snapshot, not into the pool.
LEMMA ImportSafe == ASSUME IInv, NEW k \in Slots, Import(k) PROVE IInv'
<1>1. JTypeOK /\ Ownership /\ UNCHANGED <<pool, contents, objects>>
  BY DEF IInv, Import
<1>2. PICK move \in Moves :
        saved' = [saved EXCEPT ![k] = Snapped(qe6502_save(move[2].cpu, move[2].tick))]
  BY DEF Import
<1>3. Snapped(qe6502_save(move[2].cpu, move[2].tick)) \in Snapshots
  BY MovesAssumption, SaveType DEF View, Snapped, Snapshots
<1>4. saved' \in [Slots -> Snapshots \cup {NoSnapshot}]
  BY <1>1, <1>2, <1>3 DEF JTypeOK
<1> QED BY <1>1, <1>4, PoolSafe DEF JTypeOK, Ownership

\* A collected object keeps its context: that leak gives nothing to a second owner.
LEMMA CollectSafe == ASSUME IInv, NEW h \in Objects, Collect(h) PROVE IInv'
<1>1. /\ JTypeOK /\ Ownership /\ UNCHANGED <<pool, contents, saved>>
      /\ objects[h] = Disposed /\ objects' = [objects EXCEPT ![h] = Unborn]
  BY DEF IInv, Collect
<1>2. JTypeOK'
  BY <1>1 DEF JTypeOK
<1>3. /\ objects[h].state # "live" /\ objects'[h].state # "live"
      /\ \A g \in Objects \ {h} : objects'[g] = objects[g]
  BY <1>1 DEF JTypeOK, Unborn, Disposed
<1>4. \A g \in Objects : \A j \in Contexts : Owns(g, j)' <=> Owns(g, j)
  BY <1>3 DEF Owns, Live
<1>5. Ownership'
  BY <1>1, <1>4, SameOwners DEF Ownership
<1> QED BY <1>2, <1>5 DEF IInv

\* The invariant is inductive: one case for each action.
LEMMA Inductive == IInv /\ [Next]_vars => IInv'
<1> SUFFICES ASSUME IInv, [Next]_vars PROVE IInv'
  OBVIOUS
<1>1. CASE UNCHANGED vars
  BY <1>1, PoolSafe DEF vars, IInv, JTypeOK, Ownership
<1>2. CASE Instantiate
  BY <1>2, InstantiateSafe
<1>3. CASE CreateCpuThrows
  BY <1>3, CreateCpuThrowsSafe
<1>4. CASE \E h \in Objects :
             CreateCpu(h) \/ Drive(h) \/ SnapshotThrows(h) \/ Dispose(h) \/ Collect(h)
  BY <1>4, CreateCpuSafe, DriveSafe, SnapshotThrowsSafe, DisposeSafe, CollectSafe
<1>5. CASE \E h \in Objects, k \in Slots : Save(h, k) \/ Load(h, k)
  BY <1>5, SaveSafe, LoadSafe
<1>6. CASE \E k \in Slots : Import(k)
  BY <1>6, ImportSafe
<1> QED BY <1>1, <1>2, <1>3, <1>4, <1>5, <1>6 DEF Next

\* It holds in every behaviour of the binding.
LEMMA InvariantAlways == Spec => []IInv
  BY Initially, Inductive, PTL DEF Spec

-----------------------------------------------------------------------------
\* Contexts, objects and snapshots stay well formed: 64 bytes of a snapshot are never used as a
\* context, and an object that is not alive has no pointer.
THEOREM TypeAlways == Spec => []JTypeOK
<1>1. IInv => JTypeOK  BY DEF IInv
<1> QED  BY <1>1, InvariantAlways, PTL

\* Whatever fails on the way, no context is lost and none has two owners.
THEOREM OneOwnerAlways == Spec => []EveryContextHasOneOwner
<1>1. IInv => EveryContextHasOneOwner
  <2> SUFFICES ASSUME IInv, pool.context_pool_ready PROVE EveryContextHasOneOwner
    BY DEF EveryContextHasOneOwner
  <2>1. Ownership /\ Available(pool) = FreeContexts(pool)
    BY DEF IInv, Available
  <2>2. \A h \in Objects : Live(h) => Index(objects[h].ptr) \notin FreeContexts(pool)
    BY <2>1, Owner
  <2>3. \A g, h \in Objects : Live(g) /\ Live(h) /\ objects[g].ptr = objects[h].ptr => g = h
    BY <2>1, Owner DEF Ownership, Owns
  <2>4. \A i \in Contexts \ FreeContexts(pool) :
          \E h \in Objects : Live(h) /\ objects[h].ptr = Pointer(i)
    BY <2>1 DEF Ownership, Owns
  <2> QED BY <2>1, <2>2, <2>3, <2>4 DEF EveryContextHasOneOwner, Ownership
<1> QED  BY <1>1, InvariantAlways, PTL

-----------------------------------------------------------------------------
\* An object whose fields and context do not change looks the same.
LEMMA SameView ==
  ASSUME IInv, NEW g \in Objects, objects'[g] = objects[g],
         \A j \in Contexts \ Available(pool) : Owns(g, j) => contents'[j] = contents[j]
  PROVE  ViewOf(g)' = ViewOf(g)
<1>1. CASE Live(g)
  <2>1. PICK j \in Contexts : Owns(g, j) /\ Index(objects[g].ptr) = j /\ j \notin Available(pool)
    BY <1>1, Owner
  <2>2. contents'[Index(objects'[g].ptr)] = contents[Index(objects[g].ptr)]
    BY <2>1
  <2> QED BY <1>1, <2>2 DEF ViewOf, Live, impl
<1>2. CASE ~Live(g)
  BY <1>2 DEF ViewOf, Live
<1> QED BY <1>1, <1>2

\* A step in which only h changes is one in which the view of h becomes another.
LEMMA OneView ==
  ASSUME NEW h \in Objects, \A g \in Objects \ {h} : ViewOf(g)' = ViewOf(g)
  PROVE  ObjectViews' = [ObjectViews EXCEPT ![h] = ViewOf(h)']
BY DEF ObjectViews

\* An unborn object has no view.
LEMMA NoView ==
  ASSUME \A g \in Objects : ViewOf(g)' = ViewOf(g)
  PROVE  ObjectViews' = ObjectViews
BY DEF ObjectViews

\* A slot without a snapshot has no view.
LEMMA NoSavedView ==
  ASSUME saved' = saved
  PROVE  SavedViews' = SavedViews
BY DEF SavedViews, SavedView

\* Storing a snapshot changes its slot only, as the abstract module sees it.
LEMMA OneSavedView ==
  ASSUME JTypeOK, NEW k \in Slots, NEW bytes, saved' = [saved EXCEPT ![k] = Snapped(bytes)]
  PROVE  SavedViews' = [SavedViews EXCEPT ![k] = C!Object(qe6502_load(bytes))]
<1>1. saved'[k] = Snapped(bytes) /\ \A l \in Slots \ {k} : saved'[l] = saved[l]
  BY DEF JTypeOK
<1>2. SavedView(k)' = C!Object(qe6502_load(bytes))
  BY <1>1 DEF SavedView, Snapped, C!Object
<1>3. \A l \in Slots \ {k} : SavedView(l)' = SavedView(l)
  BY <1>1 DEF SavedView
<1> QED BY <1>2, <1>3 DEF SavedViews

\* What the program sees of a living object.
LEMMA LiveView ==
  ASSUME IInv, NEW h \in Objects, Live(h)
  PROVE  /\ ObjectViews[h] = C!Object([cpu |-> impl(h).cpu, tick |-> unpack_tick(objects[h].tick)])
         /\ C!Live(h)
<1>1. ObjectViews[h] = [state |-> "live", cpu |-> impl(h).cpu, tick |-> unpack_tick(objects[h].tick)]
  BY DEF ObjectViews, ViewOf
<1> QED BY <1>1 DEF C!Object, C!Live

\* Objects and snapshots start as the promise says.
LEMMA InitImplements == Init => C!Init
<1> SUFFICES ASSUME Init PROVE C!Init
  OBVIOUS
<1>1. \A h \in Objects : ViewOf(h) = C!Unborn
  BY DEF Init, ViewOf, Live, Unborn, C!Unborn
<1>2. \A k \in Slots : SavedView(k) = C!NoSnapshot
  BY DEF Init, SavedView, NoSnapshot, C!NoSnapshot
<1> QED BY <1>1, <1>2 DEF C!Init, ObjectViews, SavedViews

\* createCpu is Create.
LEMMA CreateCpuCreates == ASSUME IInv, NEW h \in Objects, CreateCpu(h) PROVE C!Create(h)
<1> DEFINE new == context_alloc(pool)
<1>1. /\ JTypeOK /\ Ownership /\ objects[h] = Unborn /\ new.ptr # null /\ saved' = saved
  BY DEF IInv, CreateCpu
<1>2. PICK i \in Available(pool) : i \in Contexts /\ new.ptr = Pointer(i)
  BY <1>1, Borrows DEF JTypeOK, Ownership
<1>3. PICK model \in Models :
        /\ contents' = [contents EXCEPT ![i] = Initialized(qe6502abi_setup(model))]
        /\ objects' = [objects EXCEPT ![h] = [state |-> "live", ptr |-> new.ptr, tick |-> <<0, 0>>]]
  BY <1>2, Pointers DEF CreateCpu, Put
<1> DEFINE view == [cpu |-> qe6502_setup(model), tick |-> unpack_tick(<<0, 0>>)]
<1>4. ObjectViews[h] = C!Unborn
  BY <1>1 DEF ObjectViews, ViewOf, Live, Unborn, C!Unborn
<1>5. ViewOf(h)' = C!Object(view)
  <2>1. /\ objects'[h] = [state |-> "live", ptr |-> new.ptr, tick |-> <<0, 0>>]
        /\ contents'[Index(new.ptr)] = Initialized(qe6502abi_setup(model))
    BY <1>1, <1>2, <1>3, Pointers DEF JTypeOK
  <2>2. Initialized(qe6502abi_setup(model)).impl.cpu = qe6502_setup(model)
    BY DEF Initialized, qe6502abi_setup
  <2> QED BY <2>1, <2>2 DEF ViewOf, Live, impl, C!Object
<1>6. \A g \in Objects \ {h} : ViewOf(g)' = ViewOf(g)
  <2>1. \A g \in Objects \ {h} : objects'[g] = objects[g]
    BY <1>1, <1>3 DEF JTypeOK
  <2>2. \A j \in Contexts \ Available(pool) : contents'[j] = contents[j]
    BY <1>1, <1>3 DEF JTypeOK
  <2> QED BY <2>1, <2>2, SameView
<1>7. C!Becomes(h, C!Object(view))
  BY <1>1, <1>5, <1>6, OneView, NoSavedView DEF C!Becomes
<1>8. view \in NewViews
  BY DEF NewViews
<1> QED BY <1>4, <1>7, <1>8 DEF C!Create

\* A call that drives the processor is Drive: it shows in one object only.
LEMMA DriveDrives == ASSUME IInv, NEW h \in Objects, Drive(h) PROVE C!Drive(h)
<1>1. /\ JTypeOK /\ Ownership /\ Live(h) /\ saved' = saved
  BY DEF IInv, Drive
<1>2. PICK i \in Contexts :
        Owns(h, i) /\ Index(objects[h].ptr) = i /\ i \notin Available(pool) /\ impl(h) \in AbiContext
  BY <1>1, Owner
<1>3. PICK move \in Moves :
        /\ move[1] = [cpu |-> impl(h).cpu, tick |-> unpack_tick(objects[h].tick)]
        /\ contents' = [contents EXCEPT ![i] = Initialized([impl(h) EXCEPT !.cpu = move[2].cpu])]
        /\ objects' = [objects EXCEPT ![h].tick = pack_tick(move[2].tick)]
  BY <1>2 DEF Drive, Put
<1>4. move[2].tick \in Tick
  BY MovesAssumption DEF View
<1>5. ObjectViews[h] = C!Object(move[1])
  BY <1>1, <1>3, LiveView
<1>6. ViewOf(h)' = C!Object(move[2])
  <2>1. objects[h] \in Living
    BY <1>1, States
  <2>2. /\ objects'[h].state = "live" /\ objects'[h].ptr = objects[h].ptr
        /\ objects'[h].tick = pack_tick(move[2].tick)
    BY <1>1, <1>3, <2>1 DEF JTypeOK, Living
  <2>3. contents'[i] = Initialized([impl(h) EXCEPT !.cpu = move[2].cpu])
    BY <1>1, <1>3 DEF JTypeOK
  <2>4. contents'[i].impl.cpu = move[2].cpu
    BY <1>2, <2>3 DEF Initialized, AbiContext
  <2>5. unpack_tick(objects'[h].tick) = move[2].tick
    BY <1>4, <2>2, PackTick
  <2> QED BY <1>2, <2>2, <2>4, <2>5 DEF ViewOf, Live, impl, C!Object
<1>7. \A g \in Objects \ {h} : ViewOf(g)' = ViewOf(g)
  <2>1. \A g \in Objects \ {h} : objects'[g] = objects[g]
    BY <1>1, <1>3 DEF JTypeOK
  <2>2. \A g \in Objects \ {h} : \A j \in Contexts : Owns(g, j) => contents'[j] = contents[j]
    BY <1>1, <1>2, <1>3 DEF JTypeOK, Ownership
  <2> QED BY <2>1, <2>2, SameView
<1> QED BY <1>1, <1>5, <1>6, <1>7, OneView, NoSavedView DEF C!Drive, C!Becomes

\* A snapshot shows the processor and the tick it was taken of, or the step fails and nothing is seen.
LEMMA SaveSaves ==
  ASSUME IInv, NEW h \in Objects, NEW k \in Slots, Save(h, k)
  PROVE  C!Save(h, k) \/ UNCHANGED <<ObjectViews, SavedViews>>
<1> DEFINE scratch == context_alloc(pool)
           bytes   == qe6502abi_save(impl(h), objects[h].tick)
<1>1. /\ JTypeOK /\ Ownership /\ Live(h) /\ scratch.ptr # null /\ objects' = objects
      /\ contents' = Put(scratch.ptr, Bytes(bytes))
      /\ saved' = [saved EXCEPT ![k] = Snapped(bytes)] \/ saved' = saved
  BY DEF IInv, Save
<1>2. PICK i \in Available(pool) : i \in Contexts /\ scratch.ptr = Pointer(i)
  BY <1>1, Borrows DEF JTypeOK, Ownership
<1>3. contents' = [contents EXCEPT ![i] = Bytes(bytes)]
  BY <1>1, <1>2, Pointers DEF Put
<1>4. ObjectViews' = ObjectViews
  <2>1. \A j \in Contexts \ Available(pool) : contents'[j] = contents[j]
    BY <1>1, <1>3 DEF JTypeOK
  <2>2. \A g \in Objects : ViewOf(g)' = ViewOf(g)
    BY <1>1, <2>1, SameView
  <2> QED BY <2>2, NoView
<1>5. CASE saved' = saved
  BY <1>4, <1>5, NoSavedView
<1>6. CASE saved' = [saved EXCEPT ![k] = Snapped(bytes)]
  <2>1. impl(h) \in AbiContext /\ objects[h].tick \in U32
    BY <1>1, Owner, States
  <2>2. /\ impl(h).cpu \in Context /\ impl(h).magic \in U16 /\ impl(h).version \in U16
    BY <2>1 DEF AbiContext
  <2>3. qe6502_load(bytes) = [cpu |-> impl(h).cpu, tick |-> unpack_tick(objects[h].tick)]
    BY <2>1, <2>2, ReadCpu, ReadWords DEF qe6502_load, qe6502abi_save
  <2> HIDE DEF bytes
  <2>4. SavedViews' = [SavedViews EXCEPT ![k] = C!Object(qe6502_load(bytes))]
    BY <1>1, <1>6, OneSavedView
  <2>5. C!Live(h) /\ ObjectViews[h] = C!Object(qe6502_load(bytes))
    BY <1>1, <2>3, LiveView
  <2> QED BY <1>4, <2>4, <2>5 DEF C!Save
<1> QED BY <1>1, <1>5, <1>6

\* An object that loads a snapshot looks like the snapshot, and no other object changes.
LEMMA LoadLoads ==
  ASSUME IInv, NEW h \in Objects, NEW k \in Slots, Load(h, k) PROVE C!Load(h, k)
<1> DEFINE scratch == context_alloc(pool)
           bytes   == saved[k].bytes
<1>1. /\ JTypeOK /\ Ownership /\ Live(h) /\ scratch.ptr # null /\ saved' = saved
      /\ saved[k].state = "bytes"
      /\ contents' = [contents EXCEPT ![Index(scratch.ptr)] = Bytes(bytes),
                       ![Index(objects[h].ptr)] = Initialized(qe6502abi_load(bytes))]
      /\ objects' = [objects EXCEPT ![h].tick = qe6502abi_load_tick(bytes)]
  BY DEF IInv, Load
<1>2. PICK i \in Available(pool) : i \in Contexts /\ scratch.ptr = Pointer(i)
  BY <1>1, Borrows DEF JTypeOK, Ownership
<1>3. PICK own \in Contexts :
        Owns(h, own) /\ Index(objects[h].ptr) = own /\ own \notin Available(pool)
  BY <1>1, Owner
<1>4. contents' = [contents EXCEPT ![i] = Bytes(bytes),
                                   ![own] = Initialized(qe6502abi_load(bytes))]
  BY <1>1, <1>2, <1>3, Pointers
<1>5. SavedViews[k] = C!Object(qe6502_load(bytes)) /\ SavedViews[k] # C!NoSnapshot
  BY <1>1 DEF SavedViews, SavedView, C!Object, C!NoSnapshot
<1>6. ViewOf(h)' = C!Object(qe6502_load(bytes))
  <2>1. objects[h] \in Living
    BY <1>1, States
  <2>2. /\ objects'[h].state = "live" /\ objects'[h].ptr = objects[h].ptr
        /\ objects'[h].tick = qe6502abi_load_tick(bytes)
    BY <1>1, <2>1 DEF JTypeOK, Living
  <2>3. contents'[own].impl = qe6502abi_load(bytes)
    BY <1>1, <1>4 DEF JTypeOK, Initialized
  <2>4. /\ qe6502abi_load(bytes).cpu = qe6502_load(bytes).cpu
        /\ unpack_tick(qe6502abi_load_tick(bytes)) = qe6502_load(bytes).tick
    BY DEF qe6502abi_load, qe6502abi_load_tick, qe6502_load
  <2> HIDE DEF bytes
  <2> QED BY <1>3, <2>2, <2>3, <2>4 DEF ViewOf, Live, impl, C!Object
<1>7. \A g \in Objects \ {h} : ViewOf(g)' = ViewOf(g)
  <2>1. \A g \in Objects \ {h} : objects'[g] = objects[g]
    BY <1>1 DEF JTypeOK
  <2>2. \A g \in Objects \ {h} : \A j \in Contexts \ Available(pool) :
          Owns(g, j) => contents'[j] = contents[j]
    BY <1>1, <1>2, <1>3, <1>4 DEF JTypeOK, Ownership
  <2> QED BY <2>1, <2>2, SameView
<1>8. C!Live(h)
  BY <1>1, LiveView
<1> QED BY <1>1, <1>5, <1>6, <1>7, <1>8, OneView, NoSavedView DEF C!Load, C!Becomes

\* Bytes that come from elsewhere are Import.
LEMMA ImportImports == ASSUME IInv, NEW k \in Slots, Import(k) PROVE C!Import(k)
<1>1. JTypeOK /\ UNCHANGED <<pool, contents, objects>>
  BY DEF IInv, Import
<1>2. PICK move \in Moves :
        saved' = [saved EXCEPT ![k] = Snapped(qe6502_save(move[2].cpu, move[2].tick))]
  BY DEF Import
<1>3. qe6502_load(qe6502_save(move[2].cpu, move[2].tick)) = [cpu |-> move[2].cpu, tick |-> move[2].tick]
  BY MovesAssumption, NativeRoundTrip DEF View
<1>4. SavedViews' =
        [SavedViews EXCEPT ![k] = C!Object([cpu |-> move[2].cpu, tick |-> move[2].tick])]
  BY <1>1, <1>2, <1>3, OneSavedView
<1>5. C!Object([cpu |-> move[2].cpu, tick |-> move[2].tick]) = C!Object(move[2])
  BY DEF C!Object
<1>6. ObjectViews' = ObjectViews
  BY <1>1, SameView, NoView
<1> QED BY <1>4, <1>5, <1>6 DEF C!Import

\* An object that is gone is seen to be gone.
LEMMA DisposeDisposes == ASSUME IInv, NEW h \in Objects, Dispose(h) PROVE C!Dispose(h)
<1>1. /\ JTypeOK /\ Live(h) /\ contents' = contents /\ saved' = saved
      /\ objects' = [objects EXCEPT ![h] = Disposed]
  BY DEF IInv, Dispose
<1>2. ViewOf(h)' = C!Disposed
  BY <1>1 DEF JTypeOK, ViewOf, Live, Disposed, C!Disposed
<1>3. \A g \in Objects \ {h} : ViewOf(g)' = ViewOf(g)
  BY <1>1, SameView DEF JTypeOK
<1> QED BY <1>1, <1>2, <1>3, LiveView, OneView, NoSavedView DEF C!Dispose, C!Becomes

\* The garbage collector is Collect.
LEMMA CollectCollects == ASSUME IInv, NEW h \in Objects, Collect(h) PROVE C!Collect(h)
<1>1. /\ JTypeOK /\ contents' = contents /\ saved' = saved
      /\ objects[h] = Disposed /\ objects' = [objects EXCEPT ![h] = Unborn]
  BY DEF IInv, Collect
<1>2. ViewOf(h)' = C!Unborn
  BY <1>1 DEF JTypeOK, ViewOf, Live, Unborn, C!Unborn
<1>3. ObjectViews[h] = C!Disposed
  BY <1>1 DEF ObjectViews, ViewOf, Live, Disposed, C!Disposed
<1>4. \A g \in Objects \ {h} : ViewOf(g)' = ViewOf(g)
  BY <1>1, SameView DEF JTypeOK
<1> QED BY <1>1, <1>2, <1>3, <1>4, OneView, NoSavedView DEF C!Collect, C!Becomes

\* Each step of the binding is a step of CpuObjects or none.
LEMMA NextImplements ==
  IInv /\ [Next]_vars => [C!Next]_<<ObjectViews, SavedViews>>
<1> SUFFICES ASSUME IInv, [Next]_vars PROVE C!Next \/ UNCHANGED <<ObjectViews, SavedViews>>
  OBVIOUS
<1>1. ASSUME UNCHANGED <<contents, objects, saved>> PROVE UNCHANGED <<ObjectViews, SavedViews>>
  BY <1>1, SameView, NoView, NoSavedView
<1>2. CASE UNCHANGED vars \/ Instantiate \/ CreateCpuThrows \/ \E h \in Objects : SnapshotThrows(h)
  BY <1>1, <1>2 DEF vars, Instantiate, CreateCpuThrows, SnapshotThrows
<1>3. CASE \E h \in Objects : CreateCpu(h) \/ Drive(h) \/ Dispose(h) \/ Collect(h)
  BY <1>3, CreateCpuCreates, DriveDrives, DisposeDisposes, CollectCollects DEF C!Next
<1>4. CASE \E h \in Objects, k \in Slots : Save(h, k) \/ Load(h, k)
  BY <1>4, SaveSaves, LoadLoads DEF C!Next
<1>5. CASE \E k \in Slots : Import(k)
  BY <1>5, ImportImports DEF C!Next
<1> QED BY <1>2, <1>3, <1>4, <1>5 DEF Next

\* Objects share nothing through the pool, and a snapshot brings back the processor and the tick
\* that were saved, whatever else happened in between.
THEOREM Implements == Spec => ImplementsCpuObjects
<1>1. Init => C!Init
  BY InitImplements
<1>2. IInv /\ [Next]_vars => [C!Next]_<<ObjectViews, SavedViews>>
  BY NextImplements
<1> QED BY <1>1, <1>2, InvariantAlways, PTL DEF Spec, ImplementsCpuObjects, C!Spec

=============================================================================
