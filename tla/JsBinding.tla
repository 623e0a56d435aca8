------------------------------ MODULE JsBinding ------------------------------
(***************************************************************************)
(* The JavaScript binding: the objects of src/binds/js/qe6502.js on the    *)
(* context pool of qe6502_js.c.  Each object owns one context; save and    *)
(* load borrow another one for the bytes of the snapshot and give it back. *)
(*                                                                         *)
(* Calls are synchronous, so each is one action.  A call on a disposed     *)
(* object throws before it changes anything, and is no step here.          *)
(***************************************************************************)
EXTENDS ContextPool, Snapshot

CONSTANTS
  Objects,    \* the objects a program creates
  Slots,      \* where it keeps its snapshots
  Models,     \* the models it asks for
  Moves       \* what one call does to a processor and its last tick: pairs of views

VARIABLES
  pool,       \* of qe6502_js.c
  contents,   \* the 64 bytes of each of its contexts
  objects,    \* the private fields of each Qe6502Cpu
  saved       \* the snapshots the program holds

vars == <<pool, contents, objects, saved>>

\* A processor and its last tick, as the program sees them.
View == [cpu : Context, tick : Tick]

ASSUME MovesAssumption  == Moves \subseteq View \X View
ASSUME ModelsAssumption == Models \subseteq U8

Unborn     == [state |-> "unborn", ptr |-> null, tick |-> <<0, 0>>]
Disposed   == [state |-> "disposed", ptr |-> null, tick |-> <<0, 0>>]
NoSnapshot == [state |-> "none"]
Snapped(bytes) == [state |-> "bytes", bytes |-> bytes]

\* A context holds an initialized ABI context or the bytes of a snapshot; at first zeros.
Initialized(impl) == [holds |-> "context", impl |-> impl]
Bytes(bytes)      == [holds |-> "snapshot", bytes |-> bytes]
Zeros == Bytes([i \in 0..SnapshotSize - 1 |-> 0])

Live(h) == objects[h].state = "live"
impl(h) == contents[Index(objects[h].ptr)].impl

Put(ptr, content) == [contents EXCEPT ![Index(ptr)] = content]

-----------------------------------------------------------------------------
\* loadQe6502Node and loadQe6502Browser reset the pool before the program gets at it; a Qe6502 made
\* from the exports alone leaves that to the first context_alloc.
Instantiate ==
  /\ ~pool.context_pool_ready
  /\ pool' = context_pool_reset
  /\ UNCHANGED <<contents, objects, saved>>

\* createCpu: for a model that is none, the context goes back before the error is thrown.
CreateCpu(h) ==
  LET new == context_alloc(pool)
  IN  /\ objects[h] = Unborn /\ new.ptr # null
      /\ \E model \in Models :
           /\ contents' = Put(new.ptr, Initialized(qe6502abi_setup(model)))
           /\ objects' = [objects EXCEPT ![h] = [state |-> "live", ptr |-> new.ptr, tick |-> <<0, 0>>]]
      /\ pool' = new.pool
      /\ UNCHANGED saved

CreateCpuThrows ==
  LET new == context_alloc(pool)
  IN  /\ pool' = IF new.ptr = null THEN new.pool ELSE context_free(new.pool, new.ptr)
      /\ UNCHANGED <<contents, objects, saved>>

\* tick, restart, jumpTo, the pins and the setters: the ABI call changes the context of the object,
\* and the tick it returns is kept.
Drive(h) ==
  /\ Live(h)
  /\ \E move \in Moves :
       /\ move[1] = [cpu |-> impl(h).cpu, tick |-> unpack_tick(objects[h].tick)]
       /\ contents' = Put(objects[h].ptr, Initialized([impl(h) EXCEPT !.cpu = move[2].cpu]))
       /\ objects' = [objects EXCEPT ![h].tick = pack_tick(move[2].tick)]
  /\ UNCHANGED <<pool, saved>>

-----------------------------------------------------------------------------
\* The snapshot is written to a scratch context, copied, and the scratch context freed whether the
\* copy succeeded or threw. The object's own context is read before the scratch one is written.
SaveLeaksMutant(h, k) ==
  LET scratch == context_alloc(pool)
  IN  /\ Live(h) /\ scratch.ptr # null
      /\ LET bytes == qe6502abi_save(impl(h), objects[h].tick)
         IN  /\ contents' = Put(scratch.ptr, Bytes(bytes))
             /\ \/ saved' = [saved EXCEPT ![k] = Snapped(bytes)]
                   /\ pool' = context_free(scratch.pool, scratch.ptr)
                \/ UNCHANGED saved /\ pool' = scratch.pool
      /\ UNCHANGED objects

Save(h, k) ==
  LET scratch == context_alloc(pool)
  IN  /\ Live(h) /\ scratch.ptr # null
      /\ LET bytes == qe6502abi_save(impl(h), objects[h].tick)
         IN  /\ contents' = Put(scratch.ptr, Bytes(bytes))
             /\ \/ saved' = [saved EXCEPT ![k] = Snapped(bytes)]
                \/ UNCHANGED saved
      /\ pool' = context_free(scratch.pool, scratch.ptr)
      /\ UNCHANGED objects

Load(h, k) ==
  LET scratch == context_alloc(pool)
  IN  /\ Live(h) /\ saved[k].state = "bytes" /\ scratch.ptr # null
      /\ LET bytes == saved[k].bytes
         IN  /\ contents' = [contents EXCEPT ![Index(scratch.ptr)] = Bytes(bytes),
                               ![Index(objects[h].ptr)] = Initialized(qe6502abi_load(bytes))]
             /\ objects' = [objects EXCEPT ![h].tick = qe6502abi_load_tick(bytes)]
      /\ pool' = context_free(scratch.pool, scratch.ptr)
      /\ UNCHANGED saved

\* With no context left, both throw.
SnapshotThrows(h) ==
  /\ Live(h) /\ context_alloc(pool).ptr = null
  /\ pool' = context_alloc(pool).pool
  /\ UNCHANGED <<contents, objects, saved>>

\* A snapshot that a program using the native API wrote.
Import(k) ==
  /\ \E move \in Moves :
       saved' = [saved EXCEPT ![k] = Snapped(qe6502_save(move[2].cpu, move[2].tick))]
  /\ UNCHANGED <<pool, contents, objects>>

DisposesTwiceMutant(h) ==
  /\ objects[h].ptr # null
  /\ pool' = context_free(pool, objects[h].ptr)
  /\ objects' = [objects EXCEPT ![h].state = "disposed"]
  /\ UNCHANGED <<contents, saved>>

Dispose(h) ==
  /\ Live(h)
  /\ pool' = context_free(pool, objects[h].ptr)
  /\ objects' = [objects EXCEPT ![h] = Disposed]
  /\ UNCHANGED <<contents, saved>>

\* The program drops a disposed object.
Collect(h) ==
  /\ objects[h] = Disposed
  /\ objects' = [objects EXCEPT ![h] = Unborn]
  /\ UNCHANGED <<pool, contents, saved>>

Init ==
  /\ pool = StaticPool
  /\ contents = [i \in Contexts |-> Zeros]
  /\ objects = [h \in Objects |-> Unborn]
  /\ saved = [k \in Slots |-> NoSnapshot]

Next ==
  \/ Instantiate \/ CreateCpuThrows
  \/ \E h \in Objects : CreateCpu(h) \/ Drive(h) \/ SnapshotThrows(h) \/ Dispose(h) \/ Collect(h)
  \/ \E h \in Objects, k \in Slots : Save(h, k) \/ Load(h, k)
  \/ \E k \in Slots : Import(k)

Spec == Init /\ [][Next]_vars

-----------------------------------------------------------------------------
Contents == [holds : {"context"}, impl : AbiContext] \cup [holds : {"snapshot"}, bytes : SnapshotBytes]
Living   == [state : {"live"}, ptr : {Pointer(i) : i \in Contexts}, tick : U32]
Snapshots == [state : {"bytes"}, bytes : SnapshotBytes]

JTypeOK ==
  /\ pool \in Pool
  /\ contents \in [Contexts -> Contents]
  /\ objects \in [Objects -> Living \cup {Unborn, Disposed}]
  /\ saved \in [Slots -> Snapshots \cup {NoSnapshot}]

\* The pool never loses a context and never hands one out twice: its free list and its flags
\* agree, and every context that is not free is that of exactly one living object.
EveryContextHasOneOwner ==
  pool.context_pool_ready =>
    /\ ListMatchesFlags(pool)
    /\ \A h \in Objects : Live(h) => Index(objects[h].ptr) \notin FreeContexts(pool)
    /\ \A g, h \in Objects : Live(g) /\ Live(h) /\ objects[g].ptr = objects[h].ptr => g = h
    /\ \A i \in Contexts \ FreeContexts(pool) :
         \E h \in Objects : Live(h) /\ objects[h].ptr = Pointer(i)

\* Objects share nothing, and snapshots hold what was saved: the binding implements CpuObjects.
ViewOf(h) ==
  IF Live(h)
  THEN [state |-> "live", cpu |-> impl(h).cpu, tick |-> unpack_tick(objects[h].tick)]
  ELSE [state |-> objects[h].state]

SavedView(k) ==
  IF saved[k].state = "bytes"
  THEN LET loaded == qe6502_load(saved[k].bytes)
       IN  [state |-> "live", cpu |-> loaded.cpu, tick |-> loaded.tick]
  ELSE NoSnapshot

ObjectViews == [h \in Objects |-> ViewOf(h)]
SavedViews  == [k \in Slots |-> SavedView(k)]

NewViews ==
  {[cpu |-> qe6502_setup(model), tick |-> unpack_tick(<<0, 0>>)] : model \in Models}

C == INSTANCE CpuObjects WITH Created <- NewViews, cpus <- ObjectViews, saved <- SavedViews

ImplementsCpuObjects == C!Spec

=============================================================================
