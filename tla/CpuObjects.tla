------------------------------ MODULE CpuObjects ------------------------------
(***************************************************************************)
(* What the bindings promise a program: processor objects that share       *)
(* nothing, and snapshots that hold a processor and its last tick.  There  *)
(* is no pool here, no pointer and no byte.                                *)
(***************************************************************************)
CONSTANTS
  Objects,    \* the objects a program creates
  Slots,      \* where it keeps its snapshots
  Created,    \* what an object may start with: a processor and its last tick
  Moves       \* of pairs of those: what one call may do to them

VARIABLES
  cpus,       \* an object's processor and last tick while it lives
  saved       \* the snapshots

Unborn     == [state |-> "unborn"]
Disposed   == [state |-> "disposed"]
NoSnapshot == [state |-> "none"]

Object(view)   == [state |-> "live", cpu |-> view.cpu, tick |-> view.tick]

Live(h) == cpus[h].state = "live"

Becomes(h, object) == cpus' = [cpus EXCEPT ![h] = object] /\ UNCHANGED saved

Create(h) == cpus[h] = Unborn /\ \E view \in Created : Becomes(h, Object(view))

\* What a call does to a processor, it does to that one only.
Drive(h) == \E move \in Moves : cpus[h] = Object(move[1]) /\ Becomes(h, Object(move[2]))

Save(h, k) ==
  Live(h) /\ saved' = [saved EXCEPT ![k] = cpus[h]] /\ UNCHANGED cpus

\* A snapshot from elsewhere, such as a file.
Import(k) ==
  /\ \E move \in Moves : saved' = [saved EXCEPT ![k] = Object(move[2])]
  /\ UNCHANGED cpus

Load(h, k) == Live(h) /\ saved[k] # NoSnapshot /\ Becomes(h, saved[k])

Dispose(h) == Live(h) /\ Becomes(h, Disposed)

\* The program drops a disposed object; the next one it creates may take its place.
Collect(h) == cpus[h] = Disposed /\ Becomes(h, Unborn)

Init ==
  /\ cpus = [h \in Objects |-> Unborn]
  /\ saved = [k \in Slots |-> NoSnapshot]

Next ==
  \/ \E h \in Objects : Create(h) \/ Drive(h) \/ Dispose(h) \/ Collect(h)
  \/ \E h \in Objects, k \in Slots : Save(h, k) \/ Load(h, k)
  \/ \E k \in Slots : Import(k)

Spec == Init /\ [][Next]_<<cpus, saved>>

=============================================================================
