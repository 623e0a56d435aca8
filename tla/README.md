# A TLA+ verification of the qe6502 core

qe6502 emulates the 6502 family one bus cycle at a time. `qe6502_tick` runs one microcode handler,
returns the bus access of that cycle and moves on; the host answers the access and may, between any
two ticks, move the NMI and IRQ pins, reset the processor, redirect it, change its model or its
flags, or save and restore it. What is hard about such a core is not any one handler. It is that
the interrupt unit is spread over some two hundred of them, that interrupts meet an instruction at
every cycle, that the resolver of interrupts is switched off whenever it seems to have nothing to
do, and that the host may call at every cycle; and that an instruction is no place in the code but
what some handlers of a table add up to. That is what is modelled here, with the layers around the
core that keep state of their own: snapshots, the objects of the JavaScript binding, and the
harnesses that set one scenario after another up on the same processor.

Contents: [the system](#the-system) · [modules](#modules) · [what is abstracted](#what-is-abstracted)
· [properties](#properties) · [runs](#runs) · [findings](#findings) · [proofs](#proofs) ·
[not modelled](#what-is-not-modelled) · [plan](#plan)

## The system

| component | where | state | operations | what makes it correct |
|---|---|---|---|---|
| control store | `cpu/src/control_store/*_block.inc` | none: 5 models × 264 slots × 8 entries | looked up by the microcode index | no call sequence reaches an empty entry; every instruction ends in a fetch and a dispatch; interrupt entries have the frame the processor pushes |
| sequencer | `cpu/src/qe6502.c`, `qe6502.h:234` | `model`, `microcode`, `latch_data`, `service_mode` | `qe6502_tick`, `qe6502_setup`, `qe6502_restart`, `qe6502_goto`, `qe6502_set_model` | indices moved by decrement-before-increment and by skips land where they should; a jam and a reset last as long as they should; the two bodies of `qe6502_tick` agree |
| interrupt unit | `cpu/src/qe6502.c:480-580`, the entry handlers at 820-960 | the eight bits of `interrupts`, flags I and D | `qe6502_nmi_assert`, `qe6502_irq_assert`, the resolver, `prefetch` and every handler that touches the bits | every NMI edge is serviced once, IRQ by level and the I flag at the poll; nothing is serviced that was not asked for |
| data path: ALU | `cpu/src/qe6502.c:179-480` and the `op_` handlers | A, X, Y, S, P | the handlers that compute | binary and decimal sums are sums; flags |
| data path: addressing | `cpu/src/qe6502.c:585-1880` | PC, `latch_addr`, `latch_data` | the handlers that form addresses | from fetch to fetch the handlers of a slot add up to one instruction, in its number of cycles, with wrap-around and page crossing where the processor has them |
| snapshots | `cpu/src/qe6502.c:2607-2760, 3093-3109` | none: 64 bytes | `qe6502_save`, `qe6502_load`, `qe6502abi_save`, `qe6502abi_load` | a restored processor is the saved one, whichever API saved it |
| stable ABI | `qe6502_abi.h` | an opaque context, the tick packed in 32 bits | forwards to the native API | packing loses nothing |
| JavaScript binding | `binds/js/qe6502_js.c`, `qe6502.js` | a pool of contexts (free list, a free flag per slot); per object a pointer, the last tick, `disposed` | `createCpu`, the calls, `save`, `load`, `dispose` | objects are independent; no context is handed out twice or lost, also where a call fails |
| other bindings | `binds/` (C++, C#, Java, Python, Rust) | one context per object | forward to the ABI | – |
| single-step harness | `harness/singlestep/main.cpp` | a processor, a cycle counter | set up, jump, tick to the next fetch | ends for every opcode |
| pulse sweep on the lockstep runner | `harness/cpu6502_lockstep/`, `tools/lockstep/` | a backend (processor and memory), the phase of its setup, a patch of saved bytes | set up through a bootstrap, restart hard if that fails, run with a pulse on a pin | each scenario starts from the same state, whatever the last one left |
| assembler, test programs | `tools/asm6502/`, `tools/common/` | symbols, the place counter | commands, the passes of `compile_to_map` | programs execute from the instruction under test to their trap |
| other harnesses, build | `harness/`, `tools/`, CMake | – | – | they test the rest |

**How they interact.** Everything is sequential: one host thread calls one context. What
interleaves is the *order of calls*: pins and flags move between any two ticks, so an instruction
of up to eight cycles sees a change at each of them. Inside a tick, the order is fixed:

1. outside service mode, the handler at `microcode` runs and the index is incremented;
2. in service mode `interrupt_resolver` (`qe6502.c:522`) first samples NMI (unless sampling is off),
   remembers P, runs the handler, increments, and then *either* takes the poll that the handler asked
   for (`prefetch`, in the last but one cycle) with the remembered I flag, *or*, on an opcode fetch,
   enters the interrupt a poll has chosen, *and* otherwise leaves service mode if nothing is left to
   watch;
3. `mc_dispatch` runs a second handler in the same tick, the first one of the opcode on the bus.

Control and data meet in every tick. The control decides the handler; the handler reads the bus byte
and the registers, returns an access, and by a page crossing, a branch condition, a decimal operand,
the opcode or the pulled status byte decides the control of the next one. Around the core, objects of
the JavaScript binding share the pool and nothing else; the sweep hands one backend from scenario to
scenario, with what the last program, pulse or jam has left in it.

**The hard behaviours** (with their lines in `PROJECT.json`, "hazards"): a condition forgotten in the
exit from service mode disables interrupts silently; a poll left over from the fast path; pins that
move between the poll, the fetch and the dispatch; two polls in one instruction; the NMOS sequences
that change slots half way; the NMOS window without sampling; indices one off; a change of model or
of D in the middle of an instruction; loops that might starve an interrupt; a PC
increment put off to a handler that a skipped cycle leaves out; a bus byte used after a write, where
hosts differ in what it is; a save or load that fails half way for want of a second context; a setup
that gives up and starts over on a jammed processor.

## Modules

| module | what it is |
|---|---|
| `ControlStore` | The control store of all five models, entry for entry. A slot is written by its *class* (the names of the classes are those of the comments in the `.inc` files) and the rows of opcodes list classes. Beginnings and endings that several classes share are factored out. |
| `Qe6502Core` | The sequencer and the interrupt unit: `cpu` is the `qe6502_t` context, `tick` the last result. One operator per helper of the C code (`SampleNmi`, `FindActiveInterrupt`, `NextEnterServiceSlot`, `Prefetch`, ...), `Effect(h, c)` for what handler `h` does, `InterruptResolver` and `FastPath` for the two bodies of `qe6502_tick`, one action per API call. The control store is a *constant*, so theorems hold for any. |
| `InterruptHistory` | EXTENDS the core with an observer of pins and bus: the line at the last tick, whether an NMI edge is owed service, what the polls of this instruction call for, how many ticks and writes since the last fetch. It restricts nothing the core does, and its edge detector samples on every tick, independently of the core's. Its next-state relation is the core's without `set_model`. |
| `AlwaysInService` | The abstract specification: a processor that is always in service mode. No fast path, no mode, no poll left pending. |
| `FastPath` | The core, and the refinement mapping under which it implements `AlwaysInService`: `FastPathTransparent`. |
| `ControlFlow` | The control flow of the microcode: for each handler its arcs (`Arcs`: how many entries it skips, where else it may go, its bus cycle, whether it may poll), and eight assumptions that say, index by index, what a control store must look like. |
| `Qe6502CoreProofs`, `FastPathProofs`, `ControlFlowProofs`, `InterruptHistoryProofs` | Theorems about `Qe6502Core`, `FastPath`, the core on a store as `ControlFlow` demands, and `InterruptHistory`, and their proofs. |
| `MCInstances`, `MCQe6502`, `MCHistory`, `MCFastPath` | Constants for TLC, and the three specifications joined with the control store. |
| `Alu` | The arithmetic of `qe6502.c:179-480` on bytes: binary and the four decimal forms, ARR, the shifts, the flags, and which form each model takes. |
| `Arithmetic` | What sums and differences are, of bytes and of decimal digits, without the way the processor computes them. |
| `Operations` | What each mnemonic does to registers and data, on `Alu`; what a branch tests. |
| `DataPath` | `Handle`: what each microcode handler does to PC, the registers, the latches and the bus, for every handler of the control store, at full width. |
| `Mnemonics` | The mnemonic and addressing mode of each opcode of each model. |
| `Machine` | The whole processor: `Qe6502Core` and `DataPath` run the same handler in the same tick, and what the control leaves open (`TickOutcomes`) the data decide (`Agrees`). With it a memory, and `arch`: the registers at the last instruction boundary and the ticks since. |
| `DataFlow` | What the data path expects of the control store and of what the hosts put into a memory: six assumptions, beside those of `ControlFlow`. |
| `DataPathProofs`, `ExecutionProofs` | Theorems about `Alu` and `DataPath`, and about the whole machine with its hosts, and their proofs. |
| `InstructionSet` | The abstract specification of the processor: an instruction, an interrupt or a reset is *one* step, by addressing-mode formulas and a cycle count. No microcode, no latch, no bus. |
| `Memory` | Memories as functions with a default, patches, little-endian words. |
| `Asm6502`, `Testcases` | The assembler: commands, and the passes of `compile_to_map`; and the source's 340 test programs, written with its commands, by opcode. |
| `SingleStep`, `Lockstep`, `Execution` | Two hosts of `Machine`: the single-step harness, and the pulse sweep on the lockstep runner; and their properties together. |
| `Snapshot` | The 64 bytes of a snapshot, written and read by both APIs, and the packed tick. |
| `ContextPool` | The C side of the JavaScript binding: `context_alloc`, `context_free` and their list. |
| `JsBinding` | The JavaScript side on it: the life of `Qe6502Cpu` objects, their `save` and `load` through a borrowed context, and each of their failures. What the processor does in a call is left to a constant (`Moves`). |
| `CpuObjects` | Its abstract specification: objects that *are* processors, snapshots that *are* processors. |
| `SnapshotProofs`, `JsBindingProofs` | Theorems about snapshots, and about the pool and the binding on it, and their proofs. |
| `MCExecution`, `MCJsBinding` | Constants for TLC. |

State and code correspond one to one: the fields of `Cpu` carry the names of `qe6502_t`, and the
fields from `sampling` on are the bits of `interrupts` (`nmi_inv_pin` is `nmi_pin`, TRUE for
asserted; `nmi_inv_last_sampled_pin` is `nmi_last`; the rest keep their names). `IDX` is
`QE6502_IDX`; the slots above 255 are `service_slot_t`.

In `Machine`, `regs` holds the fields of `qe6502_t` that the core leaves out, `bus` the address, byte
and reset bit of the last `qe6502_tick_t`; `job` is the state of the harness that drives it. In
`JsBinding`, `pool` is the static state of `qe6502_js.c`, `contents` what the memory of its slots
holds, and `objects` the private fields of `Qe6502Cpu`.

Definitions named `...Mutant` stand before the definition they distort. They are plausible mistakes
(a dropped condition, a decrement too many, a sampled level in place of an edge), and for each
property there is one that breaks it in the very run that checks it. No specification uses them.

## What is abstracted

In the modules of the interrupt unit:

* **Registers, addresses and bus data.** Where a handler branches on them, every outcome is possible:
  a page crossing, a branch condition, the opcode on the bus (any of `Opcodes`), the I and D of a
  status byte from the stack. The I and D flags stay exact, as interrupts and decimal cycles read
  them. `latch_data` is kept only where it counts (internal reset); everywhere else it is data.
* **Handlers that differ only in data share a name** in `ControlStore`: `op_adc_r_..._fetch`,
  `op_and_r_..._fetch` are all `exec_fetch`. `PlainReads`, `PlainWrites` and `PlainFetches` list the
  handlers that touch nothing of what is modelled.
* **`qe6502_tick_t`** is its status, and whether `prefetch` ran in it (an observation the properties
  need; nothing in the core depends on it). The internal reset bit of the status is not modelled.
* The index is an integer; it is never near the end of its 16 bits (`HandlerExists`).
* **Bounds.** The state is finite. The only bound is `MaxSince = 9` in the observer, at which its two
  counters saturate: instructions are at most eight ticks long, so saturation means "too long".

The correspondence was also tested against the library: 62,000 different transitions (the control
state before and after a tick or a host call, all models) that the compiled `qe6502.c` made on random
memories, under random pins, flags, restarts and gotos, are all transitions of `Qe6502Core`.

In `Machine` nothing of that is left out: registers, latches, addresses and memory have their width and
their values, and where the control model has a choice the data path makes it. That the two descriptions
of a handler fit together is no statement about the code and not listed as one: a tick in which they do
not would be a deadlock in `execution`, or a step that `ImplementsInstructionSet` refuses. Left out there,
and in the modules around it:

* **Memory** is a function on the addresses that were written; the rest reads as zero.
* **The lockstep runner** is modelled for one backend. The netlist simulation it compares with is
  external; what it says matters only in whether a comparison fails, and it may fail once in a sweep,
  at any cycle of the pulses in `FailingPulses`. Reports and files are left out, and what the code does
  when a setup fails twice (`SetupSucceeds` says it does not).
* **The assembler** has the commands, symbols and errors that the test programs use. Its listings,
  warnings and C++ interface are left out. One divergence of a comment in `asm6502.h:77-84`, on
  forward symbols, from `org` with a name does not touch the programs and is only noted.
* **Contents in the JavaScript binding.** A context is what was saved or moved into it, with the real
  encoding in between, so that a snapshot is 64 bytes; which values occur is the constant `Moves`.

The correspondence was tested against the compiled sources: `Machine`, tick by tick, against
`qe6502.c` on random memories, pins and models; the bytes of all 340 programs against the assembler's;
and the traces of `Lockstep` (with the bootstrap bound below) against the real
`LockstepScenarioRunner`, for 13 programs under 12 pulses.

## Properties

In `Qe6502Core`, for every call sequence:

* `TypeOK` – the type invariant.
* `FastPathIdle` – outside service mode nothing is left for the resolver: no latched edge, no
  asserted IRQ, no unsampled NMI, nothing chosen. Every handler and host call has to keep it.
* `NoStalePoll` – in service mode no poll is pending between calls: `prefetch` on the fast path leaves
  its bit set, and the pin calls must clear it, or the first tick after them polls in a cycle that is
  not a polling cycle.
* `OneTaken` – NMI and IRQ are never chosen together.
* `ChosenEntersAtFetch` – what has been chosen is entered by the fetch; no chosen bit reaches a dispatch.
* `VectorWindow` – NMOS stops sampling only between the status push and the vector, also when the
  sequence changes slots in between.
* `HandlerExists` – the entry to run next is never null, and the handler has an outcome.
* `JamIsFinal` – only a host call ends a jam.

In `InterruptHistory`, relating the core to what happened on its pins:

* `EntryFrame` – the first fetch of every handler (NMI, IRQ, BRK) comes seven ticks and three writes
  after the fetch it replaces, even if an NMI takes the sequence over.
* `InstructionLength` – eight ticks at most between fetches, except in reset and in a jam.
* `PollDecides` – an interrupt is entered at a fetch *exactly when* the polls of the instruction that
  ends called for it, with the I flag of the start of the polling tick: later pins come too late,
  earlier ones are honoured even when they are gone.
* `NoSpuriousNmi` – an NMI sequence begins only for an edge of the line not serviced yet.
* `EdgeLatched`, `EdgeKept`, `ChosenNmiKept` – the life of an NMI edge: a rise of the line is latched, a
  latched edge is forgotten only for being chosen, a chosen NMI only for being entered.
* `IrqServed`, `NmiServed` – what is asked for happens in the end.

In `Execution`, for instructions and test programs that really run:

* `ImplementsInstructionSet` – every behaviour of the machine is one of `InstructionSet`: between two
  boundaries the microcode stutters, then all of an instruction is there, with its result, its flags,
  its memory, the right PC and the right number of ticks.
* `ArithmeticIsExact` – ADC and SBC against integer sums and differences, of signed and unsigned bytes
  and of decimal numbers. In decimal mode the flags are pinned down for operands that are not decimal
  too, as far as they have a meaning that can be said without the algorithm: on CMOS N and Z are those
  of the result; on NMOS Z, and N of a difference, are those of the bytes; C and V of a difference are those of
  the bytes on both. What A holds then, V of a decimal sum, and N of one on NMOS are not stated. All this is said
  of the whole machine by `Arithmetic` and without `Alu`, so that the instruction set and the handlers
  cannot both be wrong about it.
* `WriteIgnoresBus` – the tick after a write does the same whatever the host leaves on the bus. The two
  hosts here differ in it, and JSR, BRK and the interrupts have handlers that follow writes.
* `ReachesTrap` – a test program goes from its instruction to its trap: assembler, program and processor
  agree on every branch and jump, taken and not, across pages and not
  (`nmos6502_opcode_testcases.cpp:33-40` says so of its programs).
* `CleanStart` – a scenario of the sweep begins at the first fetch of its program with its registers, its
  bytes and vectors, the pins low and no interrupt latched or chosen.
* `SetupSucceeds` – no setup fails after a hard restart.
* `EveryRunEnds` – every run of a harness comes to its end: each opcode to its next fetch, a jam to its
  limit, a sweep to its last scenario. The loop of the backend's `restart` has no limit of its own
  (`qe6502_backend.cpp:24`): it runs as long as the ticks say that they belong to a reset, so a core whose
  count of reset cycles never ends would hang the host.
* `ETypeOK` – types, and the widths of everything.

In `JsBinding`:

* `EveryContextHasOneOwner` – a context is in the free list or belongs to one living object, and the list
  agrees with the flags; so none is handed out twice and none is lost, whatever fails.
* `ImplementsCpuObjects` – to the program, objects on the shared pool are independent processors, `save`
  takes the whole of one with its tick, `load` brings it back, snapshots of the native API included.
* `JTypeOK` – types.

In `FastPath`: `FastPathTransparent` – every step of the core is a step of the processor that never
leaves service mode; and `DetectorInStep`, the fact about the edge detector that this needs: a CMOS core
never stops sampling, and is in step with the NMI line whenever it is outside service mode.

## Runs

The control store is the real one in every run, and every run of the interrupt unit evaluates the
assumptions of `ControlFlow` on it, for the models and opcodes of the run. `instructions` covers all five models and all 256
opcodes with three models (`EveryModel`: NMOS, WDC, ST) and 63 opcodes (`EverySlot`): the core knows an
opcode by its slot alone, and `EverySlotAssumption` in `MCHistory`, which TLC evaluates, says that every
model has the service slots of one of the three and, entry for entry, no opcode slot that this one does
not have within `EverySlot`. The other runs choose one opcode of every *shape* (shapes differ in their
cycles, polls, skips, writes and flags) and models 0 (NMOS) and 2 (WDC) for the two families, whose
service slots are all there are.

| run | models | host | what it shows |
|---|---|---|---|
| `control` | NMOS, WDC | all calls | `TypeOK`, `FastPathIdle`, `NoStalePoll`, `OneTaken`, `ChosenEntersAtFetch`, `JamIsFinal` under every call sequence, a change from an NMOS to a CMOS model in mid-instruction included |
| `instructions` | NMOS, WDC, ST, every slot | IRQ, restart, goto, set_p | `HandlerExists`, `InstructionLength`: every instruction of every model ends, without a null entry; `PollDecides`, `EntryFrame`: IRQ meets each at every cycle, with flags that change under it |
| `nmi` | WDC | NMI, restart | the whole life of an edge with NMI alone, from the pin to the entry: `EdgeLatched`, `EdgeKept`, `PollDecides`, `ChosenNmiKept`, and `NmiServed` |
| `nmos` | NMOS | NMI, IRQ, restart, set_p | NMI and IRQ race through BRK and each other's entries: `EntryFrame`, `VectorWindow`, `NoSpuriousNmi`, `EdgeKept`, `ChosenNmiKept`, `IrqServed` |
| `cmos` | WDC | NMI, IRQ | the same race on CMOS: `EntryFrame`, `NoSpuriousNmi`, and `IrqServed` in whatever loop of the run's opcodes, all of which poll but BRK |
| `fast_path_cmos` | WDC, ST | all calls | `FastPathTransparent`, `DetectorInStep` |
| `fast_path_nmos` | NMOS | IRQ, restart, goto, set_p | `FastPathTransparent` |
| `execution` | all five, all 256 opcodes | single-step harness; pulse sweep with NMI and IRQ | the properties of `Execution`: the data path, the harnesses' scenarios, and that every one of them ends |
| `js_binding` | – | a JavaScript program with three objects and a snapshot | `EveryContextHasOneOwner`, `ImplementsCpuObjects`, `JTypeOK` |
| `nmos_missed`, `cmos_dropped`, `branch_dropped` | | | the findings below |

One instruction, one interrupt entry and the first instruction of a handler are all a property of
this kind relates, and the state space contains *all* lengths of run, so nothing is cut off in time.

**Bounds of `execution`.** `Grid` runs each opcode of each model from three states, chosen so that between
them indices stay in a page and leave it, pointers, stack, page zero and PC wrap, branches go both ways,
and decimal mode is on and off. `ArithmeticGrid` runs ADC and SBC over pairs of 12 operands with both
carries, in both modes, valid digits and not. The sweep runs all the programs but those of the seven
opcodes the source leaves out as unstable: those of the 16 opcodes
of the source's `--light` option with pulses that begin with the instruction, inside and after it, the
others with two. The ticks since a boundary are counted up to `TicksBound = 20`, above the longest
instruction and the reset (17), and back and forth there: a processor that is stuck still changes its state
with each tick, so that no endless loop is taken for a stutter. `BootstrapBound = 60` stands for the code's 4096 steps: the bootstrap is
nine instructions in a line, so a processor that has not come through by then is in a trap or a jam,
and the other 4036 steps only repeat. `FailingPulses` are two, and at most one comparison fails in a sweep.

**Bounds of `js_binding`.** A pool of two (for 1024) and three objects: it runs empty both with every
context owned and with the one context missing that a snapshot needs. Contents that differ in every
field whose place in the bytes could be mistaken. The proofs need no bounds.

**What the sweep showed.** The first scenario of every newly constructed backend needs the hard restart:
`restart` leaves the backend on the first cycle that is not marked as reset, still inside the reset
sequence, the setup raises NMI, the edge is latched and taken once the bootstrap has run and the user's
vectors are in place. The setup then runs its 4096 steps in vain and starts over. The result is right
(`CleanStart`), at the cost of those steps for each program.

**What is left out of a run, and why.**

* `nmos` and `nmi` have no goto: it abandons an entry half way, and with it the NMI being entered;
  that is what the call is for. Also, `qe6502_goto` inside the NMOS vector window keeps
  `sampling_off` (as does a change of model), so the pin is not sampled until the next BRK or
  interrupt ends a window, and `VectorWindow` fails with it. Nothing in the documentation promises
  otherwise, so this is noted and not listed as a finding.
* `nmos` has no branches, because of finding 3, and does not check `EdgeLatched`, because of finding 1.
  `nmi` is on CMOS for finding 1, `cmos` does not check `EdgeKept` for findings 2 and 3,
  `fast_path_nmos` is without NMI for finding 1.
* `nmi` has no BRK and no one-cycle NOP of the 65C02: neither polls, and a program made only of
  them is never interrupted. The opcodes of the run are all of the polling kind. It and `cmos` have no
  `set_p`: a host that flips D at the right two cycles of every decimal ADC leaves each without a
  poll and so starves the interrupts (safety under `set_p` on CMOS is the matter of `instructions`).

**Fairness.** In the runs of the interrupt unit the only fairness is `WF(Tick)`: the host goes on ticking. That is the host's
contract, the core does nothing by itself. The host may move the pins as often as it likes, so the
liveness properties hold also against a line that toggles between all ticks. Branch conditions,
crossings and opcodes are chosen by an unfair adversary. In `execution` a harness is one sequential
loop without waits, and `HarnessGoesOn` says that it does not stop in the middle. That is weak fairness of
`ExecutionNext` written out: `HarnessRuns` stands for ENABLED, which TLC cannot evaluate for a tick in
reasonable time, and the deadlock check shows that it may.

**Deadlock** is checked in every run. A harness that is through rests (`HarnessRests`); in any other state
there is a next tick or call.

## Findings

Each is a run that ends in a violation, and each was reproduced with the compiled library.

1. **An NMI edge is missed on NMOS** (`nmos_missed`, `EdgeLatched`). NMI is held asserted (its handler
   runs). The line is released inside the vector window of a BRK or an IRQ entry, where pins are not
   sampled; the resolver does not sample the release, but sees that the pin is not asserted, no IRQ,
   nothing chosen, and leaves service mode. `last_sampled` stays set. The next assertion, however
   much later, is then no edge. The exit condition (`qe6502.c:562`) asks "no rise unsampled", not
   "detector in step with the line". Cycle-exactness of the window does not call for this: the edge
   that is lost lies arbitrarily far behind it.
2. **An NMI edge is dropped on CMOS** (`cmos_dropped`, `EdgeKept`). `cmos_interrupt_vector_low`
   (`qe6502.c:900`) clears `nmi_edge`. For the NMI entry that is right; the IRQ entry calls it too, and
   an edge latched during its seven cycles is lost.
3. **A chosen NMI is dropped in a branch** (`branch_dropped`, `ChosenNmiKept`). A taken branch across a
   page polls twice, and so do BBR and BBS. The first poll moves the edge to `nmi_taken`; if IRQ is
   asserted before the second, `find_active_interrupt` (`qe6502.c:510`) finds no edge, chooses the IRQ
   and clears `nmi_taken`. The NMI is never serviced.

## Proofs

`Qe6502CoreProofs` proves, for **every** control store, set of models, set of opcodes and choice of
host calls:

| theorem | statement |
|---|---|
| `TypeCorrect` | `Spec => []TypeOK` |
| `FastPathIdleAlways` | `Spec => []FastPathIdle` |
| `NoStalePollAlways` | `Spec => []NoStalePoll` |
| `OneTakenAlways` | `Spec => []OneTaken` |

Assumed is only that models are numbers and opcodes bytes (`IndexAssumption`) and that the host makes
no calls but those of the API (`HostAssumption`); TLC evaluates both in every run.

*The inductive invariant* is `SoundInv`: the conjunction of the four and the type of the tick. The four
are carried together so that one pass over the handlers serves them all. Type correctness is what
each of the others needs. `FastPathIdle` is stated for all conditions of quiescence at once because
they are not inductive one by one: "nothing is chosen outside service mode" holds after the status
push of BRK, which polls on the fast path too, only because there is no latched edge and no asserted
IRQ to choose; and a pin call may skip the wake-up only because the detector had no unsampled rise.

*The argument* goes from the inside out. `Keeps(c, d)` says what a handler may do to the interrupt
unit: it leaves the mode, it preserves quiescence, it preserves the exclusion. It is reflexive and
transitive, so it composes along a handler (`KeepsRefl`, `KeepsTrans`, one lemma per helper).
`EffectGood` puts every handler under it, one step per arm, and since the handler is arbitrary the
control store does not matter. `TickSound` adds the resolver, `StepSound` the host's calls. What this
says of the code: *any* new opcode, model or order of handlers built from the present handlers keeps
the fast path safe; only a new handler, or a change to the resolver or a pin call, can break it.

`FastPathProofs` proves the refinement, for every control store, set of models and set of opcodes:

| theorem | statement |
|---|---|
| `FastPathTransparentInStep` | `Spec /\ []DetectorInStep => FastPathTransparent` |
| `DetectorInStepAlways` | `Spec /\ [](~cpu.sampling_off) => []DetectorInStep` |
| `FastPathTransparentCmos` | `Spec /\ [](~cpu.sampling_off) => FastPathTransparent` |
| `FastPathTransparentIrqOnly` | `Spec => FastPathTransparent` for a host that leaves the NMI line alone |

That a CMOS core never stops sampling is a fact about the handlers of its slots, and proved in
`ControlFlowProofs` (`CmosSamples`). On NMOS it is false, and with it the refinement when NMI moves: in
the window between the status push and the vector the detector does not follow the line. That is the
doing of the window, not of the fast path.

*The argument*: two contexts that differ in `service_mode` and `sampling` alone are `Alike`, and every
handler has the same outcomes on both (`EffectTwins`, one step per arm). When the core is outside service
mode the context is quiescent (`SoundInv`) and its detector in step, so sampling the pin changes nothing
and the resolver adds nothing to the handler but its own bookkeeping (`ResolveIdle`). Hence a tick of
either mode shows what a tick of the resolver shows (`TickServed`), and `InitMaps` and `StepMaps` have one
step per call. That the detector stays in step is `StepSynced`: a tick in service mode samples, a
handler leaves the detector alone or brings it to the line (a conjunct of `Keeps`), and a pin call that
moves the line enters service mode.

`ControlFlowProofs` proves what depends on the store, for every program, every call sequence and every
store that satisfies the assumptions of `ControlFlow`:

| theorem | statement |
|---|---|
| `HandlerExistsAlways` | `Spec => []HandlerExists` |
| `ChosenEntersAtFetchAlways` | `Spec => []ChosenEntersAtFetch` |
| `JamIsFinalAlways` | `Spec => JamIsFinal` |
| `VectorWindowAlways` | `Spec => []VectorWindow`, for a host without goto and set_model |
| `CmosSamples`, `CmosDetectorInStep` | CMOS models only: `Spec => [](~cpu.sampling_off)`, `Spec => []DetectorInStep` |
| `CmosFastPathTransparent` | CMOS models only: `Spec => FastPathTransparent` |

*The assumptions* are conditions on single arcs: entries exist (`EntriesExist`); an arc ends in a live
index, and at a dispatch only by a fetch that does not poll (`FlowClosed`); only the resolver enters an
interrupt (`EntriesGuarded`); nothing is polled on the way into a jam or in an interrupt sequence
(`QuietFlow`); sequences move forward (`FlowForward`); BRK, NMI and IRQ have the same cycles and writes
(`EntryShape`); sampling is off in the vector window of NMOS and nowhere else (`WindowShape`); the NMI
sequence is entered and left where it should be (`NmiShape`). TLC evaluates them on the real store for
the models and opcodes of each run; `instructions` has every slot of all five models by
`EverySlotAssumption`. They quantify over indices and not over behaviours, so this is a check of all there
is, and no bound enters.

*The argument* has two halves. `EffectFollows` shows that the handlers keep to their arcs: whatever the
context, the index after handler `h`, its bus cycle and its poll are one of `Arcs(h, ..)` (one step per
group of handlers). It is the only place where the handlers are opened. `Serves` then describes a tick of
either mode by the handler's outcome and what the resolver adds. *The inductive invariant* `FlowInv` is
`SoundInv` and: the index is live; nothing is chosen at a dispatch, in a jam or in a vector sequence; only
a jam reports one. It is stronger than `ChosenEntersAtFetch` because a
chosen interrupt reaches the dispatch from the instruction before, and that is excluded only by what
`FlowClosed` and `QuietFlow` say of all its arcs. For the window, `Windowed` (sampling is off exactly at
the indices of `Window`) is carried along. What this says of the code: an opcode or a model can be added to
the `.inc` files without a new proof; the assumptions are what a table of microcode has to be checked for.

`InterruptHistoryProofs` proves of the histories, under the same assumptions:

| theorem | statement | for |
|---|---|---|
| `ObservedSpec` | `HSpec => Spec` | all |
| `HTypeCorrect` | `HSpec => []HTypeOK` | all |
| `InstructionLengthAlways` | `HSpec => []InstructionLength` | all |
| `EntryFrameAlways` | `HSpec => []EntryFrame` | all |
| `NoSpuriousNmiAlways` | `HSpec => NoSpuriousNmi` | hosts without goto |
| `PollDecidesIrq` | `HSpec => PollDecides` | hosts without NMI |
| `PollDecidesNmi` | `HSpec => PollDecides` | CMOS models, hosts without IRQ and goto |
| `EdgeLatchedAlways` | `HSpec => EdgeLatched` | CMOS models, hosts without IRQ |
| `EdgeKeptAlways` | `HSpec => EdgeKept` | NMOS models, or hosts without IRQ |
| `ChosenNmiKeptAlways` | `HSpec => ChosenNmiKept` | stores none of whose instructions can poll twice (`PollsOnce`) |
| `ChosenNmiKeptNmiOnly` | `HSpec => ChosenNmiKept` | hosts without IRQ |

The restrictions are those of the runs, and all but one are what the findings leave: EdgeLatched fails on
NMOS by finding 1, EdgeKept on CMOS with an IRQ by finding 2, ChosenNmiKept where branches poll twice by
finding 3; goto abandons an entry half way. `PollsOnce` is a condition on the arcs like the assumptions;
TLC evaluates it (`PollsOnceAssumption` in `MCHistory`) and it holds for NMOS instructions other than
branches. PollDecides is stated for one of the two lines at a time, as its two runs check it: with both, each of
the findings makes the core disagree with what the observer saw.

*The inductive invariants*, each beside `FlowInv`: `Timed` – the observer's counters against the cycle of
the index: `since` at most that cycle, and equal to it, with the writes of `PushesBefore`, in an entry
sequence; `Resting` and `Agreed` – what the observer expects is what the core has chosen, and at a dispatch
it is nothing; `Past` – an interrupt is chosen only past the poll of its instruction; `Silent` – without an IRQ no
IRQ is ever chosen; `Owing` – a latched or chosen NMI, or an edge the detector has still to see, is owed.
The last one relates the observer's edge detector, which samples on every tick, to the core's, which
rests on the fast path and in the window: that is where `FastPathIdle` and `Windowed` are needed.

`DataPathProofs` proves, for all registers and operands:

| theorem | statement |
|---|---|
| `AdcIsExact`, `SbcIsExact` | binary: the sum or difference modulo 256 with carry, signed overflow, zero and sign; decimal operands: the digits of the decimal result and its carry, on NMOS and on CMOS; decimal mode with any operands: zero and sign of the result on CMOS, zero of the bytes on NMOS, and of a difference carry and overflow of the bytes on both and the sign on NMOS |
| `DecimalModelsAgree` | from decimal operands the handlers of NMOS and CMOS compute the same A and the same carry |
| `ComparisonSubtracts` | a comparison leaves the C, Z and N of the binary subtraction without borrow, and A and V as they were |
| `RotationsUndoEachOther` | a byte rotated left and right through the carry, or right and left, is the byte it was, with its carry |
| `StatusSurvivesStack` | what PLP or RTI pulls is what PHP, BRK or an interrupt pushed |
| `BlindToTheBus` | the handlers of `BusBlind` do the same for every two bytes on the bus |

*The argument* for the sums: a result is two digits and so is a decimal operand; each handler is shown to
compute the tens and the units of the reference with a carry or borrow between them (`ReadDigits` reads
them back), also where the CMOS subtraction wraps at sixteen bits. For operands that are not decimal the
corrected low digit is wrong, but the high digit before its own correction is that of the difference of the
bytes, and sign, borrow and overflow depend on it alone (`BorrowedDigits`).

The second half of the module goes through every handler of `Handle`. `Leaves(r, q)` says what the
computing handlers may do (registers of their widths, with the modes I and D of before; only the flag
instructions and the pulled status change a mode), `Takes` what a step may take: registers, an address
of sixteen bits and a byte. One lemma per group of handlers, down to the logic of single bits (`OneBit`,
`LogicBytes`); `Suits` names the mnemonics that a computing handler is given in its slots, outside
of which it has no meaning.

`ExecutionProofs` is about the whole processor with its hosts, for every program, every content of the memory
and every call of the harnesses, under the assumptions of `ControlFlow` and `DataFlow`:

| theorem | statement |
|---|---|
| `HarnessesConform` | `HarnessSpec => ExecutionSpec`: what follows holds in the run, which has the fairness of the harnesses besides |
| `MachineAlways` | `ExecutionSpec => [](MachineInv /\ JobInv)` |
| `WidthsKept` | `ExecutionSpec => []ETypeOK` |
| `BusUnseenInWrites` | `ExecutionSpec => []WriteIgnoresBus` |
| `ImplementsControl` | `ExecutionSpec => [][Next]_vars`: every step of the machine is a step of `Qe6502Core`, for a core whose host may restart |
| `ControlKept` | `ExecutionSpec => [](HandlerExists /\ FastPathIdle /\ NoStalePoll /\ OneTaken /\ ChosenEntersAtFetch /\ VectorWindow)` |
| `MachineStaysJammed` | `ExecutionSpec => JamIsFinal`, with a host that may restart |
| `ArithmeticExactAlways` | `ExecutionSpec => ArithmeticIsExact` |

*The assumptions* of `DataFlow` are again conditions on the entries of the store, and on the bytes of the
cases and programs; TLC evaluates them in `execution`, on the real store with all models and opcodes. Any
byte is an opcode (`AnyOpcode`); a computing handler stands only in slots whose instruction it can compute
(`InstructionsSuit`); what follows a write is in `BusBlind` (`WritesUnseen`); the immediate ADC and SBC have the cycles `ArithmeticExactAlways` follows (`SumsInPlace`);
cases and programs are of bytes (`CasesFit`, `ProgramsFit`).

*The inductive invariant* is `MachineInv`: `FlowInv` and `Windowed` of the core, because the data
path's handlers are typed only where the control can be; that the flags I and D that the core keeps are
those of P (`Coupled`); a handler that does without the bus after every write; and the widths of registers, bus,
memory and the record of the last boundary. `JobInv` adds that what a harness writes into the memory is
bytes: its program and what it puts aside and back. A tick is taken apart into its handler (`Source`), what
control and data path make of it, and the resolver's end of the tick; the hosts' steps are compositions
of a tick or a call and a memory (`HostsDo`).

*The argument of `ArithmeticExactAlways`*: the harness leaves the pins alone, so the resolver
sleeps from the jump to the boundary. `AddsInv` says, cycle by cycle of ADC and SBC, what the machine holds:
A, P and memory of the boundary, the address of the operand on the bus in its cycle, the operand in the latch
after its cycle, and decimal mode in the cycle only CMOS adds. It is inductive beside `MachineInv`, and at the
cycle that completes, `AdcIsExact` and `SbcIsExact` are the step.

`SnapshotProofs` proves, for every context and tick:

| theorem | statement |
|---|---|
| `AbiRoundTrip` | `qe6502abi_load` after `qe6502abi_save` gives the context and the 32 bits of the tick back |
| `NativeRoundTrip` | the same of `qe6502_load` and `qe6502_save` |
| `ApisInterchange` | what one API saved the other restores |

*The argument*: a written field reads back (`Halves`, `Word`: a number and its bytes determine each
other), and `ImageFields` has every field at a place of its own.

`JsBindingProofs` proves, for every capacity of the pool, every set of objects
and snapshots, and every behaviour of the processor (`Moves`):

| theorem | statement |
|---|---|
| `TypeAlways` | `Spec => []JTypeOK` |
| `OneOwnerAlways` | `Spec => []EveryContextHasOneOwner` |
| `Implements` | `Spec => ImplementsCpuObjects` |

*The inductive invariant* is `IInv`: `JTypeOK` and `Ownership`. `Ownership` says in addition to the
property that a living object's slot holds a context and no snapshot, which is what keeps `save`'s
scratch context apart from the objects'. The first part of the module shows that `context_alloc` and
`context_free` keep the list and the flags in agreement: a free list of distinct entries that is not
full has room for one more (`RoomForMore`, by the pigeonhole principle), so `context_free` never writes
past its array. `Implements` maps an object's context to the processor it holds, one lemma per action;
the round trips of `SnapshotProofs` make `save` and `load` steps of the abstract specification, and the
failures stutter.

**Only model-checked**:

* `ImplementsInstructionSet`: that the handlers of each slot add up to the instruction. It is a statement
  about 1280 sequences of the store one by one; the proofs say what holds of all of them alike
  (widths, the bus in writes, the control), and of the immediate ADC and SBC the result.
* `ReachesTrap`, `CleanStart`, `SetupSucceeds`: they hold by what particular programs (the tests, the bootstrap
  and the stub) do, which only an evaluation can follow.
* that the store, the cases and the programs of the source satisfy the assumptions of `ControlFlow` and
  `DataFlow`: finite checks that TLC makes in full.
* `EdgeLatched`, `EdgeKept`, `ChosenNmiKept` and `PollDecides` beyond the restrictions above, which are those of
  the findings.
* `NmiServed`, `IrqServed` and `EveryRunEnds`: fairness and ENABLED are outside the proof system.
* what the assembler makes of a source text: its passes are recursions over data.

## What is not modelled

* the bindings for C++, C#, Java, Python and Rust: one context per object, forwarding without state of
  their own;
* the netlist simulation (its sources are not part of the repository) and the harnesses that compare
  with it alone (`netlist_lockstep`, `interrupt_arbitration.cpp`). What the last one says of NMI and IRQ
  was read for the findings;
* the tests of the ABI (`harness/abi`): straight-line tests of calls that are actions here;
* the assembler's listings, warnings and limits; the reading of test files and the reports;
* an object of the JavaScript binding that is collected and was never disposed: it keeps its context
  for good, as there is no finalizer. Only disposed objects are collected in `JsBinding`;
* loading bytes that no save wrote: the code checks nothing (`qe6502.c:3104`), and says nothing about it;
* build, packaging and CI.

## Plan

Done, in this order: what can go wrong between two ticks (`ControlStore`, `Qe6502Core`,
`InterruptHistory`, `AlwaysInService`/`FastPath`) and the proofs of its invariants; what a tick computes
(`Alu` to `Machine`, against `InstructionSet`); the harnesses that execute programs on it; snapshots,
the context pool and the JavaScript binding, with their proofs.

The data path with its widths, and the machine with its hosts, came last (`DataPathProofs`,
`ExecutionProofs`).

Open:

1. Proofs: the cycles of more instructions, as `AddsInv` has those of the immediate ADC and SBC; one shape of
   addressing at a time, that is the refinement `ImplementsInstructionSet`.
2. `Lockstep` with two backends and the buffers of the comparison, if a second backend is ever part of the
   repository.
