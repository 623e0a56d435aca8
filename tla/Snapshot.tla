------------------------------- MODULE Snapshot -------------------------------
(***************************************************************************)
(* The 64-byte snapshots of src/cpu/src/qe6502.c, and the packed ticks and *)
(* contexts of the stable ABI that they are made from and loaded into.     *)
(*                                                                         *)
(* A 32-bit word is the pair of its halves, the high one first: TLC's      *)
(* integers have 31 bits.                                                  *)
(***************************************************************************)
EXTENDS Integers

UINT16_MAX == 65535

U8  == 0..255
U16 == 0..UINT16_MAX
U32 == U16 \X U16

\* qe6502_t and qe6502_tick_t
Context ==
  [ model : U8, reserved_extension : U8, microcode : U16, latch_addr : U16, latch_data : U8,
    service_mode : U8, PC : U16, S : U8, A : U8, X : U8, Y : U8, P : U8, interrupts : U8 ]

Tick == [address : U16, status : U8, bus : U8]

SnapshotSize == 64
SnapshotBytes == [0..SnapshotSize - 1 -> U8]

\* 0x6502
context_magic   == 25858
context_version == 1

-----------------------------------------------------------------------------
\* The status is in bits 16 to 23 of a packed tick, the bus data above it.
pack_tick(tick) == <<256 * tick.bus + tick.status, tick.address>>
unpack_tick(word) == [address |-> word[2], status |-> word[1] % 256, bus |-> word[1] \div 256]

\* Words are stored with their high byte first.
snapshot_write_u16(value) == <<value \div 256, value % 256>>
snapshot_read_u16(s, at) == 256 * s[at] + s[at + 1]
snapshot_write_u32(word) ==
  <<word[1] \div 256, word[1] % 256, word[2] \div 256, word[2] % 256>>
snapshot_read_u32(s, at) == <<snapshot_read_u16(s, at), snapshot_read_u16(s, at + 2)>>

snapshot_write_cpu(cpu) ==
  << cpu.model, cpu.reserved_extension, cpu.microcode \div 256, cpu.microcode % 256,
     cpu.latch_addr \div 256, cpu.latch_addr % 256, cpu.latch_data, cpu.service_mode,
     cpu.PC \div 256, cpu.PC % 256, cpu.S, cpu.A, cpu.X, cpu.Y, cpu.P, cpu.interrupts >>

LatchHalvesSwappedMutant(s, at) ==
  [ model |-> s[at], reserved_extension |-> s[at + 1], microcode |-> snapshot_read_u16(s, at + 2),
    latch_addr |-> s[at + 4] + 256 * s[at + 5], latch_data |-> s[at + 6],
    service_mode |-> s[at + 7], PC |-> snapshot_read_u16(s, at + 8), S |-> s[at + 10],
    A |-> s[at + 11], X |-> s[at + 12], Y |-> s[at + 13], P |-> s[at + 14],
    interrupts |-> s[at + 15] ]

snapshot_read_cpu(s, at) ==
  [ model |-> s[at], reserved_extension |-> s[at + 1], microcode |-> snapshot_read_u16(s, at + 2),
    latch_addr |-> snapshot_read_u16(s, at + 4), latch_data |-> s[at + 6],
    service_mode |-> s[at + 7], PC |-> snapshot_read_u16(s, at + 8), S |-> s[at + 10],
    A |-> s[at + 11], X |-> s[at + 12], Y |-> s[at + 13], P |-> s[at + 14],
    interrupts |-> s[at + 15] ]

\* The layout of a snapshot: magic, version, processor, tick, and zeros to its end.
Image(magic, version, cpu, word) ==
  [ i \in 0..SnapshotSize - 1 |->
      IF i < 2 THEN snapshot_write_u16(magic)[i + 1]
      ELSE IF i < 4 THEN snapshot_write_u16(version)[i - 1]
      ELSE IF i < 20 THEN snapshot_write_cpu(cpu)[i - 3]
      ELSE IF i < 24 THEN snapshot_write_u32(word)[i - 19]
      ELSE 0 ]

-----------------------------------------------------------------------------
\* The native API.
qe6502_setup(model) ==
  [ model |-> model, reserved_extension |-> 0, microcode |-> 0, latch_addr |-> 0, latch_data |-> 0,
    service_mode |-> 0, PC |-> 0, S |-> 0, A |-> 0, X |-> 0, Y |-> 0, P |-> 0, interrupts |-> 0 ]

qe6502_save(cpu, tick) == Image(context_magic, context_version, cpu, pack_tick(tick))

qe6502_load(snapshot) ==
  [cpu |-> snapshot_read_cpu(snapshot, 4), tick |-> unpack_tick(snapshot_read_u32(snapshot, 20))]

\* The ABI: a context has a magic and a version of its own, and a load takes those of the snapshot.
AbiContext == [cpu : Context, magic : U16, version : U16]

qe6502abi_setup(model) ==
  [cpu |-> qe6502_setup(model), magic |-> context_magic, version |-> context_version]

qe6502abi_save(impl, word) == Image(impl.magic, impl.version, impl.cpu, word)

qe6502abi_load(snapshot) ==
  [ cpu |-> snapshot_read_cpu(snapshot, 4), magic |-> snapshot_read_u16(snapshot, 0),
    version |-> snapshot_read_u16(snapshot, 2) ]

qe6502abi_load_tick(snapshot) == snapshot_read_u32(snapshot, 20)

=============================================================================
