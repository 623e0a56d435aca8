---------------------------- MODULE SnapshotProofs ----------------------------
(***************************************************************************)
(* Snapshots restore what was saved, for every processor and every tick.   *)
(***************************************************************************)
EXTENDS Snapshot, TLAPS

\* What it is to be a word.
LEMMA Words == \A v : v \in U16 <=> v \in Int /\ 0 <= v /\ v <= 65535
<1>1. UINT16_MAX \in Int
  BY DEF UINT16_MAX
<1>2. \A v \in Int : v <= UINT16_MAX <=> v <= 65535
  BY DEF UINT16_MAX
<1>3. \A v \in U16 : v \in Int /\ 0 <= v /\ v <= 65535
  BY <1>1, <1>2 DEF U16
<1>4. \A v \in Int : 0 <= v /\ v <= 65535 => v \in U16
  BY <1>1, <1>2 DEF U16
<1> QED BY <1>3, <1>4

\* The two bytes of a word give it back.
LEMMA Halves ==
  ASSUME NEW value \in U16
  PROVE  /\ value \div 256 \in U8
         /\ value % 256 \in U8
         /\ 256 * (value \div 256) + (value % 256) = value
<1>1. value \in Int /\ 0 <= value /\ value <= 65535
  BY Words
<1>2. value \div 256 \in U8
  BY <1>1 DEF U8
<1>3. value % 256 \in U8
  BY <1>1 DEF U8
<1>4. 256 * (value \div 256) + (value % 256) = value
  BY <1>1
<1> QED BY <1>2, <1>3, <1>4

\* A word is made of its two bytes only.
LEMMA Word ==
  ASSUME NEW high \in U8, NEW low \in U8
  PROVE  /\ 256 * high + low \in U16
         /\ (256 * high + low) % 256 = low
         /\ (256 * high + low) \div 256 = high
<1>1. high \in Int /\ 0 <= high /\ high <= 255 /\ low \in Int /\ 0 <= low /\ low <= 255
  BY DEF U8
<1>2. PICK value \in Int : value = 256 * high + low
  BY <1>1
<1>3. value \in Int /\ 0 <= value /\ value <= 65535
  BY <1>1, <1>2
<1>4. value \in U16
  BY <1>3, Words
<1>5. PICK q \in 0..255, r \in 0..255 :
        value = 256 * q + r /\ q = value \div 256 /\ r = value % 256
  <2>1. value \div 256 \in 0..255 /\ value % 256 \in 0..255  BY <1>4, Halves DEF U8
  <2>2. value = 256 * (value \div 256) + (value % 256)  BY <1>4, Halves
  <2> QED  BY <2>1, <2>2, Zenon
<1>6. q = high /\ r = low
  BY <1>1, <1>2, <1>5
<1> QED BY <1>2, <1>4, <1>5, <1>6

\* pack_tick loses nothing: unpack_tick gives back the tick, and packed ticks are 32-bit words.
LEMMA PackTick ==
  ASSUME NEW tick \in Tick
  PROVE  pack_tick(tick) \in U32 /\ unpack_tick(pack_tick(tick)) = tick
<1>1. tick.address \in U16 /\ tick.status \in U8 /\ tick.bus \in U8
  BY DEF Tick
<1>2. /\ 256 * tick.bus + tick.status \in U16
      /\ (256 * tick.bus + tick.status) % 256 = tick.status
      /\ (256 * tick.bus + tick.status) \div 256 = tick.bus
  BY <1>1, Word
<1>3. pack_tick(tick) \in U32
  BY <1>1, <1>2 DEF pack_tick, U32
<1>4. unpack_tick(pack_tick(tick)) =
        [address |-> tick.address, status |-> tick.status, bus |-> tick.bus]
  BY <1>1, <1>2 DEF pack_tick, unpack_tick
<1>5. tick = [address |-> tick.address, status |-> tick.status, bus |-> tick.bus]
  BY DEF Tick
<1> QED BY <1>3, <1>4, <1>5

\* unpack_tick gives a tick whatever the word.
LEMMA UnpackTick ==
  ASSUME NEW word \in U32
  PROVE  unpack_tick(word) \in Tick
<1>1. word[1] \in U16 /\ word[2] \in U16
  BY DEF U32
<1> QED BY <1>1, Halves DEF unpack_tick, Tick

-----------------------------------------------------------------------------
\* The bytes of a snapshot, one field after the other.
LEMMA ImageFields ==
  ASSUME NEW magic, NEW version, NEW cpu, NEW word
  PROVE  LET s == Image(magic, version, cpu, word)
         IN  /\ s[0] = magic \div 256 /\ s[1] = magic % 256
             /\ s[2] = version \div 256 /\ s[3] = version % 256
             /\ s[4] = cpu.model /\ s[5] = cpu.reserved_extension
             /\ s[6] = cpu.microcode \div 256 /\ s[7] = cpu.microcode % 256
             /\ s[8] = cpu.latch_addr \div 256 /\ s[9] = cpu.latch_addr % 256
             /\ s[10] = cpu.latch_data /\ s[11] = cpu.service_mode
             /\ s[12] = cpu.PC \div 256 /\ s[13] = cpu.PC % 256
             /\ s[14] = cpu.S /\ s[15] = cpu.A /\ s[16] = cpu.X /\ s[17] = cpu.Y
             /\ s[18] = cpu.P /\ s[19] = cpu.interrupts
             /\ s[20] = word[1] \div 256 /\ s[21] = word[1] % 256
             /\ s[22] = word[2] \div 256 /\ s[23] = word[2] % 256
             /\ \A i \in 24..63 : s[i] = 0
<1> DEFINE s == Image(magic, version, cpu, word)
<1>1. \A i \in 0..63 :
        s[i] = IF i < 2 THEN snapshot_write_u16(magic)[i + 1]
               ELSE IF i < 4 THEN snapshot_write_u16(version)[i - 1]
               ELSE IF i < 20 THEN snapshot_write_cpu(cpu)[i - 3]
               ELSE IF i < 24 THEN snapshot_write_u32(word)[i - 19]
               ELSE 0
  BY DEF Image, SnapshotSize
<1>2. /\ s[0] = snapshot_write_u16(magic)[1] /\ s[1] = snapshot_write_u16(magic)[2]
      /\ s[2] = snapshot_write_u16(version)[1] /\ s[3] = snapshot_write_u16(version)[2]
  BY <1>1
<1>3. \A i \in 4..19 : s[i] = snapshot_write_cpu(cpu)[i - 3]
  BY <1>1
<1>4. \A i \in 20..23 : s[i] = snapshot_write_u32(word)[i - 19]
  BY <1>1
<1>5. \A i \in 24..63 : s[i] = 0
  BY <1>1
<1>6. /\ s[0] = magic \div 256 /\ s[1] = magic % 256
      /\ s[2] = version \div 256 /\ s[3] = version % 256
  BY <1>2 DEF snapshot_write_u16
<1>7. /\ s[20] = snapshot_write_u32(word)[1] /\ s[21] = snapshot_write_u32(word)[2]
      /\ s[22] = snapshot_write_u32(word)[3] /\ s[23] = snapshot_write_u32(word)[4]
  BY <1>4
<1>8. /\ s[20] = word[1] \div 256 /\ s[21] = word[1] % 256
      /\ s[22] = word[2] \div 256 /\ s[23] = word[2] % 256
  BY <1>7 DEF snapshot_write_u32
<1>9. /\ s[4] = snapshot_write_cpu(cpu)[1] /\ s[5] = snapshot_write_cpu(cpu)[2]
      /\ s[6] = snapshot_write_cpu(cpu)[3] /\ s[7] = snapshot_write_cpu(cpu)[4]
      /\ s[8] = snapshot_write_cpu(cpu)[5] /\ s[9] = snapshot_write_cpu(cpu)[6]
      /\ s[10] = snapshot_write_cpu(cpu)[7] /\ s[11] = snapshot_write_cpu(cpu)[8]
      /\ s[12] = snapshot_write_cpu(cpu)[9] /\ s[13] = snapshot_write_cpu(cpu)[10]
      /\ s[14] = snapshot_write_cpu(cpu)[11] /\ s[15] = snapshot_write_cpu(cpu)[12]
      /\ s[16] = snapshot_write_cpu(cpu)[13] /\ s[17] = snapshot_write_cpu(cpu)[14]
      /\ s[18] = snapshot_write_cpu(cpu)[15] /\ s[19] = snapshot_write_cpu(cpu)[16]
  BY <1>3
<1>10. /\ s[4] = cpu.model /\ s[5] = cpu.reserved_extension
       /\ s[6] = cpu.microcode \div 256 /\ s[7] = cpu.microcode % 256
       /\ s[8] = cpu.latch_addr \div 256 /\ s[9] = cpu.latch_addr % 256
       /\ s[10] = cpu.latch_data /\ s[11] = cpu.service_mode
       /\ s[12] = cpu.PC \div 256 /\ s[13] = cpu.PC % 256
       /\ s[14] = cpu.S /\ s[15] = cpu.A /\ s[16] = cpu.X /\ s[17] = cpu.Y
       /\ s[18] = cpu.P /\ s[19] = cpu.interrupts
  BY <1>9 DEF snapshot_write_cpu
<1> HIDE DEF s
<1> QED BY <1>5, <1>6, <1>8, <1>10 DEF s

\* The processor of a snapshot is the one that was saved.
LEMMA ReadCpu ==
  ASSUME NEW magic, NEW version, NEW cpu \in Context, NEW word
  PROVE  snapshot_read_cpu(Image(magic, version, cpu, word), 4) = cpu
<1> DEFINE s == Image(magic, version, cpu, word)
<1>1. cpu.microcode \in U16 /\ cpu.latch_addr \in U16 /\ cpu.PC \in U16
  BY DEF Context
<1>2. /\ snapshot_read_u16(s, 6) = cpu.microcode
      /\ snapshot_read_u16(s, 8) = cpu.latch_addr
      /\ snapshot_read_u16(s, 12) = cpu.PC
  <2>1. /\ s[6] = cpu.microcode \div 256 /\ s[7] = cpu.microcode % 256
        /\ s[8] = cpu.latch_addr \div 256 /\ s[9] = cpu.latch_addr % 256
        /\ s[12] = cpu.PC \div 256 /\ s[13] = cpu.PC % 256
    BY ImageFields
  <2> HIDE DEF s
  <2>2. /\ snapshot_read_u16(s, 6) = 256 * s[6] + s[7]
        /\ snapshot_read_u16(s, 8) = 256 * s[8] + s[9]
        /\ snapshot_read_u16(s, 12) = 256 * s[12] + s[13]
    BY DEF snapshot_read_u16
  <2> QED BY <1>1, <2>1, <2>2, Halves
<1>3. /\ s[4] = cpu.model /\ s[5] = cpu.reserved_extension
      /\ s[10] = cpu.latch_data /\ s[11] = cpu.service_mode
      /\ s[14] = cpu.S /\ s[15] = cpu.A /\ s[16] = cpu.X /\ s[17] = cpu.Y
      /\ s[18] = cpu.P /\ s[19] = cpu.interrupts
  BY ImageFields
<1> HIDE DEF s
<1>4. snapshot_read_cpu(s, 4) =
        [ model |-> cpu.model, reserved_extension |-> cpu.reserved_extension,
          microcode |-> cpu.microcode, latch_addr |-> cpu.latch_addr,
          latch_data |-> cpu.latch_data, service_mode |-> cpu.service_mode, PC |-> cpu.PC,
          S |-> cpu.S, A |-> cpu.A, X |-> cpu.X, Y |-> cpu.Y, P |-> cpu.P,
          interrupts |-> cpu.interrupts ]
  BY <1>2, <1>3 DEF snapshot_read_cpu
<1>5. cpu =
        [ model |-> cpu.model, reserved_extension |-> cpu.reserved_extension,
          microcode |-> cpu.microcode, latch_addr |-> cpu.latch_addr,
          latch_data |-> cpu.latch_data, service_mode |-> cpu.service_mode, PC |-> cpu.PC,
          S |-> cpu.S, A |-> cpu.A, X |-> cpu.X, Y |-> cpu.Y, P |-> cpu.P,
          interrupts |-> cpu.interrupts ]
  BY DEF Context
<1> QED BY <1>4, <1>5 DEF s

\* So is its packed tick, its magic and its version.
LEMMA ReadWords ==
  ASSUME NEW magic \in U16, NEW version \in U16, NEW cpu, NEW word \in U32
  PROVE  LET s == Image(magic, version, cpu, word)
         IN  /\ snapshot_read_u16(s, 0) = magic
             /\ snapshot_read_u16(s, 2) = version
             /\ snapshot_read_u32(s, 20) = word
<1> DEFINE s == Image(magic, version, cpu, word)
<1>1. word[1] \in U16 /\ word[2] \in U16 /\ word = <<word[1], word[2]>>
  BY DEF U32
<1>2. /\ s[0] = magic \div 256 /\ s[1] = magic % 256
      /\ s[2] = version \div 256 /\ s[3] = version % 256
      /\ s[20] = word[1] \div 256 /\ s[21] = word[1] % 256
      /\ s[22] = word[2] \div 256 /\ s[23] = word[2] % 256
  BY ImageFields
<1> HIDE DEF s
<1>3. /\ snapshot_read_u16(s, 0) = 256 * s[0] + s[1]
      /\ snapshot_read_u16(s, 2) = 256 * s[2] + s[3]
      /\ snapshot_read_u16(s, 20) = 256 * s[20] + s[21]
      /\ snapshot_read_u16(s, 22) = 256 * s[22] + s[23]
  BY DEF snapshot_read_u16
<1>4. /\ snapshot_read_u16(s, 0) = magic
      /\ snapshot_read_u16(s, 2) = version
      /\ snapshot_read_u16(s, 20) = word[1]
      /\ snapshot_read_u16(s, 22) = word[2]
  BY <1>1, <1>2, <1>3, Halves
<1>5. snapshot_read_u32(s, 20) = <<snapshot_read_u16(s, 20), snapshot_read_u16(s, 22)>>
  BY DEF snapshot_read_u32
<1> QED BY <1>1, <1>4, <1>5 DEF s

-----------------------------------------------------------------------------
\* A context that loads what qe6502abi_save wrote is the context that was saved, with its tick.
THEOREM AbiRoundTrip ==
  ASSUME NEW impl \in AbiContext, NEW word \in U32
  PROVE  /\ qe6502abi_load(qe6502abi_save(impl, word)) = impl
         /\ qe6502abi_load_tick(qe6502abi_save(impl, word)) = word
<1>1. impl.cpu \in Context /\ impl.magic \in U16 /\ impl.version \in U16
  BY DEF AbiContext
<1>2. impl = [cpu |-> impl.cpu, magic |-> impl.magic, version |-> impl.version]
  BY DEF AbiContext
<1> QED BY <1>1, <1>2, ReadCpu, ReadWords
        DEF qe6502abi_load, qe6502abi_load_tick, qe6502abi_save

\* The same for the native API, whose ticks are not packed.
THEOREM NativeRoundTrip ==
  ASSUME NEW cpu \in Context, NEW tick \in Tick
  PROVE  qe6502_load(qe6502_save(cpu, tick)) = [cpu |-> cpu, tick |-> tick]
<1>1. context_magic \in U16 /\ context_version \in U16
  BY Words DEF context_magic, context_version
<1> QED BY <1>1, ReadCpu, ReadWords, PackTick DEF qe6502_load, qe6502_save

\* One format: what either API saves, the other one restores.
THEOREM ApisInterchange ==
  ASSUME NEW impl \in AbiContext, NEW tick \in Tick
  PROVE  /\ qe6502_load(qe6502abi_save(impl, pack_tick(tick))) = [cpu |-> impl.cpu, tick |-> tick]
         /\ qe6502abi_load(qe6502_save(impl.cpu, tick)) =
              [cpu |-> impl.cpu, magic |-> context_magic, version |-> context_version]
         /\ qe6502abi_load_tick(qe6502_save(impl.cpu, tick)) = pack_tick(tick)
<1>1. context_magic \in U16 /\ context_version \in U16
  BY Words DEF context_magic, context_version
<1>2. impl.cpu \in Context /\ impl.magic \in U16 /\ impl.version \in U16
  BY DEF AbiContext
<1>3. pack_tick(tick) \in U32 /\ unpack_tick(pack_tick(tick)) = tick
  BY PackTick
<1>4. qe6502_load(qe6502abi_save(impl, pack_tick(tick))) = [cpu |-> impl.cpu, tick |-> tick]
  BY <1>2, <1>3, ReadCpu, ReadWords DEF qe6502_load, qe6502abi_save
<1>5. qe6502abi_load(qe6502_save(impl.cpu, tick)) =
        [cpu |-> impl.cpu, magic |-> context_magic, version |-> context_version]
  BY <1>1, <1>2, <1>3, ReadCpu, ReadWords DEF qe6502abi_load, qe6502_save
<1>6. qe6502abi_load_tick(qe6502_save(impl.cpu, tick)) = pack_tick(tick)
  BY <1>1, <1>2, <1>3, ReadWords DEF qe6502abi_load_tick, qe6502_save
<1> QED BY <1>4, <1>5, <1>6

\* A snapshot is 64 bytes.
LEMMA ImageType ==
  ASSUME NEW magic \in U16, NEW version \in U16, NEW cpu \in Context, NEW word \in U32
  PROVE  Image(magic, version, cpu, word) \in SnapshotBytes
<1> DEFINE s == Image(magic, version, cpu, word)
<1>1. word[1] \in U16 /\ word[2] \in U16
  BY DEF U32
<1>2. /\ cpu.model \in U8 /\ cpu.reserved_extension \in U8 /\ cpu.microcode \in U16
      /\ cpu.latch_addr \in U16 /\ cpu.latch_data \in U8 /\ cpu.service_mode \in U8
      /\ cpu.PC \in U16 /\ cpu.S \in U8 /\ cpu.A \in U8 /\ cpu.X \in U8 /\ cpu.Y \in U8
      /\ cpu.P \in U8 /\ cpu.interrupts \in U8
  BY DEF Context
<1>3. /\ s[0] = magic \div 256 /\ s[1] = magic % 256
      /\ s[2] = version \div 256 /\ s[3] = version % 256
      /\ s[4] = cpu.model /\ s[5] = cpu.reserved_extension
      /\ s[6] = cpu.microcode \div 256 /\ s[7] = cpu.microcode % 256
      /\ s[8] = cpu.latch_addr \div 256 /\ s[9] = cpu.latch_addr % 256
      /\ s[10] = cpu.latch_data /\ s[11] = cpu.service_mode
      /\ s[12] = cpu.PC \div 256 /\ s[13] = cpu.PC % 256
      /\ s[14] = cpu.S /\ s[15] = cpu.A /\ s[16] = cpu.X /\ s[17] = cpu.Y
      /\ s[18] = cpu.P /\ s[19] = cpu.interrupts
      /\ s[20] = word[1] \div 256 /\ s[21] = word[1] % 256
      /\ s[22] = word[2] \div 256 /\ s[23] = word[2] % 256
      /\ \A i \in 24..63 : s[i] = 0
  BY ImageFields
<1>4. s = [i \in 0..63 |-> s[i]]
  BY DEF Image, SnapshotSize
<1> HIDE DEF s
<1>5. /\ s[0] \in U8 /\ s[1] \in U8 /\ s[2] \in U8 /\ s[3] \in U8 /\ s[4] \in U8 /\ s[5] \in U8
      /\ s[6] \in U8 /\ s[7] \in U8 /\ s[8] \in U8 /\ s[9] \in U8 /\ s[10] \in U8 /\ s[11] \in U8
  BY <1>2, <1>3, Halves
<1>6. /\ s[12] \in U8 /\ s[13] \in U8 /\ s[14] \in U8 /\ s[15] \in U8 /\ s[16] \in U8
      /\ s[17] \in U8 /\ s[18] \in U8 /\ s[19] \in U8 /\ s[20] \in U8 /\ s[21] \in U8
      /\ s[22] \in U8 /\ s[23] \in U8
  BY <1>1, <1>2, <1>3, Halves
<1>7. \A i \in 24..63 : s[i] \in U8
  BY <1>3 DEF U8
<1>8. \A i \in 0..63 : s[i] \in U8
  BY <1>5, <1>6, <1>7
<1>9. s \in SnapshotBytes
  BY <1>4, <1>8 DEF SnapshotBytes, SnapshotSize
<1> QED BY <1>9 DEF s

=============================================================================
