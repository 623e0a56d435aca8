------------------------------ MODULE DataPath ------------------------------
(***************************************************************************)
(* What each microcode handler of src/cpu/src/qe6502.c does to the         *)
(* registers and asks of the bus.  A handler takes the registers r, the    *)
(* bus data of the tick, and returns a step: the registers it leaves, the  *)
(* address, kind and data of the bus cycle it starts, the entries of its   *)
(* slot it skips and whether the cycle belongs to the reset sequence.      *)
(* Handlers are named as in module ControlStore; those that only add a     *)
(* poll to another one share its definition.                               *)
(***************************************************************************)
EXTENDS Operations

BusCycle(r, address, status, data) ==
  [regs |-> r, address |-> address, status |-> status, data |-> data, skip |-> 0, reset |-> FALSE]

ReadAt(r, address)        == BusCycle(r, address, "read", 0)
WriteAt(r, address, data) == BusCycle(r, address, "write", data)
FetchNext(r)              == BusCycle(r, r.PC, "fetch", 0)
Skipping(n, step)         == [step EXCEPT !.skip = n]
InReset(step)             == [step EXCEPT !.reset = TRUE]

\* Where the vectors are; the last address is also that of a jam.
NmiLow == 65530
NmiHigh == 65531
ResetLow == 65532
ResetHigh == 65533
IrqLow == 65534
IrqHigh == 65535
LastAddress == 65535

StackAt(S) == 256 + S
ZeroPageAfter(address) == Byte(address + 1)

read_pc(r)     == ReadAt(r, r.PC)
read_pc_inc(r) == ReadAt([r EXCEPT !.PC = Word(@ + 1)], r.PC)
read_latch_addr(r) == ReadAt(r, r.addr)
NeverWrapsMutant(r, data) == WriteAt([r EXCEPT !.S = @ - 1], StackAt(r.S), data)
stack_write(r, data) == WriteAt([r EXCEPT !.S = Byte(@ - 1)], StackAt(r.S), data)
stack_read(r) == LET s == Byte(r.S + 1) IN ReadAt([r EXCEPT !.S = s], StackAt(s))

set_latch_addr0(r, low)  == [r EXCEPT !.addr = WithLow(@, low)]
set_latch_addr1(r, high) == [r EXCEPT !.addr = WithHigh(@, high)]
set_pc_low(r, low)       == [r EXCEPT !.PC = WithLow(@, low)]
set_pc_high(r, high)     == [r EXCEPT !.PC = WithHigh(@, high)]

-----------------------------------------------------------------------------
\* Reset.
calculate_reset_pc(pc, bus) == Address(bus, Byte(High(pc) - 1))

internal_reset_cycle(r, bus) ==
  LET counted == [r EXCEPT !.data = Byte(@ + 1), !.PC = calculate_reset_pc(@, bus)]
  IN  IF counted.data = 8 THEN read_pc(counted) ELSE InReset(read_pc(counted))

restart_read_hhff(r, bus) == InReset(read_pc([r EXCEPT !.PC = calculate_reset_pc(@, bus)]))
restart_read_zzhh_fetch(r, bus) ==
  InReset(FetchNext([r EXCEPT !.PC = calculate_reset_pc(@, bus)]))
reset_stack_read(r) == InReset(ReadAt([r EXCEPT !.S = Byte(@ - 1)], StackAt(r.S)))
reset_vec_hi(r, bus) == InReset(ReadAt([set_pc_low(r, bus) EXCEPT !.P = @ \cup {"B", "I"}], ResetHigh))

\* Vectors: BRK, IRQ and NMI; the CMOS models also leave decimal mode.
vector_low(r, bus, clear) == [set_pc_low(r, bus) EXCEPT !.P = (@ \cup {"I"}) \ clear]
latch_pch_fetch(r, bus)   == FetchNext(set_pc_high(r, bus))

-----------------------------------------------------------------------------
\* Branches: the offset is applied to the low byte of PC first, a page crossing costs a cycle.
branch_rel_c1_apply(r, bus) ==
  LET target == Word(r.PC + Signed(bus))
      step   == ReadAt(set_pc_low(r, Low(target)), r.PC)
  IN  IF High(r.PC) = High(target) THEN Skipping(1, step)
      ELSE [step EXCEPT !.regs.addr = target]

branch_pgfix(r) == ReadAt([r EXCEPT !.PC = r.addr], r.PC)

wdc_bbr_bbs_c4_apply(r, bus) ==
  LET target == Word(r.PC + Signed(bus))
  IN  IF High(r.PC) = High(target) THEN Skipping(1, ReadAt([r EXCEPT !.PC = target], r.PC))
      ELSE ReadAt([r EXCEPT !.addr = target], r.PC)

branch_c0(r, taken) == Skipping(IF taken THEN 0 ELSE 2, read_pc_inc(r))

\* Jumps, calls and returns.
latch_addr1_set_pc_fetch(r, bus) ==
  LET to == set_latch_addr1(r, bus) IN FetchNext([to EXCEPT !.PC = to.addr])

WrapsIntoNextPageMutant(r, bus) ==
  LET pointer == set_latch_addr1(r, bus)
  IN  ReadAt([pointer EXCEPT !.addr = Word(@ + 1)], pointer.addr)

\* The high byte of the target of JMP (indirect) comes from the same page.
jmp_ind_c2_target_lo(r, bus) ==
  LET pointer == set_latch_addr1(r, bus)
  IN  ReadAt(set_latch_addr0(pointer, Byte(pointer.addr + 1)), pointer.addr)

cmos_jmp_ind_c4_target_hi_retry(r) ==
  read_latch_addr(IF Low(r.addr) = 0 THEN set_latch_addr1(r, Byte(High(r.addr) + 1)) ELSE r)

jmp_ind_c4_fetch(r, bus) == FetchNext([r EXCEPT !.PC = Address(bus, r.data)])

cmos_jmp_ind_x_c2_dummy(r, bus) == ReadAt(set_latch_addr1(r, bus), Word(r.PC - 2))
cmos_jmp_ind_x_c3_target_lo(r) ==
  LET pointer == Word(r.addr + r.X) IN ReadAt([r EXCEPT !.addr = Word(pointer + 1)], pointer)

jsr_abs_c1_dummy(r, bus)     == ReadAt(set_latch_addr0(r, bus), StackAt(r.S))
rti_c3_pull_pcl(r, bus)      == stack_read([r EXCEPT !.P = PulledFlags(bus)])
latch_pcl_stack_read(r, bus) == stack_read(set_pc_low(r, bus))
rts_c4_inc_pc_dummy(r, bus)  == read_pc_inc(set_pc_high(r, bus))

-----------------------------------------------------------------------------
\* Addressing. Indexing adds to the low byte; the carry waits in the data latch.
Indexed(r, base, index) == [r EXCEPT !.addr = Byte(base + index), !.data = (base + index) \div 256]

r_indexed_probe_no_latch(r, bus) ==
  IF r.data = 0 THEN Skipping(1, ReadAt(r, WithHigh(r.addr, bus)))
  ELSE ReadAt(set_latch_addr1(r, Byte(bus + r.data)), WithHigh(r.addr, bus))

\* The CMOS models read the operand again instead of the address of the wrong page, and count PC
\* only here.
cmos_r_indexed_probe(r, bus) ==
  LET fixed == set_latch_addr1([r EXCEPT !.PC = Word(@ + 1)], Byte(bus + r.data))
  IN  IF r.data = 0 THEN Skipping(1, read_latch_addr(fixed)) ELSE ReadAt(fixed, r.PC)

cmos_r_indexed_probe_no_latch(r, bus) ==
  LET step == cmos_r_indexed_probe(r, bus)
  IN  IF r.data = 0 THEN [step EXCEPT !.regs.addr = r.addr] ELSE step

w_indexed_probe(r, bus) ==
  ReadAt(set_latch_addr1(r, Byte(bus + r.data)), WithHigh(r.addr, bus))
cmos_w_indexed_probe(r, bus) ==
  ReadAt(set_latch_addr1([r EXCEPT !.PC = Word(@ + 1)], Byte(bus + r.data)), r.PC)
unstable_store_indexed_probe(r, bus) == ReadAt(set_latch_addr1(r, bus), WithHigh(r.addr, bus))

\* Zero page: the address that is read first is not indexed yet; every sum stays in the page.
zp_c1_idx(r, bus, index) ==
  ReadAt(set_latch_addr0(r, Byte(bus + index)), WithLow(r.addr, bus))
read_zp_latch(r, bus, index) == ReadAt([r EXCEPT !.addr = Byte(bus + index)], bus)
izx_read_ptrlo_inc_ptr(r) == ReadAt(set_latch_addr0(r, Byte(r.addr + 1)), r.addr)
izp_c2_ptrhi(r, bus) == ReadAt(set_latch_addr0(r, bus), ZeroPageAfter(r.addr))
r_izx_c4_data(r, bus) == read_latch_addr([r EXCEPT !.addr = Address(bus, r.data)])
r_izx_c4_data_no_latch(r, bus) == ReadAt(r, Address(bus, r.data))
w_izx_c3_ptrhi(r, bus) == ReadAt(set_latch_addr0(r, bus), r.addr)
r_izy_c2_ptrhi(r, bus) == ReadAt(Indexed(r, bus, r.Y), WithLow(r.addr, Byte(r.addr + 1)))
w_izy_c2_ptrhi(r, bus) == ReadAt(Indexed(r, bus, r.Y), ZeroPageAfter(r.addr))
latch_zp_addr_read_latch_addr(r, bus) == read_latch_addr([r EXCEPT !.addr = bus])

-----------------------------------------------------------------------------
\* Stores.
unstable_store(mn, r) ==
  LET value == UnstableValue(mn, r, Byte(High(r.addr) + 1))
      left  == IF mn = "TAS" THEN [r EXCEPT !.S = And(r.A, r.X)] ELSE r
  IN  WriteAt(left, IF r.data = 0 THEN r.addr ELSE WithHigh(r.addr, value), value)

rmw_write(mn, opcode, model, r) ==
  LET new == ModifiedValue(mn, opcode, r, r.data)
  IN  WriteAt(ModifiedRegisters(mn, model, r, r.data, new), r.addr, new)

\* Where the decimal cycle of an immediate ADC or SBC reads; the other ones repeat their operand.
adc_imm_dummy == [m \in {wdc_model, rw_model, st_model} |->
                    IF m = wdc_model THEN 127 ELSE IF m = rw_model THEN 89 ELSE 86]

fetch_or_decimal_dummy(mn, opcode, model, r, bus) ==
  IF "D" \notin r.P
  THEN Skipping(1, FetchNext(adc_binary(r, IF mn = "ADC" THEN bus ELSE Complement(bus))))
  ELSE ReadAt([r EXCEPT !.data = bus],
              IF opcode = 105 THEN adc_imm_dummy[model]      \* ADC #
              ELSE IF opcode = 233 THEN 0 ELSE r.addr)       \* SBC #

-----------------------------------------------------------------------------
\* The handlers by name, in three tables: those that read the program, the stack and the vectors,
\* those that compute addresses, and those that execute.
ControlHandlers ==
  { "read_pc", "read_pc_prefetch", "read_pc_inc", "read_pc_inc_prefetch", "bra_c0_prefetch",
    "read_pc_inc_prefetch_decimal_clear", "read_pc_minus_one_prefetch", "fetch",
    "fetch_illegal_ext_dispatch", "read_stack_current_s", "stack_pull_read",
    "stack_pull_read_prefetch", "read_fffe", "irq_c4_vec_lo", "nmi_c4_vec_lo",
    "kil_jam_read_ffff", "kil_jam_loop", "internal_reset", "restart_read_hhff",
    "restart_read_zzhh_fetch", "restart_read_zzhh", "reset_stack_read", "reset_vec_lo",
    "reset_vec_hi", "latch_pch_fetch", "brk_c5_vec_hi", "nmos_irq_c5_vec_hi",
    "cmos_brk_c5_vec_hi", "cmos_irq_c5_vec_hi", "nmos_nmi_c5_vec_hi", "cmos_nmi_c5_vec_hi",
    "branch_rel_c1_apply", "branch_pgfix_prefetch", "wdc_bbr_bbs_c4_apply",
    "latch_addr1_set_pc_fetch", "jmp_ind_c2_target_lo", "jmp_ind_c4_fetch",
    "cmos_jmp_ind_c4_target_hi_retry_prefetch", "cmos_jmp_ind_x_c2_dummy",
    "cmos_jmp_ind_x_c3_target_lo", "jsr_abs_c1_dummy", "rti_c3_pull_pcl",
    "latch_pcl_stack_read", "latch_pcl_stack_read_prefetch", "rts_c4_inc_pc_dummy_prefetch",
    "stack_push_pc_high", "stack_push_pc_low", "stack_push_status_b",
    "cmos_stack_push_status_b", "nmi_c3_push_p", "irq_c3_push_p", "cmos_nmi_c3_push_p",
    "cmos_irq_c3_push_p" }

Control(h, r, bus) ==
  CASE h \in {"read_pc", "read_pc_prefetch"} -> read_pc(r)
    [] h \in { "read_pc_inc", "read_pc_inc_prefetch", "bra_c0_prefetch",
               "read_pc_inc_prefetch_decimal_clear" } -> read_pc_inc(r)
    [] h = "read_pc_minus_one_prefetch" -> ReadAt(r, Word(r.PC - 1))
    [] h \in {"fetch", "fetch_illegal_ext_dispatch"} -> FetchNext(r)
    [] h = "read_stack_current_s" -> ReadAt(r, StackAt(r.S))
    [] h \in {"stack_pull_read", "stack_pull_read_prefetch"} -> stack_read(r)
    [] h \in {"read_fffe", "irq_c4_vec_lo"} -> ReadAt(r, IrqLow)
    [] h = "nmi_c4_vec_lo" -> ReadAt(r, NmiLow)
    [] h = "kil_jam_read_ffff" -> ReadAt(r, LastAddress)
    [] h = "kil_jam_loop" -> BusCycle(r, LastAddress, "jammed", 255)
    [] h = "internal_reset" -> internal_reset_cycle(r, bus)
    [] h = "restart_read_hhff" -> restart_read_hhff(r, bus)
    [] h = "restart_read_zzhh_fetch" -> restart_read_zzhh_fetch(r, bus)
    [] h = "restart_read_zzhh" -> InReset(read_pc(r))
    [] h = "reset_stack_read" -> reset_stack_read(r)
    [] h = "reset_vec_lo" -> InReset(ReadAt(r, ResetLow))
    [] h = "reset_vec_hi" -> reset_vec_hi(r, bus)
    [] h = "latch_pch_fetch" -> latch_pch_fetch(r, bus)
    [] h \in {"brk_c5_vec_hi", "nmos_irq_c5_vec_hi"} -> ReadAt(vector_low(r, bus, {}), IrqHigh)
    [] h = "nmos_nmi_c5_vec_hi" -> ReadAt(vector_low(r, bus, {}), NmiHigh)
    [] h \in {"cmos_brk_c5_vec_hi", "cmos_irq_c5_vec_hi"} ->
         ReadAt(vector_low(r, bus, {"D"}), IrqHigh)
    [] h = "cmos_nmi_c5_vec_hi" -> ReadAt(vector_low(r, bus, {"D"}), NmiHigh)
    [] h = "branch_rel_c1_apply" -> branch_rel_c1_apply(r, bus)
    [] h = "branch_pgfix_prefetch" -> branch_pgfix(r)
    [] h = "wdc_bbr_bbs_c4_apply" -> wdc_bbr_bbs_c4_apply(r, bus)
    [] h = "latch_addr1_set_pc_fetch" -> latch_addr1_set_pc_fetch(r, bus)
    [] h = "jmp_ind_c2_target_lo" -> jmp_ind_c2_target_lo(r, bus)
    [] h = "jmp_ind_c4_fetch" -> jmp_ind_c4_fetch(r, bus)
    [] h = "cmos_jmp_ind_c4_target_hi_retry_prefetch" -> cmos_jmp_ind_c4_target_hi_retry(r)
    [] h = "cmos_jmp_ind_x_c2_dummy" -> cmos_jmp_ind_x_c2_dummy(r, bus)
    [] h = "cmos_jmp_ind_x_c3_target_lo" -> cmos_jmp_ind_x_c3_target_lo(r)
    [] h = "jsr_abs_c1_dummy" -> jsr_abs_c1_dummy(r, bus)
    [] h = "rti_c3_pull_pcl" -> rti_c3_pull_pcl(r, bus)
    [] h \in {"latch_pcl_stack_read", "latch_pcl_stack_read_prefetch"} ->
         latch_pcl_stack_read(r, bus)
    [] h = "rts_c4_inc_pc_dummy_prefetch" -> rts_c4_inc_pc_dummy(r, bus)
    [] h = "stack_push_pc_high" -> stack_write(r, High(r.PC))
    [] h = "stack_push_pc_low" -> stack_write(r, Low(r.PC))
    [] h \in {"stack_push_status_b", "cmos_stack_push_status_b"} ->
         stack_write(r, stack_status(r.P, {"B"}))
    [] h \in {"nmi_c3_push_p", "irq_c3_push_p", "cmos_nmi_c3_push_p", "cmos_irq_c3_push_p"} ->
         stack_write(r, stack_status(r.P, {}))

Addressing(h, r, bus) ==
  CASE h = "clear_latch_addr_read_pc_inc" -> read_pc_inc([r EXCEPT !.addr = 0])
    [] h = "clear_latch_addr_read_pc" -> read_pc([r EXCEPT !.addr = 0])
    [] h \in { "read_latch_addr", "read_latch_addr_prefetch",
               "read_latch_addr_prefetch_decimal_clear" } -> read_latch_addr(r)
    [] h \in {"latch_addr0_read_pc_inc", "latch_addr0_read_pc_inc_prefetch"} ->
         read_pc_inc(set_latch_addr0(r, bus))
    [] h = "latch_addr0_read_latch_addr" -> read_latch_addr(set_latch_addr0(r, bus))
    [] h \in { "latch_addr1_read_latch_addr",
               "latch_addr1_read_latch_addr_prefetch_decimal_clear" } ->
         read_latch_addr(set_latch_addr1(r, bus))
    [] h \in {"latch_data_read_latch_addr", "latch_data_read_latch_addr_prefetch"} ->
         read_latch_addr([r EXCEPT !.data = bus])
    [] h \in { "latch_zp_addr_read_latch_addr",
               "latch_zp_addr_read_latch_addr_prefetch_decimal_clear" } ->
         latch_zp_addr_read_latch_addr(r, bus)
    [] h \in {"latch_abx_base_read_pc_inc", "rw_abx_c1_hi"} -> read_pc_inc(Indexed(r, bus, r.X))
    [] h = "latch_aby_base_read_pc_inc" -> read_pc_inc(Indexed(r, bus, r.Y))
    [] h = "cmos_latch_abx_base_read_pc" -> read_pc(Indexed(r, bus, r.X))
    [] h = "cmos_latch_aby_base_read_pc" -> read_pc(Indexed(r, bus, r.Y))
    [] h = "r_indexed_probe_no_latch_prefetch_no_page_cross" -> r_indexed_probe_no_latch(r, bus)
    [] h \in { "cmos_r_indexed_probe",
               "cmos_r_indexed_probe_prefetch_no_page_cross_decimal_clear" } ->
         cmos_r_indexed_probe(r, bus)
    [] h = "cmos_r_indexed_probe_no_latch_prefetch_no_page_cross" ->
         cmos_r_indexed_probe_no_latch(r, bus)
    [] h = "w_indexed_probe" -> w_indexed_probe(r, bus)
    [] h = "cmos_w_indexed_probe" -> cmos_w_indexed_probe(r, bus)
    [] h = "unstable_store_indexed_probe_preserve_base_high" ->
         unstable_store_indexed_probe(r, bus)
    [] h \in {"r_izx_c1_idx", "zpx_c1_idx"} -> zp_c1_idx(r, bus, r.X)
    [] h = "r_zpy_c1_idx" -> zp_c1_idx(r, bus, r.Y)
    [] h = "read_zp_latch_x" -> read_zp_latch(r, bus, r.X)
    [] h = "w_zpy_c1_idx" -> read_zp_latch(r, bus, r.Y)
    [] h = "izx_read_ptrlo_inc_ptr" -> izx_read_ptrlo_inc_ptr(r)
    [] h = "izp_c2_ptrhi" -> izp_c2_ptrhi(r, bus)
    [] h \in {"r_izx_c4_data", "r_izx_c4_data_prefetch_decimal_clear"} -> r_izx_c4_data(r, bus)
    [] h = "r_izx_c4_data_no_latch_prefetch" -> r_izx_c4_data_no_latch(r, bus)
    [] h = "w_izx_c3_ptrhi" -> w_izx_c3_ptrhi(r, bus)
    [] h = "r_izy_c2_ptrhi" -> r_izy_c2_ptrhi(r, bus)
    [] h = "w_izy_c2_ptrhi" -> w_izy_c2_ptrhi(r, bus)
    [] h = "r_zp_c1_data_prefetch" -> ReadAt(r, bus)
    [] h = "read_addr_with_bus_hi_prefetch" -> ReadAt(r, WithHigh(r.addr, bus))
    [] h = "latch_data_write_latch_addr" -> WriteAt([r EXCEPT !.data = bus], r.addr, bus)

ExecuteHandlers ==
  { "exec_fetch", "exec_fetch_or_decimal_dummy", "decimal_fetch", "plp_fetch", "imp_prefetch",
    "cli_prefetch", "sei_prefetch", "cld_prefetch", "sed_prefetch", "branch_c0_prefetch",
    "wdc_bbr_bbs_c3_offset_or_skip_prefetch", "push_write_prefetch", "rmw_write_prefetch",
    "store_zp_prefetch", "store_abs_prefetch", "store_latch_prefetch",
    "unstable_store_prefetch" }

\* The instructions that run them: RMB and SMB have the number of their bit in the opcode.
NamesBit(mn, opcode) ==
  /\ mn = "RMB" => opcode \in 0..127
  /\ mn = "SMB" => opcode \in 128..255

Suits(h, mn, opcode, model) ==
  CASE h = "exec_fetch"             -> mn \in Reading
    [] h \in {"exec_fetch_or_decimal_dummy", "decimal_fetch"} ->
         mn \in {"ADC", "SBC"} /\ model \in {wdc_model, rw_model, st_model}
    [] h = "imp_prefetch"           -> mn \in {"CLC", "SEC", "CLV"} \cup Counting \cup Shifts \cup Transfers
    [] h = "cli_prefetch"           -> mn = "CLI"
    [] h = "sei_prefetch"           -> mn = "SEI"
    [] h = "cld_prefetch"           -> mn = "CLD"
    [] h = "sed_prefetch"           -> mn = "SED"
    [] h = "branch_c0_prefetch"     -> mn \in Conditional
    [] h = "push_write_prefetch"    -> mn \in Pushing
    [] h = "rmw_write_prefetch"     -> mn \in Modifying /\ NamesBit(mn, opcode)
    [] h \in {"store_zp_prefetch", "store_abs_prefetch", "store_latch_prefetch"} -> mn \in Storing
    [] h = "unstable_store_prefetch" -> mn \in StoringUnstably
    [] OTHER -> TRUE

Execute(h, mn, opcode, model, r, bus) ==
  CASE h = "exec_fetch" ->
         FetchNext(IF opcode = 137 /\ model >= wdc_model THEN cmos_bit_imm(r, bus)   \* BIT #
                   ELSE ReadOp(mn, model, r, bus))
    [] h = "exec_fetch_or_decimal_dummy" -> fetch_or_decimal_dummy(mn, opcode, model, r, bus)
    [] h = "decimal_fetch" -> FetchNext(CmosDecimal(mn, r, r.data))
    [] h = "plp_fetch" -> FetchNext([r EXCEPT !.P = PulledFlags(bus)])
    [] h \in {"imp_prefetch", "cli_prefetch", "sei_prefetch", "cld_prefetch", "sed_prefetch"} ->
         read_pc(ImpliedOp(mn, r))
    [] h = "branch_c0_prefetch" -> branch_c0(r, BranchTaken(mn, r.P))
    [] h = "wdc_bbr_bbs_c3_offset_or_skip_prefetch" -> branch_c0(r, BitBranchTaken(opcode, bus))
    [] h = "push_write_prefetch" -> stack_write(r, PushedValue(mn, r))
    [] h = "rmw_write_prefetch" -> rmw_write(mn, opcode, model, r)
    [] h = "store_zp_prefetch" -> WriteAt(r, bus, StoredValue(mn, r))
    [] h = "store_abs_prefetch" -> WriteAt(r, WithHigh(r.addr, bus), StoredValue(mn, r))
    [] h = "store_latch_prefetch" -> WriteAt(r, r.addr, StoredValue(mn, r))
    [] h = "unstable_store_prefetch" -> unstable_store(mn, r)

ModifiesTheBusMutant(h, mn, opcode, model, r, bus) ==
  IF h \in ControlHandlers THEN Control(h, r, bus)
  ELSE IF h = "rmw_write_prefetch" THEN rmw_write(mn, opcode, model, [r EXCEPT !.data = bus])
  ELSE IF h \in ExecuteHandlers THEN Execute(h, mn, opcode, model, r, bus)
  ELSE Addressing(h, r, bus)

Handle(h, mn, opcode, model, r, bus) ==
  IF h \in ControlHandlers THEN Control(h, r, bus)
  ELSE IF h \in ExecuteHandlers THEN Execute(h, mn, opcode, model, r, bus)
  ELSE Addressing(h, r, bus)

\* Handlers that run after a write: they do without the byte on the bus.
BusBlind ==
  { "fetch", "fetch_illegal_ext_dispatch", "read_pc_prefetch", "read_fffe", "nmi_c4_vec_lo",
    "irq_c4_vec_lo", "stack_push_pc_low", "stack_push_status_b", "cmos_stack_push_status_b",
    "nmi_c3_push_p", "irq_c3_push_p", "cmos_nmi_c3_push_p", "cmos_irq_c3_push_p",
    "rmw_write_prefetch" }

=============================================================================
