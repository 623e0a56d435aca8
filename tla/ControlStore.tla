---------------------------- MODULE ControlStore ----------------------------
(***************************************************************************)
(* The control store of qe6502: for every model, slot and cycle, the       *)
(* microcode handler that runs there.  A slot is an opcode (0..255) or one *)
(* of the services above it (interrupt resolver, reset, goto, NMI, IRQ).   *)
(*                                                                         *)
(* A handler is named as in src/cpu/src/qe6502.c without its mc_ prefix.   *)
(* The op_ handlers of the mnemonics are named for the step they take:     *)
(* op_adc_r_..._fetch, op_and_r_..._fetch and so on are "exec_fetch".      *)
(* What a handler computes on A, X, Y, N, V, Z and C is not modelled.      *)
(***************************************************************************)
EXTENDS Integers, Sequences

\* How the instructions end: with the fetch of the next opcode, which "dispatch" consumes.
Fetch(cycles)      == cycles \o <<"fetch", "dispatch">>
Read(cycles)       == cycles \o <<"exec_fetch", "dispatch">>
Decimal(cycles)    == cycles \o <<"exec_fetch_or_decimal_dummy", "decimal_fetch", "dispatch">>
Modify(cycles)     == Fetch(cycles \o <<"latch_data_write_latch_addr", "rmw_write_prefetch">>)
CmosModify(cycles) == Fetch(cycles \o <<"latch_data_read_latch_addr", "rmw_write_prefetch">>)

\* Beginnings that several classes share.
Abs == <<"read_pc_inc", "latch_addr0_read_pc_inc", "read_addr_with_bus_hi_prefetch">>
Abx == <<"read_pc_inc", "latch_abx_base_read_pc_inc",
         "r_indexed_probe_no_latch_prefetch_no_page_cross", "read_latch_addr_prefetch">>
CmosAbx == <<"read_pc_inc", "cmos_latch_abx_base_read_pc",
             "cmos_r_indexed_probe_no_latch_prefetch_no_page_cross", "read_latch_addr_prefetch">>
Zp == <<"read_pc_inc", "r_zp_c1_data_prefetch">>
Zpx == <<"clear_latch_addr_read_pc_inc", "zpx_c1_idx", "read_latch_addr_prefetch">>
Pull == <<"read_pc", "read_stack_current_s", "stack_pull_read_prefetch">>
DecProbe == <<"cmos_r_indexed_probe_prefetch_no_page_cross_decimal_clear",
              "read_latch_addr_prefetch_decimal_clear">>
IzxPtr == <<"clear_latch_addr_read_pc_inc", "r_izx_c1_idx", "izx_read_ptrlo_inc_ptr",
            "latch_data_read_latch_addr">>
IzpPtr == <<"read_pc_inc", "latch_zp_addr_read_latch_addr", "izp_c2_ptrhi">>
RwAbs == <<"read_pc_inc", "latch_addr0_read_pc_inc", "latch_addr1_read_latch_addr">>
RwZp == <<"clear_latch_addr_read_pc_inc", "latch_addr0_read_latch_addr">>
RwZpx == <<"clear_latch_addr_read_pc_inc", "zpx_c1_idx", "read_latch_addr">>
Unstable == <<"unstable_store_indexed_probe_preserve_base_high", "unstable_store_prefetch">>
WriteProbe == <<"w_indexed_probe", "store_latch_prefetch">>
CmosWriteProbe == <<"cmos_w_indexed_probe", "store_latch_prefetch">>

\* Implied and accumulator instructions; CLI, SEI, CLD and SED write the flags the interrupt
\* unit and the decimal steps read.
imp == Fetch(<<"imp_prefetch">>)
acc == imp
imp_cli == Fetch(<<"cli_prefetch">>)
imp_sei == Fetch(<<"sei_prefetch">>)
imp_cld == Fetch(<<"cld_prefetch">>)
imp_sed == Fetch(<<"sed_prefetch">>)
nop_imp == Fetch(<<"read_pc_prefetch">>)

\* Instructions without an effect, by the bus accesses they make.
nop_1b_1c == <<"fetch", "dispatch">>
nop_imm == Fetch(<<"read_pc_inc_prefetch">>)
nop_2b_2c == nop_imm
nop_3b_4c == Fetch(<<"read_pc_inc", "read_pc", "read_pc_inc_prefetch">>)
nop_abs_read == Fetch(Abs)
nop_abx_read == Fetch(Abx)
nop_zp_read == Fetch(Zp)
nop_zpx_read == Fetch(Zpx)
st_nop_abs_read == Fetch(<<"read_pc_inc", "read_pc_inc_prefetch">>)
st_nop_abs_read_high_dummy == Fetch(<<"read_pc_inc", "read_pc_inc", "read_pc_minus_one_prefetch">>)

\* Instructions that read their operand and execute while the next opcode is fetched.
r_imm == Read(<<"read_pc_inc_prefetch">>)
r_zp == Read(Zp)
r_zpx == Read(Zpx)
r_zpy == Read(<<"clear_latch_addr_read_pc_inc", "r_zpy_c1_idx", "read_latch_addr_prefetch">>)
r_abs == Read(Abs)
r_abx == Read(Abx)
r_aby == Read(<<"read_pc_inc", "latch_aby_base_read_pc_inc",
                "r_indexed_probe_no_latch_prefetch_no_page_cross", "read_latch_addr_prefetch">>)
r_izx == Read(IzxPtr \o <<"r_izx_c4_data_no_latch_prefetch">>)
r_izy == Read(<<"clear_latch_addr_read_pc_inc", "latch_addr0_read_latch_addr", "r_izy_c2_ptrhi",
                "r_indexed_probe_no_latch_prefetch_no_page_cross", "read_latch_addr_prefetch">>)
r_izp == Read(IzpPtr \o <<"read_addr_with_bus_hi_prefetch">>)
cmos_r_abx == Read(CmosAbx)
cmos_r_aby == Read(<<"read_pc_inc", "cmos_latch_aby_base_read_pc",
                     "cmos_r_indexed_probe_no_latch_prefetch_no_page_cross",
                     "read_latch_addr_prefetch">>)
cmos_r_izy == Read(<<"clear_latch_addr_read_pc", "latch_addr0_read_latch_addr", "r_izy_c2_ptrhi",
                     "cmos_r_indexed_probe_no_latch_prefetch_no_page_cross",
                     "read_latch_addr_prefetch">>)

\* CMOS ADC and SBC, which spend one more cycle in decimal mode.
dec_r_imm == Decimal(<<"read_pc_inc_prefetch_decimal_clear">>)
dec_r_zp == Decimal(<<"read_pc_inc", "latch_zp_addr_read_latch_addr_prefetch_decimal_clear">>)
dec_r_zpx == Decimal(<<"clear_latch_addr_read_pc_inc", "zpx_c1_idx",
                       "read_latch_addr_prefetch_decimal_clear">>)
dec_r_abs == Decimal(<<"read_pc_inc", "latch_addr0_read_pc_inc",
                       "latch_addr1_read_latch_addr_prefetch_decimal_clear">>)
dec_r_abx == Decimal(<<"read_pc_inc", "cmos_latch_abx_base_read_pc">> \o DecProbe)
dec_r_aby == Decimal(<<"read_pc_inc", "cmos_latch_aby_base_read_pc">> \o DecProbe)
dec_r_izx == Decimal(IzxPtr \o <<"r_izx_c4_data_prefetch_decimal_clear">>)
dec_r_izy == Decimal(<<"clear_latch_addr_read_pc", "latch_addr0_read_latch_addr",
                       "r_izy_c2_ptrhi">> \o DecProbe)
r_izp_wdc_decimal == Decimal(IzpPtr \o <<"latch_addr1_read_latch_addr_prefetch_decimal_clear">>)

\* Instructions that store a register.
w_zp == Fetch(<<"read_pc_inc", "store_zp_prefetch">>)
w_zpx == Fetch(<<"read_pc_inc", "read_zp_latch_x", "store_latch_prefetch">>)
w_zpy == Fetch(<<"read_pc_inc", "w_zpy_c1_idx", "store_latch_prefetch">>)
w_abs == Fetch(<<"read_pc_inc", "latch_addr0_read_pc_inc", "store_abs_prefetch">>)
w_abx == Fetch(<<"read_pc_inc", "latch_abx_base_read_pc_inc">> \o WriteProbe)
w_aby == Fetch(<<"read_pc_inc", "latch_aby_base_read_pc_inc">> \o WriteProbe)
w_izx == Fetch(<<"read_pc_inc", "read_zp_latch_x", "izx_read_ptrlo_inc_ptr", "w_izx_c3_ptrhi",
                 "store_abs_prefetch">>)
w_izy == Fetch(<<"read_pc_inc", "latch_zp_addr_read_latch_addr", "w_izy_c2_ptrhi">> \o WriteProbe)
w_izp == Fetch(IzpPtr \o <<"store_abs_prefetch">>)
cmos_w_abx == Fetch(<<"read_pc_inc", "cmos_latch_abx_base_read_pc">> \o CmosWriteProbe)
cmos_w_aby == Fetch(<<"read_pc_inc", "cmos_latch_aby_base_read_pc">> \o CmosWriteProbe)
cmos_w_izy == Fetch(<<"read_pc", "latch_zp_addr_read_latch_addr", "w_izy_c2_ptrhi">>
                    \o CmosWriteProbe)
unstable_w_abx == Fetch(<<"read_pc_inc", "latch_abx_base_read_pc_inc">> \o Unstable)
unstable_w_aby == Fetch(<<"read_pc_inc", "latch_aby_base_read_pc_inc">> \o Unstable)
unstable_w_izy == Fetch(<<"read_pc_inc", "latch_zp_addr_read_latch_addr", "w_izy_c2_ptrhi">>
                        \o Unstable)

\* Read-modify-write instructions. The opcode after an illegal (zp,X) or (zp),Y one is dispatched
\* from a service slot, because the instruction itself fills all eight cycles of its own.
rw_zp == Modify(RwZp)
rw_zpx == Modify(RwZpx)
rw_abs == Modify(RwAbs)
rw_abx == Modify(<<"read_pc_inc", "rw_abx_c1_hi", "w_indexed_probe", "read_latch_addr">>)
rw_aby == Modify(<<"read_pc_inc", "latch_aby_base_read_pc_inc", "w_indexed_probe",
                   "read_latch_addr">>)
rw_izx == IzxPtr \o <<"r_izx_c4_data", "latch_data_write_latch_addr", "rmw_write_prefetch",
                      "fetch_illegal_ext_dispatch">>
rw_izy == <<"clear_latch_addr_read_pc_inc", "latch_addr0_read_latch_addr", "w_izy_c2_ptrhi",
            "w_indexed_probe", "read_latch_addr", "latch_data_write_latch_addr",
            "rmw_write_prefetch", "fetch_illegal_ext_dispatch">>
rw_zp_cmos == CmosModify(RwZp)
rw_zpx_cmos == CmosModify(RwZpx)
rw_abs_cmos == CmosModify(RwAbs)
cmos_rw_abx == CmosModify(<<"read_pc_inc", "cmos_latch_abx_base_read_pc", "cmos_w_indexed_probe",
                            "read_latch_addr">>)
rw_abx_short == CmosModify(<<"read_pc_inc", "cmos_latch_abx_base_read_pc", "cmos_r_indexed_probe",
                             "read_latch_addr">>)

\* Branches, jumps, subroutines, the stack, BRK and the opcodes that stop an NMOS processor.
branch_rel == Fetch(<<"branch_c0_prefetch", "branch_rel_c1_apply", "branch_pgfix_prefetch">>)
branch_rel_bra == Fetch(<<"bra_c0_prefetch", "branch_rel_c1_apply", "branch_pgfix_prefetch">>)
bbr_bbs_zp_rel == Fetch(<<"read_pc_inc", "latch_zp_addr_read_latch_addr", "read_latch_addr",
                          "wdc_bbr_bbs_c3_offset_or_skip_prefetch", "wdc_bbr_bbs_c4_apply",
                          "branch_pgfix_prefetch">>)
jmp_abs == <<"read_pc_inc", "latch_addr0_read_pc_inc_prefetch", "latch_addr1_set_pc_fetch",
             "dispatch">>
jmp_ind == <<"read_pc_inc", "latch_addr0_read_pc_inc", "jmp_ind_c2_target_lo",
             "latch_data_read_latch_addr_prefetch", "jmp_ind_c4_fetch", "dispatch">>
jmp_ind_wdc == <<"read_pc_inc", "latch_addr0_read_pc_inc", "jmp_ind_c2_target_lo",
                 "latch_data_read_latch_addr", "cmos_jmp_ind_c4_target_hi_retry_prefetch",
                 "jmp_ind_c4_fetch", "dispatch">>
jmp_ind_x_wdc == <<"read_pc_inc", "latch_addr0_read_pc_inc", "cmos_jmp_ind_x_c2_dummy",
                   "cmos_jmp_ind_x_c3_target_lo", "latch_data_read_latch_addr_prefetch",
                   "jmp_ind_c4_fetch", "dispatch">>
jsr_abs == <<"read_pc_inc", "jsr_abs_c1_dummy", "stack_push_pc_high", "stack_push_pc_low",
             "read_pc_prefetch", "latch_addr1_set_pc_fetch", "dispatch">>
rts == Fetch(<<"read_pc", "read_stack_current_s", "stack_pull_read", "latch_pcl_stack_read",
               "rts_c4_inc_pc_dummy_prefetch">>)
rti == <<"read_pc", "read_stack_current_s", "stack_pull_read", "rti_c3_pull_pcl",
         "latch_pcl_stack_read_prefetch", "latch_pch_fetch", "dispatch">>
brk == <<"read_pc_inc", "stack_push_pc_high", "stack_push_pc_low", "stack_push_status_b",
         "read_fffe", "brk_c5_vec_hi", "latch_pch_fetch", "dispatch">>
cmos_brk == <<"read_pc_inc", "stack_push_pc_high", "stack_push_pc_low", "cmos_stack_push_status_b",
              "read_fffe", "cmos_brk_c5_vec_hi", "latch_pch_fetch", "dispatch">>
stack_push == Fetch(<<"read_pc", "push_write_prefetch">>)
stack_pull == Read(Pull)
stack_pull_plp == Pull \o <<"plp_fetch", "dispatch">>
kil_jam == <<"read_pc", "kil_jam_read_ffff", "read_fffe", "read_fffe", "kil_jam_loop">>

\* The NMOS opcodes, sixteen in a row: the undocumented opcodes included.
Nmos0 == <<brk, r_izx, kil_jam, rw_izx, nop_zp_read, r_zp, rw_zp, rw_zp, stack_push, r_imm,
           acc, r_imm, nop_abs_read, r_abs, rw_abs, rw_abs>>
Nmos1 == <<branch_rel, r_izy, kil_jam, rw_izy, nop_zpx_read, r_zpx, rw_zpx, rw_zpx, imp, r_aby,
           nop_imp, rw_aby, nop_abx_read, r_abx, rw_abx, rw_abx>>
Nmos2 == <<jsr_abs, r_izx, kil_jam, rw_izx, r_zp, r_zp, rw_zp, rw_zp, stack_pull_plp, r_imm,
           acc, r_imm, r_abs, r_abs, rw_abs, rw_abs>>
Nmos3 == <<branch_rel, r_izy, kil_jam, rw_izy, nop_zpx_read, r_zpx, rw_zpx, rw_zpx, imp, r_aby,
           nop_imp, rw_aby, nop_abx_read, r_abx, rw_abx, rw_abx>>
Nmos4 == <<rti, r_izx, kil_jam, rw_izx, nop_zp_read, r_zp, rw_zp, rw_zp, stack_push, r_imm,
           acc, r_imm, jmp_abs, r_abs, rw_abs, rw_abs>>
Nmos5 == <<branch_rel, r_izy, kil_jam, rw_izy, nop_zpx_read, r_zpx, rw_zpx, rw_zpx, imp_cli,
           r_aby, nop_imp, rw_aby, nop_abx_read, r_abx, rw_abx, rw_abx>>
Nmos6 == <<rts, r_izx, kil_jam, rw_izx, nop_zp_read, r_zp, rw_zp, rw_zp, stack_pull, r_imm,
           acc, r_imm, jmp_ind, r_abs, rw_abs, rw_abs>>
Nmos7 == <<branch_rel, r_izy, kil_jam, rw_izy, nop_zpx_read, r_zpx, rw_zpx, rw_zpx, imp_sei,
           r_aby, nop_imp, rw_aby, nop_abx_read, r_abx, rw_abx, rw_abx>>
Nmos8 == <<nop_imm, w_izx, nop_imm, w_izx, w_zp, w_zp, w_zp, w_zp, imp, nop_imm, imp, r_imm,
           w_abs, w_abs, w_abs, w_abs>>
Nmos9 == <<branch_rel, w_izy, kil_jam, unstable_w_izy, w_zpx, w_zpx, w_zpy, w_zpy, imp, w_aby,
           imp, unstable_w_aby, unstable_w_abx, w_abx, unstable_w_aby, unstable_w_aby>>
NmosA == <<r_imm, r_izx, r_imm, r_izx, r_zp, r_zp, r_zp, r_zp, imp, r_imm, imp, r_imm, r_abs,
           r_abs, r_abs, r_abs>>
NmosB == <<branch_rel, r_izy, kil_jam, r_izy, r_zpx, r_zpx, r_zpy, r_zpy, imp, r_aby, imp,
           r_aby, r_abx, r_abx, r_aby, r_aby>>
NmosC == <<r_imm, r_izx, nop_imm, rw_izx, r_zp, r_zp, rw_zp, rw_zp, imp, r_imm, imp, r_imm,
           r_abs, r_abs, rw_abs, rw_abs>>
NmosD == <<branch_rel, r_izy, kil_jam, rw_izy, nop_zpx_read, r_zpx, rw_zpx, rw_zpx, imp_cld,
           r_aby, nop_imp, rw_aby, nop_abx_read, r_abx, rw_abx, rw_abx>>
NmosE == <<r_imm, r_izx, nop_imm, rw_izx, r_zp, r_zp, rw_zp, rw_zp, imp, r_imm, nop_imp, r_imm,
           r_abs, r_abs, rw_abs, rw_abs>>
NmosF == <<branch_rel, r_izy, kil_jam, rw_izy, nop_zpx_read, r_zpx, rw_zpx, rw_zpx, imp_sed,
           r_aby, nop_imp, rw_aby, nop_abx_read, r_abx, rw_abx, rw_abx>>

\* The NES opcodes, sixteen in a row: a 6502 without decimal mode: the
\* operand handlers differ from the NMOS ones, the bus cycles do not.
Nes0 == Nmos0
Nes1 == Nmos1
Nes2 == Nmos2
Nes3 == Nmos3
Nes4 == Nmos4
Nes5 == Nmos5
Nes6 == Nmos6
Nes7 == Nmos7
Nes8 == Nmos8
Nes9 == Nmos9
NesA == NmosA
NesB == NmosB
NesC == NmosC
NesD == NmosD
NesE == NmosE
NesF == NmosF

\* The WDC 65C02 opcodes, sixteen in a row.
Wdc0 == <<cmos_brk, r_izx, nop_2b_2c, nop_1b_1c, rw_zp_cmos, r_zp, rw_zp_cmos, rw_zp_cmos,
          stack_push, r_imm, acc, nop_1b_1c, rw_abs_cmos, r_abs, rw_abs_cmos, bbr_bbs_zp_rel>>
Wdc1 == <<branch_rel, cmos_r_izy, r_izp, nop_1b_1c, rw_zp_cmos, r_zpx, rw_zpx_cmos, rw_zp_cmos,
          imp, cmos_r_aby, acc, nop_1b_1c, rw_abs_cmos, cmos_r_abx, rw_abx_short,
          bbr_bbs_zp_rel>>
Wdc2 == <<jsr_abs, r_izx, nop_2b_2c, nop_1b_1c, r_zp, r_zp, rw_zp_cmos, rw_zp_cmos,
          stack_pull_plp, r_imm, acc, nop_1b_1c, r_abs, r_abs, rw_abs_cmos, bbr_bbs_zp_rel>>
Wdc3 == <<branch_rel, cmos_r_izy, r_izp, nop_1b_1c, r_zpx, r_zpx, rw_zpx_cmos, rw_zp_cmos, imp,
          cmos_r_aby, acc, nop_1b_1c, cmos_r_abx, cmos_r_abx, rw_abx_short, bbr_bbs_zp_rel>>
Wdc4 == <<rti, r_izx, nop_2b_2c, nop_1b_1c, nop_zp_read, r_zp, rw_zp_cmos, rw_zp_cmos,
          stack_push, r_imm, acc, nop_1b_1c, jmp_abs, r_abs, rw_abs_cmos, bbr_bbs_zp_rel>>
Wdc5 == <<branch_rel, cmos_r_izy, r_izp, nop_1b_1c, nop_zpx_read, r_zpx, rw_zpx_cmos,
          rw_zp_cmos, imp_cli, cmos_r_aby, stack_push, nop_1b_1c, nop_3b_4c, cmos_r_abx,
          rw_abx_short, bbr_bbs_zp_rel>>
Wdc6 == <<rts, dec_r_izx, nop_2b_2c, nop_1b_1c, w_zp, dec_r_zp, rw_zp_cmos, rw_zp_cmos,
          stack_pull, dec_r_imm, acc, nop_1b_1c, jmp_ind_wdc, dec_r_abs, rw_abs_cmos,
          bbr_bbs_zp_rel>>
Wdc7 == <<branch_rel, dec_r_izy, r_izp_wdc_decimal, nop_1b_1c, w_zpx, dec_r_zpx, rw_zpx_cmos,
          rw_zp_cmos, imp_sei, dec_r_aby, stack_pull, nop_1b_1c, jmp_ind_x_wdc, dec_r_abx,
          rw_abx_short, bbr_bbs_zp_rel>>
Wdc8 == <<branch_rel_bra, w_izx, nop_2b_2c, nop_1b_1c, w_zp, w_zp, w_zp, rw_zp_cmos, imp,
          r_imm, imp, nop_1b_1c, w_abs, w_abs, w_abs, bbr_bbs_zp_rel>>
Wdc9 == <<branch_rel, cmos_w_izy, w_izp, nop_1b_1c, w_zpx, w_zpx, w_zpy, rw_zp_cmos, imp,
          cmos_w_aby, imp, nop_1b_1c, w_abs, cmos_w_abx, cmos_w_abx, bbr_bbs_zp_rel>>
WdcA == <<r_imm, r_izx, r_imm, nop_1b_1c, r_zp, r_zp, r_zp, rw_zp_cmos, imp, r_imm, imp,
          nop_1b_1c, r_abs, r_abs, r_abs, bbr_bbs_zp_rel>>
WdcB == <<branch_rel, cmos_r_izy, r_izp, nop_1b_1c, r_zpx, r_zpx, r_zpy, rw_zp_cmos, imp,
          cmos_r_aby, imp, nop_1b_1c, cmos_r_abx, cmos_r_abx, cmos_r_aby, bbr_bbs_zp_rel>>
WdcC == <<r_imm, r_izx, nop_2b_2c, nop_1b_1c, r_zp, r_zp, rw_zp_cmos, rw_zp_cmos, imp, r_imm,
          imp, nop_imp, r_abs, r_abs, rw_abs_cmos, bbr_bbs_zp_rel>>
WdcD == <<branch_rel, cmos_r_izy, r_izp, nop_1b_1c, nop_zpx_read, r_zpx, rw_zpx_cmos,
          rw_zp_cmos, imp_cld, cmos_r_aby, stack_push, nop_zpx_read, nop_3b_4c, cmos_r_abx,
          cmos_rw_abx, bbr_bbs_zp_rel>>
WdcE == <<r_imm, dec_r_izx, nop_2b_2c, nop_1b_1c, r_zp, dec_r_zp, rw_zp_cmos, rw_zp_cmos, imp,
          dec_r_imm, nop_imp, nop_1b_1c, r_abs, dec_r_abs, rw_abs_cmos, bbr_bbs_zp_rel>>
WdcF == <<branch_rel, dec_r_izy, r_izp_wdc_decimal, nop_1b_1c, nop_zpx_read, dec_r_zpx,
          rw_zpx_cmos, rw_zp_cmos, imp_sed, dec_r_aby, stack_pull, nop_1b_1c, nop_3b_4c,
          dec_r_abx, cmos_rw_abx, bbr_bbs_zp_rel>>

\* The Rockwell 65C02 opcodes, sixteen in a row: cycle for cycle the WDC opcodes.
Rw0 == Wdc0
Rw1 == Wdc1
Rw2 == Wdc2
Rw3 == Wdc3
Rw4 == Wdc4
Rw5 == Wdc5
Rw6 == Wdc6
Rw7 == Wdc7
Rw8 == Wdc8
Rw9 == Wdc9
RwA == WdcA
RwB == WdcB
RwC == WdcC
RwD == WdcD
RwE == WdcE
RwF == WdcF

\* The Synertek 65C02 opcodes, sixteen in a row: the WDC opcodes
\* without the bit instructions of columns 7 and F.
St0 == [Wdc0 EXCEPT ![8] = nop_zp_read, ![16] = st_nop_abs_read]
St1 == [Wdc1 EXCEPT ![8] = nop_zpx_read, ![16] = st_nop_abs_read_high_dummy]
St2 == [Wdc2 EXCEPT ![8] = nop_zp_read, ![16] = st_nop_abs_read]
St3 == [Wdc3 EXCEPT ![8] = nop_zpx_read, ![16] = st_nop_abs_read_high_dummy]
St4 == [Wdc4 EXCEPT ![8] = nop_zp_read, ![16] = st_nop_abs_read]
St5 == [Wdc5 EXCEPT ![8] = nop_zpx_read, ![16] = st_nop_abs_read_high_dummy]
St6 == [Wdc6 EXCEPT ![8] = nop_zp_read, ![16] = st_nop_abs_read]
St7 == [Wdc7 EXCEPT ![8] = nop_zpx_read, ![16] = st_nop_abs_read_high_dummy]
St8 == [Wdc8 EXCEPT ![8] = nop_zp_read, ![16] = st_nop_abs_read]
St9 == [Wdc9 EXCEPT ![8] = nop_zpx_read, ![16] = st_nop_abs_read_high_dummy]
StA == [WdcA EXCEPT ![8] = nop_zp_read, ![16] = st_nop_abs_read]
StB == [WdcB EXCEPT ![8] = nop_zpx_read, ![16] = st_nop_abs_read_high_dummy]
StC == [WdcC EXCEPT ![8] = nop_zp_read, ![16] = st_nop_abs_read]
StD == [WdcD EXCEPT ![8] = nop_zpx_read, ![16] = st_nop_abs_read_high_dummy]
StE == [WdcE EXCEPT ![8] = nop_zp_read, ![16] = st_nop_abs_read]
StF == [WdcF EXCEPT ![8] = nop_zpx_read, ![16] = st_nop_abs_read_high_dummy]

\* The service slots 256..263: the resolver of service mode, the dispatch after an eight-cycle
\* illegal opcode, reset (whose eight cycles run on into the next slot), goto, NMI and IRQ.
Services(nmi, irq) ==
  << <<"interrupt_resolver">>, <<"dispatch">>, <<"internal_reset">>,
     <<"restart_read_hhff", "restart_read_zzhh_fetch", "restart_read_zzhh", "reset_stack_read",
       "reset_stack_read", "reset_stack_read", "reset_vec_lo", "reset_vec_hi">>,
     <<"latch_pch_fetch", "dispatch">>, <<"fetch", "dispatch">>, nmi, irq >>

\* A hardware interrupt from the dummy read to the dispatch of its handler's first opcode.
Entry(push, vectorLow, vectorHigh) ==
  <<"read_pc", "stack_push_pc_high", "stack_push_pc_low", push, vectorLow, vectorHigh,
    "latch_pch_fetch", "dispatch">>

NmosServices == Services(Entry("nmi_c3_push_p", "nmi_c4_vec_lo", "nmos_nmi_c5_vec_hi"),
                         Entry("irq_c3_push_p", "irq_c4_vec_lo", "nmos_irq_c5_vec_hi"))
CmosServices == Services(Entry("cmos_nmi_c3_push_p", "nmi_c4_vec_lo", "cmos_nmi_c5_vec_hi"),
                         Entry("cmos_irq_c3_push_p", "irq_c4_vec_lo", "cmos_irq_c5_vec_hi"))

NmosSlots == Nmos0 \o Nmos1 \o Nmos2 \o Nmos3 \o Nmos4 \o Nmos5 \o Nmos6 \o Nmos7
          \o Nmos8 \o Nmos9 \o NmosA \o NmosB \o NmosC \o NmosD \o NmosE \o NmosF \o NmosServices
NesSlots == Nes0 \o Nes1 \o Nes2 \o Nes3 \o Nes4 \o Nes5 \o Nes6 \o Nes7
         \o Nes8 \o Nes9 \o NesA \o NesB \o NesC \o NesD \o NesE \o NesF \o NmosServices
WdcSlots == Wdc0 \o Wdc1 \o Wdc2 \o Wdc3 \o Wdc4 \o Wdc5 \o Wdc6 \o Wdc7
         \o Wdc8 \o Wdc9 \o WdcA \o WdcB \o WdcC \o WdcD \o WdcE \o WdcF \o CmosServices
RwSlots == Rw0 \o Rw1 \o Rw2 \o Rw3 \o Rw4 \o Rw5 \o Rw6 \o Rw7
        \o Rw8 \o Rw9 \o RwA \o RwB \o RwC \o RwD \o RwE \o RwF \o CmosServices
StSlots == St0 \o St1 \o St2 \o St3 \o St4 \o St5 \o St6 \o St7
        \o St8 \o St9 \o StA \o StB \o StC \o StD \o StE \o StF \o CmosServices

Slots == <<NmosSlots, NesSlots, WdcSlots, RwSlots, StSlots>>

\* qe6502_control_store; the entries the source does not list are null pointers.
ControlStore ==
  LET slots == Slots
  IN  [i \in 0..20479 |->
         LET block == slots[(i \div 4096) + 1]
             slot  == ((i \div 8) % 512) + 1
             cycle == (i % 8) + 1
         IN  IF slot <= Len(block) /\ cycle <= Len(block[slot])
             THEN block[slot][cycle] ELSE "null"]

=============================================================================
