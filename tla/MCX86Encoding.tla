--------------------------- MODULE MCX86Encoding ---------------------------
(***************************************************************************)
(* Instruction lists for X86Encoding: every instruction type of the        *)
(* emitters[] table with the operands the instruction selector gives it   *)
(* (spec section 4.4, src/test/jit/insn-selector-test.c): frame-pointer    *)
(* locals and arguments (EBP - 4, EBP + 12), the objectref at ESP + 0,     *)
(* field and method-table offsets off EAX, and displacements and           *)
(* immediates on both sides of the 8-bit boundary.                         *)
(***************************************************************************)
EXTENDS X86Encoding

I(t, src, dst, base, index, shift, disp, imm, target) ==
    [type |-> t, src |-> src, dst |-> dst, base |-> base, index |-> index,
     shift |-> shift, disp |-> disp, imm |-> imm, target |-> target]

MB(t, base, disp, dst) == I(t, "none", dst, base, "none", 0, disp, 0, 0)
RM(t, src, base, disp) == I(t, src, "none", base, "none", 0, disp, 0, 0)
IR(t, imm, dst) == I(t, "none", dst, "none", "none", 0, 0, imm, 0)
RR(t, src, dst) == I(t, src, dst, "none", "none", 0, 0, 0, 0)
BR(t, target) == I(t, "none", "none", "none", "none", 0, 0, 0, target)

\* 0xcafebabe as the selector's long immediate on IA-32
Cafebabe == -889275714

SelectedInsns ==
    { MB("INSN_MOV_MEMBASE_REG", "REG_ESP", 0, "REG_EAX"),
      MB("INSN_MOV_MEMBASE_REG", "REG_EAX", 400, "REG_EAX"),
      MB("INSN_MOV_MEMBASE_REG", "REG_EBP", -4, "REG_EDX"),
      MB("INSN_ADD_MEMBASE_REG", "REG_EBP", 12, "REG_EAX"),
      MB("INSN_AND_MEMBASE_REG", "REG_EBP", -132, "REG_EAX"),
      MB("INSN_CMP_MEMBASE_REG", "REG_EBP", 12, "REG_EAX"),
      MB("INSN_OR_MEMBASE_REG", "REG_EBP", 8, "REG_EAX"),
      MB("INSN_SUB_MEMBASE_REG", "REG_EBP", 12, "REG_EAX"),
      MB("INSN_XOR_MEMBASE_REG", "REG_EBP", 12, "REG_EAX"),
      MB("INSN_DIV_MEMBASE_REG", "REG_EBP", 12, "REG_EAX"),
      MB("INSN_MUL_MEMBASE_REG", "REG_EBP", -300, "REG_EAX"),
      IR("INSN_ADD_IMM_REG", 8, "REG_EAX"),
      IR("INSN_ADD_IMM_REG", 1000, "REG_ESP"),
      IR("INSN_CMP_IMM_REG", -129, "REG_EAX"),
      BR("INSN_CALL_REL", 100000),
      RR("INSN_CLTD_REG_REG", "REG_EAX", "REG_EDX"),
      I("INSN_MOV_IMM_MEMBASE", "none", "none", "REG_EAX", "none", 0, 8, Cafebabe, 0),
      I("INSN_MOV_IMM_MEMBASE", "none", "none", "REG_EAX", "none", 0, 0, 7, 0),
      IR("INSN_MOV_IMM_REG", Cafebabe, "REG_EDX"),
      I("INSN_MOV_MEMINDEX_REG", "none", "REG_EAX", "REG_EAX", "REG_EDX", 2, 0, 0, 0),
      I("INSN_MOV_REG_MEMINDEX", "REG_EAX", "none", "REG_ECX", "REG_EDX", 2, 0, 0, 0),
      RM("INSN_MOV_REG_MEMBASE", "REG_EAX", "REG_EBP", -4),
      RM("INSN_MOV_REG_MEMBASE", "REG_EDX", "REG_EBP", 200),
      RR("INSN_MOV_REG_REG", "REG_EDX", "REG_EAX"),
      RR("INSN_MOV_REG_REG", "REG_ESP", "REG_EBP"),
      RR("INSN_NEG_REG", "none", "REG_EAX"),
      IR("INSN_PUSH_IMM", -1, "none"),
      IR("INSN_PUSH_IMM", 100000, "none"),
      RR("INSN_PUSH_REG", "REG_EBP", "none"),
      RR("INSN_SAR_REG_REG", "REG_ECX", "REG_EAX"),
      RR("INSN_SHL_REG_REG", "REG_ECX", "REG_EAX"),
      RR("INSN_SHR_REG_REG", "REG_ECX", "REG_EAX"),
      BR("INSN_JE_BRANCH", 0),
      BR("INSN_JNE_BRANCH", 64),
      BR("INSN_JMP_BRANCH", 0) }

\* every pair of selected instructions, so each is also emitted at an offset
MCProgs == {<<a, b>> : a, b \in SelectedInsns}

\* compilation units at a text-segment and a high heap address (negative
\* as a long), and compiler entries after and before the stub
MCTrampolines ==
    [cu : {134520832, -1208221696}, target : {100000, -5000}]

MCNoTrampolines == {}

\* store(class_field(f), imm) with a static_value displacement past 127
MCBigDispStore ==
    {<<I("INSN_MOV_IMM_MEMBASE", "none", "none", "REG_EAX", "none", 0, 200, 1, 0),
       RR("INSN_PUSH_REG", "REG_EAX", "none")>>}

\* invokevirtual's call through the code address loaded into EAX
MCCallReg ==
    {<<MB("INSN_MOV_MEMBASE_REG", "REG_EAX", 16, "REG_EAX"),
       RR("INSN_CALL_REG", "REG_EAX", "none")>>}
=============================================================================
