---------------------------- MODULE X86Encoding ----------------------------
(***************************************************************************)
(* The byte-level encoders of src/jit/x86-objcode.c, and emit_insn putting *)
(* their output one instruction after another into the buffer.            *)
(*                                                                         *)
(* Each emit_* function is an operator from an instruction record (and the *)
(* offset it is emitted at) to its bytes.  Conversions are modelled by     *)
(* what they do: emit() keeps the low byte of its argument (v % 256),      *)
(* emit_imm32 writes four little-endian bytes of a two's-complement int.  *)
(* The bytes are checked against a reference IA-32 decoder written from   *)
(* the Intel manual (ModR/M and SIB tables), not from the encoders.        *)
(***************************************************************************)
EXTENDS Integers, Sequences, SequencesExt

CONSTANTS
    Progs,      \* candidate instruction sequences handed to emit_insn
    Trampolines \* candidate [cu, target] pairs handed to emit_trampoline

VARIABLES
    prog,       \* the instruction list being emitted
    pc,         \* index of the next instruction
    buf,        \* the buffer's bytes
    tramp       \* the trampoline stub: its cu, call target and bytes

vars == <<prog, pc, buf, tramp>>

(***************************************************************************)
(* Encoding helpers, as in the code.                                       *)
(***************************************************************************)
RegCode == [REG_EAX |-> 0, REG_ECX |-> 1, REG_EDX |-> 2, REG_EBX |-> 3,
            REG_ESP |-> 4, REG_EBP |-> 5]

\* encode_reg
EncodeReg(r) == RegCode[r]

IsImm8(v) == v >= -128 /\ v <= 127

\* emit(): the argument converted to unsigned char
Byte(v) == v % 256

\* encode_modrm and encode_sib share one layout
EncodeModRM(mod, reg, rm) == (mod % 4) * 64 + (reg % 8) * 8 + (rm % 8)
EncodeSIB(scale, index, base) == EncodeModRM(scale, index, base)

\* emit_imm32: the int's bytes, least significant first
Imm32(v) == [k \in 1..4 |-> (v \div (256 ^ (k - 1))) % 256]

\* mutant: the one-byte form used whatever the value
EmitImmAlways8(v) == <<Byte(v)>>

\* emit_imm: one byte when is_imm_8, else four
EmitImm(v) == IF IsImm8(v) THEN <<Byte(v)>> ELSE Imm32(v)

\* mutant: no SIB byte after rm = 100 for an ESP base
EmitMembaseRegNoSib(opc, base, disp, dst) ==
    <<opc, EncodeModRM(IF IsImm8(disp) THEN 1 ELSE 2, EncodeReg(dst),
                       EncodeReg(base))>> \o EmitImm(disp)

\* emit_membase_reg
EmitMembaseReg(opc, base, disp, dst) ==
    LET needsSib == base = "REG_ESP"
        rm == IF needsSib THEN 4 ELSE EncodeReg(base)
        mod == IF IsImm8(disp) THEN 1 ELSE 2
    IN  <<opc, EncodeModRM(mod, EncodeReg(dst), rm)>>
        \o (IF needsSib THEN <<EncodeSIB(0, 4, EncodeReg(base))>> ELSE <<>>)
        \o EmitImm(disp)

\* emit_mov_imm_membase
EmitMovImmMembase(imm, base, disp) ==
    LET mod == IF disp # 0 THEN 1 ELSE 0
    IN  <<\hc7, EncodeModRM(mod, 0, EncodeReg(base))>>
        \o (IF disp # 0 THEN <<Byte(disp)>> ELSE <<>>)
        \o Imm32(imm)

\* emit_mov_reg_membase
EmitMovRegMembase(src, base, disp) ==
    <<\h89, EncodeModRM(IF IsImm8(disp) THEN 1 ELSE 2, EncodeReg(src),
                        EncodeReg(base))>> \o EmitImm(disp)

\* __emit_div_mul_membase_reg (dest is asserted to be EAX)
EmitDivMulMembase(ext, base, disp) ==
    <<\hf7, EncodeModRM(IF IsImm8(disp) THEN 1 ELSE 2, ext, EncodeReg(base))>>
    \o EmitImm(disp)

\* emit_mov_memindex_reg and emit_mov_reg_memindex
EmitMemindex(opc, reg, base, index, shift) ==
    <<opc, EncodeModRM(0, EncodeReg(reg), 4),
     EncodeSIB(shift, EncodeReg(index), EncodeReg(base))>>

\* mutant: opcode 0x83 kept for a 32-bit immediate
EmitAluImmRegOpc83(ext, imm, reg) ==
    <<\h83, EncodeModRM(3, ext, EncodeReg(reg))>> \o EmitImm(imm)

\* emit_alu_imm_reg
EmitAluImmReg(ext, imm, reg) ==
    <<IF IsImm8(imm) THEN \h83 ELSE \h81, EncodeModRM(3, ext, EncodeReg(reg))>>
    \o EmitImm(imm)

\* __emit_push_imm
EmitPushImm(imm) == <<IF IsImm8(imm) THEN \h6a ELSE \h68>> \o EmitImm(imm)

\* __emit_call: disp = call_target - buffer_current(buf) - CALL_INSN_SIZE
EmitCall(at, target) == <<\he8>> \o Imm32(target - at - 5)

\* branch_rel_addr of __emit_branch for an emitted target, then
\* emit_branch_rel
EmitBranch(prefix, opc, at, target) ==
    LET rel == target - at - 5 - (IF prefix # 0 THEN 1 ELSE 0)
    IN  (IF prefix # 0 THEN <<prefix>> ELSE <<>>) \o <<opc>> \o Imm32(rel)

\* emit_indirect_jump_reg: jmp *%reg (mod 11, /4)
EmitIndirectJumpReg(reg) == <<\hff, EncodeModRM(3, 4, EncodeReg(reg))>>

\* mutant: the call displacement taken from the stub's start
EmitTrampolineCallAtStart(cu, target) ==
    EmitPushImm(cu) \o EmitCall(0, target)
    \o EmitAluImmReg(0, 4, "REG_ESP") \o EmitIndirectJumpReg("REG_EAX")

(* emit_trampoline into an empty buffer: push cu, call the compiler entry *)
(* (its displacement taken at the buffer's current offset), pop the       *)
(* argument with add $4, %esp, and jump through EAX.                      *)
EmitTrampoline(cu, target) ==
    LET push == EmitPushImm(cu)
    IN  push \o EmitCall(Len(push), target)
        \o EmitAluImmReg(0, 4, "REG_ESP") \o EmitIndirectJumpReg("REG_EAX")

MembaseOpc == [INSN_ADD_MEMBASE_REG |-> \h03, INSN_AND_MEMBASE_REG |-> \h23,
               INSN_CMP_MEMBASE_REG |-> \h3b, INSN_MOV_MEMBASE_REG |-> \h8b,
               INSN_OR_MEMBASE_REG |-> \h0b, INSN_SUB_MEMBASE_REG |-> \h2b,
               INSN_XOR_MEMBASE_REG |-> \h33]

ShiftExt == [INSN_SHL_REG_REG |-> 4, INSN_SHR_REG_REG |-> 5, INSN_SAR_REG_REG |-> 7]

(* emit_insn's dispatch through emitters[] for an instruction i emitted at *)
(* buffer offset at.                                                       *)
Encode(i, at) ==
    CASE i.type \in DOMAIN MembaseOpc ->
            EmitMembaseReg(MembaseOpc[i.type], i.base, i.disp, i.dst)
      [] i.type = "INSN_DIV_MEMBASE_REG" -> EmitDivMulMembase(7, i.base, i.disp)
      [] i.type = "INSN_MUL_MEMBASE_REG" -> EmitDivMulMembase(4, i.base, i.disp)
      [] i.type = "INSN_ADD_IMM_REG" -> EmitAluImmReg(0, i.imm, i.dst)
      [] i.type = "INSN_CMP_IMM_REG" -> EmitAluImmReg(7, i.imm, i.dst)
      [] i.type = "INSN_CALL_REG" -> <<\hff, EncodeModRM(0, 2, EncodeReg(i.src))>>
      [] i.type = "INSN_CALL_REL" -> EmitCall(at, i.target)
      [] i.type = "INSN_CLTD_REG_REG" -> <<\h99>>
      [] i.type = "INSN_MOV_IMM_MEMBASE" -> EmitMovImmMembase(i.imm, i.base, i.disp)
      [] i.type = "INSN_MOV_IMM_REG" -> <<\hb8 + EncodeReg(i.dst)>> \o Imm32(i.imm)
      [] i.type = "INSN_MOV_MEMINDEX_REG" ->
            EmitMemindex(\h8b, i.dst, i.base, i.index, i.shift)
      [] i.type = "INSN_MOV_REG_MEMBASE" -> EmitMovRegMembase(i.src, i.base, i.disp)
      [] i.type = "INSN_MOV_REG_MEMINDEX" ->
            EmitMemindex(\h89, i.src, i.base, i.index, i.shift)
      [] i.type = "INSN_MOV_REG_REG" ->
            <<\h89, EncodeModRM(3, EncodeReg(i.src), EncodeReg(i.dst))>>
      [] i.type = "INSN_NEG_REG" -> <<\hf7, EncodeModRM(3, 3, EncodeReg(i.dst))>>
      [] i.type = "INSN_PUSH_IMM" -> EmitPushImm(i.imm)
      [] i.type = "INSN_PUSH_REG" -> <<\h50 + EncodeReg(i.src)>>
      [] i.type \in DOMAIN ShiftExt ->
            <<\hd3, EncodeModRM(3, ShiftExt[i.type], EncodeReg(i.dst))>>
      [] i.type = "INSN_JE_BRANCH" -> EmitBranch(\h0f, \h84, at, i.target)
      [] i.type = "INSN_JNE_BRANCH" -> EmitBranch(\h0f, \h85, at, i.target)
      [] i.type = "INSN_JMP_BRANCH" -> EmitBranch(0, \he9, at, i.target)

-----------------------------------------------------------------------------
Init ==
    /\ prog \in Progs
    /\ pc = 1
    /\ buf = <<>>
    /\ tramp = [cu |-> 0, target |-> 0, bytes |-> <<>>]

(* emit_insn: the instruction's emitter appends its bytes to the buffer.  *)
EmitInsn ==
    /\ pc <= Len(prog)
    /\ buf' = buf \o Encode(prog[pc], Len(buf))
    /\ pc' = pc + 1
    /\ UNCHANGED <<prog, tramp>>

(* emit_trampoline, once per compilation unit, into the unit's own stub   *)
(* buffer; it may happen before or after the body is emitted.             *)
EmitTrampolineStub ==
    /\ tramp.bytes = <<>>
    /\ \E t \in Trampolines :
          tramp' = [cu |-> t.cu, target |-> t.target,
                    bytes |-> EmitTrampoline(t.cu, t.target)]
    /\ UNCHANGED <<prog, pc, buf>>

Finished ==
    /\ pc > Len(prog)
    /\ UNCHANGED vars

Next == EmitInsn \/ EmitTrampolineStub \/ Finished

Spec == Init /\ [][Next]_vars

-----------------------------------------------------------------------------
(***************************************************************************)
(* Reference IA-32 decoder (Intel SDM vol. 2, tables 2-2 and 2-3), for the *)
(* opcodes the emitter produces.  An operand is a record; a memory operand *)
(* is base + index * 2^scale + disp, "none" standing for a missing base or *)
(* index.                                                                  *)
(***************************************************************************)
RegName == [n \in 0..7 |-> <<"REG_EAX", "REG_ECX", "REG_EDX", "REG_EBX",
                            "REG_ESP", "REG_EBP", "REG_ESI", "REG_EDI">>[n + 1]]

Opnd(k, b, x, sc, d) == [k |-> k, base |-> b, index |-> x, scale |-> sc, disp |-> d]
RegOp(r) == Opnd("reg", r, "none", 0, 0)
MemOp(b, x, sc, d) == Opnd("mem", b, x, sc, d)
ImmOp(v) == Opnd("imm", "none", "none", 0, v)
TargetOp(a) == Opnd("target", "none", "none", 0, a)
NoOp == Opnd("none", "none", "none", 0, 0)

\* byte i of s, reading past the end as 0 (the decode is then truncated)
At(s, i) == IF i <= Len(s) THEN s[i] ELSE 0

Signed8(b) == IF b >= 128 THEN b - 256 ELSE b
Signed32(s, p) ==
    At(s, p) + 256 * At(s, p + 1) + 65536 * At(s, p + 2)
    + 16777216 * Signed8(At(s, p + 3))

(* The r/m operand whose ModR/M byte is at p: [reg field, operand, length *)
(* from the ModR/M byte on].                                              *)
DecodeRM(s, p) ==
    LET m == At(s, p)   mod == m \div 64   reg == (m \div 8) % 8   rm == m % 8
        sib == At(s, p + 1)
        sibBase == sib % 8
        noBase == rm = 4 /\ mod = 0 /\ sibBase = 5
        base == CASE rm = 4 -> IF noBase THEN "none" ELSE RegName[sibBase]
                  [] mod = 0 /\ rm = 5 -> "none"
                  [] OTHER -> RegName[rm]
        index == IF rm = 4 /\ (sib \div 8) % 8 # 4 THEN RegName[(sib \div 8) % 8]
                 ELSE "none"
        scale == IF index # "none" THEN sib \div 64 ELSE 0
        dpos == p + 1 + (IF rm = 4 THEN 1 ELSE 0)
        dsize == CASE mod = 1 -> 1
                   [] mod = 2 \/ base = "none" -> 4
                   [] OTHER -> 0
        disp == CASE dsize = 1 -> Signed8(At(s, dpos))
                  [] dsize = 4 -> Signed32(s, dpos)
                  [] OTHER -> 0
    IN  IF mod = 3 THEN [reg |-> reg, op |-> RegOp(RegName[rm]), len |-> 1]
        ELSE [reg |-> reg, op |-> MemOp(base, index, scale, disp),
              len |-> dpos + dsize - p]

Dec(mn, dst, src, len) == [mn |-> mn, dst |-> dst, src |-> src, len |-> len]

AluRM == [n \in {\h03, \h0b, \h23, \h2b, \h33, \h3b, \h8b} |->
            CASE n = \h03 -> "add" [] n = \h0b -> "or" [] n = \h23 -> "and"
              [] n = \h2b -> "sub" [] n = \h33 -> "xor" [] n = \h3b -> "cmp"
              [] n = \h8b -> "mov"]
Grp1 == [n \in 0..7 |-> <<"add", "or", "adc", "sbb", "and", "sub", "xor", "cmp">>[n + 1]]
Grp3 == [n \in 0..7 |-> <<"test", "bad", "not", "neg", "mul", "imul", "div", "idiv">>[n + 1]]
Grp2 == [n \in 0..7 |-> <<"rol", "ror", "rcl", "rcr", "shl", "shr", "bad", "sar">>[n + 1]]
Grp5 == [n \in 0..7 |-> <<"inc", "dec", "call", "callf", "jmp", "jmpf", "push", "bad">>[n + 1]]

(* The instruction at position p of s, at buffer offset p - 1.            *)
DecodeAt(s, p) ==
    LET o == At(s, p)   r == DecodeRM(s, p + 1)   ext == r.reg
        rel(n) == TargetOp((p - 1) + n + Signed32(s, p + n - 4))
    IN  CASE o \in DOMAIN AluRM ->
                Dec(AluRM[o], RegOp(RegName[r.reg]), r.op, 1 + r.len)
          [] o = \h89 -> Dec("mov", r.op, RegOp(RegName[r.reg]), 1 + r.len)
          [] o = \hc7 /\ ext = 0 ->
                Dec("mov", r.op, ImmOp(Signed32(s, p + 1 + r.len)), 5 + r.len)
          [] o = \h81 -> Dec(Grp1[ext], r.op, ImmOp(Signed32(s, p + 1 + r.len)), 5 + r.len)
          [] o = \h83 -> Dec(Grp1[ext], r.op, ImmOp(Signed8(At(s, p + 1 + r.len))), 2 + r.len)
          [] o = \hf7 /\ ext \in {4, 7} -> Dec(Grp3[ext], RegOp("REG_EAX"), r.op, 1 + r.len)
          [] o = \hf7 -> Dec(Grp3[ext], r.op, NoOp, 1 + r.len)
          [] o = \hd3 -> Dec(Grp2[ext], r.op, RegOp("REG_ECX"), 1 + r.len)
          [] o = \hff -> Dec(Grp5[ext], NoOp, r.op, 1 + r.len)
          [] o = \h99 -> Dec("cltd", NoOp, NoOp, 1)
          [] o \in \h50..\h57 -> Dec("push", NoOp, RegOp(RegName[o - \h50]), 1)
          [] o \in \hb8..\hbf -> Dec("mov", RegOp(RegName[o - \hb8]), ImmOp(Signed32(s, p + 1)), 5)
          [] o = \h6a -> Dec("push", NoOp, ImmOp(Signed8(At(s, p + 1))), 2)
          [] o = \h68 -> Dec("push", NoOp, ImmOp(Signed32(s, p + 1)), 5)
          [] o = \he8 -> Dec("call", NoOp, rel(5), 5)
          [] o = \he9 -> Dec("jmp", NoOp, rel(5), 5)
          [] o = \h0f /\ At(s, p + 1) = \h84 -> Dec("je", NoOp, rel(6), 6)
          [] o = \h0f /\ At(s, p + 1) = \h85 -> Dec("jne", NoOp, rel(6), 6)
          [] OTHER -> Dec("bad", NoOp, NoOp, 1)

(* The buffer decoded from position p on; an instruction running past the *)
(* end decodes as "truncated".                                            *)
RECURSIVE DecodeFrom(_, _)
DecodeFrom(s, p) ==
    IF p > Len(s) THEN <<>>
    ELSE LET d == DecodeAt(s, p)
         IN  IF p + d.len - 1 > Len(s)
             THEN <<Dec("truncated", NoOp, NoOp, d.len)>>
             ELSE <<d>> \o DecodeFrom(s, p + d.len)

(* What an instruction means: the operation the selector asks for (spec    *)
(* section 4.4), at the operands it names.                                 *)
MembaseMn == [t \in DOMAIN MembaseOpc |-> AluRM[MembaseOpc[t]]]

Meaning(i) ==
    LET mb == MemOp(i.base, "none", 0, i.disp)
        mi == MemOp(i.base, i.index, i.shift, 0)
    IN CASE i.type \in DOMAIN MembaseOpc -> Dec(MembaseMn[i.type], RegOp(i.dst), mb, 0)
         [] i.type = "INSN_DIV_MEMBASE_REG" -> Dec("idiv", RegOp("REG_EAX"), mb, 0)
         [] i.type = "INSN_MUL_MEMBASE_REG" -> Dec("mul", RegOp("REG_EAX"), mb, 0)
         [] i.type = "INSN_ADD_IMM_REG" -> Dec("add", RegOp(i.dst), ImmOp(i.imm), 0)
         [] i.type = "INSN_CMP_IMM_REG" -> Dec("cmp", RegOp(i.dst), ImmOp(i.imm), 0)
         [] i.type = "INSN_CALL_REG" -> Dec("call", NoOp, RegOp(i.src), 0)
         [] i.type = "INSN_CALL_REL" -> Dec("call", NoOp, TargetOp(i.target), 0)
         [] i.type = "INSN_CLTD_REG_REG" -> Dec("cltd", NoOp, NoOp, 0)
         [] i.type = "INSN_MOV_IMM_MEMBASE" -> Dec("mov", mb, ImmOp(i.imm), 0)
         [] i.type = "INSN_MOV_IMM_REG" -> Dec("mov", RegOp(i.dst), ImmOp(i.imm), 0)
         [] i.type = "INSN_MOV_MEMINDEX_REG" -> Dec("mov", RegOp(i.dst), mi, 0)
         [] i.type = "INSN_MOV_REG_MEMBASE" -> Dec("mov", mb, RegOp(i.src), 0)
         [] i.type = "INSN_MOV_REG_MEMINDEX" -> Dec("mov", mi, RegOp(i.src), 0)
         [] i.type = "INSN_MOV_REG_REG" -> Dec("mov", RegOp(i.dst), RegOp(i.src), 0)
         [] i.type = "INSN_NEG_REG" -> Dec("neg", RegOp(i.dst), NoOp, 0)
         [] i.type = "INSN_PUSH_IMM" -> Dec("push", NoOp, ImmOp(i.imm), 0)
         [] i.type = "INSN_PUSH_REG" -> Dec("push", NoOp, RegOp(i.src), 0)
         [] i.type = "INSN_SHL_REG_REG" -> Dec("shl", RegOp(i.dst), RegOp("REG_ECX"), 0)
         [] i.type = "INSN_SHR_REG_REG" -> Dec("shr", RegOp(i.dst), RegOp("REG_ECX"), 0)
         [] i.type = "INSN_SAR_REG_REG" -> Dec("sar", RegOp(i.dst), RegOp("REG_ECX"), 0)
         [] i.type = "INSN_JE_BRANCH" -> Dec("je", NoOp, TargetOp(i.target), 0)
         [] i.type = "INSN_JNE_BRANCH" -> Dec("jne", NoOp, TargetOp(i.target), 0)
         [] i.type = "INSN_JMP_BRANCH" -> Dec("jmp", NoOp, TargetOp(i.target), 0)

Strip(d) == [d EXCEPT !.len = 0]

(* The four steps of a trampoline (spec section 4.7): push the unit as    *)
(* the argument, call the compiler entry, drop the argument slot, jump    *)
(* through EAX, where the entry returns the compiled code's address.      *)
TrampolineMeaning(cu, target) ==
    << Dec("push", NoOp, ImmOp(cu), 0),
       Dec("call", NoOp, TargetOp(target), 0),
       Dec("add", RegOp("REG_ESP"), ImmOp(4), 0),
       Dec("jmp", NoOp, RegOp("REG_EAX"), 0) >>

-----------------------------------------------------------------------------
(* Decoding the buffer from its start gives back, instruction by          *)
(* instruction, the operation and operands each emitted instruction asks   *)
(* for: every emit_* function picks ModR/M, SIB, displacement and         *)
(* immediate forms the processor reads as meant, and its length is the one *)
(* the next instruction's offset (and every branch displacement) assumes.  *)
DecodesAsEmitted ==
    LET decoded == DecodeFrom(buf, 1)
    IN  [k \in DOMAIN decoded |-> Strip(decoded[k])]
          = [k \in 1..(pc - 1) |-> Meaning(prog[k])]

(* The emitter's length abstraction is exact: for every emitted           *)
(* instruction the length CodeEmitter's EncodedSize gives it, which the   *)
(* offsets and branch displacements there are computed from, is the       *)
(* length of the instruction the processor decodes at that offset.         *)
(* The trampoline stub decodes as exactly its four steps: the call lands  *)
(* on the compiler entry although it follows a push whose length depends *)
(* on the unit's address, and the final jump goes to the address in EAX, *)
(* not to the word EAX points to.                                        *)
TrampolineDecodes ==
    tramp.bytes # <<>> =>
        LET decoded == DecodeFrom(tramp.bytes, 1)
        IN  [k \in DOMAIN decoded |-> Strip(decoded[k])]
              = TrampolineMeaning(tramp.cu, tramp.target)

Emitter == INSTANCE CodeEmitter WITH
    NrBlocks <- 1, Programs <- {}, LocalsCounts <- {0}, prog <- prog,
    nrLocals <- 0, pc <- pc, bufLen <- Len(buf), offset <- 0, escaped <- 0,
    rel <- 0, backpatch <- 0, emitted <- 0, blockAddr <- 0

LengthsAgree ==
    LET decoded == DecodeFrom(buf, 1)
    IN  /\ Len(decoded) = pc - 1
        /\ \A k \in 1..(pc - 1) : decoded[k].len = Emitter!EncodedSize(prog[k])
=============================================================================
