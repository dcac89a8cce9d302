---------------------------- MODULE CodeEmitter ----------------------------
(***************************************************************************)
(* The IA-32 code emitter of src/jit/x86-objcode.c and the driver that    *)
(* calls it for one compilation unit.                                      *)
(*                                                                         *)
(* The buffer is abstracted to its length (buffer_offset) and to the      *)
(* 32-bit values written at known byte positions (rel): the only bytes    *)
(* any later step reads or rewrites are the rel32 slots of branches.  An  *)
(* instruction's encoding is abstracted to its length, computed by the    *)
(* same case analysis as the emit_* functions (is_imm_8, SIB for ESP,      *)
(* escape prefix).                                                         *)
(*                                                                         *)
(* The driver (emit prologue, emit_body for every block in list order,    *)
(* the exit block last, then the epilogue) lives outside src/ and is      *)
(* modelled from spec section 4.5.                                         *)
(***************************************************************************)
EXTENDS Integers, Sequences, SequencesExt, TLC

CONSTANTS
    NrBlocks,   \* blocks 1..NrBlocks; block NrBlocks is the exit block
    Programs,   \* the candidate block -> instruction-sequence maps
    LocalsCounts \* candidate values of nr_locals for prologue/epilogue

Blocks == 1..NrBlocks
ExitBlock == NrBlocks
NoBlock == 0

\* driver positions: the prologue, each block in list order, the epilogue
PcProlog == 0
PcEpilog == NrBlocks + 1
PcDone == NrBlocks + 2

BranchTypes == {"INSN_JE_BRANCH", "INSN_JNE_BRANCH", "INSN_JMP_BRANCH"}

VARIABLES
    prog,       \* block -> Seq of insn records (bb->insn_list), fixed per run
    nrLocals,   \* nr_locals of the method, fixed per run
    pc,         \* driver position: PcProlog, a block, PcEpilog, PcDone
    bufLen,     \* buffer_offset(buf)
    offset,     \* insn id -> insn->offset (or -1 before the insn is emitted)
    escaped,    \* insn id -> insn->escaped
    rel,        \* byte position -> 32-bit value written there (rel32 slots)
    backpatch,  \* block -> set of insn ids on bb->backpatch_insns
    emitted,    \* block -> bb->is_emitted
    blockAddr   \* history: block -> buffer offset where emit_body began

vars == <<prog, nrLocals, pc, bufLen, offset, escaped, rel, backpatch, emitted,
          blockAddr>>

InsnIds(p) == UNION {{<<b, k>> : k \in DOMAIN p[b]} : b \in Blocks}
Insn(id) == prog[id[1]][id[2]]
IsBranch(id) == Insn(id).type \in BranchTypes

(***************************************************************************)
(* Instruction lengths, as produced by the emit_* functions.               *)
(***************************************************************************)
IsImm8(v) == v >= -128 /\ v <= 127

ImmSize(v) == IF IsImm8(v) THEN 1 ELSE 4

\* mutant: the SIB byte left out of the length
MembaseRegSizeNoSib(i) == 2 + ImmSize(i.disp)

\* emit_membase_reg: opcode, ModR/M, SIB iff the base is ESP, disp8/disp32
MembaseRegSize(i) == 2 + (IF i.base = "REG_ESP" THEN 1 ELSE 0) + ImmSize(i.disp)

\* branch opcodes that need the 0x0f escape byte (__emit_branch's prefix)
BranchPrefix(t) == IF t = "INSN_JMP_BRANCH" THEN 0 ELSE 1

EncodedSize(i) ==
    CASE i.type \in {"INSN_ADD_MEMBASE_REG", "INSN_AND_MEMBASE_REG",
                     "INSN_CMP_MEMBASE_REG", "INSN_MOV_MEMBASE_REG",
                     "INSN_OR_MEMBASE_REG", "INSN_SUB_MEMBASE_REG",
                     "INSN_XOR_MEMBASE_REG"} -> MembaseRegSize(i)
      [] i.type \in {"INSN_DIV_MEMBASE_REG", "INSN_MUL_MEMBASE_REG"} ->
            2 + ImmSize(i.disp)
      [] i.type \in {"INSN_ADD_IMM_REG", "INSN_CMP_IMM_REG"} -> 2 + ImmSize(i.imm)
      [] i.type \in {"INSN_CALL_REG", "INSN_MOV_REG_REG", "INSN_NEG_REG",
                     "INSN_SAR_REG_REG", "INSN_SHL_REG_REG",
                     "INSN_SHR_REG_REG"} -> 2
      [] i.type \in {"INSN_CALL_REL", "INSN_MOV_IMM_REG"} -> 5
      [] i.type \in {"INSN_CLTD_REG_REG", "INSN_PUSH_REG"} -> 1
      [] i.type = "INSN_MOV_IMM_MEMBASE" -> 6 + (IF i.disp # 0 THEN 1 ELSE 0)
      [] i.type \in {"INSN_MOV_MEMINDEX_REG", "INSN_MOV_REG_MEMINDEX"} -> 3
      [] i.type = "INSN_MOV_REG_MEMBASE" -> 2 + ImmSize(i.disp)
      [] i.type = "INSN_PUSH_IMM" -> 1 + ImmSize(i.imm)
      [] i.type \in BranchTypes -> BranchPrefix(i.type) + 1 + 4

\* emit_prolog: push %ebp; mov %esp,%ebp; sub $nr_locals*4,%esp if any
PrologSize(n) == 1 + 2 + (IF n # 0 THEN 2 + ImmSize(n * 4) ELSE 0)

\* emit_epilog: leave or pop %ebp, then ret
EpilogSize(n) == 2

\* mutant: the escape prefix left out of the branch length
BranchRelAddrNoPrefix(insnOffset, isEscaped, targetOffset) ==
    targetOffset - insnOffset - 5

(***************************************************************************)
(* branch_rel_addr: displacement from the end of the branch to the target. *)
(***************************************************************************)
BranchRelAddr(insnOffset, isEscaped, targetOffset) ==
    targetOffset - insnOffset - 5 - (IF isEscaped THEN 1 ELSE 0)

\* mutant: the slot assumed to follow a one-byte opcode in every case
BackpatchOffsetNoPrefix(insnOffset, isEscaped) == insnOffset + 1

\* backpatch_branch_target: the slot follows the opcode and the prefix
BackpatchOffset(insnOffset, isEscaped) ==
    insnOffset + 1 + (IF isEscaped THEN 1 ELSE 0)

(***************************************************************************)
(* One emit_body call threads a record [len, offset, escaped, rel,        *)
(* backpatch] through the block's instructions.                            *)
(***************************************************************************)
\* mutant: pending branches patched but left on the list (no list_del)
BackpatchBranchesKeepList(st, b) ==
    LET patches == {<<BackpatchOffset(st.offset[id], st.escaped[id]),
                      BranchRelAddr(st.offset[id], st.escaped[id], st.len)>> :
                        id \in st.backpatch[b]}
        written == {w[1] : w \in patches}
    IN [st EXCEPT
          !.rel = [p \in DOMAIN st.rel \cup written |->
                     IF p \in written THEN (CHOOSE w \in patches : w[1] = p)[2]
                     ELSE st.rel[p]]]

\* backpatch_branches: patch every pending branch, then empty the list
BackpatchBranches(st, b) ==
    LET patches == {<<BackpatchOffset(st.offset[id], st.escaped[id]),
                      BranchRelAddr(st.offset[id], st.escaped[id], st.len)>> :
                        id \in st.backpatch[b]}
        written == {w[1] : w \in patches}
    IN [st EXCEPT
          !.rel = [p \in DOMAIN st.rel \cup written |->
                     IF p \in written THEN (CHOOSE w \in patches : w[1] = p)[2]
                     ELSE st.rel[p]],
          !.backpatch[b] = {}]

\* mutant: the branch length counted without its 4-byte displacement
EmitBranchShort(st, id) ==
    LET i      == Insn(id)
        esc    == BranchPrefix(i.type) = 1
        t      == i.target
        pos    == st.len + BranchPrefix(i.type) + 1
        addr   == IF emitted[t]
                  THEN BranchRelAddr(st.len, esc, st.offset[<<t, 1>>])
                  ELSE 0
    IN [st EXCEPT
          !.escaped[id] = esc,
          !.rel = (pos :> addr) @@ st.rel,
          !.backpatch[t] = IF emitted[t] THEN @ ELSE @ \cup {id},
          !.len = @ + BranchPrefix(i.type) + 1]

\* __emit_branch: set escaped, resolve against an emitted target or queue
\* the insn on the target's backpatch list, then emit_branch_rel
EmitBranch(st, id) ==
    LET i      == Insn(id)
        esc    == BranchPrefix(i.type) = 1
        t      == i.target
        pos    == st.len + BranchPrefix(i.type) + 1
        addr   == IF emitted[t]
                  THEN BranchRelAddr(st.len, esc, st.offset[<<t, 1>>])
                  ELSE 0
    IN [st EXCEPT
          !.escaped[id] = esc,
          !.rel = (pos :> addr) @@ st.rel,
          !.backpatch[t] = IF emitted[t] THEN @ ELSE @ \cup {id},
          !.len = @ + EncodedSize(i)]

\* emit_insn: record the offset before emitting, then __emit_insn
EmitInsn(st, id) ==
    LET st1 == [st EXCEPT !.offset[id] = st.len]
    IN IF IsBranch(id) THEN EmitBranch(st1, id)
       ELSE [st1 EXCEPT !.len = @ + EncodedSize(Insn(id))]

\* emit_body: drain the block's backpatch list at the current offset, emit
\* every insn in list order, then mark the block emitted
EmitBodyResult(b) ==
    LET st0 == [len |-> bufLen, offset |-> offset, escaped |-> escaped,
                rel |-> rel, backpatch |-> backpatch]
    IN FoldLeftDomain(LAMBDA st, k : EmitInsn(st, <<b, k>>),
                      BackpatchBranches(st0, b), prog[b])

-----------------------------------------------------------------------------

Init ==
    /\ prog \in Programs
    /\ nrLocals \in LocalsCounts
    /\ pc = PcProlog
    /\ bufLen = 0
    /\ offset = [id \in InsnIds(prog) |-> -1]
    /\ escaped = [id \in InsnIds(prog) |-> FALSE]
    /\ rel = <<>>
    /\ backpatch = [b \in Blocks |-> {}]
    /\ emitted = [b \in Blocks |-> FALSE]
    /\ blockAddr = [b \in Blocks |-> -1]

EmitProlog ==
    /\ pc = PcProlog
    /\ bufLen' = bufLen + PrologSize(nrLocals)
    /\ pc' = 1
    /\ UNCHANGED <<prog, nrLocals, offset, escaped, rel, backpatch, emitted,
                   blockAddr>>

EmitBody(b) ==
    /\ pc = b
    /\ LET st == EmitBodyResult(b)
       IN /\ bufLen' = st.len
          /\ offset' = st.offset
          /\ escaped' = st.escaped
          /\ rel' = st.rel
          /\ backpatch' = st.backpatch
    /\ emitted' = [emitted EXCEPT ![b] = TRUE]
    /\ blockAddr' = [blockAddr EXCEPT ![b] = bufLen]
    /\ pc' = b + 1
    /\ UNCHANGED <<prog, nrLocals>>

EmitEpilog ==
    /\ pc = PcEpilog
    /\ bufLen' = bufLen + EpilogSize(nrLocals)
    /\ pc' = PcDone
    /\ UNCHANGED <<prog, nrLocals, offset, escaped, rel, backpatch, emitted,
                   blockAddr>>

\* The unit's code is complete; nothing further happens to it.
Finished ==
    /\ pc = PcDone
    /\ UNCHANGED vars

Next ==
    \/ EmitProlog
    \/ \E b \in Blocks : EmitBody(b)
    \/ EmitEpilog
    \/ Finished

Spec == Init /\ [][Next]_vars /\ WF_vars(Next)

-----------------------------------------------------------------------------
(***************************************************************************)
(* Properties.  The reference quantities come from the spec (section 8):  *)
(* a branch is 5 bytes, 6 with the one-byte escape prefix; its rel32 slot  *)
(* is its last 4 bytes; a block's address is where its code begins.      *)
(***************************************************************************)
RefBranchSize(id) == IF Insn(id).type = "INSN_JMP_BRANCH" THEN 5 ELSE 6
RefSlot(id) == offset[id] + RefBranchSize(id) - 4
EmittedBranches == {id \in InsnIds(prog) : IsBranch(id) /\ offset[id] >= 0}
Target(id) == Insn(id).target

TypeOK ==
    /\ pc \in PcProlog..PcDone
    /\ bufLen \in Nat
    /\ offset \in [InsnIds(prog) -> Int]
    /\ escaped \in [InsnIds(prog) -> BOOLEAN]
    /\ \A p \in DOMAIN rel : p >= 0 /\ p + 4 <= bufLen /\ rel[p] \in Int
    /\ backpatch \in [Blocks -> SUBSET InsnIds(prog)]
    /\ emitted \in [Blocks -> BOOLEAN]
    /\ blockAddr \in [Blocks -> Int]

(* Branch-displacement correctness (spec 8): every emitted branch whose    *)
(* target block has been emitted holds, in its rel32 slot, the distance    *)
(* from the end of the branch to the target's first instruction, whether   *)
(* it was resolved at once (__emit_branch) or later (backpatch_branches).  *)
DisplacementCorrect ==
    \A id \in EmittedBranches :
        emitted[Target(id)] =>
            /\ RefSlot(id) \in DOMAIN rel
            /\ rel[RefSlot(id)] = blockAddr[Target(id)] - (offset[id] + RefBranchSize(id))

(* Backpatch bookkeeping (spec 3): an emitted block has an empty backpatch *)
(* list; an unemitted block's list holds exactly the emitted branches to   *)
(* it, each still with a zero placeholder in its slot.                      *)
BackpatchListsExact ==
    \A b \in Blocks :
        IF emitted[b] THEN backpatch[b] = {}
        ELSE /\ backpatch[b] = {id \in EmittedBranches : Target(id) = b}
             /\ \A id \in backpatch[b] : rel[RefSlot(id)] = 0

(* The emitter writes 32-bit values only into branch slots: no patch      *)
(* lands on an opcode, prefix or another instruction's bytes.              *)
WritesOnlyBranchSlots ==
    DOMAIN rel = {RefSlot(id) : id \in EmittedBranches}
=============================================================================
