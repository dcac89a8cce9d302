--------------------------- MODULE MCCodeEmitter ---------------------------
(***************************************************************************)
(* Model-checking instance of CodeEmitter: two body blocks and the exit   *)
(* block.  Each body block holds one or two instructions drawn from a     *)
(* load (3 bytes), an add with a 32-bit immediate (6 bytes) and the       *)
(* branches je/jmp to any block; the exit block is empty, its code being  *)
(* the epilogue.  nr_locals is 0 (pop %ebp) or 40 (sub with imm32).       *)
(***************************************************************************)
EXTENDS CodeEmitter

MCNrBlocks == 3

Op(t, base, disp, imm) ==
    [type |-> t, target |-> NoBlock, base |-> base, disp |-> disp, imm |-> imm]
Br(t, b) ==
    [type |-> t, target |-> b, base |-> "none", disp |-> 0, imm |-> 0]

MCInsns ==
    {Op("INSN_MOV_MEMBASE_REG", "REG_EBP", 8, 0),
     Op("INSN_ADD_IMM_REG", "none", 0, 1000)}
    \cup {Br(t, b) : t \in {"INSN_JE_BRANCH", "INSN_JMP_BRANCH"}, b \in 1..MCNrBlocks}

BodySeqs == {s \in SeqOf(MCInsns, 2) : s # <<>>}

\* a branch of block b that targets b itself (a one-block loop)
HasSelfBranch(p) ==
    \E b \in 1..MCNrBlocks : \E k \in DOMAIN p[b] : p[b][k].target = b

AllPrograms ==
    {[b \in 1..MCNrBlocks |-> IF b = MCNrBlocks THEN <<>> ELSE f[b]] :
        f \in [1..(MCNrBlocks - 1) -> BodySeqs]}

\* programs whose loops span at least two blocks
MCProgramsNoSelfLoop == {p \in AllPrograms : ~HasSelfBranch(p)}

\* programs with a one-block loop (if (c) goto <this block>)
MCProgramsSelfLoop == {p \in AllPrograms : HasSelfBranch(p)}

MCLocalsCounts == {0, 40}
=============================================================================
