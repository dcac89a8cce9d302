CONSTANT Progs <- MCCallReg
CONSTANT Trampolines <- MCNoTrampolines
SPECIFICATION Spec
INVARIANT DecodesAsEmitted
