CONSTANT Progs <- MCProgs
CONSTANT Trampolines <- MCTrampolines
SPECIFICATION Spec
INVARIANT DecodesAsEmitted
INVARIANT LengthsAgree
INVARIANT TrampolineDecodes
