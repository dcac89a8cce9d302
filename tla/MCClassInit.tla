---------------------------- MODULE MCClassInit ----------------------------
(* Classes B <- C <- D; B and C have a <clinit>: B's initializes D (a     *)
(* subclass, so the request recurses back into B), C's initializes B.      *)
(* Each thread makes getClassContext calls over the listed frames.        *)
EXTENDS ClassInit

CONSTANTS B, C, D, Null, t1, t2, MethodInvoke

MCClasses == {B, C, D}
MCSuper == (B :> Null) @@ (C :> B) @@ (D :> C)
MCClinitClasses == {B, C}
MCUses == (B :> <<D>>) @@ (C :> <<B>>) @@ (D :> <<>>)

MCThreads == {t1, t2}
MCRequests == (t1 :> <<<<D>>>>) @@ (t2 :> <<<<MethodInvoke, C>>>>)

\* t1 uses C twice (a retry after a failed init); t2 uses C once, racing it
MCUseRequests == (t1 :> <<<<C>>, <<C>>>>) @@ (t2 :> <<<<C>>>>)
=============================================================================
