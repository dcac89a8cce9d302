---------------------------- MODULE MCClassLink ----------------------------
(* A hierarchy java/lang/Object <- A <- B <- C, where C overrides a method *)
(* A declares and B does not redeclare, plus two array classes.            *)
EXTENDS ClassLink

CONSTANTS Obj, A, B, C, IntArr, StrArr, Root, Null

MCClasses == {Obj, A, B, C, IntArr, StrArr}
MCClassesWithRoot == MCClasses \cup {Root}

MCSuper == (Obj :> Null) @@ (A :> Obj) @@ (B :> A) @@ (C :> B)
           @@ (IntArr :> Obj) @@ (StrArr :> Obj) @@ (Root :> Null)

MCKind == [c \in MCClassesWithRoot |->
             IF c \in {IntArr, StrArr} THEN "array" ELSE "regular"]

MCName == (Obj :> "java/lang/Object") @@ (A :> "A") @@ (B :> "B")
          @@ (C :> "C") @@ (IntArr :> "[I")
          @@ (StrArr :> "[Ljava/lang/String;") @@ (Root :> "Root")

MCDecl == (Obj :> <<"<init>()V", "toString()S">>)
          @@ (A :> <<"<init>()V", "foo()V", "toString()S">>)
          @@ (B :> <<"bar()V">>)
          @@ (C :> <<"foo()V", "baz()V", "bar()V">>)
          @@ (IntArr :> <<>>) @@ (StrArr :> <<>>)
          @@ (Root :> <<"run()V">>)

MCFieldStatic == (Obj :> <<>>) @@ (A :> <<FALSE, TRUE>>) @@ (B :> <<FALSE>>)
                 @@ (C :> <<TRUE, FALSE, FALSE>>)
                 @@ (IntArr :> <<>>) @@ (StrArr :> <<>>) @@ (Root :> <<FALSE>>)

(* The class loader parses a class file's field_info entries before the   *)
(* class reaches vm_class_link; the loader between them is not under src/, *)
(* so the parse of one field runs beside the linking of the hierarchy,     *)
(* the two interleaved.  Two attributes let a failure hit the first slot   *)
(* or the second after the first is live.                                  *)
VARIABLES fpc, attrCount, ai, attr, arr, ret

Parser == INSTANCE FieldInfo WITH MaxAttributes <- 2, fpc <- fpc,
    attrCount <- attrCount, ai <- ai, attr <- attr, arr <- arr, ret <- ret

pvars == <<fpc, attrCount, ai, attr, arr, ret>>

MCInit == Init /\ Parser!FInit

MCNext == \/ Next /\ UNCHANGED pvars
          \/ Parser!FNext /\ UNCHANGED vars

MCSpec == MCInit /\ [][MCNext]_<<vars, pvars>>

FTypeOK == Parser!FTypeOK
FieldReleasedOnce == Parser!FieldReleasedOnce
=============================================================================
