----------------------------- MODULE ClassLink -----------------------------
(***************************************************************************)
(* Class linking of src/vm/class.c: vm_class_link (superclass lookup,      *)
(* field layout, setup_vtable) and vm_class_link_bogus_class, with the     *)
(* lookup helpers vm_class_get_method_recursive, vm_class_is_equal_to and  *)
(* vm_class_is_assignable_from.                                            *)
(*                                                                         *)
(* A class image is abstracted to its superclass, its kind, its name, the *)
(* (name, descriptor) signatures of its methods in declaration order and   *)
(* the static flag of each field.  A vtable slot holds the method whose    *)
(* trampoline vtable_setup_method stored there, as <<class, signature>>.   *)
(* classloader_load (not under src/) returns a linked class or NULL; so a  *)
(* class links once its superclass has linked, and fails once its          *)
(* superclass has failed.  Every NOT_IMPLEMENTED error return (constant    *)
(* pool lookups, malloc, vm_field_init, vm_method_init...) is LinkFail.    *)
(***************************************************************************)
EXTENDS Integers, Sequences, SequencesExt, FiniteSets

CONSTANTS
    Classes,        \* vm_class structures handed to the linker
    NoClass,        \* NULL
    ObjectClass,    \* vm_java_lang_Object
    Super,          \* class -> superclass named by super_class, or NoClass
    Kind,           \* class -> "regular" | "array"
    Name,           \* class -> vmc->name
    Decl,           \* class -> sequence of method signatures (methods[])
    FieldStatic     \* class -> sequence of BOOLEAN, vm_field_is_static

ASSUME /\ ObjectClass \in Classes /\ NoClass \notin Classes
       /\ \A c \in Classes : Kind[c] = "array" =>
              Super[c] = ObjectClass /\ Decl[c] = <<>> /\ FieldStatic[c] = <<>>

Sigs == UNION {ToSet(Decl[c]) : c \in Classes}
NoMethod == <<NoClass, NoClass>>
FieldSize == 8      \* "XXX: use the right sizes": every field takes 8 bytes

VARIABLES
    state,          \* class -> "loaded" | "linked" | "failed" (error return)
    vindex,         \* class -> signature -> virtual_index (-1: none)
    vtableSize,     \* class -> vtable_size
    vtable,         \* class -> slot index -> <<class, signature>>
    objectSize,     \* class -> object_size
    staticSize,     \* class -> static_size
    fieldOffset     \* class -> field number -> offset

vars == <<state, vindex, vtableSize, vtable, objectSize, staticSize, fieldOffset>>

DeclSet(c) == ToSet(Decl[c])

(* vm_class_get_method_recursive: the nearest class from c up the          *)
(* superclass chain that declares sig, or NoClass.                         *)
RECURSIVE GetMethodRecursive(_, _)
GetMethodRecursive(c, sig) ==
    IF c = NoClass THEN NoClass
    ELSE IF sig \in DeclSet(c) THEN c
    ELSE GetMethodRecursive(Super[c], sig)

(* vm_class_is_equal_to: for two distinct array classes it returns         *)
(* strcmp(name, name2), which is nonzero exactly when the names differ.    *)
IsEqualTo(a, b) ==
    /\ Kind[a] = Kind[b]
    /\ \/ a = b
       \/ Kind[a] = "array" /\ Name[a] # Name[b]

(* vm_class_is_assignable_from, recursing up from's superclass chain.      *)
RECURSIVE IsAssignableFrom(_, _)
IsAssignableFrom(c, from) ==
    \/ IsEqualTo(c, from)
    \/ Super[from] # NoClass /\ IsAssignableFrom(c, Super[from])

(* The `if (!strcmp(vmc->name, "java.lang.Object"))` test of a class       *)
(* without super_class.                                                    *)
RootCheckFails(c) == Super[c] = NoClass /\ Name[c] = "java.lang.Object"

-----------------------------------------------------------------------------
(* Field layout: instance fields continue after the superclass's object    *)
(* size, statics after its static size, FieldSize bytes each.              *)
InstanceBaseFromZero(c) == 0

InstanceBase(c) == IF Super[c] = NoClass THEN 0 ELSE objectSize[Super[c]]

StaticBase(c) == IF Super[c] = NoClass THEN 0 ELSE staticSize[Super[c]]

(* The field loop: accumulates [offset, static_offset, offsets].           *)
FieldLayout(c) ==
    LET step(acc, i) ==
          IF FieldStatic[c][i]
          THEN [acc EXCEPT !.static = @ + FieldSize,
                           !.off[i] = acc.static]
          ELSE [acc EXCEPT !.inst = @ + FieldSize,
                           !.off[i] = acc.inst]
    IN FoldLeftDomain(step,
         [inst |-> InstanceBase(c), static |-> StaticBase(c),
          off |-> [i \in DOMAIN FieldStatic[c] |-> -1]],
         FieldStatic[c])

-----------------------------------------------------------------------------
(* setup_vtable.                                                           *)
SuperVtableSize(c) == IF Super[c] = NoClass THEN 0 ELSE vtableSize[Super[c]]

SuperLookup(c, sig) == GetMethodRecursive(Super[c], sig)

(* First loop: the virtual_index of each method and the count of new ones. *)
FirstPass(c) ==
    LET step(acc, sig) ==
          LET m2 == SuperLookup(c, sig) IN
          IF m2 # NoClass
          THEN [acc EXCEPT !.vi[sig] = vindex[m2][sig]]
          ELSE [acc EXCEPT !.vi[sig] = SuperVtableSize(c) + acc.n,
                           !.n = @ + 1]
    IN FoldLeft(step, [vi |-> [s \in Sigs |-> -1], n |-> 0], Decl[c])

VtableSizeNoSuper(c, n) == n

VtableSize(c, n) == SuperVtableSize(c) + n

CopySuperSlotsShort(c, size) ==
    [i \in 0..size-1 |->
        IF i < SuperVtableSize(c) - 1 THEN vtable[Super[c]][i] ELSE NoMethod]

(* vtable_init, then the "Superclass methods" loop.                        *)
CopySuperSlots(c, size) ==
    [i \in 0..size-1 |->
        IF i < SuperVtableSize(c) THEN vtable[Super[c]][i] ELSE NoMethod]

(* Second loop ("Our methods"): the trampoline of each method goes to its  *)
(* ancestor's virtual_index, or to the next new slot.                      *)
SecondPass(c, size) ==
    LET step(acc, sig) ==
          LET m2 == SuperLookup(c, sig) IN
          IF m2 # NoClass
          THEN [acc EXCEPT !.vt[vindex[m2][sig]] = <<c, sig>>]
          ELSE [acc EXCEPT !.vt[SuperVtableSize(c) + acc.n] = <<c, sig>>,
                           !.n = @ + 1]
    IN FoldLeft(step, [vt |-> CopySuperSlots(c, size), n |-> 0], Decl[c]).vt

-----------------------------------------------------------------------------
Init ==
    /\ state = [c \in Classes |-> "loaded"]
    /\ vindex = [c \in Classes |-> [s \in Sigs |-> -1]]
    /\ vtableSize = [c \in Classes |-> 0]
    /\ vtable = [c \in Classes |-> <<>>]
    /\ objectSize = [c \in Classes |-> 0]
    /\ staticSize = [c \in Classes |-> 0]
    /\ fieldOffset = [c \in Classes |-> [i \in DOMAIN FieldStatic[c] |-> -1]]

(* classloader_load(super) has returned a linked class, or there is none.  *)
SuperReady(c) == Super[c] # NoClass => state[Super[c]] = "linked"

(* vm_class_link succeeding: every step of it, ending in VM_CLASS_LINKED.  *)
LinkClass(c) ==
    /\ state[c] = "loaded" /\ Kind[c] = "regular"
    /\ SuperReady(c)
    /\ ~RootCheckFails(c)
    /\ LET fl == FieldLayout(c)
           fp == FirstPass(c)
           size == VtableSize(c, fp.n)
       IN /\ state' = [state EXCEPT ![c] = "linked"]
          /\ fieldOffset' = [fieldOffset EXCEPT ![c] = fl.off]
          /\ objectSize' = [objectSize EXCEPT ![c] = fl.inst]
          /\ staticSize' = [staticSize EXCEPT ![c] = fl.static]
          /\ vindex' = [vindex EXCEPT ![c] = fp.vi]
          /\ vtableSize' = [vtableSize EXCEPT ![c] = size]
          /\ vtable' = [vtable EXCEPT ![c] = SecondPass(c, size)]

(* vm_class_link returning -1: classloader_load(super) gave NULL, the root *)
(* check fired, or one of the allocations or inits failed.  The partial    *)
(* vm_class is not used again.                                             *)
LinkFail(c) ==
    /\ state[c] = "loaded"
    /\ Super[c] # NoClass => state[Super[c]] \in {"linked", "failed"}
    /\ state' = [state EXCEPT ![c] = "failed"]
    /\ UNCHANGED <<vindex, vtableSize, vtable, objectSize, staticSize, fieldOffset>>

(* vm_class_link_bogus_class: an array class shares java.lang.Object's     *)
(* vtable and has object_size 0.                                           *)
LinkBogusClass(c) ==
    /\ state[c] = "loaded" /\ Kind[c] = "array"
    /\ state[ObjectClass] = "linked"
    /\ state' = [state EXCEPT ![c] = "linked"]
    /\ vtableSize' = [vtableSize EXCEPT ![c] = vtableSize[ObjectClass]]
    /\ vtable' = [vtable EXCEPT ![c] = vtable[ObjectClass]]
    /\ objectSize' = [objectSize EXCEPT ![c] = 0]
    /\ UNCHANGED <<vindex, staticSize, fieldOffset>>

(* Every class has been linked or has failed.                              *)
Finished ==
    /\ \A c \in Classes : state[c] # "loaded"
    /\ UNCHANGED vars

Next ==
    \/ \E c \in Classes : LinkClass(c) \/ LinkFail(c) \/ LinkBogusClass(c)
    \/ Finished

Spec == Init /\ [][Next]_vars

-----------------------------------------------------------------------------
(***************************************************************************)
(* vm_class_get_array_element_class_name on a class name held as a         *)
(* sequence of characters (strlen is Len).  The result is a set: {} for    *)
(* NULL, {r} for the string r returned.  The '[L' branch mallocs len - 2   *)
(* bytes and copies the len - 3 characters between '[L' and ';'.          *)
(***************************************************************************)
\* mutant: len - 2 characters copied, the ';' with them
ArrayElementClassNameCopiesSemicolon(s) ==
    IF Len(s) = 0 \/ s[1] # "[" THEN {}
    ELSE IF Len(s) >= 2 /\ s[2] = "L" THEN {SubSeq(s, 3, Len(s))}
    ELSE {SubSeq(s, 2, Len(s))}

ArrayElementClassName(s) ==
    IF Len(s) = 0 \/ s[1] # "[" THEN {}
    ELSE IF Len(s) >= 2 /\ s[2] = "L" THEN {SubSeq(s, 3, Len(s) - 1)}
    ELSE {SubSeq(s, 2, Len(s))}

(* Reference: the JVM's naming of classes (JVMS 4.3.2).  A primitive's     *)
(* name is its descriptor letter, an array class's name is its descriptor, *)
(* any other class's descriptor is L<binary name>;, and the array class of *)
(* element e is named '[' followed by e's descriptor.                      *)
PrimitiveNames == {<<"I">>, <<"J">>}
BinaryNames == {<<"a">>, <<"L">>, <<"a", "L">>, <<"L", "a">>, <<"a", "/", "L">>}

Descriptor(n) ==
    IF n \in PrimitiveNames \/ n[1] = "[" THEN n ELSE <<"L">> \o n \o <<";">>

ArrayNameOf(n) == <<"[">> \o Descriptor(n)

\* element class names: primitives, classes and arrays nested up to depth 2
ElementNames ==
    LET base == PrimitiveNames \cup BinaryNames
        arr1 == {ArrayNameOf(n) : n \in base}
    IN  base \cup arr1 \cup {ArrayNameOf(n) : n \in arr1}

-----------------------------------------------------------------------------
Linked == {c \in Classes : state[c] = "linked"}

RECURSIVE AncestorsOrSelf(_)
AncestorsOrSelf(c) ==
    IF c = NoClass THEN {} ELSE {c} \cup AncestorsOrSelf(Super[c])

(* Every virtual_index of a linked class names a slot of its vtable, and   *)
(* every slot holds a method of the class or one of its ancestors.         *)
TypeOK ==
    /\ state \in [Classes -> {"loaded", "linked", "failed"}]
    /\ \A c \in Linked :
         /\ DOMAIN vtable[c] = 0..vtableSize[c]-1
         /\ \A sig \in DeclSet(c) : vindex[c][sig] \in 0..vtableSize[c]-1
         /\ \A i \in DOMAIN vtable[c] :
               vtable[c][i][1] \in AncestorsOrSelf(c) /\ vtable[c][i][2] \in Sigs

(* Vtable consistency (spec section 8), as built by setup_vtable: in a     *)
(* linked class each slot inherited from the superclass holds the          *)
(* superclass's entry unless the class declares a method whose             *)
(* virtual_index is that slot, in which case it holds that method.         *)
VtableConsistent ==
    \A c \in Linked : Super[c] # NoClass =>
      \A i \in 0..vtableSize[Super[c]]-1 :
        vtable[c][i] =
          IF \E sig \in DeclSet(c) : vindex[c][sig] = i
          THEN <<c, CHOOSE sig \in DeclSet(c) : vindex[c][sig] = i>>
          ELSE vtable[Super[c]][i]

FieldLayoutSound ==
    \A c \in Linked : Kind[c] = "regular" =>
      LET inst == UNION {{<<a, i>> : i \in {j \in DOMAIN FieldStatic[a] :
                                                ~FieldStatic[a][j]}} :
                         a \in AncestorsOrSelf(c)}
      IN /\ \A x, y \in inst :
              x # y => fieldOffset[x[1]][x[2]] # fieldOffset[y[1]][y[2]]
         /\ \A x \in inst : fieldOffset[x[1]][x[2]] + FieldSize <= objectSize[c]
         /\ \A i \in DOMAIN FieldStatic[c] : FieldStatic[c][i] =>
              fieldOffset[c][i] + FieldSize
                <= StaticBase(c) + Len(FieldStatic[c]) * FieldSize

(* Class.isAssignableFrom (vm_class_is_assignable_from) between linked     *)
(* classes holds exactly when c is from or one of its superclasses.        *)
IsAssignableFromCorrect ==
    \A c, from \in Linked :
        IsAssignableFrom(c, from) <=> c \in AncestorsOrSelf(from)

(* Only java.lang.Object lacks a superclass: the root check of             *)
(* vm_class_link rejects any other class without super_class.              *)
RootIsObject ==
    \A c \in Linked : Super[c] = NoClass => c = ObjectClass

(* vm_class_get_array_element_class_name inverts array naming: for every  *)
(* element class, the name it returns for the element's array class is    *)
(* the element's own name (for '[L...;' the copy length and terminator    *)
(* position are at the right offsets, and nested arrays keep their '[L'), *)
(* and it returns NULL for every class that is not an array.  It is asked *)
(* of the array classes the linker has linked.                            *)
ArrayElementNameCorrect ==
    (\E c \in Linked : Kind[c] = "array") =>
    \A n \in ElementNames :
        /\ ArrayElementClassName(ArrayNameOf(n)) = {n}
        /\ n[1] # "[" => ArrayElementClassName(n) = {}
=============================================================================
