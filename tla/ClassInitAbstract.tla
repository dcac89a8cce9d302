------------------------- MODULE ClassInitAbstract -------------------------
(***************************************************************************)
(* What class initialization promises (spec section 4.8): a linked class   *)
(* is marked INITIALIZED once and for all; its mirror object is allocated  *)
(* only after that; its <clinit> starts at most once, only after the class *)
(* and its superclass are marked and the mirror exists, and then ends.     *)
(***************************************************************************)
CONSTANTS Classes, NoClass, Super

VARIABLES st,       \* class -> "linked" | "initialized"
          mirror,   \* class -> vmc->object allocated
          cl        \* class -> "none" | "running" | "done" (<clinit>)

Mark(c) ==
    /\ st[c] = "linked"
    /\ st' = [st EXCEPT ![c] = "initialized"]
    /\ UNCHANGED <<mirror, cl>>

Allocate(c) ==
    /\ st[c] = "initialized" /\ ~mirror[c]
    /\ mirror' = [mirror EXCEPT ![c] = TRUE]
    /\ UNCHANGED <<st, cl>>

StartClinit(c) ==
    /\ st[c] = "initialized" /\ mirror[c] /\ cl[c] = "none"
    /\ Super[c] # NoClass => st[Super[c]] = "initialized"
    /\ cl' = [cl EXCEPT ![c] = "running"]
    /\ UNCHANGED <<st, mirror>>

EndClinit(c) ==
    /\ cl[c] = "running"
    /\ cl' = [cl EXCEPT ![c] = "done"]
    /\ UNCHANGED <<st, mirror>>

Init ==
    /\ st = [c \in Classes |-> "linked"]
    /\ mirror = [c \in Classes |-> FALSE]
    /\ cl = [c \in Classes |-> "none"]

Next == \E c \in Classes : Mark(c) \/ Allocate(c) \/ StartClinit(c) \/ EndClinit(c)

Spec == Init /\ [][Next]_<<st, mirror, cl>>
=============================================================================
