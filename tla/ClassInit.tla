----------------------------- MODULE ClassInit -----------------------------
(***************************************************************************)
(* Class initialization of src/vm/class.c (vm_class_init) driven by        *)
(* vm_class_ensure_init, run by several threads at once, each of them      *)
(* calling VMStackWalker.getClassContext (src/runtime/stack-walker.c),     *)
(* which initializes the class of every frame it reports.                 *)
(*                                                                         *)
(* vm_class_ensure_init is not under src/; from spec section 4.8 it calls  *)
(* vm_class_init when the class is not yet INITIALIZED and returns 0       *)
(* otherwise.  Each thread has a call stack of vm_class_init frames; a     *)
(* frame's pc is the point of vm_class_init it has reached.  The <clinit>  *)
(* body is abstracted to the classes whose initialization it triggers, in  *)
(* order; an error from one of them surfaces as an exception that ends     *)
(* the <clinit>, which vm_class_init ignores.  There is no init lock: a    *)
(* step of one thread may fall between any two steps of another.          *)
(***************************************************************************)
EXTENDS Integers, Sequences, SequencesExt

CONSTANTS
    Classes,        \* linked vm_class structures
    NoClass,        \* NULL
    Super,          \* class -> vmc->super, or NoClass
    ClinitClasses,  \* classes with a <clinit> method
    Uses,           \* class -> sequence of classes its <clinit> initializes
    Threads,        \* threads calling vm_class_ensure_init
    Invoke,         \* a Method.invoke frame, skipped by the stack walker
    Requests        \* thread -> sequence of getClassContext calls, each the
                    \* sequence of its Java frames (classes or Invoke)

VARIABLES
    state,          \* class -> "linked" | "initialized"
    object,         \* class -> vmc->object allocated (FALSE: NULL)
    clinit,         \* class -> "none" | "running" | "done" (history)
    stack,          \* thread -> sequence of vm_class_init frames
    todo,           \* thread -> getClassContext calls not yet made
    walk,           \* thread -> the getClassContext call under way
    context,        \* thread -> what its last getClassContext returned
    ret,            \* thread -> value returned by its last finished call
    returned,       \* thread -> class whose ensure_init just returned
    aborted         \* an assert failed: the process is gone

vars == <<state, object, clinit, stack, todo, walk, context, ret, returned, aborted>>

Frame(c) == [c |-> c, pc |-> "begin", i |-> 1]
Top(t) == Last(stack[t])
SetTop(t, f) == [stack[t] EXCEPT ![Len(stack[t])] = f]
Running(t) == ~aborted /\ stack[t] # <<>>
At(t, label) == Running(t) /\ Top(t).pc = label

(* vm_class_ensure_init(c) from a caller whose stack is now stk.           *)
EnsureInit(t, c, stk) ==
    IF state[c] = "initialized"
    THEN /\ stack' = [stack EXCEPT ![t] = stk]
         /\ ret' = [ret EXCEPT ![t] = 0]
         /\ returned' = [returned EXCEPT ![t] = c]
    ELSE /\ stack' = [stack EXCEPT ![t] = Append(stk, Frame(c))]
         /\ returned' = [returned EXCEPT ![t] = NoClass]
         /\ UNCHANGED ret

(* `return r;` from the top vm_class_init frame.                           *)
Return(t, r) ==
    /\ stack' = [stack EXCEPT ![t] = Front(stack[t])]
    /\ ret' = [ret EXCEPT ![t] = r]
    /\ returned' = [returned EXCEPT ![t] = Top(t).c]

(* Continue the top frame at label, with the thread between calls.         *)
Goto(t, label) ==
    /\ stack' = [stack EXCEPT ![t] = SetTop(t, [Top(t) EXCEPT !.pc = label])]
    /\ returned' = [returned EXCEPT ![t] = NoClass]
    /\ UNCHANGED ret

Idle == [busy |-> FALSE, call |-> <<>>, frames |-> <<>>, arr |-> <<>>, idx |-> 0,
         skipped |-> 0, waiting |-> FALSE]
NullEntry == [c |-> NoClass, mirror |-> FALSE]
-----------------------------------------------------------------------------
Init ==
    /\ state = [c \in Classes |-> "linked"]
    /\ object = [c \in Classes |-> FALSE]
    /\ clinit = [c \in Classes |-> "none"]
    /\ stack = [t \in Threads |-> <<>>]
    /\ todo = Requests
    /\ walk = [t \in Threads |-> Idle]
    /\ context = [t \in Threads |-> [status |-> "none", arr |-> <<>>, call |-> <<>>]]
    /\ ret = [t \in Threads |-> 0]
    /\ returned = [t \in Threads |-> NoClass]
    /\ aborted = FALSE

(***************************************************************************)
(* native_vmstackwalker_getclasscontext.  walk[t] holds its locals: the    *)
(* frames still to visit, the result array (depth slots, NULL-filled),    *)
(* idx, nr_to_skip, and whether it waits for vm_class_ensure_init.        *)
(***************************************************************************)
Walking(t) == ~aborted /\ walk[t].busy /\ stack[t] = <<>>

(* vm_object_alloc_array(..., depth) returns NULL: throw_oom_error().      *)
WalkAllocFail(t) ==
    /\ ~aborted /\ ~walk[t].busy /\ stack[t] = <<>> /\ todo[t] # <<>>
    /\ todo' = [todo EXCEPT ![t] = Tail(todo[t])]
    /\ context' = [context EXCEPT ![t] = [status |-> "oom", arr |-> <<>>,
                                          call |-> Head(todo[t])]]
    /\ UNCHANGED <<state, object, clinit, stack, walk, ret, returned, aborted>>

(* The array is allocated; the loop starts at the caller's frame.          *)
WalkStart(t) ==
    /\ ~aborted /\ ~walk[t].busy /\ stack[t] = <<>> /\ todo[t] # <<>>
    /\ LET call == Head(todo[t]) IN
       walk' = [walk EXCEPT ![t] = [Idle EXCEPT !.busy = TRUE, !.call = call,
                   !.frames = call, !.arr = [k \in DOMAIN call |-> NullEntry]]]
    /\ todo' = [todo EXCEPT ![t] = Tail(todo[t])]
    /\ UNCHANGED <<state, object, clinit, stack, context, ret, returned, aborted>>

\* mutant: the loop written as a while whose `continue` jumps over the move
\* to the next frame and over nr_to_skip++: it spins on the Method.invoke frame
WalkSkipSpins(t) ==
    /\ Walking(t) /\ ~walk[t].waiting /\ walk[t].frames # <<>>
    /\ Head(walk[t].frames) = Invoke
    /\ UNCHANGED vars

WalkSkipKeepsSlot(t) ==
    /\ Walking(t) /\ ~walk[t].waiting /\ walk[t].frames # <<>>
    /\ Head(walk[t].frames) = Invoke
    /\ walk' = [walk EXCEPT ![t].frames = Tail(@), ![t].skipped = @ + 1,
                            ![t].idx = @ + 1]
    /\ UNCHANGED <<state, object, clinit, stack, todo, context, ret, returned, aborted>>

(* A Method.invoke frame: nr_to_skip++ and continue.                       *)
WalkSkip(t) ==
    /\ Walking(t) /\ ~walk[t].waiting /\ walk[t].frames # <<>>
    /\ Head(walk[t].frames) = Invoke
    /\ walk' = [walk EXCEPT ![t].frames = Tail(@), ![t].skipped = @ + 1]
    /\ UNCHANGED <<state, object, clinit, stack, todo, context, ret, returned, aborted>>

(* Any other frame: vm_class_ensure_init(vmc).                             *)
WalkEnsure(t) ==
    /\ Walking(t) /\ ~walk[t].waiting /\ walk[t].frames # <<>>
    /\ Head(walk[t].frames) # Invoke
    /\ walk' = [walk EXCEPT ![t].waiting = TRUE]
    /\ EnsureInit(t, Head(walk[t].frames), <<>>)
    /\ UNCHANGED <<state, object, clinit, todo, context, aborted>>

(* It returned nonzero: return NULL.                                       *)
WalkEnsureFailed(t) ==
    /\ Walking(t) /\ walk[t].waiting /\ ret[t] # 0
    /\ context' = [context EXCEPT ![t] = [status |-> "null", arr |-> <<>>,
                                          call |-> walk[t].call]]
    /\ walk' = [walk EXCEPT ![t] = Idle]
    /\ returned' = [returned EXCEPT ![t] = NoClass]
    /\ UNCHANGED <<state, object, clinit, stack, todo, ret, aborted>>

(* It returned 0: array_set_field_object(res, idx++, vmc->object).         *)
WalkStore(t) ==
    /\ Walking(t) /\ walk[t].waiting /\ ret[t] = 0
    /\ LET w == walk[t]   c == Head(w.frames) IN
       walk' = [walk EXCEPT ![t] = [w EXCEPT !.waiting = FALSE, !.frames = Tail(w.frames),
                    !.idx = w.idx + 1,
                    !.arr = [w.arr EXCEPT ![w.idx + 1] = [c |-> c, mirror |-> object[c]]]]]
    /\ returned' = [returned EXCEPT ![t] = NoClass]
    /\ UNCHANGED <<state, object, clinit, stack, todo, context, ret, aborted>>

(* The loop is done: array_length -= nr_to_skip; return res.              *)
WalkEnd(t) ==
    /\ Walking(t) /\ ~walk[t].waiting /\ walk[t].frames = <<>>
    /\ LET w == walk[t] IN
       context' = [context EXCEPT ![t] = [status |-> "ok", call |-> w.call,
                      arr |-> SubSeq(w.arr, 1, Len(w.arr) - w.skipped)]]
    /\ walk' = [walk EXCEPT ![t] = Idle]
    /\ UNCHANGED <<state, object, clinit, stack, todo, ret, returned, aborted>>

(* assert(vmc->state == VM_CLASS_LINKED) fails: another thread marked the  *)
(* class between this thread's check in vm_class_ensure_init and here.     *)
InitAssertFails(t) ==
    /\ At(t, "begin") /\ state[Top(t).c] # "linked"
    /\ aborted' = TRUE
    /\ UNCHANGED <<state, object, clinit, stack, todo, walk, context, ret, returned>>

(* The assert holds.  The read and the store of line 278 are separate     *)
(* accesses with no lock: another thread may pass the same assert before   *)
(* this one marks the class.                                               *)
InitBegin(t) ==
    /\ At(t, "begin") /\ state[Top(t).c] = "linked"
    /\ Goto(t, "mark")
    /\ UNCHANGED <<state, object, clinit, todo, walk, context, aborted>>

\* mutant: the early mark "to break the recursion" is left out
InitMarkDropped(t) ==
    /\ At(t, "mark")
    /\ Goto(t, IF Super[Top(t).c] # NoClass THEN "super" ELSE "alloc")
    /\ UNCHANGED <<state, object, clinit, todo, walk, context, aborted>>

(* vmc->state = VM_CLASS_INITIALIZED, before anything else.                *)
InitMark(t) ==
    /\ At(t, "mark")
    /\ state' = [state EXCEPT ![Top(t).c] = "initialized"]
    /\ Goto(t, IF Super[Top(t).c] # NoClass THEN "super" ELSE "alloc")
    /\ UNCHANGED <<object, clinit, todo, walk, context, aborted>>

InitSkipSuper(t) ==
    /\ At(t, "super")
    /\ Goto(t, "alloc")
    /\ UNCHANGED <<state, object, clinit, todo, walk, context, aborted>>

(* ret = vm_class_ensure_init(vmc->super).                                 *)
InitSuper(t) ==
    /\ At(t, "super")
    /\ EnsureInit(t, Super[Top(t).c], SetTop(t, [Top(t) EXCEPT !.pc = "super_ret"]))
    /\ UNCHANGED <<state, object, clinit, todo, walk, context, aborted>>

(* if (ret) return ret;                                                    *)
InitSuperFailed(t) ==
    /\ At(t, "super_ret") /\ ret[t] # 0
    /\ Return(t, ret[t])
    /\ UNCHANGED <<state, object, clinit, todo, walk, context, aborted>>

InitSuperDone(t) ==
    /\ At(t, "super_ret") /\ ret[t] = 0
    /\ Goto(t, "alloc")
    /\ UNCHANGED <<state, object, clinit, todo, walk, context, aborted>>

(* vmc->object = vm_object_alloc(vm_java_lang_Class) succeeds, and the     *)
(* vmdata field is set.                                                    *)
InitAlloc(t) ==
    /\ At(t, "alloc")
    /\ object' = [object EXCEPT ![Top(t).c] = TRUE]
    /\ Goto(t, "clinit")
    /\ UNCHANGED <<state, clinit, todo, walk, context, aborted>>

(* vm_object_alloc returns NULL: return -1.                                *)
InitAllocFail(t) ==
    /\ At(t, "alloc")
    /\ Return(t, -1)
    /\ UNCHANGED <<state, object, clinit, todo, walk, context, aborted>>

(* The <clinit> loop finds the class's <clinit> and calls its trampoline.  *)
RunClinit(t) ==
    /\ At(t, "clinit") /\ Top(t).c \in ClinitClasses
    /\ clinit' = [clinit EXCEPT ![Top(t).c] = "running"]
    /\ Goto(t, "body")
    /\ UNCHANGED <<state, object, todo, walk, context, aborted>>

(* No <clinit>: return 0.                                                  *)
NoClinit(t) ==
    /\ At(t, "clinit") /\ Top(t).c \notin ClinitClasses
    /\ Return(t, 0)
    /\ UNCHANGED <<state, object, clinit, todo, walk, context, aborted>>

(* The <clinit> body makes its next first use of a class.                  *)
ClinitUse(t) ==
    /\ At(t, "body") /\ Top(t).i <= Len(Uses[Top(t).c])
    /\ EnsureInit(t, Uses[Top(t).c][Top(t).i],
                  SetTop(t, [Top(t) EXCEPT !.pc = "body_ret"]))
    /\ UNCHANGED <<state, object, clinit, todo, walk, context, aborted>>

(* Back in <clinit>: an error ends it with an exception, else it goes on.  *)
ClinitUseDone(t) ==
    /\ At(t, "body_ret")
    /\ LET f == Top(t)
           next == IF ret[t] = 0 THEN f.i + 1 ELSE Len(Uses[f.c]) + 1
       IN /\ stack' = [stack EXCEPT ![t] = SetTop(t, [f EXCEPT !.pc = "body", !.i = next])]
          /\ returned' = [returned EXCEPT ![t] = NoClass]
    /\ UNCHANGED <<state, object, clinit, todo, walk, context, ret, aborted>>

(* <clinit> returns; vm_class_init returns 0 whatever it threw.            *)
ClinitEnd(t) ==
    /\ At(t, "body") /\ Top(t).i > Len(Uses[Top(t).c])
    /\ clinit' = [clinit EXCEPT ![Top(t).c] = "done"]
    /\ Return(t, 0)
    /\ UNCHANGED <<state, object, todo, walk, context, aborted>>

(* Every thread has made all its requests, or the process aborted.         *)
Finished ==
    /\ aborted \/ \A t \in Threads : stack[t] = <<>> /\ todo[t] = <<>> /\ ~walk[t].busy
    /\ UNCHANGED vars

ThreadStep(t) ==
    \/ WalkAllocFail(t) \/ WalkStart(t) \/ WalkSkip(t) \/ WalkEnsure(t)
    \/ WalkEnsureFailed(t) \/ WalkStore(t) \/ WalkEnd(t)
    \/ InitAssertFails(t) \/ InitBegin(t) \/ InitMark(t)
    \/ InitSuper(t) \/ InitSuperFailed(t) \/ InitSuperDone(t)
    \/ InitAlloc(t) \/ InitAllocFail(t) \/ RunClinit(t) \/ NoClinit(t)
    \/ ClinitUse(t) \/ ClinitUseDone(t) \/ ClinitEnd(t)

Next == (\E t \in Threads : ThreadStep(t)) \/ Finished

(* Each thread is an OS thread and vm_class_init takes no lock: a step a  *)
(* thread can take stays possible until it takes it.                       *)
Fairness == \A t \in Threads : WF_vars(ThreadStep(t))

Spec == Init /\ [][Next]_vars /\ Fairness

-----------------------------------------------------------------------------
InitLabels == {"begin", "mark", "super", "super_ret", "alloc", "clinit", "body", "body_ret"}

(* Frames are well formed, and a frame past its first step belongs to a    *)
(* class already marked INITIALIZED.                                       *)
TypeOK ==
    /\ state \in [Classes -> {"linked", "initialized"}]
    /\ clinit \in [Classes -> {"none", "running", "done"}]
    /\ ret \in [Threads -> {0, -1}]
    /\ \A t \in Threads : walk[t].idx + walk[t].skipped + Len(walk[t].frames)
                            = Len(walk[t].call)
    /\ \A t \in Threads : \A k \in DOMAIN stack[t] :
         /\ stack[t][k].c \in Classes /\ stack[t][k].pc \in InitLabels
         /\ stack[t][k].pc \notin {"begin", "mark"} => state[stack[t][k].c] = "initialized"

(* The class-init state machine refines the abstract one of section 4.8:   *)
(* marking, mirror allocation and <clinit> happen once per class, in that  *)
(* order, and a <clinit> starts only once the superclass is marked.        *)
Abstract == INSTANCE ClassInitAbstract WITH st <- state, mirror <- object, cl <- clinit

RefinesAbstract == Abstract!Spec

(* When vm_class_ensure_init(c) returns 0 to its caller, c's mirror exists *)
(* and its <clinit>, if any, has finished, unless c's own vm_class_init is *)
(* under way on the same thread (the recursive request of section 4.8).   *)
UseSeesInitialized ==
    \A t \in Threads :
      LET c == returned[t] IN
      (c # NoClass /\ ret[t] = 0) =>
         \/ object[c] /\ (c \in ClinitClasses => clinit[c] = "done")
         \/ \E k \in DOMAIN stack[t] : stack[t][k].c = c

(* Every getClassContext call returns, with the class array, NULL or an   *)
(* OutOfMemoryError, unless an assert has aborted the VM: the recursive    *)
(* vm_class_ensure_init calls of <clinit>s that use each other's classes,  *)
(* on one thread or racing on two, always unwind.                          *)
WalkReturns == \A t \in Threads : walk[t].busy ~> (~walk[t].busy \/ aborted)

(* getClassContext answers, in order, the class of every frame of the walk *)
(* except the Method.invoke frames: the skipped frames leave no hole      *)
(* (idx is not advanced for them) and trimming array_length by            *)
(* nr_to_skip cuts only the unused slots at the end.                      *)
ClassContextExact ==
    \A t \in Threads :
      context[t].status = "ok" =>
        [k \in DOMAIN context[t].arr |-> context[t].arr[k].c]
          = SelectSeq(context[t].call, LAMBDA f : f # Invoke)
=============================================================================
