----------------------------- MODULE MCThreads -----------------------------
(***************************************************************************)
(* Model-checking instance of Threads: the main thread, one non-daemon    *)
(* and one daemon Java thread (either may start the other), and one or    *)
(* two callers of the thread-count lock.                                   *)
(***************************************************************************)
EXTENDS Threads, Sequences

CONSTANTS m, t1, t2, l1, l2

MCThreadSet == {t1, t2}
MCDaemons == {t2}
MCOneLocker == {l1}
MCTwoLockers == {l1, l2}

(***************************************************************************)
(* The trace buffer of src/vm/trace.c used by the main thread and t1: a    *)
(* thread calls trace_printf and trace_flush while it runs Java code (pc   *)
(* "run"), and a thread inside trace_flush takes no other step until the  *)
(* flush returns.                                                          *)
(***************************************************************************)
CONSTANTS NoTraceHolder

VARIABLES tbuf, tpc, toks, tk, holder, stderr, written, nprints, nflush

MCTracers == {m, t1}

\* one trace_printf, of two lines or of one line between a leading and a
\* doubled newline (strtok_r skips both); two flushes per thread
MCTexts == {<<"a", "\n", "b">>, <<"\n", "c", "\n", "\n">>}

Tr == INSTANCE Trace WITH Tracers <- MCTracers, Texts <- MCTexts,
    NoHolder <- NoTraceHolder, MaxPrints <- 1, MaxFlushes <- 2,
    tbuf <- tbuf, tpc <- tpc, toks <- toks, tk <- tk, holder <- holder,
    stderr <- stderr, written <- written, nprints <- nprints, nflush <- nflush

tvars == <<tbuf, tpc, toks, tk, holder, stderr, written, nprints, nflush>>
allVars == <<vars, tvars>>

Flushing(p) == p \in MCTracers /\ tpc[p] = "flushing"

MainSys == MainStep /\ ~Flushing(Main) /\ UNCHANGED tvars
ThreadSys(t) == ThreadStep(t) /\ ~Flushing(t) /\ UNCHANGED tvars
LockerSys(l) == LockerStep(l) /\ UNCHANGED tvars
TraceSys(t) == pc[t] = "run" /\ Tr!TraceStep(t) /\ UNCHANGED vars
FlushSys(t) == pc[t] = "run" /\ (Tr!FlushLine(t) \/ Tr!FlushEnd(t)) /\ UNCHANGED vars

MCInit == Init /\ Tr!TInit

MCNext ==
    \/ MainSys
    \/ \E t \in Threads : ThreadSys(t)
    \/ \E l \in Lockers : LockerSys(l)
    \/ \E p \in Starters : SpuriousWake(p) /\ UNCHANGED tvars
    \/ \E t \in MCTracers : TraceSys(t)
    \/ Finished /\ UNCHANGED tvars

(* The scheduling of Threads, and a thread inside trace_flush finishes it  *)
(* (fprintf and pthread_mutex_unlock return); whether a thread traces at   *)
(* all is its choice, so trace_printf and the start of a flush are not     *)
(* fair.                                                                   *)
MCFairness ==
    /\ WF_allVars(MainSys)
    /\ \A t \in Threads : WF_allVars(ThreadSys(t))
    /\ \A l \in Lockers : WF_allVars(LockerSys(l))
    /\ \A t \in MCTracers : WF_allVars(FlushSys(t))

MCSpec == MCInit /\ [][MCNext]_allVars /\ MCFairness

TTypeOK == Tr!TTypeOK
FlushesContiguous == Tr!FlushesContiguous
InFlight(r) == tpc[r.t] = "flushing" /\ r.n = nflush[r.t]

AtomicOut ==
    LET done == SelectSeq(stderr, LAMBDA r : ~InFlight(r))
    IN  [k \in DOMAIN done |-> [t |-> done[k].t, line |-> done[k].line]]

Atomic == INSTANCE TraceAtomic WITH Tracers <- MCTracers, Texts <- MCTexts,
    buffer <- tbuf, out <- AtomicOut

=============================================================================
