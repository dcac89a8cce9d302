------------------------------- MODULE Trace -------------------------------
(***************************************************************************)
(* The per-thread trace buffer of src/vm/trace.c.  trace_printf appends    *)
(* text to the calling thread's __thread buffer; trace_flush splits the    *)
(* buffer into lines with strtok_r on "\n", writes each line to stderr     *)
(* under trace_mutex and empties the buffer.  A string is a sequence of    *)
(* one-character strings.  The thread name prefix is formatting and is     *)
(* left out; a line on stderr records its thread and which of the         *)
(* thread's flushes wrote it.                                             *)
(***************************************************************************)
EXTENDS Integers, Sequences, SequencesExt

CONSTANTS
    Tracers,    \* threads that call trace_printf / trace_flush
    Texts,      \* strings passed to trace_printf (after formatting)
    NoHolder,   \* trace_mutex unlocked
    MaxPrints,  \* bound on trace_printf calls per thread
    MaxFlushes  \* bound on trace_flush calls per thread

VARIABLES
    tbuf,       \* thread -> trace_buffer's text (value[0 .. length-1])
    tpc,        \* thread -> "idle" | "flushing"
    toks,       \* thread -> the lines strtok_r yields in the current flush
    tk,         \* thread -> index of the next line to print
    holder,     \* trace_mutex's owner, or NoHolder
    stderr,     \* lines written: [t |-> thread, line |-> text, n |-> flush]
    written,    \* history: thread -> everything it passed to trace_printf
    nprints,    \* thread -> trace_printf calls so far
    nflush      \* thread -> trace_flush calls so far

tvars == <<tbuf, tpc, toks, tk, holder, stderr, written, nprints, nflush>>

NL == "\n"

\* mutant: the buffer split with strsep, so an empty run is an empty line
RECURSIVE TokensKeepEmpty(_)
TokensKeepEmpty(s) ==
    LET stop == {k \in 1..Len(s) : s[k] = NL}
    IN  IF s = <<>> THEN <<>>
        ELSE IF stop = {} THEN <<s>>
        ELSE LET end == CHOOSE k \in stop : \A j \in stop : k <= j
             IN  <<SubSeq(s, 1, end - 1)>> \o TokensKeepEmpty(SubSeq(s, end + 1, Len(s)))

(* strtok_r(buf, "\n"): the maximal runs of characters other than "\n",    *)
(* empty runs skipped.                                                     *)
RECURSIVE Tokens(_)
Tokens(s) ==
    IF s = <<>> THEN <<>>
    ELSE IF Head(s) = NL THEN Tokens(Tail(s))
    ELSE LET stop == {k \in 1..Len(s) : s[k] = NL}
             end == IF stop = {} THEN Len(s) + 1
                    ELSE CHOOSE k \in stop : \A j \in stop : k <= j
         IN  <<SubSeq(s, 1, end - 1)>> \o Tokens(SubSeq(s, end, Len(s)))

TInit ==
    /\ tbuf = [t \in Tracers |-> <<>>]
    /\ tpc = [t \in Tracers |-> "idle"]
    /\ toks = [t \in Tracers |-> <<>>]
    /\ tk = [t \in Tracers |-> 1]
    /\ holder = NoHolder
    /\ stderr = <<>>
    /\ written = [t \in Tracers |-> <<>>]
    /\ nprints = [t \in Tracers |-> 0]
    /\ nflush = [t \in Tracers |-> 0]

(* trace_printf: ensure_trace_buffer, then str_vappend.                    *)
TracePrintf(t) ==
    /\ tpc[t] = "idle"
    /\ nprints[t] < MaxPrints
    /\ \E s \in Texts :
          /\ tbuf' = [tbuf EXCEPT ![t] = @ \o s]
          /\ written' = [written EXCEPT ![t] = @ \o s]
    /\ nprints' = [nprints EXCEPT ![t] = @ + 1]
    /\ UNCHANGED <<tpc, toks, tk, holder, stderr, nflush>>

\* mutant: trace_flush prints without taking trace_mutex
FlushBeginNoLock(t) ==
    /\ tpc[t] = "idle"
    /\ nflush[t] < MaxFlushes
    /\ tpc' = [tpc EXCEPT ![t] = "flushing"]
    /\ toks' = [toks EXCEPT ![t] = Tokens(tbuf[t])]
    /\ tk' = [tk EXCEPT ![t] = 1]
    /\ nflush' = [nflush EXCEPT ![t] = @ + 1]
    /\ UNCHANGED <<tbuf, holder, stderr, written, nprints>>

(* trace_flush up to the loop: the thread name, pthread_mutex_lock, the    *)
(* first strtok_r (the buffer is the thread's own, so its lines are fixed  *)
(* for the whole flush).                                                   *)
FlushBegin(t) ==
    /\ tpc[t] = "idle"
    /\ nflush[t] < MaxFlushes
    /\ holder = NoHolder
    /\ holder' = t
    /\ tpc' = [tpc EXCEPT ![t] = "flushing"]
    /\ toks' = [toks EXCEPT ![t] = Tokens(tbuf[t])]
    /\ tk' = [tk EXCEPT ![t] = 1]
    /\ nflush' = [nflush EXCEPT ![t] = @ + 1]
    /\ UNCHANGED <<tbuf, stderr, written, nprints>>

(* One loop iteration: fprintf of the line, then the next strtok_r.        *)
FlushLine(t) ==
    /\ tpc[t] = "flushing"
    /\ tk[t] <= Len(toks[t])
    /\ stderr' = Append(stderr, [t |-> t, line |-> toks[t][tk[t]], n |-> nflush[t]])
    /\ tk' = [tk EXCEPT ![t] = @ + 1]
    /\ UNCHANGED <<tbuf, tpc, toks, holder, written, nprints, nflush>>

FlushEnd(t) ==
    /\ tpc[t] = "flushing"
    /\ tk[t] > Len(toks[t])
    /\ holder' = IF holder = t THEN NoHolder ELSE holder
    /\ tpc' = [tpc EXCEPT ![t] = "idle"]
    /\ tbuf' = [tbuf EXCEPT ![t] = <<>>]
    /\ UNCHANGED <<toks, tk, stderr, written, nprints, nflush>>

TraceStep(t) == TracePrintf(t) \/ FlushBegin(t) \/ FlushLine(t) \/ FlushEnd(t)

TNext == \E t \in Tracers : TraceStep(t)

TSpec == TInit /\ [][TNext]_tvars

-----------------------------------------------------------------------------
Text(s) == SelectSeq(s, LAMBDA c : c # NL)

\* the text of thread t's lines on stderr, one after another
Printed(t) ==
    LET mine == SelectSeq(stderr, LAMBDA r : r.t = t)
    IN  FlattenSeq([k \in DOMAIN mine |-> mine[k].line])

(* Types, and a thread inside the flush loop owns trace_mutex.            *)
TTypeOK ==
    /\ tpc \in [Tracers -> {"idle", "flushing"}]
    /\ holder \in Tracers \cup {NoHolder}
    /\ \A t \in Tracers : tk[t] \in 1..(Len(toks[t]) + 1)
    /\ \A t \in Tracers : tpc[t] = "flushing" => holder = t

(* Output of one flush is contiguous on stderr: between two lines of the  *)
(* same flush of thread t there is no line of another thread.  This is    *)
(* what holding trace_mutex across the strtok_r/fprintf loop buys.        *)
FlushesContiguous ==
    \A i, j, k \in DOMAIN stderr :
        (i < j /\ j < k /\ stderr[i].t = stderr[k].t /\ stderr[i].n = stderr[k].n)
            => stderr[j].t = stderr[i].t

=============================================================================
