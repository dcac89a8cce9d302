---------------------------- MODULE TraceAtomic ----------------------------
(***************************************************************************)
(* What the trace buffer promises (spec: trace_flush writes the buffered  *)
(* lines to stderr and empties the buffer): trace_printf appends to the   *)
(* caller's buffer, and a flush appends all of the buffer's non-empty     *)
(* lines to the output in one step, so no line of another thread comes    *)
(* between them.  A line is a maximal run of characters other than a      *)
(* newline; here it is defined from where runs start and end, not by the  *)
(* left-to-right scan strtok_r performs.                                  *)
(***************************************************************************)
EXTENDS Integers, Sequences, SequencesExt

CONSTANTS Tracers, Texts

VARIABLES buffer,   \* thread -> the text it has traced and not flushed
          out       \* the lines written: [t |-> thread, line |-> text]

NL == "\n"

\* the indices where a run of non-newline characters starts
RunStarts(s) == {k \in 1..Len(s) : s[k] # NL /\ (k = 1 \/ s[k - 1] = NL)}

\* the last index of the run that starts at b
RunEnd(s, b) ==
    CHOOSE e \in b..Len(s) :
        /\ \A j \in b..e : s[j] # NL
        /\ e = Len(s) \/ s[e + 1] = NL

Lines(s) ==
    LET st == SetToSortSeq(RunStarts(s), <)
    IN  [i \in DOMAIN st |-> SubSeq(s, st[i], RunEnd(s, st[i]))]

AInit ==
    /\ buffer = [t \in Tracers |-> <<>>]
    /\ out = <<>>

APrintf(t) ==
    /\ \E s \in Texts : buffer' = [buffer EXCEPT ![t] = @ \o s]
    /\ UNCHANGED out

AFlush(t) ==
    /\ out' = out \o [i \in DOMAIN Lines(buffer[t]) |->
                        [t |-> t, line |-> Lines(buffer[t])[i]]]
    /\ buffer' = [buffer EXCEPT ![t] = <<>>]

ANext == \E t \in Tracers : APrintf(t) \/ AFlush(t)

ASpec == AInit /\ [][ANext]_<<buffer, out>>
=============================================================================
