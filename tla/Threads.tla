------------------------------ MODULE Threads ------------------------------
(***************************************************************************)
(* Thread bookkeeping of src/vm/thread.c: starting Java threads            *)
(* (vm_thread_start), their exit (vm_thread_entry), the thread-count lock  *)
(* (vm_lock_thread_count / vm_unlock_thread_count) and the main thread's   *)
(* wait for non-daemon threads (vm_thread_wait_for_non_daemons).           *)
(*                                                                         *)
(* Every critical section of threads_mutex is one atomic action: none of   *)
(* them blocks while holding the mutex except in pthread_cond_wait, which  *)
(* releases it, so sections cannot interleave.  A condition wait is a pc   *)
(* label; a broadcast moves every waiter back to the label that re-runs    *)
(* its while-loop test.  The Java code run by a thread (VMThread.run) is   *)
(* abstracted to "may start other threads, then returns".                  *)
(***************************************************************************)
EXTENDS Integers, FiniteSets

CONSTANTS
    Main,       \* the main thread, attached by init_threading
    Threads,    \* java.lang.Thread objects that may be started
    Daemons,    \* those of Threads whose daemon field is set
    Lockers     \* callers of vm_lock_thread_count / vm_unlock_thread_count

ASSUME Daemons \subseteq Threads /\ Main \notin Threads \cup Lockers

Starters == {Main} \cup Threads
Procs == Starters \cup Lockers
NoThread == Main   \* "no child being started" (Main is never a child)

VARIABLES
    pc,             \* process -> control label
    child,          \* starter -> the thread its vm_thread_start is starting
    threadList,     \* vm_threads on thread_list
    nrThreads,      \* nr_threads
    nrNonDaemons,   \* nr_non_daemons
    countLocked,    \* thread_count_locked
    vmState         \* vm_thread -> state field (NEW/RUNNABLE/TERMINATED)

vars == <<pc, child, threadList, nrThreads, nrNonDaemons, countLocked, vmState>>

(* Labels of a Java thread t:                                              *)
(*   "new"        not started                 "alloc"  vm_thread allocated *)
(*   "run"        in VMThread.run             "failed" start returned -1   *)
(*   "st_nd"      about to count a non-daemon child                        *)
(*   "st_lock"    about to enter the attach critical section               *)
(*   "st_wait"    waiting on thread_count_lock_cond in vm_thread_start     *)
(*   "exit_lock"  about to enter the detach critical section               *)
(*   "exit_wait"  waiting on thread_count_lock_cond in vm_thread_entry     *)
(*   "done"       detached                                                 *)
(* Main: "run", the start labels, "wait_lock", "wait_wait", "returned".    *)
(* A locker: "idle", "holding", "done".                                    *)
StartLabels == {"st_nd", "st_lock", "st_wait"}
Alive(t) == pc[t] \in {"run", "exit_lock", "exit_wait"} \cup StartLabels

IsDaemon(t) == t \in Daemons

\* mutant: nr_non_daemons decremented for daemon threads as well
DetachAlwaysNonDaemon(t, list, count) ==
    /\ vmState' = [vmState EXCEPT ![t] = "TERMINATED"]
    /\ threadList' = list \ {t}
    /\ nrNonDaemons' = nrNonDaemons - 1
    /\ nrThreads' = count - 1

\* vm_thread_detach_thread, called with threads_mutex held, applied to the
\* thread list and count as they are at the call
Detach(t, list, count) ==
    /\ vmState' = [vmState EXCEPT ![t] = "TERMINATED"]
    /\ threadList' = list \ {t}
    /\ nrNonDaemons' = IF ~IsDaemon(t) THEN nrNonDaemons - 1 ELSE nrNonDaemons
    /\ nrThreads' = count - 1

\* mutant: the waiter returns on wake-up without re-testing nr_non_daemons
TermBroadcastNoRecheck(p) ==
    [q \in Procs |-> IF q = Main /\ pc[Main] = "wait_wait" THEN "returned"
                     ELSE p[q]]

\* pthread_cond_broadcast(&thread_terminate_cond)
TermBroadcast(p) ==
    [q \in Procs |-> IF q = Main /\ pc[Main] = "wait_wait" THEN "wait_lock"
                     ELSE p[q]]

\* pthread_cond_broadcast(&thread_count_lock_cond)
CountBroadcast(p) ==
    [q \in Procs |-> CASE p[q] = "st_wait" -> "st_lock"
                       [] p[q] = "exit_wait" -> "exit_lock"
                       [] OTHER -> p[q]]

-----------------------------------------------------------------------------
(* Initial state: right after init_threading returned 0.                   *)
Init ==
    /\ pc = [p \in Procs |-> CASE p = Main -> "run"
                               [] p \in Threads -> "new"
                               [] OTHER -> "idle"]
    /\ child = [s \in Starters |-> NoThread]
    /\ threadList = {Main}
    /\ nrThreads = 1
    /\ nrNonDaemons = 0
    /\ countLocked = FALSE
    /\ vmState = [t \in Starters |-> IF t = Main THEN "RUNNABLE" ELSE "NEW"]

(* vm_thread_start, first part: vm_thread_alloc fails (returns -1).        *)
StartAllocFail(s, t) ==
    /\ pc[s] = "run" /\ pc[t] = "new"
    /\ pc' = [pc EXCEPT ![t] = "failed"]
    /\ UNCHANGED <<child, threadList, nrThreads, nrNonDaemons, countLocked, vmState>>

(* vm_thread_start, first part: allocate, set RUNNABLE and vmdata (no lock *)
(* taken), then take the non-daemon branch or go to the attach section.     *)
StartAlloc(s, t) ==
    /\ pc[s] = "run" /\ pc[t] = "new"
    /\ vmState' = [vmState EXCEPT ![t] = "RUNNABLE"]
    /\ child' = [child EXCEPT ![s] = t]
    /\ pc' = [pc EXCEPT ![t] = "alloc",
                        ![s] = IF IsDaemon(t) THEN "st_lock" ELSE "st_nd"]
    /\ UNCHANGED <<threadList, nrThreads, nrNonDaemons, countLocked>>

(* lock threads_mutex; nr_non_daemons++; unlock                            *)
StartCountNonDaemon(s) ==
    /\ pc[s] = "st_nd"
    /\ nrNonDaemons' = nrNonDaemons + 1
    /\ pc' = [pc EXCEPT ![s] = "st_lock"]
    /\ UNCHANGED <<child, threadList, nrThreads, countLocked, vmState>>

(* lock threads_mutex; while (thread_count_locked) wait: the wait.         *)
StartWait(s) ==
    /\ pc[s] = "st_lock"
    /\ countLocked
    /\ pc' = [pc EXCEPT ![s] = "st_wait"]
    /\ UNCHANGED <<child, threadList, nrThreads, nrNonDaemons, countLocked, vmState>>

\* mutant: the while (thread_count_locked) loop left out of vm_thread_start
StartAttachNoWait(s) ==
    LET t == child[s] IN
    /\ pc[s] \in {"st_lock", "st_wait"}
    /\ threadList' = threadList \cup {t}
    /\ nrThreads' = nrThreads + 1
    /\ pc' = [pc EXCEPT ![t] = "run", ![s] = "run"]
    /\ child' = [child EXCEPT ![s] = NoThread]
    /\ UNCHANGED <<nrNonDaemons, countLocked, vmState>>

(* The loop exits: attach, pthread_create succeeds, unlock.                *)
StartAttach(s) ==
    LET t == child[s] IN
    /\ pc[s] = "st_lock"
    /\ ~countLocked
    /\ threadList' = threadList \cup {t}
    /\ nrThreads' = nrThreads + 1
    /\ pc' = [pc EXCEPT ![t] = "run", ![s] = "run"]
    /\ child' = [child EXCEPT ![s] = NoThread]
    /\ UNCHANGED <<nrNonDaemons, countLocked, vmState>>

\* mutant: the failure path detaches a thread it never attached
StartCreateFailNoAttach(s) ==
    LET t == child[s] IN
    /\ pc[s] = "st_lock"
    /\ ~countLocked
    /\ Detach(t, threadList, nrThreads)
    /\ pc' = TermBroadcast([pc EXCEPT ![t] = "failed", ![s] = "run"])
    /\ child' = [child EXCEPT ![s] = NoThread]
    /\ UNCHANGED countLocked

(* The loop exits: attach, pthread_create fails, detach, unlock; -1.       *)
StartCreateFail(s) ==
    LET t == child[s] IN
    /\ pc[s] = "st_lock"
    /\ ~countLocked
    /\ Detach(t, threadList \cup {t}, nrThreads + 1)
    /\ pc' = TermBroadcast([pc EXCEPT ![t] = "failed", ![s] = "run"])
    /\ child' = [child EXCEPT ![s] = NoThread]
    /\ UNCHANGED countLocked

(* VMThread.run returns (an uncaught exception is printed).                 *)
RunReturns(t) ==
    /\ pc[t] = "run"
    /\ pc' = [pc EXCEPT ![t] = "exit_lock"]
    /\ UNCHANGED <<child, threadList, nrThreads, nrNonDaemons, countLocked, vmState>>

(* vm_thread_entry: lock; while (thread_count_locked) wait: the wait.       *)
ExitWait(t) ==
    /\ pc[t] = "exit_lock"
    /\ countLocked
    /\ pc' = [pc EXCEPT ![t] = "exit_wait"]
    /\ UNCHANGED <<child, threadList, nrThreads, nrNonDaemons, countLocked, vmState>>

\* mutant: detach without broadcasting thread_terminate_cond
ExitDetachNoBroadcast(t) ==
    /\ pc[t] = "exit_lock"
    /\ ~countLocked
    /\ Detach(t, threadList, nrThreads)
    /\ pc' = [pc EXCEPT ![t] = "done"]
    /\ UNCHANGED <<child, countLocked>>

(* vm_thread_entry: the loop exits; detach self, broadcast, unlock.         *)
ExitDetach(t) ==
    /\ pc[t] = "exit_lock"
    /\ ~countLocked
    /\ Detach(t, threadList, nrThreads)
    /\ pc' = TermBroadcast([pc EXCEPT ![t] = "done"])
    /\ UNCHANGED <<child, countLocked>>

(* The main thread calls vm_thread_wait_for_non_daemons.                   *)
MainWaitBegin ==
    /\ pc[Main] = "run"
    /\ pc' = [pc EXCEPT ![Main] = "wait_lock"]
    /\ UNCHANGED <<child, threadList, nrThreads, nrNonDaemons, countLocked, vmState>>

(* while (nr_non_daemons) pthread_cond_wait(&thread_terminate_cond, ...)   *)
MainWaitCheck ==
    /\ pc[Main] = "wait_lock"
    /\ pc' = [pc EXCEPT ![Main] = IF nrNonDaemons # 0 THEN "wait_wait" ELSE "returned"]
    /\ UNCHANGED <<child, threadList, nrThreads, nrNonDaemons, countLocked, vmState>>

(* vm_lock_thread_count                                                    *)
LockThreadCount(l) ==
    /\ pc[l] = "idle"
    /\ countLocked' = TRUE
    /\ pc' = [pc EXCEPT ![l] = "holding"]
    /\ UNCHANGED <<child, threadList, nrThreads, nrNonDaemons, vmState>>

\* mutant: the flag cleared without waking the waiters
UnlockThreadCountNoBroadcast(l) ==
    /\ pc[l] = "holding"
    /\ countLocked' = FALSE
    /\ pc' = [pc EXCEPT ![l] = "done"]
    /\ UNCHANGED <<child, threadList, nrThreads, nrNonDaemons, vmState>>

(* vm_unlock_thread_count: clear the flag and wake every waiter.           *)
UnlockThreadCount(l) ==
    /\ pc[l] = "holding"
    /\ countLocked' = FALSE
    /\ pc' = CountBroadcast([pc EXCEPT ![l] = "done"])
    /\ UNCHANGED <<child, threadList, nrThreads, nrNonDaemons, vmState>>

(* pthread_cond_wait may return without a broadcast (POSIX allows         *)
(* spurious wake-ups); the waiter re-runs its while-loop test.  Nothing     *)
(* forces such a wake-up to happen, so it carries no fairness.              *)
SpuriousWake(p) ==
    /\ pc[p] \in {"st_wait", "exit_wait", "wait_wait"}
    /\ pc' = [pc EXCEPT ![p] = CASE pc[p] = "st_wait" -> "st_lock"
                                  [] pc[p] = "exit_wait" -> "exit_lock"
                                  [] OTHER -> "wait_lock"]
    /\ UNCHANGED <<child, threadList, nrThreads, nrNonDaemons, countLocked, vmState>>

\* every process is at a label from which it takes no further step
Quiescent ==
    /\ pc[Main] = "returned"
    /\ \A t \in Threads : pc[t] \in {"new", "failed", "done"}
    /\ \A l \in Lockers : pc[l] = "done"

\* The VM has exited; the state no longer changes.
Finished == Quiescent /\ UNCHANGED vars

StarterStep(s) ==
    \/ \E t \in Threads : StartAllocFail(s, t) \/ StartAlloc(s, t)
    \/ StartCountNonDaemon(s) \/ StartWait(s) \/ StartAttach(s) \/ StartCreateFail(s)

ThreadStep(t) == StarterStep(t) \/ RunReturns(t) \/ ExitWait(t) \/ ExitDetach(t)

MainStep == StarterStep(Main) \/ MainWaitBegin \/ MainWaitCheck

LockerStep(l) == LockThreadCount(l) \/ UnlockThreadCount(l)

Next ==
    \/ MainStep
    \/ \E t \in Threads : ThreadStep(t)
    \/ \E l \in Lockers : LockerStep(l)
    \/ \E p \in Starters : SpuriousWake(p)
    \/ Finished

(* Every runnable thread is eventually scheduled (weak fairness per        *)
(* thread); a locker eventually unlocks what it locked.                    *)
Fairness ==
    /\ WF_vars(MainStep)
    /\ \A t \in Threads : WF_vars(ThreadStep(t))
    /\ \A l \in Lockers : WF_vars(LockerStep(l))

Spec == Init /\ [][Next]_vars /\ Fairness

-----------------------------------------------------------------------------
\* a non-daemon thread whose start has passed the nr_non_daemons++ section
Counted(t) ==
    \/ Alive(t)
    \/ /\ pc[t] = "alloc"
       /\ \E s \in Starters : child[s] = t /\ pc[s] \in {"st_lock", "st_wait"}

TypeOK ==
    /\ pc \in [Procs -> {"new", "alloc", "run", "failed", "exit_lock", "exit_wait",
                         "done", "wait_lock", "wait_wait", "returned",
                         "idle", "holding"} \cup StartLabels]
    /\ child \in [Starters -> Threads \cup {NoThread}]
    /\ threadList \subseteq Starters
    /\ nrThreads = Cardinality(threadList)
    /\ nrNonDaemons \in Int
    /\ countLocked \in BOOLEAN
    /\ vmState \in [Starters -> {"NEW", "RUNNABLE", "TERMINATED"}]

(* nr_non_daemons, maintained in two separate critical sections of         *)
(* vm_thread_start and in vm_thread_detach_thread (also on the             *)
(* pthread_create failure path), equals the number of non-daemon threads   *)
(* that have been counted and not yet detached.                            *)
NonDaemonCountExact ==
    nrNonDaemons = Cardinality({t \in Threads \ Daemons : Counted(t)})

(* vm_thread_wait_for_non_daemons returns only when no non-daemon Java     *)
(* thread is running, starting or exiting.                                 *)
NoEarlyExit ==
    [][pc[Main] # "returned" /\ pc'[Main] = "returned" =>
         \A t \in Threads \ Daemons : ~Alive(t)']_vars

(* While a caller holds the thread-count lock (between its                 *)
(* vm_lock_thread_count and vm_unlock_thread_count), the thread list does  *)
(* not change: no thread is attached by vm_thread_start nor detached on    *)
(* exit.                                                                   *)
CountFrozen ==
    [][\A l \in Lockers :
         pc[l] = "holding" /\ pc'[l] = "holding" => threadList' = threadList]_vars

(* Once the main thread calls vm_thread_wait_for_non_daemons it returns.   *)
MainReturns == pc[Main] = "wait_lock" ~> pc[Main] = "returned"

(* Every thread whose start began is eventually detached or failed: no     *)
(* thread is left waiting on thread_count_lock_cond.                       *)
ThreadsTerminate ==
    \A t \in Threads : pc[t] = "alloc" ~> pc[t] \in {"done", "failed"}
=============================================================================
