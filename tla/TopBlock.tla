------------------------------- MODULE TopBlock -------------------------------
(***************************************************************************)
(* gr::top_block_impl: starting, stopping, waiting for and reconfiguring a *)
(* flowgraph from several user threads                                     *)
(* (gnuradio-runtime/lib/top_block_impl.cc, scheduler_tpb.cc).             *)
(*                                                                         *)
(* The n-th scheduler made is n, and its threads are one job: what happens *)
(* inside a job is TpbScheduler's.  start, stop and lock hold d_mutex from *)
(* end to end and are one step; unlock holds it while it waits for the     *)
(* job, and wait takes it only after it has waited.                        *)
(***************************************************************************)
EXTENDS Integers, FiniteSets

CONSTANTS
    Users,       \* the program's own threads
    Starters, Stoppers, Waiters, Lockers,  \* which of them make which calls
    WaitFirst,   \* whether they call start again only after a wait has returned
    MayFail,     \* whether a reconfigured flowgraph may fail validate()
    MaxSchedulers, MaxLocks  \* bounds

ASSUME RolesAssumption == Starters \cup Stoppers \cup Waiters \cup Lockers \subseteq Users
ASSUME BoundsAssumption == MaxSchedulers \in Nat \ {0} /\ MaxLocks \in Nat \ {0}

Schedulers == 1 .. MaxSchedulers
NoScheduler == 0

VARIABLES
    state,       \* d_state
    lock_count,  \* d_lock_count
    retry_wait,  \* d_retry_wait
    scheduler,   \* d_scheduler
    job,         \* the threads of each scheduler
    pc,          \* where each user thread is
    joining,     \* the scheduler a thread in wait_for_jobs() joins
    waited,      \* history: a wait() has returned since the last start()
    crashed,     \* a user thread has followed a pointer to freed memory
    locks        \* bound: calls of lock() so far

top  == <<state, lock_count, retry_wait, scheduler, job>>
vars == <<top, pc, joining, waited, crashed, locks>>

Init ==
    /\ state = "IDLE"
    /\ lock_count = 0
    /\ retry_wait = FALSE
    /\ scheduler = NoScheduler
    /\ job = [s \in Schedulers |-> "none"]
    /\ pc = [u \in Users |-> "user"]
    /\ joining = [u \in Users |-> NoScheduler]
    /\ waited = TRUE
    /\ crashed = FALSE
    /\ locks = 0

\* d_mutex is free unless a thread waits for the jobs inside unlock().
MutexFree == \A u \in Users : pc[u] # "restart"

\* Mutant: the threads are interrupted and not joined.
Joinable_interrupted(s) == s # NoScheduler => job[s] # "running"
\* scheduler->wait() returns: there is none, or all its threads have ended.
Joinable(s) == s # NoScheduler => job[s] = "ended"

\* interrupt_all on one scheduler.
Interrupt(jobs, s) ==
    [t \in Schedulers |-> IF t = s /\ jobs[t] = "running" THEN "stopping" ELSE jobs[t]]

(* d_scheduler = make_scheduler(): the new threads run, then the old        *)
(* scheduler's destructor interrupts its threads and does not join them.    *)
MakeScheduler ==
    /\ scheduler < MaxSchedulers
    /\ scheduler' = scheduler + 1
    /\ job' = [Interrupt(job, scheduler) EXCEPT ![scheduler + 1] = "running"]

-----------------------------------------------------------------------------
\* Mutant: start() does not look at d_lock_count.
MayStart_locked  == state = "IDLE"
\* The two checks of start(); the call throws otherwise.
MayStart == state = "IDLE" /\ lock_count = 0

Start(u) ==
    /\ u \in Starters /\ pc[u] = "user" /\ MutexFree
    /\ MayStart
    /\ WaitFirst => waited
    /\ MakeScheduler
    /\ state' = "RUNNING"
    /\ waited' = FALSE
    /\ UNCHANGED <<lock_count, retry_wait, pc, joining, crashed, locks>>

\* stop(): interrupts the threads and is IDLE at once.
Stop(u) ==
    /\ u \in Stoppers /\ pc[u] = "user" /\ MutexFree
    /\ job' = Interrupt(job, scheduler)
    /\ state' = "IDLE"
    /\ UNCHANGED <<lock_count, retry_wait, scheduler, pc, joining, waited, crashed, locks>>

\* lock(): interrupts the threads, whatever d_state is.
Lock(u) ==
    /\ u \in Lockers /\ pc[u] = "user" /\ MutexFree
    /\ locks < MaxLocks
    /\ scheduler < MaxSchedulers
    /\ job' = Interrupt(job, scheduler)
    /\ lock_count' = lock_count + 1
    /\ locks' = locks + 1
    /\ UNCHANGED <<state, retry_wait, scheduler, pc, joining, waited, crashed>>

\* Mutant: an unpaired unlock() is let through.
Paired_unchecked == TRUE
\* unlock() throws unless it pairs with a lock().
Paired == lock_count > 0

\* unlock(): the last one of a running flowgraph restarts it, d_mutex held.
Unlock(u) ==
    /\ u \in Lockers /\ pc[u] = "user" /\ MutexFree
    /\ Paired
    /\ lock_count' = lock_count - 1
    /\ pc' = [pc EXCEPT ![u] = IF lock_count = 1 /\ state = "RUNNING" THEN "restart"
                                                                      ELSE "user"]
    /\ UNCHANGED <<state, retry_wait, scheduler, job, joining, waited, crashed, locks>>

\* Mutants: the waiters in d_lock_cond are not told; d_retry_wait is not set.
Restart_silent(u) ==
    /\ pc[u] = "restart" /\ Joinable(scheduler)
    /\ MakeScheduler
    /\ retry_wait' = TRUE
    /\ pc' = [pc EXCEPT ![u] = "user"]
    /\ UNCHANGED <<state, lock_count, joining, waited, crashed, locks>>

Restart_noretry(u) ==
    /\ pc[u] = "restart" /\ Joinable(scheduler)
    /\ MakeScheduler
    /\ pc' = [v \in Users |-> IF v = u THEN "user"
                              ELSE IF pc[v] = "asleep" THEN "wait" ELSE pc[v]]
    /\ UNCHANGED <<state, lock_count, retry_wait, joining, waited, crashed, locks>>

\* restart() once the old threads have ended, then notify_all.
Restart(u) ==
    /\ pc[u] = "restart" /\ Joinable(scheduler)
    /\ MakeScheduler
    /\ retry_wait' = TRUE
    /\ pc' = [v \in Users |-> IF v = u THEN "user"
                              ELSE IF pc[v] = "asleep" THEN "wait" ELSE pc[v]]
    /\ UNCHANGED <<state, lock_count, joining, waited, crashed, locks>>

\* The new flowgraph does not validate: the exception leaves unlock().
RestartThrows(u) ==
    /\ MayFail
    /\ pc[u] = "restart" /\ Joinable(scheduler)
    /\ pc' = [pc EXCEPT ![u] = "user"]
    /\ UNCHANGED <<top, joining, waited, crashed, locks>>

-----------------------------------------------------------------------------
\* wait() begins.
Wait(u) ==
    /\ u \in Waiters /\ pc[u] = "user"
    /\ pc' = [pc EXCEPT ![u] = "wait"]
    /\ UNCHANGED <<top, joining, waited, crashed, locks>>

\* wait_for_jobs() reads d_scheduler without d_mutex ...
Join(u) ==
    /\ pc[u] = "wait"
    /\ pc' = [pc EXCEPT ![u] = "join"]
    /\ joining' = [joining EXCEPT ![u] = scheduler]
    /\ UNCHANGED <<top, waited, crashed, locks>>

\* ... and its join_all() returns.  If the scheduler has been replaced
\* meanwhile, join_all() works on freed memory: it may return at any time ...
Joined(u) ==
    /\ pc[u] = "join"
    /\ Joinable(joining[u]) \/ joining[u] # scheduler
    /\ pc' = [pc EXCEPT ![u] = "joined"]
    /\ joining' = [joining EXCEPT ![u] = NoScheduler]
    /\ UNCHANGED <<top, waited, crashed, locks>>

\* ... or crash.
JoinFreed(u) ==
    /\ pc[u] = "join"
    /\ joining[u] \notin {NoScheduler, scheduler}
    /\ crashed' = TRUE
    /\ UNCHANGED <<top, pc, joining, waited, locks>>

\* The rest of the loop, under d_mutex: sleep while locked, go round again
\* after a restart, or else set IDLE and return.
Relock(u) ==
    /\ pc[u] = "joined" /\ MutexFree
    /\ IF lock_count > 0
       THEN pc' = [pc EXCEPT ![u] = "asleep"] /\ UNCHANGED <<state, retry_wait, waited>>
       ELSE IF retry_wait
       THEN /\ retry_wait' = FALSE
            /\ pc' = [pc EXCEPT ![u] = "wait"]
            /\ UNCHANGED <<state, waited>>
       ELSE /\ state' = "IDLE"
            /\ pc' = [pc EXCEPT ![u] = "user"]
            /\ waited' = TRUE
            /\ UNCHANGED retry_wait
    /\ UNCHANGED <<lock_count, scheduler, job, joining, crashed, locks>>

\* A condition variable may wake without being notified.
SpuriousWake(u) ==
    /\ pc[u] = "asleep" /\ MutexFree
    /\ pc' = [pc EXCEPT ![u] = "wait"]
    /\ UNCHANGED <<top, joining, waited, crashed, locks>>

-----------------------------------------------------------------------------
\* The threads of a scheduler end: interrupted, or all blocks are done.
Ended(s) == job' = [job EXCEPT ![s] = "ended"] /\ UNCHANGED <<state, lock_count,
                retry_wait, scheduler, pc, joining, waited, crashed, locks>>
Exit(s)   == job[s] = "stopping" /\ Ended(s)
Finish(s) == job[s] = "running" /\ Ended(s)

\* The steps inside a call.
Inside(u) == Restart(u) \/ RestartThrows(u) \/ Join(u) \/ Joined(u) \/ JoinFreed(u)
             \/ Relock(u)

Next ==
    /\ ~crashed
    /\ \/ \E u \in Users : \/ Start(u) \/ Stop(u) \/ Lock(u) \/ Unlock(u) \/ Wait(u)
                           \/ Inside(u) \/ SpuriousWake(u)
       \/ \E s \in Schedulers : Exit(s) \/ Finish(s)

Spec == Init /\ [][Next]_vars

(* Interrupted threads end (TpbScheduler's StopEnds), calls go on, a user   *)
(* who has locked unlocks, and the flowgraph is finite.                     *)
FiniteSpec ==
    /\ Spec
    /\ \A u \in Users : WF_vars(~crashed /\ Inside(u)) /\ WF_vars(~crashed /\ Unlock(u))
    /\ \A s \in Schedulers : WF_vars(~crashed /\ Exit(s)) /\ WF_vars(~crashed /\ Finish(s))

-----------------------------------------------------------------------------
TypeOK ==
    /\ state \in {"IDLE", "RUNNING"}
    /\ lock_count \in 0 .. MaxLocks
    /\ retry_wait \in BOOLEAN
    /\ scheduler \in 0 .. MaxSchedulers
    /\ job \in [Schedulers -> {"none", "running", "stopping", "ended"}]
    /\ pc \in [Users -> {"user", "wait", "join", "joined", "asleep", "restart"}]
    /\ joining \in [Users -> 0 .. MaxSchedulers]
    /\ waited \in BOOLEAN
    /\ crashed \in BOOLEAN
    /\ locks \in 0 .. MaxLocks

(* While the flowgraph is locked its threads are ended or ending, whatever  *)
(* was called before: nobody reconfigures a graph that runs.                *)
LockedIsQuiet == lock_count > 0 => scheduler = NoScheduler \/ job[scheduler] # "running"

(* Two generations of threads never run the same blocks: each scheduler but *)
(* the current one has ended.  The text start() throws: "wait() not called  *)
(* after previous stop()".                                                  *)
OneGeneration == \A s \in Schedulers : job[s] \in {"running", "stopping"} => s = scheduler

(* wait() does not return while the flowgraph it waits for runs: not even   *)
(* one that was restarted between the join and the check of d_lock_count.   *)
WaitNotEarly ==
    [][\A u \in Users : (pc[u] = "joined" /\ pc'[u] = "user") => Joinable(scheduler)]_vars

(* A wait() on a running flowgraph returns once the flowgraph has completed *)
(* however often it is locked and restarted meanwhile.                      *)
WaitReturns ==
    \A u \in Users : (pc[u] = "join" /\ state = "RUNNING") ~> (pc[u] = "user" \/ crashed)

(* top_block.h on wait(): "Flowgraphs complete when [...] (2) after stop()  *)
(* has been called to request shutdown".                                    *)
WaitReturnsAfterStop ==
    \A u \in Users : (pc[u] = "join" /\ joining[u] # NoScheduler /\ state = "IDLE")
                     ~> (pc[u] = "user" \/ crashed)

(* Each step that starts the flowgraph finds no run of it left, and no step  *)
(* leads to two generations of threads in one block (start, restart and wait *)
(* of top_block_impl).  top_block.h: "Calling start() on a top_block that is *)
(* already started IS an error".                                             *)
OneRunAtATime ==
    [][/\ (state = "IDLE" /\ state' = "RUNNING")
             => (scheduler = NoScheduler \/ job[scheduler] # "running")
       /\ OneGeneration']_vars
=============================================================================
