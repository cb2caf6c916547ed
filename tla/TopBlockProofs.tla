---------------------------- MODULE TopBlockProofs ----------------------------
(* What TopBlock promises for any users and bounds: what holds whatever calls *)
(* each of them makes, and then what holds if one of them alone starts the    *)
(* flowgraph and waits for it.                                                *)
EXTENDS TopBlock, TLAPS

\* The bound on lock() also bounds how deep the locks nest.
LocksBoundDepth == lock_count <= locks

\* unlock() restarts only when it has undone the last lock(), and d_mutex,
\* which it holds meanwhile, keeps new calls of lock() out.
RestartIsUnlocked == \A u \in Users : pc[u] = "restart" => lock_count = 0

\* A locked flowgraph can be restarted by nobody, and nobody starts it.
IInv == TypeOK /\ LocksBoundDepth /\ RestartIsUnlocked /\ LockedIsQuiet

-----------------------------------------------------------------------------
\* interrupt_all leaves the scheduler it works on with no running thread, and
\* changes nothing about a scheduler that has none.
LEMMA InterruptLemma ==
    ASSUME NEW jobs \in [Schedulers -> {"none", "running", "stopping", "ended"}],
           NEW s
    PROVE  /\ Interrupt(jobs, s) \in [Schedulers -> {"none", "running", "stopping", "ended"}]
           /\ s \in Schedulers => Interrupt(jobs, s)[s] # "running"
           /\ \A t \in Schedulers : jobs[t] # "running" => Interrupt(jobs, s)[t] # "running"
  BY DEF Interrupt

\* The initial state: nothing is locked and nothing runs.
LEMMA InitIInv == Init => IInv
  <1> SUFFICES ASSUME Init PROVE IInv
    OBVIOUS
  <1>1. /\ state \in {"IDLE", "RUNNING"}
        /\ lock_count \in 0 .. MaxLocks /\ locks \in 0 .. MaxLocks
        /\ scheduler \in 0 .. MaxSchedulers
        /\ job \in [Schedulers -> {"none", "running", "stopping", "ended"}]
        /\ pc \in [Users -> {"user", "wait", "join", "joined", "asleep", "restart"}]
        /\ joining \in [Users -> 0 .. MaxSchedulers]
    BY BoundsAssumption DEF Init, NoScheduler
  <1>2. retry_wait \in BOOLEAN /\ waited \in BOOLEAN /\ crashed \in BOOLEAN
    BY Zenon DEF Init
  <1>3. LocksBoundDepth /\ RestartIsUnlocked /\ LockedIsQuiet
    BY DEF Init, LocksBoundDepth, RestartIsUnlocked, LockedIsQuiet, NoScheduler
  <1> QED
    BY <1>1, <1>2, <1>3 DEF IInv, TypeOK

\* make_scheduler() keeps the types.
LEMMA MakeSchedulerTypes ==
    ASSUME TypeOK, MakeScheduler
    PROVE  /\ scheduler' \in 0 .. MaxSchedulers
           /\ job' \in [Schedulers -> {"none", "running", "stopping", "ended"}]
  <1>1. /\ scheduler \in 0 .. MaxSchedulers
        /\ job \in [Schedulers -> {"none", "running", "stopping", "ended"}]
        /\ scheduler < MaxSchedulers
        /\ scheduler' = scheduler + 1
    BY DEF TypeOK, MakeScheduler
  <1>2. Interrupt(job, scheduler) \in [Schedulers -> {"none", "running", "stopping", "ended"}]
    BY <1>1, InterruptLemma
  <1>3. job' = [Interrupt(job, scheduler) EXCEPT ![scheduler + 1] = "running"]
    BY DEF MakeScheduler
  <1>4. scheduler' \in 0 .. MaxSchedulers
    BY <1>1, BoundsAssumption
  <1> QED
    BY <1>2, <1>3, <1>4

\* A call of start(), or a restart, is made while nothing is locked.
LEMMA StepIInv == IInv /\ [Next]_vars => IInv'
  <1> SUFFICES ASSUME IInv, [Next]_vars PROVE IInv'
    OBVIOUS
  <1> USE DEF NoScheduler
  <1>a. /\ TypeOK /\ LocksBoundDepth /\ RestartIsUnlocked /\ LockedIsQuiet
    BY DEF IInv
  <1>b. /\ lock_count \in Nat /\ locks \in Nat /\ scheduler \in Nat
        /\ MaxLocks \in Nat /\ MaxSchedulers \in Nat
    BY <1>a, BoundsAssumption DEF TypeOK
  <1>c. job \in [Schedulers -> {"none", "running", "stopping", "ended"}]
    BY <1>a DEF TypeOK
  <1>1. ASSUME NEW u \in Users, Start(u) PROVE IInv'
    <2>1. TypeOK'
      BY <1>1, <1>a, MakeSchedulerTypes DEF Start, TypeOK
    <2>2. lock_count' = 0
      BY <1>1 DEF Start, MayStart
    <2>3. LocksBoundDepth'
      BY <1>1, <1>a DEF Start, LocksBoundDepth
    <2>4. RestartIsUnlocked' /\ LockedIsQuiet'
      BY <2>2 DEF RestartIsUnlocked, LockedIsQuiet
    <2> QED BY <2>1, <2>3, <2>4 DEF IInv
  <1>2. ASSUME NEW u \in Users, Stop(u) PROVE IInv'
    <2>1. TypeOK'
      BY <1>2, <1>a, <1>c, InterruptLemma DEF Stop, TypeOK
    <2>2. LocksBoundDepth' /\ RestartIsUnlocked'
      BY <1>2, <1>a DEF Stop, LocksBoundDepth, RestartIsUnlocked
    <2>3. LockedIsQuiet'
      <3>1. job' = Interrupt(job, scheduler) /\ scheduler' = scheduler
        BY <1>2 DEF Stop
      <3>2. scheduler = 0 \/ scheduler \in Schedulers
        BY <1>a, <1>b DEF TypeOK, Schedulers
      <3> QED BY <3>1, <3>2, <1>c, InterruptLemma DEF LockedIsQuiet
    <2> QED BY <2>1, <2>2, <2>3 DEF IInv
  <1>3. ASSUME NEW u \in Users, Lock(u) PROVE IInv'
    <2>0. /\ lock_count' = lock_count + 1 /\ locks' = locks + 1 /\ locks < MaxLocks
          /\ scheduler' = scheduler /\ pc' = pc
          /\ job' = Interrupt(job, scheduler)
      BY <1>3 DEF Lock
    <2>1. LocksBoundDepth' /\ lock_count' \in 0 .. MaxLocks /\ locks' \in 0 .. MaxLocks
      BY <2>0, <1>a, <1>b DEF LocksBoundDepth
    <2>2. TypeOK'
      BY <1>3, <2>0, <2>1, <1>a, <1>c, InterruptLemma DEF Lock, TypeOK
    <2>3. RestartIsUnlocked'
      BY <1>3, <2>0 DEF Lock, MutexFree, RestartIsUnlocked
    <2>4. LockedIsQuiet'
      <3>1. scheduler = 0 \/ scheduler \in Schedulers
        BY <1>a, <1>b DEF TypeOK, Schedulers
      <3> QED BY <3>1, <2>0, <1>c, InterruptLemma DEF LockedIsQuiet
    <2> QED BY <2>1, <2>2, <2>3, <2>4 DEF IInv
  <1>4. ASSUME NEW u \in Users, Unlock(u) PROVE IInv'
    <2>0. /\ lock_count > 0 /\ lock_count' = lock_count - 1 /\ locks' = locks
          /\ scheduler' = scheduler /\ job' = job
      BY <1>4 DEF Unlock, Paired
    <2>1. LocksBoundDepth' /\ lock_count' \in 0 .. MaxLocks
      BY <2>0, <1>a, <1>b DEF LocksBoundDepth, TypeOK
    <2>2. TypeOK'
      BY <1>4, <2>0, <2>1, <1>a DEF Unlock, TypeOK, top
    <2>3. RestartIsUnlocked'
      <3> SUFFICES ASSUME NEW v \in Users, pc'[v] = "restart" PROVE lock_count' = 0
        BY DEF RestartIsUnlocked
      <3>1. pc[v] # "restart"
        BY <1>4 DEF Unlock, MutexFree
      <3>2. v = u /\ lock_count = 1
        BY <3>1, <1>4, <1>a DEF Unlock, TypeOK
      <3> QED BY <3>2, <2>0
    <2>4. LockedIsQuiet'
      BY <2>0, <1>a, <1>b DEF LockedIsQuiet
    <2> QED BY <2>1, <2>2, <2>3, <2>4 DEF IInv
  <1>5. ASSUME NEW u \in Users, Restart(u) PROVE IInv'
    <2>1. lock_count' = 0 /\ lock_count' = lock_count /\ locks' = locks
      BY <1>5, <1>a DEF Restart, RestartIsUnlocked
    <2>2. pc' \in [Users -> {"user", "wait", "join", "joined", "asleep", "restart"}]
      BY <1>5, <1>a DEF Restart, TypeOK
    <2>3. TypeOK'
      BY <1>5, <2>2, <1>a, MakeSchedulerTypes DEF Restart, TypeOK
    <2>4. LocksBoundDepth'
      BY <2>1, <1>a DEF LocksBoundDepth
    <2>5. RestartIsUnlocked' /\ LockedIsQuiet'
      BY <2>1 DEF RestartIsUnlocked, LockedIsQuiet
    <2> QED BY <2>3, <2>4, <2>5 DEF IInv
  <1>6. ASSUME NEW u \in Users,
               RestartThrows(u) \/ Wait(u) \/ JoinFreed(u) \/ SpuriousWake(u)
        PROVE  IInv'
    <2>0. /\ UNCHANGED <<state, lock_count, retry_wait, scheduler, job, joining, waited, locks>>
          /\ crashed' \in BOOLEAN
          /\ pc' \in [Users -> {"user", "wait", "join", "joined", "asleep", "restart"}]
          /\ \A v \in Users : pc'[v] = "restart" => pc[v] = "restart"
      BY <1>6, <1>a DEF RestartThrows, Wait, JoinFreed, SpuriousWake, TypeOK, top
    <2>1. TypeOK'
      BY <2>0, <1>a DEF TypeOK
    <2>2. LocksBoundDepth' /\ RestartIsUnlocked' /\ LockedIsQuiet'
      BY <2>0, <1>a DEF LocksBoundDepth, RestartIsUnlocked, LockedIsQuiet
    <2> QED BY <2>1, <2>2 DEF IInv
  <1>7. ASSUME NEW u \in Users, Join(u) \/ Joined(u) PROVE IInv'
    <2>0. /\ UNCHANGED <<state, lock_count, retry_wait, scheduler, job, waited, crashed, locks>>
          /\ joining' \in [Users -> 0 .. MaxSchedulers]
          /\ pc' \in [Users -> {"user", "wait", "join", "joined", "asleep", "restart"}]
          /\ \A v \in Users : pc'[v] = "restart" => pc[v] = "restart"
      BY <1>7, <1>a, <1>b DEF Join, Joined, TypeOK, top
    <2>1. TypeOK'
      BY <2>0, <1>a DEF TypeOK
    <2>2. LocksBoundDepth' /\ RestartIsUnlocked' /\ LockedIsQuiet'
      BY <2>0, <1>a DEF LocksBoundDepth, RestartIsUnlocked, LockedIsQuiet
    <2> QED BY <2>1, <2>2 DEF IInv
  <1>8. ASSUME NEW u \in Users, Relock(u) PROVE IInv'
    <2>0. /\ UNCHANGED <<lock_count, scheduler, job, joining, crashed, locks>>
          /\ state' \in {"IDLE", "RUNNING"}
          /\ retry_wait' \in BOOLEAN
          /\ waited' \in BOOLEAN
          /\ pc' \in [Users -> {"user", "wait", "join", "joined", "asleep", "restart"}]
          /\ \A v \in Users : pc'[v] = "restart" => pc[v] = "restart"
      <3>1. /\ UNCHANGED <<lock_count, scheduler, job, joining, crashed, locks>>
            /\ \E x \in {"asleep", "wait", "user"} : pc' = [pc EXCEPT ![u] = x]
        BY <1>8 DEF Relock
      <3>2. /\ state' \in {"IDLE", "RUNNING"}
            /\ retry_wait' = retry_wait \/ retry_wait' = FALSE
            /\ waited' = waited \/ waited' = TRUE
        BY <1>8, <1>a DEF Relock, TypeOK
      <3>3. retry_wait' \in BOOLEAN /\ waited' \in BOOLEAN
        BY <3>2, <1>a, Zenon DEF TypeOK
      <3>4. /\ pc' \in [Users -> {"user", "wait", "join", "joined", "asleep", "restart"}]
            /\ \A v \in Users : pc'[v] = "restart" => pc[v] = "restart"
        BY <3>1, <1>a DEF TypeOK
      <3> QED BY <3>1, <3>2, <3>3, <3>4
    <2>1. TypeOK'
      BY <2>0, <1>a DEF TypeOK
    <2>2. LocksBoundDepth' /\ RestartIsUnlocked' /\ LockedIsQuiet'
      BY <2>0, <1>a DEF LocksBoundDepth, RestartIsUnlocked, LockedIsQuiet
    <2> QED BY <2>1, <2>2 DEF IInv
  <1>9. ASSUME NEW s \in Schedulers, Exit(s) \/ Finish(s) PROVE IInv'
    <2>0. /\ job' = [job EXCEPT ![s] = "ended"]
          /\ UNCHANGED <<state, lock_count, retry_wait, scheduler, pc, joining, waited,
                         crashed, locks>>
      BY <1>9 DEF Exit, Finish, Ended
    <2>1. TypeOK'
      BY <2>0, <1>a DEF TypeOK
    <2>2. LocksBoundDepth' /\ RestartIsUnlocked'
      BY <2>0, <1>a DEF LocksBoundDepth, RestartIsUnlocked
    <2>3. LockedIsQuiet'
      <3>1. scheduler = 0 \/ scheduler \in Schedulers
        BY <1>a, <1>b DEF TypeOK, Schedulers
      <3>2. scheduler \in Schedulers /\ job[scheduler] # "running" => job'[scheduler] # "running"
        BY <2>0, <1>c
      <3> QED BY <3>1, <3>2, <2>0, <1>a DEF LockedIsQuiet
    <2> QED BY <2>1, <2>2, <2>3 DEF IInv
  <1>10. CASE UNCHANGED vars
    BY <1>10, <1>a DEF vars, top, IInv, TypeOK, LocksBoundDepth, RestartIsUnlocked,
                       LockedIsQuiet
  <1> QED
    BY <1>1, <1>2, <1>3, <1>4, <1>5, <1>6, <1>7, <1>8, <1>9, <1>10 DEF Next, Inside

\* The inductive invariant holds in every reachable state.
THEOREM Inductive == Spec => []IInv
  <1> QED BY InitIInv, StepIInv, PTL DEF Spec

\* Every variable of top_block_impl keeps its type, for any users and bounds.
THEOREM TypeCorrect == Spec => []TypeOK
  <1>1. IInv => TypeOK
    BY DEF IInv
  <1> QED BY <1>1, Inductive, PTL

\* While lock() is in force no thread of the flowgraph is left running, for any
\* number of users and any sequence of calls (top_block_impl.cc lock, unlock).
THEOREM LockHolds == Spec => []LockedIsQuiet
  <1>1. IInv => LockedIsQuiet
    BY DEF IInv
  <1> QED BY <1>1, Inductive, PTL

-----------------------------------------------------------------------------
(* The client's part.  The documentation asks for a wait() between two       *)
(* starts; what it does not say is that the thread that starts must be the   *)
(* only one that waits: d_retry_wait tells one waiter of a restart.          *)
OneClient == \A u, v \in Starters \cup Waiters : u = v

\* A waiter whose scheduler was replaced is told by d_retry_wait to go round again.
JoinsFollow ==
    \A u \in Users :
        /\ pc[u] \in {"wait", "join", "joined", "asleep"} => u \in Waiters
        /\ pc[u] = "join" /\ joining[u] # scheduler => retry_wait
        /\ pc[u] = "joined" /\ ~Joinable(scheduler) => retry_wait

WInv == IInv /\ JoinsFollow

\* After a wait() has returned the run is over, and no unlock() is about to restart it.
WaitedIsOver == waited => state = "IDLE" /\ Joinable(scheduler) /\ MutexFree

RInv == WInv /\ WaitedIsOver /\ OneGeneration

-----------------------------------------------------------------------------
\* A job that has ended stays so, and the steps that replace no scheduler keep
\* what can be joined joinable.
LEMMA JoinableLasts ==
    ASSUME TypeOK, scheduler' = scheduler, Joinable(scheduler),
           \/ job' = job
           \/ job' = Interrupt(job, scheduler)
           \/ \E s \in Schedulers : job' = [job EXCEPT ![s] = "ended"]
    PROVE  Joinable(scheduler)'
  <1>1. job \in [Schedulers -> {"none", "running", "stopping", "ended"}]
        /\ scheduler \in {0} \cup Schedulers
    BY BoundsAssumption DEF TypeOK, Schedulers
  <1>2. CASE job' = job
    BY <1>2 DEF Joinable
  <1>3. CASE job' = Interrupt(job, scheduler)
    BY <1>1, <1>3 DEF Joinable, Interrupt, NoScheduler
  <1>4. ASSUME NEW s \in Schedulers, job' = [job EXCEPT ![s] = "ended"]
        PROVE  Joinable(scheduler)'
    BY <1>1, <1>4 DEF Joinable, NoScheduler
  <1> QED BY <1>2, <1>3, <1>4

\* A step that replaces no scheduler, resets no retry_wait and moves nobody into
\* a join keeps the waiters informed.
LEMMA JoinsStay ==
    ASSUME WInv, UNCHANGED <<retry_wait, scheduler, joining>>,
           Joinable(scheduler) => Joinable(scheduler)',
           \A v \in Users : \/ pc'[v] = pc[v]
                            \/ pc'[v] \in {"user", "restart"}
                            \/ pc'[v] = "wait" /\ v \in Waiters
                            \/ pc'[v] = "wait" /\ pc[v] = "asleep"
                            \/ pc'[v] = "asleep" /\ pc[v] = "joined"
    PROVE  JoinsFollow'
  BY DEF WInv, JoinsFollow

LEMMA StepJoinsFollow ==
    ASSUME OneClient, WInv, [Next]_vars
    PROVE  JoinsFollow'
  <1>0. /\ TypeOK
        /\ JoinsFollow
        /\ pc \in [Users -> {"user", "wait", "join", "joined", "asleep", "restart"}]
        /\ joining \in [Users -> 0 .. MaxSchedulers]
    BY DEF WInv, IInv, TypeOK
  <1>1. ASSUME NEW u \in Users, Start(u) PROVE JoinsFollow'
    <2>1. /\ u \in Starters /\ pc[u] = "user" /\ pc' = pc
          /\ UNCHANGED <<retry_wait, joining>>
      BY <1>1 DEF Start
    <2>2. ASSUME NEW v \in Users PROVE pc[v] \notin {"join", "joined"}
      BY <1>0, <2>1 DEF JoinsFollow, OneClient
    <2> QED BY <1>0, <2>1, <2>2 DEF JoinsFollow
  <1>2. ASSUME NEW u \in Users, Stop(u) \/ Lock(u) PROVE JoinsFollow'
    <2>1. /\ job' = Interrupt(job, scheduler)
          /\ UNCHANGED <<retry_wait, scheduler, pc, joining>>
      BY <1>2 DEF Stop, Lock
    <2> QED BY <1>0, <2>1, JoinableLasts, JoinsStay
  <1>3. ASSUME NEW u \in Users, Unlock(u) PROVE JoinsFollow'
    <2>1. /\ UNCHANGED <<retry_wait, scheduler, job, joining>>
          /\ \A v \in Users : pc'[v] = pc[v] \/ pc'[v] \in {"user", "restart"}
      BY <1>0, <1>3 DEF Unlock
    <2> QED BY <1>0, <2>1, JoinableLasts, JoinsStay
  <1>4. ASSUME NEW u \in Users, Restart(u) PROVE JoinsFollow'
    <2>1. /\ retry_wait'
          /\ \A v \in Users : \/ pc'[v] = "user"
                              \/ pc'[v] = "wait" /\ pc[v] = "asleep"
                              \/ pc'[v] = pc[v]
      BY <1>0, <1>4 DEF Restart
    <2> QED BY <1>0, <2>1 DEF JoinsFollow
  <1>5. ASSUME NEW u \in Users,
               RestartThrows(u) \/ Wait(u) \/ JoinFreed(u) \/ SpuriousWake(u)
        PROVE  JoinsFollow'
    <2>1. /\ UNCHANGED <<retry_wait, scheduler, job, joining>>
          /\ \A v \in Users : \/ pc'[v] = pc[v] \/ pc'[v] = "user"
                              \/ pc'[v] = "wait" /\ v \in Waiters
                              \/ pc'[v] = "wait" /\ pc[v] = "asleep"
      BY <1>0, <1>5 DEF RestartThrows, Wait, JoinFreed, SpuriousWake, top
    <2> QED BY <1>0, <2>1, JoinableLasts, JoinsStay
  <1>6. ASSUME NEW u \in Users, Join(u) PROVE JoinsFollow'
    <2>1. /\ UNCHANGED <<retry_wait, scheduler, job>>
          /\ pc[u] = "wait" /\ pc'[u] = "join" /\ joining'[u] = scheduler
          /\ \A v \in Users \ {u} : pc'[v] = pc[v] /\ joining'[v] = joining[v]
      BY <1>0, <1>6 DEF Join, top
    <2>2. Joinable(scheduler)' = Joinable(scheduler)
      BY <2>1 DEF Joinable
    <2> QED BY <1>0, <2>1, <2>2 DEF JoinsFollow
  <1>7. ASSUME NEW u \in Users, Joined(u) PROVE JoinsFollow'
    <2>1. /\ UNCHANGED <<retry_wait, scheduler, job>>
          /\ pc[u] = "join" /\ pc'[u] = "joined"
          /\ Joinable(joining[u]) \/ joining[u] # scheduler
          /\ \A v \in Users \ {u} : pc'[v] = pc[v] /\ joining'[v] = joining[v]
      BY <1>0, <1>7 DEF Joined, top
    <2>2. Joinable(scheduler)' = Joinable(scheduler)
      BY <2>1 DEF Joinable
    <2>3. ~Joinable(scheduler) => retry_wait
      BY <1>0, <2>1 DEF JoinsFollow
    <2> QED BY <1>0, <2>1, <2>2, <2>3 DEF JoinsFollow
  <1>8. ASSUME NEW u \in Users, Relock(u) PROVE JoinsFollow'
    <2>1. /\ UNCHANGED <<scheduler, job, joining>>
          /\ pc[u] = "joined"
          /\ u \in Waiters
          /\ pc'[u] \in {"asleep", "wait", "user"}
          /\ \A v \in Users \ {u} : pc'[v] = pc[v]
      BY <1>0, <1>8 DEF Relock, JoinsFollow
    <2>2. ASSUME NEW v \in Users \ {u} PROVE pc[v] \notin {"join", "joined"}
      BY <1>0, <2>1 DEF JoinsFollow, OneClient
    <2> QED BY <1>0, <2>1, <2>2 DEF JoinsFollow
  <1>9. ASSUME NEW s \in Schedulers, Exit(s) \/ Finish(s) PROVE JoinsFollow'
    <2>1. /\ job' = [job EXCEPT ![s] = "ended"]
          /\ UNCHANGED <<retry_wait, scheduler, pc, joining>>
      BY <1>9 DEF Exit, Finish, Ended
    <2> QED BY <1>0, <2>1, JoinableLasts, JoinsStay
  <1>10. CASE UNCHANGED vars
    BY <1>0, <1>10 DEF vars, top, JoinsFollow, Joinable
  <1> QED
    BY <1>1, <1>2, <1>3, <1>4, <1>5, <1>6, <1>7, <1>8, <1>9, <1>10 DEF Next, Inside

LEMMA InitWInv == Init => WInv
  <1>1. Init => JoinsFollow
    BY DEF Init, JoinsFollow
  <1> QED BY <1>1, InitIInv DEF WInv

LEMMA StepWInv == OneClient /\ WInv /\ [Next]_vars => WInv'
  BY StepIInv, StepJoinsFollow DEF WInv

\* However often the flowgraph is restarted while a thread waits for it, wait()
\* returns only when the run of that moment has ended, if one thread waits and
\* the same thread starts (the loop of top_block_impl::wait).
THEOREM WaitIsNeverEarly == ASSUME OneClient PROVE Spec => WaitNotEarly
  <1>1. WInv /\ [Next]_vars
            => [\A u \in Users : (pc[u] = "joined" /\ pc'[u] = "user")
                                     => Joinable(scheduler)]_vars
    <2> SUFFICES ASSUME WInv, Next, NEW u \in Users, pc[u] = "joined", pc'[u] = "user"
                 PROVE  Joinable(scheduler)
      OBVIOUS
    <2>1. pc \in [Users -> {"user", "wait", "join", "joined", "asleep", "restart"}]
      BY DEF WInv, IInv, TypeOK
    <2>2. Relock(u)
      BY <2>1 DEF Next, Inside, Start, Stop, Lock, Unlock, Wait, Restart, RestartThrows,
         Join, Joined, JoinFreed, Relock, SpuriousWake, Exit, Finish, Ended, top
    <2>3. ~retry_wait
      BY <2>1, <2>2 DEF Relock
    <2> QED BY <2>3 DEF WInv, JoinsFollow
  <1>2. OneClient /\ WInv /\ [Next]_vars => WInv'
    BY StepWInv
  <1> QED BY <1>1, <1>2, InitWInv, PTL DEF Spec, WaitNotEarly

\* make_scheduler() on a graph whose run has ended makes one generation of it.
LEMMA OneMoreGeneration ==
    ASSUME TypeOK, OneGeneration, Joinable(scheduler), MakeScheduler
    PROVE  OneGeneration'
  <1>1. /\ job \in [Schedulers -> {"none", "running", "stopping", "ended"}]
        /\ scheduler \in {0} \cup Schedulers
        /\ scheduler' = scheduler + 1 /\ scheduler < MaxSchedulers
        /\ job' = [Interrupt(job, scheduler) EXCEPT ![scheduler + 1] = "running"]
    BY BoundsAssumption DEF TypeOK, Schedulers, MakeScheduler
  <1>2. ASSUME NEW s \in Schedulers PROVE job[s] \notin {"running", "stopping"}
    <2>1. s # 0
      BY BoundsAssumption DEF Schedulers
    <2> QED BY <1>1, <2>1 DEF OneGeneration, Joinable, NoScheduler
  <1>3. ASSUME NEW s \in Schedulers, s # scheduler + 1 PROVE job'[s] = job[s]
    BY <1>1, <1>2, <1>3 DEF Interrupt
  <1> QED BY <1>1, <1>2, <1>3 DEF OneGeneration

\* No other step starts a thread.
LEMMA SameGeneration ==
    ASSUME TypeOK, OneGeneration, scheduler' = scheduler,
           \/ job' = job
           \/ job' = Interrupt(job, scheduler)
           \/ \E s \in Schedulers : job' = [job EXCEPT ![s] = "ended"]
    PROVE  OneGeneration'
  <1>1. job \in [Schedulers -> {"none", "running", "stopping", "ended"}]
    BY DEF TypeOK
  <1>2. \A t \in Schedulers : job'[t] \in {"running", "stopping"}
                                  => job[t] \in {"running", "stopping"}
    BY <1>1 DEF Interrupt
  <1> QED BY <1>2 DEF OneGeneration

LEMMA StepOneGeneration ==
    ASSUME WaitFirst, RInv, [Next]_vars
    PROVE  OneGeneration'
  <1>0. TypeOK /\ OneGeneration /\ (waited => Joinable(scheduler))
    BY DEF RInv, WInv, IInv, WaitedIsOver
  <1>1. ASSUME NEW u \in Users, Start(u) \/ Restart(u) PROVE OneGeneration'
    <2>1. Joinable(scheduler) /\ MakeScheduler
      BY <1>0, <1>1 DEF Start, Restart
    <2> QED BY <1>0, <2>1, OneMoreGeneration
  <1>2. ASSUME NEW u \in Users, Stop(u) \/ Lock(u) PROVE OneGeneration'
    <2>1. scheduler' = scheduler /\ job' = Interrupt(job, scheduler)
      BY <1>2 DEF Stop, Lock
    <2> QED BY <1>0, <2>1, SameGeneration
  <1>3. ASSUME NEW s \in Schedulers, Exit(s) \/ Finish(s) PROVE OneGeneration'
    <2>1. scheduler' = scheduler /\ job' = [job EXCEPT ![s] = "ended"]
      BY <1>3 DEF Exit, Finish, Ended
    <2> QED BY <1>0, <2>1, SameGeneration
  <1>4. CASE UNCHANGED <<scheduler, job>>
    BY <1>0, <1>4, SameGeneration
  <1> QED
    BY <1>1, <1>2, <1>3, <1>4 DEF Next, Inside, Unlock, RestartThrows, Wait, Join, Joined,
       JoinFreed, Relock, SpuriousWake, vars, top

LEMMA StepWaitedIsOver ==
    ASSUME WaitFirst, RInv, [Next]_vars
    PROVE  WaitedIsOver'
  <1>0. /\ TypeOK
        /\ JoinsFollow
        /\ pc \in [Users -> {"user", "wait", "join", "joined", "asleep", "restart"}]
        /\ waited => state = "IDLE" /\ Joinable(scheduler) /\ MutexFree
    BY DEF RInv, WInv, IInv, TypeOK, WaitedIsOver
  <1>1. ASSUME NEW u \in Users, Start(u) PROVE WaitedIsOver'
    BY <1>1 DEF Start, WaitedIsOver
  <1>2. ASSUME NEW u \in Users, Restart(u) PROVE WaitedIsOver'
    BY <1>0, <1>2 DEF Restart, WaitedIsOver, MutexFree
  <1>3. ASSUME NEW u \in Users, Relock(u) PROVE WaitedIsOver'
    <2>0. /\ UNCHANGED <<scheduler, job>>
          /\ MutexFree
          /\ \A v \in Users : pc'[v] # "restart"
      <3>1. /\ MutexFree /\ UNCHANGED <<scheduler, job>>
            /\ \E x \in {"asleep", "wait", "user"} : pc' = [pc EXCEPT ![u] = x]
        BY <1>3 DEF Relock
      <3> QED BY <1>0, <3>1 DEF MutexFree
    <2>1. CASE UNCHANGED <<state, waited>>
      BY <1>0, <2>0, <2>1 DEF WaitedIsOver, Joinable, MutexFree
    <2>2. CASE state' = "IDLE" /\ ~retry_wait
      <3>1. Joinable(scheduler)
        BY <1>0, <1>3, <2>2 DEF Relock, JoinsFollow
      <3> QED BY <2>0, <2>2, <3>1 DEF WaitedIsOver, Joinable, MutexFree
    <2> QED BY <1>3, <2>1, <2>2 DEF Relock
  <1>4. ASSUME UNCHANGED <<waited, scheduler>>,
               \/ job' = job
               \/ job' = Interrupt(job, scheduler)
               \/ \E s \in Schedulers : job' = [job EXCEPT ![s] = "ended"],
               state' \in {state, "IDLE"},
               \A v \in Users : pc'[v] = "restart" => pc[v] = "restart" \/ state = "RUNNING"
        PROVE  WaitedIsOver'
    <2> SUFFICES ASSUME waited
                 PROVE  state' = "IDLE" /\ Joinable(scheduler)' /\ MutexFree'
      BY <1>4 DEF WaitedIsOver
    <2>1. Joinable(scheduler)'
      BY <1>0, <1>4, JoinableLasts
    <2> QED BY <1>0, <1>4, <2>1 DEF MutexFree
  <1>5. ASSUME NEW u \in Users,
               \/ Stop(u) \/ Lock(u) \/ Unlock(u) \/ RestartThrows(u) \/ Wait(u) \/ Join(u)
               \/ Joined(u) \/ JoinFreed(u) \/ SpuriousWake(u)
        PROVE  WaitedIsOver'
    BY <1>0, <1>4, <1>5 DEF Stop, Lock, Unlock, RestartThrows, Wait, Join, Joined, JoinFreed,
       SpuriousWake, top
  <1>6. ASSUME NEW s \in Schedulers, Exit(s) \/ Finish(s) PROVE WaitedIsOver'
    BY <1>4, <1>6 DEF Exit, Finish, Ended
  <1>7. CASE UNCHANGED vars
    BY <1>4, <1>7 DEF vars, top
  <1> QED
    BY <1>1, <1>2, <1>3, <1>5, <1>6, <1>7 DEF Next, Inside

LEMMA InitRInv == Init => RInv
  <1>1. Init => WaitedIsOver /\ OneGeneration
    BY DEF Init, WaitedIsOver, OneGeneration, Joinable, MutexFree
  <1> QED BY <1>1, InitWInv DEF RInv

LEMMA StepRInv == OneClient /\ WaitFirst /\ RInv /\ [Next]_vars => RInv'
  BY StepWInv, StepOneGeneration, StepWaitedIsOver DEF RInv

\* For any number of threads that stop, lock and unlock as they please, and one
\* that waits before it starts again, no step starts a run beside another, and a
\* block is never run by two generations of threads.
THEOREM OneRunAlways == ASSUME OneClient, WaitFirst PROVE Spec => OneRunAtATime
  <1>1. OneClient /\ WaitFirst /\ RInv /\ [Next]_vars => RInv'
    BY StepRInv
  <1>2. RInv /\ RInv' /\ [Next]_vars
            => [/\ (state = "IDLE" /\ state' = "RUNNING")
                       => (scheduler = NoScheduler \/ job[scheduler] # "running")
                /\ OneGeneration']_vars
    <2> SUFFICES ASSUME RInv, RInv', Next, state = "IDLE", state' = "RUNNING"
                 PROVE  scheduler = NoScheduler \/ job[scheduler] # "running"
      BY DEF RInv
    <2>1. PICK u \in Users : Start(u)
      BY DEF Next, Inside, Start, Stop, Lock, Unlock, Wait, Restart, RestartThrows,
         Join, Joined, JoinFreed, Relock, SpuriousWake, Exit, Finish, Ended, top
    <2>2. Joinable(scheduler)
      BY <2>1 DEF Start, RInv, WaitedIsOver
    <2> QED BY <2>2 DEF Joinable
  <1> QED BY <1>1, <1>2, InitRInv, PTL DEF Spec, OneRunAtATime
=============================================================================
