----------------------------- MODULE ErrorHandle -----------------------------
(***************************************************************************)
(* A work function that faults (recvSignal, threadExceptionHandle, _TRY and  *)
(* _CATCH of block_executor): before each call a thread saves where to jump  *)
(* to under its id; the handler of SIGSEGV, which runs on the thread that    *)
(* faulted, looks that up and jumps, and error_handle takes the place of the *)
(* call.  A place is the thread and the iteration whose frame it is in.      *)
(***************************************************************************)
EXTENDS Naturals

CONSTANTS
    Workers,       \* threads of blocks, those of later starts included
    IdOf,          \* the low 32 bits of pthread_self, used again once a thread has ended
    ThreadName,    \* the names the system keeps of them, cut to 15 characters
    MaxIterations  \* bound: iterations of a thread

VARIABLES
    where,      \* what each thread is doing
    iteration,  \* the iteration it is in, 0 before the first
    frame,      \* the iteration whose frame is on its stack, 0 between two
    jmpMap,     \* by thread id
    map_owner,  \* who holds the mutex of the map
    faultedin   \* history: what the thread was doing when it last faulted

xvars == <<where, iteration, frame, jmpMap, map_owner, faultedin>>

NoThread == "nobody"

XInit ==
    /\ where = [t \in Workers |-> "none"] /\ iteration = [t \in Workers |-> 0]
    /\ frame = [t \in Workers |-> 0]
    /\ jmpMap = [i \in {} |-> 0] /\ map_owner = NoThread
    /\ faultedin = [t \in Workers |-> "nothing"]

GoesTo(t, w) == where' = [where EXCEPT ![t] = w]
Running(t) == where[t] \notin {"none", "ended", "lost"}

StartThread(t) ==
    /\ where[t] = "none" /\ \A u \in Workers : Running(u) => IdOf[u] # IdOf[t]
    /\ GoesTo(t, "messages")
    /\ UNCHANGED <<iteration, frame, jmpMap, map_owner, faultedin>>

EndThread(t) ==
    /\ where[t] = "messages" /\ GoesTo(t, "ended")
    /\ UNCHANGED <<iteration, frame, jmpMap, map_owner, faultedin>>

\* run_one_iteration, up to sigsetjmp; the block's forecast() is called on the way.
BeginIteration(t) ==
    /\ where[t] = "messages" /\ iteration[t] < MaxIterations /\ GoesTo(t, "forecast")
    /\ iteration' = [iteration EXCEPT ![t] = @ + 1] /\ frame' = [frame EXCEPT ![t] = iteration[t] + 1]
    /\ UNCHANGED <<jmpMap, map_owner, faultedin>>

LockMap(t) ==
    /\ where[t] \in {"forecast", "signal"} /\ map_owner = NoThread /\ map_owner' = t
    /\ GoesTo(t, IF where[t] = "forecast" THEN "pushing" ELSE "looking")
    /\ UNCHANGED <<iteration, frame, jmpMap, faultedin>>

\* Mutant: by the name of the thread, like the flags.
Key_name(t) == ThreadName[t]
Key(t) == IdOf[t]

pushOne(t) ==
    /\ where[t] = "pushing" /\ map_owner' = NoThread
    /\ jmpMap' = [k \in DOMAIN jmpMap \cup {Key(t)} |->
                     IF k = Key(t) THEN <<t, iteration[t]>> ELSE jmpMap[k]]
    /\ GoesTo(t, "work")
    /\ UNCHANGED <<iteration, frame, faultedin>>

Returns(t) ==
    /\ where[t] \in {"work", "error_handle"} /\ GoesTo(t, "messages")
    /\ frame' = [frame EXCEPT ![t] = 0]
    /\ UNCHANGED <<iteration, jmpMap, map_owner, faultedin>>

\* In forecast, in general_work, in error_handle itself, or in a handler of messages.
Fault(t) ==
    /\ where[t] \in {"forecast", "work", "error_handle", "messages"} /\ GoesTo(t, "signal")
    /\ faultedin' = [faultedin EXCEPT ![t] = where[t]]
    /\ UNCHANGED <<iteration, frame, jmpMap, map_owner>>

\* getJmpbuf and siglongjmp: into the frame it finds, if it is one of this
\* thread that has not returned; into memory that means something else if not.
\* An id nobody has saved leads nowhere.
Jump(t) ==
    /\ where[t] = "looking" /\ map_owner' = NoThread
    /\ GoesTo(t, IF Key(t) \in DOMAIN jmpMap /\ jmpMap[Key(t)] = <<t, frame[t]>>
                 THEN "error_handle" ELSE "lost")
    /\ UNCHANGED <<iteration, frame, jmpMap, faultedin>>

XNext == \E t \in Workers :
    \/ StartThread(t) \/ EndThread(t) \/ BeginIteration(t) \/ LockMap(t)
    \/ pushOne(t) \/ Returns(t) \/ Fault(t) \/ Jump(t)

-----------------------------------------------------------------------------
(* A fault in general_work or error_handle brings the thread back into the   *)
(* call it was in, however the other threads' calls and faults fall and      *)
(* whatever earlier threads with its id have left in the map: a thread is    *)
(* lost only by a fault in a handler of messages or in forecast(), which     *)
(* come before it has saved where to jump to.                                *)
FaultsCaught == \A t \in Workers : where[t] = "lost" => faultedin[t] \in {"messages", "forecast"}
=============================================================================
