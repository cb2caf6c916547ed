------------------------------ MODULE MsgQueue ------------------------------
(***************************************************************************)
(* gr::msg_queue (gnuradio-runtime/lib/msg_queue.cc): a linked list of      *)
(* messages under one mutex, with a condition for its producers and one for *)
(* its consumers.  A critical section is one step; a thread that waits      *)
(* leaves the mutex, and looks again from the start once it is woken.       *)
(***************************************************************************)
EXTENDS Integers, Sequences, FiniteSets

CONSTANTS
    Producers,   \* threads that call insert_tail
    Consumers,   \* threads that call delete_head, delete_head_nowait and flush
    Messages,    \* the messages; one that was deleted may be inserted again
    d_limit,     \* most messages in the queue, 0 for no limit
    Reinsert,    \* whether a message may be inserted that is still in the queue
    MaxInserted, \* bound: messages inserted in a behaviour
    Null

ASSUME LimitAssumption == d_limit \in Nat
ASSUME NullAssumption == Null \notin Messages
ASSUME ThreadsAssumption ==
    Producers \cap Consumers = {} /\ IsFiniteSet(Producers) /\ IsFiniteSet(Consumers)
ASSUME MessagesAssumption == IsFiniteSet(Messages)

Threads == Producers \cup Consumers

VARIABLES
    d_head, d_tail, d_next, d_count,   \* the list, and its length as counted
    holding,                           \* the message each producer is inserting, or Null
    thread,    \* "out", or in a call: "ready" to take the mutex, "waiting", "flushing"
    inserted,  \* history: messages inserted
    stamp      \* history: which insertion each message comes from

list == <<d_head, d_tail, d_next, d_count>>
qvars == <<list, holding, thread, inserted, stamp>>

\* The messages from head on, each followed by what next says of it.
ListFrom(head, next) ==
    LET chain[n \in 0 .. Cardinality(Messages)] ==
            [m \in Messages \cup {Null} |->
                IF m = Null \/ n = 0 THEN <<>> ELSE <<m>> \o chain[n - 1][next[m]]]
    IN  chain[Cardinality(Messages)][head]

Queued == ListFrom(d_head, d_next)

QueuedSet == {Queued[k] : k \in DOMAIN Queued}

\* Mutant: a full queue is noticed one message too late.
full_p_late == d_limit # 0 /\ d_count > d_limit
full_p == d_limit # 0 /\ d_count >= d_limit

Waiting(kind) == {t \in kind : thread[t] = "waiting"}
Awake(kind)   == {t \in kind : thread[t] = "ready"}

\* notify_one: some waiting thread looks again, if there is one.
NotifyOne(kind, after) ==
    IF Waiting(kind) = {} THEN thread' = after
    ELSE \E t \in Waiting(kind) : thread' = [after EXCEPT ![t] = "ready"]

QInit ==
    /\ d_head = Null /\ d_tail = Null /\ d_count = 0
    /\ d_next = [m \in Messages |-> Null]
    /\ holding = [p \in Producers |-> Null]
    /\ thread = [t \in Threads |-> "out"]
    /\ inserted = 0
    /\ stamp = [m \in Messages |-> -1]

-----------------------------------------------------------------------------
\* insert_tail is called with a message; it throws on one that has a successor.
CallInsert(p, m) ==
    /\ thread[p] = "out"
    /\ \A q \in Producers : holding[q] # m
    /\ Reinsert \/ m \notin QueuedSet
    /\ d_next[m] = Null
    /\ inserted + Cardinality({q \in Producers : holding[q] # Null}) < MaxInserted
    /\ holding' = [holding EXCEPT ![p] = m]
    /\ thread' = [thread EXCEPT ![p] = "ready"]
    /\ UNCHANGED <<list, inserted, stamp>>

\* while (full_p()) d_not_full.wait(guard)
InsertWait(p) ==
    /\ thread[p] = "ready"
    /\ full_p
    /\ thread' = [thread EXCEPT ![p] = "waiting"]
    /\ UNCHANGED <<list, holding, inserted, stamp>>

\* d_not_empty.notify_one, at the end of p's call.
NotEmpty(p) == NotifyOne(Consumers, [thread EXCEPT ![p] = "out"])

\* The message is linked behind the tail, and its own link is cleared last.
Link(p) ==
    LET m == holding[p]
    IN  /\ d_tail' = m
        /\ d_head' = IF d_tail = Null THEN m ELSE d_head
        /\ d_next' = [k \in Messages |-> IF k = m THEN Null
                                         ELSE IF k = d_tail THEN m ELSE d_next[k]]
        /\ d_count' = d_count + 1
        /\ holding' = [holding EXCEPT ![p] = Null]
        /\ inserted' = inserted + 1
        /\ stamp' = [stamp EXCEPT ![m] = inserted]
        /\ NotEmpty(p)

InsertTail(p) ==
    /\ thread[p] = "ready"
    /\ ~full_p
    /\ Link(p)

-----------------------------------------------------------------------------
CallDelete(c) ==
    /\ thread[c] = "out"
    /\ thread' = [thread EXCEPT ![c] = "ready"]
    /\ UNCHANGED <<list, holding, inserted, stamp>>

DeleteWait(c) ==
    /\ thread[c] = "ready"
    /\ d_head = Null
    /\ thread' = [thread EXCEPT ![c] = "waiting"]
    /\ UNCHANGED <<list, holding, inserted, stamp>>

\* Mutant: the tail stays at the last message deleted.
TailLeft_kept == d_tail
TailLeft == IF d_next[d_head] = Null THEN Null ELSE d_tail

\* Mutant: producers are told only when the list becomes empty.
NotFull_last(c, after) ==
    IF d_next[d_head] = Null THEN NotifyOne(Producers, [thread EXCEPT ![c] = after])
    ELSE thread' = [thread EXCEPT ![c] = after]

\* Mutant: the wrong condition is notified.
NotFull_swapped(c, after) == NotifyOne(Consumers, [thread EXCEPT ![c] = after])

\* d_not_full.notify_one; c then is as `after` says.
NotFull(c, after) == NotifyOne(Producers, [thread EXCEPT ![c] = after])

\* The head is unlinked, and a producer told.
Unlink(c, after) ==
    /\ d_head # Null
    /\ d_head' = d_next[d_head]
    /\ d_tail' = TailLeft
    /\ d_next' = [d_next EXCEPT ![d_head] = Null]
    /\ d_count' = d_count - 1
    /\ NotFull(c, after)
    /\ UNCHANGED <<holding, inserted, stamp>>

DeleteHead(c) == thread[c] = "ready" /\ Unlink(c, "out")

\* One that finds nothing returns a null message: no step.
DeleteHeadNowait(c) == thread[c] = "out" /\ Unlink(c, "out")

\* flush: delete_head_nowait until it returns null, the mutex free in between.
FlushFirst(c) == thread[c] = "out" /\ Unlink(c, "flushing")
FlushMore(c)  == thread[c] = "flushing" /\ Unlink(c, "flushing")

FlushEnd(c) ==
    /\ thread[c] = "flushing"
    /\ d_head = Null
    /\ thread' = [thread EXCEPT ![c] = "out"]
    /\ UNCHANGED <<list, holding, inserted, stamp>>

\* A wait may return without a notification.
Spurious(t) ==
    /\ thread[t] = "waiting"
    /\ thread' = [thread EXCEPT ![t] = "ready"]
    /\ UNCHANGED <<list, holding, inserted, stamp>>

-----------------------------------------------------------------------------
InCall(p)  == InsertWait(p) \/ InsertTail(p)
Taking(c)  == DeleteWait(c) \/ DeleteHead(c)
Flushing(c) == FlushMore(c) \/ FlushEnd(c)

QNext ==
    \/ \E p \in Producers : InCall(p) \/ \E m \in Messages : CallInsert(p, m)
    \/ \E c \in Consumers :
          \/ Taking(c) \/ Flushing(c)
          \/ CallDelete(c) \/ DeleteHeadNowait(c) \/ FlushFirst(c)
    \/ \E t \in Threads : Spurious(t)

\* A thread in a call gets the mutex again and again; consumers keep calling
\* delete_head.
QFairness ==
    /\ \A p \in Producers : WF_qvars(InsertTail(p)) /\ WF_qvars(InsertWait(p))
    /\ \A c \in Consumers :
          WF_qvars(Taking(c)) /\ WF_qvars(Flushing(c)) /\ WF_qvars(CallDelete(c))

QSpec == QInit /\ [][QNext]_qvars /\ QFairness

-----------------------------------------------------------------------------
(* The count by which full_p and empty_p answer is the length of the list,   *)
(* and the tail is its last message, whoever inserted and deleted last.      *)
CountIsLength ==
    /\ d_count = Len(Queued)
    /\ d_tail = IF Queued = <<>> THEN Null ELSE Queued[Len(Queued)]

(* Nobody sleeps over work: while a consumer waits, at least as many others  *)
(* were woken as there are messages; while a producer waits, at least as     *)
(* many as there are free places.                                            *)
NoSleeper ==
    /\ Waiting(Consumers) # {} => Cardinality(Awake(Consumers)) >= Len(Queued)
    /\ Waiting(Producers) # {} => Cardinality(Awake(Producers)) >= d_limit - Len(Queued)

QFifo == INSTANCE BoundedFifo WITH
            Capacity <- IF d_limit = 0 THEN Cardinality(Messages) ELSE d_limit,
            queue <- [k \in DOMAIN Queued |-> stamp[Queued[k]]],
            next <- inserted

(* The queue is a bounded queue: messages come out once, in the order they   *)
(* were inserted, and never more than the limit are in it.                   *)
QFifoSpec == QFifo!Spec

(* A full queue holds its producers up only for a while: as long as the      *)
(* consumers keep deleting, it does not come to that a producer waits for    *)
(* ever and nothing is inserted any more.                                    *)
InsertProgress ==
    []<>(Waiting(Producers) = {}) \/ []<><<inserted' > inserted>>_qvars

(* msg_queue as a whole: a bounded queue whose count and tail are those of   *)
(* its list, and on which nobody sleeps while there is work for him.         *)
QueueKept == QFifoSpec /\ []CountIsLength /\ []NoSleeper
=============================================================================
