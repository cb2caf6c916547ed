------------------------------ MODULE MsgPassing ------------------------------
(***************************************************************************)
(* Asynchronous messages between blocks: publishing, the queues of the     *)
(* message ports, the wake-up of the receiver and the message half of the  *)
(* scheduler loop, with the "done" message by which a block that ends      *)
(* tells its subscribers (gnuradio-runtime/lib/basic_block.cc, block.cc,   *)
(* block_registry.cc, tpb_thread_body.cc).                                 *)
(*                                                                         *)
(* The streams of a block are TpbScheduler's: here an iteration of a       *)
(* stream block returns any state, and its neighbours may wake it.         *)
(***************************************************************************)
EXTENDS Integers, Sequences, FiniteSets, SequencesExt

CONSTANTS
    Blocks,
    Streaming,   \* blocks connected to streams; the others only pass messages
    Sources,     \* streaming blocks without stream inputs
    Ports,       \* input message ports other than "system"
    Handled,     \* <<block, port>> with a message handler
    Subscribers, \* Subscribers[b]: the <<block, port>> its output port feeds
    Forwarding,  \* blocks whose handler publishes each message it is given
    Aliased,     \* blocks given an alias by set_block_alias
    Quota,       \* Quota[b]: messages its work publishes before it is done
    MaxMsgs,     \* preference max_messages
    MaxStalls,   \* bound: how many iterations of each streaming block are blocked
    MaxRuns      \* bound: how often the flowgraph is started

ASSUME BlocksAssumption == Sources \subseteq Streaming /\ Streaming \subseteq Blocks
ASSUME PortsAssumption ==
    /\ IsFiniteSet(Ports) /\ "system" \notin Ports
    /\ Handled \subseteq Blocks \X Ports
    /\ Subscribers \in [Blocks -> Seq(Blocks \X Ports)]
    \* message_port_sub ignores re-adds of the same target.
    /\ \A b \in Blocks : \A k, l \in 1 .. Len(Subscribers[b]) :
           Subscribers[b][k] = Subscribers[b][l] => k = l

System  == "system"
Done    == <<"done">>
Nobody  == "nobody"
ASSUME NobodyAssumption == Nobody \notin Blocks
ASSUME MaxMsgsAssumption == MaxMsgs \in Nat

PortNames == Ports \cup {System}

VARIABLES
    port_order,     \* the order of the map msg_queue: that of the ports' addresses
    queue,          \* msg_queue
    mutex,          \* who holds each block's mutex, or Nobody
    outbox,         \* what a thread has yet to post: <<block, port, message>>
    published,      \* how many messages each block has published
    handled,        \* history: the messages each handler was given
    finished,       \* d_finished
    left,           \* messages work will still publish
    stalls,         \* bound: blocked iterations left
    pc,             \* where each thread is
    at,             \* the port it looks at in the message loop
    input_changed, output_changed,  \* d_tpb
    interrupted,    \* stop() has interrupted the threads of this run
    runs            \* bound: how often the flowgraph was started

threads  == <<pc, at, outbox, left, stalls, finished>>
flags    == <<input_changed, output_changed>>
control  == <<interrupted, runs>>
vars     == <<port_order, queue, mutex, published, handled, threads, flags, control>>

HasHandler(b, p) == p = System \/ <<b, p>> \in Handled

\* A message stands for the n-th publication of a block: <<block, n>>.
Published == Blocks \X (Nat \ {0})
Publication(b) == [k \in 1 .. Len(Subscribers[b]) |->
                      <<Subscribers[b][k][1], Subscribers[b][k][2], <<b, published[b] + 1>>>>]
\* Mutant: the notice goes to the subscribed port.
DoneNotices_port(b) == [k \in 1 .. Len(Subscribers[b]) |->
                           <<Subscribers[b][k][1], Subscribers[b][k][2], Done>>]
\* notify_msg_neighbors.
DoneNotices(b) == [k \in 1 .. Len(Subscribers[b]) |-> <<Subscribers[b][k][1], System, Done>>]

Init ==
    /\ port_order \in SetToSeqs(PortNames)
    /\ queue = [b \in Blocks |-> [p \in PortNames |-> <<>>]]
    /\ mutex = [b \in Blocks |-> Nobody]
    /\ outbox = [b \in Blocks |-> <<>>]
    /\ published = [b \in Blocks |-> 0]
    /\ handled = [b \in Blocks |-> [p \in Ports |-> <<>>]]
    /\ finished = [b \in Blocks |-> FALSE]
    /\ left = Quota
    /\ stalls = [b \in Blocks |-> IF b \in Streaming THEN MaxStalls[b] ELSE 0]
    /\ pc = [b \in Blocks |-> "top"]
    /\ at = [b \in Blocks |-> 1]
    /\ input_changed = [b \in Blocks |-> FALSE]
    /\ output_changed = [b \in Blocks |-> FALSE]
    /\ interrupted = FALSE
    /\ runs = 1

Goto(b, l) == pc' = [pc EXCEPT ![b] = l]

-----------------------------------------------------------------------------
(* message_port_pub and notify_msg_neighbors: one subscriber after another. *)

\* Mutant: the message is put in front of the others.
Post_front(b) ==
    /\ outbox[b] # <<>>
    /\ LET to == Head(outbox[b])
       IN  /\ mutex[to[1]] = Nobody
           /\ mutex' = [mutex EXCEPT ![to[1]] = b]
           /\ queue' = [queue EXCEPT ![to[1]][to[2]] = <<to[3]>> \o @]
    /\ UNCHANGED <<port_order, published, handled, threads, flags, control>>

\* insert_tail, under the receiver's mutex ...
Post(b) ==
    /\ outbox[b] # <<>>
    /\ LET to == Head(outbox[b])
       IN  /\ mutex[to[1]] = Nobody
           /\ mutex' = [mutex EXCEPT ![to[1]] = b]
           /\ queue' = [queue EXCEPT ![to[1]][to[2]] = Append(@, to[3])]
    /\ UNCHANGED <<port_order, published, handled, threads, flags, control>>

\* Mutant: only a thread that waits for input is woken.
Notify_input(b) == /\ input_changed' = [input_changed EXCEPT ![b] = TRUE]
                   /\ UNCHANGED output_changed
\* notify_blk(alias()): the registry knows a block by the name it had when it
\* was constructed, and finds nothing under an alias.
Notify(b) ==
    IF b \in Aliased THEN UNCHANGED flags
    ELSE /\ input_changed' = [input_changed EXCEPT ![b] = TRUE]
         /\ output_changed' = [output_changed EXCEPT ![b] = TRUE]

\* ... which is still held while notify_blk wakes the receiver.
Wake(b) ==
    /\ outbox[b] # <<>>
    /\ mutex[Head(outbox[b])[1]] = b
    /\ mutex' = [mutex EXCEPT ![Head(outbox[b])[1]] = Nobody]
    /\ Notify(Head(outbox[b])[1])
    /\ outbox' = [outbox EXCEPT ![b] = Tail(@)]
    /\ UNCHANGED <<port_order, queue, published, handled, pc, at, left, stalls, finished, control>>

-----------------------------------------------------------------------------
(* The scheduler loop.  A thread that is posting does nothing else.         *)
At(b, l) == pc[b] = l /\ outbox[b] = <<>>

\* An interruption point, then clear_changed().
Top(b) ==
    /\ At(b, "top")
    /\ ~interrupted
    /\ input_changed' = [input_changed EXCEPT ![b] = FALSE]
    /\ output_changed' = [output_changed EXCEPT ![b] = FALSE]
    /\ at' = [at EXCEPT ![b] = 1]
    /\ Goto(b, "messages")
    /\ UNCHANGED <<port_order, queue, mutex, outbox, published, handled, left, stalls,
                   finished, control>>

\* The handler runs in the block's own thread; the one for "system" notes that
\* the sender is done and wakes its own block.
Dispatch(b, p, m) ==
    IF p = System
    THEN /\ finished' = [finished EXCEPT ![b] = TRUE]
         /\ Notify(b)
         /\ UNCHANGED <<handled, outbox, published>>
    ELSE /\ handled' = [handled EXCEPT ![b][p] = Append(@, m)]
         /\ IF b \in Forwarding
            THEN /\ outbox' = [outbox EXCEPT ![b] = Publication(b)]
                 /\ published' = [published EXCEPT ![b] = @ + 1]
            ELSE UNCHANGED <<outbox, published>>
         /\ UNCHANGED <<finished, flags>>

\* Mutant: one message of each port in each pass.
AfterMessage_next(i) == i + 1
\* `while`: the loop stays at a port as long as it has messages.
AfterMessage(i) == i

\* The loop over msg_queue: all messages of a port with a handler, at most one
\* dropped from a port without.
Messages(b) ==
    LET p == port_order[at[b]]
    IN  /\ At(b, "messages")
        /\ mutex[b] = Nobody
        /\ at[b] <= Len(port_order)
        /\ IF HasHandler(b, p) /\ queue[b][p] # <<>>
           THEN /\ Dispatch(b, p, Head(queue[b][p]))
                /\ queue' = [queue EXCEPT ![b][p] = Tail(@)]
                /\ at' = [at EXCEPT ![b] = AfterMessage(@)]
           ELSE /\ queue' = [queue EXCEPT ![b][p] =
                                IF Len(@) > MaxMsgs /\ ~HasHandler(b, p) THEN Tail(@) ELSE @]
                /\ at' = [at EXCEPT ![b] = @ + 1]
                /\ UNCHANGED <<handled, outbox, published, finished, flags>>
        /\ UNCHANGED <<port_order, mutex, pc, left, stalls, control>>

\* What run_one_iteration may return; a work that publishes returns READY.
Results(b) ==
    (IF left[b] > 0 THEN {"READY"} ELSE {"DONE"})
        \cup (IF stalls[b] > 0 THEN {"READY_NO_OUTPUT", "BLKD_IN", "BLKD_OUT"} ELSE {})

\* finished() of a block with stream inputs is always FALSE.
IsFinished(b) == b \notin Streaming \ Sources /\ finished[b]

\* From the state of the iteration to the one acted upon.
Adjusted(b, s) ==
    IF s # "READY_NO_OUTPUT" THEN s
    ELSE IF IsFinished(b) THEN "DONE"
    ELSE IF b \in Sources THEN "BLKD_IN" ELSE s

Follow(b, s) ==
    /\ Goto(b, CASE s = "DONE" -> "exit" [] s = "BLKD_IN" -> "wait_in"
                 [] s = "BLKD_OUT" -> "wait_out" [] OTHER -> "top")
    /\ at' = [at EXCEPT ![b] = 1]

\* A stream block: run_one_iteration.
Iterate(b) ==
    /\ At(b, "messages") /\ at[b] > Len(port_order)
    /\ b \in Streaming
    /\ \E s \in Results(b) :
          /\ Follow(b, Adjusted(b, s))
          /\ stalls' = [stalls EXCEPT ![b] = IF s \in {"READY", "DONE"} THEN @ ELSE @ - 1]
          /\ left' = [left EXCEPT ![b] = IF s = "READY" THEN @ - 1 ELSE @]
          /\ published' = [published EXCEPT ![b] = IF s = "READY" THEN @ + 1 ELSE @]
          /\ outbox' = [outbox EXCEPT ![b] = CASE s = "READY" -> Publication(b)
                                               [] Adjusted(b, s) = "DONE" -> DoneNotices(b)
                                               [] OTHER -> <<>>]
    /\ UNCHANGED <<port_order, queue, mutex, handled, finished, flags, control>>

\* A block without streams waits for messages until it is told to finish.
Idle(b) ==
    /\ At(b, "messages") /\ at[b] > Len(port_order)
    /\ b \notin Streaming
    /\ Follow(b, IF finished[b] THEN "DONE" ELSE "BLKD_IN")
    /\ outbox' = [outbox EXCEPT ![b] = IF finished[b] THEN DoneNotices(b) ELSE <<>>]
    /\ UNCHANGED <<port_order, queue, mutex, published, handled, finished, left, stalls,
                   flags, control>>

Waking(b) == Goto(b, "top") /\ UNCHANGED <<port_order, queue, mutex, outbox, published,
                                handled, at, left, stalls, finished, flags, control>>
WakeIn(b)  == pc[b] = "wait_in" /\ input_changed[b] /\ Waking(b)
WakeOut(b) == pc[b] = "wait_out" /\ output_changed[b] /\ Waking(b)
\* The wait for input lasts at most 250 ms.
Timeout(b) == pc[b] = "wait_in" /\ ~input_changed[b] /\ Waking(b)

-----------------------------------------------------------------------------
\* The stream neighbours of a block notify it.
StreamWake(b) ==
    /\ b \in Streaming /\ pc[b] \in {"wait_in", "wait_out"}
    /\ input_changed' = [input_changed EXCEPT ![b] = TRUE]
    /\ output_changed' = [output_changed EXCEPT ![b] = TRUE]
    /\ UNCHANGED <<port_order, queue, mutex, published, handled, threads, control>>

Asleep(b) == \/ pc[b] = "wait_in" /\ ~input_changed[b]
             \/ pc[b] = "wait_out" /\ ~output_changed[b]

\* stop() interrupts every thread ...
Stop ==
    /\ runs < MaxRuns
    /\ ~interrupted
    /\ interrupted' = TRUE
    /\ UNCHANGED <<port_order, queue, mutex, published, handled, threads, flags, runs>>

\* ... which ends at its next interruption point.
Interrupted(b) ==
    /\ interrupted
    /\ At(b, "top") \/ Asleep(b)
    /\ Goto(b, "stopped")
    /\ UNCHANGED <<port_order, queue, mutex, outbox, published, handled, at, left, stalls,
                   finished, flags, control>>

Ended(b) == At(b, "exit") \/ pc[b] = "stopped"

\* start() again: new details and threads, the queues as they were.
Restart ==
    /\ runs < MaxRuns
    /\ \A b \in Blocks : Ended(b)
    /\ runs' = runs + 1
    /\ interrupted' = FALSE
    /\ pc' = [b \in Blocks |-> "top"]
    /\ at' = [b \in Blocks |-> 1]
    /\ finished' = [b \in Blocks |-> FALSE]
    /\ input_changed' = [b \in Blocks |-> FALSE]
    /\ output_changed' = [b \in Blocks |-> FALSE]
    /\ UNCHANGED <<port_order, queue, mutex, outbox, published, handled, left, stalls>>

Step(b) ==
    \/ Post(b) \/ Wake(b)
    \/ Top(b) \/ Messages(b) \/ Iterate(b) \/ Idle(b)
    \/ WakeIn(b) \/ WakeOut(b) \/ Interrupted(b)

Next ==
    \/ \E b \in Blocks : Step(b) \/ Timeout(b) \/ StreamWake(b)
    \/ Stop
    \/ Restart

Spec == Init /\ [][Next]_vars

\* Every thread keeps running; nothing is assumed of the timeout, of stop() or of
\* the streams.
FairSpec == Spec /\ \A b \in Blocks : WF_vars(Step(b))

-----------------------------------------------------------------------------
TypeOK ==
    /\ port_order \in Seq(PortNames) /\ \A p \in PortNames : \E k \in 1 .. Len(port_order) : port_order[k] = p
    /\ \A b \in Blocks : \A p \in Ports :
          queue[b][p] \in Seq(Published) /\ handled[b][p] \in Seq(Published)
    /\ \A b \in Blocks : queue[b][System] \in Seq({Done})
    /\ mutex \in [Blocks -> Blocks \cup {Nobody}]
    /\ published \in [Blocks -> Nat]
    /\ \A b \in Blocks : at[b] \in 1 .. Len(port_order) + 1
    /\ pc \in [Blocks -> {"top", "messages", "wait_in", "wait_out", "exit", "stopped"}]
    /\ finished \in [Blocks -> BOOLEAN]
    /\ input_changed \in [Blocks -> BOOLEAN]
    /\ output_changed \in [Blocks -> BOOLEAN]
    /\ interrupted \in BOOLEAN

\* What block b has got on port p: handled, then queued.
Received(b, p) == handled[b][p] \o queue[b][p]

(* Each subscriber is given each message of a publisher once and in the     *)
(* order of publication, across stops and restarts: what it has handled and *)
(* what is queued are the first messages published.                         *)
InOrder ==
    \A c \in Blocks : \A k \in 1 .. Len(Subscribers[c]) :
        LET b == Subscribers[c][k][1]
            p == Subscribers[c][k][2]
            r == Received(b, p)
        IN  HasHandler(b, p) =>
                /\ \A x \in 1 .. Len(r) : r[x][1] = c => r[x][2] \in 1 .. published[c]
                /\ \A x \in 1 .. Len(r) : \A y \in 1 .. x - 1 :
                       r[x][1] = c /\ r[y][1] = c => r[y][2] < r[x][2]
                /\ \A n \in 1 .. published[c] :
                       (\E x \in 1 .. Len(r) : r[x] = <<c, n>>) \/ (n = published[c] /\ outbox[c] # <<>>)

(* basic_block.h on _post: "Accept msg, place in queue, arrange for thread  *)
(* to be awakened if it's not already": no thread sleeps on a message,      *)
(* unless the poster, which still holds its mutex, is about to wake it.     *)
Awakened ==
    \A b \in Blocks : Asleep(b) =>
        \/ mutex[b] # Nobody
        \/ \A p \in PortNames : HasHandler(b, p) => queue[b][p] = <<>>

Publishers(b) == {c \in Blocks : \E k \in 1 .. Len(Subscribers[c]) : Subscribers[c][k][1] = b}

(* A message-only block with one publisher, told that it is done, ends with *)
(* its messages handled, if "system" comes first in its port map.           *)
DoneComesLast ==
    \A b \in Blocks \ Streaming :
        (At(b, "exit") /\ runs = 1 /\ port_order[1] = System /\ \E c \in Blocks : Publishers(b) = {c})
            => \A p \in Ports : HasHandler(b, p) => queue[b][p] = <<>>

(* A message that is queued is handled, or the thread it is queued for ends *)
(* or waits for its streams no more; with no help from the timeout.         *)
EventuallyHandled ==
    \A b \in Blocks : \A p \in Ports :
        HasHandler(b, p) => (queue[b][p] # <<>> ~> queue[b][p] = <<>> \/ Ended(b))

(* tpb_thread_body.cc, before the threads start: "make sure our block isnt  *)
(* finished".  A message-only block does not end while all its publishers   *)
(* are still running.                                                       *)
NotFinishedEarly ==
    \A b \in Blocks \ Streaming :
        At(b, "exit") => \E c \in Publishers(b) : pc[c] = "exit"

(* message_port_pub and insert_tail: a message published is queued once and  *)
(* in its place at each subscriber, and a subscriber is awake for it.        *)
Delivered == TypeOK /\ InOrder /\ Awakened
=============================================================================
