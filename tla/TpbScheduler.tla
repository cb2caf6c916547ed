----------------------------- MODULE TpbScheduler -----------------------------
(***************************************************************************)
(* The thread-per-block scheduler: one thread for each block of a flat     *)
(* flowgraph, looping in tpb_thread_body over block_executor::             *)
(* run_one_iteration, waiting on and signalling its neighbours through     *)
(* their tpb_detail (gnuradio-runtime/lib/tpb_thread_body.cc,              *)
(* block_executor.cc, tpb_detail.cc, scheduler_tpb.cc, block_detail.cc).   *)
(*                                                                         *)
(* Each critical section of the code is one step; between two of them any  *)
(* other thread may run.  The buffers are the counters that Buffer shows   *)
(* the ring to implement; tags are Buffer's, message ports MsgPassing's.   *)
(***************************************************************************)
EXTENDS BlockExecutor, Sequences

CONSTANTS
    Blocks,    \* the blocks of the flat flowgraph
    Bufs,      \* their output buffers
    Ins,       \* Ins[b]: the buffers block b reads, by input port
    Outs,      \* Outs[b]: the buffers block b writes, by output port
    Size,      \* Size[buf]: d_bufsize
    Cfg,       \* Cfg[b]: the executor's view of block b
    Quota,     \* Quota[b]: items after which work returns WORK_DONE, or -1
    Partial,   \* the blocks whose work may produce less than it was asked for
    Idle,      \* the blocks whose work may return 0
    MaxEmpty,  \* bound: how often each of them does
    Throwing,  \* the blocks whose work may throw an exception
    MayStop    \* whether top_block::stop() may be called

\* A port of a block: which of its inputs or outputs.
InPorts(b)  == 1 .. Len(Ins[b])
OutPorts(b) == 1 .. Len(Outs[b])

source_p(b) == Len(Ins[b]) = 0
sink_p(b)   == Len(Outs[b]) = 0

\* The input ports of all blocks: port i of block b is <<b, i>>.
Ports == UNION {{b} \X InPorts(b) : b \in Blocks}
\* nreaders(): the input ports attached to a buffer.
Readers == [buf \in Bufs |-> {rd \in Ports : Ins[rd[1]][rd[2]] = buf}]
\* link(): the block that writes a buffer.
Writer == [buf \in Bufs |-> CHOOSE b \in Blocks : \E o \in OutPorts(b) : Outs[b][o] = buf]

INT_MAX == 2147483647

\* A validated flat_flowgraph: each block has a port, each output port a buffer
\* of its own and each input port the buffer of some output.
ASSUME GraphAssumption ==
    /\ Ins \in [Blocks -> Seq(Bufs)]
    /\ Outs \in [Blocks -> Seq(Bufs)]
    /\ \A b \in Blocks : ~(source_p(b) /\ sink_p(b))
    /\ \A b, c \in Blocks : \A o \in OutPorts(b), p \in OutPorts(c) :
           Outs[b][o] = Outs[c][p] => b = c /\ o = p
    /\ \A b \in Blocks : \A i \in InPorts(b) :
           \E c \in Blocks : \E o \in OutPorts(c) : Outs[c][o] = Ins[b][i]

ASSUME BlocksAssumption ==
    /\ Cfg \in [Blocks -> BlockConfig]
    /\ Quota \in [Blocks -> Nat \cup {-1}]
    /\ MaxEmpty \in Nat

\* flat_flowgraph sizes the buffers so that the executor does not throw and a
\* reader's history fits.
ASSUME SizeAssumption ==
    /\ Size \in [Bufs -> 1 .. INT_MAX]
    /\ \A b \in Blocks : \A o \in OutPorts(b) : ~BufferTooSmall(Cfg[b], Size[Outs[b][o]])
    /\ \A b \in Blocks : \A i \in InPorts(b) : Cfg[b].history <= Size[Ins[b][i]]

VARIABLES
    pc,             \* where each thread is
    port,           \* the next port it looks at
    items,          \* d_ninput_items: its snapshot of each input
    in_done,        \* d_input_done
    noutput,        \* noutput_items so far
    off,            \* d_unaligned (0: is_unaligned() is FALSE)
    new_alignment,  \* what d_unaligned becomes when work returns
    result,         \* what general_work returned
    todo,           \* neighbours still to be notified
    left,           \* the block's own state: items it will still produce
    empties,        \* how often work may still return 0
    input_changed,  \* d_tpb.input_changed
    output_changed, \* d_tpb.output_changed
    written,        \* per buffer: items written
    read,           \* per block and input port: items consumed
    done,           \* per buffer: d_done
    interrupted     \* threads with a pending boost interruption

local  == <<port, items, in_done, noutput, off, new_alignment, result, todo, left, empties>>
shared == <<input_changed, output_changed, written, read, done, interrupted>>
vars   == <<pc, local, shared>>

-----------------------------------------------------------------------------
(* Buffers.                                                                *)
Unread(b, i) == written[Ins[b][i]] + Cfg[b].history - 1 - read[<<b, i>>]

\* space_available() of a buffer is at least n.
HasSpace(buf, n) ==
    /\ n \in 0 .. Size[buf] - 1
    /\ \A rd \in Readers[buf] : n <= Size[buf] - 1 - Unread(rd[1], rd[2])

\* space_available() of a buffer is n.
IsSpace(buf, n) ==
    /\ HasSpace(buf, n)
    /\ IF Readers[buf] = {} THEN n = Size[buf] - 1
       ELSE \E rd \in Readers[buf] : n = Size[buf] - 1 - Unread(rd[1], rd[2])

\* Whose flag notify_upstream and notify_downstream set: a notification names
\* the flag, the port it is sent for and the block it is sent to.
Upstream == [b \in Blocks |-> {<<"output", i, Writer[Ins[b][i]]>> : i \in InPorts(b)}]
Downstream ==
    [b \in Blocks |->
        UNION {{<<"input", o, rd[1]>> : rd \in Readers[Outs[b][o]]} : o \in OutPorts(b)}]
\* Mutant: notify_neighbors forgets one of the two.
Neighbors_downstream == Downstream
Neighbors == [b \in Blocks |-> Downstream[b] \cup Upstream[b]]
\* They are sent downstream first, and in the order of the ports.
SentBefore(t, u) == \/ t[1] = "input" /\ u[1] = "output"
                    \/ t[1] = u[1] /\ t[2] < u[2]

\* What block_detail::set_done marks, in order.
Adjacent(b) == Outs[b] \o Ins[b]

\* Mutants: a sink gives up on a short input that is not done, or on a done
\* one that still holds items.
Exhausted_short(b, n, d)  == n < Cfg[b].multiple
Exhausted_unread(b, n, d) == d
\* A sink gives up on an input that is done and short of a multiple.
Exhausted(b, n, d) == d /\ n < Cfg[b].multiple

-----------------------------------------------------------------------------
Init ==
    /\ pc = [b \in Blocks |-> "barrier"]
    /\ port = [b \in Blocks |-> 1]
    /\ items = [rd \in Ports |-> 0]
    /\ in_done = [rd \in Ports |-> FALSE]
    /\ noutput = [b \in Blocks |-> 0]
    /\ off = [b \in Blocks |-> 0]
    /\ new_alignment = [b \in Blocks |-> 0]
    /\ result = [b \in Blocks |-> 0]
    /\ todo = [b \in Blocks |-> {}]
    /\ left = Quota
    /\ empties = [b \in Blocks |-> IF b \in Idle THEN MaxEmpty ELSE 0]
    /\ input_changed = [b \in Blocks |-> FALSE]
    /\ output_changed = [b \in Blocks |-> FALSE]
    /\ written = [buf \in Bufs |-> 0]
    /\ read = [rd \in Ports |-> 0]
    /\ done = [buf \in Bufs |-> FALSE]
    /\ interrupted = [b \in Blocks |-> FALSE]

Goto(b, l) == pc' = [pc EXCEPT ![b] = l]

\* Locals of run_one_iteration that no later step looks at take a fixed value.
ForgetInputs(b) ==
    /\ items' = [rd \in Ports |-> IF rd[1] = b THEN 0 ELSE items[rd]]
    /\ in_done' = [rd \in Ports |-> IF rd[1] = b THEN FALSE ELSE in_done[rd]]

\* The port a loop over n ports comes to after port i.
NextPort(i, n) == IF i < n THEN i + 1 ELSE 1

(* The threads start together: scheduler_tpb's constructor has cleared done *)
(* and waits at the same barrier.                                           *)
Barrier ==
    /\ \A b \in Blocks : pc[b] = "barrier"
    /\ pc' = [b \in Blocks |-> "top"]
    /\ UNCHANGED <<local, shared>>

\* The head of the loop: an interruption point, then clear_changed().
Top(b) ==
    /\ pc[b] = "top"
    /\ ~interrupted[b]
    /\ input_changed' = [input_changed EXCEPT ![b] = FALSE]
    /\ output_changed' = [output_changed EXCEPT ![b] = FALSE]
    /\ port' = [port EXCEPT ![b] = 1]
    /\ Goto(b, IF source_p(b) THEN "outputs" ELSE "inputs")
    /\ noutput' = [noutput EXCEPT ![b] = IF source_p(b) THEN max_noutput_items(Cfg[b])
                                         ELSE INT_MAX]
    /\ UNCHANGED <<items, in_done, off, new_alignment, result, todo, left, empties, written,
                   read, done, interrupted>>

(* items_available() and done() of one input, under the buffer's mutex.  A  *)
(* sink gives up on the first exhausted one.                                *)
SnapshotInput(b) ==
    LET i == port[b]
        n == Unread(b, i)
        d == done[Ins[b][i]]
    IN  /\ pc[b] = "inputs"
        /\ i \in InPorts(b)
        /\ IF sink_p(b) /\ Exhausted(b, n, d)
           THEN /\ Goto(b, "set_done")
                /\ port' = [port EXCEPT ![b] = 1]
                /\ ForgetInputs(b)
           ELSE /\ items' = [items EXCEPT ![<<b, i>>] = n]
                /\ in_done' = [in_done EXCEPT ![<<b, i>>] = d]
                /\ port' = [port EXCEPT ![b] = NextPort(i, Len(Ins[b]))]
                /\ Goto(b, IF i < Len(Ins[b]) THEN "inputs"
                           ELSE IF sink_p(b) THEN "guess" ELSE "outputs")
        /\ UNCHANGED <<noutput, off, new_alignment, result, todo, left, empties, shared>>

(* min_available_space for one output, under the buffer's mutex.            *)
SnapshotOutput(b) ==
    LET o   == port[b]
        buf == Outs[b][o]
    IN  /\ pc[b] = "outputs"
        /\ o \in OutPorts(b)
        /\ \E space \in 0 .. Size[buf] - 1 :
              /\ IsSpace(buf, space)
              /\ LET n   == offered(Cfg[b], space, Size[buf])
                     min == Least(noutput[b], n)
                 IN  IF output_blocked(Cfg[b], n)
                     THEN /\ Goto(b, IF done[buf] THEN "set_done" ELSE "wait_out")
                          /\ port' = [port EXCEPT ![b] = 1]
                          /\ noutput' = [noutput EXCEPT ![b] = 0]
                          /\ ForgetInputs(b)
                     ELSE /\ noutput' = [noutput EXCEPT ![b] = min]
                          /\ port' = [port EXCEPT ![b] = NextPort(o, Len(Outs[b]))]
                          /\ Goto(b, IF o < Len(Outs[b]) THEN "outputs"
                                     ELSE IF ~source_p(b) THEN "fit"
                                     ELSE IF min = 0 THEN "wait_out" ELSE "work")
                          /\ UNCHANGED <<items, in_done>>
        /\ UNCHANGED <<off, new_alignment, result, todo, left, empties,
                       shared>>

\* m is max_items_avail, the items of the input that has most.
MostItems(b, m) == /\ m \in {items[<<b, i>>] : i \in InPorts(b)}
                   /\ \A i \in InPorts(b) : items[<<b, i>>] <= m

(* A sink has no output to look at and guesses what its input is good for.  *)
Guess(b) ==
    /\ pc[b] = "guess"
    /\ \E m \in {items[<<b, i>>] : i \in InPorts(b)} :
          /\ MostItems(b, m)
          /\ noutput' = [noutput EXCEPT ![b] = sink_guess(Cfg[b], m)]
          /\ IF sink_guess(Cfg[b], m) = 0
             THEN Goto(b, "wait_in") /\ ForgetInputs(b)
             ELSE Goto(b, "fit") /\ UNCHANGED <<items, in_done>>
    /\ UNCHANGED <<port, off, new_alignment, result, todo, left, empties, shared>>

\* The first input too short for a call of n items.
ShortInput(b, n) ==
    CHOOSE i \in InPorts(b) : /\ items[<<b, i>>] < forecast(Cfg[b], n)
                              /\ \A j \in 1 .. i - 1 : items[<<b, j>>] >= forecast(Cfg[b], n)

(* try_again: one pass over noutput_items.  Either the inputs can feed the   *)
(* call, or it is halved and tried again, or the block is blocked on input.  *)
TryAgain(b) ==
    \E m \in {items[<<b, i>>] : i \in InPorts(b)} :
        LET c     == Cfg[b]
            pass  == Pass(c, off[b], m, noutput[b])
            short == ShortInput(b, pass.n)
        IN  /\ pc[b] = "fit"
            /\ MostItems(b, m)
            /\ IF \A i \in InPorts(b) : forecast(c, pass.n) <= items[<<b, i>>]
               THEN /\ noutput' = [noutput EXCEPT ![b] = pass.n]
                    /\ new_alignment' = [new_alignment EXCEPT ![b] = pass.off]
                    /\ Goto(b, "work")
                    /\ ForgetInputs(b)
               ELSE IF pass.n > c.multiple
               THEN /\ noutput' = [noutput EXCEPT ![b] = Halve(c, pass.n)]
                    /\ UNCHANGED <<pc, items, in_done, new_alignment>>
               ELSE /\ Goto(b, IF in_done[<<b, short>>]
                                  \/ forecast(c, pass.n) > Size[Ins[b][short]] - 1
                               THEN "set_done" ELSE "wait_in")
                    /\ noutput' = [noutput EXCEPT ![b] = 0]
                    /\ ForgetInputs(b)
                    /\ UNCHANGED new_alignment
            /\ UNCHANGED <<port, off, result, todo, left, empties, shared>>

-----------------------------------------------------------------------------
WORK_DONE == -1

\* What general_work may return when asked for n items.
WorkResults(b, n) ==
    IF left[b] = 0 THEN {WORK_DONE}
    ELSE LET most == IF left[b] > 0 THEN Least(left[b], n) ELSE n
         IN  (IF b \in Partial THEN 1 .. most ELSE {most})
                \cup (IF empties[b] > 0 THEN {0} ELSE {})

(* general_work.  On return d_unaligned takes the value settled before the  *)
(* call.  A sync block that produced r items consumes r items' worth of     *)
(* each input before it returns.  Without output it is READY_NO_OUTPUT: a   *)
(* source then waits as if blocked on input, another block only tells its   *)
(* upstream neighbours.                                                     *)
Work(b) ==
    /\ pc[b] = "work"
    /\ \E r \in WorkResults(b, noutput[b]) :
          /\ result' = [result EXCEPT ![b] = r]
          /\ left' = [left EXCEPT ![b] = IF @ > 0 /\ r > 0 THEN @ - r ELSE @]
          /\ empties' = [empties EXCEPT ![b] = IF r = 0 THEN @ - 1 ELSE @]
          /\ Goto(b, IF r = WORK_DONE THEN "set_done"
                     ELSE IF r > 0 /\ ~source_p(b) THEN "consume"
                     ELSE IF r > 0 THEN "produce"
                     ELSE IF source_p(b) THEN "wait_in" ELSE "notify")
          /\ todo' = [todo EXCEPT ![b] = IF r = 0 /\ ~source_p(b) THEN Upstream[b] ELSE @]
    /\ off' = [off EXCEPT ![b] = new_alignment[b]]
    /\ new_alignment' = [new_alignment EXCEPT ![b] = 0]
    /\ noutput' = [noutput EXCEPT ![b] = 0]
    /\ UNCHANGED <<port, items, in_done, shared>>

\* general_work throws: thread_body_wrapper reports it and the thread ends,
\* with neither done set nor any neighbour told.
Throw(b) ==
    /\ pc[b] = "work"
    /\ b \in Throwing
    /\ Goto(b, "dead")
    /\ noutput' = [noutput EXCEPT ![b] = 0]
    /\ new_alignment' = [new_alignment EXCEPT ![b] = 0]
    /\ UNCHANGED <<port, items, in_done, off, result, todo, left, empties, shared>>

\* READY: downstream, then upstream, is to be notified.
Ready(b) == Goto(b, "notify") /\ todo' = [todo EXCEPT ![b] = Neighbors[b]]

\* block_detail::consume_each, one input under its buffer's mutex.
Consume(b) ==
    LET i == port[b]
    IN  /\ pc[b] = "consume"
        /\ i \in InPorts(b)
        /\ read' = [read EXCEPT ![<<b, i>>] =
                        @ + (result[b] * Cfg[b].decim) \div Cfg[b].interp]
        /\ port' = [port EXCEPT ![b] = NextPort(i, Len(Ins[b]))]
        /\ IF i < Len(Ins[b]) THEN UNCHANGED <<pc, todo>>
           ELSE IF sink_p(b) THEN Ready(b) ELSE Goto(b, "produce") /\ UNCHANGED todo
        /\ UNCHANGED <<items, in_done, noutput, off, new_alignment, result, left,
                       empties, input_changed, output_changed, written, done, interrupted>>

\* block_detail::produce_each, one output under its buffer's mutex.
Produce(b) ==
    LET o == port[b]
    IN  /\ pc[b] = "produce"
        /\ written' = [written EXCEPT ![Outs[b][o]] = @ + result[b]]
        /\ port' = [port EXCEPT ![b] = NextPort(o, Len(Outs[b]))]
        /\ IF o < Len(Outs[b]) THEN UNCHANGED <<pc, todo>> ELSE Ready(b)
        /\ UNCHANGED <<items, in_done, noutput, off, new_alignment, result, left, empties,
                       input_changed, output_changed, read, done, interrupted>>

\* were_done: block_detail::set_done(true) marks the outputs, then the inputs.
SetDone(b) ==
    LET adjacent == Adjacent(b)
        p        == port[b]
    IN  /\ pc[b] = "set_done"
        /\ done' = [done EXCEPT ![adjacent[p]] = TRUE]
        /\ IF p < Len(adjacent)
           THEN port' = [port EXCEPT ![b] = p + 1] /\ UNCHANGED <<pc, todo>>
           ELSE /\ port' = [port EXCEPT ![b] = 1]
                /\ todo' = [todo EXCEPT ![b] = Neighbors[b]]
                /\ Goto(b, "notify_done")
        /\ UNCHANGED <<items, in_done, noutput, off, new_alignment, result, left, empties,
                       input_changed, output_changed, written, read, interrupted>>

\* set_input_changed or set_output_changed of one neighbour; after the last the
\* thread goes on or, if its block is done, returns.
Notify(b) ==
    /\ pc[b] \in {"notify", "notify_done"}
    /\ \E t \in todo[b] :
          /\ \A u \in todo[b] : ~SentBefore(u, t)
          /\ IF t[1] = "input"
             THEN /\ input_changed' = [input_changed EXCEPT ![t[3]] = TRUE]
                  /\ UNCHANGED output_changed
             ELSE /\ output_changed' = [output_changed EXCEPT ![t[3]] = TRUE]
                  /\ UNCHANGED input_changed
          /\ todo' = [todo EXCEPT ![b] = @ \ {t}]
          /\ IF todo[b] # {t} THEN UNCHANGED <<pc, result>>
             ELSE /\ Goto(b, IF pc[b] = "notify" THEN "top" ELSE "exit")
                  /\ result' = [result EXCEPT ![b] = 0]
    /\ UNCHANGED <<port, items, in_done, noutput, off, new_alignment, left, empties,
                   written, read, done, interrupted>>

-----------------------------------------------------------------------------
\* BLKD_OUT: wait for output_changed, however long it takes.
WakeOut(b) ==
    /\ pc[b] = "wait_out"
    /\ output_changed[b]
    /\ Goto(b, "top")
    /\ UNCHANGED <<local, shared>>

\* BLKD_IN: wait for input_changed ...
WakeIn(b) ==
    /\ pc[b] = "wait_in"
    /\ input_changed[b]
    /\ Goto(b, "top")
    /\ UNCHANGED <<local, shared>>

\* ... but no longer than 250 ms.
Timeout(b) ==
    /\ pc[b] = "wait_in"
    /\ ~input_changed[b]
    /\ Goto(b, "top")
    /\ UNCHANGED <<local, shared>>

\* scheduler_tpb::stop(), from top_block::stop(): interrupt_all.
Stop ==
    /\ MayStop
    /\ \A b \in Blocks : pc[b] # "barrier"
    /\ \E b \in Blocks : ~interrupted[b]
    /\ interrupted' = [b \in Blocks |-> TRUE]
    /\ UNCHANGED <<pc, local, input_changed, output_changed, written, read, done>>

\* Mutant: the wait for output space is not an interruption point.
Interruptible_notout(b) ==
    \/ pc[b] \in {"top", "work"}
    \/ pc[b] = "wait_in" /\ ~input_changed[b]

\* Where boost::thread_interrupted is thrown: at the head of the loop, in a
\* condition wait and in a work that sleeps.
Interruptible(b) ==
    \/ pc[b] \in {"top", "work"}
    \/ pc[b] = "wait_in" /\ ~input_changed[b]
    \/ pc[b] = "wait_out" /\ ~output_changed[b]

\* thread_body_wrapper swallows it and the thread ends, telling nobody.
Interrupted(b) ==
    /\ interrupted[b]
    /\ Interruptible(b)
    /\ Goto(b, "exit")
    /\ UNCHANGED <<local, shared>>

Step(b) ==
    \/ Top(b)
    \/ SnapshotInput(b)
    \/ SnapshotOutput(b)
    \/ Guess(b)
    \/ TryAgain(b)
    \/ Work(b)
    \/ Throw(b)
    \/ Consume(b)
    \/ Produce(b)
    \/ SetDone(b)
    \/ Notify(b)
    \/ WakeOut(b)
    \/ WakeIn(b)
    \/ Interrupted(b)

Next ==
    \/ Barrier
    \/ \E b \in Blocks : Step(b) \/ Timeout(b)
    \/ Stop

Spec == Init /\ [][Next]_vars

\* Every thread keeps running; nothing is assumed of the 250 ms timeout.
FairSpec == Spec /\ WF_vars(Barrier) /\ \A b \in Blocks : WF_vars(Step(b))

-----------------------------------------------------------------------------
Exited(b) == pc[b] \in {"exit", "dead"}

TypeOK ==
    /\ pc \in [Blocks -> {"barrier", "top", "inputs", "outputs", "guess", "fit", "work",
                          "consume", "produce", "set_done", "notify", "notify_done",
                          "wait_in", "wait_out", "exit", "dead"}]
    /\ port \in [Blocks -> Nat \ {0}]
    /\ items \in [Ports -> Nat]
    /\ in_done \in [Ports -> BOOLEAN]
    /\ noutput \in [Blocks -> Nat]
    /\ off \in [Blocks -> Nat] /\ \A b \in Blocks : off[b] <= Cfg[b].multiple
    /\ new_alignment \in [Blocks -> Nat] /\ \A b \in Blocks : new_alignment[b] <= Cfg[b].multiple
    /\ result \in [Blocks -> Nat \cup {WORK_DONE}]
    /\ todo \in [Blocks -> SUBSET ({"input", "output"} \X (Nat \ {0}) \X Blocks)]
    /\ left \in [Blocks -> Nat \cup {-1}]
    /\ empties \in [Blocks -> 0 .. MaxEmpty]
    /\ read \in [Ports -> Nat]
    /\ written \in [Bufs -> Nat]
    /\ done \in [Bufs -> BOOLEAN]
    /\ input_changed \in [Blocks -> BOOLEAN]
    /\ output_changed \in [Blocks -> BOOLEAN]
    /\ interrupted \in [Blocks -> BOOLEAN]

(* No thread ever writes over items another has yet to read, and none reads *)
(* items that are not there: every reader's unread count stays within the   *)
(* ring although each thread acts on counts it took earlier.                *)
CountsWithinBuffer ==
    \A b \in Blocks : \A i \in InPorts(b) : Unread(b, i) \in 0 .. Size[Ins[b][i]] - 1

(* When work is called, what it was asked for still fits every output       *)
(* buffer and every input still holds what forecast said it needs, and a    *)
(* block with an output multiple is asked for whole multiples.              *)
WorkCallFits ==
    \A b \in Blocks : pc[b] = "work" =>
        /\ noutput[b] > 0
        /\ \A o \in OutPorts(b) : HasSpace(Outs[b][o], noutput[b])
        /\ \A i \in InPorts(b) : forecast(Cfg[b], noutput[b]) <= Unread(b, i)
        /\ Cfg[b].multiple_set => noutput[b] % Cfg[b].multiple = 0

\* The threads that will still set a flag of block b.
WillNotify(flag, b) ==
    \E c \in Blocks :
        \/ pc[c] \in {"notify", "notify_done"} /\ \E t \in todo[c] : t[1] = flag /\ t[3] = b
        \/ /\ pc[c] \in {"consume", "produce", "set_done"}
           /\ \E t \in Neighbors[c] : t[1] = flag /\ t[3] = b

OutputBlocked(b) ==
    \E o \in OutPorts(b) : \E n \in 0 .. Size[Outs[b][o]] - 1 :
        /\ IsSpace(Outs[b][o], n)
        /\ output_blocked(Cfg[b], offered(Cfg[b], n, Size[Outs[b][o]]))
        /\ ~done[Outs[b][o]]

(* No wake-up is lost: a thread asleep without a timeout on output space is *)
(* either still short of it or about to be told.                            *)
NoLostWakeup ==
    \A b \in Blocks :
        (pc[b] = "wait_out" /\ ~output_changed[b] /\ ~interrupted[b])
            => OutputBlocked(b) \/ WillNotify("output", b)

\* A thread whose block is done, or that has ended.
Finishing(b) == pc[b] \in {"set_done", "notify_done", "exit", "dead"}

(* A thread that ends because its input is exhausted, or because nobody is  *)
(* left to read its output, ends after a neighbour on that side:            *)
(* block_executor.cc: "If the upstream block is done, we're done".          *)
DoneFollowsNeighbor ==
    \A b \in Blocks : (pc[b] = "set_done" /\ result[b] # WORK_DONE) =>
        \/ \E i \in InPorts(b) : Finishing(Writer[Ins[b][i]])
        \/ \E o \in OutPorts(b) : \E rd \in Readers[Outs[b][o]] : Finishing(rd[1])

(* A flowgraph with a finite part drains: every thread ends by itself,      *)
(* unless one dies of an exception ...                                      *)
Terminates == <>((\A b \in Blocks : Exited(b)) \/ \E b \in Blocks : pc[b] = "dead")

(* ... and when all have, no reader has left items behind that it could     *)
(* still have used.                                                         *)
Drained ==
    (\A b \in Blocks : pc[b] = "exit" /\ ~interrupted[b]) =>
        \A b \in Blocks : \A i \in InPorts(b) :
            Unread(b, i) < forecast(Cfg[b], Cfg[b].multiple)

(* After stop() every thread ends, whatever it was waiting for.             *)
StopEnds == (\E b \in Blocks : interrupted[b]) ~> (\A b \in Blocks : Exited(b))

\* The blocks whose work makes all it is asked for.
Whole(b) == b \notin Partial \cup Idle /\ Quota[b] = -1

(* d_unaligned follows the place in the output buffer through short calls,  *)
(* halved requests and calls that were not made: at the head of the loop a  *)
(* block is exactly d_unaligned items short of its next aligned place,      *)
(* unless its work makes less than it was asked for.                        *)
AlignmentTracked ==
    \A b \in Blocks : \A o \in OutPorts(b) :
        Whole(b) /\ pc[b] = "top" => (written[Outs[b][o]] + off[b]) % Cfg[b].multiple = 0

(* block_executor's run_one_iteration: each call of work fits the buffers as *)
(* they are when it is made, whatever the other threads did since they were  *)
(* looked at, and the alignment it was made for is the one it has.           *)
CallsFit == TypeOK /\ CountsWithinBuffer /\ WorkCallFits /\ AlignmentTracked
=============================================================================
