# A verification development of QGnuradio

QGnuradio is a fork of GNU Radio 3.7 with one out-of-tree module (gr-beklBlk) and an
exception-handling addition. Its core is the *runtime* (`src/gnuradio-runtime/lib`): it turns
a graph of signal-processing blocks into threads that exchange items through ring buffers.
Around it stand the standard blocks (`src/gr-blocks`), which compute on those streams, and
the ways in and out of the program: files, sockets, messages, preferences.

The modules here model the runtime first, and then the blocks and edges that keep state,
cross threads or cut what they are given into pieces.

Paths without a directory are below `src/gnuradio-runtime/lib`, `src/gr-blocks/lib` or
`src/gr-beklBlk/lib`; `PROJECT.json` ("map") has the exact lines of every definition.

## 1. Inventory

### Components

| component | state | operations | what makes it correct |
|---|---|---|---|
| **stream buffer** `buffer.cc`, `buffer.h` | the ring, one write index, a read index and a 64-bit item counter per reader, tags, `d_done`, `d_max_reader_delay` | space_available (prunes tags), update_write_pointer, items_available, update_read_pointer, add_item_tag, get_tags_in_range, prune_tags, set_done, buffer_add_reader | every reader sees the stream in order and whole; counts taken under the mutex stay good while they are used; no tag is lost or seen twice |
| **block executor** `block_executor.cc`, `sync_*.cc` | per-thread scratch: item counts, done flags, `d_unaligned` in the block | run_one_iteration: min_available_space, forecast, alignment, halving, general_work, consume/produce, tag propagation | a call of work is only made when it fits inputs and outputs; the alignment bookkeeping is exact; done is reported only when it is so |
| **thread-per-block scheduler** `tpb_thread_body.cc`, `tpb_detail.cc`, `scheduler_tpb.cc`, `block_detail.cc` | one thread per block, `input_changed`/`output_changed` with their mutex and conditions | the loop, notifications up and down stream, waits (input with a 250 ms timeout, output without), done, interruption, exceptions | no lost wake-up, no deadlock, a finite flowgraph drains and ends, stop() ends every thread |
| **top block** `top_block_impl.cc` | `d_state`, `d_lock_count`, `d_retry_wait`, `d_scheduler` under `d_mutex` | start, stop, wait, lock, unlock (restart) from any user threads | a locked flowgraph is quiet; two generations of threads never overlap; wait() is neither early nor stuck |
| **message passing** `basic_block.cc`, `block.cc`, message loop of `tpb_thread_body.cc` | subscriber lists, a queue per port, handlers | pub, insert_tail, delete_head, notify_blk, dispatch, the system message "done" | each subscriber gets each message once and in order; the receiver wakes; done does not overtake data |
| **flowgraph** `flowgraph.cc` | the edge list | connect, disconnect, validate, partition, topological_sort | no input port twice, ports contiguous, the sort orders every edge |
| **hierarchical block** `hier_block2_detail.cc` | nested stream and message connections | connect, disconnect, msg_connect, lock upwards, flatten | the flat edges are the paths through the nesting |
| **flat flowgraph** `flat_flowgraph.cc` | blocks with details and buffers | setup_connections, allocate, connect, merge_connections, setup_buffer_alignment | each input reads its source's buffer; a reconfiguration keeps what survives |
| **block registry, sptr_magic** `block_registry.cc`, `sptr_magic.cc` | maps from names, aliases and ids to blocks; blocks under construction | register, alias, look up, notify, stash | no name leads to a deleted block; every living block is found |
| **message queue** `msg_queue.cc` | a bounded list, two conditions | insert_tail, delete_head, nowait, flush | bounded FIFO; no waiter forgotten |
| **RngLib** `RngLib.cpp` | a byte ring, two indices, no lock | put, get, put-ahead, move-ahead, get-no-delete, move-read | FIFO for one producer and one consumer |
| **UDP source** `udp_source_impl.cc`, `beklUdpSource_impl.cc` | io thread, residual buffer | handle_read, work, connect, disconnect | bytes pass between threads in order; disconnect does not hang |
| **antenna pre-handling** `beklAntennaPrehandle_impl.cc` | frame and batch under collection, two ini files | channel assembly, resynchronisation, batching, GPS/declination correction | a batch is made of whole, consecutive frames |
| **exception handling** `threadexceptionhandle.cpp` | a map from thread to jump buffer | push, look-up in a signal handler | a fault returns to the call it happened in |
| **standard blocks** `gr-blocks/lib/*_impl.cc` | a position, a counter, a delay line, carried from call to call | general_work, forecast | what a block makes of a stream does not depend on how the calls cut it |
| **pmt** `pmt.cc`, `pmt_serialize.cc` | the table of symbols; values | cons, dict_*, equal, intern, serialize, deserialize | a value comes back from its bytes; a symbol is one object |
| **file blocks** file_sink, file_source, file_meta_*, wavfile_*, tagged_file_sink, file_descriptor_* | handles swapped by other threads, headers to complete, ranges to repeat | open, close, seek, work | headers tell what is in the file; items go to the file asked for; no handle leaks |
| **socket blocks** udp_sink, tcp_server_sink, socket_pdu | connections, io thread | connect, disconnect, accept, write, drop | each client gets an unbroken stream |
| **packets and messages** pdu_to_tagged_stream, tagged_stream_to_pdu | the PDU under way | work | a PDU arrives whole, with its metadata |
| **virtual memory buffers** `vmcircbuf_*.cc` | two mappings of the same pages | the system calls and their cleanup | mirrored memory or nothing left behind |
| **preferences** `prefs.cc` | a map of sections, files, environment | read, get, set, save | what was set is in force, also after a save |
| **probe** `ctrlport_probe2_*`, `rpcbufferedget.h` | a buffer, a flag, a condition | work, get, set_length | get() returns a run of consecutive samples |

### How they interact

A user thread calls `top_block::start()`: the hierarchical graph is flattened and validated,
the flat flowgraph allocates a buffer per output port and a reader per input port, and
`scheduler_tpb` creates a thread per block that waits at a barrier. From then on:

* a block's thread **writes** its output buffers and **reads** its input buffers; buffer,
  counters and tags of one output port are shared by the writer's thread and the thread of
  each reader under that buffer's mutex;
* after a call of work the thread sets `input_changed` of each block downstream and
  `output_changed` of each block upstream under *their* mutex, and signals their conditions;
  a thread that cannot proceed waits on its own conditions;
* the *end* of the flowgraph travels through `d_done` of the buffers, set both by the block
  that writes and by those that read;
* `stop()` and `lock()` interrupt the threads (boost interruption), `wait()` and `unlock()`
  join them; `unlock()` rebuilds the flat flowgraph from the old one and starts a new scheduler;
* messages go from a thread directly into the queues of other blocks, which they find through
  the global registry;
* blocks that talk to the outside have threads of their own (boost::asio) or are called by the
  user's threads (open, close, connect, seek) while the scheduler's thread is in `work`.

### Hard behaviours

Interleaving between the instants a mutex is held: counts are read under it and used without
it. Wake-ups that must not be lost because one of the two waits has no timeout. Termination
that propagates up *and* down. A `d_state` written by `wait()` after the mutex was given up.
Work functions cut at arbitrary points of a stream, with rounding and running positions.
Files whose headers are completed after the fact, by another thread or not at all. Cleanup by
hand after the n-th of several system calls. `PROJECT.json` ("hazards") lists them at their
lines with the properties that address each.

## 2. Modules and the code

### The runtime

| module | models | actions and the code they stand for |
|---|---|---|
| `BroadcastFifo` | what a buffer promises | abstract: attach, send, receive |
| `Buffer` | `buffer.cc`, `buffer.h` and how the executor calls them | `MinAvailableSpace` (space_available with its pruning), `WriteItem` (work filling its window, one item at a time, unlocked), `AddItemTag`, `UpdateWritePointer`, `Snapshot` (items_available), `UpdateReadPointer`, `RemoveItemTag`, `PropagateTags` (get_tags_in_range over what was consumed), `AddReader`, `Start`, `SetDone` |
| `BlockExecutor` | the arithmetic of `block_executor.cc` | operators: `offered`, `forecast`, `UseAllInput`, `CapOutput`, `Align`, `Halve`, `Pass` (one pass of try_again) |
| `TpbScheduler` (extends `BlockExecutor`) | the threads | per block: `Top`, `SnapshotInput`, `SnapshotOutput`, `Guess`, `TryAgain`, `Work`, `Throw`, `Consume`, `Produce`, `SetDone`, `Notify`, `WakeIn`, `WakeOut`, `Timeout`, `Interrupted`; `Barrier`, `Stop` |
| `TopBlock` | `top_block_impl.cc` | `Start`, `Stop`, `Lock`, `Unlock`, `Restart`, `RestartThrows`, `Wait`, `Join`, `Joined`, `JoinFreed`, `Relock`, `SpuriousWake`; `Exit`, `Finish` of a whole generation of threads |
| `MsgPassing` | the message parts of `basic_block.cc`, `block.cc`, `tpb_thread_body.cc` | `Post` (insert_tail) and `Wake` (notify_blk), one subscriber after another; the loop's look at each port, handling, idling, waking; `Stop`, `Restart` |
| `Flowgraph` | `flowgraph.cc` | operators: connect and validate with their throws, `calc_used_blocks`, `partition`, `topological_sort` as the code computes them, visit by visit |
| `HierBlock` (extends `Flowgraph`) | `hier_block2_detail.cc` | connecting and disconnecting streams and messages at any level, `lock` passed upwards, start and unlock, which flatten; `flatten` makes the calls of flatten_aux one by one, with those under way on a path |
| `FlatFlowgraph` (extends `Flowgraph`) | `flat_flowgraph.cc` | first set-up, writes and reads of items, restart with merge: readers kept, dropped, added, aligned |
| `BlockRegistry` | `block_registry.cc`, `sptr_magic.cc`, constructors and destructors of `basic_block`, `block`, `hier_block2` | one step per call to the registry |

### Queues and blocks

| module | models | actions |
|---|---|---|
| `BoundedFifo` | what a queue between two threads promises | abstract: put, take |
| `RngLib` | `RngLib.cpp` | each put and get as start (the other's index is read), one byte after the other, end (the own index moves); `rngBufGetNoDel` moves its index and moves it back |
| `MsgQueue` | `msg_queue.cc` | insert_tail, delete_head (with their waits), delete_head_nowait, flush |
| `UdpSource` | `udp_source_impl.cc` | datagrams handled by the io thread, work with its 10 ms wait, end of stream, disconnect, connect |
| `ProbeGet` | ctrlport_probe2 and `rpcbufferedget.h` | work, offer_data, get, set_length |
| `RateBlocks` | work functions of the standard blocks, as operators from state and call to state, output, consumed and tags | those that change rate or mix streams; that deal items out to several outputs; that are switched while they run (copy, selector, mute, interleaved_short_to_complex, multiply_matrix, annotator_raw); that compute item by item on integers |
| `SignalBlocks` | the same | those that remember what they have seen (windows, statistics, peaks, a locked sequence) or place tags; tagged_stream_block with its blocks |
| `StreamBlocks` | one such block driven by its executor | `Work` with any room and any input that forecast and multiples allow, until the input is used up; `Change`, a setter or message handler called between two calls, with the values `MayChange` lists |
| `BlockReference` | what each block makes of a *whole* stream, said without calls | which input the k-th output item is a copy of, or its value, given where in the stream the changes fell; where tags stand |

### The edges

| module | models |
|---|---|
| `AntennaPrehandle` | frames out of UDP packets that are lost, late, repeated; batches; correction from ini files |
| `Pmt`, `PmtSerialize` | values, dictionaries, equality, the symbol table with concurrent `intern`; bytes written, cut short and read |
| `FileMeta` | file_meta_sink and file_meta_source: segments and headers, written, completed and read back |
| `WavFile` | wavfile_sink under open/close/set_bits from other threads, wavfile_source |
| `FileSinks` | file_sink_base's handing over of file handles, file_sink; the files of tagged_file_sink |
| `FileSource` | file_source with open, close and seek from other threads; the descriptors of file_descriptor_source/sink |
| `TcpServerSink`, `UdpSink` | clients that come, fail and go during work |
| `PduBlocks` | PDUs to packets and back; socket_pdu's TCP server |
| `ErrorHandle` | jump buffers by thread id, faults in work |
| `VmCircBuf` | three kinds of doubly mapped memory, each system call may fail, other code uses the address space meanwhile; which kind a process takes, by the file of preferences or by testing |
| `Prefs` | reading, environment, setting, saving, and the next process |

`MC*` modules hold the instances for TLC (`TopBlock` needs none); `*Proofs` modules hold
theorems. Operators called `X_something` beside an `X` are deliberately broken variants of
`X` ("mutants"); no specification uses them, and each shows which property notices that bug.

**Granularity.** One critical section is one step. In `TpbScheduler` each look at one input
or output, each consume and produce on one port, each notification and each wait is a step,
because the code takes and releases a mutex there and any other thread may run in between.
The executor's arithmetic between two critical sections touches only the thread's own
locals: a sink's first guess (`Guess`) and each pass from try_again (`TryAgain`) are one step. In `TopBlock` a call that holds `d_mutex` from end to
end is one step; `unlock()` is two, because it keeps the mutex while it waits for the threads,
and `wait()` is a loop of three, because it joins without the mutex. Where there is no lock
(`RngLib`, the head of the symbol table, `d_updated` in the file sinks) each access to what is
shared is a step. A file operation or system call is one step. The work function of a
standard block touches nothing shared: a whole call is one step.

**Composition.** `TpbScheduler` uses counters where the code uses rings; `Buffer` shows that
the ring implements exactly such counters (`StreamKept`, and `FifoSpec` for the contents).
`TopBlock` abstracts a whole run of `TpbScheduler` into one job that is running, stopping or
ended; that a stopping job ends is `StopEnds` of `TpbScheduler`, and `TopBlock` takes it as
the fairness of `Exit`. `MsgPassing` abstracts the streams of `TpbScheduler`: an iteration of a
stream block may return any state, and its neighbours may wake it at any time. `HierBlock`
produces the edges that `FlatFlowgraph` is given; what `Flowgraph` promises of its sort is what
`FlatFlowgraph` and the starting order of the threads use. `StreamBlocks` takes from the
executor that each call fits (`CallsFit`) and nothing else about when calls are made.

**Abstractions.** In the runtime an item is its position in the stream, a tag is an offset and
a key, a work function is a choice of how many items to produce. In the blocks an item is a
small number. Numbers are mathematical integers, with one exception: the 64-bit
offsets of `get_tags_in_range` wrap, at 4096 here, because the code compares an unsigned
difference. In `PmtSerialize` a byte holds one of a few values, so that words of 16, 32 and 64
bits have 2, 3 and 4 bytes. In `FileMeta` every item, header and dictionary entry takes one
cell of the file. `TpbScheduler`'s blocks have sync rates (decimation or
interpolation); blocks with free rates and a forecast of their own run in `StreamBlocks`.

**Undefined behaviour** is a choice over the outcomes: a walk over the tags whose start lies
beyond its end returns any set of tags (`TagsReturned`); a `wait()` that joins a scheduler
that has been destroyed returns at any time (`Joined`) or crashes (`JoinFreed`); an output item
that a block never writes keeps the stale value `Stale`, which no reference expects.

## 3. The runs

Every property below is one of a run's INVARIANTs or PROPERTYs. A name in parentheses is a
conjunct: the property is the conjunction, and its comment says what each part adds.

| run | instance and bounds | what it shows |
|---|---|---|
| `ring` | 3 slots, 2 readers, one with a history of one item, one with a sample delay of 1; five items, two tags | `StreamKept` (`TypeOK`, `IndicesAgree`, `ReaderSeesStream`, `PromisesKept`): indices and counters agree, unread slots hold the right item, snapshots stay good. `TagsKept` (`TagsSurvive`, `TagsDelivered`, `WalkEnds`): concurrent pruning loses no tag, each reader gets each tag of what it consumed. `FifoSpec`: **the ring implements `BroadcastFifo`** |
| `join` | an endless source whose buffer a copying block and a two-input head of two items read, the second input of which is the copy; two items fit each buffer | `NoLostWakeup`; `DoneFollowsNeighbor`: no thread ends before a neighbour has; `Terminates`: every thread ends after the head has, which ends the other reader of the source's buffer, and nothing hangs before, without help from the 250 ms timeout |
| `aligned` | source → decimator with history 2 and alignment 2 → sink; buffers of 9 and 5, 8 items, the source may produce less than asked or nothing once, the sink may return 0 once | `CallsFit` (`TypeOK`, `CountsWithinBuffer`, `WorkCallFits`, `AlignmentTracked`); `Drained`: nothing usable left behind |
| `end` | endless source → head of two items → sink; stop() at any moment, the head block may throw | `StopEnds`: every thread ends after stop(), without help from the 250 ms timeout |
| `topstop` | two user threads: one starts, waits, locks; the other stops, locks; 3 schedulers, 3 locks, reconfiguration may fail | `LockedIsQuiet`; `WaitNotEarly`; `OneRunAtATime`: no start while a run goes on, and at most one generation of threads (`OneGeneration`) |
| `reconfigure` | one thread waits, another locks and unlocks up to 3 times | `WaitReturns` on a finite flowgraph |
| `stuckwait` | stop() between lock() and unlock() — **violated** | a wait() asleep in `d_lock_cond` is never woken |
| `messages` | source ⇄ message-only block, and a message-only block whose handler is not attached; two messages, one blocked iteration, two runs | `Delivered` (`TypeOK`, `InOrder`, `Awakened`), also across a restart; `DoneComesLast`; `EventuallyHandled` |
| `graph` | nested: a top block, three hierarchical blocks (one in another, one with only a message port), five plain ones, one of which refuses a topology, 4 edits, 2 runs; flat: four blocks, buffers of 4, 2 restarts | `Flattened` (`StreamsFlattened`, `MessagesFlattened`, `ThrowsForReason`, `ThrowsIfWrong`, `EdgesSubscribed`); `SortedByParts` (`SortedDownstream`, `PartsApart`); `RunsAsWired` (`RunsValid`, `WiredAsEdges`); `InFlightKept`: a restart keeps what was in flight on an edge that stays |
| `parts` | `RngLib` with 4 bytes; `msg_queue` of two with two producers and two consumers; `udp_source` with a buffer of two datagrams; the probe with lengths 1 and 3; each standard block with one or two sets of small parameters, a stream of up to a dozen items and, where it has setters, at most two changes (`MaxChanges`) | `RingKept`, `FifoSpec` (the ring implements `BoundedFifo`); `QueueKept` (`QFifoSpec`, `CountIsLength`, `NoSleeper`), `InsertProgress`; `BytesPassedOn` (`UTypeOK`, `NothingElseLost`, `ItemsWhole`, `DoneForGood`); `GotRun`; `Served` (`GetReturns`, `Emptied`); `AsReference` (`Chunked`, `TagsPlaced`, `WithinBuffers`, `DelayFollows`, `SettingsFollow`, `PacketsFound`, `LockKept`): what comes out, in items and tags, is the reference's however the calls cut the stream, and a change acts from the item on at which it was made; `AllPutOut`: all input is taken and everything due is put out |
| `outside` | one part at a time: five frames with lost, late and repeated packets; values and lists of up to 3 elements; three threads interning three colliding names; files of up to three segments; two WAV frames and two calls of other threads; three PDUs; four file handles; two TCP clients, three peers of socket_pdu; five cells of address space, each system call failing, other code mapping meanwhile; two processes, started four times and ending at any step, that find no preference, an empty one, an unknown one or one that names a kind; two processes saving preferences, with texts the parser cuts or cannot read, ending at any step; four places for blocks; three worker threads of which two share an id | `BatchesSound`, `PmtKept`, `FormatsKept`, `HandlesKept`, `FilesAsAsked`, `SentUnbroken`, `PdusKept`, `RegistrySound`, `FaultsCaught`, `MemorySound`, `PrefsKept` |
| `repack` | two packets of three 3-bit items repacked into bytes — **violated** | the second packet is read from the middle of its first item |

The runs `parts` and `outside` choose one part in their initial states and step only it: the
parts share nothing, so that their state spaces add up instead of multiplying.

`CHECK_DEADLOCK FALSE` everywhere: the bounded writer stops at `MaxItems`, a flowgraph that
has ended has no further step, a block that has used up its input rests, and a user thread
that makes no more calls is no error. That threads do not hang is stated by `NoLostWakeup`,
`Terminates`, `StopEnds`, `Delivered` (`Awakened`), `EventuallyHandled`, `WaitReturns`,
`QueueKept` (`NoSleeper`), `InsertProgress`, `AllPutOut` and `Served`.

**Why the bounds are enough.** The ring of `ring` is filled and its end is passed by the writer
and by readers at different indices; the model depends on positions only modulo the ring size and on
differences, and for all but the tags the proofs below remove the bounds altogether. Five items are needed for
a tag to be pruned at all: it goes once its offset and the ring's size are below the slowest reader. In `join`
the two-input block needs both its inputs while one buffer feeds both: a full buffer of the source holds up
the branch that the other input waits for, and the block that ends first ends the one beside it;
`aligned` has room for several items in
each call, so that requests are rounded, capped by either side, halved and left unaligned.
Three schedulers are enough for one to be replaced while another is still waited for, and
three calls of lock() for a nested lock and a second reconfiguration. In `messages` the source's
messages meet the answers of the message-only block in both directions, each queue can hold two
messages when it is looked at, and a restart can find messages in any of them. In `graph` a
stream can pass two levels of nesting and leave them, two blocks can be wired in a cycle, and
an edge can go and come back between two runs. It has one start (`MaxStarts` = 1)
and reconfigures from there; section 5 says what a second one finds. A standard block's stream is longer than two of
its periods, so that each running position wraps and every cut of a call falls on each of its
phases. The rings and queues of `parts` wrap twice. In `outside` each file gets a segment that
ends for each reason and one cut short, each list of handles a handle installed, one pending
and one replaced before it was used, and each system call fails once in each position.

**Fairness.** `FairSpec` of `TpbScheduler` and `MsgPassing` gives weak fairness to each
thread's own steps: the operating system keeps running a runnable thread, and each step is
enabled until that thread takes it. It does
not include the timeout, so `Terminates`, `StopEnds` and `EventuallyHandled` show that the
notifications and the interruption alone suffice. In `join` the source is endless, so that
`Terminates` needs each of its waits for room ended in time as well as the end passed on both ways. A thread that dies of an exception tells
nobody, and its neighbours wait until stop(): `Terminates` is stated for runs without one,
`StopEnds` for all. `FiniteSpec` of `TopBlock`
says that a thread inside a call goes on, that interrupted threads end (`StopEnds`), that the
flowgraph is finite (`Finish`), and that a user who has locked unlocks: without the last two,
wait() rightly never returns. `MsgQueue` assumes that a thread inside a call goes on and that
consumers keep calling; `UdpSource` that the scheduler calls a source's work again and again;
`ProbeGet` that work keeps being called; `StreamBlocks` that the executor keeps calling a block
it has input for (`CallsFit` and `Drained` are why it does). `InsertProgress` says that
producers do not wait for ever while nothing is inserted; it does not say that each of several
producers gets its turn, because a condition wakes any of them. Nothing is assumed about calls
users may or may not make.

## 4. Proofs

Each of the following holds for **every** value of the constants.

* `BufferProofs` — `Invariance` and `StreamAlwaysKept`: `StreamKept` for any number of readers,
  ring size, history, delay and bound. The inductive invariant `IInv` adds two facts to it.
  *Untouched*: until the threads start nothing has been written, so that a reader attached then
  finds its preloaded zeros. *WindowWritten*: the part of the writer's window that is filled
  already holds the next items of the stream, which is what `UpdateWritePointer` then publishes.
  `ReaderSeesStream` alone is not inductive, because publishing a window says nothing about what is
  in it; `PromisesKept` is needed with it, because `WriteItem` only spares unread slots while the
  window still fits. The arithmetic of wrapping is in four lemmas (`WriteAdvance`, `ReadAdvance`,
  `WindowDisjoint`, `WindowFollows`).
  Two more rest on it. `RingIsBroadcastFifo` maps the ring to `BroadcastFifo`: what each reader still
  has to receive is the stream between its two counters, `UpdateReadPointer` receives it and every other
  step stutters. `TagsAlwaysKept` says that tags are delivered under `SmallDelays`: no sample delay
  above one item (and counts short of where the model's 64-bit numbers wrap). The bound is tight:
  with a delay of two `get_tags_in_range` skips tags at the start of a stream (section 5).
  `MemoryAlwaysSound`: the same module's first part, about `VmCircBuf`, for any number of cells, buffers and processes, and whatever other
  code maps. `VInv` says what the constructor has mapped when it is about to make each of its
  calls (`Building`), that its segment is newer than that of any buffer (`Segments`), hence that it never
  unmaps a buffer's cells. `VClean` accounts for every cell and for everything held (`Accounted`, `Holds`). For the
  choice of a kind, a process that tests has passed over no factory that always works (`Skips`),
  and the file holds what it held at first, nothing, or a factory that passed (`PrefSound`). Any call may fail:
  what its handler forgets (`MayStay`, translated handler by handler) is all that stays behind, and only of the
  segment of which it failed. POSIX memory does not check that its second copy is behind the first
  (section 5): both conjuncts are claimed until that has happened once (`Misplaced`), since the destructor then
  unmaps what is not its own. The one hypothesis is that what the name array of a missing file happens to hold
  names no factory (`NamesApart`); `BuffersAlwaysSound`, about the memory alone, has none.
* `TpbSchedulerProofs` — for any flat flowgraph (`GraphAssumption`: each block has a port, each output
  port a buffer of its own, each input port the buffer of some output), any buffer sizes that
  `min_available_space` does not refuse (`SizeAssumption`), rates, multiples, histories, and any
  choice of partial, idle and throwing blocks: `CallsAlwaysFit`, `WakeupsNeverLost`, `DoneAlwaysFollows`,
  `AlwaysDrained`. `IInv` gives
  each thread what it knows at the place where it stands (`PortInRange`; the items it has looked at
  are still there, the space it has seen is still free, a call settled on fits both), because only a
  buffer's writer takes its space and only its reader takes its items; and gives each block that
  sleeps in the wait without timeout either a short output or a neighbour between consume and its
  last notification. The arithmetic is in lemmas about `round_down`, `round_up`, `offered`, `Pass`
  and `Halve`: a pass never asks for more than it was given unless it is aligned, keeps the multiple,
  and is never empty. That last needs `RoomForOne`, max_noutput_items >= output_multiple for each
  block: without it a source is asked for 0 items and waits for ever (section 5). `AlignmentTracked` is
  stated for the blocks whose work makes what it is asked for (`Whole`), the only ones for which the
  code keeps the alignment.
  `DoneAlwaysFollows` and `AlwaysDrained` are about how the end of the stream goes through the graph. `DoneInv`
  says that a buffer marked done is used by a block that has ended, that an input found done was marked,
  and that if only one block ends by itself nothing ends before it. Both theorems need `InputsFit`, an
  input buffer that holds what one output multiple takes: `flat_flowgraph.cc:168` makes it twice that.
  `DoneAlwaysFollows` needs `SiblingsEnd`, since a reader that ends marks its input and so ends the
  buffer's other readers (*Siblings*, section 5): a buffer with several reading blocks is written by the
  only one that ends by itself. (In `join` a reader ends by itself and the property holds nevertheless, because its
  sibling feeds it.) `AlwaysDrained` rests on `DrainInv`: while no
  thread has died or been told to stop (`Calm`), a block that has ended had used up its input after its
  writer had ended (`UsedUp`), and an input found done is counted before anything can change it (`SeenWhole`).
  It needs `OnlySourcesEnd`, no second input and no head block, because a block that ends early, or for
  want of its other input, does leave items behind; and `SinkRates`, no sink that takes less
  than an item for each it is asked for, since `block_executor.cc` compares a sink's input with the
  output multiple and not with the forecast. The graph of `aligned` is such a one.
* `TopBlockProofs` — `TypeCorrect`; `LockHolds`: a locked flowgraph has no running thread, for
  any users and any calls. The strengthening is `RestartIsUnlocked` (a thread inside unlock()'s
  restart has undone the last lock, and holds `d_mutex`, so no other can lock), and
  `LocksBoundDepth`, which bounds the nesting depth. `WaitIsNeverEarly` and `OneRunAlways` hold for any
  number of users who lock, unlock and stop, but with one who starts and waits (`OneClient`); the second
  also needs that he waits before he starts again (`WaitFirst`). Neither holds without, and section 5
  says what happens then.
* `PartsProofs` — the parts that stand alone. `RingAlwaysKept` and `Refinement`: for any size the lock-free ring keeps
  its bytes and implements `BoundedFifo` with room for `bufSize - 1`, provided nothing is put while
  `rngBufGetNoDel` runs (`Exclusive`). `IInv` says how far the indices are apart (`Distance`), that
  what a put in progress has copied are already its bytes (`CopiedKept`), that both copies stay in
  what was free or unread when they began (`CopiesFit`), and where the read index stands while it
  is moved and moved back (`PeekKept`). That a count taken from two indices equals the bytes
  unread is the lemma `CountIsUnread`.
  `QueueAlwaysKept`: `QueueKept` for any producers, consumers, messages and limit, if no message is
  inserted that is still queued (`~Reinsert`, section 5). The invariant `QInv` says that there is a
  sequence of different messages along which the list runs from `d_head` to `d_tail`
  (`Listed`), that a message being inserted is in nobody else's hands and not in the list (`Held`),
  and `NoSleeper`: each insertion and removal wakes one sleeper, or there was none. `Queued`, the
  list as the program would walk it, is a recursive function; that it is that sequence is proved by
  induction over the numbers. tlapm cannot use the library's induction theorem, which takes an
  operator; the lemma `Induction` says the same of a set, and follows from the pigeonhole principle:
  if n is missing from a set that has 0 and with each number the next, moving its members up by one
  takes 0 .. n one-to-one into 1 .. n.
  `BytesAlwaysPassedOn`: `BytesPassedOn` for any sizes of items, payloads and buffer. `UInv` says that the
  buffer holds the last bytes that came in (`Buffered`) and that, until the source ends, every byte before the first unsent one
  went out or was cut off, in order and once (`SentUp`).
  `RunsAlwaysGot`: `GotRun` for any lengths, calls and changes, with one caller of get()
  (`OneGetter`) who is woken only by the notification (`~WakesAlone`): get() waits without a condition, and
  section 5 says what happens otherwise. What is in the buffer goes on in the input (`GoesOn`), and who is
  woken asked before the buffer was filled (`Turns`).
  `PrefsAlwaysKept`: `PrefsKept` for any installed files, spellings, texts and environment, wherever a process
  ends, whether or not a save opens its file, and for any parser, given as what it leaves of a text (`Stripped`) and
  the texts it fails on (`Torn`), that leaves numbers as they are (`PrefsAssumption`). Both loops of `_read_files` are recursive functions; one induction
  (`AllTold`) says of either that the last that speaks of an option counts and the others are left as they
  were. `PrInv` adds to the property that an option of which an installed file speaks is in the map
  (`InstalledHeld`): the user's file, which is read last, then has a line about it, so that what was in force
  when it was written is what the next process reads (`NextInForce`).
* `MsgPassingProofs` — for any blocks, ports and subscriptions, across stops and restarts.
  `AlwaysInOrder`: what a subscriber has handled and what is queued for it are the messages
  published to it, each once and in their order. `InOrder` is not inductive, because it does not
  say who still waits for a message that is being published. The invariant `OrderAll` says of each outbox
  that it is the rest of the last publication or of the *done* notices (`OutboxInv`), who holds whose
  mutex (`HoldsHead`), and of each subscriber that it has all messages before the last, and the last
  unless its entry is still in the outbox (`Owed`). A block with several ports fed by one publisher
  gets its entries one by one; that the message loop takes them in another order than they were
  queued does not matter, since each port is a queue of its own.
  `AlwaysDelivered` adds `Awakened`: a thread that will not look at a port again before it sleeps is
  woken by whoever queued something there (`Noticed`). It needs `NoAliases`, no block with an
  alias: section 5 says what happens to one that has.
  `NoticeComesLast`: `DoneComesLast`. The invariant says that an outbox holds either only messages or
  only notices, the latter only when its thread has ended (`Outgoing`), and that a block which
  has been told that its only publisher is done will get nothing more, and leaves each port it has
  passed since empty (`LastWord`); hence "system" must be the first port.
* `OutsideProofs` — parts at the edges.
  `HandlesAlwaysKept`: for any files and calls. The invariant says that the
  file last asked for is in `d_new_fp` until work has taken it over, and in `d_fp` from then on
  (`LastAsked`), and that the two are never the same (`Apart`).
  `RegistryAlwaysSound`, `StashAlwaysLive`: for any blocks, names and
  aliases. A block has its names from the moment it is registered until it is removed, also while
  nobody can hold it (`Known`, `OnlyKnown`), and has no alias before make() has returned it
  (`Unnamed`).
  `FaultsAreCaught`: for any threads and any reuse of their ids. Two
  threads that run differ in their ids (`OwnIds`), so that the entry of a thread between its push
  and the end of its call is its own (`Saved`).
  `BatchesAlwaysSound`: for any number of channels, length of a batch, setups and senders, and without a bound on
  what is lost. What the
  block has of a frame are packets of the first channels in their order (`Collected`), what it
  has of a batch are consecutive frames of which the last is the one before (`FramesFollow`); two
  packets of a frame have nothing or at least a whole frame's packets, lost, between them (`Gaps`); and after a frame without a
  disturbance the block stands where the sender does (`InStep`, `LastWhole`); a batch that has gone out and has not
  been begun anew since is `Overfull` with the next frame (`Full`). That the head of
  a batch is right (`HeadCorrected`, in `FormatsKept`) concerns formulas only and stays with TLC.
  `SentAlwaysUnbroken`: for any finite set of clients of `tcp_server_sink`. The
  invariant says that `d_writing` counts each write until its handler has run and that a client has
  one of them at most (`Counted`), that a write under way is that of the last call of work
  (`InOrderHeard`), and that nothing is under way once the sockets are deleted (`Ended`). `JoinEnds` is about the handlers
  of writes; that the destructor hangs if a client is accepted at the same time is in section 5.
  `DescriptorsAlwaysWhole`: for items and files of any size and any lengths of read and write. The
  residue holds the bytes just before the place in the file (`ResidueBefore`), and before it each pass
  has put out the same number of whole items (`InPasses`). `SourceAlwaysReads`, `FilesAlwaysAsAsked`: for
  any files, calls and seeks. Whose range the shared variables hold depends on whether a file waits to be
  taken over (`Pending`) or is read (`Reading`); what remains, where the file is read and whether a begin
  tag is due follow from how many of its items are out (`Progress`, `CallReads`). They need two
  hypotheses (section 5): every range asked for holds an item (`AllFit`; a file that is too small is closed
  twice), and no file is opened between the two times work has the mutex (`~OpenInGap`).
  `PdusAlwaysThrough`: for any messages, sizes of items and cuts of the stream. The invariant names, for
  each packet in the stream, the message it was made of and the item where it begins (`Packets`):
  the bytes from there are that message's (`InStream`), the tags there are its own, the length tag until
  it is read (`Tagged`), and what has been published are the first of them (`ReadUpTo`).
  `SocketAlwaysServes`, `PdusAlwaysKept`: for any clients and messages. What has arrived at an open client
  and what is being written to it are, in order and without a gap, all the bytes up to the message it was
  handed last (`Exact`), which is the one before the present one while tcp_server_send has yet to come to
  the client (`Awaits`); each client that is there has one place among the connections (`Connected`), and
  what remains of these when the closed ones are dropped is shown by induction along the list. Clients
  may be accepted in the middle of a walk and writes cut anywhere: the promises are for the clients that
  did not suffer it themselves (outside `disturbed`), and the invariant shows that nobody else is touched, because
  dropping a closed connection moves only those behind it and a cut write waits behind writes to the same client.
* `FlatProofs` — `HierBlock` and `FlatFlowgraph`, for any blocks, graph, history, size of buffers and alignment, and any reconfigurations:
  `AlwaysConnected` (`RunsValid`, and each edge has its reader on the buffer its source writes now),
  `ReconfigurationKeeps` (`InFlightKept`) and `AlwaysWired` (`RunsAsWired`). The invariant `FInv` says
  that d_ffg is always a graph with one edge per input (`Graphs`), and that while it runs, or is locked
  and no restart has thrown, each edge has its reader and each block a detail with a port for
  each edge (`Kept`): hence a merge finds a match for exactly the edges that stay. Merging goes block
  after block over a recursive function, `merged`; that each block leaves what those before it have connected, and that
  a failure is kept, is proved by induction over the numbers up to the last block (`LastBlock`: a finite set of
  blocks has one). `Once` adds that no reader is on a buffer without an edge for it (`NoStray`). That needs
  `MaxStarts = 1`: a graph that is stopped, changed and started again may take over the readers of
  an older run (section 5), and then only `AlwaysConnected` holds.
  `AlwaysSorted`: `SortedByParts` for any graph. `Flowgraph` makes the depth-first visits call by call, with
  the calls under way on a path and the colours of the code: since no block turns white again, a visit's
  place in its list of neighbours is given by the first white one. `Reaching` says that the parts made
  so far are closed along edges and that a visited block is under way or has no white neighbour; the
  part being made hangs together (`Whole`). `Sorting` says that each block has one colour, that what a
  block writes to was put out before it (`DownFirst`), and that any numbering which grows along edges
  grows along the path (`Climbs`): a grey block met downstream refutes every such numbering, and when
  none is met the places in the order are one. A visit is two steps (`Counted`), so 2 |blocks| of them
  suffice.
  `AlwaysFlattened`: `Flattened` for any wiring and any calls that change it. What a graph means is stated
  without flattening (`Meaning`): an end leads to another by the edges of the blocks in use, a port
  of a hierarchical block being one end seen from inside and outside. The proof goes in three steps.
  (1) `resolve_endpoint` finds what can be reached inwards: since blocks nest (`NestAssumption`), going
  inwards |Hiers| times suffices (`Reachable`). (2) While flatten_aux makes its calls, depth first, `Holds`
  is kept: the blocks called for are in use, each below the one on the path before it (`Tree`); the stream edges are
  those of the blocks called for, each across the ports at its ends, and nothing that was taken is
  wrong (`Taken`); the message edges lead where the edges of the blocks called for lead, and an end still
  inside a hierarchical block is one not yet called for (`MsgsSo`); and once it has thrown there was a
  reason (`Reason`). That one `replace_endpoint` after another, over a block's own list, passes on
  every edge at a port is proved by induction along the list. (3) Each call is entered and left once, so 2 |Hiers|
  steps suffice, and then the blocks called for are those in use. `StepKeeps` adds that what runs was
  flattened from the wiring there is now: a program can change it only when nothing runs or all is locked.
The assumptions are the named ASSUMEs of the modules: a ring has at least one slot, a preload
is smaller than the ring, a delay is a natural number; the bounds of `TopBlock` are positive; a
batch and a frame are not empty; there is a factory to try; the spellings of options are finitely many and
numbers differ in their texts; an item, and what one write holds, is at least a byte; clients, producers, consumers and messages are finitely many; a probe's
lengths are natural numbers and its samples are counted modulo a positive one;
a hierarchical block is inside one other at most and not inside itself (`NestAssumption`), no block is
connected to itself and no block's own message port to another of its own (`WiringAssumption`, section 5);
no message port is called "system" and none is
subscribed to one output twice; no alias is empty and none is another block's name (`AliasAssumption`; see section 5 for what
happens otherwise).

**Only model-checked:** the standard blocks (`AsReference`), values of pmt (`PmtKept`), formats of files
(`FormatsKept`); and every liveness property (liveness under
fairness is outside what the proof system supports). Parsers and serialisers are recursions over data
written with RECURSIVE operators or folds, which the provers cannot expand (the list of `MsgQueue`, the
visits of `Flowgraph`, the merge of `FlatFlowgraph` and the calls of flatten_aux are recursive functions
over numbers, which they can); they are checked over small inputs.

## 5. Where the code and its documentation disagree

Shown by a run (see "findings" in `PROJECT.json`): `stuckwait`, `repack`. The others were met while
modelling. Those marked *constant* are reproduced by giving that constant the other value; the
property then fails.

### Runtime

* **Missed tags**: with a sample delay of 2 (`DelayOfTwo` in `MCBuffer`) `get_tags_in_range` skips
  tags when start < delay <= end (`buffer.cc:347`, against `buffer.h:320`).
* **Siblings**: a finished reader ends its siblings while their source still runs and other blocks wait for what
  they make
  (`block_detail.cc:101` against the assumption at `block_executor.cc:488`; `DiamondHead` in
  `MCTpbScheduler`).
* **Stale done**: a *done* message left from a stopped run ends a message-only block of the next
  (`tpb_thread_body.cc:93`).
* each reader's constructor resets `d_max_reader_delay` of the buffer (`buffer.cc:304`), while
  `buffer.h:166` calls it the maximum over the readers: attaching a reader with no delay after
  one with a delay lets the pruning drop tags the first still needs;
* alignment is lost when work produces less than it was asked for: `d_unaligned` is settled for
  the size requested (`block_executor.cc:561`), so `AlignmentTracked` holds only for blocks
  that are neither in `Partial` nor in `Idle`;
* an unaligned call may ask for more than `d_unaligned` items (`block_executor.cc:434`) although
  `block.h:241` says that "noutput_items is set to d_unaligned or less";
* start() after stop() without wait() is accepted (`top_block_impl.cc:129` sets IDLE at once),
  although the exception text at line 98 says it is refused; `WaitFirst` in the configurations
  is the discipline under which `OneGeneration` holds;
* a second wait() that wakes late sets a flowgraph IDLE that was started in the meantime
  (`top_block_impl.cc:143`), and the next start() succeeds on it although `top_block.h:68` says
  that it "IS an error": `OneRunAtATime` fails with two users in `Waiters`;
* `notify_blk(alias())` (`basic_block.cc:200`) looks for a block under its alias, but
  `block.cc:62` registers it under the name it was constructed with: a block given an alias is
  not woken by its messages, although `basic_block.h:229` says "arrange for thread to be awakened
  if it's not already". `Awakened` fails with any receiver in `Aliased`;
* the ports of a block are looked at in the order of the addresses of their interned names. If
  "system" is not first, a message and the *done* after it may both arrive between the looks at
  the two, and the block ends with the message queued: `DoneComesLast` is stated for the other
  order.

### Flowgraphs

* a restart that throws has already merged part of the graph; an existing block's detail cannot get
  a new port, and a port that was left unconnected crashes the merge (a null reader);
* a new reader made in a merge gets no sample delay, and the delay of a reader made at the
  start is looked up with the source's port number (`flat_flowgraph.cc:223`);
* `setup_buffer_alignment` moves a new block's reader past its own write index when its history is
  no multiple of the alignment; reset_nitem_counters with items in flight shifts the offsets of their tags;
  an existing buffer is not enlarged for what a new downstream block needs;
* a block that is left out of one run keeps its detail and its readers from the run before, and a later
  reconfiguration that uses it again takes that detail over (`flat_flowgraph.cc:239`, "reusing original
  detail"): a reader on an edge that is gone still counts on its source's buffer, and nobody reads from
  it (constant `MaxStarts` = 2 of `Graph.cfg`: `WiredAsEdges` fails after 11 steps);
* hierarchical blocks: `disconnect_all` leaves the children's parents; msg_disconnect unsubscribes
  only the last inner end, or throws after it has removed the edge; `disconnect(block)` of a plain
  block dereferences a null pointer. A message edge from a block's own input port to its own output
  port is not passed on: flattening leaves an edge to the hierarchical block itself, which has no
  queue. An edge from a block's own port to a port of a block nested in it is not marked as
  hierarchical at that end (`hier_block2_detail.cc:179`), so that it stays in the flat graph if
  nothing is connected inside, although the comment at line 878 says such edges "can be deleted":
  `MessagesFlattened` is about the edges between plain blocks.

### Registry and faults

* "name" and number are joined without a separator (`x`+10 and `x1`+0): the collision makes a
  constructor throw; an empty alias is entered and never removed; subscriptions keep the alias of connect
  time, and the look-up throws after the alias was replaced;
* jump buffers are kept under the low 32 bits of the thread's id; a fault in a message handler
  returns to a frame that is gone; a fault while work holds a mutex leaves it locked, because
  siglongjmp skips destructors; a call that always faults is repeated for ever, because
  error_handle returns 0. A fault in forecast() or in what precedes the call of sigsetjmp (`block_executor.cc:257`)
  jumps into a frame that is gone, or into none (`Fault` in `ErrorHandle` loses the thread there).
* set_block_alias() (`basic_block.cc:65`) enters the new name and then assigns it, without a lock for both: two
  threads that rename one block at once leave a name behind that outlives the block. In `BlockRegistry` the two
  are steps of their own, and one thread at a time renames a block.

### Queues, sockets and files

* `RngLib`: a put during `rngBufGetNoDel` lets it run over the read index (constant
  `Exclusive`). `msg_queue`: inserting a message that is already queued breaks the list (constant
  `Reinsert`).
* `udp_source`: after disconnect() and connect() nothing is received any more, because the stopped
  io_service is not reset; the end of stream discards bytes not yet sent; a datagram that does not
  fit, or would fill the buffer exactly, is dropped whole although the comment says "drop the last
  bit". `beklUdpSourece` copies nothing and always returns 1.
* `tcp_server_sink`: its destructor joins the io thread while it holds the mutex, and waits for ever if that thread
  has just accepted a client and waits for the mutex (`tcp_server_sink_impl.cc:90`, `:131`); `JoinEnds` speaks of
  the handlers of writes. A client that stops reading blocks work for ever.
* `socket_pdu`: an accept during the walk over the connections, which drops the closed ones, makes the walk pass
  over the connection behind a dropped one, or read one that is gone, which ends the process
  (`socket_pdu_impl.cc:207`, `:219`); a write that the socket takes only a part of is continued
  behind the next PDU's (`tcp_connection.cc:71`). The model has both, in `disturbed` the clients to which they happened,
  and `StreamUnbroken` and `StreamComplete` are about the others. A PDU longer than the MTU is split into several; it stays deaf after stop(); the
  handlers keep a raw `this` of the connection.
* `file_source`: open() between do_update and the read gives work the range of the new file with
  the handle of the old one (constant `OpenInGap`); seek() takes no lock, does not update
  `d_items_remaining` and counts the start twice from the end; a file that is too small is
  closed twice. `file_descriptor_source`: a repeated file that is shorter than an item spins in work.
* `file_meta_sink`: a tag that is no time splits a segment without updating rx_time, though
  `file_meta_sink.h` calls it "time stamp of first sample in segment"; a reopened file gets no
  header, and the header of the file before is not completed; detached headers are not rewound on repeat.
* `wavfile_sink`: set_bits_per_sample between open() and the first work makes header and samples
  differ, though the header file says "This will not affect the WAV file currently opened"; a write error
  makes work lock `d_mutex` a second time; a file that was opened and replaced before any work is
  never completed; missing channels of an 8-bit file are written as full negative scale.
* `tagged_file_sink`: the burst of an rx_time tag that is not at offset 0 gets the wrong name; a
  burst before a time tag in the same call wraps the unsigned difference.
* `vmcircbuf`: the second half is mapped in a gap other code may take: POSIX shared memory does not
  check for it (`vmcircbuf_mmap_shm_open.cc:134`), is then not mirrored, and its destructor unmaps
  whatever is behind the first copy (`Misplaced`). `QgnuRadio.pro` defines `HAVE_SYS_SHM_H` and no `HAVE_MMAP`, so that its build has SysV
  alone; the CMake configuration has the others. Several failures leave a mapping, a name or a
  descriptor behind: `MayStay` lists them by call (a failing unlink or munmap of the temporary file; ftruncate,
  mmap, munmap and shm_unlink of the POSIX object; the fourth attach of SysV, which leaves a guard page).
* the choice of a kind: get() returns 0, which is no error, when there is no file, and the name then
  compared is uninitialised (`Garbage`, here a text that names no kind); the kind a file names is used
  without a test, also one that does not work on this machine; `test_a_bunch` returns without deleting the
  buffers it made when a later one cannot be made (`vmcircbuf.cc:188`; `NothingLeft` counts a buffer whose owner
  forgets it as one that is still there); a directory that cannot be created is an exception on the way to the
  first buffer (`vmcircbuf_prefs.cc:63`); the comparison is of a prefix.
* `prefs`: save() reports nothing when the user's file cannot be opened (`prefs.cc:157`), and a process that ends
  inside it leaves an empty file; the parser drops what follows a '#' and outer blanks of what was saved, and a
  text of two lines makes it refuse the whole file, the user's other settings included. `SavedInForce` says
  what is then left. Two processes overwrite each other; a save freezes the system's values in the user's file; nothing locks the map.
* the probe: two callers of get(), or a wake-up without a signal, return what was not offered
  (`Getters` with two members, `WakesAlone`).
* `pdu_to_tagged_stream` drops bytes that make no whole item, and an empty PDU; it replaces an
  entry of the metadata that has the length tag's key.

### Blocks, values, antenna

* `vector_insert` puts its own trailing data out only when more input comes; `moving_average` of
  length 1 reads before its input; set_length of several blocks changes their history without moving
  the reader; `plateau_detector` and `peak_detector` depend on how calls cut the stream;
  `keep_one_in_n` multiplies tag offsets by a float 1/n (`keep_one_in_n_impl.cc:65`, `:99`), which for some n (41 is the
  first) puts the tag of a copied item on the output item before it, and beyond 2^24 on any near it: the model
  computes what float does; `vector_source` counts tag offsets in items and its
  position in scalars; `null_source` does not write its output.
* `delay` told to grow zeroes the start of its output and then copies the input over the zeros (`delay_impl.cc:124`),
  so that the padding is the last items of that call, with whatever was in the buffer, against "Positive delays
  insert zero items" (`delay.h`); only a call with no more room than padding puts out zeros. `DelayFollows` is
  about the input items, each of which comes out once, in order and at a distance that was asked for, and says nothing of
  the padding;
* `copy` and `selector` consume while they are switched off and put nothing out, so tags, which the
  executor moves by offset, no longer stand on their items; `bin_statistics` with both delays 0 never leaves its state
  machine's loop; `peak_detector2` leaves `d_peak_ind` uninitialised if no item of the window is
  above the smallest float; `plateau_detector` makes no progress when a call offers less than twice
  its maximum.
* `annotator_raw::add_tag` throws for a tag in the *future* ("item added too far in the past"), after it
  has queued it; a tag in the past is accepted, stays first in the queue and keeps those behind it
  from being placed (`MayChange` offers none in the past). `tag_debug` keeps the tags of the last
  call and the last input only.
* `vector_map`'s work and `multiply_matrix`'s work read what their setters write without the setters'
  mutex, or with none: here a change falls between two calls, as it does when it comes as a message.
* `check_lfsr_32k_s`: an item that breaks a beginning match is not looked at again as a beginning, so a
  sequence that starts right after a false start is missed once.
* `pmt`: a vector, uniform vector or tuple that is cut short is read without an exception, against "Throws
  exception on malformed input"; an empty tuple can be written and not read; symbols longer than 1024
  cannot be read; `equal` of uniform vectors of two kinds compares bytes.
* the antenna block never resets `ndataNum` after a batch: the next consecutive frame is
  copied past the end of `sumCorr` and no batch goes out until a frame is missing (`beklAntennaPrehandle_impl.cc:548`;
  `beyond` and `Overfull` in the model); channels of two frames mix over the loss of at least as many packets as there are
  channels, since the channels' frame numbers are not compared; after a cut frame the next whole one is lost; missing files are read through null handles or
  leave values uninitialised; angles and hours are not reduced.

Two more that no property speaks of: for a block called file_sink the executor calls
space_available() without the mutex (`block_executor.cc:332`), and max_noutput_items below
the output multiple rounds to 0, so that a source is blocked on output for ever (`:281`).

## 6. Not modelled

* **Steps left out of what is modelled**: a restart's `clear_tags()` (`flat_flowgraph.cc:335`), which drops the tags of
  the items in flight: `FlatFlowgraph` has items only, and `InFlightKept` says nothing of tags. The message edges of a flat
  flowgraph: `HierBlock` has them, with the blocks that are used for their sake
  (`flowgraph.cc:182`), `FlatFlowgraph` and `Valid` do not. A seek() between two reads of one call of
  `file_source`'s work (`file_source_impl.cc:257`): a call reads at once, and of a file that was moved `RangesRead` only counts the
  items, which a seek() does not change. In `prefs`, a save that writes a
  part only (a full disk), and a text of two lines the second of which reads as an option or a section. In
  `vmcircbuf`, a failing munmap or shmdt of a destructor, and a read of the preferences that fails after the open.
* **Code of the operating system and libraries**: sockets, boost's threads. Their promises appear
  as guards (a mutex, a condition, an interruption point) and as calls that may fail.
* **controlport**: not part of the build (`GR_CTRLPORT` is not defined) and generated around
  Thrift; only the waiting of `rpcbufferedget.h` is modelled. The largest of its files,
  `rpcregisterhelpers.h`, is a list of constructors.
* **Generated tables and numeric approximations** (`sine_table.h`, `math/`, random numbers): floating
  point, no state.
* **Floating point**: log, rms, rotator, vco, conversions by volk, and the float and complex versions of the
  arithmetic blocks, which only call volk: what could go wrong in them is the accuracy. Their
  integer versions are modelled. `peak_detector`, `plateau_detector` and `stretch` choose by
  floating-point averages of what a call happens to offer, so there is no whole-stream reference for them.
* **Blocks with a clock** (throttle, probe_rate) and blocks with nothing to them (nop, null_sink,
  null_source); `circular_file`, which nothing uses.
* **pmt's accessors of uniform vectors, printing, the unused pool**: sixteen copies of one accessor
  (`pmt_unv.cc` is generated from one template).
* **Further blocks** that neither keep state from call to call nor cross threads, or whose handlers
  are those of a block that is modelled: tuntap_pdu, the client side of socket_pdu, message_strobe, the
  PDU filters.
* **Wording**: logging, io signatures' texts, performance counters, thread names, priorities, affinity.
* **SWIG, GRC, Qt user interface, applications, FEC, filter and digital trees** where present:
  generated code, examples or signal processing.

## 7. Plan

1. The runtime's ring, executor, threads, top block and messages; proofs of the ring and of the
   lock. *(done)*
2. The graphs: validation, nesting, allocation and merging. *(done)*
3. The queues outside the runtime, lock-free and locked, with refinement and proof. *(done)*
4. The standard blocks against a reference of whole streams. *(done for those that keep a position, are
   switched, watch the stream or compute on integers)*
5. Files, sockets, values, names, memory, preferences, faults. *(done; proofs of the file handles, the
   registry and the jump buffers)*
6. Proofs of the runtime for any graph: the ring as a broadcast queue and its tags, calls that fit and
   wake-ups in the scheduler, runs that do not overlap, messages in order and thread awake for any
   subscriptions. *(done)*
7. Proofs of the edges: antenna batches under any loss, the memory of a buffer and the choice of its
   kind, the clients of tcp_server_sink, the file and descriptor sources. *(done)*
8. Proofs of the locked queue, udp_source and the probe, with induction over the numbers, and of how the
   end of a stream goes through the threads; of the preferences. *(done)*
9. Proofs of the flat flowgraph's wiring, merging, order and parts, and of what hierarchical blocks flatten to, for any
   graph. *(done)*
10. Proofs of the packet blocks and of the connections of `socket_pdu`. *(done)*
11. Next: values of pmt and formats of files, over recursive functions in place of RECURSIVE operators.
