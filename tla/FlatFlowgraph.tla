--------------------------- MODULE FlatFlowgraph ----------------------------
(***************************************************************************)
(* flat_flowgraph.cc: how a flowgraph is wired when it starts, and how a    *)
(* changed one takes over details, buffers and readers of the one before    *)
(* it when it restarts (top_block_impl.cc start, restart).  The threads are *)
(* here only the items they write and read in between.  Message edges are    *)
(* HierBlock's: a block with no other has no port and is alone in its part.  *)
(***************************************************************************)
EXTENDS Flowgraph

CONSTANTS
    Blocks,       \* all blocks
    Edges,        \* the connections the program makes and breaks
    history,      \* per block
    BufSize,      \* slots of a buffer
    Alignment,    \* volk_get_alignment(), in items
    MaxWrites, MaxRestarts, MaxStarts   \* bounds

Ports == 0 .. 1

ASSUME FlatAssumption ==
    /\ Blocks \subseteq Nat /\ IsFiniteSet(Blocks) /\ history \in [Blocks -> Nat \ {0}]
    /\ Edges \subseteq {Edge(i[1], i[2], j[1], j[2]) : i, j \in Blocks \X Ports}
    /\ BufSize \in Nat \ {0} /\ Alignment \in Nat \ {0}

VARIABLES
    edges,     \* the connections of the top block
    state,     \* "idle", "running", "locked", or "halted": RUNNING without threads
    ffg,       \* d_ffg: its edges and its blocks
    detail,    \* per block: inputs and outputs of its block_detail; none of both: no detail
    reader,    \* per input: the buffer, the indices and the delay, or NoReader
    buffer,    \* per output: which of the block's details it is of, and its indices
    failed,    \* what the last call met: "no", "threw" or "crashed"
    threw,     \* history: some restart has thrown
    writes, restarts, starts   \* counts, for the bounds

fvars == <<edges, state, ffg, detail, reader, buffer, failed, threw, writes, restarts, starts>>

Inputs == Blocks \X Ports

NoReader == [on |-> <<>>, read |-> 0, offset |-> 0, due |-> 0]
NoDetail == [nin |-> -1, nout |-> -1]

index_add(a, n) == (a + n) % BufSize
index_sub(a, n) == (a - n) % BufSize

\* The id of the buffer an output has now: a new detail has new buffers.
BufferOf(bufs, b, p) == <<b, p, bufs[<<b, p>>].age>>

NewBuffer(age) == [age |-> age, write |-> 0, offset |-> 0]

Available(bufs, r) == index_sub(bufs[<<r.on[1], r.on[2]>>].write, r.read)

\* buffer_add_reader, with the history as zeros before the first item.
AddReader(bufs, b, p, n) ==
    [on |-> BufferOf(bufs, b, p), read |-> index_sub(bufs[<<b, p>>].write, n), offset |-> 0,
     due |-> n]

FInit ==
    /\ edges = {}
    /\ state = "idle"
    /\ ffg = [edges |-> {}, blocks |-> {}]
    /\ detail = [b \in Blocks |-> NoDetail]
    /\ reader = [i \in Inputs |-> NoReader]
    /\ buffer = [o \in Inputs |-> NewBuffer(0)]
    /\ failed = "no" /\ threw = FALSE
    /\ writes = 0 /\ restarts = 0 /\ starts = 0

-----------------------------------------------------------------------------
(* The wiring is a record w of detail, reader, buffer and failed, changed    *)
(* call by call; nothing more happens to it once a call has failed.          *)

Wires(d, r, b, f) == [detail |-> d, reader |-> r, buffer |-> b, failed |-> f]

Fail(w, how) == Wires(w.detail, w.reader, w.buffer, how)

\* allocate_block_detail of each block of S: as many ports as edges, and new
\* output buffers.
allocate_block_detail(E, S, w) ==
    Wires([b \in Blocks |-> IF b \in S THEN [nin |-> Cardinality(InputsUsed(E, b)),
                                            nout |-> Cardinality(OutputsUsed(E, b))]
                            ELSE w.detail[b]],
          [i \in Inputs |-> IF i[1] \in S THEN NoReader ELSE w.reader[i]],
          [o \in Inputs |-> IF o[1] \in S THEN NewBuffer(w.buffer[o].age + 1) ELSE w.buffer[o]],
          w.failed)

\* What makes detail->output() and detail->set_input() throw.
NoPort(w, e) ==
    e.src.port >= w.detail[e.src.block].nout \/ e.dst.port >= w.detail[e.dst.block].nin

Before(d, e) ==
    \/ d.dst.block < e.dst.block
    \/ d.dst.block = e.dst.block /\ d.dst.port < e.dst.port

EdgeInto(E, i) == CHOOSE e \in E : e.dst = Endpoint(i[1], i[2])

NewReader(w, e) ==
    AddReader(w.buffer, e.src.block, e.src.port, history[e.dst.block] - 1)

\* set_input for the edges of S, in the order of their inputs until one throws.
set_inputs(S, w) ==
    LET bad  == {e \in S : NoPort(w, e)}
        done == {e \in S : \A d \in bad : Before(e, d)}
    IN  IF w.failed # "no" THEN w
        ELSE Wires(w.detail,
                   [i \in Inputs |-> IF \E e \in done : e.dst = Endpoint(i[1], i[2])
                                     THEN NewReader(w, EdgeInto(done, i)) ELSE w.reader[i]],
                   w.buffer, IF bad = {} THEN "no" ELSE "threw")

calc_upstream_edges(E, b) == {e \in E : e.dst.block = b}

connect_block_inputs(E, b, w) == set_inputs(calc_upstream_edges(E, b), w)

\* setup_connections: every block gets its detail, and then its inputs.
setup_connections(E, w) == set_inputs(E, allocate_block_detail(E, calc_used_blocks(E, {}), w))

-----------------------------------------------------------------------------
Missing(w, b) == \E i \in 0 .. w.detail[b].nin - 1 : w.reader[<<b, i>>] = NoReader

\* setup_buffer_alignment: the pointers of a new block move on to an aligned item.
Skip(index) == (Alignment - (index % Alignment)) % Alignment

setup_buffer_alignment(b, w) ==
    IF w.failed # "no" THEN w
    ELSE IF Missing(w, b) THEN Fail(w, "crashed")
    ELSE Wires(w.detail,
            [i \in Inputs |-> LET r == w.reader[i] IN
                IF i[1] # b \/ r = NoReader THEN r
                ELSE [r EXCEPT !.read = index_add(@, Skip(@)), !.offset = @ + Skip(r.read)]],
            [o \in Inputs |-> LET u == w.buffer[o] IN
                IF o[1] # b \/ o[2] >= w.detail[b].nout THEN u
                ELSE [u EXCEPT !.write = index_add(@, Skip(@)), !.offset = @ + Skip(u.write)]],
            w.failed)

\* Mutant: a reader is reused for the input it is at, whatever it reads.
Matches_any(w, e) == w.reader[<<e.dst.block, e.dst.port>>] # NoReader

\* Whether an input has a reader already, of the buffer its edge comes from.
Matches(w, e) ==
    /\ e.src.port < w.detail[e.src.block].nout
    /\ w.reader[<<e.dst.block, e.dst.port>>].on = BufferOf(w.buffer, e.src.block, e.src.port)

\* Mutant: every input gets a new reader.
Rewire_all(E, b, w) == connect_block_inputs(E, b, w)

\* The inputs of a block of the old graph: readers that match are kept.
Rewire(E, b, w) == set_inputs({e \in calc_upstream_edges(E, b) : ~Matches(w, e)}, w)

\* reset_nitem_counters of a detail.
reset_nitem_counters(b, w) ==
    IF w.failed # "no" THEN w
    ELSE IF Missing(w, b) THEN Fail(w, "crashed")
    ELSE Wires(w.detail,
               [i \in Inputs |-> IF i[1] = b THEN [w.reader[i] EXCEPT !.offset = 0] ELSE w.reader[i]],
               [o \in Inputs |-> IF o[1] = b THEN [w.buffer[o] EXCEPT !.offset = 0] ELSE w.buffer[o]],
               w.failed)

\* The readers of edges that go away are dropped.
ClearOldEdges(E, old, w) ==
    Wires(w.detail,
          [i \in Inputs |-> IF \E e \in old.edges \ E : e.dst = Endpoint(i[1], i[2])
                            THEN NoReader ELSE w.reader[i]],
          w.buffer, w.failed)

\* clear_tags of its outputs, at the end, is left out with the tags.
merge_block(E, old, b, w) ==
    reset_nitem_counters(b, IF b \in old.blocks THEN Rewire(E, b, w)
                            ELSE setup_buffer_alignment(b, connect_block_inputs(E, b, w)))

\* merge_connections: details for the blocks without, then block after block.
merge_connections(E, old, w) ==
    LET blocks == calc_used_blocks(E, {})
        bare == {b \in blocks : w.detail[b] = NoDetail}
        details == ClearOldEdges(E, old, allocate_block_detail(E, bare, w))
        merged[b \in 0 .. Max(Blocks \cup {0})] ==
            LET v == IF b = 0 THEN details ELSE merged[b - 1]
            IN  IF b \in blocks THEN merge_block(E, old, b, v) ELSE v
    IN  merged[Max(Blocks \cup {0})]

-----------------------------------------------------------------------------
Alive == failed # "crashed"

\* connect and disconnect, between runs or between lock() and unlock().
Edit ==
    /\ Alive
    /\ state \in {"idle", "locked"}
    /\ \E e \in Edges :
          \/ e \notin edges /\ Connectable(edges, e) /\ edges' = edges \cup {e}
          \/ e \in edges /\ edges' = edges \ {e}
    /\ UNCHANGED <<state, ffg, detail, reader, buffer, failed, threw, writes, restarts, starts>>

Wiring == Wires(detail, reader, buffer, "no")

Wire(w) == detail' = w.detail /\ reader' = w.reader /\ buffer' = w.buffer

HasLoop(E) == topological_sort(E, calc_used_blocks(E, {})).loop

\* start(): validate, setup_connections, make_scheduler.
Start ==
    /\ Alive
    /\ state = "idle"
    /\ starts < MaxStarts
    /\ starts' = starts + 1
    /\ IF Valid(edges)
       THEN /\ Wire(setup_connections(edges, Wiring))
            /\ ffg' = [edges |-> edges, blocks |-> calc_used_blocks(edges, {})]
            /\ failed' = IF HasLoop(edges) THEN "threw" ELSE "no"
            /\ state' = IF HasLoop(edges) THEN "idle" ELSE "running"
       ELSE /\ failed' = "threw"
            /\ ffg' = [edges |-> edges, blocks |-> calc_used_blocks(edges, {})]
            /\ UNCHANGED <<detail, reader, buffer, state>>
    /\ threw' = (threw \/ failed' # "no")
    /\ UNCHANGED <<edges, writes, restarts>>

\* stop() and wait().
Stop ==
    /\ Alive
    /\ state \in {"running", "halted"}
    /\ state' = "idle"
    /\ UNCHANGED <<edges, ffg, detail, reader, buffer, failed, threw, writes, restarts, starts>>

Lock ==
    /\ Alive
    /\ state \in {"running", "halted"}
    /\ restarts < MaxRestarts
    /\ state' = "locked"
    /\ UNCHANGED <<edges, ffg, detail, reader, buffer, failed, threw, writes, restarts, starts>>

\* unlock(): restart() validates and merges; d_ffg is replaced after that.
Unlock ==
    /\ Alive
    /\ state = "locked"
    /\ restarts' = restarts + 1
    /\ IF Valid(edges)
       THEN LET w == merge_connections(edges, ffg, Wiring)
            IN  /\ Wire(w)
                /\ ffg' = IF w.failed = "no"
                          THEN [edges |-> edges, blocks |-> calc_used_blocks(edges, {})] ELSE ffg
                /\ failed' = IF w.failed = "no" /\ HasLoop(edges) THEN "threw" ELSE w.failed
       ELSE failed' = "threw" /\ UNCHANGED <<ffg, detail, reader, buffer>>
    /\ state' = IF failed' = "no" THEN "running" ELSE "halted"
    /\ threw' = (threw \/ failed' # "no")
    /\ UNCHANGED <<edges, writes, starts>>

\* The readers an output's buffer has: it is full for the slowest of them.
ReadersOf(b, p) == {i \in Inputs : reader[i].on = BufferOf(buffer, b, p)}

\* A block produces an item on one of its outputs.
Write(b, p) ==
    /\ state = "running"
    /\ b \in ffg.blocks /\ p < detail[b].nout
    /\ writes < MaxWrites
    /\ \A i \in ReadersOf(b, p) : Available(buffer, reader[i]) < BufSize - 1
    /\ buffer' = [buffer EXCEPT ![<<b, p>>].write = index_add(@, 1), ![<<b, p>>].offset = @ + 1]
    /\ reader' = [i \in Inputs |-> IF i \in ReadersOf(b, p) THEN [reader[i] EXCEPT !.due = @ + 1]
                                   ELSE reader[i]]
    /\ writes' = writes + 1
    /\ UNCHANGED <<edges, state, ffg, detail, failed, threw, restarts, starts>>

\* A block consumes an item of one of its inputs, the history left.
Read(i) ==
    /\ state = "running"
    /\ i[1] \in ffg.blocks /\ reader[i] # NoReader
    /\ reader[i].on = BufferOf(buffer, reader[i].on[1], reader[i].on[2])
    /\ Available(buffer, reader[i]) >= history[i[1]]
    /\ reader' = [reader EXCEPT ![i].read = index_add(@, 1), ![i].offset = @ + 1, ![i].due = @ - 1]
    /\ UNCHANGED <<edges, state, ffg, detail, buffer, failed, threw, writes, restarts, starts>>

FNext ==
    \/ Edit \/ Start \/ Stop \/ Lock \/ Unlock
    \/ \E b \in Blocks, p \in Ports : Write(b, p)
    \/ \E i \in Inputs : Read(i)

FSpec == FInit /\ [][FNext]_fvars

-----------------------------------------------------------------------------
(* What runs is a graph that can run: every port of a block in use is, in    *)
(* numbers the block agrees to, and each input has one source.               *)
RunsValid ==
    state = "running" =>
        /\ \A d, e \in ffg.edges : d.dst = e.dst => d = e
        /\ \A b \in ffg.blocks :
              /\ InputsUsed(ffg.edges, b) = 0 .. Cardinality(InputsUsed(ffg.edges, b)) - 1
              /\ Cardinality(InputsUsed(ffg.edges, b)) >= input_signature[b].min
              /\ OutputsUsed(ffg.edges, b) = 0 .. Cardinality(OutputsUsed(ffg.edges, b)) - 1
              /\ check_topology(ffg.edges, b)

(* The order the threads are made in, and that of each part, has every block *)
(* once, after all those it reads from; a cycle has no such order and is     *)
(* reported.                                                                 *)
SortedDownstream ==
    \A blocks \in {calc_used_blocks(edges, {})} \cup partition(edges, calc_used_blocks(edges, {})) :
        LET sort == topological_sort(edges, blocks)
            at(b) == CHOOSE k \in DOMAIN sort.order : sort.order[k] = b
            within == {e \in edges : e.src.block \in blocks}
            Acyclic == \E f \in [blocks -> 1 .. Cardinality(blocks)] :
                           \A e \in within : f[e.src.block] < f[e.dst.block]
        IN  /\ sort.loop <=> ~Acyclic
            /\ ~sort.loop => /\ IsInjective(sort.order)
                             /\ ToSet(sort.order) = blocks
                             /\ \A e \in within : at(e.src.block) < at(e.dst.block)

(* The parts the graph falls into are disjoint, no edge joins two of them,   *)
(* and none could be cut in two without cutting an edge.                     *)
PartsApart ==
    LET parts == partition(edges, calc_used_blocks(edges, {}))
    IN  /\ UNION parts = calc_used_blocks(edges, {})
        /\ \A p, q \in parts : p # q => p \cap q = {}
        /\ \A e \in edges : \E p \in parts : {e.src.block, e.dst.block} \subseteq p
        /\ \A p \in parts : \A cut \in (SUBSET p) \ {{}, p} :
              \E e \in edges : Cardinality({e.src.block, e.dst.block} \cap cut) = 1

(* However often it was changed, a running graph is wired as its edges say:  *)
(* each edge has a reader on the buffer its source writes now, and no such   *)
(* buffer has a reader beyond those, which nobody would ever read from.      *)
WiredAsEdges ==
    state = "running" =>
        /\ \A e \in ffg.edges :
              reader[<<e.dst.block, e.dst.port>>].on = BufferOf(buffer, e.src.block, e.src.port)
        /\ threw \/ \A b \in ffg.blocks, p \in Ports : \A i \in ReadersOf(b, p) :
              Edge(b, p, i[1], i[2]) \in ffg.edges

(* A reconfiguration keeps what is in flight: an edge that is in the old     *)
(* graph and in the new one goes on at the same item (unless a restart has   *)
(* thrown, which may have cleared it).  The tags of those items are lost:    *)
(* merge_connections ends with clear_tags for every block of the new graph.  *)
InFlightKept ==
    [][state = "locked" /\ state' = "running" /\ ~threw =>
         \A e \in ffg.edges \cap ffg'.edges :
            LET i == <<e.dst.block, e.dst.port>>
            IN  reader[i] # NoReader /\ reader'[i].read = reader[i].read
                    /\ reader'[i].on = reader[i].on /\ reader'[i].due = reader[i].due]_fvars

(* Kept out of the runs: a reader has before it just the items written for   *)
(* it and not yet read, and counts them as its writer does.                  *)
NoStaleItems ==
    state = "running" =>
        \A e \in ffg.edges : LET r == reader[<<e.dst.block, e.dst.port>>]
                             IN  Available(buffer, r) = r.due
CountedAlike ==
    state = "running" =>
        \A e \in ffg.edges :
            LET r == reader[<<e.dst.block, e.dst.port>>]
                w == buffer[<<e.src.block, e.src.port>>]
            IN  w.offset - r.offset = r.due - (history[e.dst.block] - 1)

(* flowgraph's partition and topological_sort: the threads are made in an    *)
(* order that follows the streams, part by part.                             *)
SortedByParts == PartsApart /\ SortedDownstream

(* flat_flowgraph's validate, setup_connections and merge_connections: what  *)
(* runs can run, and each input reads from the buffer of its own source.     *)
RunsAsWired == RunsValid /\ WiredAsEdges
=============================================================================
