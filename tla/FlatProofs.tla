----------------------------- MODULE FlatProofs ------------------------------
(* Which buffer each input reads from, for every graph: what a flat flow     *)
(* graph runs is wired as its edges say, however often it was reconfigured,  *)
(* and what is in flight on an edge that stays is kept.  Then the order the  *)
(* threads are made in and the parts a graph falls into.  Last, what blocks  *)
(* nested to any depth flatten to.                                           *)
EXTENDS FlatFlowgraph, HierBlock, FiniteSetTheorems, SequenceTheorems, TLAPS

EdgeType == {Edge(i[1], i[2], j[1], j[2]) : i, j \in Blocks \X Ports}

\* Edges of which no two end at one input.
Graph(E) == E \subseteq EdgeType /\ \A d, e \in E : d.dst = e.dst => d = e

BufferIds  == {<<>>} \cup (Blocks \X Ports \X Nat)
ReaderType == [on : BufferIds, read : Int, offset : Int, due : Int]
DetailType == [nin : Int, nout : Int]
BufferType == [age : Nat, write : Int, offset : Int]
WireType   == [detail : [Blocks -> DetailType], reader : [Inputs -> ReaderType],
               buffer : [Inputs -> BufferType], failed : {"no", "threw", "crashed"}]

\* The input an edge ends at, and its output's buffer.
At(e) == <<e.dst.block, e.dst.port>>
From(bufs, e) == BufferOf(bufs, e.src.block, e.src.port)

-----------------------------------------------------------------------------
(* Edges, ports and buffers.                                                 *)

LEMMA BlocksAreNumbers == \A b \in Blocks : b \in Nat
<1>1. Blocks \subseteq Nat
    BY FlatAssumption
<1> QED
    BY <1>1

LEMMA EdgeParts ==
    ASSUME NEW e \in EdgeType
    PROVE  /\ e.src.block \in Blocks /\ e.src.port \in Ports
           /\ e.dst.block \in Blocks /\ e.dst.port \in Ports
           /\ e = Edge(e.src.block, e.src.port, e.dst.block, e.dst.port)
           /\ e.src \in [block : Blocks, port : Ports]
           /\ e.dst = Endpoint(e.dst.block, e.dst.port)
           /\ At(e) \in Inputs /\ <<e.src.block, e.src.port>> \in Inputs
    BY DEF EdgeType, Edge, Endpoint, At, Inputs

\* An input is where an edge ends exactly when the edge names it.
LEMMA EndsAt ==
    ASSUME NEW e \in EdgeType, NEW i \in Inputs
    PROVE  e.dst = Endpoint(i[1], i[2]) <=> i = At(e)
<1>1. e.dst = Endpoint(e.dst.block, e.dst.port) /\ e.dst.block \in Blocks /\ e.dst.port \in Ports
    BY EdgeParts
<1>2. i = <<i[1], i[2]>> /\ i[1] \in Blocks /\ i[2] \in Ports
    BY DEF Inputs
<1>3. ASSUME e.dst = Endpoint(i[1], i[2]) PROVE i = At(e)
    BY <1>2, <1>3 DEF Endpoint, At
<1>4. ASSUME i = At(e) PROVE e.dst = Endpoint(i[1], i[2])
    BY <1>1, <1>4 DEF At
<1> QED
    BY <1>3, <1>4

LEMMA SameInput ==
    ASSUME NEW d \in EdgeType, NEW e \in EdgeType
    PROVE  At(d) = At(e) <=> d.dst = e.dst
<1>1. At(d) \in Inputs /\ At(e) \in Inputs
    BY EdgeParts
<1>2. d.dst = Endpoint(At(d)[1], At(d)[2]) /\ e.dst = Endpoint(At(e)[1], At(e)[2])
    BY <1>1, EndsAt
<1>3. ASSUME d.dst = e.dst PROVE At(d) = At(e)
    BY <1>3 DEF At
<1> QED
    BY <1>2, <1>3

LEMMA BufferIdType ==
    ASSUME NEW bufs \in [Inputs -> BufferType], NEW o \in Inputs
    PROVE  /\ BufferOf(bufs, o[1], o[2]) \in BufferIds
           /\ BufferOf(bufs, o[1], o[2]) # <<>>
           /\ BufferOf(bufs, o[1], o[2])[1] = o[1] /\ BufferOf(bufs, o[1], o[2])[2] = o[2]
<1>1. o[1] \in Blocks /\ o[2] \in Ports /\ <<o[1], o[2]>> = o /\ bufs[o].age \in Nat
    BY DEF Inputs, BufferType
<1> QED
    BY <1>1 DEF BufferOf, BufferIds

LEMMA FromType ==
    ASSUME NEW bufs \in [Inputs -> BufferType], NEW e \in EdgeType
    PROVE  /\ From(bufs, e) \in BufferIds /\ From(bufs, e) # <<>>
           /\ From(bufs, e)[1] = e.src.block /\ From(bufs, e)[2] = e.src.port
    BY EdgeParts, BufferIdType DEF From

LEMMA Indices ==
    ASSUME NEW a \in Int, NEW n \in Int
    PROVE  index_add(a, n) \in Int /\ index_sub(a, n) \in Int /\ Skip(a) \in Int
    BY FlatAssumption DEF index_add, index_sub, Skip

LEMMA UsedPorts ==
    ASSUME NEW E, Graph(E), NEW b
    PROVE  /\ Cardinality(InputsUsed(E, b)) \in Nat /\ Cardinality(OutputsUsed(E, b)) \in Nat
           /\ IsFiniteSet(InputsUsed(E, b)) /\ IsFiniteSet(OutputsUsed(E, b))
<1>1. InputsUsed(E, b) \subseteq 0 .. 1 /\ OutputsUsed(E, b) \subseteq 0 .. 1
    <2>1. \A e \in E : e.src.port \in Ports /\ e.dst.port \in Ports
        BY EdgeParts DEF Graph
    <2> QED
        BY <2>1 DEF InputsUsed, OutputsUsed, Ports
<1>2. IsFiniteSet(0 .. 1)
    <2>1. 0 \in Int /\ 1 \in Int
        OBVIOUS
    <2> QED
        BY <2>1, FS_Interval
<1>3. IsFiniteSet(InputsUsed(E, b)) /\ IsFiniteSet(OutputsUsed(E, b))
    BY <1>1, <1>2, FS_Subset
<1> QED
    BY <1>3, FS_CardinalityType

LEMMA StreamEnds ==
    ASSUME NEW E
    PROVE  calc_used_blocks(E, {}) = {e.src.block : e \in E} \cup {e.dst.block : e \in E}
<1> DEFINE M == {{m.src.block, m.dst.block} : m \in {}}
           S == {e.src.block : e \in E}
           D == {e.dst.block : e \in E}
<1>1. calc_used_blocks(E, {}) = (UNION M) \cup S \cup D
    BY Zenon DEF calc_used_blocks
<1>2. M = {}
    BY Zenon
<1> HIDE DEF M, S, D
<1>3. calc_used_blocks(E, {}) = S \cup D
    BY <1>1, <1>2
<1> QED
    BY <1>3, Zenon DEF S, D

LEMMA UsedBlocks ==
    ASSUME NEW E, Graph(E)
    PROVE  /\ calc_used_blocks(E, {}) \subseteq Blocks
           /\ \A e \in E : e.src.block \in calc_used_blocks(E, {}) /\ e.dst.block \in calc_used_blocks(E, {})
<1>1. \A e \in E : e.src.block \in Blocks /\ e.dst.block \in Blocks
    BY EdgeParts DEF Graph
<1> QED
    BY <1>1, StreamEnds

-----------------------------------------------------------------------------
(* What the calls do to the wiring.                                          *)

LEMMA WiresType ==
    ASSUME NEW d \in [Blocks -> DetailType], NEW r \in [Inputs -> ReaderType],
           NEW b \in [Inputs -> BufferType], NEW f \in {"no", "threw", "crashed"}
    PROVE  /\ Wires(d, r, b, f) \in WireType
           /\ Wires(d, r, b, f).detail = d /\ Wires(d, r, b, f).reader = r
           /\ Wires(d, r, b, f).buffer = b /\ Wires(d, r, b, f).failed = f
    BY DEF Wires, WireType

LEMMA WireParts ==
    ASSUME NEW w \in WireType
    PROVE  /\ w.detail \in [Blocks -> DetailType] /\ w.reader \in [Inputs -> ReaderType]
           /\ w.buffer \in [Inputs -> BufferType] /\ w.failed \in {"no", "threw", "crashed"}
    BY DEF WireType

\* Two fields of a reader, or of a buffer, are changed.
LEMMA ReaderMoved ==
    ASSUME NEW x \in ReaderType, NEW a \in Int, NEW c \in Int
    PROVE  LET y == [x EXCEPT !.read = a, !.offset = c]
           IN  y \in ReaderType /\ y.on = x.on
<1> DEFINE z == [x EXCEPT !.read = a]
<1>1. z \in ReaderType /\ z.on = x.on
    BY DEF ReaderType
<1>2. [z EXCEPT !.offset = c] \in ReaderType /\ [z EXCEPT !.offset = c].on = z.on
    BY <1>1 DEF ReaderType
<1> QED
    BY <1>1, <1>2

LEMMA BufferMoved ==
    ASSUME NEW x \in BufferType, NEW a \in Int, NEW c \in Int
    PROVE  LET y == [x EXCEPT !.write = a, !.offset = c]
           IN  y \in BufferType /\ y.age = x.age
    BY DEF BufferType

LEMMA EmptyReader == NoReader \in ReaderType /\ NoReader.on = <<>>
    BY DEF NoReader, ReaderType, BufferIds

LEMMA NewReaderIs ==
    ASSUME NEW w \in WireType, NEW e \in EdgeType
    PROVE  NewReader(w, e) \in ReaderType /\ NewReader(w, e).on = From(w.buffer, e)
<1>1. w.buffer \in [Inputs -> BufferType] /\ <<e.src.block, e.src.port>> \in Inputs
    BY WireParts, EdgeParts
<1>2. w.buffer[<<e.src.block, e.src.port>>].write \in Int
    BY <1>1 DEF BufferType
<1>3. history[e.dst.block] - 1 \in Int
    <2>1. e.dst.block \in Blocks
        BY EdgeParts
    <2>2. history \in [Blocks -> Nat \ {0}]
        BY FlatAssumption
    <2> QED
        BY <2>1, <2>2
<1>4. index_sub(w.buffer[<<e.src.block, e.src.port>>].write, history[e.dst.block] - 1) \in Int
    BY <1>2, <1>3, Indices
<1>5. From(w.buffer, e) \in BufferIds
    BY <1>1, FromType
<1> QED
    BY <1>3, <1>4, <1>5 DEF NewReader, AddReader, ReaderType, From

\* A set of inputs is set to the buffers their edges come from, unless it throws.
LEMMA InputsSet ==
    ASSUME NEW S, Graph(S), NEW w \in WireType, w.failed = "no"
    PROVE  LET v == set_inputs(S, w)
           IN  /\ v \in WireType /\ v.detail = w.detail /\ v.buffer = w.buffer
               /\ (\A e \in S : ~NoPort(w, e)) => v.failed = "no"
               /\ v.failed = "no" =>
                     \A e \in S : /\ v.reader[At(e)].on = From(w.buffer, e)
                                  /\ e.src.port < w.detail[e.src.block].nout
               /\ \A i \in Inputs : \/ v.reader[i] = w.reader[i]
                                    \/ \E e \in S : i = At(e) /\ v.reader[i].on = From(w.buffer, e)
<1> DEFINE bad  == {e \in S : NoPort(w, e)}
           done == {e \in S : \A d \in bad : Before(e, d)}
           set(i) == \E e \in done : e.dst = Endpoint(i[1], i[2])
           r == [i \in Inputs |-> IF set(i) THEN NewReader(w, EdgeInto(done, i)) ELSE w.reader[i]]
           f == IF bad = {} THEN "no" ELSE "threw"
<1>1. set_inputs(S, w) = Wires(w.detail, r, w.buffer, f)
    BY DEF set_inputs
<1>2. ASSUME NEW e \in done
      PROVE  EdgeInto(done, At(e)) = e /\ e \in EdgeType /\ set(At(e)) /\ At(e) \in Inputs
    <2>1. e \in EdgeType /\ At(e) \in Inputs
        BY EdgeParts DEF Graph
    <2>2. e.dst = Endpoint(At(e)[1], At(e)[2])
        BY <2>1, EndsAt
    <2>3. \A d \in done : d.dst = e.dst => d = e
        BY DEF Graph
    <2> QED
        BY <2>1, <2>2, <2>3 DEF EdgeInto
<1>3. ASSUME NEW i \in Inputs, set(i) PROVE \E e \in done : i = At(e)
    BY <1>3, EndsAt DEF Graph
<1>4. \A e \in done : r[At(e)] = NewReader(w, e)
    BY <1>2
<1>5. \A i \in Inputs : ~set(i) => r[i] = w.reader[i]
    OBVIOUS
<1>6. w.reader \in [Inputs -> ReaderType]
    BY WireParts
<1>7. r \in [Inputs -> ReaderType]
    <2>1. ASSUME NEW i \in Inputs
          PROVE  (IF set(i) THEN NewReader(w, EdgeInto(done, i)) ELSE w.reader[i]) \in ReaderType
        <3>1. CASE set(i)
            <4>1. PICK e \in done : i = At(e)
                BY <1>3, <3>1
            <4>2. EdgeInto(done, i) = e /\ e \in EdgeType
                BY <1>2, <4>1
            <4> QED
                BY <3>1, <4>2, NewReaderIs
        <3> QED
            BY <1>6, <3>1
    <2> QED
        BY <2>1
<1>8. f \in {"no", "threw", "crashed"}
    OBVIOUS
<1>9. /\ f = "no" => bad = {} /\ done = S
      /\ (\A e \in S : ~NoPort(w, e)) => f = "no"
    OBVIOUS
<1>10. \A e \in done : r[At(e)].on = From(w.buffer, e)
    BY <1>2, <1>4, NewReaderIs
<1>11. \A e \in S : e \notin bad => e.src.port < w.detail[e.src.block].nout
    <2>1. ASSUME NEW e \in S PROVE e.src.port \in Int /\ w.detail[e.src.block].nout \in Int
        <3>1. e.src.port \in Ports /\ e.src.block \in Blocks
            BY EdgeParts DEF Graph
        <3>2. w.detail[e.src.block] \in DetailType
            BY <3>1, WireParts
        <3> QED
            BY <3>1, <3>2 DEF DetailType, Ports
    <2> QED
        BY <2>1 DEF NoPort
<1> HIDE DEF r, f, set
<1>12. \A i \in Inputs : r[i] = w.reader[i] \/ \E e \in S : i = At(e) /\ r[i].on = From(w.buffer, e)
    BY <1>3, <1>5, <1>10
<1>13. f = "no" => \A e \in S : r[At(e)].on = From(w.buffer, e) /\ e.src.port < w.detail[e.src.block].nout
    BY <1>9, <1>10, <1>11
<1> DEFINE v == Wires(w.detail, r, w.buffer, f)
<1>14. v \in WireType /\ v.detail = w.detail /\ v.buffer = w.buffer /\ v.reader = r /\ v.failed = f
    BY <1>7, <1>8, WireParts, WiresType
<1> HIDE DEF v
<1> QED
    BY <1>1, <1>9, <1>12, <1>13, <1>14 DEF v

\* Where a reader is: its buffer, the next item and what it has before it.
SameItem(r, s) == r.on = s.on /\ r.read = s.read /\ r.due = s.due

\* Calls that leave each buffer and what each input reads from.
SameBuffers(v, w) == \A o \in Inputs : v.buffer[o].age = w.buffer[o].age

LEMMA SameFrom ==
    ASSUME NEW v \in WireType, NEW w \in WireType, SameBuffers(v, w), NEW e \in EdgeType
    PROVE  From(v.buffer, e) = From(w.buffer, e)
    BY EdgeParts DEF SameBuffers, From, BufferOf

\* reset_nitem_counters changes no more than the counts.
LEMMA CountersReset ==
    ASSUME NEW w \in WireType, NEW b
    PROVE  LET v == reset_nitem_counters(b, w)
           IN  /\ v \in WireType /\ v.detail = w.detail /\ SameBuffers(v, w)
               /\ v.failed = "no" => w.failed = "no"
               /\ \A i \in Inputs : SameItem(v.reader[i], w.reader[i])
<1>1. /\ w.detail \in [Blocks -> DetailType] /\ w.reader \in [Inputs -> ReaderType]
      /\ w.buffer \in [Inputs -> BufferType] /\ w.failed \in {"no", "threw", "crashed"}
    BY WireParts
<1> DEFINE r == [i \in Inputs |-> IF i[1] = b THEN [w.reader[i] EXCEPT !.offset = 0] ELSE w.reader[i]]
           u == [o \in Inputs |-> IF o[1] = b THEN [w.buffer[o] EXCEPT !.offset = 0] ELSE w.buffer[o]]
<1>2. CASE w.failed # "no"
    BY <1>2 DEF reset_nitem_counters, SameBuffers, SameItem
<1>3. CASE w.failed = "no" /\ Missing(w, b)
    <2>1. reset_nitem_counters(b, w) = Wires(w.detail, w.reader, w.buffer, "crashed")
        BY <1>3 DEF reset_nitem_counters, Fail
    <2> QED
        BY <1>1, <2>1, <1>3, WiresType DEF SameBuffers, SameItem
<1>4. CASE w.failed = "no" /\ ~Missing(w, b)
    <2>1. reset_nitem_counters(b, w) = Wires(w.detail, r, u, w.failed)
        BY <1>4 DEF reset_nitem_counters
    <2>2. ASSUME NEW i \in Inputs
          PROVE  /\ r[i] \in ReaderType /\ SameItem(r[i], w.reader[i])
                 /\ u[i] \in BufferType /\ u[i].age = w.buffer[i].age
        <3>1. w.reader[i] \in ReaderType /\ w.buffer[i] \in BufferType
            BY <1>1
        <3>2. /\ [w.reader[i] EXCEPT !.offset = 0] \in ReaderType
              /\ SameItem([w.reader[i] EXCEPT !.offset = 0], w.reader[i])
            BY <3>1 DEF ReaderType, SameItem
        <3>3. /\ [w.buffer[i] EXCEPT !.offset = 0] \in BufferType
              /\ [w.buffer[i] EXCEPT !.offset = 0].age = w.buffer[i].age
            BY <3>1 DEF BufferType
        <3>4. SameItem(w.reader[i], w.reader[i])
            BY DEF SameItem
        <3> QED
            BY <3>1, <3>2, <3>3, <3>4
    <2>3. r \in [Inputs -> ReaderType] /\ u \in [Inputs -> BufferType]
        BY <2>2
    <2> HIDE DEF r, u
    <2>4. LET v == Wires(w.detail, r, u, w.failed)
          IN  v \in WireType /\ v.detail = w.detail /\ v.reader = r /\ v.buffer = u /\ v.failed = w.failed
        BY <1>1, <2>3, WiresType
    <2> QED
        BY <1>4, <2>1, <2>2, <2>4 DEF SameBuffers
<1> QED
    BY <1>2, <1>3, <1>4

\* setup_buffer_alignment moves the indices of one block.
LEMMA Aligned ==
    ASSUME NEW w \in WireType, NEW b
    PROVE  LET v == setup_buffer_alignment(b, w)
           IN  /\ v \in WireType /\ v.detail = w.detail /\ SameBuffers(v, w)
               /\ v.failed = "no" => w.failed = "no"
               /\ \A i \in Inputs : /\ v.reader[i].on = w.reader[i].on
                                    /\ i[1] # b => v.reader[i] = w.reader[i]
<1>1. /\ w.detail \in [Blocks -> DetailType] /\ w.reader \in [Inputs -> ReaderType]
      /\ w.buffer \in [Inputs -> BufferType] /\ w.failed \in {"no", "threw", "crashed"}
    BY WireParts
<1> DEFINE moved(x) == [x EXCEPT !.read = index_add(@, Skip(@)), !.offset = @ + Skip(x.read)]
           written(x) == [x EXCEPT !.write = index_add(@, Skip(@)), !.offset = @ + Skip(x.write)]
           r == [i \in Inputs |-> IF i[1] # b \/ w.reader[i] = NoReader THEN w.reader[i]
                                  ELSE moved(w.reader[i])]
           u == [o \in Inputs |-> IF o[1] # b \/ o[2] >= w.detail[b].nout THEN w.buffer[o]
                                  ELSE written(w.buffer[o])]
<1>2. CASE w.failed # "no"
    BY <1>2 DEF setup_buffer_alignment, SameBuffers
<1>3. CASE w.failed = "no" /\ Missing(w, b)
    <2>1. setup_buffer_alignment(b, w) = Wires(w.detail, w.reader, w.buffer, "crashed")
        BY <1>3 DEF setup_buffer_alignment, Fail
    <2> QED
        BY <1>1, <2>1, <1>3, WiresType DEF SameBuffers
<1>4. CASE w.failed = "no" /\ ~Missing(w, b)
    <2>1. setup_buffer_alignment(b, w) = Wires(w.detail, r, u, w.failed)
        BY <1>4, Zenon DEF setup_buffer_alignment
    <2>2. ASSUME NEW i \in Inputs
          PROVE  /\ r[i] \in ReaderType /\ r[i].on = w.reader[i].on
                 /\ i[1] # b => r[i] = w.reader[i]
                 /\ u[i] \in BufferType /\ u[i].age = w.buffer[i].age
        <3>1. w.reader[i] \in ReaderType /\ w.buffer[i] \in BufferType
            BY <1>1
        <3>2. /\ index_add(w.reader[i].read, Skip(w.reader[i].read)) \in Int
              /\ Skip(w.reader[i].read) \in Int /\ Skip(w.buffer[i].write) \in Int
              /\ index_add(w.buffer[i].write, Skip(w.buffer[i].write)) \in Int
            BY <3>1, Indices DEF ReaderType, BufferType
        <3>3. moved(w.reader[i]) \in ReaderType /\ moved(w.reader[i]).on = w.reader[i].on
            <4> DEFINE x == w.reader[i]
                       a == index_add(x.read, Skip(x.read))
                       c == x.offset + Skip(x.read)
            <4>1. x \in ReaderType /\ a \in Int /\ c \in Int
                BY <3>1, <3>2 DEF ReaderType
            <4>2. moved(x) = [x EXCEPT !.read = a, !.offset = c]
                OBVIOUS
            <4> HIDE DEF x, a, c, moved
            <4>3. moved(x) \in ReaderType /\ moved(x).on = x.on
                <5>1. LET y == [x EXCEPT !.read = a, !.offset = c]
                      IN  y \in ReaderType /\ y.on = x.on
                    BY <4>1, ReaderMoved, Zenon
                <5> QED
                    BY <4>2, <5>1, Zenon
            <4> QED
                BY <4>3 DEF x
        <3>4. written(w.buffer[i]) \in BufferType /\ written(w.buffer[i]).age = w.buffer[i].age
            <4> DEFINE x == w.buffer[i]
                       a == index_add(x.write, Skip(x.write))
                       c == x.offset + Skip(x.write)
            <4>1. x \in BufferType /\ a \in Int /\ c \in Int
                BY <3>1, <3>2 DEF BufferType
            <4>2. written(x) = [x EXCEPT !.write = a, !.offset = c]
                OBVIOUS
            <4> HIDE DEF x, a, c, written
            <4>3. written(x) \in BufferType /\ written(x).age = x.age
                <5>1. LET y == [x EXCEPT !.write = a, !.offset = c]
                      IN  y \in BufferType /\ y.age = x.age
                    BY <4>1, BufferMoved, Zenon
                <5> QED
                    BY <4>2, <5>1, Zenon
            <4> QED
                BY <4>3 DEF x
        <3> HIDE DEF moved, written
        <3> QED
            BY <3>1, <3>3, <3>4
    <2>3. r \in [Inputs -> ReaderType] /\ u \in [Inputs -> BufferType]
        <3> HIDE DEF r, u
        <3>1. r = [i \in Inputs |-> r[i]] /\ u = [i \in Inputs |-> u[i]]
            BY DEF r, u
        <3> QED
            BY <2>2, <3>1
    <2> HIDE DEF r, u
    <2>4. LET v == Wires(w.detail, r, u, w.failed)
          IN  v \in WireType /\ v.detail = w.detail /\ v.reader = r /\ v.buffer = u /\ v.failed = w.failed
        BY <1>1, <2>3, WiresType
    <2> QED
        BY <1>4, <2>1, <2>2, <2>4 DEF SameBuffers
<1> QED
    BY <1>2, <1>3, <1>4

\* A block's inputs are wired, those that match are left as they are, and no
\* other block's input is touched.
Merged(E, b, old, v, w) ==
    /\ v \in WireType /\ v.detail = w.detail /\ SameBuffers(v, w)
    /\ v.failed = "no" =>
          /\ w.failed = "no"
          /\ \A e \in calc_upstream_edges(E, b) : /\ v.reader[At(e)].on = From(w.buffer, e)
                                                  /\ e.src.port < w.detail[e.src.block].nout
    /\ \A i \in Inputs :
          /\ i[1] # b => SameItem(v.reader[i], w.reader[i])
          /\ v.reader[i].on # w.reader[i].on =>
                \E e \in E : i = At(e) /\ v.reader[i].on = From(w.buffer, e)
    /\ b \in old.blocks => \A e \in calc_upstream_edges(E, b) :
          Matches(w, e) => SameItem(v.reader[At(e)], w.reader[At(e)])

LEMMA BlockMerged ==
    ASSUME NEW E, Graph(E), NEW b, NEW old, NEW w \in WireType
    PROVE  Merged(E, b, old, merge_block(E, old, b, w), w)
<1> DEFINE S == IF b \in old.blocks THEN {e \in calc_upstream_edges(E, b) : ~Matches(w, e)}
                ELSE calc_upstream_edges(E, b)
           x == set_inputs(S, w)
           y == IF b \in old.blocks THEN x ELSE setup_buffer_alignment(b, x)
           v == reset_nitem_counters(b, y)
<1>1. merge_block(E, old, b, w) = v
    BY DEF merge_block, Rewire, connect_block_inputs
<1>2. S \subseteq E /\ Graph(S) /\ \A e \in S : At(e)[1] = b
    BY DEF Graph, calc_upstream_edges, At
<1>3. \A e \in calc_upstream_edges(E, b) : e \in E /\ e \in EdgeType /\ At(e) \in Inputs
    BY EdgeParts DEF Graph, calc_upstream_edges
<1>4. \A e \in calc_upstream_edges(E, b) : e \notin S => b \in old.blocks /\ Matches(w, e)
    OBVIOUS
<1>5. /\ x \in WireType /\ x.detail = w.detail /\ x.buffer = w.buffer
      /\ x.failed = "no" =>
            /\ w.failed = "no"
            /\ \A e \in S : x.reader[At(e)].on = From(w.buffer, e) /\ e.src.port < w.detail[e.src.block].nout
      /\ \A i \in Inputs : \/ x.reader[i] = w.reader[i]
                           \/ \E e \in S : i = At(e) /\ x.reader[i].on = From(w.buffer, e)
    <2>1. CASE w.failed = "no"
        <3> HIDE DEF S
        <3>1. LET u == set_inputs(S, w)
              IN  /\ u \in WireType /\ u.detail = w.detail /\ u.buffer = w.buffer
                  /\ (\A e \in S : ~NoPort(w, e)) => u.failed = "no"
                  /\ u.failed = "no" =>
                        \A e \in S : /\ u.reader[At(e)].on = From(w.buffer, e)
                                     /\ e.src.port < w.detail[e.src.block].nout
                  /\ \A i \in Inputs : \/ u.reader[i] = w.reader[i]
                                       \/ \E e \in S : i = At(e) /\ u.reader[i].on = From(w.buffer, e)
            BY <1>2, <2>1, InputsSet, Zenon
        <3> HIDE DEF x
        <3> QED
            BY <2>1, <3>1 DEF x
    <2>2. CASE w.failed # "no"
        <3>1. x = w
            BY <2>2 DEF set_inputs
        <3> HIDE DEF x
        <3> QED
            BY <2>2, <3>1
    <2> QED
        BY <2>1, <2>2
<1>6. \A e \in calc_upstream_edges(E, b) : e \notin S => x.reader[At(e)] = w.reader[At(e)]
    <2> SUFFICES ASSUME NEW e \in calc_upstream_edges(E, b), e \notin S
                 PROVE  x.reader[At(e)] = w.reader[At(e)]
        OBVIOUS
    <2>1. ASSUME NEW d \in S PROVE At(e) # At(d)
        <3>1. d \in E /\ d \in EdgeType /\ d # e
            BY <1>2 DEF Graph
        <3> QED
            BY <1>3, <3>1, SameInput DEF Graph
    <2>2. At(e) \in Inputs
        BY <1>3
    <2> HIDE DEF S, x
    <2> QED
        BY <1>5, <2>1, <2>2
<1>7. \A e \in calc_upstream_edges(E, b) : e \notin S =>
          w.reader[At(e)].on = From(w.buffer, e) /\ e.src.port < w.detail[e.src.block].nout
    BY <1>4 DEF Matches, At, From
<1> HIDE DEF S, x
<1>8. /\ y \in WireType /\ y.detail = x.detail /\ SameBuffers(y, x)
      /\ y.failed = "no" => x.failed = "no"
      /\ \A i \in Inputs : /\ y.reader[i].on = x.reader[i].on
                           /\ i[1] # b \/ b \in old.blocks => y.reader[i] = x.reader[i]
    BY <1>5, Aligned DEF SameBuffers
<1> HIDE DEF y
<1>9. /\ v \in WireType /\ v.detail = y.detail /\ SameBuffers(v, y)
      /\ v.failed = "no" => y.failed = "no"
      /\ \A i \in Inputs : SameItem(v.reader[i], y.reader[i])
    BY <1>8, CountersReset
<1> HIDE DEF v
<1>10. v \in WireType /\ v.detail = w.detail /\ SameBuffers(v, w) /\ (v.failed = "no" => w.failed = "no")
    BY <1>5, <1>8, <1>9 DEF SameBuffers
<1>11. ASSUME v.failed = "no", NEW e \in calc_upstream_edges(E, b)
       PROVE  v.reader[At(e)].on = From(w.buffer, e) /\ e.src.port < w.detail[e.src.block].nout
    <2>1. At(e) \in Inputs
        BY <1>3
    <2>2. v.reader[At(e)].on = x.reader[At(e)].on /\ x.failed = "no"
        BY <1>8, <1>9, <1>11, <2>1 DEF SameItem
    <2>3. CASE e \in S
        BY <1>5, <2>2, <2>3
    <2>4. CASE e \notin S
        BY <1>6, <1>7, <2>2, <2>4
    <2> QED
        BY <2>3, <2>4
<1>12. ASSUME NEW i \in Inputs
       PROVE  /\ i[1] # b => SameItem(v.reader[i], w.reader[i])
              /\ v.reader[i].on # w.reader[i].on =>
                    \E e \in E : i = At(e) /\ v.reader[i].on = From(w.buffer, e)
    <2>1. v.reader[i].on = x.reader[i].on
        BY <1>8, <1>9 DEF SameItem
    <2>2. i[1] # b => x.reader[i] = w.reader[i]
        BY <1>2, <1>5
    <2>3. i[1] # b => SameItem(v.reader[i], x.reader[i])
        BY <1>8, <1>9 DEF SameItem
    <2> QED
        BY <1>2, <1>5, <2>1, <2>2, <2>3 DEF SameItem
<1>13. ASSUME b \in old.blocks, NEW e \in calc_upstream_edges(E, b), Matches(w, e)
       PROVE  SameItem(v.reader[At(e)], w.reader[At(e)])
    <2>1. e \notin S /\ At(e) \in Inputs
        BY <1>3, <1>13 DEF S
    <2> QED
        BY <1>6, <1>8, <1>9, <1>13, <2>1 DEF SameItem
<1> QED
    BY <1>1, <1>10, <1>11, <1>12, <1>13 DEF Merged

\* The blocks up to k have been merged into what merge_connections starts with.
Progress(E, old, start, k, v) ==
    /\ v \in WireType /\ v.detail = start.detail /\ SameBuffers(v, start)
    /\ v.failed = "no" => \A e \in E : e.dst.block <= k =>
          /\ v.reader[At(e)].on = From(start.buffer, e)
          /\ e.src.port < start.detail[e.src.block].nout
    /\ \A i \in Inputs :
          /\ i[1] > k => SameItem(v.reader[i], start.reader[i])
          /\ v.reader[i].on # start.reader[i].on =>
                \E e \in E : i = At(e) /\ v.reader[i].on = From(start.buffer, e)
    /\ \A e \in E : e.dst.block \in old.blocks /\ Matches(start, e) =>
          SameItem(v.reader[At(e)], start.reader[At(e)])

LEMMA NothingMerged ==
    ASSUME NEW E, Graph(E), NEW old, NEW w \in WireType
    PROVE  Progress(E, old, w, -1, w)
<1>1. \A e \in E : e.dst.block \in Nat
    <2>1. \A e \in E : e.dst.block \in Blocks
        BY EdgeParts DEF Graph
    <2> QED
        BY <2>1, BlocksAreNumbers
<1>2. \A e \in E : ~(e.dst.block <= -1)
    BY <1>1
<1> QED
    BY <1>2 DEF Progress, SameBuffers, SameItem

LEMMA OneMoreMerged ==
    ASSUME NEW E, Graph(E), NEW old, NEW start \in WireType, NEW k \in Nat, NEW v,
           Progress(E, old, start, k - 1, v)
    PROVE  Progress(E, old, start, k,
                    IF k \in calc_used_blocks(E, {}) THEN merge_block(E, old, k, v) ELSE v)
<1>1. \A e \in E : /\ e \in EdgeType /\ e.dst.block \in Nat /\ At(e) \in Inputs /\ At(e)[1] = e.dst.block
                   /\ e.dst.block \in calc_used_blocks(E, {})
    <2>1. \A e \in E : e \in EdgeType /\ e.dst.block \in Blocks /\ At(e) \in Inputs
        BY EdgeParts DEF Graph
    <2> QED
        BY <2>1, UsedBlocks, BlocksAreNumbers DEF At
<1>2. \A i \in Inputs : i[1] \in Nat
    BY BlocksAreNumbers DEF Inputs
<1>3. v \in WireType /\ v.detail = start.detail /\ SameBuffers(v, start)
    BY DEF Progress
<1>4. \A e \in E : From(v.buffer, e) = From(start.buffer, e)
    BY <1>1, <1>3, SameFrom
<1>5. CASE k \notin calc_used_blocks(E, {})
    <2>1. \A e \in E : e.dst.block <= k => e.dst.block <= k - 1
        BY <1>1, <1>5
    <2>2. \A i \in Inputs : i[1] > k => i[1] > k - 1
        BY <1>2
    <2> QED
        BY <1>5, <2>1, <2>2 DEF Progress
<1>6. CASE k \in calc_used_blocks(E, {})
    <2> DEFINE u == merge_block(E, old, k, v)
    <2>1. Merged(E, k, old, u, v)
        BY <1>3, BlockMerged
    <2> HIDE DEF u
    <2>2. u \in WireType /\ u.detail = start.detail /\ SameBuffers(u, start)
        BY <1>3, <2>1 DEF Merged, SameBuffers
    <2>3. ASSUME NEW i \in Inputs
          PROVE  /\ i[1] # k => SameItem(u.reader[i], v.reader[i])
                 /\ u.reader[i].on # v.reader[i].on =>
                       \E e \in E : i = At(e) /\ u.reader[i].on = From(v.buffer, e)
        BY <2>1 DEF Merged
    <2>4. ASSUME NEW i \in Inputs
          PROVE  /\ i[1] > k - 1 => SameItem(v.reader[i], start.reader[i])
                 /\ v.reader[i].on # start.reader[i].on =>
                       \E e \in E : i = At(e) /\ v.reader[i].on = From(start.buffer, e)
        BY DEF Progress
    <2>5. ASSUME u.failed = "no", NEW e \in E, e.dst.block <= k
          PROVE  /\ u.reader[At(e)].on = From(start.buffer, e)
                 /\ e.src.port < start.detail[e.src.block].nout
        <3>1. CASE e.dst.block = k
            <4>1. e \in calc_upstream_edges(E, k)
                BY <3>1 DEF calc_upstream_edges
            <4> QED
                BY <1>3, <1>4, <2>1, <2>5, <4>1 DEF Merged
        <3>2. CASE e.dst.block # k
            <4>1. e.dst.block <= k - 1 /\ v.failed = "no"
                <5>1. e.dst.block \in Nat
                    BY <1>1
                <5>2. v.failed = "no"
                    BY <2>1, <2>5 DEF Merged
                <5> QED
                    BY <2>5, <3>2, <5>1, <5>2
            <4>2. SameItem(u.reader[At(e)], v.reader[At(e)])
                BY <1>1, <2>3, <3>2
            <4> QED
                BY <4>1, <4>2 DEF Progress, SameItem
        <3> QED
            BY <3>1, <3>2
    <2>6. ASSUME NEW i \in Inputs
          PROVE  /\ i[1] > k => SameItem(u.reader[i], start.reader[i])
                 /\ u.reader[i].on # start.reader[i].on =>
                       \E e \in E : i = At(e) /\ u.reader[i].on = From(start.buffer, e)
        <3>1. i[1] > k => i[1] # k /\ i[1] > k - 1
            BY <1>2
        <3>2. i[1] > k => SameItem(u.reader[i], start.reader[i])
            BY <2>3, <2>4, <3>1 DEF SameItem
        <3>3. CASE u.reader[i].on # v.reader[i].on
            BY <1>4, <2>3, <3>2, <3>3
        <3>4. CASE u.reader[i].on = v.reader[i].on
            BY <2>4, <3>2, <3>4
        <3> QED
            BY <3>3, <3>4
    <2>7. ASSUME NEW e \in E, e.dst.block \in old.blocks, Matches(start, e)
          PROVE  SameItem(u.reader[At(e)], start.reader[At(e)])
        <3>1. SameItem(v.reader[At(e)], start.reader[At(e)])
            BY <2>7 DEF Progress
        <3>2. CASE e.dst.block = k
            <4>1. e \in calc_upstream_edges(E, k)
                BY <3>2 DEF calc_upstream_edges
            <4>2. Matches(v, e)
                BY <1>3, <1>4, <2>7, <3>1 DEF Matches, SameItem, At, From
            <4> QED
                BY <2>1, <2>7, <3>1, <3>2, <4>1, <4>2 DEF Merged, SameItem
        <3>3. CASE e.dst.block # k
            <4>1. SameItem(u.reader[At(e)], v.reader[At(e)])
                BY <1>1, <2>3, <3>3
            <4> QED
                BY <3>1, <4>1 DEF SameItem
        <3> QED
            BY <3>2, <3>3
    <2>8. Progress(E, old, start, k, u)
        BY <2>2, <2>5, <2>6, <2>7 DEF Progress
    <2> QED
        BY <1>6, <2>8 DEF u
<1> QED
    BY <1>5, <1>6

-----------------------------------------------------------------------------
(* merge_connections: one block after the other.  What the model calls       *)
(* merged is a function by recursion, so it rests on induction.              *)

\* If n is not in S, the map that moves the members of S up by one takes
\* 0 .. n into 1 .. n, which is smaller, and yet no two numbers to one.
LEMMA Induction ==
    ASSUME NEW S, 0 \in S, \A n \in Nat : n \in S => n + 1 \in S
    PROVE  \A n \in Nat : n \in S
<1> SUFFICES ASSUME NEW n \in Nat, n \notin S PROVE FALSE
    OBVIOUS
<1> DEFINE f == [x \in 0 .. n |-> IF x \in S THEN x + 1 ELSE x]
<1>1. f \in [0 .. n -> 1 .. n]
    <2>1. ASSUME NEW x \in 0 .. n PROVE (IF x \in S THEN x + 1 ELSE x) \in 1 .. n
        <3>1. x \in S => x # n
            OBVIOUS
        <3>2. x \notin S => x # 0
            OBVIOUS
        <3> QED
            BY <3>1, <3>2
    <2> QED
        BY <2>1
<1>2. ASSUME NEW x \in 0 .. n, NEW y \in 0 .. n, x # y PROVE f[x] # f[y]
    <2>1. x \in S => x + 1 \in S
        OBVIOUS
    <2>2. y \in S => y + 1 \in S
        OBVIOUS
    <2>3. f[x] = (IF x \in S THEN x + 1 ELSE x) /\ f[y] = IF y \in S THEN y + 1 ELSE y
        OBVIOUS
    <2> HIDE DEF f
    <2> QED
        BY <2>1, <2>2, <2>3, <1>2
<1> HIDE DEF f
<1>3. /\ Cardinality(1 .. n) < Cardinality(0 .. n)
      /\ IsFiniteSet(0 .. n) /\ IsFiniteSet(1 .. n)
    <2>1. 0 \in Int /\ 1 \in Int /\ n \in Int
        OBVIOUS
    <2>2. IsFiniteSet(0 .. n) /\ Cardinality(0 .. n) = IF 0 > n THEN 0 ELSE n - 0 + 1
        BY <2>1, FS_Interval
    <2>3. IsFiniteSet(1 .. n) /\ Cardinality(1 .. n) = IF 1 > n THEN 0 ELSE n - 1 + 1
        BY <2>1, FS_Interval
    <2> QED
        BY <2>2, <2>3
<1>4. \E x, y \in 0 .. n : x # y /\ f[x] = f[y]
    BY <1>1, <1>3, FS_PigeonHole, Zenon
<1> QED
    BY <1>2, <1>4

\* A block of a finite set of numbers is the last one.
LEMMA LastBlock ==
    /\ Max(Blocks \cup {0}) \in Nat
    /\ \A b \in Blocks : b <= Max(Blocks \cup {0})
<1> DEFINE All == Blocks \cup {0}
           HasLast(T) == T # {} => \E x \in T : \A y \in T : x >= y
           S == {n \in Nat : \A T \in SUBSET All : IsFiniteSet(T) /\ Cardinality(T) = n => HasLast(T)}
<1>1. IsFiniteSet(All) /\ All \subseteq Nat /\ 0 \in All
    <2>1. IsFiniteSet(Blocks)
        BY FlatAssumption
    <2>2. IsFiniteSet(All)
        BY <2>1, FS_AddElement
    <2> QED
        BY <2>2, BlocksAreNumbers
<1> HIDE DEF All
<1>2. 0 \in S
    <2>1. ASSUME NEW T \in SUBSET All, IsFiniteSet(T), Cardinality(T) = 0 PROVE T = {}
        BY <2>1, FS_EmptySet
    <2> QED
        BY <2>1
<1>3. ASSUME NEW n \in Nat, n \in S PROVE n + 1 \in S
    <2> SUFFICES ASSUME NEW T \in SUBSET All, IsFiniteSet(T), Cardinality(T) = n + 1
                 PROVE  \E x \in T : \A y \in T : x >= y
        BY <1>3
    <2>1. PICK z \in T : TRUE
        <3>1. T # {}
            BY FS_EmptySet
        <3> QED
            BY <3>1
    <2>2. IsFiniteSet(T \ {z}) /\ Cardinality(T \ {z}) = n
        <3>1. IsFiniteSet(T \ {z}) /\ Cardinality(T \ {z}) = Cardinality(T) - 1
            BY FS_RemoveElement
        <3> QED
            BY <3>1
    <2>3. HasLast(T \ {z})
        BY <1>3, <2>2
    <2>4. CASE T \ {z} = {}
        <3>1. \A y \in T : y = z
            BY <2>4
        <3> QED
            BY <1>1, <3>1
    <2>5. CASE T \ {z} # {}
        <3>1. PICK x \in T \ {z} : \A y \in T \ {z} : x >= y
            BY <2>3, <2>5
        <3>2. x \in Nat /\ z \in Nat /\ \A y \in T : y \in Nat
            BY <1>1
        <3>3. CASE x >= z
            BY <3>1, <3>3
        <3>4. CASE z >= x
            <4>1. \A y \in T : z >= y
                BY <3>1, <3>2, <3>4
            <4> QED
                BY <4>1
        <3> QED
            BY <3>2, <3>3, <3>4
    <2> QED
        BY <2>4, <2>5
<1> HIDE DEF S
<1>4. Cardinality(All) \in S /\ Cardinality(All) \in Nat
    BY <1>1, <1>2, <1>3, Induction, FS_CardinalityType
<1>5. HasLast(All)
    BY <1>1, <1>4 DEF S
<1>6. Max(All) \in All /\ \A y \in All : Max(All) >= y
    BY <1>1, <1>5 DEF Max
<1> QED
    BY <1>1, <1>6 DEF All

\* How the blocks are merged, as one step.
MergeStep(E, old, b, v) == IF b \in calc_used_blocks(E, {}) THEN merge_block(E, old, b, v) ELSE v

IsMerged(E, old, start, n, f) ==
    f = [b \in 0 .. n |-> MergeStep(E, old, b, IF b = 0 THEN start ELSE f[b - 1])]

LEMMA MergedExists ==
    ASSUME NEW E, NEW old, NEW start, NEW k \in Nat
    PROVE  \E f : IsMerged(E, old, start, k, f)
<1> DEFINE S == {n \in Nat : \E f : IsMerged(E, old, start, n, f)}
<1>1. 0 \in S
    <2> DEFINE f == [b \in 0 .. 0 |-> MergeStep(E, old, b, start)]
    <2>1. \A b \in 0 .. 0 : b = 0
        OBVIOUS
    <2>2. IsMerged(E, old, start, 0, f)
        BY <2>1 DEF IsMerged
    <2> QED
        BY <2>2
<1>2. ASSUME NEW n \in Nat, n \in S PROVE n + 1 \in S
    <2>1. PICK f : IsMerged(E, old, start, n, f)
        BY <1>2
    <2> DEFINE g == [b \in 0 .. n + 1 |-> IF b <= n THEN f[b] ELSE MergeStep(E, old, b, f[n])]
    <2>2. \A b \in 0 .. n : g[b] = f[b]
        OBVIOUS
    <2>3. g[n + 1] = MergeStep(E, old, n + 1, f[n])
        OBVIOUS
    <2>4. \A b \in 0 .. n : f[b] = MergeStep(E, old, b, IF b = 0 THEN start ELSE f[b - 1])
        <3> DEFINE h == [b \in 0 .. n |-> MergeStep(E, old, b, IF b = 0 THEN start ELSE f[b - 1])]
        <3>1. \A b \in 0 .. n : h[b] = MergeStep(E, old, b, IF b = 0 THEN start ELSE f[b - 1])
            OBVIOUS
        <3>2. f = h
            BY <2>1 DEF IsMerged
        <3> HIDE DEF h
        <3> QED
            BY <3>1, <3>2
    <2>5. g = [b \in 0 .. n + 1 |-> g[b]]
        OBVIOUS
    <2> HIDE DEF g
    <2>6. ASSUME NEW b \in 0 .. n + 1
          PROVE  g[b] = MergeStep(E, old, b, IF b = 0 THEN start ELSE g[b - 1])
        <3>1. CASE b = 0
            BY <2>2, <2>4, <3>1
        <3>2. CASE b \in 1 .. n
            <4>1. b \in 0 .. n /\ b - 1 \in 0 .. n /\ b # 0
                BY <3>2
            <4> QED
                BY <2>2, <2>4, <4>1
        <3>3. CASE b = n + 1
            <4>1. b - 1 = n /\ n \in 0 .. n /\ b # 0
                BY <3>3
            <4> QED
                BY <2>2, <2>3, <3>3, <4>1
        <3> QED
            BY <3>1, <3>2, <3>3
    <2>7. IsMerged(E, old, start, n + 1, g)
        BY <2>5, <2>6 DEF IsMerged
    <2> QED
        BY <2>7
<1> HIDE DEF S
<1>3. k \in S
    BY <1>1, <1>2, Induction
<1> QED
    BY <1>3 DEF S

LEMMA AllMerged ==
    ASSUME NEW E, Graph(E), NEW old, NEW start \in WireType, NEW n \in Nat,
           NEW f, IsMerged(E, old, start, n, f)
    PROVE  Progress(E, old, start, n, f[n])
<1> DEFINE S == {b \in Nat : b <= n => Progress(E, old, start, b, f[b])}
<1>1. \A b \in 0 .. n : f[b] = MergeStep(E, old, b, IF b = 0 THEN start ELSE f[b - 1])
    <2> DEFINE h == [b \in 0 .. n |-> MergeStep(E, old, b, IF b = 0 THEN start ELSE f[b - 1])]
    <2>1. \A b \in 0 .. n : h[b] = MergeStep(E, old, b, IF b = 0 THEN start ELSE f[b - 1])
        OBVIOUS
    <2>2. f = h
        BY DEF IsMerged
    <2> HIDE DEF h
    <2> QED
        BY <2>1, <2>2
<1>2. 0 \in S
    <2>1. Progress(E, old, start, 0 - 1, start)
        BY NothingMerged
    <2>2. Progress(E, old, start, 0, MergeStep(E, old, 0, start))
        BY <2>1, OneMoreMerged DEF MergeStep
    <2>3. f[0] = MergeStep(E, old, 0, start)
        BY <1>1
    <2> QED
        BY <2>2, <2>3
<1>3. ASSUME NEW b \in Nat, b \in S PROVE b + 1 \in S
    <2> SUFFICES ASSUME b + 1 <= n PROVE Progress(E, old, start, b + 1, f[b + 1])
        OBVIOUS
    <2>1. Progress(E, old, start, b, f[b]) /\ (b + 1) - 1 = b /\ b + 1 \in 0 .. n /\ b + 1 # 0 /\ b + 1 \in Nat
        BY <1>3
    <2>2. Progress(E, old, start, (b + 1) - 1, f[b])
        BY <2>1
    <2>3. Progress(E, old, start, b + 1, MergeStep(E, old, b + 1, f[b]))
        BY <2>1, <2>2, OneMoreMerged DEF MergeStep
    <2>4. f[b + 1] = MergeStep(E, old, b + 1, f[b])
        BY <1>1, <2>1
    <2> QED
        BY <2>3, <2>4
<1> HIDE DEF S
<1>4. n \in S
    BY <1>2, <1>3, Induction
<1> QED
    BY <1>4 DEF S

\* The details are allocated and the readers of the edges that go are dropped.
Prepared(E, old, w) ==
    ClearOldEdges(E, old,
        allocate_block_detail(E, {b \in calc_used_blocks(E, {}) : w.detail[b] = NoDetail}, w))

LEMMA MergeIs ==
    ASSUME NEW E, Graph(E), NEW old, NEW w, Prepared(E, old, w) \in WireType
    PROVE  Progress(E, old, Prepared(E, old, w), Max(Blocks \cup {0}), merge_connections(E, old, w))
<1> DEFINE n == Max(Blocks \cup {0})
           start == Prepared(E, old, w)
           merged == CHOOSE f : IsMerged(E, old, start, n, f)
<1>1. n \in Nat
    BY LastBlock
<1>2. merge_connections(E, old, w) = merged[n]
    BY DEF merge_connections, IsMerged, MergeStep, Prepared
<1> HIDE DEF n, start
<1>3. IsMerged(E, old, start, n, merged)
    <2>1. \E f : IsMerged(E, old, start, n, f)
        BY <1>1, MergedExists
    <2> QED
        BY <2>1
<1> HIDE DEF merged
<1>4. start \in WireType
    BY DEF start
<1>5. Progress(E, old, start, n, merged[n])
    BY <1>1, <1>3, <1>4, AllMerged
<1> QED
    BY <1>2, <1>5 DEF n, start

\* The blocks of S have new details, without readers; the others keep theirs.
Allocated(E, S, v, w) ==
    /\ v \in WireType /\ v.failed = w.failed
    /\ \A b \in S : /\ v.detail[b].nin = Cardinality(InputsUsed(E, b))
                    /\ v.detail[b].nout = Cardinality(OutputsUsed(E, b))
                    /\ v.detail[b] # NoDetail
    /\ \A b \in Blocks \ S : v.detail[b] = w.detail[b]
    /\ \A i \in Inputs : /\ i[1] \in S => v.reader[i] = NoReader
                         /\ i[1] \notin S => v.reader[i] = w.reader[i]
                         /\ i[1] \notin S => v.buffer[i] = w.buffer[i]

LEMMA DetailsAllocated ==
    ASSUME NEW E, Graph(E), NEW S \in SUBSET Blocks, NEW w \in WireType
    PROVE  Allocated(E, S, allocate_block_detail(E, S, w), w)
<1> DEFINE d == [b \in Blocks |-> IF b \in S THEN [nin |-> Cardinality(InputsUsed(E, b)),
                                                 nout |-> Cardinality(OutputsUsed(E, b))]
                                 ELSE w.detail[b]]
           r == [i \in Inputs |-> IF i[1] \in S THEN NoReader ELSE w.reader[i]]
           u == [o \in Inputs |-> IF o[1] \in S THEN NewBuffer(w.buffer[o].age + 1) ELSE w.buffer[o]]
           v == Wires(d, r, u, w.failed)
<1>1. allocate_block_detail(E, S, w) = v
    BY DEF allocate_block_detail
<1>2. /\ w.detail \in [Blocks -> DetailType] /\ w.reader \in [Inputs -> ReaderType]
      /\ w.buffer \in [Inputs -> BufferType] /\ w.failed \in {"no", "threw", "crashed"}
    BY WireParts
<1>3. ASSUME NEW b \in S
      PROVE  /\ d[b] \in DetailType /\ d[b] # NoDetail
             /\ d[b].nin = Cardinality(InputsUsed(E, b)) /\ d[b].nout = Cardinality(OutputsUsed(E, b))
    <2> DEFINE x == [nin |-> Cardinality(InputsUsed(E, b)), nout |-> Cardinality(OutputsUsed(E, b))]
    <2>1. Cardinality(InputsUsed(E, b)) \in Nat /\ Cardinality(OutputsUsed(E, b)) \in Nat
        BY UsedPorts
    <2>2. x \in DetailType /\ x.nin # NoDetail.nin
        BY <2>1 DEF DetailType, NoDetail
    <2>3. d[b] = x /\ x.nin = Cardinality(InputsUsed(E, b)) /\ x.nout = Cardinality(OutputsUsed(E, b))
        OBVIOUS
    <2> HIDE DEF x, d
    <2> QED
        BY <2>2, <2>3
<1>4. \A b \in Blocks \ S : d[b] = w.detail[b]
    OBVIOUS
<1>5. d \in [Blocks -> DetailType]
    <2> HIDE DEF d
    <2>1. d = [b \in Blocks |-> d[b]]
        BY DEF d
    <2>2. \A b \in Blocks : d[b] \in DetailType
        BY <1>2, <1>3, <1>4
    <2> QED
        BY <2>1, <2>2
<1>6. r \in [Inputs -> ReaderType]
    BY <1>2, EmptyReader
<1>7. u \in [Inputs -> BufferType]
    <2>1. \A o \in Inputs : NewBuffer(w.buffer[o].age + 1) \in BufferType
        BY <1>2 DEF NewBuffer, BufferType
    <2> QED
        BY <1>2, <2>1
<1>8. \A i \in Inputs : /\ i[1] \in S => r[i] = NoReader
                        /\ i[1] \notin S => r[i] = w.reader[i] /\ u[i] = w.buffer[i]
    OBVIOUS
<1> HIDE DEF d, r, u
<1>9. v \in WireType /\ v.detail = d /\ v.reader = r /\ v.buffer = u /\ v.failed = w.failed
    BY <1>2, <1>5, <1>6, <1>7, WiresType
<1> HIDE DEF v
<1> QED
    <2>1. \A b \in S : /\ v.detail[b].nin = Cardinality(InputsUsed(E, b))
                       /\ v.detail[b].nout = Cardinality(OutputsUsed(E, b))
                       /\ v.detail[b] # NoDetail
        BY <1>3, <1>9
    <2>2. \A b \in Blocks \ S : v.detail[b] = w.detail[b]
        BY <1>4, <1>9
    <2>3. \A i \in Inputs : /\ i[1] \in S => v.reader[i] = NoReader
                            /\ i[1] \notin S => v.reader[i] = w.reader[i]
                            /\ i[1] \notin S => v.buffer[i] = w.buffer[i]
        BY <1>8, <1>9
    <2>4. Allocated(E, S, v, w)
        BY <1>9, <2>1, <2>2, <2>3 DEF Allocated
    <2> QED
        BY <1>1, <2>4, Zenon

\* What merge_connections starts with: details for all blocks, new ones only
\* where there were none, and no reader of an edge that goes away.
PreparedFrom(E, old, v, w) ==
    /\ v \in WireType /\ v.failed = w.failed
    /\ \A b \in calc_used_blocks(E, {}) : v.detail[b] # NoDetail
    /\ \A b \in Blocks : w.detail[b] # NoDetail => v.detail[b] = w.detail[b]
    /\ \A o \in Inputs : w.detail[o[1]] # NoDetail => v.buffer[o] = w.buffer[o]
    /\ \A i \in Inputs :
          /\ \/ v.reader[i] = NoReader
             \/ v.reader[i] = w.reader[i] /\ \A e \in old.edges \ E : At(e) # i
          /\ w.detail[i[1]] # NoDetail /\ (\A e \in old.edges \ E : At(e) # i) =>
                v.reader[i] = w.reader[i]

LEMMA PreparedIs ==
    ASSUME NEW E, Graph(E), NEW old, Graph(old.edges), NEW w \in WireType
    PROVE  PreparedFrom(E, old, Prepared(E, old, w), w)
<1> DEFINE S == {b \in calc_used_blocks(E, {}) : w.detail[b] = NoDetail}
           x == allocate_block_detail(E, S, w)
           r == [i \in Inputs |-> IF \E e \in old.edges \ E : e.dst = Endpoint(i[1], i[2])
                                  THEN NoReader ELSE x.reader[i]]
           v == Wires(x.detail, r, x.buffer, x.failed)
<1>1. Prepared(E, old, w) = v
    BY DEF Prepared, ClearOldEdges
<1>2. S \in SUBSET Blocks /\ calc_used_blocks(E, {}) \subseteq Blocks
    BY UsedBlocks
<1> HIDE DEF S, x
<1>3. /\ x \in WireType /\ x.failed = w.failed
      /\ \A b \in S : x.detail[b] # NoDetail
      /\ \A b \in Blocks \ S : x.detail[b] = w.detail[b]
      /\ \A i \in Inputs : /\ i[1] \in S => x.reader[i] = NoReader
                           /\ i[1] \notin S => x.reader[i] = w.reader[i]
                           /\ i[1] \notin S => x.buffer[i] = w.buffer[i]
    <2>1. Allocated(E, S, x, w)
        BY <1>2, DetailsAllocated, Zenon DEF x
    <2> QED
        BY <2>1 DEF Allocated
<1>4. ASSUME NEW i \in Inputs
      PROVE  /\ (\E e \in old.edges \ E : At(e) = i) => r[i] = NoReader
             /\ (\A e \in old.edges \ E : At(e) # i) => r[i] = x.reader[i]
    <2>1. ASSUME NEW e \in old.edges \ E PROVE e.dst = Endpoint(i[1], i[2]) <=> At(e) = i
        <3>1. e \in EdgeType
            BY DEF Graph
        <3> QED
            BY <3>1, EndsAt
    <2> QED
        BY <2>1
<1>5. r \in [Inputs -> ReaderType]
    BY <1>3, WireParts, EmptyReader
<1> HIDE DEF r
<1>6. v \in WireType /\ v.detail = x.detail /\ v.reader = r /\ v.buffer = x.buffer /\ v.failed = x.failed
    BY <1>3, <1>5, WireParts, WiresType
<1> HIDE DEF v
<1>7. \A b \in calc_used_blocks(E, {}) : x.detail[b] # NoDetail
    BY <1>2, <1>3 DEF S
<1>8. \A b \in Blocks : w.detail[b] # NoDetail => b \notin S
    BY DEF S
<1>9. \A i \in Inputs : i[1] \in Blocks
    BY DEF Inputs
<1>10. \A i \in Inputs : x.reader[i] = NoReader \/ x.reader[i] = w.reader[i]
    BY <1>3
<1>11. ASSUME NEW i \in Inputs
       PROVE  /\ \/ r[i] = NoReader
                 \/ r[i] = w.reader[i] /\ \A e \in old.edges \ E : At(e) # i
              /\ w.detail[i[1]] # NoDetail /\ (\A e \in old.edges \ E : At(e) # i) => r[i] = w.reader[i]
    BY <1>3, <1>4, <1>8, <1>9, <1>10
<1> QED
    BY <1>1, <1>3, <1>6, <1>7, <1>8, <1>9, <1>11 DEF PreparedFrom

-----------------------------------------------------------------------------
(* What a whole start or restart leaves behind.                              *)

\* Each edge has a reader on the buffer its source writes now.
Connected(E, w) ==
    \A e \in E : w.reader[At(e)].on = From(w.buffer, e) /\ e.src.port < w.detail[e.src.block].nout

Detailed(S, w) == \A b \in S : w.detail[b] # NoDetail

\* Every reader there is has its edge.
NoStray(E, w) ==
    \A i \in Inputs : w.reader[i].on # <<>> =>
        Edge(w.reader[i].on[1], w.reader[i].on[2], i[1], i[2]) \in E

\* A reader that was set for an edge has that edge.
LEMMA EdgeOfReader ==
    ASSUME NEW e \in EdgeType, NEW bufs \in [Inputs -> BufferType]
    PROVE  LET on == From(bufs, e) IN Edge(on[1], on[2], At(e)[1], At(e)[2]) = e
<1>1. e = Edge(e.src.block, e.src.port, e.dst.block, e.dst.port)
    BY EdgeParts
<1>2. From(bufs, e)[1] = e.src.block /\ From(bufs, e)[2] = e.src.port
    BY FromType
<1>3. At(e)[1] = e.dst.block /\ At(e)[2] = e.dst.port
    BY DEF At
<1> QED
    BY <1>1, <1>2, <1>3

\* The ports of a valid graph are there, once its details have been allocated.
LEMMA PortsThere ==
    ASSUME NEW E, Graph(E), Valid(E), NEW w,
           \A b \in calc_used_blocks(E, {}) : /\ w.detail[b].nin = Cardinality(InputsUsed(E, b))
                                          /\ w.detail[b].nout = Cardinality(OutputsUsed(E, b)),
           NEW e \in E
    PROVE  ~NoPort(w, e)
<1>1. e.src.block \in calc_used_blocks(E, {}) /\ e.dst.block \in calc_used_blocks(E, {})
    BY UsedBlocks
<1>2. e.src.port \in OutputsUsed(E, e.src.block) /\ e.dst.port \in InputsUsed(E, e.dst.block)
    BY DEF OutputsUsed, InputsUsed
<1>3. /\ OutputsUsed(E, e.src.block) = 0 .. Cardinality(OutputsUsed(E, e.src.block)) - 1
      /\ InputsUsed(E, e.dst.block) = 0 .. Cardinality(InputsUsed(E, e.dst.block)) - 1
    BY <1>1, Zenon DEF Valid, check_contiguity
<1>4. /\ Cardinality(OutputsUsed(E, e.src.block)) \in Nat
      /\ Cardinality(InputsUsed(E, e.dst.block)) \in Nat
    BY UsedPorts
<1> DEFINE n == Cardinality(OutputsUsed(E, e.src.block))
           m == Cardinality(InputsUsed(E, e.dst.block))
<1>5. e.src.port \in 0 .. n - 1 /\ e.dst.port \in 0 .. m - 1 /\ n \in Nat /\ m \in Nat
    BY <1>2, <1>3, <1>4
<1>6. w.detail[e.src.block].nout = n /\ w.detail[e.dst.block].nin = m
    BY <1>1
<1> HIDE DEF n, m
<1> QED
    BY <1>5, <1>6 DEF NoPort

SetUp(E, v, w) ==
    /\ v \in WireType /\ Connected(E, v) /\ Detailed(calc_used_blocks(E, {}), v)
    /\ (\A i \in Inputs : w.reader[i] = NoReader) => NoStray(E, v)

LEMMA IsSetUp ==
    ASSUME NEW E, Graph(E), Valid(E), NEW w \in WireType, w.failed = "no"
    PROVE  SetUp(E, setup_connections(E, w), w)
<1> DEFINE S == calc_used_blocks(E, {})
           x == allocate_block_detail(E, S, w)
           v == set_inputs(E, x)
<1>1. setup_connections(E, w) = v
    BY DEF setup_connections
<1>2. S \in SUBSET Blocks
    BY UsedBlocks
<1>3. Allocated(E, S, x, w)
    BY <1>2, DetailsAllocated
<1> HIDE DEF x
<1>4. x \in WireType /\ x.failed = "no"
    BY <1>3 DEF Allocated
<1>5. LET u == set_inputs(E, x)
      IN  /\ u \in WireType /\ u.detail = x.detail /\ u.buffer = x.buffer
          /\ (\A e \in E : ~NoPort(x, e)) => u.failed = "no"
          /\ u.failed = "no" =>
                \A e \in E : /\ u.reader[At(e)].on = From(x.buffer, e)
                             /\ e.src.port < x.detail[e.src.block].nout
          /\ \A i \in Inputs : \/ u.reader[i] = x.reader[i]
                               \/ \E e \in E : i = At(e) /\ u.reader[i].on = From(x.buffer, e)
    BY <1>4, InputsSet, Zenon
<1>6. \A e \in E : ~NoPort(x, e)
    BY <1>3, PortsThere DEF Allocated
<1> HIDE DEF v
<1>7. /\ v \in WireType /\ v.detail = x.detail /\ v.buffer = x.buffer
      /\ \A e \in E : /\ v.reader[At(e)].on = From(x.buffer, e)
                      /\ e.src.port < x.detail[e.src.block].nout
      /\ \A i \in Inputs : \/ v.reader[i] = x.reader[i]
                           \/ \E e \in E : i = At(e) /\ v.reader[i].on = From(x.buffer, e)
    BY <1>5, <1>6 DEF v
<1>8. Connected(E, v) /\ Detailed(S, v)
    BY <1>3, <1>7 DEF Connected, Detailed, Allocated
<1>9. ASSUME \A i \in Inputs : w.reader[i] = NoReader PROVE NoStray(E, v)
    <2> SUFFICES ASSUME NEW i \in Inputs, v.reader[i].on # <<>>
                 PROVE  Edge(v.reader[i].on[1], v.reader[i].on[2], i[1], i[2]) \in E
        BY DEF NoStray
    <2>1. x.reader[i].on = <<>>
        BY <1>3, <1>9, EmptyReader DEF Allocated
    <2>2. PICK e \in E : i = At(e) /\ v.reader[i].on = From(x.buffer, e)
        BY <1>7, <2>1
    <2>3. x.buffer \in [Inputs -> BufferType] /\ e \in EdgeType
        BY <1>4, WireParts DEF Graph
    <2>4. LET on == From(x.buffer, e) IN Edge(on[1], on[2], At(e)[1], At(e)[2]) = e
        BY <2>3, EdgeOfReader
    <2> QED
        BY <2>2, <2>4
<1> HIDE DEF S
<1> QED
    BY <1>1, <1>7, <1>8, <1>9 DEF SetUp, S

Remade(E, old, v, w) ==
    /\ v \in WireType
    /\ v.failed = "no" => Connected(E, v) /\ Detailed(calc_used_blocks(E, {}), v)
    /\ NoStray(old.edges, w) => NoStray(E, v)
    /\ Connected(old.edges, w) /\ Detailed(old.blocks, w) /\ old.blocks = calc_used_blocks(old.edges, {}) =>
          \A e \in old.edges \cap E : SameItem(v.reader[At(e)], w.reader[At(e)])

LEMMA IsRemade ==
    ASSUME NEW E, Graph(E), NEW old, Graph(old.edges), NEW w \in WireType
    PROVE  Remade(E, old, merge_connections(E, old, w), w)
<1> DEFINE x == Prepared(E, old, w)
           v == merge_connections(E, old, w)
           n == Max(Blocks \cup {0})
<1>1. PreparedFrom(E, old, x, w)
    BY PreparedIs
<1> HIDE DEF x
<1>2. /\ x \in WireType
      /\ \A b \in calc_used_blocks(E, {}) : x.detail[b] # NoDetail
      /\ \A b \in Blocks : w.detail[b] # NoDetail => x.detail[b] = w.detail[b]
      /\ \A o \in Inputs : w.detail[o[1]] # NoDetail => x.buffer[o] = w.buffer[o]
    BY <1>1 DEF PreparedFrom
<1>3. ASSUME NEW i \in Inputs
      PROVE  /\ \/ x.reader[i] = NoReader
                \/ x.reader[i] = w.reader[i] /\ \A e \in old.edges \ E : At(e) # i
             /\ w.detail[i[1]] # NoDetail /\ (\A e \in old.edges \ E : At(e) # i) =>
                   x.reader[i] = w.reader[i]
    BY <1>1 DEF PreparedFrom
<1>4. Progress(E, old, x, n, v)
    BY <1>2, MergeIs DEF x
<1> HIDE DEF v
<1>5. v \in WireType /\ v.detail = x.detail /\ SameBuffers(v, x)
    BY <1>4 DEF Progress
<1>6. \A e \in E : From(v.buffer, e) = From(x.buffer, e)
    BY <1>2, <1>5, SameFrom DEF Graph
<1>7. \A e \in E : e.dst.block <= n
    BY LastBlock, EdgeParts DEF Graph
<1>8. ASSUME v.failed = "no" PROVE Connected(E, v) /\ Detailed(calc_used_blocks(E, {}), v)
    BY <1>2, <1>4, <1>5, <1>6, <1>7, <1>8 DEF Connected, Detailed, Progress
<1>9. ASSUME NoStray(old.edges, w) PROVE NoStray(E, v)
    <2> SUFFICES ASSUME NEW i \in Inputs, v.reader[i].on # <<>>
                 PROVE  Edge(v.reader[i].on[1], v.reader[i].on[2], i[1], i[2]) \in E
        BY DEF NoStray
    <2>1. CASE v.reader[i].on = x.reader[i].on
        <3>1. x.reader[i] = w.reader[i] /\ \A e \in old.edges \ E : At(e) # i
            BY <1>3, <2>1, EmptyReader
        <3> DEFINE d == Edge(w.reader[i].on[1], w.reader[i].on[2], i[1], i[2])
        <3>2. d \in old.edges
            BY <1>9, <2>1, <3>1 DEF NoStray
        <3>3. At(d) = i
            BY DEF Edge, Endpoint, At, Inputs
        <3> HIDE DEF d
        <3>4. d \in E
            BY <3>1, <3>2, <3>3
        <3> QED
            BY <2>1, <3>1, <3>4 DEF d
    <2>2. CASE v.reader[i].on # x.reader[i].on
        <3>1. PICK e \in E : i = At(e) /\ v.reader[i].on = From(x.buffer, e)
            BY <1>4, <2>2 DEF Progress
        <3>2. x.buffer \in [Inputs -> BufferType] /\ e \in EdgeType
            BY <1>2, WireParts DEF Graph
        <3>3. LET on == From(x.buffer, e) IN Edge(on[1], on[2], At(e)[1], At(e)[2]) = e
            BY <3>2, EdgeOfReader
        <3> QED
            BY <3>1, <3>3
    <2> QED
        BY <2>1, <2>2
<1>10. ASSUME Connected(old.edges, w), Detailed(old.blocks, w), old.blocks = calc_used_blocks(old.edges, {}),
              NEW e \in old.edges \cap E
       PROVE  SameItem(v.reader[At(e)], w.reader[At(e)])
    <2>1. /\ e \in EdgeType /\ At(e) \in Inputs /\ <<e.src.block, e.src.port>> \in Inputs
          /\ e.src.block \in Blocks /\ At(e)[1] = e.dst.block
        BY EdgeParts DEF Graph, At
    <2>2. e.src.block \in old.blocks /\ e.dst.block \in old.blocks
        BY <1>10, UsedBlocks
    <2>3. w.detail[e.src.block] # NoDetail /\ w.detail[e.dst.block] # NoDetail
        BY <1>10, <2>2 DEF Detailed
    <2>4. \A d \in old.edges \ E : At(d) # At(e)
        <3> SUFFICES ASSUME NEW d \in old.edges \ E, At(d) = At(e) PROVE FALSE
            OBVIOUS
        <3>1. d.dst = e.dst
            BY <2>1, SameInput DEF Graph
        <3> QED
            BY <3>1 DEF Graph
    <2>5. x.reader[At(e)] = w.reader[At(e)]
        BY <1>3, <2>1, <2>3, <2>4
    <2>6. x.detail[e.src.block] = w.detail[e.src.block] /\ From(x.buffer, e) = From(w.buffer, e)
        <3>1. x.buffer[<<e.src.block, e.src.port>>] = w.buffer[<<e.src.block, e.src.port>>]
            BY <1>2, <2>1, <2>3
        <3> QED
            BY <1>2, <2>1, <2>3, <3>1 DEF From, BufferOf
    <2>7. Matches(x, e)
        BY <1>10, <2>5, <2>6 DEF Matches, Connected, At, From
    <2> QED
        BY <1>4, <2>2, <2>5, <2>7 DEF Progress
<1> QED
    BY <1>5, <1>8, <1>9, <1>10 DEF Remade, v

-----------------------------------------------------------------------------
(* The invariant.  It needs more than the property: what was wired stays     *)
(* wired while the graph is locked, unless a restart threw, and halted       *)
(* graphs are those whose restart threw.                                     *)

Graphs ==
    /\ Graph(edges) /\ Graph(ffg.edges) /\ ffg.blocks = calc_used_blocks(ffg.edges, {})
    /\ Wiring \in WireType /\ threw \in BOOLEAN

Kept ==
    state = "running" \/ (state = "locked" /\ ~threw) =>
        Connected(ffg.edges, Wiring) /\ Detailed(ffg.blocks, Wiring)

FInv ==
    /\ Graphs /\ Kept
    /\ state = "running" => Valid(ffg.edges)
    /\ state = "halted" => threw

\* Nothing was wired before the first start, and after it no reader without edge.
Once ==
    /\ starts \in Nat
    /\ starts = 0 => state = "idle" /\ \A i \in Inputs : reader[i] = NoReader
    /\ threw \/ NoStray(ffg.edges, Wiring)

LEMMA WiringFields ==
    ASSUME NEW d, NEW r, NEW b, NEW f
    PROVE  /\ Wires(d, r, b, f).detail = d /\ Wires(d, r, b, f).reader = r
           /\ Wires(d, r, b, f).buffer = b /\ Wires(d, r, b, f).failed = f
    BY DEF Wires

LEMMA WiringType ==
    ASSUME NEW d, NEW r, NEW b
    PROVE  Wires(d, r, b, "no") \in WireType <=>
              d \in [Blocks -> DetailType] /\ r \in [Inputs -> ReaderType] /\ b \in [Inputs -> BufferType]
<1>1. ASSUME d \in [Blocks -> DetailType], r \in [Inputs -> ReaderType], b \in [Inputs -> BufferType]
      PROVE  Wires(d, r, b, "no") \in WireType
    BY <1>1, WiresType
<1>2. ASSUME Wires(d, r, b, "no") \in WireType
      PROVE  d \in [Blocks -> DetailType] /\ r \in [Inputs -> ReaderType] /\ b \in [Inputs -> BufferType]
    BY <1>2, WiringFields, WireParts
<1> QED
    BY <1>1, <1>2

\* What the items do to the indices changes nothing of this.
SameWiring(v, w) ==
    /\ v.detail = w.detail /\ SameBuffers(v, w)
    /\ \A i \in Inputs : v.reader[i].on = w.reader[i].on

LEMMA StaysWired ==
    ASSUME NEW v \in WireType, NEW w \in WireType, SameWiring(v, w), NEW E, Graph(E)
    PROVE  /\ Connected(E, w) => Connected(E, v)
           /\ NoStray(E, w) => NoStray(E, v)
           /\ \A S : Detailed(S, w) => Detailed(S, v)
<1>1. \A e \in E : At(e) \in Inputs /\ From(v.buffer, e) = From(w.buffer, e)
    BY EdgeParts, SameFrom DEF Graph, SameWiring
<1>2. Connected(E, w) => Connected(E, v)
    BY <1>1 DEF Connected, SameWiring
<1>3. NoStray(E, w) => NoStray(E, v)
    BY DEF NoStray, SameWiring
<1> QED
    BY <1>2, <1>3 DEF Detailed, SameWiring

\* The wiring a call returns becomes that of the program.
LEMMA TakenOver ==
    ASSUME NEW v \in WireType
    PROVE  LET w == Wires(v.detail, v.reader, v.buffer, "no")
           IN  w \in WireType /\ SameWiring(w, v)
<1>1. Wires(v.detail, v.reader, v.buffer, "no") \in WireType
    BY WireParts, WiresType
<1> QED
    BY <1>1, WiringFields DEF SameWiring, SameBuffers

LEMMA NoEdges == Graph({}) /\ calc_used_blocks({}, {}) = {}
    BY DEF Graph, calc_used_blocks

LEMMA FInvInit == FInit => FInv /\ Once
<1> SUFFICES ASSUME FInit PROVE FInv /\ Once
    OBVIOUS
<1>1. Graph(edges) /\ Graph(ffg.edges) /\ ffg.blocks = calc_used_blocks(ffg.edges, {}) /\ state = "idle"
    BY NoEdges DEF FInit
<1>2. detail \in [Blocks -> DetailType] /\ reader \in [Inputs -> ReaderType] /\ buffer \in [Inputs -> BufferType]
    BY EmptyReader DEF FInit, NoDetail, DetailType, NewBuffer, BufferType
<1>3. Wiring \in WireType
    BY <1>2, WiringType DEF Wiring
<1>4. \A i \in Inputs : reader[i] = NoReader
    BY DEF FInit
<1>5. NoStray(ffg.edges, Wiring)
    BY <1>4, WiringFields, EmptyReader DEF NoStray, Wiring
<1>6. threw = FALSE /\ starts = 0
    BY DEF FInit
<1> QED
    BY <1>1, <1>3, <1>4, <1>5, <1>6 DEF FInv, Once, Graphs, Kept

-----------------------------------------------------------------------------
(* Each action keeps it.                                                     *)

LEMMA EditKeeps ==
    ASSUME Graphs, Edit
    PROVE  Graph(edges')
<1>1. PICK e \in Edges : \/ e \notin edges /\ Connectable(edges, e) /\ edges' = edges \cup {e}
                         \/ e \in edges /\ edges' = edges \ {e}
    BY DEF Edit
<1>2. Edges \subseteq EdgeType
    BY FlatAssumption DEF EdgeType
<1>3. Graph(edges) /\ e \in EdgeType
    BY <1>2 DEF Graphs
<1>4. CASE Connectable(edges, e) /\ edges' = edges \cup {e}
    <2>1. \A d \in edges : d.dst # e.dst
        BY <1>4 DEF Connectable, check_dst_not_used
    <2> QED
        BY <1>3, <1>4, <2>1 DEF Graph
<1>5. CASE edges' = edges \ {e}
    BY <1>3, <1>5 DEF Graph
<1> QED
    BY <1>1, <1>4, <1>5

\* A call that leaves the wiring as it is.
LEMMA NotWired ==
    ASSUME Graphs, Graph(edges'), UNCHANGED <<ffg, detail, reader, buffer>>, threw' \in BOOLEAN
    PROVE  Graphs' /\ Wiring' = Wiring
<1>1. Wiring' = Wiring
    BY DEF Wiring
<1>2. Graphs' = (/\ Graph(edges') /\ Graph(ffg'.edges) /\ ffg'.blocks = calc_used_blocks(ffg'.edges, {})
                 /\ Wiring' \in WireType /\ threw' \in BOOLEAN)
    BY DEF Graphs
<1> QED
    BY <1>1, <1>2 DEF Graphs

\* start(): validate throws, or there is a loop, or all of it is wired.
LEMMA StartKeeps ==
    ASSUME FInv, Start
    PROVE  /\ FInv'
           /\ Once /\ MaxStarts = 1 => Once'
<1>1. Graphs /\ Graph(edges) /\ Wiring \in WireType /\ threw \in BOOLEAN /\ edges' = edges
    BY DEF FInv, Graphs, Start
<1>2. threw' = (threw \/ failed' # "no") /\ threw' \in BOOLEAN
    BY DEF Start
<1>3. ffg' = [edges |-> edges, blocks |-> calc_used_blocks(edges, {})] /\ state = "idle"
    BY DEF Start
<1>4. ffg'.edges = edges /\ ffg'.blocks = calc_used_blocks(edges, {})
    BY <1>3
<1>5. CASE ~Valid(edges)
    <2>1. failed' = "threw" /\ UNCHANGED <<detail, reader, buffer, state>>
        BY <1>5 DEF Start
    <2>2. Wiring' = Wiring
        BY <2>1 DEF Wiring
    <2>3. Graphs'
        BY <1>1, <1>2, <1>4, <2>2 DEF Graphs
    <2>4. threw' /\ state' = "idle"
        BY <1>2, <1>3, <2>1
    <2>5. FInv'
        BY <2>3, <2>4 DEF FInv, Kept
    <2>6. ASSUME Once, MaxStarts = 1 PROVE Once'
        <3>1. starts' \in Nat /\ starts' # 0
            BY <2>6 DEF Once, Start
        <3> QED
            BY <2>4, <3>1 DEF Once
    <2> QED
        BY <2>5, <2>6
<1>6. CASE Valid(edges)
    <2> DEFINE v == setup_connections(edges, Wiring)
               w == Wires(v.detail, v.reader, v.buffer, "no")
    <2>1. detail' = v.detail /\ reader' = v.reader /\ buffer' = v.buffer
        BY <1>6 DEF Start, Wire
    <2>2. Wiring.failed = "no" /\ Wiring.reader = reader
        BY WiringFields DEF Wiring
    <2>3. SetUp(edges, v, Wiring)
        BY <1>1, <1>6, <2>2, IsSetUp
    <2> HIDE DEF v
    <2>4. Wiring' = w
        BY <2>1 DEF Wiring
    <2>5. v \in WireType
        BY <2>3 DEF SetUp
    <2>6. w \in WireType /\ SameWiring(w, v)
        BY <2>5, TakenOver
    <2> HIDE DEF w
    <2>7. /\ Connected(edges, v) => Connected(edges, w)
          /\ NoStray(edges, v) => NoStray(edges, w)
          /\ Detailed(calc_used_blocks(edges, {}), v) => Detailed(calc_used_blocks(edges, {}), w)
        BY <1>1, <2>5, <2>6, StaysWired
    <2>8. Connected(edges, w) /\ Detailed(calc_used_blocks(edges, {}), w)
        BY <2>3, <2>7 DEF SetUp
    <2>9. Graphs'
        BY <1>1, <1>2, <1>4, <2>4, <2>6 DEF Graphs
    <2>10. Kept'
        BY <1>4, <2>4, <2>8 DEF Kept
    <2>11. state' = "idle" \/ state' = "running"
        BY <1>6 DEF Start
    <2>12. FInv'
        BY <1>4, <1>6, <2>9, <2>10, <2>11 DEF FInv
    <2>13. ASSUME Once, MaxStarts = 1 PROVE Once'
        <3>1. starts' \in Nat /\ starts' # 0 /\ starts = 0
            BY <2>13 DEF Once, Start
        <3>2. \A i \in Inputs : Wiring.reader[i] = NoReader
            BY <2>2, <2>13, <3>1 DEF Once
        <3>3. NoStray(edges, w)
            BY <2>3, <2>7, <3>2 DEF SetUp
        <3> QED
            BY <1>4, <2>4, <3>1, <3>3 DEF Once
    <2> QED
        BY <2>12, <2>13
<1> QED
    BY <1>5, <1>6

\* unlock(): the old graph is kept if validate or the merge throws; what is
\* merged is wired, and the edges that were there go on where they were.
LEMMA UnlockKeeps ==
    ASSUME FInv, Unlock
    PROVE  /\ FInv'
           /\ Once => Once'
           /\ state' = "running" /\ ~threw =>
                 \A e \in ffg.edges \cap ffg'.edges :
                    SameItem(reader'[At(e)], reader[At(e)]) /\ reader[At(e)] # NoReader
<1>1. Graphs /\ Graph(edges) /\ Graph(ffg.edges) /\ Wiring \in WireType /\ threw \in BOOLEAN /\ edges' = edges
    BY DEF FInv, Graphs, Unlock
<1>2. threw' = (threw \/ failed' # "no") /\ threw' \in BOOLEAN
    BY DEF Unlock
<1>3. state = "locked" /\ starts' = starts /\ state' = IF failed' = "no" THEN "running" ELSE "halted"
    BY DEF Unlock
<1>4. Once => starts # 0
    BY <1>3 DEF Once
<1>5. CASE ~Valid(edges)
    <2>1. failed' = "threw" /\ UNCHANGED <<ffg, detail, reader, buffer>>
        BY <1>5 DEF Unlock
    <2>2. Graphs'
        BY <1>1, <1>2, <2>1, NotWired
    <2>3. threw' /\ state' = "halted"
        BY <1>2, <1>3, <2>1
    <2>4. FInv'
        BY <2>2, <2>3 DEF FInv, Kept
    <2>5. Once => Once'
        BY <1>3, <1>4, <2>3 DEF Once
    <2> QED
        BY <2>3, <2>4, <2>5
<1>6. CASE Valid(edges)
    <2> DEFINE v == merge_connections(edges, ffg, Wiring)
               w == Wires(v.detail, v.reader, v.buffer, "no")
    <2>1. /\ detail' = v.detail /\ reader' = v.reader /\ buffer' = v.buffer
          /\ ffg' = IF v.failed = "no" THEN [edges |-> edges, blocks |-> calc_used_blocks(edges, {})] ELSE ffg
          /\ failed' = IF v.failed = "no" /\ HasLoop(edges) THEN "threw" ELSE v.failed
        BY <1>6 DEF Unlock, Wire
    <2>2. Remade(edges, ffg, v, Wiring)
        BY <1>1, IsRemade
    <2> HIDE DEF v
    <2>3. Wiring' = w /\ w.reader = reader' /\ Wiring.reader = reader
        BY <2>1, WiringFields DEF Wiring
    <2>4. v \in WireType
        BY <2>2 DEF Remade
    <2>5. w \in WireType /\ SameWiring(w, v)
        BY <2>4, TakenOver
    <2> HIDE DEF w
    <2>6. CASE v.failed # "no"
        <3>1. ffg' = ffg /\ failed' # "no"
            BY <2>1, <2>6
        <3>2. threw' /\ state' = "halted"
            BY <1>2, <1>3, <3>1
        <3>3. Graphs'
            BY <1>1, <1>2, <2>3, <2>5, <3>1 DEF Graphs
        <3>4. FInv'
            BY <3>2, <3>3 DEF FInv, Kept
        <3>5. Once => Once'
            BY <1>3, <1>4, <3>2 DEF Once
        <3> QED
            BY <3>2, <3>4, <3>5
    <2>7. CASE v.failed = "no"
        <3>1. ffg'.edges = edges /\ ffg'.blocks = calc_used_blocks(edges, {})
            BY <2>1, <2>7
        <3>2. /\ Connected(edges, v) => Connected(edges, w)
              /\ NoStray(edges, v) => NoStray(edges, w)
              /\ Detailed(calc_used_blocks(edges, {}), v) => Detailed(calc_used_blocks(edges, {}), w)
            BY <1>1, <2>4, <2>5, StaysWired
        <3>3. Connected(edges, w) /\ Detailed(calc_used_blocks(edges, {}), w)
            BY <2>2, <2>7, <3>2 DEF Remade
        <3>4. Graphs'
            BY <1>1, <1>2, <2>3, <2>5, <3>1 DEF Graphs
        <3>5. Kept'
            BY <2>3, <3>1, <3>3 DEF Kept
        <3>6. state' = "halted" => threw'
            BY <1>2, <1>3
        <3>7. FInv'
            BY <1>6, <3>1, <3>4, <3>5, <3>6 DEF FInv
        <3>8. ASSUME Once PROVE Once'
            <4>1. CASE threw
                BY <1>2, <1>3, <1>4, <3>8, <4>1 DEF Once
            <4>2. CASE ~threw
                <5>1. NoStray(ffg.edges, Wiring)
                    BY <3>8, <4>2 DEF Once
                <5>2. NoStray(edges, w)
                    BY <2>2, <3>2, <5>1 DEF Remade
                <5> QED
                    BY <1>3, <1>4, <2>3, <3>1, <3>8, <5>2 DEF Once
            <4> QED
                BY <4>1, <4>2
        <3>9. ASSUME ~threw, NEW e \in ffg.edges \cap ffg'.edges
              PROVE  SameItem(reader'[At(e)], reader[At(e)]) /\ reader[At(e)] # NoReader
            <4>1. /\ Connected(ffg.edges, Wiring) /\ Detailed(ffg.blocks, Wiring)
                  /\ ffg.blocks = calc_used_blocks(ffg.edges, {})
                BY <1>1, <1>3, <3>9 DEF FInv, Kept, Graphs
            <4>2. SameItem(v.reader[At(e)], Wiring.reader[At(e)])
                BY <2>2, <3>1, <3>9, <4>1 DEF Remade
            <4>3. Wiring.reader[At(e)].on = From(Wiring.buffer, e)
                BY <3>9, <4>1 DEF Connected
            <4>4. From(Wiring.buffer, e) # <<>>
                BY <1>1, FromType, WireParts DEF Graph
            <4> QED
                BY <2>1, <2>3, <4>2, <4>3, <4>4, EmptyReader
        <3> QED
            BY <3>7, <3>8, <3>9
    <2> QED
        BY <2>6, <2>7
<1> QED
    BY <1>5, <1>6

\* A block writes an item: indices move, and its readers have one more to read.
LEMMA WriteMoves ==
    ASSUME Wiring \in WireType, NEW b \in Blocks, NEW p \in Ports, Write(b, p)
    PROVE  Wiring' \in WireType /\ SameWiring(Wiring', Wiring)
<1> DEFINE o == <<b, p>>
           x == buffer[o]
           u == [x EXCEPT !.write = index_add(x.write, 1), !.offset = x.offset + 1]
<1>1. /\ detail \in [Blocks -> DetailType] /\ reader \in [Inputs -> ReaderType]
      /\ buffer \in [Inputs -> BufferType]
    BY WiringType DEF Wiring
<1>2. o \in Inputs /\ x \in BufferType
    BY <1>1 DEF Inputs
<1>3. u \in BufferType /\ u.age = x.age
    <2>1. index_add(x.write, 1) \in Int /\ x.offset + 1 \in Int
        <3>1. x.write \in Int /\ x.offset \in Int /\ 1 \in Int
            BY <1>2 DEF BufferType
        <3> HIDE DEF x
        <3>2. index_add(x.write, 1) \in Int
            BY <3>1, Indices, Zenon
        <3> QED
            BY <3>1, <3>2
    <2> QED
        BY <1>2, <2>1, BufferMoved, Zenon
<1>4. buffer' = [buffer EXCEPT ![o] = u]
    <2>1. buffer' = [buffer EXCEPT ![o].write = index_add(@, 1), ![o].offset = @ + 1]
        BY DEF Write
    <2> QED
        BY <1>1, <1>2, <2>1 DEF BufferType
<1> HIDE DEF u
<1>5. buffer' \in [Inputs -> BufferType] /\ \A i \in Inputs : buffer'[i].age = buffer[i].age
    <2> HIDE DEF o
    <2> QED
        BY <1>1, <1>2, <1>3, <1>4
<1>6. reader' \in [Inputs -> ReaderType] /\ \A i \in Inputs : reader'[i].on = reader[i].on
    <2>1. ASSUME NEW i \in Inputs
          PROVE  /\ [reader[i] EXCEPT !.due = @ + 1] \in ReaderType
                 /\ [reader[i] EXCEPT !.due = @ + 1].on = reader[i].on
        <3>1. reader[i] \in ReaderType
            BY <1>1
        <3> QED
            BY <3>1 DEF ReaderType
    <2>2. reader' = [i \in Inputs |-> IF i \in ReadersOf(b, p) THEN [reader[i] EXCEPT !.due = @ + 1]
                                      ELSE reader[i]]
        BY DEF Write
    <2> QED
        BY <1>1, <2>1, <2>2
<1>7. detail' = detail
    BY DEF Write
<1>8. Wiring' = Wires(detail', reader', buffer', "no") /\ Wiring = Wires(detail, reader, buffer, "no")
    BY DEF Wiring
<1> QED
    BY <1>1, <1>5, <1>6, <1>7, <1>8, WiringType, WiringFields DEF SameWiring, SameBuffers

\* A block consumes an item: one reader moves on.
LEMMA ReadMoves ==
    ASSUME Wiring \in WireType, NEW i \in Inputs, Read(i)
    PROVE  Wiring' \in WireType /\ SameWiring(Wiring', Wiring)
<1> DEFINE x == reader[i]
           y == [x EXCEPT !.read = index_add(x.read, 1), !.offset = x.offset + 1]
           u == [y EXCEPT !.due = @ - 1]
<1>1. /\ detail \in [Blocks -> DetailType] /\ reader \in [Inputs -> ReaderType]
      /\ buffer \in [Inputs -> BufferType]
    BY WiringType DEF Wiring
<1>2. x \in ReaderType
    BY <1>1
<1>3. y \in ReaderType /\ y.on = x.on
    <2>1. index_add(x.read, 1) \in Int /\ x.offset + 1 \in Int
        <3>1. x.read \in Int /\ x.offset \in Int /\ 1 \in Int
            BY <1>2 DEF ReaderType
        <3> HIDE DEF x
        <3>2. index_add(x.read, 1) \in Int
            BY <3>1, Indices, Zenon
        <3> QED
            BY <3>1, <3>2
    <2> QED
        BY <1>2, <2>1, ReaderMoved, Zenon
<1>4. u \in ReaderType /\ u.on = x.on
    <2> HIDE DEF y
    <2> QED
        BY <1>3 DEF ReaderType
<1>5. reader' = [reader EXCEPT ![i] = u]
    <2>1. reader' = [reader EXCEPT ![i].read = index_add(@, 1), ![i].offset = @ + 1, ![i].due = @ - 1]
        BY DEF Read
    <2> QED
        BY <1>1, <1>2, <2>1 DEF ReaderType
<1> HIDE DEF u
<1>6. reader' \in [Inputs -> ReaderType] /\ \A j \in Inputs : reader'[j].on = reader[j].on
    BY <1>1, <1>4, <1>5
<1>7. detail' = detail /\ buffer' = buffer
    BY DEF Read
<1>8. Wiring' = Wires(detail', reader', buffer', "no") /\ Wiring = Wires(detail, reader, buffer, "no")
    BY DEF Wiring
<1> QED
    BY <1>1, <1>6, <1>7, <1>8, WiringType, WiringFields DEF SameWiring, SameBuffers

LEMMA ItemsKeep ==
    ASSUME FInv, Wiring' \in WireType, SameWiring(Wiring', Wiring),
           UNCHANGED <<edges, state, ffg, threw, starts>>, state = "running"
    PROVE  FInv' /\ (Once => Once')
<1>1. Graphs /\ Graph(ffg.edges) /\ Wiring \in WireType
    BY DEF FInv, Graphs
<1>2. /\ Connected(ffg.edges, Wiring) => Connected(ffg.edges, Wiring')
      /\ NoStray(ffg.edges, Wiring) => NoStray(ffg.edges, Wiring')
      /\ Detailed(ffg.blocks, Wiring) => Detailed(ffg.blocks, Wiring')
    BY <1>1, StaysWired
<1>3. Graphs'
    BY <1>1 DEF Graphs
<1>4. Kept'
    BY <1>2 DEF FInv, Kept
<1>5. FInv'
    BY <1>3, <1>4 DEF FInv
<1>6. Once => Once'
    BY <1>2 DEF Once
<1> QED
    BY <1>5, <1>6

\* What neither wires nor moves an item.
LEMMA OthersKeep ==
    ASSUME FInv, Edit \/ Stop \/ Lock
    PROVE  FInv' /\ (Once => Once')
<1>1. Graphs /\ threw \in BOOLEAN
    BY DEF FInv, Graphs
<1>2. UNCHANGED <<ffg, detail, reader, buffer, threw, starts>>
    BY DEF Edit, Stop, Lock
<1>3. Graph(edges')
    BY <1>1, EditKeeps DEF Graphs, Stop, Lock
<1>4. Graphs' /\ Wiring' = Wiring
    BY <1>1, <1>2, <1>3, NotWired
<1>5. /\ state' = "locked" /\ ~threw => state = "running" \/ state = "locked"
      /\ state' # "running" /\ state' # "halted"
    BY DEF FInv, Edit, Stop, Lock
<1>6. FInv'
    <2>1. state' = "locked" /\ ~threw => Connected(ffg.edges, Wiring) /\ Detailed(ffg.blocks, Wiring)
        BY <1>5 DEF FInv, Kept
    <2>2. Kept'
        BY <1>2, <1>4, <1>5, <2>1 DEF Kept
    <2> QED
        BY <1>4, <1>5, <2>2 DEF FInv
<1>7. Once => Once'
    <2>1. starts = 0 /\ Once => state' = "idle"
        BY DEF Once, Edit, Stop, Lock
    <2> QED
        BY <1>2, <1>4, <2>1 DEF Once
<1> QED
    BY <1>6, <1>7

LEMMA FInvNext ==
    ASSUME FInv, [FNext]_fvars
    PROVE  /\ FInv'
           /\ Once /\ MaxStarts = 1 => Once'
<1>1. CASE Start
    BY <1>1, StartKeeps
<1>2. CASE Unlock
    BY <1>2, UnlockKeeps
<1>3. CASE Edit \/ Stop \/ Lock
    BY <1>3, OthersKeep
<1>4. ASSUME NEW b \in Blocks, NEW p \in Ports, Write(b, p) PROVE FInv' /\ (Once => Once')
    <2>1. Wiring' \in WireType /\ SameWiring(Wiring', Wiring)
        BY <1>4, WriteMoves DEF FInv, Graphs
    <2> QED
        BY <1>4, <2>1, ItemsKeep DEF Write
<1>5. ASSUME NEW i \in Inputs, Read(i) PROVE FInv' /\ (Once => Once')
    <2>1. Wiring' \in WireType /\ SameWiring(Wiring', Wiring)
        BY <1>5, ReadMoves DEF FInv, Graphs
    <2> QED
        BY <1>5, <2>1, ItemsKeep DEF Read
<1>6. CASE UNCHANGED fvars
    <2>1. Wiring' = Wiring
        BY <1>6 DEF fvars, Wiring
    <2> QED
        BY <1>6, <2>1 DEF fvars, FInv, Graphs, Kept, Once
<1> QED
    BY <1>1, <1>2, <1>3, <1>4, <1>5, <1>6 DEF FNext

-----------------------------------------------------------------------------
(* The theorems.                                                             *)

\* What runs is wired: the part of WiredAsEdges about the edges there are.
EachConnected ==
    state = "running" =>
        \A e \in ffg.edges :
            reader[<<e.dst.block, e.dst.port>>].on = BufferOf(buffer, e.src.block, e.src.port)

LEMMA FInvConnects == FInv => RunsValid /\ EachConnected
<1> SUFFICES ASSUME FInv, state = "running" PROVE RunsValid /\ EachConnected
    BY DEF RunsValid, EachConnected
<1>1. Graph(ffg.edges) /\ ffg.blocks = calc_used_blocks(ffg.edges, {}) /\ Valid(ffg.edges)
    BY DEF FInv, Graphs
<1>2. Connected(ffg.edges, Wiring) /\ Wiring.reader = reader /\ Wiring.buffer = buffer
    BY WiringFields DEF FInv, Kept, Wiring
<1>3. EachConnected
    BY <1>2 DEF EachConnected, Connected, At, From
<1>4. \A d, e \in ffg.edges : d.dst = e.dst => d = e
    BY <1>1 DEF Graph
<1>5. \A b \in ffg.blocks :
          /\ InputsUsed(ffg.edges, b) = 0 .. Cardinality(InputsUsed(ffg.edges, b)) - 1
          /\ Cardinality(InputsUsed(ffg.edges, b)) >= input_signature[b].min
          /\ OutputsUsed(ffg.edges, b) = 0 .. Cardinality(OutputsUsed(ffg.edges, b)) - 1
          /\ check_topology(ffg.edges, b)
    BY <1>1, Zenon DEF Valid, check_contiguity
<1> QED
    BY <1>3, <1>4, <1>5, Zenon DEF RunsValid

LEMMA OnceWires == FInv /\ Once => RunsAsWired
<1> SUFFICES ASSUME FInv, Once PROVE RunsAsWired
    OBVIOUS
<1>1. RunsValid /\ EachConnected
    BY FInvConnects
<1>2. ASSUME ~threw, NEW b \in ffg.blocks, NEW p \in Ports, NEW i \in ReadersOf(b, p)
      PROVE  Edge(b, p, i[1], i[2]) \in ffg.edges
    <2>1. i \in Inputs /\ reader[i].on = BufferOf(buffer, b, p)
        BY DEF ReadersOf
    <2>2. BufferOf(buffer, b, p) # <<>> /\ BufferOf(buffer, b, p)[1] = b /\ BufferOf(buffer, b, p)[2] = p
        BY DEF BufferOf
    <2>3. NoStray(ffg.edges, Wiring) /\ Wiring.reader = reader
        BY <1>2, WiringFields DEF Once, Wiring
    <2> QED
        BY <2>1, <2>2, <2>3 DEF NoStray
<1>3. WiredAsEdges
    BY <1>1, <1>2, Zenon DEF WiredAsEdges, EachConnected
<1> QED
    BY <1>1, <1>3 DEF RunsAsWired

(* For every graph, however often it is started, changed and restarted: what *)
(* runs can run, and each input reads from the buffer its source writes now. *)
THEOREM AlwaysConnected == FSpec => [](RunsValid /\ EachConnected)
<1>1. FInit => FInv
    BY FInvInit
<1>2. FInv /\ [FNext]_fvars => FInv'
    BY FInvNext
<1>3. FInv => RunsValid /\ EachConnected
    BY FInvConnects
<1> QED
    BY <1>1, <1>2, <1>3, PTL DEF FSpec

(* If the program starts its graph once, then whatever it changes under      *)
(* lock: no buffer of a running graph has a reader that nobody reads from.   *)
THEOREM AlwaysWired == ASSUME MaxStarts = 1 PROVE FSpec => []RunsAsWired
<1> DEFINE I == FInv /\ Once
<1>1. FInit => I
    BY FInvInit
<1>2. I /\ [FNext]_fvars => I'
    BY FInvNext
<1>3. I => RunsAsWired
    BY OnceWires
<1> QED
    BY <1>1, <1>2, <1>3, PTL DEF FSpec

(* A reconfiguration never loses, repeats or moves what is in flight on an   *)
(* edge that stays, for any graph and any number of restarts before.         *)
THEOREM ReconfigurationKeeps == FSpec => InFlightKept
<1> DEFINE KeepsStep == state = "locked" /\ state' = "running" /\ ~threw =>
         \A e \in ffg.edges \cap ffg'.edges :
            LET i == <<e.dst.block, e.dst.port>>
            IN  reader[i] # NoReader /\ reader'[i].read = reader[i].read
                    /\ reader'[i].on = reader[i].on /\ reader'[i].due = reader[i].due
<1>1. FInit => FInv
    BY FInvInit
<1>2. FInv /\ [FNext]_fvars => FInv'
    BY FInvNext
<1>3. FInv /\ [FNext]_fvars => [KeepsStep]_fvars
    <2> SUFFICES ASSUME FInv, FNext, state = "locked", state' = "running", ~threw PROVE KeepsStep
        OBVIOUS
    <2>1. CASE Unlock
        BY <2>1, UnlockKeeps DEF SameItem, At
    <2>2. ~Edit /\ ~Start /\ ~Stop /\ ~Lock
        BY DEF Edit, Start, Stop, Lock
    <2>3. /\ \A b \in Blocks, p \in Ports : ~Write(b, p)
          /\ \A i \in Inputs : ~Read(i)
        BY DEF Write, Read
    <2> QED
        BY <2>1, <2>2, <2>3 DEF FNext
<1> QED
    BY <1>1, <1>2, <1>3, PTL DEF FSpec, InFlightKept

-----------------------------------------------------------------------------
(* The depth-first visits: sequences and least members.                      *)

LEMMA LeastIs ==
    ASSUME NEW T, T \subseteq Nat, T # {}
    PROVE  Min(T) \in T /\ \A y \in T : Min(T) <= y
<1>1. \E x \in T : \A y \in T : x <= y
    <2> SUFFICES ASSUME \A x \in T : \E y \in T : ~(x <= y) PROVE FALSE
        OBVIOUS
    <2> DEFINE S == {n \in Nat : \A m \in 0 .. n : m \notin T}
    <2>1. 0 \in S
        <3>1. \A y \in T : 0 <= y
            OBVIOUS
        <3>2. \A m \in 0 .. 0 : m = 0
            OBVIOUS
        <3> QED
            BY <3>1, <3>2
    <2>2. ASSUME NEW n \in Nat, n \in S PROVE n + 1 \in S
        <3>1. \A y \in T : n + 1 <= y
            BY <2>2
        <3>2. n + 1 \notin T
            BY <3>1
        <3>3. \A m \in 0 .. n + 1 : m \in 0 .. n \/ m = n + 1
            OBVIOUS
        <3> QED
            BY <2>2, <3>2, <3>3
    <2>3. \A n \in Nat : n \in S
        <3> HIDE DEF S
        <3> QED
            BY <2>1, <2>2, Induction
    <2>4. \A n \in Nat : n \in 0 .. n
        OBVIOUS
    <2> QED
        BY <2>3, <2>4
<1> QED
    BY <1>1 DEF Min

LEMMA Ends ==
    ASSUME NEW T, NEW p \in Seq(T), p # <<>>
    PROVE  /\ Len(p) \in Nat /\ Len(p) > 0 /\ Last(p) \in T /\ Last(p) = p[Len(p)]
           /\ Front(p) \in Seq(T) /\ Len(Front(p)) = Len(p) - 1
           /\ \A i \in 1 .. Len(p) - 1 : Front(p)[i] = p[i]
           /\ \A i \in 1 .. Len(p) : p[i] \in T
<1>1. Len(p) \in Nat /\ Len(p) > 0 /\ \A i \in 1 .. Len(p) : p[i] \in T
    OBVIOUS
<1>2. /\ Front(p) \in Seq(T) /\ Len(Front(p)) = Len(p) - 1
      /\ \A i \in 1 .. Len(p) - 1 : Front(p)[i] = p[i]
    <2> DEFINE n == Len(p) - 1
    <2>1. n \in Int /\ 1 \in Int /\ \A i \in 1 .. n : p[i] \in T
        BY <1>1
    <2>2. n = Len(p) - 1 /\ n >= 0
        BY <1>1
    <2> HIDE DEF n
    <2>3. /\ SubSeq(p, 1, n) \in Seq(T) /\ Len(SubSeq(p, 1, n)) = (IF 1 <= n THEN n - 1 + 1 ELSE 0)
          /\ \A i \in 1 .. n - 1 + 1 : SubSeq(p, 1, n)[i] = p[1 + i - 1]
        BY <2>1, SubSeqProperties
    <2>4. n - 1 + 1 = n /\ \A i \in 1 .. n : 1 + i - 1 = i
        BY <2>1
    <2>5. Front(p) = SubSeq(p, 1, n)
        BY <2>2 DEF Front
    <2> QED
        BY <2>2, <2>3, <2>4, <2>5
<1> QED
    BY <1>1, <1>2 DEF Last

LEMMA Longer ==
    ASSUME NEW T, NEW p \in Seq(T), NEW b \in T
    PROVE  /\ Append(p, b) \in Seq(T) /\ Len(Append(p, b)) = Len(p) + 1 /\ Len(p) \in Nat
           /\ Append(p, b)[Len(p) + 1] = b
           /\ \A i \in 1 .. Len(p) : Append(p, b)[i] = p[i]
           /\ Append(p, b) # <<>>
    OBVIOUS

LEMMA Wider ==
    ASSUME NEW S, NEW T, S \subseteq T, NEW p \in Seq(S)
    PROVE  p \in Seq(T)
    OBVIOUS

-----------------------------------------------------------------------------
(* partition.                                                                *)

On(p, b) == \E i \in 1 .. Len(p) : p[i] = b

Closed(E, T) == \A b \in T : calc_adjacent_blocks(E, b) \subseteq T

\* A part that falls apart only if an edge is cut.
Whole(E, T) ==
    \A cut \in SUBSET T : cut # {} /\ cut # T =>
        \E b \in cut : \E d \in T \ cut : d \in calc_adjacent_blocks(E, b)

ReachType(B, s) ==
    /\ s = Reach(s.path, s.white, s.rest, s.parts)
    /\ s.path \in Seq(s.rest \ s.white) /\ s.white \subseteq s.rest /\ s.rest \subseteq B
    /\ s.path = <<>> => s.rest = s.white

Apart(E, B, s) ==
    /\ UNION s.parts = B \ s.rest
    /\ \A p, q \in s.parts : p # q => p \cap q = {}
    /\ \A p \in s.parts : Closed(E, p) /\ Whole(E, p)

Visited(E, s) ==
    /\ Closed(E, s.rest) /\ Whole(E, s.rest \ s.white)
    /\ \A b \in s.rest \ s.white : On(s.path, b) \/ calc_adjacent_blocks(E, b) \cap s.white = {}

Reaching(E, B, s) == ReachType(B, s) /\ Apart(E, B, s) /\ Visited(E, s)

Counted(B, s, n) ==
    \/ s.path = <<>> /\ s.white = {}
    \/ n + 2 * Cardinality(s.white) + Len(s.path) = 2 * Cardinality(B)

LEMMA BesideIs ==
    ASSUME NEW E, NEW b, NEW d
    PROVE  d \in calc_adjacent_blocks(E, b) <=> b \in calc_adjacent_blocks(E, d)
    BY DEF calc_adjacent_blocks, calc_downstream_blocks

LEMMA ReachParts ==
    ASSUME NEW p, NEW w, NEW r, NEW q
    PROVE  /\ Reach(p, w, r, q).path = p /\ Reach(p, w, r, q).white = w
           /\ Reach(p, w, r, q).rest = r /\ Reach(p, w, r, q).parts = q
    BY DEF Reach

LEMMA ReachStarts ==
    ASSUME NEW E, NEW B, Closed(E, B)
    PROVE  Reaching(E, B, Reach(<<>>, B, B, {}))
<1> DEFINE s == Reach(<<>>, B, B, {})
<1>1. s.path = <<>> /\ s.white = B /\ s.rest = B /\ s.parts = {}
    BY ReachParts
<1>2. ReachType(B, s)
    <2>1. s = Reach(s.path, s.white, s.rest, s.parts)
        BY <1>1
    <2> HIDE DEF s
    <2> QED
        BY <1>1, <2>1 DEF ReachType
<1> HIDE DEF s
<1>3. Apart(E, B, s)
    BY <1>1 DEF Apart
<1>4. Visited(E, s)
    <2>1. B \ B = {} /\ Whole(E, {})
        BY DEF Whole
    <2> QED
        BY <1>1, <2>1 DEF Visited
<1> QED
    BY <1>2, <1>3, <1>4 DEF Reaching, s

\* A visit begins: of the first block of a part, or of a neighbour of a visited one.
LEMMA ReachGrows ==
    ASSUME NEW E, NEW B, NEW s, Reaching(E, B, s), NEW d \in s.white,
           \/ s.path = <<>>
           \/ \E b \in s.rest \ s.white : d \in calc_adjacent_blocks(E, b)
    PROVE  Reaching(E, B, Reached(s, d))
<1> DEFINE t == Reached(s, d)
<1>1. /\ t.path = Append(s.path, d) /\ t.white = s.white \ {d}
      /\ t.rest = s.rest /\ t.parts = s.parts
    BY DEF Reached, Reach
<1>2. /\ s.path \in Seq(s.rest \ s.white) /\ s.white \subseteq s.rest /\ s.rest \subseteq B
      /\ s.path = <<>> => s.rest = s.white
    BY DEF Reaching, ReachType
<1>3. s.rest \ t.white = (s.rest \ s.white) \cup {d} /\ d \notin s.rest \ s.white
    BY <1>1, <1>2
<1>4. /\ t.path \in Seq(s.rest \ t.white) /\ t.path # <<>> /\ On(t.path, d)
      /\ \A b : On(s.path, b) => On(t.path, b)
    <2>1. s.path \in Seq(s.rest \ t.white) /\ d \in s.rest \ t.white
        BY <1>2, <1>3, Wider
    <2>2. /\ Append(s.path, d) \in Seq(s.rest \ t.white) /\ Len(Append(s.path, d)) = Len(s.path) + 1
          /\ Len(s.path) \in Nat
          /\ Append(s.path, d)[Len(s.path) + 1] = d
          /\ \A i \in 1 .. Len(s.path) : Append(s.path, d)[i] = s.path[i]
          /\ Append(s.path, d) # <<>>
        BY <2>1, Longer
    <2> QED
        BY <1>1, <2>2 DEF On
<1>5. ReachType(B, t)
    <2>1. t = Reach(t.path, t.white, t.rest, t.parts)
        BY <1>1 DEF Reached
    <2> HIDE DEF t
    <2> QED
        BY <1>1, <1>2, <1>4, <2>1 DEF ReachType
<1> HIDE DEF t
<1>6. Apart(E, B, t)
    BY <1>1 DEF Apart, Reaching
<1>7. Whole(E, s.rest \ t.white)
    <2> SUFFICES ASSUME NEW cut \in SUBSET (s.rest \ t.white), cut # {}, cut # s.rest \ t.white
                 PROVE  \E b \in cut : \E c \in (s.rest \ t.white) \ cut : c \in calc_adjacent_blocks(E, b)
        BY DEF Whole
    <2> DEFINE T == s.rest \ s.white
               old == cut \ {d}
    <2>1. old \subseteq T
        BY <1>3
    <2>2. CASE old # {} /\ old # T
        <3>1. PICK b \in old : \E c \in T \ old : c \in calc_adjacent_blocks(E, b)
            <4>1. Whole(E, T)
                BY DEF Reaching, Visited
            <4> HIDE DEF T, old
            <4> QED
                BY <2>1, <2>2, <4>1 DEF Whole
        <3> QED
            BY <1>3, <3>1
    <2>3. CASE s.path = <<>>
        BY <1>2, <1>3, <2>3
    <2>4. ASSUME NEW b \in T, d \in calc_adjacent_blocks(E, b), old = {} \/ old = T
          PROVE  \E x \in cut : \E c \in (s.rest \ t.white) \ cut : c \in calc_adjacent_blocks(E, x)
        <3>1. CASE old = {}
            BY <1>3, <2>4, <3>1, BesideIs
        <3>2. CASE old = T
            BY <1>3, <2>4, <3>2
        <3> QED
            BY <2>4, <3>1, <3>2
    <2> QED
        BY <2>2, <2>3, <2>4
<1>8. Visited(E, t)
    BY <1>1, <1>3, <1>4, <1>7 DEF Visited, Reaching
<1> QED
    BY <1>5, <1>6, <1>8 DEF Reaching, t

\* A visit ends whose block has no white neighbour.
LEMMA ReachReturns ==
    ASSUME NEW E, NEW B, NEW s, Reaching(E, B, s), s.path # <<>>,
           calc_adjacent_blocks(E, Last(s.path)) \cap s.white = {}
    PROVE  /\ Len(s.path) > 1 =>
                  Reaching(E, B, Reach(Front(s.path), s.white, s.rest, s.parts))
           /\ Len(s.path) = 1 =>
                  Reaching(E, B, Reach(<<>>, s.white, s.white, s.parts \cup {s.rest \ s.white}))
<1>1. /\ s.path \in Seq(s.rest \ s.white) /\ s.white \subseteq s.rest /\ s.rest \subseteq B
    BY DEF Reaching, ReachType
<1>2. /\ Len(s.path) \in Nat /\ Len(s.path) > 0 /\ Last(s.path) = s.path[Len(s.path)]
      /\ Front(s.path) \in Seq(s.rest \ s.white) /\ Len(Front(s.path)) = Len(s.path) - 1
      /\ \A i \in 1 .. Len(s.path) - 1 : Front(s.path)[i] = s.path[i]
    <2> DEFINE p == s.path
               T == s.rest \ s.white
    <2>1. p \in Seq(T) /\ p # <<>>
        BY <1>1
    <2> HIDE DEF p, T
    <2>2. /\ Len(p) \in Nat /\ Len(p) > 0 /\ Last(p) = p[Len(p)]
          /\ Front(p) \in Seq(T) /\ Len(Front(p)) = Len(p) - 1
          /\ \A i \in 1 .. Len(p) - 1 : Front(p)[i] = p[i]
        BY <2>1, Ends
    <2> QED
        BY <2>2 DEF p, T
<1>3. ASSUME Len(s.path) > 1
      PROVE  Reaching(E, B, Reach(Front(s.path), s.white, s.rest, s.parts))
    <2> DEFINE t == Reach(Front(s.path), s.white, s.rest, s.parts)
    <2>1. /\ t.path = Front(s.path) /\ t.white = s.white /\ t.rest = s.rest /\ t.parts = s.parts
        BY ReachParts
    <2>2. t = Reach(t.path, t.white, t.rest, t.parts)
        BY <2>1
    <2> HIDE DEF t
    <2>3. t.path # <<>>
        BY <1>2, <1>3, <2>1
    <2>4. ReachType(B, t)
        BY <1>1, <1>2, <2>1, <2>2, <2>3 DEF ReachType
    <2>5. Apart(E, B, t)
        BY <2>1 DEF Apart, Reaching
    <2>6. \A b : On(s.path, b) => On(t.path, b) \/ b = Last(s.path)
        BY <1>2, <2>1 DEF On
    <2>7. Visited(E, t)
        BY <2>1, <2>6 DEF Visited, Reaching
    <2> QED
        BY <2>4, <2>5, <2>7 DEF Reaching, t
<1>4. ASSUME Len(s.path) = 1
      PROVE  Reaching(E, B, Reach(<<>>, s.white, s.white, s.parts \cup {s.rest \ s.white}))
    <2> DEFINE new == s.rest \ s.white
               t == Reach(<<>>, s.white, s.white, s.parts \cup {new})
    <2>1. /\ t.path = <<>> /\ t.white = s.white /\ t.rest = s.white /\ t.parts = s.parts \cup {new}
        BY ReachParts
    <2>2. t = Reach(t.path, t.white, t.rest, t.parts)
        BY <2>1
    <2> HIDE DEF t
    <2>3. ReachType(B, t)
        BY <1>1, <2>1, <2>2 DEF ReachType
    <2>4. \A b : On(s.path, b) => b = Last(s.path)
        BY <1>2, <1>4 DEF On
    <2>5. \A b \in new : calc_adjacent_blocks(E, b) \cap s.white = {}
        BY <2>4 DEF Visited, Reaching
    <2>6. Closed(E, s.rest) /\ Whole(E, new)
        BY DEF Visited, Reaching
    <2>7. Closed(E, new)
        BY <2>5, <2>6 DEF Closed
    <2>8. Closed(E, s.white)
        <3> SUFFICES ASSUME NEW b \in s.white, NEW d \in calc_adjacent_blocks(E, b)
                     PROVE  d \in s.white
            BY DEF Closed
        <3>1. d \in s.rest
            BY <1>1, <2>6 DEF Closed
        <3>2. b \in calc_adjacent_blocks(E, d)
            BY BesideIs
        <3> QED
            BY <2>5, <3>1, <3>2
    <2>9. Apart(E, B, t)
        <3>1. /\ UNION s.parts = B \ s.rest
              /\ \A p, q \in s.parts : p # q => p \cap q = {}
              /\ \A p \in s.parts : Closed(E, p) /\ Whole(E, p)
            BY DEF Apart, Reaching
        <3>2. UNION t.parts = B \ t.rest
            BY <1>1, <2>1, <3>1
        <3>3. \A p \in s.parts : p \cap new = {}
            BY <3>1
        <3>4. \A p, q \in t.parts : p # q => p \cap q = {}
            BY <2>1, <3>1, <3>3
        <3>5. \A p \in t.parts : Closed(E, p) /\ Whole(E, p)
            BY <2>1, <2>6, <2>7, <3>1
        <3> QED
            BY <3>2, <3>4, <3>5 DEF Apart
    <2>10. Visited(E, t)
        <3>1. s.white \ s.white = {} /\ Whole(E, {})
            BY DEF Whole
        <3> QED
            BY <2>1, <2>8, <3>1 DEF Visited
    <2> QED
        BY <2>3, <2>9, <2>10 DEF Reaching, t
<1> QED
    BY <1>3, <1>4

\* The steps are counted: each visit is one when it begins and one when it ends.
LEMMA CountEntered ==
    ASSUME NEW w, IsFiniteSet(w), NEW d \in w, NEW T, NEW p \in Seq(T), NEW n \in Nat,
           NEW all \in Nat, n + 2 * Cardinality(w) + Len(p) = all
    PROVE  n + 1 + 2 * Cardinality(w \ {d}) + Len(Append(p, d)) = all
<1>1. Cardinality(w \ {d}) = Cardinality(w) - 1 /\ Cardinality(w) \in Nat
    BY FS_RemoveElement, FS_CardinalityType
<1>2. Len(Append(p, d)) = Len(p) + 1 /\ Len(p) \in Nat
    OBVIOUS
<1> DEFINE c == Cardinality(w)
           l == Len(p)
<1>3. c \in Nat /\ l \in Nat /\ n + 2 * c + l = all
    BY <1>1, <1>2
<1> HIDE DEF c, l
<1>4. n + 1 + 2 * (c - 1) + (l + 1) = all
    BY <1>3
<1> QED
    BY <1>1, <1>2, <1>4 DEF c, l

LEMMA CountLeft ==
    ASSUME NEW w, IsFiniteSet(w), NEW T, NEW p \in Seq(T), p # <<>>, NEW n \in Nat,
           NEW all \in Nat, n + 2 * Cardinality(w) + Len(p) = all
    PROVE  n + 1 + 2 * Cardinality(w) + Len(Front(p)) = all
<1>1. Cardinality(w) \in Nat
    BY FS_CardinalityType
<1>2. Len(Front(p)) = Len(p) - 1 /\ Len(p) \in Nat
    BY Ends
<1> DEFINE c == Cardinality(w)
           l == Len(p)
<1>3. c \in Nat /\ l \in Nat /\ n + 2 * c + l = all
    BY <1>1, <1>2
<1> HIDE DEF c, l
<1>4. n + 1 + 2 * c + (l - 1) = all
    BY <1>3
<1> QED
    BY <1>2, <1>4 DEF c, l

LEMMA ReachSteps ==
    ASSUME NEW E, NEW B, IsFiniteSet(B), B \subseteq Nat, NEW s, Reaching(E, B, s),
           NEW n \in Nat, Counted(B, s, n)
    PROVE  /\ Reaching(E, B, calc_reachable_blocks(E, s))
           /\ Counted(B, calc_reachable_blocks(E, s), n + 1)
<1>1. /\ s.path \in Seq(s.rest \ s.white) /\ s.white \subseteq s.rest /\ s.rest \subseteq B
      /\ s.path = <<>> => s.rest = s.white
    BY DEF Reaching, ReachType
<1>2. IsFiniteSet(s.white) /\ Cardinality(s.white) \in Nat /\ Cardinality(B) \in Nat
    BY <1>1, FS_Subset, FS_CardinalityType
<1>3. Len(s.path) \in Nat /\ (s.path # <<>> => Len(s.path) > 0)
    BY <1>1
<1>4. ASSUME NEW d \in s.white, calc_reachable_blocks(E, s) = Reached(s, d)
      PROVE  Counted(B, calc_reachable_blocks(E, s), n + 1)
    <2>1. /\ Reached(s, d).path = Append(s.path, d) /\ Reached(s, d).white = s.white \ {d}
        BY DEF Reached, Reach
    <2>2. n + 2 * Cardinality(s.white) + Len(s.path) = 2 * Cardinality(B)
        BY <1>4 DEF Counted
    <2>3. 2 * Cardinality(B) \in Nat
        BY <1>2
    <2>4. n + 1 + 2 * Cardinality(s.white \ {d}) + Len(Append(s.path, d)) = 2 * Cardinality(B)
        <3> DEFINE T == s.rest \ s.white
                   all == 2 * Cardinality(B)
        <3>1. s.path \in Seq(T) /\ IsFiniteSet(s.white) /\ all \in Nat
            BY <1>1, <1>2, <2>3
        <3>2. n + 2 * Cardinality(s.white) + Len(s.path) = all
            BY <2>2
        <3> HIDE DEF T, all
        <3>3. n + 1 + 2 * Cardinality(s.white \ {d}) + Len(Append(s.path, d)) = all
            BY <1>4, <3>1, <3>2, CountEntered
        <3> QED
            BY <3>3 DEF all
    <2> QED
        BY <1>4, <2>1, <2>4 DEF Counted
<1>5. CASE s.path = <<>> /\ s.white = {}
    BY <1>5 DEF calc_reachable_blocks, Counted
<1>6. CASE s.path = <<>> /\ s.white # {}
    <2>1. Min(s.white) \in s.white
        BY <1>1, <1>6, LeastIs
    <2>2. calc_reachable_blocks(E, s) = Reached(s, Min(s.white))
        BY <1>6 DEF calc_reachable_blocks
    <2> QED
        BY <1>4, <1>6, <2>1, <2>2, ReachGrows
<1>7. CASE s.path # <<>>
    <2> DEFINE b == Last(s.path)
               next == calc_adjacent_blocks(E, b) \cap s.white
    <2>1. b \in s.rest \ s.white /\ Len(Front(s.path)) = Len(s.path) - 1
        BY <1>1, <1>7, Ends
    <2>2. calc_reachable_blocks(E, s) = reachable_dfs_visit(E, s)
        BY <1>7 DEF calc_reachable_blocks
    <2>3. CASE next # {}
        <3>1. Min(next) \in next
            BY <1>1, <2>3, LeastIs
        <3>2. calc_reachable_blocks(E, s) = Reached(s, Min(next))
            BY <2>2, <2>3 DEF reachable_dfs_visit
        <3> HIDE DEF b
        <3> QED
            BY <1>4, <2>1, <3>1, <3>2, ReachGrows
    <2>4. CASE next = {} /\ Len(s.path) > 1
        <3> DEFINE t == Reach(Front(s.path), s.white, s.rest, s.parts)
        <3>1. calc_reachable_blocks(E, s) = t /\ t.path = Front(s.path) /\ t.white = s.white
            BY <2>2, <2>4 DEF reachable_dfs_visit, Reach
        <3>2. Reaching(E, B, t)
            BY <1>7, <2>4, ReachReturns
        <3> HIDE DEF t
        <3>3. Counted(B, t, n + 1)
            <4>1. n + 2 * Cardinality(s.white) + Len(s.path) = 2 * Cardinality(B)
                BY <1>7 DEF Counted
            <4>2. 2 * Cardinality(B) \in Nat
                BY <1>2
            <4>3. n + 1 + 2 * Cardinality(s.white) + Len(Front(s.path)) = 2 * Cardinality(B)
                BY <1>1, <1>2, <1>7, <4>1, <4>2, CountLeft
            <4> QED
                BY <3>1, <4>3 DEF Counted
        <3> QED
            BY <3>1, <3>2, <3>3
    <2>5. CASE next = {} /\ Len(s.path) = 1
        <3> DEFINE t == Reach(<<>>, s.white, s.white, s.parts \cup {s.rest \ s.white})
        <3>1. calc_reachable_blocks(E, s) = t /\ t.path = <<>> /\ t.white = s.white
            BY <2>2, <2>5 DEF reachable_dfs_visit, Reach
        <3>2. Reaching(E, B, t)
            BY <1>7, <2>5, ReachReturns
        <3> HIDE DEF t
        <3>3. Len(t.path) = 0
            BY <3>1
        <3>4. Counted(B, t, n + 1)
            BY <1>2, <1>3, <1>7, <2>5, <3>1, <3>3 DEF Counted
        <3> QED
            BY <3>1, <3>2, <3>4
    <2>6. Len(s.path) > 1 \/ Len(s.path) = 1
        <3>1. Len(s.path) > 0 /\ Len(s.path) \in Nat
            BY <1>3, <1>7, Zenon
        <3> DEFINE l == Len(s.path)
        <3>2. l > 0 /\ l \in Nat
            BY <3>1
        <3> HIDE DEF l
        <3>3. l > 1 \/ l = 1
            BY <3>2
        <3> QED
            BY <3>3 DEF l
    <2> QED
        BY <2>3, <2>4, <2>5, <2>6
<1> QED
    BY <1>5, <1>6, <1>7

-----------------------------------------------------------------------------
(* Both searches are functions by recursion.                                 *)

OneStep(E, how, s) == IF how = "reach" THEN calc_reachable_blocks(E, s) ELSE Sort(E, s)

IsRun(E, how, start, k, f) ==
    f = [n \in 0 .. k |-> IF n = 0 THEN start ELSE OneStep(E, how, f[n - 1])]

Stepwise(E, how, start, k, f) ==
    f[0] = start /\ \A n \in 1 .. k : f[n] = OneStep(E, how, f[n - 1])

LEMMA RunExists ==
    ASSUME NEW E, NEW how, NEW start, NEW k \in Nat
    PROVE  \E f : IsRun(E, how, start, k, f)
<1> DEFINE S == {n \in Nat : \E f : IsRun(E, how, start, n, f)}
<1>1. 0 \in S
    <2> DEFINE f == [n \in 0 .. 0 |-> start]
    <2>1. \A n \in 0 .. 0 : n = 0
        OBVIOUS
    <2>2. IsRun(E, how, start, 0, f)
        BY <2>1 DEF IsRun
    <2> QED
        BY <2>2
<1>2. ASSUME NEW n \in Nat, n \in S PROVE n + 1 \in S
    <2>1. PICK f : IsRun(E, how, start, n, f)
        BY <1>2
    <2> DEFINE g == [m \in 0 .. n + 1 |-> IF m <= n THEN f[m] ELSE OneStep(E, how, f[n])]
    <2>2. \A m \in 0 .. n : g[m] = f[m]
        OBVIOUS
    <2>3. g[n + 1] = OneStep(E, how, f[n])
        OBVIOUS
    <2>4. \A m \in 0 .. n : f[m] = IF m = 0 THEN start ELSE OneStep(E, how, f[m - 1])
        <3> DEFINE h == [m \in 0 .. n |-> IF m = 0 THEN start ELSE OneStep(E, how, f[m - 1])]
        <3>1. \A m \in 0 .. n : h[m] = IF m = 0 THEN start ELSE OneStep(E, how, f[m - 1])
            OBVIOUS
        <3>2. f = h
            BY <2>1 DEF IsRun
        <3> HIDE DEF h
        <3> QED
            BY <3>1, <3>2
    <2>5. g = [m \in 0 .. n + 1 |-> g[m]]
        OBVIOUS
    <2> HIDE DEF g
    <2>6. ASSUME NEW m \in 0 .. n + 1
          PROVE  g[m] = IF m = 0 THEN start ELSE OneStep(E, how, g[m - 1])
        <3>1. CASE m = 0
            BY <2>2, <2>4, <3>1
        <3>2. CASE m \in 1 .. n
            <4>1. m \in 0 .. n /\ m - 1 \in 0 .. n /\ m # 0
                BY <3>2
            <4> QED
                BY <2>2, <2>4, <4>1
        <3>3. CASE m = n + 1
            <4>1. m - 1 = n /\ n \in 0 .. n /\ m # 0
                BY <3>3
            <4> QED
                BY <2>2, <2>3, <3>3, <4>1
        <3> QED
            BY <3>1, <3>2, <3>3
    <2>7. IsRun(E, how, start, n + 1, g)
        BY <2>5, <2>6 DEF IsRun
    <2> QED
        BY <2>7
<1> HIDE DEF S
<1>3. k \in S
    BY <1>1, <1>2, Induction
<1> QED
    BY <1>3 DEF S

LEMMA RunSteps ==
    ASSUME NEW E, NEW how, NEW start, NEW k \in Nat, NEW f, IsRun(E, how, start, k, f)
    PROVE  Stepwise(E, how, start, k, f)
<1> DEFINE h == [n \in 0 .. k |-> IF n = 0 THEN start ELSE OneStep(E, how, f[n - 1])]
<1>1. \A n \in 0 .. k : h[n] = IF n = 0 THEN start ELSE OneStep(E, how, f[n - 1])
    OBVIOUS
<1>2. f = h
    BY DEF IsRun
<1> HIDE DEF h
<1>3. \A n \in 1 .. k : n \in 0 .. k /\ n # 0
    OBVIOUS
<1> QED
    BY <1>1, <1>2, <1>3 DEF Stepwise

LEMMA AllReached ==
    ASSUME NEW E, NEW B, IsFiniteSet(B), B \subseteq Nat, Closed(E, B), NEW k \in Nat,
           NEW f, IsRun(E, "reach", Reach(<<>>, B, B, {}), k, f)
    PROVE  Reaching(E, B, f[k]) /\ Counted(B, f[k], k)
<1>0. /\ f[0] = Reach(<<>>, B, B, {})
      /\ \A n \in 1 .. k : f[n] = OneStep(E, "reach", f[n - 1])
    <2>1. Stepwise(E, "reach", Reach(<<>>, B, B, {}), k, f)
        BY RunSteps
    <2> QED
        BY <2>1 DEF Stepwise
<1> DEFINE S == {n \in Nat : n <= k => Reaching(E, B, f[n]) /\ Counted(B, f[n], n)}
<1>1. 0 \in S
    <2> DEFINE start == Reach(<<>>, B, B, {})
    <2>1. start.path = <<>> /\ start.white = B
        BY DEF Reach
    <2>2. Reaching(E, B, start)
        BY ReachStarts
    <2>3. f[0] = start
        BY <1>0
    <2> HIDE DEF start
    <2>4. Cardinality(B) \in Nat /\ Len(start.path) = 0
        BY <2>1, FS_CardinalityType
    <2>5. Counted(B, start, 0)
        BY <2>1, <2>4 DEF Counted
    <2> QED
        BY <2>2, <2>3, <2>5
<1>2. ASSUME NEW n \in Nat, n \in S PROVE n + 1 \in S
    <2> SUFFICES ASSUME n + 1 <= k
                 PROVE  Reaching(E, B, f[n + 1]) /\ Counted(B, f[n + 1], n + 1)
        OBVIOUS
    <2>1. Reaching(E, B, f[n]) /\ Counted(B, f[n], n)
        BY <1>2
    <2>2. f[n + 1] = OneStep(E, "reach", f[n])
        <3>1. n + 1 \in 1 .. k /\ n + 1 - 1 = n
            OBVIOUS
        <3> QED
            BY <1>0, <3>1
    <2>3. f[n + 1] = calc_reachable_blocks(E, f[n])
        BY <2>2 DEF OneStep
    <2> QED
        BY <2>1, <2>3, ReachSteps
<1> HIDE DEF S
<1>3. k \in S
    BY <1>1, <1>2, Induction
<1> QED
    BY <1>3 DEF S

LEMMA PartitionIs ==
    ASSUME NEW E, NEW B, IsFiniteSet(B), B \subseteq Nat, Closed(E, B)
    PROVE  /\ UNION partition(E, B) = B
           /\ \A p, q \in partition(E, B) : p # q => p \cap q = {}
           /\ \A p \in partition(E, B) : Closed(E, p) /\ Whole(E, p)
<1> DEFINE k == 2 * Cardinality(B)
           start == Reach(<<>>, B, B, {})
           f == CHOOSE f : IsRun(E, "reach", start, k, f)
<1>1. Cardinality(B) \in Nat /\ k \in Nat
    BY FS_CardinalityType
<1>2. IsRun(E, "reach", start, k, f)
    <2> HIDE DEF start, k
    <2> QED
        BY <1>1, RunExists
<1>3. partition(E, B) = f[k].parts
    BY DEF partition, IsRun, OneStep
<1> HIDE DEF f
<1>4. Reaching(E, B, f[k]) /\ Counted(B, f[k], k)
    BY <1>1, <1>2, AllReached
<1> DEFINE s == f[k]
<1>5. s.path \in Seq(s.rest \ s.white) /\ s.white \subseteq B /\ (s.path = <<>> => s.rest = s.white)
    BY <1>4 DEF Reaching, ReachType
<1>6. s.path = <<>> /\ s.white = {}
    <2> HIDE DEF s
    <2>1. IsFiniteSet(s.white) /\ Cardinality(s.white) \in Nat /\ Len(s.path) \in Nat
        BY <1>5, FS_Subset, FS_CardinalityType
    <2>2. CASE k + 2 * Cardinality(s.white) + Len(s.path) = 2 * Cardinality(B)
        <3>1. Cardinality(s.white) = 0 /\ Len(s.path) = 0
            BY <1>1, <2>1, <2>2
        <3> QED
            BY <1>5, <2>1, <3>1, FS_EmptySet
    <2>3. Counted(B, s, k)
        BY <1>4 DEF s
    <2> QED
        BY <2>2, <2>3 DEF Counted
<1>7. s.rest = {} /\ Apart(E, B, s)
    BY <1>4, <1>5, <1>6 DEF Reaching
<1> QED
    BY <1>3, <1>7 DEF Apart

-----------------------------------------------------------------------------
(* topological_sort.                                                         *)

Downstream(E, B) == \A b \in B : calc_downstream_blocks(E, b) \subseteq B

\* A numbering of the blocks that grows along the edges.
Ranks(E, B, f) == \A b \in B : \A d \in calc_downstream_blocks(E, b) : f[b] < f[d]

SortType(B, s) ==
    /\ s = Search(s.path, s.white, s.output, FALSE)
    /\ s.path \in Seq(B) /\ s.output \in Seq(B) /\ s.white \subseteq B

\* Each block has one colour, and is where it is once.
Coloured(B, s) ==
    /\ \A b \in B : b \in s.white \/ On(s.path, b) \/ On(s.output, b)
    /\ \A b \in B : On(s.path, b) => b \notin s.white /\ ~On(s.output, b)
    /\ \A b \in B : On(s.output, b) => b \notin s.white
    /\ \A i, j \in 1 .. Len(s.path) : s.path[i] = s.path[j] => i = j
    /\ \A i, j \in 1 .. Len(s.output) : s.output[i] = s.output[j] => i = j

\* What a block writes to has been put out before it.
DownFirst(E, out) ==
    \A j \in 1 .. Len(out) : \A d \in calc_downstream_blocks(E, out[j]) :
        \E i \in 1 .. j - 1 : out[i] = d

\* The path leads downstream.
Climbs(E, B, p) ==
    \A f \in [B -> Nat] : Ranks(E, B, f) =>
        \A i, j \in 1 .. Len(p) : i < j => f[p[i]] < f[p[j]]

Sorting(E, B, s) ==
    SortType(B, s) /\ Coloured(B, s) /\ DownFirst(E, s.output) /\ Climbs(E, B, s.path)

Looping(E, B, s) == s.loop = TRUE /\ \A f \in [B -> Nat] : ~Ranks(E, B, f)

LEMMA NotLooping ==
    ASSUME NEW B, NEW s, SortType(B, s)
    PROVE  s.loop = FALSE
    BY DEF SortType, Search

LEMMA OnLonger ==
    ASSUME NEW T, NEW p \in Seq(T), NEW b \in T, NEW x
    PROVE  On(Append(p, b), x) <=> On(p, x) \/ x = b
<1>1. /\ Len(Append(p, b)) = Len(p) + 1 /\ Len(p) \in Nat
      /\ Append(p, b)[Len(p) + 1] = b
      /\ \A i \in 1 .. Len(p) : Append(p, b)[i] = p[i]
    BY Longer
<1>2. \A i \in 1 .. Len(p) + 1 : i \in 1 .. Len(p) \/ i = Len(p) + 1
    BY <1>1
<1>3. /\ \A i \in 1 .. Len(p) : i \in 1 .. Len(p) + 1
      /\ Len(p) + 1 \in 1 .. Len(p) + 1
    BY <1>1
<1> QED
    BY <1>1, <1>2, <1>3 DEF On

LEMMA OnShorter ==
    ASSUME NEW T, NEW p \in Seq(T), p # <<>>, NEW x
    PROVE  On(p, x) <=> On(Front(p), x) \/ x = Last(p)
<1>1. /\ Len(p) \in Nat /\ Len(p) > 0 /\ Last(p) = p[Len(p)]
      /\ Len(Front(p)) = Len(p) - 1
      /\ \A i \in 1 .. Len(p) - 1 : Front(p)[i] = p[i]
    BY Ends
<1>2. \A i \in 1 .. Len(p) : i \in 1 .. Len(p) - 1 \/ i = Len(p)
    BY <1>1
<1>3. /\ \A i \in 1 .. Len(p) - 1 : i \in 1 .. Len(p)
      /\ Len(p) \in 1 .. Len(p)
    BY <1>1
<1> QED
    BY <1>1, <1>2, <1>3 DEF On

LEMMA SortStarts ==
    ASSUME NEW E, NEW B
    PROVE  Sorting(E, B, Search(<<>>, B, <<>>, FALSE))
<1> DEFINE s == Search(<<>>, B, <<>>, FALSE)
<1>1. s.path = <<>> /\ s.white = B /\ s.output = <<>> /\ s = Search(s.path, s.white, s.output, FALSE)
    BY DEF Search
<1> HIDE DEF s
<1>2. Len(s.path) = 0 /\ Len(s.output) = 0 /\ s.path \in Seq(B) /\ s.output \in Seq(B)
    BY <1>1
<1>3. \A i \in 1 .. 0 : FALSE
    OBVIOUS
<1>4. SortType(B, s)
    BY <1>1, <1>2 DEF SortType
<1>5. Coloured(B, s)
    BY <1>1, <1>2, <1>3 DEF Coloured, On
<1>6. DownFirst(E, s.output) /\ Climbs(E, B, s.path)
    BY <1>2, <1>3 DEF DownFirst, Climbs
<1> QED
    BY <1>4, <1>5, <1>6 DEF Sorting, s

\* A white block is entered: from the one whose visit is under way, or the first.
LEMMA SortEnters ==
    ASSUME NEW E, NEW B, NEW s, Sorting(E, B, s), NEW d \in s.white,
           s.path # <<>> => d \in calc_downstream_blocks(E, Last(s.path))
    PROVE  Sorting(E, B, Entered(s, d))
<1> DEFINE t == Entered(s, d)
           p == s.path
           m == Len(p)
<1>1. /\ s.path \in Seq(B) /\ s.output \in Seq(B) /\ s.white \subseteq B /\ d \in B
      /\ s.loop = FALSE
    BY NotLooping DEF Sorting, SortType
<1>2. /\ t.path = Append(p, d) /\ t.white = s.white \ {d} /\ t.output = s.output
      /\ t = Search(t.path, t.white, t.output, FALSE)
    BY <1>1 DEF Entered, Search
<1> HIDE DEF t
<1>3. /\ Append(p, d) \in Seq(B) /\ Len(Append(p, d)) = m + 1 /\ m \in Nat
      /\ Append(p, d)[m + 1] = d
      /\ \A i \in 1 .. m : Append(p, d)[i] = p[i]
    BY <1>1, Longer
<1>4. \A x : On(Append(p, d), x) <=> On(p, x) \/ x = d
    BY <1>1, OnLonger
<1>5. SortType(B, t)
    BY <1>1, <1>2, <1>3 DEF SortType
<1>6. Coloured(B, s)
    BY DEF Sorting
<1>7. ~On(p, d) /\ ~On(s.output, d)
    BY <1>1, <1>6 DEF Coloured
<1>8. \A i \in 1 .. m + 1 : i \in 1 .. m \/ i = m + 1
    BY <1>3
<1> HIDE DEF m, p
<1>9. Coloured(B, t)
    <2>1. /\ \A b \in B : b \in t.white \/ On(t.path, b) \/ On(t.output, b)
          /\ \A b \in B : On(t.path, b) => b \notin t.white /\ ~On(t.output, b)
          /\ \A b \in B : On(t.output, b) => b \notin t.white
        BY <1>2, <1>4, <1>6, <1>7 DEF Coloured, p
    <2>2. \A i \in 1 .. m : p[i] # d
        BY <1>7 DEF On, m, p
    <2>3. \A i, j \in 1 .. m : p[i] = p[j] => i = j
        BY <1>6 DEF Coloured, m, p
    <2>4. \A i, j \in 1 .. Len(t.path) : t.path[i] = t.path[j] => i = j
        BY <1>2, <1>3, <1>8, <2>2, <2>3
    <2>5. \A i, j \in 1 .. Len(t.output) : t.output[i] = t.output[j] => i = j
        BY <1>2, <1>6 DEF Coloured
    <2> QED
        BY <2>1, <2>4, <2>5 DEF Coloured
<1>10. DownFirst(E, t.output)
    BY <1>2 DEF Sorting
<1>11. Climbs(E, B, t.path)
    <2> SUFFICES ASSUME NEW f \in [B -> Nat], Ranks(E, B, f), NEW i \in 1 .. m + 1, NEW j \in 1 .. m + 1,
                        i < j
                 PROVE  f[t.path[i]] < f[t.path[j]]
        BY <1>2, <1>3 DEF Climbs
    <2>1. \A x, y \in 1 .. m : x < y => f[p[x]] < f[p[y]]
        BY DEF Sorting, Climbs, m, p
    <2>2. CASE j \in 1 .. m
        <3>1. i \in 1 .. m
            BY <1>3, <2>2
        <3> QED
            BY <1>2, <1>3, <2>1, <2>2, <3>1
    <2>3. CASE j = m + 1
        <3>1. i \in 1 .. m /\ m > 0 /\ m \in 1 .. m
            BY <1>3, <2>3
        <3>2. p # <<>> /\ p[m] = Last(p)
            BY <3>1 DEF Last, m
        <3>3. p[m] \in B /\ p[i] \in B
            BY <1>1, <3>1 DEF m, p
        <3>4. f[p[m]] < f[d]
            BY <3>2, <3>3 DEF Ranks, p
        <3>5. i = m \/ f[p[i]] < f[p[m]]
            BY <1>3, <2>1, <3>1
        <3>6. f[p[i]] \in Nat /\ f[p[m]] \in Nat /\ f[d] \in Nat
            BY <1>1, <3>3
        <3>7. f[p[i]] < f[d]
            BY <3>4, <3>5, <3>6
        <3> QED
            BY <1>2, <1>3, <2>3, <3>1, <3>7
    <2> QED
        BY <1>8, <2>2, <2>3
<1> QED
    BY <1>5, <1>9, <1>10, <1>11 DEF Sorting, t

\* A block is left when all downstream of it is black.
LEMMA SortLeaves ==
    ASSUME NEW E, NEW B, Downstream(E, B), NEW s, Sorting(E, B, s), s.path # <<>>,
           calc_downstream_blocks(E, Last(s.path)) \cap ToSet(s.path) = {},
           calc_downstream_blocks(E, Last(s.path)) \cap s.white = {}
    PROVE  Sorting(E, B, Search(Front(s.path), s.white, Append(s.output, Last(s.path)), s.loop))
<1> DEFINE p == s.path
           o == s.output
           b == Last(p)
           q == Front(p)
           u == Append(o, b)
           m == Len(p)
           n == Len(o)
           t == Search(q, s.white, u, s.loop)
<1>1. /\ p \in Seq(B) /\ o \in Seq(B) /\ s.white \subseteq B
      /\ s.loop = FALSE
    BY NotLooping DEF Sorting, SortType
<1>2. /\ t.path = q /\ t.white = s.white /\ t.output = u
      /\ t = Search(t.path, t.white, t.output, FALSE)
    BY <1>1 DEF Search
<1> HIDE DEF t
<1>3. /\ m \in Nat /\ m > 0 /\ b \in B /\ b = p[m]
      /\ q \in Seq(B) /\ Len(q) = m - 1
      /\ \A i \in 1 .. m - 1 : q[i] = p[i]
    BY <1>1, Ends
<1>4. /\ u \in Seq(B) /\ Len(u) = n + 1 /\ n \in Nat /\ u[n + 1] = b
      /\ \A i \in 1 .. n : u[i] = o[i]
    <2> HIDE DEF o, b
    <2> QED
        BY <1>1, <1>3, Longer DEF u, n
<1>5. \A x : On(p, x) <=> On(q, x) \/ x = b
    BY <1>1, OnShorter
<1>6. \A x : On(u, x) <=> On(o, x) \/ x = b
    <2> HIDE DEF o, b
    <2> QED
        BY <1>1, <1>3, OnLonger DEF u
<1>7. Coloured(B, s)
    BY DEF Sorting
<1>8. ToSet(p) = {x \in B : On(p, x)}
    BY <1>1 DEF ToSet, On
<1> HIDE DEF p, o, b, q, u, m, n
<1>9. SortType(B, t)
    BY <1>1, <1>2, <1>3, <1>4 DEF SortType
<1>10. ~On(q, b) /\ ~On(o, b) /\ b \notin s.white
    <2>1. \A i \in 1 .. m - 1 : p[i] # p[m]
        <3>1. \A i, j \in 1 .. m : p[i] = p[j] => i = j
            BY <1>7 DEF Coloured, m, p
        <3>2. \A i \in 1 .. m - 1 : i \in 1 .. m /\ m \in 1 .. m /\ i # m
            BY <1>3
        <3> QED
            BY <3>1, <3>2
    <2>2. ~On(q, b)
        BY <1>3, <2>1 DEF On
    <2>3. On(p, b) /\ b \in B
        BY <1>3, <1>5
    <2> QED
        BY <1>7, <2>2, <2>3 DEF Coloured, p, o
<1>11. Coloured(B, t)
    <2>1. /\ \A x \in B : x \in t.white \/ On(t.path, x) \/ On(t.output, x)
          /\ \A x \in B : On(t.path, x) => x \notin t.white /\ ~On(t.output, x)
          /\ \A x \in B : On(t.output, x) => x \notin t.white
        BY <1>2, <1>5, <1>6, <1>7, <1>10 DEF Coloured, p, o
    <2>2. \A i, j \in 1 .. m : p[i] = p[j] => i = j
        BY <1>7 DEF Coloured, m, p
    <2>3. \A i \in 1 .. m - 1 : i \in 1 .. m
        BY <1>3
    <2>4. \A i, j \in 1 .. Len(t.path) : t.path[i] = t.path[j] => i = j
        BY <1>2, <1>3, <2>2, <2>3
    <2>5. \A i, j \in 1 .. n : o[i] = o[j] => i = j
        BY <1>7 DEF Coloured, n, o
    <2>6. \A i \in 1 .. n : o[i] # b
        BY <1>10 DEF On, n
    <2>7. \A i \in 1 .. n + 1 : i \in 1 .. n \/ i = n + 1
        BY <1>4
    <2>8. \A i, j \in 1 .. Len(t.output) : t.output[i] = t.output[j] => i = j
        BY <1>2, <1>4, <2>5, <2>6, <2>7
    <2> QED
        BY <2>1, <2>4, <2>8 DEF Coloured
<1>12. DownFirst(E, t.output)
    <2>1. \A j \in 1 .. n : \A d \in calc_downstream_blocks(E, o[j]) : \E i \in 1 .. j - 1 : o[i] = d
        BY DEF Sorting, DownFirst, n, o
    <2>2. ASSUME NEW d \in calc_downstream_blocks(E, b) PROVE \E i \in 1 .. n : o[i] = d
        <3>1. d \in B
            BY <1>3 DEF Downstream
        <3>2. d \notin s.white /\ ~On(p, d)
            BY <1>8, <3>1 DEF p, b
        <3>3. On(o, d)
            BY <1>7, <3>1, <3>2 DEF Coloured, p, o
        <3> QED
            BY <3>3 DEF On, n
    <2> SUFFICES ASSUME NEW j \in 1 .. n + 1, NEW d \in calc_downstream_blocks(E, u[j])
                 PROVE  \E i \in 1 .. j - 1 : u[i] = d
        BY <1>2, <1>4 DEF DownFirst
    <2>3. CASE j \in 1 .. n
        <3>1. PICK i \in 1 .. j - 1 : o[i] = d
            BY <1>4, <2>1, <2>3
        <3>2. i \in 1 .. n
            BY <1>4, <2>3
        <3> QED
            BY <1>4, <3>1, <3>2
    <2>4. CASE j = n + 1
        <3>1. PICK i \in 1 .. n : o[i] = d
            BY <1>4, <2>2, <2>4
        <3>2. j - 1 = n
            BY <1>4, <2>4
        <3> QED
            BY <1>4, <3>1, <3>2
    <2>5. j \in 1 .. n \/ j = n + 1
        BY <1>4
    <2> QED
        BY <2>3, <2>4, <2>5
<1>13. Climbs(E, B, t.path)
    <2>1. \A i \in 1 .. m - 1 : i \in 1 .. m
        BY <1>3
    <2>2. Climbs(E, B, p) /\ m = Len(p)
        BY DEF Sorting, p, m
    <2> QED
        BY <1>2, <1>3, <2>1, <2>2 DEF Climbs
<1> QED
    BY <1>9, <1>11, <1>12, <1>13 DEF Sorting, t, p, o, b, q, u

\* A block that writes to one on the path closes a cycle.
LEMMA SortLoops ==
    ASSUME NEW E, NEW B, NEW s, Sorting(E, B, s), s.path # <<>>,
           calc_downstream_blocks(E, Last(s.path)) \cap ToSet(s.path) # {}
    PROVE  \A f \in [B -> Nat] : ~Ranks(E, B, f)
<1> DEFINE p == s.path
           m == Len(p)
<1> SUFFICES ASSUME NEW f \in [B -> Nat], Ranks(E, B, f) PROVE FALSE
    OBVIOUS
<1>1. p \in Seq(B) /\ Climbs(E, B, p)
    BY DEF Sorting, SortType
<1>2. m \in Nat /\ m > 0 /\ Last(p) = p[m] /\ \A i \in 1 .. m : p[i] \in B
    BY <1>1, Ends
<1>3. PICK i \in 1 .. m : p[i] \in calc_downstream_blocks(E, Last(p))
    BY <1>1 DEF ToSet
<1> HIDE DEF p, m
<1>4. m \in 1 .. m
    BY <1>2
<1>5. f[p[m]] < f[p[i]]
    BY <1>2, <1>3, <1>4 DEF Ranks
<1>6. i = m \/ f[p[i]] < f[p[m]]
    <2>1. i < m => f[p[i]] < f[p[m]]
        BY <1>1, <1>4 DEF Climbs, m
    <2> QED
        BY <1>2, <2>1
<1>7. f[p[i]] \in Nat /\ f[p[m]] \in Nat
    BY <1>2, <1>4
<1> QED
    BY <1>5, <1>6, <1>7

LEMMA SortSteps ==
    ASSUME NEW E, NEW B, IsFiniteSet(B), B \subseteq Nat, Downstream(E, B), NEW s, NEW n \in Nat,
           Sorting(E, B, s), Counted(B, s, n)
    PROVE  \/ Sorting(E, B, Sort(E, s)) /\ Counted(B, Sort(E, s), n + 1)
           \/ Looping(E, B, Sort(E, s))
<1>1. /\ s.path \in Seq(B) /\ s.output \in Seq(B) /\ s.white \subseteq B
      /\ s.loop = FALSE
    BY NotLooping DEF Sorting, SortType
<1>2. IsFiniteSet(s.white) /\ 2 * Cardinality(B) \in Nat
    BY <1>1, FS_Subset, FS_CardinalityType
<1>3. ASSUME NEW d \in s.white, Sort(E, s) = Entered(s, d)
      PROVE  Counted(B, Sort(E, s), n + 1)
    <2>1. /\ Entered(s, d).path = Append(s.path, d) /\ Entered(s, d).white = s.white \ {d}
        BY DEF Entered, Search
    <2>2. n + 2 * Cardinality(s.white) + Len(s.path) = 2 * Cardinality(B)
        BY <1>3 DEF Counted
    <2>3. n + 1 + 2 * Cardinality(s.white \ {d}) + Len(Append(s.path, d)) = 2 * Cardinality(B)
        BY <1>1, <1>2, <2>2, CountEntered
    <2> QED
        BY <1>3, <2>1, <2>3 DEF Counted
<1>4. CASE s.path = <<>> /\ s.white = {}
    BY <1>1, <1>4 DEF Sort, Counted
<1>5. CASE s.path = <<>> /\ s.white # {}
    <2> DEFINE d == sort_sources_first(E, s.white)
    <2>1. d \in s.white
        <3> DEFINE sources == {b \in s.white : source_p(E, b)}
        <3>1. sources # {} => Min(sources) \in sources
            BY <1>1, LeastIs
        <3>2. Min(s.white) \in s.white
            BY <1>1, <1>5, LeastIs
        <3> QED
            BY <3>1, <3>2 DEF sort_sources_first
    <2>2. Sort(E, s) = Entered(s, d)
        BY <1>1, <1>5 DEF Sort
    <2> HIDE DEF d
    <2>3. Sorting(E, B, Entered(s, d))
        BY <1>5, <2>1, SortEnters
    <2> QED
        BY <1>3, <2>1, <2>2, <2>3
<1>6. CASE s.path # <<>>
    <2> DEFINE down == calc_downstream_blocks(E, Last(s.path))
    <2>1. Sort(E, s) = topological_dfs_visit(E, s)
        BY <1>1, <1>6 DEF Sort
    <2>2. CASE down \cap ToSet(s.path) # {}
        <3>1. Sort(E, s).loop = TRUE
            BY <2>1, <2>2 DEF topological_dfs_visit, Search
        <3>2. \A f \in [B -> Nat] : ~Ranks(E, B, f)
            BY <1>6, <2>2, SortLoops
        <3> QED
            BY <3>1, <3>2 DEF Looping
    <2>3. CASE down \cap ToSet(s.path) = {} /\ down \cap s.white # {}
        <3> DEFINE d == Min(down \cap s.white)
        <3>1. d \in down \cap s.white
            BY <1>1, <2>3, LeastIs
        <3>2. Sort(E, s) = Entered(s, d)
            BY <2>1, <2>3 DEF topological_dfs_visit
        <3> HIDE DEF d
        <3>3. Sorting(E, B, Entered(s, d))
            BY <3>1, SortEnters
        <3> QED
            BY <1>3, <3>1, <3>2, <3>3
    <2>4. CASE down \cap ToSet(s.path) = {} /\ down \cap s.white = {}
        <3> DEFINE t == Search(Front(s.path), s.white, Append(s.output, Last(s.path)), s.loop)
        <3>1. Sort(E, s) = t
            BY <2>1, <2>4 DEF topological_dfs_visit
        <3>2. t.path = Front(s.path) /\ t.white = s.white
            BY DEF Search
        <3>3. Sorting(E, B, t)
            BY <1>6, <2>4, SortLeaves
        <3> HIDE DEF t
        <3>4. n + 2 * Cardinality(s.white) + Len(s.path) = 2 * Cardinality(B)
            BY <1>6 DEF Counted
        <3>5. n + 1 + 2 * Cardinality(s.white) + Len(Front(s.path)) = 2 * Cardinality(B)
            BY <1>1, <1>2, <1>6, <3>4, CountLeft
        <3>6. Counted(B, t, n + 1)
            BY <3>2, <3>5 DEF Counted
        <3> QED
            BY <3>1, <3>3, <3>6
    <2> QED
        BY <2>2, <2>3, <2>4
<1> QED
    BY <1>4, <1>5, <1>6

Sorts(E, B, s, n) == (Sorting(E, B, s) /\ Counted(B, s, n)) \/ Looping(E, B, s)

LEMMA AllSorted ==
    ASSUME NEW E, NEW B, IsFiniteSet(B), B \subseteq Nat, Downstream(E, B), NEW k \in Nat,
           NEW f, IsRun(E, "sort", Search(<<>>, B, <<>>, FALSE), k, f)
    PROVE  Sorts(E, B, f[k], k)
<1>0. /\ f[0] = Search(<<>>, B, <<>>, FALSE)
      /\ \A n \in 1 .. k : f[n] = OneStep(E, "sort", f[n - 1])
    <2>1. Stepwise(E, "sort", Search(<<>>, B, <<>>, FALSE), k, f)
        BY RunSteps
    <2> QED
        BY <2>1 DEF Stepwise
<1> DEFINE S == {n \in Nat : n <= k => Sorts(E, B, f[n], n)}
<1>1. 0 \in S
    <2> DEFINE start == Search(<<>>, B, <<>>, FALSE)
    <2>1. start.path = <<>> /\ start.white = B
        BY DEF Search
    <2>2. Sorting(E, B, start)
        BY SortStarts
    <2>3. f[0] = start
        BY <1>0
    <2> HIDE DEF start
    <2>4. Cardinality(B) \in Nat /\ Len(start.path) = 0
        BY <2>1, FS_CardinalityType
    <2>5. Counted(B, start, 0)
        BY <2>1, <2>4 DEF Counted
    <2> QED
        BY <2>2, <2>3, <2>5 DEF Sorts
<1>2. ASSUME NEW n \in Nat, n \in S PROVE n + 1 \in S
    <2> SUFFICES ASSUME n + 1 <= k PROVE Sorts(E, B, f[n + 1], n + 1)
        OBVIOUS
    <2>1. Sorts(E, B, f[n], n)
        BY <1>2
    <2>2. f[n + 1] = Sort(E, f[n])
        <3>1. n + 1 \in 1 .. k /\ n + 1 - 1 = n
            OBVIOUS
        <3>2. f[n + 1] = OneStep(E, "sort", f[n])
            BY <1>0, <3>1
        <3> QED
            BY <3>2 DEF OneStep
    <2>3. CASE Looping(E, B, f[n])
        <3>1. f[n + 1] = f[n]
            BY <2>2, <2>3 DEF Sort, Looping
        <3> QED
            BY <2>3, <3>1 DEF Sorts
    <2>4. CASE Sorting(E, B, f[n]) /\ Counted(B, f[n], n)
        BY <2>2, <2>4, SortSteps DEF Sorts
    <2> QED
        BY <2>1, <2>3, <2>4 DEF Sorts
<1> HIDE DEF S
<1>3. k \in S
    BY <1>1, <1>2, Induction
<1> QED
    BY <1>3 DEF S

LEMMA SortIs ==
    ASSUME NEW E, NEW B, IsFiniteSet(B), B \subseteq Nat, Downstream(E, B)
    PROVE  \E s : /\ topological_sort(E, B) = [order |-> Reverse(s.output), loop |-> s.loop]
                  /\ \/ Looping(E, B, s)
                     \/ Sorting(E, B, s) /\ s.path = <<>> /\ s.white = {}
<1> DEFINE k == 2 * Cardinality(B)
           start == Search(<<>>, B, <<>>, FALSE)
           f == CHOOSE f : IsRun(E, "sort", start, k, f)
<1>1. Cardinality(B) \in Nat /\ k \in Nat
    BY FS_CardinalityType
<1>2. IsRun(E, "sort", start, k, f)
    <2> HIDE DEF start, k
    <2> QED
        BY <1>1, RunExists
<1>3. topological_sort(E, B) = [order |-> Reverse(f[k].output), loop |-> f[k].loop]
    BY DEF topological_sort, IsRun, OneStep, Sorted
<1> HIDE DEF f
<1>4. Sorts(E, B, f[k], k)
    BY <1>1, <1>2, AllSorted
<1> DEFINE s == f[k]
<1>5. ASSUME Sorting(E, B, s), Counted(B, s, k) PROVE s.path = <<>> /\ s.white = {}
    <2>1. s.path \in Seq(B) /\ s.white \subseteq B
        BY <1>5 DEF Sorting, SortType
    <2>2. Counted(B, s, k)
        BY <1>5
    <2> HIDE DEF s
    <2>3. IsFiniteSet(s.white) /\ Cardinality(s.white) \in Nat /\ Len(s.path) \in Nat
        BY <2>1, FS_Subset, FS_CardinalityType
    <2>4. CASE k + 2 * Cardinality(s.white) + Len(s.path) = 2 * Cardinality(B)
        <3>1. Cardinality(s.white) = 0 /\ Len(s.path) = 0
            BY <1>1, <2>3, <2>4
        <3> QED
            BY <2>1, <2>3, <3>1, FS_EmptySet
    <2> QED
        BY <2>2, <2>4 DEF Counted
<1> QED
    BY <1>3, <1>4, <1>5 DEF Sorts

\* The place a block has in an order.
Place(order, b) == CHOOSE k \in DOMAIN order : order[k] = b

SortedFor(E, B, order) ==
    /\ IsInjective(order) /\ ToSet(order) = B
    /\ \A b \in B : \A d \in calc_downstream_blocks(E, b) : Place(order, b) < Place(order, d)

LEMMA OrderIs ==
    ASSUME NEW E, NEW B, IsFiniteSet(B), Downstream(E, B), NEW s,
           Sorting(E, B, s), s.path = <<>>, s.white = {}
    PROVE  /\ SortedFor(E, B, Reverse(s.output))
           /\ \E f \in [B -> 1 .. Cardinality(B)] : Ranks(E, B, f)
<1> DEFINE out == s.output
           n == Len(out)
           order == Reverse(out)
<1>1. out \in Seq(B) /\ n \in Nat /\ \A i \in 1 .. n : out[i] \in B
    BY DEF Sorting, SortType
<1>2. /\ \A i, j \in 1 .. n : out[i] = out[j] => i = j
      /\ DownFirst(E, out)
    BY DEF Sorting, Coloured
<1>3. \A b \in B : \E i \in 1 .. n : out[i] = b
    <2>1. ~ \E i \in 1 .. Len(s.path) : TRUE
        BY DEF Sorting
    <2> QED
        BY <2>1 DEF Sorting, Coloured, On
<1>4. DOMAIN order = 1 .. n /\ \A i \in 1 .. n : order[i] = out[n - i + 1]
    BY DEF Reverse
<1> HIDE DEF order, out, n
<1>5. \A i \in 1 .. n : n - i + 1 \in 1 .. n /\ n - (n - i + 1) + 1 = i
    BY <1>1
<1>6. IsInjective(order)
    <2> SUFFICES ASSUME NEW i \in 1 .. n, NEW j \in 1 .. n, order[i] = order[j] PROVE i = j
        BY <1>4 DEF IsInjective
    <2>1. n - i + 1 = n - j + 1
        BY <1>2, <1>4, <1>5
    <2> QED
        BY <1>1, <2>1
<1>7. \A b \in B : \E k \in 1 .. n : order[k] = b
    <2> SUFFICES ASSUME NEW b \in B PROVE \E k \in 1 .. n : order[k] = b
        OBVIOUS
    <2>1. PICK i \in 1 .. n : out[i] = b
        BY <1>3
    <2> QED
        BY <1>4, <1>5, <2>1
<1>8. ToSet(order) = B
    <2>1. \A i \in 1 .. n : order[i] \in B
        BY <1>1, <1>4, <1>5
    <2> QED
        BY <1>4, <1>7, <2>1 DEF ToSet
<1>9. \A b \in B : Place(order, b) \in 1 .. n /\ order[Place(order, b)] = b
    BY <1>4, <1>7 DEF Place
<1>10. ASSUME NEW b \in B, NEW d \in calc_downstream_blocks(E, b)
       PROVE  Place(order, b) < Place(order, d)
    <2> DEFINE x == Place(order, b)
               y == Place(order, d)
    <2>1. d \in B
        BY <1>10 DEF Downstream
    <2>2. x \in 1 .. n /\ y \in 1 .. n /\ order[x] = b /\ order[y] = d
        BY <1>9, <1>10, <2>1
    <2> HIDE DEF x, y
    <2>3. out[n - x + 1] = b /\ out[n - y + 1] = d
        BY <1>4, <2>2
    <2>4. PICK i \in 1 .. (n - x + 1) - 1 : out[i] = d
        BY <1>2, <1>5, <1>10, <2>2, <2>3 DEF DownFirst, n
    <2>5. i \in 1 .. n
        BY <1>1, <2>2
    <2>6. i = n - y + 1
        BY <1>2, <1>5, <2>2, <2>3, <2>4, <2>5
    <2>7. x < y
        BY <1>1, <2>2, <2>4, <2>6
    <2> QED
        BY <2>7 DEF x, y
<1>11. n <= Cardinality(B) /\ Cardinality(B) \in Nat
    <2>1. Cardinality(B) \in Nat
        BY FS_CardinalityType
    <2>2. 1 \in Int /\ n \in Int
        BY <1>1
    <2>3. IsFiniteSet(1 .. n) /\ Cardinality(1 .. n) = IF 1 > n THEN 0 ELSE n - 1 + 1
        BY <2>2, FS_Interval
    <2>4. Cardinality(1 .. n) = n
        BY <1>1, <2>3
    <2>5. out \in [1 .. n -> B]
        BY <1>1 DEF n
    <2>6. ASSUME Cardinality(B) < Cardinality(1 .. n) PROVE FALSE
        <3>1. IsFiniteSet(1 .. n)
            BY <2>3
        <3> DEFINE places == 1 .. n
        <3>2. places = 1 .. n
            OBVIOUS
        <3>3. IsFiniteSet(places) /\ out \in [places -> B] /\ Cardinality(B) < Cardinality(places)
            BY <2>5, <2>6, <3>1
        <3> HIDE DEF places
        <3>4. \E x, y \in places : x # y /\ out[x] = out[y]
            BY <3>3, FS_PigeonHole
        <3> QED
            BY <1>2, <3>2, <3>4
    <2> QED
        BY <1>1, <2>1, <2>4, <2>6
<1>12. \E f \in [B -> 1 .. Cardinality(B)] : Ranks(E, B, f)
    <2> DEFINE f == [b \in B |-> Place(order, b)]
    <2>1. \A b \in B : Place(order, b) \in 1 .. Cardinality(B)
        BY <1>1, <1>9, <1>11
    <2>2. f \in [B -> 1 .. Cardinality(B)]
        BY <2>1
    <2>3. \A b \in B : f[b] = Place(order, b)
        OBVIOUS
    <2> HIDE DEF f
    <2>4. Ranks(E, B, f)
        BY <1>10, <2>3 DEF Ranks, Downstream
    <2> QED
        BY <2>2, <2>4
<1> QED
    BY <1>6, <1>8, <1>10, <1>12 DEF SortedFor, order, out

\* What topological_sort returns, for any set of blocks that is closed downstream.
LEMMA TopologicalIs ==
    ASSUME NEW E, NEW B, IsFiniteSet(B), B \subseteq Nat, Downstream(E, B)
    PROVE  LET sort == topological_sort(E, B)
           IN  \/ sort.loop = TRUE /\ \A f \in [B -> Nat] : ~Ranks(E, B, f)
               \/ /\ sort.loop = FALSE /\ SortedFor(E, B, sort.order)
                  /\ \E f \in [B -> 1 .. Cardinality(B)] : Ranks(E, B, f)
<1> DEFINE sort == topological_sort(E, B)
<1>1. PICK s : /\ sort = [order |-> Reverse(s.output), loop |-> s.loop]
               /\ \/ Looping(E, B, s)
                  \/ Sorting(E, B, s) /\ s.path = <<>> /\ s.white = {}
    BY SortIs
<1>2. sort.order = Reverse(s.output) /\ sort.loop = s.loop
    BY <1>1
<1> HIDE DEF sort
<1>3. CASE Looping(E, B, s)
    BY <1>2, <1>3 DEF Looping, sort
<1>4. CASE Sorting(E, B, s) /\ s.path = <<>> /\ s.white = {}
    <2>1. s.loop = FALSE
        BY <1>4, NotLooping DEF Sorting
    <2>2. /\ SortedFor(E, B, Reverse(s.output))
          /\ \E f \in [B -> 1 .. Cardinality(B)] : Ranks(E, B, f)
        BY <1>4, OrderIs
    <2> QED
        BY <1>2, <2>1, <2>2 DEF sort
<1> QED
    BY <1>1, <1>3, <1>4

-----------------------------------------------------------------------------
LEMMA UsedClosed ==
    ASSUME NEW E
    PROVE  Closed(E, calc_used_blocks(E, {}))
    BY StreamEnds DEF Closed, calc_adjacent_blocks, calc_downstream_blocks

LEMMA ClosedDownstream ==
    ASSUME NEW E, NEW B, Closed(E, B)
    PROVE  Downstream(E, B)
    BY DEF Closed, Downstream, calc_adjacent_blocks

\* The edges that leave a block of B lead to what is downstream of it.
LEMMA RanksEdges ==
    ASSUME NEW E, NEW B, NEW f
    PROVE  Ranks(E, B, f) <=>
               \A e \in {d \in E : d.src.block \in B} : f[e.src.block] < f[e.dst.block]
<1>1. ASSUME Ranks(E, B, f), NEW e \in E, e.src.block \in B
      PROVE  f[e.src.block] < f[e.dst.block]
    BY <1>1 DEF Ranks, calc_downstream_blocks
<1>2. ASSUME \A e \in {d \in E : d.src.block \in B} : f[e.src.block] < f[e.dst.block],
             NEW b \in B, NEW d \in calc_downstream_blocks(E, b)
      PROVE  f[b] < f[d]
    <2>1. PICK e \in E : e.src.block = b /\ e.dst.block = d
        BY <1>2 DEF calc_downstream_blocks
    <2> QED
        BY <1>2, <2>1
<1> QED
    BY <1>1, <1>2 DEF Ranks

LEMMA PartsAre ==
    ASSUME Graph(edges)
    PROVE  LET used == calc_used_blocks(edges, {})
           IN  /\ IsFiniteSet(used) /\ used \subseteq Nat
               /\ UNION partition(edges, used) = used
               /\ \A p, q \in partition(edges, used) : p # q => p \cap q = {}
               /\ \A p \in partition(edges, used) : Closed(edges, p) /\ Whole(edges, p)
<1> DEFINE used == calc_used_blocks(edges, {})
<1>1. used \subseteq Blocks
    BY UsedBlocks
<1>2. IsFiniteSet(Blocks)
    BY FlatAssumption
<1>3. IsFiniteSet(used) /\ used \subseteq Nat /\ Closed(edges, used)
    BY <1>1, <1>2, FS_Subset, BlocksAreNumbers, UsedClosed
<1> HIDE DEF used
<1>4. /\ UNION partition(edges, used) = used
      /\ \A p, q \in partition(edges, used) : p # q => p \cap q = {}
      /\ \A p \in partition(edges, used) : Closed(edges, p) /\ Whole(edges, p)
    BY <1>3, PartitionIs
<1> QED
    BY <1>3, <1>4 DEF used

LEMMA GraphSorted == Graph(edges) => SortedDownstream
<1> SUFFICES ASSUME Graph(edges),
                    NEW blocks \in {calc_used_blocks(edges, {})} \cup
                                       partition(edges, calc_used_blocks(edges, {}))
             PROVE  LET sort == topological_sort(edges, blocks)
                        at(b) == CHOOSE k \in DOMAIN sort.order : sort.order[k] = b
                        within == {e \in edges : e.src.block \in blocks}
                        Acyclic == \E f \in [blocks -> 1 .. Cardinality(blocks)] :
                                       \A e \in within : f[e.src.block] < f[e.dst.block]
                    IN  /\ sort.loop <=> ~Acyclic
                        /\ ~sort.loop => /\ IsInjective(sort.order)
                                         /\ ToSet(sort.order) = blocks
                                         /\ \A e \in within : at(e.src.block) < at(e.dst.block)
    BY DEF SortedDownstream
<1> DEFINE sort == topological_sort(edges, blocks)
           within == {e \in edges : e.src.block \in blocks}
           Acyclic == \E f \in [blocks -> 1 .. Cardinality(blocks)] :
                          \A e \in within : f[e.src.block] < f[e.dst.block]
<1>1. blocks \subseteq calc_used_blocks(edges, {}) /\ Closed(edges, blocks)
    BY PartsAre, UsedClosed
<1>2. IsFiniteSet(blocks) /\ blocks \subseteq Nat /\ Downstream(edges, blocks)
    BY <1>1, PartsAre, FS_Subset, ClosedDownstream
<1>3. \/ sort.loop = TRUE /\ \A f \in [blocks -> Nat] : ~Ranks(edges, blocks, f)
      \/ /\ sort.loop = FALSE /\ SortedFor(edges, blocks, sort.order)
         /\ \E f \in [blocks -> 1 .. Cardinality(blocks)] : Ranks(edges, blocks, f)
    BY <1>2, TopologicalIs
<1>4. Acyclic <=> \E f \in [blocks -> 1 .. Cardinality(blocks)] : Ranks(edges, blocks, f)
    BY RanksEdges
<1>5. sort.loop <=> ~Acyclic
    <2>1. \A f \in [blocks -> 1 .. Cardinality(blocks)] : f \in [blocks -> Nat]
        OBVIOUS
    <2> HIDE DEF sort, Acyclic
    <2> QED
        BY <1>3, <1>4, <2>1
<1>6. ASSUME ~sort.loop
      PROVE  /\ IsInjective(sort.order) /\ ToSet(sort.order) = blocks
             /\ \A e \in within : Place(sort.order, e.src.block) < Place(sort.order, e.dst.block)
    <2>1. SortedFor(edges, blocks, sort.order)
        <3> HIDE DEF sort
        <3> QED
            BY <1>3, <1>6
    <2> HIDE DEF sort
    <2>2. \A e \in within : e.dst.block \in calc_downstream_blocks(edges, e.src.block)
        BY DEF calc_downstream_blocks
    <2> QED
        BY <2>1, <2>2 DEF SortedFor
<1> QED
    BY <1>5, <1>6 DEF Place

LEMMA GraphApart == Graph(edges) => PartsApart
<1> SUFFICES ASSUME Graph(edges) PROVE PartsApart
    OBVIOUS
<1> DEFINE used == calc_used_blocks(edges, {})
           parts == partition(edges, used)
<1>1. /\ UNION parts = used
      /\ \A p, q \in parts : p # q => p \cap q = {}
      /\ \A p \in parts : Closed(edges, p) /\ Whole(edges, p)
    BY PartsAre
<1>2. \A e \in edges : e.src.block \in used /\ e.dst.block \in calc_adjacent_blocks(edges, e.src.block)
    BY StreamEnds DEF calc_adjacent_blocks, calc_downstream_blocks
<1> HIDE DEF used, parts
<1>3. ASSUME NEW e \in edges PROVE \E p \in parts : {e.src.block, e.dst.block} \subseteq p
    <2>1. PICK p \in parts : e.src.block \in p
        BY <1>1, <1>2
    <2>2. e.dst.block \in p
        BY <1>1, <1>2, <2>1 DEF Closed
    <2> QED
        BY <2>1, <2>2
<1>4. ASSUME NEW p \in parts, NEW cut \in (SUBSET p) \ {{}, p}
      PROVE  \E e \in edges : Cardinality({e.src.block, e.dst.block} \cap cut) = 1
    <2>1. PICK b \in cut, d \in p \ cut : d \in calc_adjacent_blocks(edges, b)
        <3>1. cut \in SUBSET p /\ cut # {} /\ cut # p
            BY <1>4
        <3>2. Whole(edges, p)
            BY <1>1
        <3>3. \E b \in cut : \E d \in p \ cut : d \in calc_adjacent_blocks(edges, b)
            BY <3>1, <3>2 DEF Whole
        <3> QED
            BY <3>3
    <2>2. PICK e \in edges : {e.src.block, e.dst.block} = {b, d}
        BY <2>1 DEF calc_adjacent_blocks, calc_downstream_blocks
    <2>3. {e.src.block, e.dst.block} \cap cut = {b}
        BY <2>1, <2>2
    <2> QED
        BY <2>3, FS_Singleton
<1> QED
    BY <1>1, <1>3, <1>4 DEF PartsApart, used, parts

(* flowgraph.cc's order and parts of any graph a program can connect.        *)
THEOREM AlwaysSorted == FSpec => []SortedByParts
<1>1. FInit => FInv
    BY FInvInit
<1>2. FInv /\ [FNext]_fvars => FInv'
    BY FInvNext
<1>3. FInv => SortedByParts
    BY GraphSorted, GraphApart DEF FInv, Graphs, SortedByParts
<1> QED
    BY <1>1, <1>2, <1>3, PTL DEF FSpec

-----------------------------------------------------------------------------
(* What nested blocks flatten to.  R joins an end to those next to it on the  *)
(* way inside; Inside is then all that can be reached.                        *)

EndsOf(R, x)  == {x} \cup {r[2] : r \in R}
Keeps(R, S) == \A r \in R : r[1] \in S => r[2] \in S

Reachable(R, x) == {z \in EndsOf(R, x) : \A S \in SUBSET EndsOf(R, x) : x \in S /\ Keeps(R, S) => z \in S}

LEMMA ReachableIs ==
    ASSUME NEW R, NEW x
    PROVE  /\ x \in Reachable(R, x)
           /\ Keeps(R, Reachable(R, x))
           /\ \A S : x \in S /\ Keeps(R, S) => Reachable(R, x) \subseteq S
<1>1. x \in Reachable(R, x)
    BY DEF Reachable, EndsOf
<1>2. ASSUME NEW r \in R, r[1] \in Reachable(R, x) PROVE r[2] \in Reachable(R, x)
    <2>1. r[2] \in EndsOf(R, x)
        BY DEF EndsOf
    <2>2. ASSUME NEW S \in SUBSET EndsOf(R, x), x \in S, Keeps(R, S) PROVE r[2] \in S
        <3>1. r[1] \in S
            BY <1>2, <2>2 DEF Reachable
        <3> QED
            BY <3>1, <2>2 DEF Keeps
    <2> QED
        BY <2>1, <2>2 DEF Reachable
<1>3. ASSUME NEW S, x \in S, Keeps(R, S) PROVE Reachable(R, x) \subseteq S
    <2> DEFINE T == S \cap EndsOf(R, x)
    <2>1. x \in T
        BY <1>3 DEF EndsOf
    <2>2. Keeps(R, T)
        BY <1>3 DEF Keeps, EndsOf
    <2>3. T \in SUBSET EndsOf(R, x)
        OBVIOUS
    <2> QED
        BY <2>1, <2>2, <2>3 DEF Reachable
<1> QED
    BY <1>1, <1>2, <1>3 DEF Keeps

\* What can be reached from an end that was reached.
LEMMA ReachableFrom ==
    ASSUME NEW R, NEW x, NEW y \in Reachable(R, x)
    PROVE  Reachable(R, y) \subseteq Reachable(R, x)
<1> DEFINE S == Reachable(R, x)
<1>1. y \in S /\ Keeps(R, S)
    BY ReachableIs
<1> HIDE DEF S
<1>2. Reachable(R, y) \subseteq S
    BY <1>1, ReachableIs
<1> QED
    BY <1>2 DEF S

\* The first step on the way, and the last.
LEMMA FirstStep ==
    ASSUME NEW R, NEW x, NEW z \in Reachable(R, x), z # x
    PROVE  \E r \in R : r[1] = x /\ z \in Reachable(R, r[2])
<1> DEFINE S == {x} \cup UNION {Reachable(R, r[2]) : r \in {q \in R : q[1] = x}}
<1>1. ASSUME NEW r \in R, r[1] \in S PROVE r[2] \in S
    <2>1. CASE r[1] = x
        <3>1. r[2] \in Reachable(R, r[2])
            BY ReachableIs
        <3> QED
            BY <2>1, <3>1
    <2>2. ASSUME NEW q \in R, q[1] = x, r[1] \in Reachable(R, q[2]) PROVE r[2] \in S
        <3>1. r[2] \in Reachable(R, q[2])
            BY <2>2, ReachableIs DEF Keeps
        <3> QED
            BY <2>2, <3>1
    <2> QED
        BY <1>1, <2>1, <2>2
<1>2. x \in S
    OBVIOUS
<1> HIDE DEF S
<1>3. Reachable(R, x) \subseteq S
    BY <1>1, <1>2, ReachableIs DEF Keeps
<1> QED
    BY <1>3 DEF S

LEMMA LastStep ==
    ASSUME NEW R, NEW x, NEW z \in Reachable(R, x), z # x
    PROVE  \E r \in R : r[2] = z /\ r[1] \in Reachable(R, x)
<1> DEFINE S == {x} \cup {r[2] : r \in {q \in R : q[1] \in Reachable(R, x)}}
<1>1. S \subseteq Reachable(R, x)
    BY ReachableIs DEF Keeps
<1>2. x \in S /\ Keeps(R, S)
    BY <1>1 DEF Keeps
<1> HIDE DEF S
<1>3. Reachable(R, x) \subseteq S
    BY <1>2, ReachableIs
<1> QED
    BY <1>3 DEF S

LEMMA NoStep ==
    ASSUME NEW R, NEW x, \A r \in R : r[1] # x
    PROVE  Reachable(R, x) = {x}
<1>1. Reachable(R, x) \subseteq {x}
    BY ReachableIs DEF Keeps
<1> QED
    BY <1>1, ReachableIs

-----------------------------------------------------------------------------
(* The functions by recursion of the model.                                  *)

OneCall(how, x, n, s) ==
    IF how = "behind" THEN UNION {Behind(y, x) : y \in s}
    ELSE IF how = "leads"
    THEN s \cup {<<z[1][1], z[2][2]>> : z \in {y \in s \X x : y[1][2] = y[2][1]}}
    ELSE IF how = "msgs" THEN flatten_msg(x, s, d_msg[x][n])
    ELSE flatten_aux(s)

CallsOf(how, x, start, k, f) ==
    f = [n \in 0 .. k |-> IF n = 0 THEN start ELSE OneCall(how, x, n, f[n - 1])]

CallByCall(how, x, start, k, f) ==
    f[0] = start /\ \A n \in 1 .. k : f[n] = OneCall(how, x, n, f[n - 1])

LEMMA CallsExist ==
    ASSUME NEW how, NEW x, NEW start, NEW k \in Nat
    PROVE  \E f : CallsOf(how, x, start, k, f)
<1> DEFINE S == {n \in Nat : \E f : CallsOf(how, x, start, n, f)}
<1>1. 0 \in S
    <2> DEFINE f == [n \in 0 .. 0 |-> start]
    <2>1. \A n \in 0 .. 0 : n = 0
        OBVIOUS
    <2>2. CallsOf(how, x, start, 0, f)
        BY <2>1 DEF CallsOf
    <2> QED
        BY <2>2
<1>2. ASSUME NEW n \in Nat, n \in S PROVE n + 1 \in S
    <2>1. PICK f : CallsOf(how, x, start, n, f)
        BY <1>2
    <2> DEFINE g == [m \in 0 .. n + 1 |-> IF m <= n THEN f[m] ELSE OneCall(how, x, n + 1, f[n])]
    <2>2. \A m \in 0 .. n : g[m] = f[m]
        OBVIOUS
    <2>3. g[n + 1] = OneCall(how, x, n + 1, f[n])
        OBVIOUS
    <2>4. \A m \in 0 .. n : f[m] = IF m = 0 THEN start ELSE OneCall(how, x, m, f[m - 1])
        <3> DEFINE h == [m \in 0 .. n |-> IF m = 0 THEN start ELSE OneCall(how, x, m, f[m - 1])]
        <3>1. \A m \in 0 .. n : h[m] = IF m = 0 THEN start ELSE OneCall(how, x, m, f[m - 1])
            OBVIOUS
        <3>2. f = h
            BY <2>1 DEF CallsOf
        <3> HIDE DEF h
        <3> QED
            BY <3>1, <3>2
    <2>5. g = [m \in 0 .. n + 1 |-> g[m]]
        OBVIOUS
    <2> HIDE DEF g
    <2>6. ASSUME NEW m \in 0 .. n + 1
          PROVE  g[m] = IF m = 0 THEN start ELSE OneCall(how, x, m, g[m - 1])
        <3>1. CASE m = 0
            BY <2>2, <2>4, <3>1
        <3>2. CASE m \in 1 .. n
            <4>1. m \in 0 .. n /\ m - 1 \in 0 .. n /\ m # 0
                BY <3>2
            <4> QED
                BY <2>2, <2>4, <4>1
        <3>3. CASE m = n + 1
            <4>1. m - 1 = n /\ n \in 0 .. n /\ m # 0
                BY <3>3
            <4> QED
                BY <2>2, <2>3, <3>3, <4>1
        <3> QED
            BY <3>1, <3>2, <3>3
    <2>7. CallsOf(how, x, start, n + 1, g)
        BY <2>5, <2>6 DEF CallsOf
    <2> QED
        BY <2>7
<1> HIDE DEF S
<1>3. k \in S
    BY <1>1, <1>2, Induction
<1> QED
    BY <1>3 DEF S

LEMMA CallsAre ==
    ASSUME NEW how, NEW x, NEW start, NEW k \in Nat, NEW f, CallsOf(how, x, start, k, f)
    PROVE  CallByCall(how, x, start, k, f)
<1> DEFINE h == [n \in 0 .. k |-> IF n = 0 THEN start ELSE OneCall(how, x, n, f[n - 1])]
<1>1. \A n \in 0 .. k : h[n] = IF n = 0 THEN start ELSE OneCall(how, x, n, f[n - 1])
    OBVIOUS
<1>2. f = h
    BY DEF CallsOf
<1> HIDE DEF h
<1>3. \A n \in 1 .. k : n \in 0 .. k /\ n # 0
    OBVIOUS
<1> QED
    BY <1>1, <1>2, <1>3 DEF CallByCall

-----------------------------------------------------------------------------
(* What the wiring means.                                                    *)

Pt(x) == Endpoint(x.block, x.port)

\* Edges as connect() accepts them, each with the block whose edge it is.
Accepted(used) ==
    \A u \in used : /\ u[1] \in Hiers
                    /\ {u[2].src.block, u[2].dst.block} \subseteq Hiers \cup Leaves
                    /\ {u[2].src.block, u[2].dst.block} # {u[1]}
                    /\ {u[2].src.block, u[2].dst.block} \cap (Hiers \ {u[1]}) \subseteq Within(u[1])

Pairs(used) == {<<SourceOf(u), TargetOf(u)>> : u \in used}

Extends(E, S) == \A x \in S, y \in E : x[2] = y[1] => <<x[1], y[2]>> \in S

Hierarchies == Cardinality(Hiers)

LEMMA SomeHiers == IsFiniteSet(Hiers) /\ Hierarchies \in Nat /\ Hierarchies >= 1
<1>1. IsFiniteSet(Hiers) /\ Top \in Hiers
    BY HierAssumption
<1>2. Hierarchies \in Nat
    BY <1>1, FS_CardinalityType DEF Hierarchies
<1>3. Hierarchies # 0
    BY <1>1, FS_EmptySet DEF Hierarchies
<1> QED
    BY <1>1, <1>2, <1>3

\* How far an end can be from the beginning of a way: up, then down.
RankOf(level, y) ==
    IF y.block \in Leaves THEN 2 * Hierarchies
    ELSE IF y.out THEN Hierarchies - 1 - level[y.block] ELSE Hierarchies + level[y.block]

Levels(level) ==
    /\ level \in [Hiers -> 0 .. Hierarchies - 1]
    /\ \A h \in Hiers : \A k \in Within(h) : level[k] > level[h]

LEMMA RankGrows ==
    ASSUME NEW used, Accepted(used), NEW level, Levels(level), NEW u \in used
    PROVE  /\ RankOf(level, TargetOf(u)) \in 0 .. 2 * Hierarchies
           /\ \A v \in used : TargetOf(v) = SourceOf(u) =>
                 RankOf(level, SourceOf(u)) + 1 <= RankOf(level, TargetOf(u))
<1> DEFINE e == u[2]
           h == u[1]
<1>1. /\ h \in Hiers /\ e.src.block \in Hiers \cup Leaves /\ e.dst.block \in Hiers \cup Leaves
      /\ e.src.block # h \/ e.dst.block # h
      /\ e.src.block \in Hiers \ {h} => level[e.src.block] > level[h]
      /\ e.dst.block \in Hiers \ {h} => level[e.dst.block] > level[h]
    BY DEF Accepted, Levels
<1>2. Hierarchies \in Nat /\ Hierarchies >= 1 /\ Hiers \cap Leaves = {}
    BY SomeHiers, HierAssumption
<1>3. \A k \in Hiers : level[k] \in Int /\ 0 <= level[k] /\ level[k] <= Hierarchies - 1
    BY <1>2 DEF Levels
<1>4. /\ SourceOf(u).block = e.src.block /\ SourceOf(u).out = (e.src.block # h)
      /\ TargetOf(u).block = e.dst.block /\ TargetOf(u).out = (e.dst.block = h)
    BY DEF SourceOf, TargetOf, End
<1>5. RankOf(level, TargetOf(u)) =
        IF e.dst.block \in Leaves THEN 2 * Hierarchies
        ELSE IF e.dst.block = h THEN Hierarchies - 1 - level[h] ELSE Hierarchies + level[e.dst.block]
    BY <1>1, <1>2, <1>4 DEF RankOf
<1>6. RankOf(level, TargetOf(u)) \in 0 .. 2 * Hierarchies
    BY <1>1, <1>2, <1>3, <1>5
<1>7. ASSUME NEW v \in used, TargetOf(v) = SourceOf(u) PROVE e.src.block \notin Leaves
    <2>1. TargetOf(v).block = v[2].dst.block /\ TargetOf(v).out = (v[2].dst.block = v[1]) /\ v[1] \in Hiers
        BY DEF TargetOf, End, Accepted
    <2> QED
        BY <1>1, <1>2, <1>4, <1>7, <2>1
<1>8. ASSUME e.src.block \notin Leaves
      PROVE  RankOf(level, SourceOf(u)) + 1 <= RankOf(level, TargetOf(u))
    <2>1. RankOf(level, SourceOf(u)) =
            IF e.src.block = h THEN Hierarchies + level[h] ELSE Hierarchies - 1 - level[e.src.block]
        BY <1>1, <1>2, <1>4, <1>8 DEF RankOf
    <2> QED
        BY <1>1, <1>2, <1>3, <1>5, <1>8, <2>1
<1> QED
    BY <1>6, <1>7, <1>8

\* Ways as long as Leads makes them are long enough.
LEMMA LeadsIs ==
    ASSUME NEW used, Accepted(used)
    PROVE  LET E == Pairs(used)
           IN  /\ E \subseteq Leads(E)
               /\ Extends(E, Leads(E))
               /\ \A S : E \subseteq S /\ Extends(E, S) => Leads(E) \subseteq S
<1> DEFINE E == Pairs(used)
           k == 2 * Hierarchies
           f == CHOOSE f : CallsOf("leads", E, E, k, f)
<1>1. k \in Nat
    BY SomeHiers
<1>2. CallsOf("leads", E, E, k, f)
    <2>1. \E g : CallsOf("leads", E, E, k, g)
        BY <1>1, CallsExist
    <2> QED
        BY <2>1
<1>3. Leads(E) = f[k]
    BY DEF Leads, CallsOf, OneCall, Hierarchies
<1>4. f[0] = E /\ \A n \in 1 .. k : f[n] = OneCall("leads", E, n, f[n - 1])
    <2> HIDE DEF E, k, f
    <2>1. CallByCall("leads", E, E, k, f)
        BY <1>1, <1>2, CallsAre
    <2> QED
        BY <2>1 DEF CallByCall
<1> HIDE DEF f
<1>5. ASSUME NEW n \in 0 .. k - 1
      PROVE  f[n + 1] = f[n] \cup {<<z[1][1], z[2][2]>> : z \in {y \in f[n] \X E : y[1][2] = y[2][1]}}
    <2>1. n + 1 \in 1 .. k /\ n + 1 - 1 = n
        BY <1>1
    <2>2. f[n + 1] = OneCall("leads", E, n + 1, f[n])
        BY <1>4, <2>1
    <2> QED
        BY <2>2 DEF OneCall
<1> HIDE DEF E, k
<1>6. ASSUME NEW n \in 0 .. k - 1
      PROVE  /\ f[n] \subseteq f[n + 1]
             /\ \A x \in f[n], y \in E : x[2] = y[1] => <<x[1], y[2]>> \in f[n + 1]
             /\ \A z \in f[n + 1] : z \in f[n] \/ \E x \in f[n], y \in E : x[2] = y[1] /\ z = <<x[1], y[2]>>
    <2>1. f[n + 1] = f[n] \cup {<<z[1][1], z[2][2]>> : z \in {y \in f[n] \X E : y[1][2] = y[2][1]}}
        BY <1>5
    <2>2. ASSUME NEW x \in f[n], NEW y \in E, x[2] = y[1] PROVE <<x[1], y[2]>> \in f[n + 1]
        <3>1. <<x, y>> \in {z \in f[n] \X E : z[1][2] = z[2][1]}
            BY <2>2
        <3> QED
            BY <2>1, <3>1
    <2> QED
        BY <2>1, <2>2
<1>7. ASSUME NEW m \in 0 .. k PROVE \A n \in Nat : n >= m /\ n <= k => f[m] \subseteq f[n]
    <2> DEFINE S == {n \in Nat : n >= m /\ n <= k => f[m] \subseteq f[n]}
    <2>1. 0 \in S
        BY <1>1
    <2>2. ASSUME NEW n \in Nat, n \in S PROVE n + 1 \in S
        <3>1. CASE n + 1 >= m /\ n + 1 <= k
            <4>1. CASE n + 1 = m
                BY <4>1
            <4>2. CASE n >= m
                <5>1. n \in 0 .. k - 1
                    BY <3>1, <1>1
                <5> QED
                    BY <2>2, <3>1, <4>2, <5>1, <1>1, <1>6
            <4> QED
                BY <3>1, <4>1, <4>2
        <3> QED
            BY <3>1
    <2> HIDE DEF S
    <2>3. \A n \in Nat : n \in S
        BY <2>1, <2>2, Induction
    <2> QED
        BY <2>3 DEF S
<1>8. PICK level : Levels(level)
    BY NestAssumption DEF Levels, Hierarchies
<1> DEFINE Rank(y) == RankOf(level, y)
           InTime(x) == \E u \in used : x[2] = TargetOf(u) /\ x \in f[Rank(x[2])]
<1>9. \A n \in Nat : n <= k => \A x \in f[n] : InTime(x)
    <2> DEFINE S == {n \in Nat : n <= k => \A x \in f[n] : InTime(x)}
    <2>1. 0 \in S
        <3>1. ASSUME NEW x \in f[0] PROVE InTime(x)
            <4>1. PICK u \in used : x[2] = TargetOf(u)
                BY <1>4 DEF E, Pairs
            <4>2. Rank(x[2]) \in 0 .. k
                BY <4>1, <1>8, RankGrows DEF k
            <4> QED
                BY <4>1, <4>2, <1>1, <1>7
        <3> QED
            BY <3>1
    <2>2. ASSUME NEW n \in Nat, n \in S PROVE n + 1 \in S
        <3>1. ASSUME n + 1 <= k, NEW z \in f[n + 1] PROVE InTime(z)
            <4>1. n \in 0 .. k - 1
                BY <3>1, <1>1
            <4>2. CASE z \in f[n]
                BY <2>2, <4>1, <4>2, <1>1
            <4>3. ASSUME NEW x \in f[n], NEW y \in E, x[2] = y[1], z = <<x[1], y[2]>> PROVE InTime(z)
                <5>1. PICK v \in used : x[2] = TargetOf(v) /\ x \in f[Rank(x[2])]
                    BY <2>2, <4>1, <4>3, <1>1
                <5>2. PICK u \in used : y = <<SourceOf(u), TargetOf(u)>>
                    BY DEF E, Pairs
                <5>3. TargetOf(v) = SourceOf(u)
                    BY <4>3, <5>1, <5>2
                <5>4. /\ Rank(SourceOf(u)) + 1 <= Rank(TargetOf(u))
                      /\ Rank(TargetOf(u)) \in 0 .. k /\ Rank(SourceOf(u)) \in 0 .. k
                    BY <5>3, <1>8, RankGrows DEF k
                <5>5. Rank(x[2]) = Rank(SourceOf(u)) /\ Rank(z[2]) = Rank(TargetOf(u)) /\ z[2] = TargetOf(u)
                    BY <4>3, <5>1, <5>2, <5>3
                <5> HIDE DEF Rank
                <5>6. Rank(x[2]) \in 0 .. k - 1
                    BY <5>4, <5>5, <1>1
                <5>7. z \in f[Rank(x[2]) + 1]
                    BY <4>3, <5>1, <5>6, <1>6
                <5>8. Rank(x[2]) + 1 \in 0 .. k /\ Rank(z[2]) \in Nat /\ Rank(z[2]) >= Rank(x[2]) + 1 /\ Rank(z[2]) <= k
                    BY <5>4, <5>5, <5>6, <1>1
                <5>9. z \in f[Rank(z[2])]
                    BY <5>7, <5>8, <1>7
                <5> QED
                    BY <5>5, <5>9
            <4> QED
                BY <4>1, <4>2, <4>3, <1>6
        <3> QED
            BY <3>1
    <2> HIDE DEF S, InTime
    <2>3. \A n \in Nat : n \in S
        BY <2>1, <2>2, Induction
    <2> QED
        BY <2>3 DEF S
<1>10. ASSUME NEW x \in f[k], NEW y \in E, x[2] = y[1] PROVE <<x[1], y[2]>> \in f[k]
    <2>1. PICK v \in used : x[2] = TargetOf(v) /\ x \in f[Rank(x[2])]
        BY <1>1, <1>9
    <2>2. PICK u \in used : y = <<SourceOf(u), TargetOf(u)>>
        BY DEF E, Pairs
    <2>3. TargetOf(v) = SourceOf(u)
        BY <1>10, <2>1, <2>2
    <2>4. /\ Rank(SourceOf(u)) + 1 <= Rank(TargetOf(u))
          /\ Rank(TargetOf(u)) \in 0 .. k /\ Rank(SourceOf(u)) \in 0 .. k
        BY <2>3, <1>8, RankGrows DEF k
    <2>5. Rank(x[2]) = Rank(SourceOf(u))
        BY <2>1, <2>3
    <2> HIDE DEF Rank
    <2>6. Rank(x[2]) \in 0 .. k - 1
        BY <2>4, <2>5, <1>1
    <2>7. <<x[1], y[2]>> \in f[Rank(x[2]) + 1]
        BY <1>10, <2>1, <2>6, <1>6
    <2> QED
        BY <2>6, <2>7, <1>1, <1>7
<1>11. ASSUME NEW S, E \subseteq S, Extends(E, S) PROVE f[k] \subseteq S
    <2> DEFINE T == {n \in Nat : n <= k => f[n] \subseteq S}
    <2>1. 0 \in T
        BY <1>4, <1>11
    <2>2. ASSUME NEW n \in Nat, n \in T PROVE n + 1 \in T
        <3>1. ASSUME n + 1 <= k, NEW z \in f[n + 1] PROVE z \in S
            <4>1. n \in 0 .. k - 1 /\ n <= k
                BY <3>1, <1>1
            <4>2. f[n] \subseteq S
                BY <2>2, <4>1
            <4> QED
                BY <4>1, <4>2, <1>6, <1>11 DEF Extends
        <3> QED
            BY <3>1
    <2> HIDE DEF T
    <2>3. \A n \in Nat : n \in T
        BY <2>1, <2>2, Induction
    <2> QED
        BY <2>3, <1>1 DEF T
<1>12. f[0] \subseteq f[k]
    BY <1>1, <1>7
<1> QED
    BY <1>3, <1>4, <1>10, <1>11, <1>12 DEF Extends, E

\* From a block's own input inside, from its own output inside, and the edges
\* that are at neither.
Downs(used) == {<<Pt(u[2].src), Pt(u[2].dst)>> : u \in {v \in used : v[2].src.block = v[1]}}
Ups(used)   == {<<Pt(u[2].dst), Pt(u[2].src)>> : u \in {v \in used : v[2].dst.block = v[1]}}
InnerOf(used) == {u \in used : u[2].src.block # u[1] /\ u[2].dst.block # u[1]}

\* The plain ends behind one, and the connections an edge stands for.
PlainAt(R, x) == {z \in Reachable(R, Pt(x)) : z.block \in Leaves}

Spread(used, e) ==
    {Joined(x[1], x[2]) : x \in PlainAt(Ups(used), e.src) \X PlainAt(Downs(used), e.dst)}

LEMMA EndParts ==
    ASSUME NEW x, NEW out
    PROVE  /\ End(x, out).block = x.block /\ End(x, out).port = x.port /\ End(x, out).out = out
           /\ Pt(End(x, out)) = Pt(x) /\ End(Pt(x), out) = End(x, out)
           /\ Pt(x).block = x.block /\ Pt(x).port = x.port /\ Pt(Pt(x)) = Pt(x)
BY DEF End, Pt, Endpoint

LEMMA WayIs ==
    ASSUME NEW used, Accepted(used), NEW w \in Leads(Pairs(used)), w[1].out = TRUE
    PROVE  IF w[2].out THEN Pt(w[1]) \in Reachable(Ups(used), Pt(w[2]))
           ELSE \E u \in InnerOf(used) : /\ Pt(w[1]) \in Reachable(Ups(used), Pt(u[2].src))
                                       /\ Pt(w[2]) \in Reachable(Downs(used), Pt(u[2].dst))
<1> DEFINE E == Pairs(used)
           Up(x) == Reachable(Ups(used), Pt(x))
           Down(x) == Reachable(Downs(used), Pt(x))
           Is(x, y) == IF y.out THEN Pt(x) \in Up(y)
                       ELSE \E u \in InnerOf(used) : Pt(x) \in Up(u[2].src) /\ Pt(y) \in Down(u[2].dst)
           S == {v \in Leads(E) : v[1].out = TRUE => Is(v[1], v[2])}
<1>1. ASSUME NEW u \in used, NEW x,
             \/ x = SourceOf(u)
             \/ SourceOf(u).out = TRUE /\ Pt(x) \in Up(SourceOf(u))
             \/ SourceOf(u).out = FALSE
                    /\ \E i \in InnerOf(used) : Pt(x) \in Up(i[2].src) /\ Pt(SourceOf(u)) \in Down(i[2].dst)
      PROVE  x.out = TRUE => Is(x, TargetOf(u))
    <2> DEFINE e == u[2]
               h == u[1]
               s == SourceOf(u)
               t == TargetOf(u)
    <2>1. /\ Pt(s) = Pt(e.src) /\ s.out = (e.src.block # h)
          /\ Pt(t) = Pt(e.dst) /\ t.out = (e.dst.block = h)
        BY EndParts DEF SourceOf, TargetOf
    <2>2. ~(e.src.block = h /\ e.dst.block = h)
        BY DEF Accepted
    <2>3. CASE e.src.block = h
        <3>1. <<Pt(e.src), Pt(e.dst)>> \in Downs(used)
            BY <2>3 DEF Downs
        <3>2. CASE x = s
            BY <3>2, <2>1, <2>3
        <3>3. CASE x # s
            <4>1. PICK i \in InnerOf(used) : Pt(x) \in Up(i[2].src) /\ Pt(s) \in Down(i[2].dst)
                BY <1>1, <2>1, <2>3, <3>3
            <4>2. Pt(e.dst) \in Down(i[2].dst)
                BY <2>1, <3>1, <4>1, ReachableIs DEF Keeps
            <4> QED
                BY <2>1, <2>2, <2>3, <4>1, <4>2
        <3> QED
            BY <3>2, <3>3
    <2>4. CASE e.src.block # h
        <3>1. Pt(x) \in Up(e.src)
            <4>1. Pt(e.src) \in Up(e.src)
                BY ReachableIs
            <4> QED
                BY <1>1, <2>1, <2>4, <4>1
        <3>2. CASE e.dst.block = h
            <4>1. <<Pt(e.dst), Pt(e.src)>> \in Ups(used)
                BY <3>2 DEF Ups
            <4>2. Pt(e.src) \in Up(e.dst)
                BY <4>1, ReachableIs DEF Keeps
            <4>3. Up(e.src) \subseteq Up(e.dst)
                BY <4>2, ReachableFrom
            <4> QED
                BY <2>1, <3>1, <3>2, <4>3
        <3>3. CASE e.dst.block # h
            <4>1. u \in InnerOf(used)
                BY <2>4, <3>3 DEF InnerOf
            <4>2. Pt(e.dst) \in Down(e.dst)
                BY ReachableIs
            <4> QED
                BY <2>1, <3>1, <3>3, <4>1, <4>2
        <3> QED
            BY <3>2, <3>3
    <2> QED
        BY <2>3, <2>4
<1>2. /\ E \subseteq Leads(E) /\ Extends(E, Leads(E))
      /\ \A T : E \subseteq T /\ Extends(E, T) => Leads(E) \subseteq T
    BY LeadsIs
<1>3. E \subseteq S
    <2>1. ASSUME NEW u \in used PROVE <<SourceOf(u), TargetOf(u)>> \in S
        <3>1. <<SourceOf(u), TargetOf(u)>> \in Leads(E)
            BY <1>2 DEF Pairs
        <3>2. SourceOf(u).out = TRUE => Is(SourceOf(u), TargetOf(u))
            BY <1>1
        <3> QED
            BY <3>1, <3>2
    <2> QED
        BY <2>1 DEF Pairs
<1>4. ASSUME NEW x \in S, NEW y \in E, x[2] = y[1] PROVE <<x[1], y[2]>> \in S
    <2>1. <<x[1], y[2]>> \in Leads(E)
        BY <1>2, <1>4 DEF Extends
    <2>2. PICK u \in used : y = <<SourceOf(u), TargetOf(u)>>
        BY DEF Pairs
    <2>3. SourceOf(u).out \in BOOLEAN
        BY EndParts DEF SourceOf
    <2>4. ASSUME x[1].out = TRUE PROVE Is(x[1], TargetOf(u))
        <3>1. x[2] = SourceOf(u) /\ Is(x[1], x[2])
            BY <1>4, <2>2, <2>4
        <3> QED
            BY <1>1, <2>3, <2>4, <3>1
    <2> QED
        BY <2>1, <2>2, <2>4
<1>5. w \in S
    <2> HIDE DEF S
    <2> QED
        BY <1>2, <1>3, <1>4 DEF Extends
<1> QED
    BY <1>5

LEMMA MeaningIs ==
    ASSUME NEW used, Accepted(used)
    PROVE  Meaning(used) = UNION {Spread(used, u[2]) : u \in InnerOf(used)}
<1> DEFINE E == Pairs(used)
           L == Leads(E)
           Up(x) == Reachable(Ups(used), Pt(x))
           Down(x) == Reachable(Downs(used), Pt(x))
<1>1. /\ E \subseteq L /\ Extends(E, L)
      /\ \A T : E \subseteq T /\ Extends(E, T) => L \subseteq T
    BY LeadsIs
<1>2. Meaning(used) = {e \in {Joined(w[1], w[2]) : w \in L} : BetweenLeaves(e)}
    BY DEF Meaning, Pairs
<1>3. \A a, b : Joined(a, b).src.block = a.block /\ Joined(a, b).dst.block = b.block
               /\ Joined(a, b) = Joined(Pt(a), Pt(b))
    BY DEF Joined, Edge, Endpoint, Pt
<1>4. \A u \in used : u[1] \in Hiers /\ u[1] \notin Leaves
    BY HierAssumption DEF Accepted
<1>5. ASSUME NEW w \in L, BetweenLeaves(Joined(w[1], w[2]))
      PROVE  \E u \in InnerOf(used) : Joined(w[1], w[2]) \in Spread(used, u[2])
    <2>1. w[1].block \in Leaves /\ w[2].block \in Leaves
        BY <1>3, <1>5 DEF BetweenLeaves
    <2>2. w[1].out = TRUE
        <3> DEFINE T == {x \in L : x[1].block \in Leaves => x[1].out = TRUE}
        <3>1. \A u \in used : SourceOf(u).block \in Leaves => SourceOf(u).out = TRUE
            <4>1. ASSUME NEW u \in used, SourceOf(u).block \in Leaves PROVE SourceOf(u).out = TRUE
                <5>1. SourceOf(u).block = u[2].src.block /\ SourceOf(u).out = (u[2].src.block # u[1])
                    BY EndParts DEF SourceOf
                <5>2. u[2].src.block # u[1]
                    BY <1>4, <4>1, <5>1
                <5> QED
                    BY <5>1, <5>2
            <4> QED
                BY <4>1
        <3>2. E \subseteq T
            BY <1>1, <3>1 DEF Pairs
        <3>3. Extends(E, T)
            BY <1>1 DEF Extends
        <3>4. L \subseteq T
            <4> HIDE DEF T, L, E
            <4> QED
                BY <1>1, <3>2, <3>3
        <3> QED
            BY <2>1, <3>4
    <2>3. w[2].out = FALSE
        <3> DEFINE T == {x \in L : x[2].block \in Leaves => x[2].out = FALSE}
        <3>1. \A u \in used : TargetOf(u).block \in Leaves => TargetOf(u).out = FALSE
            <4>1. ASSUME NEW u \in used, TargetOf(u).block \in Leaves PROVE TargetOf(u).out = FALSE
                <5>1. TargetOf(u).block = u[2].dst.block /\ TargetOf(u).out = (u[2].dst.block = u[1])
                    BY EndParts DEF TargetOf
                <5>2. u[2].dst.block # u[1]
                    BY <1>4, <4>1, <5>1
                <5> QED
                    BY <5>1, <5>2
            <4> QED
                BY <4>1
        <3>2. E \subseteq T
            BY <1>1, <3>1 DEF Pairs
        <3>3. Extends(E, T)
            BY <1>1, <3>1 DEF Extends, Pairs
        <3>4. L \subseteq T
            <4> HIDE DEF T, L, E
            <4> QED
                BY <1>1, <3>2, <3>3
        <3> QED
            BY <2>1, <3>4
    <2>4. PICK u \in InnerOf(used) : Pt(w[1]) \in Up(u[2].src) /\ Pt(w[2]) \in Down(u[2].dst)
        BY <2>2, <2>3, WayIs
    <2>5. Pt(w[1]) \in PlainAt(Ups(used), u[2].src) /\ Pt(w[2]) \in PlainAt(Downs(used), u[2].dst)
        BY <2>1, <2>4, EndParts DEF PlainAt
    <2>6. Joined(Pt(w[1]), Pt(w[2])) \in Spread(used, u[2])
        <3> DEFINE x == <<Pt(w[1]), Pt(w[2])>>
        <3>1. /\ x \in PlainAt(Ups(used), u[2].src) \X PlainAt(Downs(used), u[2].dst)
              /\ x[1] = Pt(w[1]) /\ x[2] = Pt(w[2])
            BY <2>5
        <3> HIDE DEF x
        <3> QED
            BY <3>1 DEF Spread
    <2> QED
        BY <1>3, <2>6
<1>6. ASSUME NEW u \in InnerOf(used), NEW a \in PlainAt(Ups(used), u[2].src),
             NEW b \in PlainAt(Downs(used), u[2].dst)
      PROVE  Joined(a, b) \in Meaning(used)
    <2> DEFINE s == SourceOf(u)
               t == TargetOf(u)
    <2>1. /\ u \in used
          /\ s = End(u[2].src, TRUE) /\ t = End(u[2].dst, FALSE)
          /\ <<s, t>> \in E
        BY DEF InnerOf, SourceOf, TargetOf, Pairs
    <2>2. a \in Up(u[2].src) /\ b \in Down(u[2].dst) /\ a.block \in Leaves /\ b.block \in Leaves
        BY DEF PlainAt
    <2>3. ASSUME NEW x, NEW y \in L, <<x, y[1]>> \in E PROVE <<x, y[2]>> \in L
        <3> DEFINE T == {v \in L : <<x, v[1]>> \in E => <<x, v[2]>> \in L}
        <3>1. E \subseteq T
            <4>1. ASSUME NEW v \in E, <<x, v[1]>> \in E PROVE <<x, v[2]>> \in L
                <5>1. <<x, v[1]>> \in L /\ <<x, v[1]>>[2] = v[1] /\ <<x, v[1]>>[1] = x
                    BY <1>1, <4>1
                <5> QED
                    BY <1>1, <5>1 DEF Extends
            <4> QED
                BY <1>1, <4>1
        <3>2. Extends(E, T)
            <4>1. ASSUME NEW v \in T, NEW z \in E, v[2] = z[1] PROVE <<v[1], z[2]>> \in T
                <5>1. <<v[1], z[2]>> \in L
                    BY <1>1, <4>1 DEF Extends
                <5>2. ASSUME <<x, v[1]>> \in E PROVE <<x, z[2]>> \in L
                    <6>1. <<x, v[2]>> \in L /\ <<x, v[2]>>[2] = z[1] /\ <<x, v[2]>>[1] = x
                        BY <4>1, <5>2
                    <6> QED
                        BY <1>1, <6>1 DEF Extends
                <5> QED
                    BY <5>1, <5>2
            <4> QED
                BY <4>1 DEF Extends
        <3>3. L \subseteq T
            <4> HIDE DEF T, L, E
            <4> QED
                BY <1>1, <3>1, <3>2
        <3> QED
            BY <2>3, <3>3
    <2>4. <<End(a, TRUE), t>> \in L
        <3> DEFINE T == {z \in Up(u[2].src) : <<End(z, TRUE), t>> \in L}
        <3>1. Pt(u[2].src) \in T
            <4>1. End(Pt(u[2].src), TRUE) = s
                BY <2>1, EndParts
            <4>2. <<s, t>> \in L
                BY <1>1, <2>1
            <4> QED
                BY <4>1, <4>2, ReachableIs
        <3>2. ASSUME NEW v \in used, v[2].dst.block = v[1], Pt(v[2].dst) \in T PROVE Pt(v[2].src) \in T
            <4>1. v[2].src.block # v[1]
                BY <3>2 DEF Accepted
            <4>2. SourceOf(v) = End(Pt(v[2].src), TRUE) /\ TargetOf(v) = End(Pt(v[2].dst), TRUE)
                BY <3>2, <4>1, EndParts DEF SourceOf, TargetOf
            <4>3. <<End(Pt(v[2].src), TRUE), End(Pt(v[2].dst), TRUE)>> \in E
                BY <4>2 DEF Pairs
            <4>4. <<End(Pt(v[2].src), TRUE), t>> \in L
                <5> DEFINE y == <<End(Pt(v[2].dst), TRUE), t>>
                <5>1. y \in L /\ y[1] = End(Pt(v[2].dst), TRUE) /\ y[2] = t
                    BY <3>2
                <5> HIDE DEF y, L, E, t
                <5> QED
                    BY <4>3, <5>1, <2>3
            <4>5. <<Pt(v[2].dst), Pt(v[2].src)>> \in Ups(used)
                BY <3>2 DEF Ups
            <4>6. Pt(v[2].src) \in Up(u[2].src)
                BY <3>2, <4>5, ReachableIs DEF Keeps
            <4> QED
                BY <4>4, <4>6
        <3> HIDE DEF T
        <3>3. Keeps(Ups(used), T)
            BY <3>2 DEF Keeps, Ups
        <3>4. Up(u[2].src) \subseteq T
            BY <3>1, <3>3, ReachableIs
        <3> QED
            BY <2>2, <3>4 DEF T
    <2>5. <<End(a, TRUE), End(b, FALSE)>> \in L
        <3> DEFINE T == {z \in Down(u[2].dst) : <<End(a, TRUE), End(z, FALSE)>> \in L}
        <3>1. Pt(u[2].dst) \in T
            <4>1. End(Pt(u[2].dst), FALSE) = t
                BY <2>1, EndParts
            <4> QED
                BY <2>4, <4>1, ReachableIs
        <3>2. ASSUME NEW v \in used, v[2].src.block = v[1], Pt(v[2].src) \in T PROVE Pt(v[2].dst) \in T
            <4>1. v[2].dst.block # v[1]
                BY <3>2 DEF Accepted
            <4>2. SourceOf(v) = End(Pt(v[2].src), FALSE) /\ TargetOf(v) = End(Pt(v[2].dst), FALSE)
                BY <3>2, <4>1, EndParts DEF SourceOf, TargetOf
            <4>3. <<End(Pt(v[2].src), FALSE), End(Pt(v[2].dst), FALSE)>> \in E
                BY <4>2 DEF Pairs
            <4>4. <<End(a, TRUE), End(Pt(v[2].dst), FALSE)>> \in L
                BY <1>1, <3>2, <4>3 DEF Extends
            <4>5. <<Pt(v[2].src), Pt(v[2].dst)>> \in Downs(used)
                BY <3>2 DEF Downs
            <4>6. Pt(v[2].dst) \in Down(u[2].dst)
                BY <3>2, <4>5, ReachableIs DEF Keeps
            <4> QED
                BY <4>4, <4>6
        <3> HIDE DEF T
        <3>3. Keeps(Downs(used), T)
            BY <3>2 DEF Keeps, Downs
        <3>4. Down(u[2].dst) \subseteq T
            BY <3>1, <3>3, ReachableIs
        <3> QED
            BY <2>2, <3>4 DEF T
    <2>6. Joined(End(a, TRUE), End(b, FALSE)) = Joined(a, b)
        BY EndParts DEF Joined
    <2>7. BetweenLeaves(Joined(a, b))
        BY <1>3, <2>2 DEF BetweenLeaves
    <2> DEFINE w == <<End(a, TRUE), End(b, FALSE)>>
    <2>8. w \in L /\ Joined(w[1], w[2]) = Joined(a, b)
        BY <2>5, <2>6
    <2> QED
        BY <1>2, <2>7, <2>8
<1>7. Meaning(used) \subseteq UNION {Spread(used, u[2]) : u \in InnerOf(used)}
    BY <1>2, <1>5
<1>8. UNION {Spread(used, u[2]) : u \in InnerOf(used)} \subseteq Meaning(used)
    BY <1>6 DEF Spread
<1> QED
    BY <1>7, <1>8

-----------------------------------------------------------------------------
(* The blocks in use, and their wiring.                                      *)

NoneTwice(s) == \A i, j \in DOMAIN s : s[i] = s[j] => i = j

WiringInv ==
    /\ DOMAIN d_fg = Hiers /\ DOMAIN d_msg = Hiers
    /\ d_blocks \in [Hiers -> [Hiers \cup Leaves -> Int]]
    /\ \A h \in Hiers : /\ d_fg[h] \subseteq MayHave(h)
                        /\ d_msg[h] \in Seq(MayMsgHave(h)) /\ NoneTwice(d_msg[h])
                        /\ \A b \in Hiers \ {h} : d_blocks[h][b] > 0 => b \in Within(h)

LEMMA ToSetIs ==
    ASSUME NEW T, NEW s \in Seq(T)
    PROVE  /\ ToSet(s) \subseteq T /\ DOMAIN s = 1 .. Len(s) /\ Len(s) \in Nat
           /\ ToSet(s) = {s[i] : i \in 1 .. Len(s)}
BY DEF ToSet

LEMMA UsedIs ==
    /\ Top \in UsedHiers /\ UsedHiers \subseteq Hiers
    /\ \A h \in UsedHiers : Children(h) \subseteq UsedHiers
    /\ \A S \in SUBSET Hiers : Top \in S /\ (\A k \in S : Children(k) \subseteq S) => UsedHiers \subseteq S
<1>1. Top \in UsedHiers
    BY HierAssumption DEF UsedHiers
<1>2. UsedHiers \subseteq Hiers
    BY DEF UsedHiers
<1>3. ASSUME NEW h \in UsedHiers, NEW k \in Children(h) PROVE k \in UsedHiers
    <2>1. k \in Hiers
        BY DEF Children
    <2>2. ASSUME NEW S \in SUBSET Hiers, Top \in S, \A g \in S : Children(g) \subseteq S PROVE k \in S
        <3>1. h \in S
            BY <2>2 DEF UsedHiers
        <3> QED
            BY <2>2, <3>1, <1>3
    <2> QED
        BY <2>1, <2>2 DEF UsedHiers
<1>4. ASSUME NEW S \in SUBSET Hiers, Top \in S, \A k \in S : Children(k) \subseteq S
      PROVE  UsedHiers \subseteq S
    BY <1>4 DEF UsedHiers
<1> QED
    BY <1>1, <1>2, <1>3, <1>4

LEMMA ChildrenWithin ==
    ASSUME WiringInv, NEW h \in Hiers
    PROVE  /\ Children(h) \subseteq Within(h) /\ Children(h) \subseteq Hiers \ {h}
           /\ \A e \in d_fg[h] : {e.src.block, e.dst.block} \cap (Hiers \ {h}) \subseteq Children(h)
           /\ \A m \in ToSet(d_msg[h]) :
                 {m.src.block, m.dst.block} \cap (Hiers \ {h}) \subseteq Children(h)
<1>1. /\ \A e \in d_fg[h] : {e.src.block, e.dst.block} \subseteq calc_used_blocks(d_fg[h], ToSet(d_msg[h]))
      /\ \A m \in ToSet(d_msg[h]) :
            {m.src.block, m.dst.block} \subseteq calc_used_blocks(d_fg[h], ToSet(d_msg[h]))
      /\ \A b \in calc_used_blocks(d_fg[h], ToSet(d_msg[h])) :
            \/ \E e \in d_fg[h] : b \in {e.src.block, e.dst.block}
            \/ \E m \in ToSet(d_msg[h]) : b \in {m.src.block, m.dst.block}
    <2> DEFINE F == d_fg[h]
               T == ToSet(d_msg[h])
               U == UNION {{m.src.block, m.dst.block} : m \in T}
               S == {e.src.block : e \in F}
               D == {e.dst.block : e \in F}
    <2>1. calc_used_blocks(F, T) = U \cup S \cup D
        BY Zenon DEF calc_used_blocks
    <2> HIDE DEF F, T
    <2>2. /\ \A e \in F : e.src.block \in S /\ e.dst.block \in D
          /\ \A b \in S \cup D : \E e \in F : b \in {e.src.block, e.dst.block}
        OBVIOUS
    <2>3. /\ \A m \in T : {m.src.block, m.dst.block} \subseteq U
          /\ \A b \in U : \E m \in T : b \in {m.src.block, m.dst.block}
        OBVIOUS
    <2> HIDE DEF U, S, D
    <2>4. /\ \A e \in F : {e.src.block, e.dst.block} \subseteq calc_used_blocks(F, T)
          /\ \A m \in T : {m.src.block, m.dst.block} \subseteq calc_used_blocks(F, T)
          /\ \A b \in calc_used_blocks(F, T) :
                \/ \E e \in F : b \in {e.src.block, e.dst.block}
                \/ \E m \in T : b \in {m.src.block, m.dst.block}
        BY <2>1, <2>2, <2>3
    <2> QED
        BY <2>4 DEF F, T
<1>2. ToSet(d_msg[h]) \subseteq MayMsgHave(h) /\ d_fg[h] \subseteq MayHave(h)
    BY ToSetIs DEF WiringInv
<1>3. ASSUME NEW k \in Children(h) PROVE k \in Within(h) /\ k \in Hiers \ {h}
    <2>1. k \in Hiers \ {h}
        BY DEF Children
    <2>2. CASE \E e \in d_fg[h] : k \in {e.src.block, e.dst.block}
        BY <1>2, <2>1, <2>2 DEF Within
    <2>3. CASE d_blocks[h][k] > 0
        BY <2>1, <2>3 DEF WiringInv
    <2>4. CASE \E m \in ToSet(d_msg[h]) : k \in {m.src.block, m.dst.block}
        <3>1. PICK m \in MayMsgHave(h) : k \in {m.src.block, m.dst.block}
            BY <1>2, <2>4
        <3> DEFINE T == UNION {{n.src.block, n.dst.block} : n \in MayMsgHave(h)}
        <3>2. T \cap (Hiers \ {h}) \subseteq Within(h)
            BY DEF Within
        <3>3. k \in T
            BY <3>1
        <3> HIDE DEF T
        <3> QED
            BY <2>1, <3>2, <3>3
    <2> QED
        BY <1>1, <2>2, <2>3, <2>4 DEF Children
<1>4. \A e \in d_fg[h] : {e.src.block, e.dst.block} \cap (Hiers \ {h}) \subseteq Children(h)
    BY <1>1 DEF Children
<1>5. \A m \in ToSet(d_msg[h]) : {m.src.block, m.dst.block} \cap (Hiers \ {h}) \subseteq Children(h)
    BY DEF Children
<1> QED
    BY <1>3, <1>4, <1>5

LEMMA StreamsAccepted ==
    ASSUME WiringInv
    PROVE  /\ Accepted(StreamsUsed)
           /\ \A u \in StreamsUsed :
                /\ u = <<u[1], u[2]>> /\ u[1] \in UsedHiers /\ u[2] \in d_fg[u[1]]
                /\ {u[2].src.block, u[2].dst.block} \subseteq UsedHiers \cup Leaves
                /\ u[2].src = Pt(u[2].src) /\ u[2].dst = Pt(u[2].dst)
                /\ u[2].src.block # u[2].dst.block
                /\ u[2] = Joined(u[2].src, u[2].dst)
<1>1. ASSUME NEW h \in UsedHiers, NEW e \in d_fg[h]
      PROVE  /\ h \in Hiers
             /\ {e.src.block, e.dst.block} \subseteq UsedHiers \cup Leaves
             /\ {e.src.block, e.dst.block} \cap (Hiers \ {h}) \subseteq Within(h)
             /\ e.src.block # e.dst.block
             /\ e.src = Pt(e.src) /\ e.dst = Pt(e.dst) /\ e = Joined(e.src, e.dst)
    <2>1. h \in Hiers
        BY UsedIs
    <2>2. e \in MayHave(h)
        BY <2>1 DEF WiringInv
    <2>3. /\ {e.src.block, e.dst.block} \subseteq Hiers \cup Leaves
          /\ e = Edge(e.src.block, e.src.port, e.dst.block, e.dst.port)
          /\ e.src.block # e.dst.block
        BY <2>1, <2>2, WiringAssumption
    <2>4. {e.src.block, e.dst.block} \cap (Hiers \ {h}) \subseteq Children(h)
        BY <2>1, ChildrenWithin
    <2>5. Children(h) \subseteq Within(h) /\ Children(h) \subseteq UsedHiers
        BY <2>1, ChildrenWithin, UsedIs
    <2>6. {e.src.block, e.dst.block} \subseteq UsedHiers \cup Leaves
        BY <2>3, <2>4, <2>5
    <2>7. e.src = Pt(e.src) /\ e.dst = Pt(e.dst) /\ e = Joined(e.src, e.dst)
        BY <2>3 DEF Edge, Endpoint, Pt, Joined
    <2> QED
        BY <2>1, <2>3, <2>4, <2>5, <2>6, <2>7
<1>2. ASSUME NEW u \in StreamsUsed
      PROVE  u = <<u[1], u[2]>> /\ u[1] \in UsedHiers /\ u[2] \in d_fg[u[1]]
    BY DEF StreamsUsed
<1>3. UsedHiers \subseteq Hiers
    BY UsedIs
<1>4. Accepted(StreamsUsed)
    <2> SUFFICES ASSUME NEW u \in StreamsUsed
                 PROVE  /\ u[1] \in Hiers
                        /\ {u[2].src.block, u[2].dst.block} \subseteq Hiers \cup Leaves
                        /\ {u[2].src.block, u[2].dst.block} # {u[1]}
                        /\ {u[2].src.block, u[2].dst.block} \cap (Hiers \ {u[1]}) \subseteq Within(u[1])
        BY DEF Accepted
    <2> QED
        BY <1>1, <1>2, <1>3
<1> QED
    BY <1>1, <1>2, <1>4

LEMMA MsgsAccepted ==
    ASSUME WiringInv
    PROVE  /\ Accepted(MsgsUsed)
           /\ \A u \in MsgsUsed :
                /\ u = <<u[1], u[2]>> /\ u[1] \in UsedHiers /\ u[2] \in ToSet(d_msg[u[1]])
                /\ {u[2].src.block, u[2].dst.block} \subseteq UsedHiers \cup Leaves
                /\ Into(u[1], u[2]) <=> u[2].src.block = u[1]
                /\ OutOf(u[1], u[2]) <=> u[2].dst.block = u[1]
                /\ u[2].src.is_hier => u[2].src.block \in Hiers
                /\ u[2].dst.is_hier => u[2].dst.block \in Hiers
<1>1. ASSUME NEW h \in UsedHiers, NEW m \in ToSet(d_msg[h])
      PROVE  /\ h \in Hiers
             /\ {m.src.block, m.dst.block} \subseteq UsedHiers \cup Leaves
             /\ {m.src.block, m.dst.block} \cap (Hiers \ {h}) \subseteq Within(h)
             /\ {m.src.block, m.dst.block} # {h}
             /\ Into(h, m) <=> m.src.block = h
             /\ OutOf(h, m) <=> m.dst.block = h
             /\ m.src.is_hier => m.src.block \in Hiers
             /\ m.dst.is_hier => m.dst.block \in Hiers
    <2>1. h \in Hiers
        BY UsedIs
    <2>2. m \in MayMsgHave(h)
        BY <2>1, ToSetIs DEF WiringInv
    <2>3. /\ {m.src.block, m.dst.block} \subseteq Hiers \cup Leaves
          /\ m = MsgEdge(h, m.src.block, m.src.port, m.dst.block, m.dst.port)
          /\ {m.src.block, m.dst.block} # {h}
        BY <2>1, <2>2, WiringAssumption
    <2>4. {m.src.block, m.dst.block} \cap (Hiers \ {h}) \subseteq Children(h)
        BY <2>1, ChildrenWithin
    <2>5. Children(h) \subseteq Within(h) /\ Children(h) \subseteq UsedHiers
        BY <2>1, ChildrenWithin, UsedIs
    <2>6. {m.src.block, m.dst.block} \subseteq UsedHiers \cup Leaves
        BY <2>3, <2>4, <2>5
    <2>7. /\ m.src.is_hier = (m.src.block \in Hiers /\ (m.src.block = h \/ m.dst.block # h))
          /\ m.dst.is_hier = (m.dst.block \in Hiers /\ m.src.block # h)
        BY <2>3 DEF MsgEdge, MsgEnd
    <2>8. (Into(h, m) <=> m.src.block = h) /\ (OutOf(h, m) <=> m.dst.block = h)
        BY <2>1, <2>3, <2>7 DEF Into, OutOf
    <2> QED
        BY <2>1, <2>3, <2>4, <2>5, <2>6, <2>7, <2>8
<1>2. ASSUME NEW u \in MsgsUsed
      PROVE  u = <<u[1], u[2]>> /\ u[1] \in UsedHiers /\ u[2] \in ToSet(d_msg[u[1]])
    BY DEF MsgsUsed
<1>3. UsedHiers \subseteq Hiers
    BY UsedIs
<1>4. Accepted(MsgsUsed)
    <2> SUFFICES ASSUME NEW u \in MsgsUsed
                 PROVE  /\ u[1] \in Hiers
                        /\ {u[2].src.block, u[2].dst.block} \subseteq Hiers \cup Leaves
                        /\ {u[2].src.block, u[2].dst.block} # {u[1]}
                        /\ {u[2].src.block, u[2].dst.block} \cap (Hiers \ {u[1]}) \subseteq Within(u[1])
        BY DEF Accepted
    <2> QED
        BY <1>1, <1>2, <1>3
<1> QED
    BY <1>1, <1>2, <1>4

-----------------------------------------------------------------------------
(* Streams: what resolve_endpoint finds.                                     *)

Towards(is_input) == IF is_input THEN Downs(StreamsUsed) ELSE Ups(StreamsUsed)

Usable(x) == x.block \in UsedHiers \cup Leaves /\ x = Pt(x)

LEMMA BehindIs ==
    ASSUME WiringInv, NEW x, Usable(x), NEW is_input \in BOOLEAN
    PROVE  /\ x.block \in Leaves => /\ Behind(x, is_input) = {x}
                                    /\ \A r \in Towards(is_input) : r[1] # x
           /\ x.block \in Hiers =>
                \A z : z \in Behind(x, is_input) <=> \E r \in Towards(is_input) : r[1] = x /\ r[2] = z
           /\ \A z \in Behind(x, is_input) : Usable(z)
<1>1. UsedHiers \subseteq Hiers /\ Hiers \cap Leaves = {}
    BY UsedIs, HierAssumption
<1>2. \A u \in StreamsUsed : /\ u = <<u[1], u[2]>> /\ u[1] \in UsedHiers /\ u[2] \in d_fg[u[1]]
                             /\ u[2].src = Pt(u[2].src) /\ u[2].dst = Pt(u[2].dst)
                             /\ Usable(u[2].src) /\ Usable(u[2].dst)
    BY StreamsAccepted DEF Usable
<1>3. \A h \in UsedHiers : \A e \in d_fg[h] :
        <<h, e>> \in StreamsUsed /\ <<h, e>>[1] = h /\ <<h, e>>[2] = e
    BY DEF StreamsUsed
<1>4. CASE x.block \in Leaves
    <2>1. x.block \notin Hiers
        BY <1>1, <1>4
    <2>2. Behind(x, is_input) = {x}
        BY <2>1 DEF Behind
    <2>3. ASSUME NEW r \in Towards(is_input) PROVE r[1] # x
        <3>1. PICK u \in StreamsUsed : r[1].block = u[1]
            BY EndParts DEF Towards, Downs, Ups
        <3> QED
            BY <1>1, <1>2, <1>4, <3>1
    <2> QED
        BY <2>1, <2>2, <2>3
<1>5. CASE x.block \in Hiers
    <2>1. x.block \in UsedHiers /\ x.block \notin Leaves
        BY <1>1, <1>5 DEF Usable
    <2>2. CASE is_input
        <3>1. Behind(x, is_input) = {e.dst : e \in {d \in d_fg[x.block] : d.src = x}}
            BY <1>5, <2>2 DEF Behind, resolve_port, Inside
        <3>2. Towards(is_input) = Downs(StreamsUsed)
            BY <2>2 DEF Towards
        <3>3. ASSUME NEW z \in Behind(x, is_input)
              PROVE  Usable(z) /\ \E r \in Downs(StreamsUsed) : r[1] = x /\ r[2] = z
            <4>1. PICK e \in d_fg[x.block] : e.src = x /\ z = e.dst
                BY <3>1
            <4> DEFINE u == <<x.block, e>>
            <4>2. u \in StreamsUsed /\ u[1] = x.block /\ u[2] = e
                BY <1>3, <2>1
            <4> HIDE DEF u
            <4>3. <<Pt(e.src), Pt(e.dst)>> \in Downs(StreamsUsed)
                BY <4>1, <4>2 DEF Downs
            <4> QED
                BY <1>2, <4>1, <4>2, <4>3
        <3>4. ASSUME NEW r \in Downs(StreamsUsed), r[1] = x PROVE r[2] \in Behind(x, is_input)
            <4>1. PICK u \in StreamsUsed : u[2].src.block = u[1] /\ r = <<Pt(u[2].src), Pt(u[2].dst)>>
                BY DEF Downs
            <4>2. u[2].src = x /\ r[2] = u[2].dst /\ u[2] \in d_fg[x.block]
                BY <1>2, <3>4, <4>1
            <4> QED
                BY <3>1, <4>2
        <3> QED
            BY <2>1, <3>2, <3>3, <3>4
    <2>3. CASE ~is_input
        <3>1. Behind(x, is_input) = {e.src : e \in {d \in d_fg[x.block] : d.dst = x}}
            BY <1>5, <2>3 DEF Behind, resolve_port, Inside
        <3>2. Towards(is_input) = Ups(StreamsUsed)
            BY <2>3 DEF Towards
        <3>3. ASSUME NEW z \in Behind(x, is_input)
              PROVE  Usable(z) /\ \E r \in Ups(StreamsUsed) : r[1] = x /\ r[2] = z
            <4>1. PICK e \in d_fg[x.block] : e.dst = x /\ z = e.src
                BY <3>1
            <4> DEFINE u == <<x.block, e>>
            <4>2. u \in StreamsUsed /\ u[1] = x.block /\ u[2] = e
                BY <1>3, <2>1
            <4> HIDE DEF u
            <4>3. <<Pt(e.dst), Pt(e.src)>> \in Ups(StreamsUsed)
                BY <4>1, <4>2 DEF Ups
            <4> QED
                BY <1>2, <4>1, <4>2, <4>3
        <3>4. ASSUME NEW r \in Ups(StreamsUsed), r[1] = x PROVE r[2] \in Behind(x, is_input)
            <4>1. PICK u \in StreamsUsed : u[2].dst.block = u[1] /\ r = <<Pt(u[2].dst), Pt(u[2].src)>>
                BY DEF Ups
            <4>2. u[2].dst = x /\ r[2] = u[2].src /\ u[2] \in d_fg[x.block]
                BY <1>2, <3>4, <4>1
            <4> QED
                BY <3>1, <4>2
        <3> QED
            BY <2>1, <3>2, <3>3, <3>4
    <2> QED
        BY <2>2, <2>3
<1> QED
    BY <1>1, <1>4, <1>5 DEF Usable

FoundBy(f, x, is_input) ==
    LET depth == Hierarchies
    IN  /\ f[0] = {x}
        /\ \A n \in 0 .. depth - 1 : f[n + 1] = UNION {Behind(y, is_input) : y \in f[n]}
        /\ resolve_endpoint(x, is_input).ends = f[depth]
        /\ resolve_endpoint(x, is_input).threw <=>
             \E n \in 0 .. depth : \E y \in f[n] : Behind(y, is_input) = {}
        /\ resolve_endpoint(x, is_input).twice <=>
             \E n \in 0 .. depth : \E y, z \in f[n] :
                y # z /\ Behind(y, is_input) \cap Behind(z, is_input) # {}

LEMMA FoundIs ==
    ASSUME NEW x, NEW is_input
    PROVE  \E f : FoundBy(f, x, is_input)
<1> DEFINE k == Hierarchies
           f == CHOOSE f : CallsOf("behind", is_input, {x}, k, f)
<1>1. k \in Nat
    BY SomeHiers
<1>2. CallsOf("behind", is_input, {x}, k, f)
    <2>1. \E g : CallsOf("behind", is_input, {x}, k, g)
        BY <1>1, CallsExist
    <2> QED
        BY <2>1
<1>3. /\ resolve_endpoint(x, is_input).ends = f[k]
      /\ resolve_endpoint(x, is_input).threw <=>
             \E n \in 0 .. k : \E y \in f[n] : Behind(y, is_input) = {}
      /\ resolve_endpoint(x, is_input).twice <=>
             \E n \in 0 .. k : \E y, z \in f[n] :
                y # z /\ Behind(y, is_input) \cap Behind(z, is_input) # {}
    BY DEF resolve_endpoint, CallsOf, OneCall, Hierarchies
<1>4. f[0] = {x} /\ \A n \in 1 .. k : f[n] = OneCall("behind", is_input, n, f[n - 1])
    <2> HIDE DEF k, f
    <2>1. CallByCall("behind", is_input, {x}, k, f)
        BY <1>1, <1>2, CallsAre
    <2> QED
        BY <2>1 DEF CallByCall
<1> HIDE DEF f
<1>5. ASSUME NEW n \in 0 .. k - 1 PROVE f[n + 1] = UNION {Behind(y, is_input) : y \in f[n]}
    <2>1. n + 1 \in 1 .. k /\ n + 1 - 1 = n
        BY <1>1
    <2>2. f[n + 1] = OneCall("behind", is_input, n + 1, f[n])
        BY <1>4, <2>1
    <2> QED
        BY <2>2 DEF OneCall
<1>6. FoundBy(f, x, is_input)
    BY <1>3, <1>4, <1>5 DEF FoundBy
<1> QED
    BY <1>6

\* What is found lies on the way, and the n-th level is n deep.
LEMMA FoundOnTheWay ==
    ASSUME WiringInv, NEW x, Usable(x), NEW is_input \in BOOLEAN, NEW f, FoundBy(f, x, is_input),
           NEW level, Levels(level)
    PROVE  \A n \in 0 .. Hierarchies : \A y \in f[n] :
              /\ y \in Reachable(Towards(is_input), x) /\ Usable(y)
              /\ y.block \in Hiers => level[y.block] >= n
<1> DEFINE k == Hierarchies
           R == Towards(is_input)
           Is(n, y) == y \in Reachable(R, x) /\ Usable(y) /\ (y.block \in Hiers => level[y.block] >= n)
           S == {n \in Nat : n <= k => \A y \in f[n] : Is(n, y)}
<1>1. k \in Nat /\ \A h \in Hiers : level[h] \in Nat
    BY SomeHiers DEF Levels
<1>2. 0 \in S
    <2>1. x \in Reachable(R, x)
        BY ReachableIs
    <2> QED
        BY <1>1, <2>1 DEF FoundBy
<1>3. ASSUME NEW n \in Nat, n \in S PROVE n + 1 \in S
    <2>1. ASSUME n + 1 <= k, NEW z \in f[n + 1] PROVE Is(n + 1, z)
        <3>1. n \in 0 .. k - 1
            BY <2>1, <1>1
        <3>2. PICK y \in f[n] : z \in Behind(y, is_input)
            BY <2>1, <3>1 DEF FoundBy
        <3>3. Is(n, y)
            BY <1>3, <3>1, <1>1
        <3>4. CASE y.block \in Leaves
            <4>1. z = y
                BY <3>2, <3>3, <3>4, BehindIs
            <4>2. y.block \notin Hiers
                BY <3>4, HierAssumption
            <4> QED
                BY <3>3, <4>1, <4>2
        <3>5. CASE y.block \in Hiers
            <4>1. PICK r \in R : r[1] = y /\ r[2] = z
                BY <3>2, <3>3, <3>5, BehindIs
            <4>2. z \in Reachable(R, x)
                BY <3>3, <4>1, ReachableIs DEF Keeps
            <4>3. Usable(z)
                BY <3>2, <3>3, BehindIs
            <4>4. z.block \in Hiers => level[z.block] >= n + 1
                <5>1. PICK u \in StreamsUsed :
                        \/ u[2].src.block = u[1] /\ r = <<Pt(u[2].src), Pt(u[2].dst)>>
                        \/ u[2].dst.block = u[1] /\ r = <<Pt(u[2].dst), Pt(u[2].src)>>
                    BY DEF Towards, Downs, Ups
                <5>2. {y.block, z.block} = {u[2].src.block, u[2].dst.block} /\ y.block = u[1]
                    BY <4>1, <5>1, EndParts
                <5>3. z.block # u[1]
                    BY <5>2, StreamsAccepted
                <5>4. z.block \in Hiers => level[z.block] > level[y.block]
                    BY <5>2, <5>3, StreamsAccepted DEF Accepted, Levels
                <5> QED
                    BY <3>3, <3>5, <5>4, <1>1
            <4> QED
                BY <4>2, <4>3, <4>4
        <3> QED
            BY <3>3, <3>4, <3>5, UsedIs DEF Usable
    <2> QED
        BY <2>1
<1> HIDE DEF S
<1>4. \A n \in Nat : n \in S
    BY <1>2, <1>3, Induction
<1> QED
    BY <1>1, <1>4 DEF S

LEMMA ResolveIs ==
    ASSUME WiringInv, NEW x, Usable(x), NEW is_input \in BOOLEAN
    PROVE  resolve_endpoint(x, is_input).ends = PlainAt(Towards(is_input), x)
<1> DEFINE k == Hierarchies
           R == Towards(is_input)
<1>1. PICK f : FoundBy(f, x, is_input)
    BY FoundIs
<1>2. PICK level : Levels(level)
    BY NestAssumption DEF Levels, Hierarchies
<1>3. /\ k \in Nat /\ k >= 1 /\ Hiers \cap Leaves = {} /\ UsedHiers \subseteq Hiers
      /\ \A h \in Hiers : level[h] \in 0 .. k - 1
    BY <1>2, SomeHiers, HierAssumption, UsedIs DEF Levels
<1>4. \A n \in 0 .. k : \A y \in f[n] : /\ y \in Reachable(R, x) /\ Usable(y)
                                        /\ y.block \in Hiers => level[y.block] >= n
    BY <1>1, <1>2, FoundOnTheWay
<1>5. /\ f[0] = {x} /\ resolve_endpoint(x, is_input).ends = f[k]
      /\ \A n \in 0 .. k - 1 : f[n + 1] = UNION {Behind(y, is_input) : y \in f[n]}
    BY <1>1 DEF FoundBy
<1>6. x = Pt(x)
    BY DEF Usable
<1>7. ASSUME NEW y \in f[k] PROVE y \in PlainAt(R, x)
    <2>1. y \in Reachable(R, x) /\ Usable(y) /\ (y.block \in Hiers => level[y.block] >= k)
        BY <1>3, <1>4
    <2>2. y.block \notin Hiers
        BY <1>3, <2>1
    <2> QED
        BY <1>3, <1>6, <2>1, <2>2 DEF PlainAt, Usable
<1>8. ASSUME NEW n \in 0 .. k, NEW y \in f[n], y.block \in Leaves PROVE y \in f[k]
    <2> DEFINE S == {m \in Nat : m >= n /\ m <= k => y \in f[m]}
    <2>1. 0 \in S
        BY <1>3, <1>8
    <2>2. ASSUME NEW m \in Nat, m \in S PROVE m + 1 \in S
        <3>1. CASE m >= n /\ m + 1 <= k
            <4>1. m \in 0 .. k - 1 /\ y \in f[m]
                BY <1>3, <2>2, <3>1
            <4>2. m \in 0 .. k
                BY <4>1, <1>3
            <4>3. Behind(y, is_input) = {y}
                BY <1>4, <1>8, <4>1, <4>2, BehindIs
            <4>4. y \in f[m + 1]
                BY <1>5, <4>1, <4>3
            <4> QED
                BY <4>4
        <3>2. CASE m + 1 = n
            BY <1>8, <3>2
        <3> QED
            BY <3>1, <3>2
    <2> HIDE DEF S
    <2>3. k \in S
        BY <1>3, <2>1, <2>2, Induction
    <2> QED
        BY <1>3, <2>3 DEF S
<1>9. ASSUME NEW z \in PlainAt(R, x) PROVE z \in f[k]
    <2> DEFINE T == UNION {f[n] : n \in 0 .. k}
    <2>1. x \in T
        BY <1>3, <1>5
    <2>2. ASSUME NEW r \in R, r[1] \in T PROVE r[2] \in T
        <3>1. PICK n \in 0 .. k : r[1] \in f[n]
            BY <2>2
        <3>2. Usable(r[1]) /\ (r[1].block \in Hiers => level[r[1].block] >= n)
            BY <1>4, <3>1
        <3>3. r[1].block \in Hiers
            BY <1>3, <3>2, BehindIs DEF Usable
        <3>4. n \in 0 .. k - 1
            BY <1>3, <3>2, <3>3
        <3>5. r[2] \in Behind(r[1], is_input)
            BY <3>2, <3>3, BehindIs
        <3>6. r[2] \in f[n + 1] /\ n + 1 \in 0 .. k
            BY <1>3, <1>5, <3>1, <3>4, <3>5
        <3> QED
            BY <3>6
    <2> HIDE DEF T
    <2>3. Reachable(R, x) \subseteq T
        BY <2>1, <2>2, ReachableIs DEF Keeps
    <2> QED
        BY <1>6, <1>8, <2>3 DEF T, PlainAt
<1> QED
    BY <1>5, <1>7, <1>9

LEMMA PlainArePoints ==
    ASSUME NEW used, NEW x
    PROVE  /\ \A z \in PlainAt(Ups(used), x) : z = Pt(z) /\ z.block \in Leaves
           /\ \A z \in PlainAt(Downs(used), x) : z = Pt(z) /\ z.block \in Leaves
<1>1. \A r \in Ups(used) \cup Downs(used) : r[2] = Pt(r[2])
    BY EndParts DEF Ups, Downs
<1>2. Pt(x) = Pt(Pt(x))
    BY EndParts
<1> QED
    BY <1>1, <1>2 DEF PlainAt, Reachable, EndsOf

LEMMA JoinedParts ==
    ASSUME NEW a, NEW b
    PROVE  /\ Joined(a, b).src = Pt(a) /\ Joined(a, b).dst = Pt(b)
           /\ a = Pt(a) /\ b = Pt(b) => Joined(a, b) = [src |-> a, dst |-> b]
BY DEF Joined, Edge, Pt

LEMMA CrossingIs ==
    ASSUME WiringInv, NEW h \in UsedHiers, NEW e \in InnerEdges(h)
    PROVE  Crossing(e) = Spread(StreamsUsed, e) /\ <<h, e>> \in InnerOf(StreamsUsed)
<1> DEFINE u == <<h, e>>
<1>1. u \in StreamsUsed /\ u[1] = h /\ u[2] = e /\ e.src.block # h /\ e.dst.block # h
    BY DEF StreamsUsed, InnerEdges
<1> HIDE DEF u
<1>2. Usable(e.src) /\ Usable(e.dst)
    BY <1>1, StreamsAccepted DEF Usable
<1>3. resolve_endpoint(e.src, FALSE).ends = PlainAt(Ups(StreamsUsed), e.src)
    BY <1>2, ResolveIs DEF Towards
<1>4. resolve_endpoint(e.dst, TRUE).ends = PlainAt(Downs(StreamsUsed), e.dst)
    BY <1>2, ResolveIs DEF Towards
<1> DEFINE A == PlainAt(Ups(StreamsUsed), e.src)
           B == PlainAt(Downs(StreamsUsed), e.dst)
<1>5. \A x \in A \X B : Joined(x[1], x[2]) = [src |-> x[1], dst |-> x[2]]
    BY PlainArePoints, JoinedParts
<1>6. Crossing(e) = {[src |-> x[1], dst |-> x[2]] : x \in A \X B}
    BY <1>3, <1>4 DEF Crossing
<1>7. Spread(StreamsUsed, e) = {Joined(x[1], x[2]) : x \in A \X B}
    BY DEF Spread
<1> HIDE DEF A, B
<1>8. Crossing(e) = Spread(StreamsUsed, e)
    <2> DEFINE P == A \X B
               F(x) == [src |-> x[1], dst |-> x[2]]
               G(x) == Joined(x[1], x[2])
    <2>1. \A x \in P : F(x) = G(x)
        BY <1>5
    <2>2. Crossing(e) = {F(x) : x \in P} /\ Spread(StreamsUsed, e) = {G(x) : x \in P}
        BY <1>6, <1>7
    <2> HIDE DEF P, F, G
    <2> QED
        BY <2>1, <2>2
<1>9. u \in InnerOf(StreamsUsed)
    BY <1>1 DEF InnerOf
<1> QED
    BY <1>8, <1>9 DEF u

\* The connections that replace the edges of all blocks in use are what the wiring means.
LEMMA StreamsAre ==
    ASSUME WiringInv
    PROVE  UNION {flatten_edges(h) : h \in UsedHiers} = Meaning(StreamsUsed)
<1>1. Meaning(StreamsUsed) = UNION {Spread(StreamsUsed, u[2]) : u \in InnerOf(StreamsUsed)}
    BY StreamsAccepted, MeaningIs
<1>2. ASSUME NEW h \in UsedHiers, NEW c \in flatten_edges(h) PROVE c \in Meaning(StreamsUsed)
    <2>1. PICK e \in InnerEdges(h) : c \in Crossing(e)
        BY DEF flatten_edges
    <2> DEFINE u == <<h, e>>
    <2>2. u \in InnerOf(StreamsUsed) /\ u[2] = e /\ c \in Spread(StreamsUsed, e)
        BY <2>1, CrossingIs
    <2> HIDE DEF u
    <2> QED
        BY <1>1, <2>2
<1>3. ASSUME NEW c \in Meaning(StreamsUsed) PROVE \E h \in UsedHiers : c \in flatten_edges(h)
    <2>1. PICK u \in InnerOf(StreamsUsed) : c \in Spread(StreamsUsed, u[2])
        BY <1>1
    <2>2. u \in StreamsUsed /\ u[2].src.block # u[1] /\ u[2].dst.block # u[1]
        BY DEF InnerOf
    <2>3. u[1] \in UsedHiers /\ u[2] \in InnerEdges(u[1])
        BY <2>2, StreamsAccepted DEF InnerEdges
    <2>4. c \in Crossing(u[2])
        BY <2>1, <2>3, CrossingIs
    <2> QED
        BY <2>3, <2>4 DEF flatten_edges
<1> QED
    BY <1>2, <1>3

-----------------------------------------------------------------------------
(* Messages: what they lead to stays the same while the ports of one block    *)
(* after another are replaced by what they are connected to.                 *)

AllSpread(M) == UNION {Spread(MsgsUsed, m) : m \in M}

\* The two edges that replace_endpoint makes of n at a port, and m inside.
AtInput(n, m)  == [src |-> n.src, dst |-> m.dst]
AtOutput(n, m) == [src |-> m.src, dst |-> n.dst]

LEMMA MsgCalls ==
    ASSUME NEW h, Len(d_msg[h]) \in Nat, NEW M
    PROVE  /\ MsgsAfter(h, M)[0] = M
           /\ \A n \in 0 .. Len(d_msg[h]) - 1 :
                 MsgsAfter(h, M)[n + 1] = flatten_msg(h, MsgsAfter(h, M)[n], d_msg[h][n + 1])
<1> DEFINE k == Len(d_msg[h])
           f == CHOOSE f : CallsOf("msgs", h, M, k, f)
<1>1. CallsOf("msgs", h, M, k, f)
    <2>1. \E g : CallsOf("msgs", h, M, k, g)
        BY CallsExist
    <2> QED
        BY <2>1
<1>2. MsgsAfter(h, M) = f
    BY DEF MsgsAfter, CallsOf, OneCall
<1>3. f[0] = M /\ \A n \in 1 .. k : f[n] = OneCall("msgs", h, n, f[n - 1])
    <2> HIDE DEF k, f
    <2>1. k \in Nat
        BY DEF k
    <2>2. CallByCall("msgs", h, M, k, f)
        BY <1>1, <2>1, CallsAre
    <2> QED
        BY <2>2 DEF CallByCall
<1> HIDE DEF f
<1>4. ASSUME NEW n \in 0 .. k - 1 PROVE f[n + 1] = flatten_msg(h, f[n], d_msg[h][n + 1])
    <2>1. n + 1 \in 1 .. k /\ n + 1 - 1 = n
        OBVIOUS
    <2>2. f[n + 1] = OneCall("msgs", h, n + 1, f[n])
        BY <1>3, <2>1
    <2> QED
        BY <2>2 DEF OneCall
<1> QED
    BY <1>2, <1>3, <1>4

LEMMA SameIs ==
    ASSUME NEW x, NEW y
    PROVE  Same(x, y) <=> Pt(x) = Pt(y)
BY DEF Same, Pt, Endpoint

\* What flatten_aux does with one message edge.
LEMMA FlattenMsgIs ==
    ASSUME WiringInv, NEW h \in UsedHiers, NEW m \in ToSet(d_msg[h]), NEW M
    PROVE  /\ m.src.block = h =>
                flatten_msg(h, M, m) = M \cup {AtInput(n, m) : n \in {o \in M : Pt(o.dst) = Pt(m.src)}}
           /\ m.dst.block = h =>
                flatten_msg(h, M, m) = M \cup {AtOutput(n, m) : n \in {o \in M : Pt(o.src) = Pt(m.dst)}}
           /\ m.src.block # h /\ m.dst.block # h => flatten_msg(h, M, m) = M \cup {m}
           /\ ~(m.src.block = h /\ m.dst.block = h)
<1> DEFINE u == <<h, m>>
<1>1. u \in MsgsUsed /\ u[1] = h /\ u[2] = m
    BY DEF MsgsUsed
<1> HIDE DEF u
<1>2. Into(h, m) <=> m.src.block = h
    BY <1>1, MsgsAccepted
<1>3. OutOf(h, m) <=> m.dst.block = h
    BY <1>1, MsgsAccepted
<1>4. ~(m.src.block = h /\ m.dst.block = h)
    BY <1>1, MsgsAccepted DEF Accepted
<1>5. CASE m.src.block = h
    <2>1. flatten_msg(h, M, m) = replace_endpoint(M, m.src, m.dst, FALSE)
        BY <1>2, <1>5 DEF flatten_msg
    <2>2. replace_endpoint(M, m.src, m.dst, FALSE) =
            M \cup {AtInput(n, m) : n \in {o \in M : Same(o.dst, m.src)}}
        BY DEF replace_endpoint, AtInput
    <2>3. \A o \in M : Same(o.dst, m.src) <=> Pt(o.dst) = Pt(m.src)
        BY SameIs
    <2> QED
        BY <1>4, <1>5, <2>1, <2>2, <2>3
<1>6. CASE m.src.block # h /\ m.dst.block = h
    <2>1. flatten_msg(h, M, m) = replace_endpoint(M, m.dst, m.src, TRUE)
        BY <1>2, <1>3, <1>6 DEF flatten_msg
    <2>2. replace_endpoint(M, m.dst, m.src, TRUE) =
            M \cup {AtOutput(n, m) : n \in {o \in M : Same(o.src, m.dst)}}
        BY DEF replace_endpoint, AtOutput
    <2>3. \A o \in M : Same(o.src, m.dst) <=> Pt(o.src) = Pt(m.dst)
        BY SameIs
    <2> QED
        BY <1>4, <1>6, <2>1, <2>2, <2>3
<1>7. CASE m.src.block # h /\ m.dst.block # h
    BY <1>2, <1>3, <1>7 DEF flatten_msg
<1> QED
    BY <1>4, <1>5, <1>6, <1>7

\* An end and the one next to it inside lead to the same plain ends.
LEMMA PlainFurther ==
    ASSUME NEW R, NEW r \in R, NEW x, NEW y, r[1] = Pt(x), r[2] = Pt(y)
    PROVE  PlainAt(R, y) \subseteq PlainAt(R, x)
<1>1. Pt(y) \in Reachable(R, Pt(x))
    BY ReachableIs DEF Keeps
<1>2. Reachable(R, Pt(y)) \subseteq Reachable(R, Pt(x))
    BY <1>1, ReachableFrom
<1> QED
    BY <1>2 DEF PlainAt

LEMMA SpreadMonotone ==
    ASSUME NEW used, NEW d, NEW e,
           PlainAt(Ups(used), d.src) \subseteq PlainAt(Ups(used), e.src),
           PlainAt(Downs(used), d.dst) \subseteq PlainAt(Downs(used), e.dst)
    PROVE  Spread(used, d) \subseteq Spread(used, e)
BY DEF Spread

\* The steps inside that a message edge of h is.
LEMMA MsgEdgeIs ==
    ASSUME WiringInv, NEW h \in UsedHiers, NEW m \in ToSet(d_msg[h])
    PROVE  /\ m.src.block = h => <<Pt(m.src), Pt(m.dst)>> \in Downs(MsgsUsed)
           /\ m.dst.block = h => <<Pt(m.dst), Pt(m.src)>> \in Ups(MsgsUsed)
           /\ m.src.block # h /\ m.dst.block # h => <<h, m>> \in InnerOf(MsgsUsed)
           /\ <<h, m>> \in MsgsUsed
<1> DEFINE u == <<h, m>>
<1>1. u \in MsgsUsed /\ u[1] = h /\ u[2] = m
    BY DEF MsgsUsed
<1>2. u = <<h, m>>
    OBVIOUS
<1> HIDE DEF u
<1> QED
    BY <1>1, <1>2 DEF Downs, Ups, InnerOf

LEMMA SpreadStep ==
    ASSUME WiringInv, NEW h \in UsedHiers, NEW m \in ToSet(d_msg[h]), NEW M
    PROVE  AllSpread(flatten_msg(h, M, m)) =
             AllSpread(M) \cup IF m.src.block # h /\ m.dst.block # h THEN Spread(MsgsUsed, m) ELSE {}
<1> DEFINE N == flatten_msg(h, M, m)
<1>1. M \subseteq N
    BY FlattenMsgIs
<1>2. ASSUME NEW n \in M PROVE /\ m.src.block = h /\ Pt(n.dst) = Pt(m.src) =>
                                    Spread(MsgsUsed, AtInput(n, m)) \subseteq Spread(MsgsUsed, n)
                               /\ m.dst.block = h /\ Pt(n.src) = Pt(m.dst) =>
                                    Spread(MsgsUsed, AtOutput(n, m)) \subseteq Spread(MsgsUsed, n)
    <2>1. CASE m.src.block = h /\ Pt(n.dst) = Pt(m.src)
        <3> DEFINE r == <<Pt(m.src), Pt(m.dst)>>
        <3>1. r \in Downs(MsgsUsed) /\ r[1] = Pt(n.dst) /\ r[2] = Pt(m.dst)
            BY <2>1, MsgEdgeIs
        <3> HIDE DEF r
        <3>2. PlainAt(Downs(MsgsUsed), m.dst) \subseteq PlainAt(Downs(MsgsUsed), n.dst)
            BY <3>1, PlainFurther
        <3> QED
            BY <2>1, <3>2, FlattenMsgIs, SpreadMonotone DEF AtInput
    <2>2. CASE m.dst.block = h /\ Pt(n.src) = Pt(m.dst)
        <3> DEFINE r == <<Pt(m.dst), Pt(m.src)>>
        <3>1. r \in Ups(MsgsUsed) /\ r[1] = Pt(n.src) /\ r[2] = Pt(m.src)
            BY <2>2, MsgEdgeIs
        <3> HIDE DEF r
        <3>2. PlainAt(Ups(MsgsUsed), m.src) \subseteq PlainAt(Ups(MsgsUsed), n.src)
            BY <3>1, PlainFurther
        <3> QED
            BY <2>2, <3>2, FlattenMsgIs, SpreadMonotone DEF AtOutput
    <2> QED
        BY <2>1, <2>2, FlattenMsgIs
<1>3. CASE m.src.block = h
    BY <1>1, <1>2, <1>3, FlattenMsgIs DEF AllSpread
<1>4. CASE m.dst.block = h
    BY <1>1, <1>2, <1>4, FlattenMsgIs DEF AllSpread
<1>5. CASE m.src.block # h /\ m.dst.block # h
    BY <1>5, FlattenMsgIs DEF AllSpread
<1> QED
    BY <1>3, <1>4, <1>5

\* What is left of the edges after the first i edges of h: they lead where they
\* led, each is there again at what its ends are connected to inside, and their
\* ends are ends of edges.
EdgeOf(h, j)   == d_msg[h][j]
InnerUpTo(h, i) == {d_msg[h][j] : j \in {x \in 1 .. i : d_msg[h][x].src.block # h /\ d_msg[h][x].dst.block # h}}

Replaced(h, N, m) ==
    \A n \in N : /\ m.src.block = h /\ Pt(n.dst) = Pt(m.src) => AtInput(n, m) \in N
                 /\ m.dst.block = h /\ Pt(n.src) = Pt(m.dst) => AtOutput(n, m) \in N

EndsFrom(h, i, M, N) ==
    \A n \in N :
        /\ \/ \E o \in M : n.src = o.src
           \/ \E j \in 1 .. i : n.src = d_msg[h][j].src /\ d_msg[h][j].src.block # h
        /\ \/ \E o \in M : n.dst = o.dst
           \/ \E j \in 1 .. i : n.dst = d_msg[h][j].dst /\ d_msg[h][j].dst.block # h

LEMMA ReplacedStep ==
    ASSUME WiringInv, NEW h \in UsedHiers, NEW m \in ToSet(d_msg[h]), NEW N
    PROVE  /\ Replaced(h, flatten_msg(h, N, m), m)
           /\ \A j \in ToSet(d_msg[h]) : Replaced(h, N, j) => Replaced(h, flatten_msg(h, N, m), j)
<1> DEFINE F == flatten_msg(h, N, m)
<1>1. \A x, y : Pt(x) = Pt(y) => x.block = y.block
    BY DEF Pt, Endpoint
<1>2. \A n, j : /\ AtInput(n, j).src = n.src /\ AtInput(n, j).dst = j.dst
                /\ AtOutput(n, j).src = j.src /\ AtOutput(n, j).dst = n.dst
    BY DEF AtInput, AtOutput
<1>3. \A n, j : AtInput(AtOutput(n, j), m) = AtOutput(AtInput(n, m), j)
             /\ AtOutput(AtInput(n, j), m) = AtInput(AtOutput(n, m), j)
    BY DEF AtInput, AtOutput
<1>4. CASE m.src.block = h
    <2>1. F = N \cup {AtInput(n, m) : n \in {o \in N : Pt(o.dst) = Pt(m.src)}} /\ m.dst.block # h
        BY <1>4, FlattenMsgIs
    <2> HIDE DEF F
    <2>2. Replaced(h, F, m)
        BY <1>1, <1>2, <2>1 DEF Replaced
    <2>3. ASSUME NEW j \in ToSet(d_msg[h]), Replaced(h, N, j), NEW n \in F
          PROVE  /\ j.src.block = h /\ Pt(n.dst) = Pt(j.src) => AtInput(n, j) \in F
                 /\ j.dst.block = h /\ Pt(n.src) = Pt(j.dst) => AtOutput(n, j) \in F
        <3>1. CASE n \in N
            BY <2>1, <2>3, <3>1 DEF Replaced
        <3>2. ASSUME NEW o \in N, Pt(o.dst) = Pt(m.src), n = AtInput(o, m)
              PROVE  /\ j.src.block = h /\ Pt(n.dst) = Pt(j.src) => AtInput(n, j) \in F
                     /\ j.dst.block = h /\ Pt(n.src) = Pt(j.dst) => AtOutput(n, j) \in F
            <4>1. ~(j.src.block = h /\ Pt(n.dst) = Pt(j.src))
                BY <1>1, <1>2, <2>1, <3>2
            <4>2. ASSUME j.dst.block = h, Pt(n.src) = Pt(j.dst) PROVE AtOutput(n, j) \in F
                <5>1. AtOutput(o, j) \in N
                    BY <1>2, <2>3, <3>2, <4>2 DEF Replaced
                <5>2. AtInput(AtOutput(o, j), m) \in F
                    BY <1>2, <2>1, <3>2, <5>1
                <5> QED
                    BY <1>3, <3>2, <5>2
            <4> QED
                BY <4>1, <4>2
        <3> QED
            BY <2>1, <2>3, <3>1, <3>2
    <2> QED
        BY <2>2, <2>3 DEF Replaced, F
<1>5. CASE m.dst.block = h
    <2>1. F = N \cup {AtOutput(n, m) : n \in {o \in N : Pt(o.src) = Pt(m.dst)}} /\ m.src.block # h
        BY <1>5, FlattenMsgIs
    <2> HIDE DEF F
    <2>2. Replaced(h, F, m)
        BY <1>1, <1>2, <2>1 DEF Replaced
    <2>3. ASSUME NEW j \in ToSet(d_msg[h]), Replaced(h, N, j), NEW n \in F
          PROVE  /\ j.src.block = h /\ Pt(n.dst) = Pt(j.src) => AtInput(n, j) \in F
                 /\ j.dst.block = h /\ Pt(n.src) = Pt(j.dst) => AtOutput(n, j) \in F
        <3>1. CASE n \in N
            BY <2>1, <2>3, <3>1 DEF Replaced
        <3>2. ASSUME NEW o \in N, Pt(o.src) = Pt(m.dst), n = AtOutput(o, m)
              PROVE  /\ j.src.block = h /\ Pt(n.dst) = Pt(j.src) => AtInput(n, j) \in F
                     /\ j.dst.block = h /\ Pt(n.src) = Pt(j.dst) => AtOutput(n, j) \in F
            <4>1. ~(j.dst.block = h /\ Pt(n.src) = Pt(j.dst))
                BY <1>1, <1>2, <2>1, <3>2
            <4>2. ASSUME j.src.block = h, Pt(n.dst) = Pt(j.src) PROVE AtInput(n, j) \in F
                <5>1. AtInput(o, j) \in N
                    BY <1>2, <2>3, <3>2, <4>2 DEF Replaced
                <5>2. AtOutput(AtInput(o, j), m) \in F
                    BY <1>2, <2>1, <3>2, <5>1
                <5> QED
                    BY <1>3, <3>2, <5>2
            <4> QED
                BY <4>1, <4>2
        <3> QED
            BY <2>1, <2>3, <3>1, <3>2
    <2> QED
        BY <2>2, <2>3 DEF Replaced, F
<1>6. CASE m.src.block # h /\ m.dst.block # h
    <2>1. F = N \cup {m}
        BY <1>6, FlattenMsgIs
    <2> HIDE DEF F
    <2>2. Replaced(h, F, m)
        BY <1>6 DEF Replaced
    <2>3. \A j \in ToSet(d_msg[h]) : Replaced(h, N, j) => Replaced(h, F, j)
        BY <1>1, <1>6, <2>1 DEF Replaced
    <2> QED
        BY <2>2, <2>3 DEF F
<1> QED
    BY <1>4, <1>5, <1>6

LEMMA EndsStep ==
    ASSUME WiringInv, NEW h \in UsedHiers, NEW M, NEW N, NEW i \in Nat, EndsFrom(h, i, M, N),
           d_msg[h][i + 1] \in ToSet(d_msg[h])
    PROVE  EndsFrom(h, i + 1, M, flatten_msg(h, N, d_msg[h][i + 1]))
<1> DEFINE m == d_msg[h][i + 1]
<1>1. \A n : /\ AtInput(n, m).src = n.src /\ AtInput(n, m).dst = m.dst
             /\ AtOutput(n, m).src = m.src /\ AtOutput(n, m).dst = n.dst
    BY DEF AtInput, AtOutput
<1>2. \A j \in 1 .. i : j \in 1 .. i + 1
    OBVIOUS
<1>3. m = d_msg[h][i + 1] /\ i + 1 \in 1 .. i + 1 /\ m \in ToSet(d_msg[h])
    OBVIOUS
<1>4. EndsFrom(h, i + 1, M, N)
    BY <1>2 DEF EndsFrom
<1> HIDE DEF m
<1>5. CASE m.src.block = h
    BY <1>1, <1>3, <1>4, <1>5, FlattenMsgIs DEF EndsFrom
<1>6. CASE m.dst.block = h
    BY <1>1, <1>3, <1>4, <1>6, FlattenMsgIs DEF EndsFrom
<1>7. CASE m.src.block # h /\ m.dst.block # h
    BY <1>3, <1>4, <1>7, FlattenMsgIs DEF EndsFrom
<1> QED
    BY <1>5, <1>6, <1>7 DEF m

LEMMA MsgsAfterAre ==
    ASSUME WiringInv, NEW h \in UsedHiers, NEW M
    PROVE  LET N == MsgsAfter(h, M)[Len(d_msg[h])]
           IN  /\ AllSpread(N) = AllSpread(M) \cup AllSpread(InnerUpTo(h, Len(d_msg[h])))
               /\ \A m \in ToSet(d_msg[h]) : Replaced(h, N, m)
               /\ \A i \in 0 .. Len(d_msg[h]) : EndsFrom(h, i, M, MsgsAfter(h, M)[i])
               /\ d_msg[h] \in Seq(MayMsgHave(h)) /\ Len(d_msg[h]) \in Nat
<1> DEFINE k == Len(d_msg[h])
           f == MsgsAfter(h, M)
           Is(i) == /\ AllSpread(f[i]) = AllSpread(M) \cup AllSpread(InnerUpTo(h, i))
                    /\ \A j \in 1 .. i : Replaced(h, f[i], d_msg[h][j])
                    /\ EndsFrom(h, i, M, f[i])
           S == {i \in Nat : i <= k => Is(i)}
<1>1. h \in Hiers /\ d_msg[h] \in Seq(MayMsgHave(h))
    BY UsedIs DEF WiringInv
<1>2. k \in Nat /\ ToSet(d_msg[h]) = {d_msg[h][i] : i \in 1 .. k}
    BY <1>1, ToSetIs
<1>3. f[0] = M /\ \A n \in 0 .. k - 1 : f[n + 1] = flatten_msg(h, f[n], d_msg[h][n + 1])
    BY <1>2, MsgCalls
<1> HIDE DEF k, f
<1>4. 0 \in S
    <2>1. EndsFrom(h, 0, M, M)
        BY DEF EndsFrom
    <2>2. AllSpread(InnerUpTo(h, 0)) = {}
        BY DEF AllSpread, InnerUpTo
    <2> QED
        BY <1>3, <2>1, <2>2
<1>5. ASSUME NEW n \in Nat, n \in S PROVE n + 1 \in S
    <2> SUFFICES ASSUME n + 1 <= k PROVE Is(n + 1)
        OBVIOUS
    <2> DEFINE m == d_msg[h][n + 1]
    <2>1. n \in 0 .. k - 1 /\ n + 1 \in 1 .. k
        BY <1>2
    <2>2. m \in ToSet(d_msg[h]) /\ f[n + 1] = flatten_msg(h, f[n], m)
        BY <1>2, <1>3, <2>1
    <2>3. Is(n)
        BY <1>2, <1>5, <2>1
    <2>4. AllSpread(f[n + 1]) = AllSpread(M) \cup AllSpread(InnerUpTo(h, n + 1))
        <3>1. AllSpread(f[n + 1]) =
                AllSpread(f[n]) \cup IF m.src.block # h /\ m.dst.block # h THEN Spread(MsgsUsed, m) ELSE {}
            BY <2>2, SpreadStep
        <3>2. InnerUpTo(h, n + 1) =
                InnerUpTo(h, n) \cup IF m.src.block # h /\ m.dst.block # h THEN {m} ELSE {}
            <4>1. 1 .. n + 1 = (1 .. n) \cup {n + 1}
                BY <1>5
            <4> QED
                BY <4>1 DEF InnerUpTo
        <3> HIDE DEF m
        <3>3. CASE m.src.block # h /\ m.dst.block # h
            <4>1. AllSpread(InnerUpTo(h, n + 1)) = AllSpread(InnerUpTo(h, n)) \cup Spread(MsgsUsed, m)
                BY <3>2, <3>3 DEF AllSpread
            <4> QED
                BY <2>3, <3>1, <3>3, <4>1
        <3>4. CASE ~(m.src.block # h /\ m.dst.block # h)
            <4>1. InnerUpTo(h, n + 1) = InnerUpTo(h, n)
                BY <3>2, <3>4
            <4> QED
                BY <2>3, <3>1, <3>4, <4>1
        <3> QED
            BY <3>3, <3>4
    <2>5. \A j \in 1 .. n + 1 : Replaced(h, f[n + 1], d_msg[h][j])
        <3> SUFFICES ASSUME NEW j \in 1 .. n + 1 PROVE Replaced(h, f[n + 1], d_msg[h][j])
            OBVIOUS
        <3>1. CASE j = n + 1
            BY <2>2, <3>1, ReplacedStep
        <3>2. CASE j # n + 1
            <4>1. j \in 1 .. n /\ j \in 1 .. k
                BY <1>2, <2>1, <3>2
            <4>2. Replaced(h, f[n], d_msg[h][j]) /\ d_msg[h][j] \in ToSet(d_msg[h])
                BY <1>2, <2>3, <4>1
            <4> QED
                BY <2>2, <4>2, ReplacedStep
        <3> QED
            BY <3>1, <3>2
    <2>6. EndsFrom(h, n + 1, M, f[n + 1])
        BY <2>2, <2>3, EndsStep
    <2> QED
        BY <2>4, <2>5, <2>6
<1> HIDE DEF S
<1>6. \A i \in Nat : i \in S
    BY <1>4, <1>5, Induction
<1>7. \A i \in 0 .. k : Is(i)
    BY <1>2, <1>6 DEF S
<1>8. k \in 0 .. k
    BY <1>2
<1> QED
    BY <1>1, <1>2, <1>7, <1>8 DEF k, f

\* Nothing of used leads further inside from an end.
AtEnd(R, x) == \A r \in R : r[1] # Pt(x)

LEMMA FlattenMsgsIs ==
    ASSUME WiringInv, NEW h \in UsedHiers, NEW M
    PROVE  LET N == flatten_msgs(h, M)
           IN  /\ AllSpread(N) = AllSpread(M) \cup AllSpread({u[2] : u \in {v \in InnerOf(MsgsUsed) : v[1] = h}})
               /\ EndsFrom(h, Len(d_msg[h]), M, N)
               /\ \A n \in N : /\ n.src.block = h => AtEnd(Ups(MsgsUsed), n.src)
                               /\ n.dst.block = h => AtEnd(Downs(MsgsUsed), n.dst)
<1> DEFINE A == MsgsAfter(h, M)[Len(d_msg[h])]
           N == flatten_msgs(h, M)
           E == ToSet(d_msg[h])
<1>1. h \in Hiers /\ d_msg[h] \in Seq(MayMsgHave(h))
    BY UsedIs DEF WiringInv
<1>2. E = {d_msg[h][i] : i \in 1 .. Len(d_msg[h])}
    BY <1>1, ToSetIs
<1>3. /\ AllSpread(A) = AllSpread(M) \cup AllSpread(InnerUpTo(h, Len(d_msg[h])))
      /\ \A m \in E : Replaced(h, A, m)
      /\ EndsFrom(h, Len(d_msg[h]), M, A)
    <2>1. Len(d_msg[h]) \in 0 .. Len(d_msg[h])
        BY MsgsAfterAre
    <2> QED
        BY <2>1, MsgsAfterAre
<1>4. InnerUpTo(h, Len(d_msg[h])) = {u[2] : u \in {v \in InnerOf(MsgsUsed) : v[1] = h}}
    <2>1. ASSUME NEW m \in E, m.src.block # h, m.dst.block # h
          PROVE  \E v \in InnerOf(MsgsUsed) : v[1] = h /\ v[2] = m
        <3> DEFINE u == <<h, m>>
        <3>1. u \in InnerOf(MsgsUsed) /\ u[1] = h /\ u[2] = m
            BY <2>1, MsgEdgeIs
        <3> HIDE DEF u
        <3> QED
            BY <3>1
    <2>2. \A v \in InnerOf(MsgsUsed) : v[1] = h => v[2] \in E /\ v[2].src.block # h /\ v[2].dst.block # h
        BY MsgsAccepted DEF InnerOf
    <2>3. InnerUpTo(h, Len(d_msg[h])) = {m \in E : m.src.block # h /\ m.dst.block # h}
        BY <1>2 DEF InnerUpTo
    <2> QED
        BY <2>1, <2>2, <2>3
<1>5. \A m \in E : /\ (Into(h, m) <=> m.src.block = h) /\ (OutOf(h, m) <=> m.dst.block = h)
                   /\ ~(m.src.block = h /\ m.dst.block = h)
    <2> SUFFICES ASSUME NEW m \in E
                 PROVE  /\ (Into(h, m) <=> m.src.block = h) /\ (OutOf(h, m) <=> m.dst.block = h)
                        /\ ~(m.src.block = h /\ m.dst.block = h)
        OBVIOUS
    <2> DEFINE u == <<h, m>>
    <2>1. u \in MsgsUsed /\ u[1] = h /\ u[2] = m
        BY MsgEdgeIs
    <2> HIDE DEF u
    <2> QED
        BY <2>1, MsgsAccepted DEF Accepted
<1>6. N = {n \in A : \A m \in E : /\ m.src.block = h => Pt(n.dst) # Pt(m.src)
                                  /\ m.dst.block = h => Pt(n.src) # Pt(m.dst)}
    BY <1>5, SameIs DEF flatten_msgs
<1>7. ASSUME NEW x, x.block = h
      PROVE  /\ (\A m \in E : m.dst.block = h => Pt(x) # Pt(m.dst)) => AtEnd(Ups(MsgsUsed), x)
             /\ (\A m \in E : m.src.block = h => Pt(x) # Pt(m.src)) => AtEnd(Downs(MsgsUsed), x)
    <2>1. ASSUME NEW r \in Ups(MsgsUsed), r[1] = Pt(x)
          PROVE  \E m \in E : m.dst.block = h /\ Pt(x) = Pt(m.dst) /\ r[2] = Pt(m.src)
        <3>1. PICK u \in MsgsUsed : u[2].dst.block = u[1] /\ r = <<Pt(u[2].dst), Pt(u[2].src)>>
            BY DEF Ups
        <3>2. u[1] = h
            BY <1>7, <2>1, <3>1, EndParts
        <3> QED
            BY <2>1, <3>1, <3>2, MsgsAccepted
    <2>2. ASSUME NEW r \in Downs(MsgsUsed), r[1] = Pt(x)
          PROVE  \E m \in E : m.src.block = h /\ Pt(x) = Pt(m.src) /\ r[2] = Pt(m.dst)
        <3>1. PICK u \in MsgsUsed : u[2].src.block = u[1] /\ r = <<Pt(u[2].src), Pt(u[2].dst)>>
            BY DEF Downs
        <3>2. u[1] = h
            BY <1>7, <2>2, <3>1, EndParts
        <3> QED
            BY <2>2, <3>1, <3>2, MsgsAccepted
    <2> QED
        BY <2>1, <2>2 DEF AtEnd
<1>8. ASSUME NEW n \in N
      PROVE  /\ n.src.block = h => AtEnd(Ups(MsgsUsed), n.src)
             /\ n.dst.block = h => AtEnd(Downs(MsgsUsed), n.dst)
    <2> HIDE DEF A, N, E
    <2> QED
        BY <1>6, <1>7
<1>9. EndsFrom(h, Len(d_msg[h]), M, N)
    BY <1>3, <1>6 DEF EndsFrom
<1>10. AllSpread(N) = AllSpread(A)
    <2>1. N \subseteq A
        BY <1>6
    <2>2. ASSUME NEW n \in A, NEW c \in Spread(MsgsUsed, n) PROVE \E o \in N : c \in Spread(MsgsUsed, o)
        <3>1. PICK a \in PlainAt(Ups(MsgsUsed), n.src), b \in PlainAt(Downs(MsgsUsed), n.dst) : c = Joined(a, b)
            BY DEF Spread
        <3>2. PICK o \in A : /\ o.src = n.src /\ b \in PlainAt(Downs(MsgsUsed), o.dst)
                             /\ \A m \in E : m.src.block = h => Pt(o.dst) # Pt(m.src)
            <4>1. CASE \A m \in E : m.src.block = h => Pt(n.dst) # Pt(m.src)
                BY <3>1, <4>1
            <4>2. ASSUME NEW d \in E, d.src.block = h, Pt(n.dst) = Pt(d.src)
                  PROVE  \E o \in A : /\ o.src = n.src /\ b \in PlainAt(Downs(MsgsUsed), o.dst)
                                      /\ \A m \in E : m.src.block = h => Pt(o.dst) # Pt(m.src)
                <5>1. n.dst.block = h /\ Pt(n.dst).block = h
                    BY <4>2, EndParts
                <5>2. b # Pt(n.dst) /\ b \in Reachable(Downs(MsgsUsed), Pt(n.dst)) /\ b.block \in Leaves
                    BY <1>1, <5>1, HierAssumption DEF PlainAt
                <5>3. PICK r \in Downs(MsgsUsed) : r[1] = Pt(n.dst) /\ b \in Reachable(Downs(MsgsUsed), r[2])
                    BY <5>2, FirstStep
                <5>4. PICK u \in MsgsUsed : u[2].src.block = u[1] /\ r = <<Pt(u[2].src), Pt(u[2].dst)>>
                    BY DEF Downs
                <5>5. u[1] = h
                    BY <5>1, <5>3, <5>4, EndParts
                <5> DEFINE m == u[2]
                <5>6. m \in E /\ m.src.block = h /\ Pt(n.dst) = Pt(m.src) /\ r[2] = Pt(m.dst)
                    BY <5>3, <5>4, <5>5, MsgsAccepted
                <5> HIDE DEF m
                <5>7. AtInput(n, m) \in A
                    BY <1>3, <5>6 DEF Replaced
                <5>8. b \in PlainAt(Downs(MsgsUsed), m.dst)
                    BY <5>2, <5>3, <5>6 DEF PlainAt
                <5>9. \A j \in E : j.src.block = h => Pt(m.dst) # Pt(j.src)
                    <6>1. m.dst.block # h
                        BY <1>5, <5>6
                    <6>2. \A j : Pt(j.src).block = j.src.block /\ Pt(m.dst).block = m.dst.block
                        BY EndParts
                    <6> QED
                        BY <6>1, <6>2
                <5> QED
                    BY <5>7, <5>8, <5>9 DEF AtInput
            <4> QED
                BY <4>1, <4>2
        <3>3. PICK p \in A : /\ p.dst = o.dst /\ a \in PlainAt(Ups(MsgsUsed), p.src)
                             /\ \A m \in E : m.dst.block = h => Pt(p.src) # Pt(m.dst)
            <4>1. CASE \A m \in E : m.dst.block = h => Pt(o.src) # Pt(m.dst)
                BY <3>1, <3>2, <4>1
            <4>2. ASSUME NEW d \in E, d.dst.block = h, Pt(o.src) = Pt(d.dst)
                  PROVE  \E p \in A : /\ p.dst = o.dst /\ a \in PlainAt(Ups(MsgsUsed), p.src)
                                      /\ \A m \in E : m.dst.block = h => Pt(p.src) # Pt(m.dst)
                <5>1. o.src.block = h /\ Pt(o.src).block = h
                    BY <4>2, EndParts
                <5>2. a # Pt(o.src) /\ a \in Reachable(Ups(MsgsUsed), Pt(o.src)) /\ a.block \in Leaves
                    BY <1>1, <3>1, <3>2, <5>1, HierAssumption DEF PlainAt
                <5>3. PICK r \in Ups(MsgsUsed) : r[1] = Pt(o.src) /\ a \in Reachable(Ups(MsgsUsed), r[2])
                    BY <5>2, FirstStep
                <5>4. PICK u \in MsgsUsed : u[2].dst.block = u[1] /\ r = <<Pt(u[2].dst), Pt(u[2].src)>>
                    BY DEF Ups
                <5>5. u[1] = h
                    BY <5>1, <5>3, <5>4, EndParts
                <5> DEFINE m == u[2]
                <5>6. m \in E /\ m.dst.block = h /\ Pt(o.src) = Pt(m.dst) /\ r[2] = Pt(m.src)
                    BY <5>3, <5>4, <5>5, MsgsAccepted
                <5> HIDE DEF m
                <5>7. AtOutput(o, m) \in A
                    BY <1>3, <5>6 DEF Replaced
                <5>8. a \in PlainAt(Ups(MsgsUsed), m.src)
                    BY <5>2, <5>3, <5>6 DEF PlainAt
                <5>9. \A j \in E : j.dst.block = h => Pt(m.src) # Pt(j.dst)
                    <6>1. m.src.block # h
                        BY <1>5, <5>6
                    <6> QED
                        BY <6>1, EndParts
                <5> QED
                    BY <5>7, <5>8, <5>9 DEF AtOutput
            <4> QED
                BY <4>1, <4>2
        <3>4. p \in N
            BY <1>6, <3>2, <3>3
        <3>5. c \in Spread(MsgsUsed, p)
            <4> DEFINE x == <<a, b>>
            <4>1. x \in PlainAt(Ups(MsgsUsed), p.src) \X PlainAt(Downs(MsgsUsed), p.dst)
                BY <3>2, <3>3
            <4>2. c = Joined(x[1], x[2])
                BY <3>1
            <4> HIDE DEF x
            <4> QED
                BY <4>1, <4>2 DEF Spread
        <3> QED
            BY <3>4, <3>5
    <2> HIDE DEF A, N
    <2> QED
        BY <2>1, <2>2 DEF AllSpread
<1> QED
    BY <1>3, <1>4, <1>8, <1>9, <1>10

\* The ends of the edges are ends, seen from outside, of edges of the blocks in F.
FromIn(F, n, v) == v[1] \in F /\ v[2].src.block # v[1] /\ n.src = v[2].src
ToIn(F, n, v)   == v[1] \in F /\ v[2].dst.block # v[1] /\ n.dst = v[2].dst

Ended(F, M) == \A n \in M : (\E v \in MsgsUsed : FromIn(F, n, v)) /\ (\E v \in MsgsUsed : ToIn(F, n, v))

\* The same, or of the first i edges of h.
EndedSoFar(F, h, i, n) ==
    /\ \E v \in MsgsUsed : \/ FromIn(F, n, v)
                           \/ FromIn({h}, n, v) /\ \E j \in 1 .. i : v[2] = d_msg[h][j]
    /\ \E v \in MsgsUsed : \/ ToIn(F, n, v)
                           \/ ToIn({h}, n, v) /\ \E j \in 1 .. i : v[2] = d_msg[h][j]

LEMMA StillEnded ==
    ASSUME WiringInv, NEW F, NEW M, Ended(F, M), NEW h \in UsedHiers
    PROVE  /\ \A i \in 0 .. Len(d_msg[h]) : \A n \in MsgsAfter(h, M)[i] : EndedSoFar(F, h, i, n)
           /\ Ended(F \cup {h}, flatten_msgs(h, M))
<1> DEFINE k == Len(d_msg[h])
<1>1. /\ k \in Nat /\ ToSet(d_msg[h]) = {d_msg[h][i] : i \in 1 .. k}
      /\ \A i \in 0 .. k : EndsFrom(h, i, M, MsgsAfter(h, M)[i])
    BY MsgsAfterAre, ToSetIs
<1>2. \A j \in 1 .. k : \E v \in MsgsUsed : v[1] = h /\ v[2] = d_msg[h][j]
    <2> SUFFICES ASSUME NEW j \in 1 .. k PROVE \E v \in MsgsUsed : v[1] = h /\ v[2] = d_msg[h][j]
        OBVIOUS
    <2> DEFINE m == d_msg[h][j]
               u == <<h, m>>
    <2>1. m \in ToSet(d_msg[h])
        BY <1>1
    <2> HIDE DEF m
    <2>2. u \in MsgsUsed /\ u[1] = h /\ u[2] = m
        BY <2>1, MsgEdgeIs
    <2> HIDE DEF u
    <2> QED
        BY <2>2 DEF m
<1> HIDE DEF k
<1>3. ASSUME NEW i \in 0 .. k, NEW N, EndsFrom(h, i, M, N), NEW n \in N
      PROVE  /\ \E v \in MsgsUsed : \/ FromIn(F, n, v)
                                    \/ FromIn({h}, n, v) /\ \E j \in 1 .. i : v[2] = d_msg[h][j]
             /\ \E v \in MsgsUsed : \/ ToIn(F, n, v)
                                    \/ ToIn({h}, n, v) /\ \E j \in 1 .. i : v[2] = d_msg[h][j]
    <2>1. \A j \in 1 .. i : j \in 1 .. k
        BY <1>1
    <2>2. ASSUME NEW o \in M, n.src = o.src PROVE \E v \in MsgsUsed : FromIn(F, n, v)
        <3>1. PICK v \in MsgsUsed : FromIn(F, o, v)
            BY DEF Ended
        <3>2. FromIn(F, n, v)
            BY <2>2, <3>1 DEF FromIn
        <3> QED
            BY <3>2
    <2>3. ASSUME NEW j \in 1 .. i, n.src = d_msg[h][j].src, d_msg[h][j].src.block # h
          PROVE  \E v \in MsgsUsed : FromIn({h}, n, v) /\ v[2] = d_msg[h][j]
        BY <1>2, <2>1, <2>3 DEF FromIn
    <2>4. ASSUME NEW o \in M, n.dst = o.dst PROVE \E v \in MsgsUsed : ToIn(F, n, v)
        <3>1. PICK v \in MsgsUsed : ToIn(F, o, v)
            BY DEF Ended
        <3>2. ToIn(F, n, v)
            BY <2>4, <3>1 DEF ToIn
        <3> QED
            BY <3>2
    <2>5. ASSUME NEW j \in 1 .. i, n.dst = d_msg[h][j].dst, d_msg[h][j].dst.block # h
          PROVE  \E v \in MsgsUsed : ToIn({h}, n, v) /\ v[2] = d_msg[h][j]
        BY <1>2, <2>1, <2>5 DEF ToIn
    <2> QED
        <3>1. /\ \/ \E o \in M : n.src = o.src
                 \/ \E j \in 1 .. i : n.src = d_msg[h][j].src /\ d_msg[h][j].src.block # h
              /\ \/ \E o \in M : n.dst = o.dst
                 \/ \E j \in 1 .. i : n.dst = d_msg[h][j].dst /\ d_msg[h][j].dst.block # h
            BY <1>3 DEF EndsFrom
        <3>2. \E v \in MsgsUsed : \/ FromIn(F, n, v)
                                  \/ FromIn({h}, n, v) /\ \E j \in 1 .. i : v[2] = d_msg[h][j]
            <4>1. CASE \E o \in M : n.src = o.src
                <5>1. \E v \in MsgsUsed : FromIn(F, n, v)
                    BY <2>2, <4>1
                <5> QED
                    BY <5>1
            <4>2. CASE \E j \in 1 .. i : n.src = d_msg[h][j].src /\ d_msg[h][j].src.block # h
                <5>1. PICK j \in 1 .. i : n.src = d_msg[h][j].src /\ d_msg[h][j].src.block # h
                    BY <4>2
                <5>2. \E v \in MsgsUsed : FromIn({h}, n, v) /\ v[2] = d_msg[h][j]
                    BY <2>3, <5>1
                <5> QED
                    BY <5>2
            <4> QED
                BY <3>1, <4>1, <4>2
        <3>3. \E v \in MsgsUsed : \/ ToIn(F, n, v)
                                  \/ ToIn({h}, n, v) /\ \E j \in 1 .. i : v[2] = d_msg[h][j]
            <4>1. CASE \E o \in M : n.dst = o.dst
                <5>1. \E v \in MsgsUsed : ToIn(F, n, v)
                    BY <2>4, <4>1
                <5> QED
                    BY <5>1
            <4>2. CASE \E j \in 1 .. i : n.dst = d_msg[h][j].dst /\ d_msg[h][j].dst.block # h
                <5>1. PICK j \in 1 .. i : n.dst = d_msg[h][j].dst /\ d_msg[h][j].dst.block # h
                    BY <4>2
                <5>2. \E v \in MsgsUsed : ToIn({h}, n, v) /\ v[2] = d_msg[h][j]
                    BY <2>5, <5>1
                <5> QED
                    BY <5>2
            <4> QED
                BY <3>1, <4>1, <4>2
        <3> QED
            BY <3>2, <3>3
<1>4. EndsFrom(h, k, M, flatten_msgs(h, M)) /\ k \in 0 .. k
    BY <1>1, FlattenMsgsIs DEF k
<1>5. \A n \in flatten_msgs(h, M) : /\ \E v \in MsgsUsed : FromIn(F, n, v) \/ FromIn({h}, n, v)
                                    /\ \E v \in MsgsUsed : ToIn(F, n, v) \/ ToIn({h}, n, v)
    BY <1>3, <1>4
<1>6. Ended(F \cup {h}, flatten_msgs(h, M))
    BY <1>5 DEF Ended, FromIn, ToIn
<1>7. \A i \in 0 .. k : \A n \in MsgsAfter(h, M)[i] : EndedSoFar(F, h, i, n)
    BY <1>1, <1>3 DEF EndedSoFar
<1> QED
    BY <1>6, <1>7 DEF k

\* Flattened up to the blocks in F, the edges lead where the edges of these blocks
\* do, and none ends at a port of one of them that is connected inside.
EdgesOf(F) == {u[2] : u \in {v \in InnerOf(MsgsUsed) : v[1] \in F}}

Led(F, M) ==
    /\ AllSpread(M) = AllSpread(EdgesOf(F))
    /\ \A n \in M : /\ n.src.block \in F => AtEnd(Ups(MsgsUsed), n.src)
                    /\ n.dst.block \in F => AtEnd(Downs(MsgsUsed), n.dst)

LEMMA StillLed ==
    ASSUME WiringInv, NEW F \in SUBSET UsedHiers, NEW M, Led(F, M), NEW h \in UsedHiers,
           \A b \in F : b \notin Within(h)
    PROVE  Led(F \cup {h}, flatten_msgs(h, M))
<1> DEFINE N == flatten_msgs(h, M)
           k == Len(d_msg[h])
<1>1. /\ AllSpread(N) = AllSpread(M) \cup AllSpread({u[2] : u \in {v \in InnerOf(MsgsUsed) : v[1] = h}})
      /\ EndsFrom(h, k, M, N)
      /\ \A n \in N : /\ n.src.block = h => AtEnd(Ups(MsgsUsed), n.src)
                      /\ n.dst.block = h => AtEnd(Downs(MsgsUsed), n.dst)
    BY FlattenMsgsIs
<1>2. AllSpread(EdgesOf(F \cup {h})) =
        AllSpread(EdgesOf(F)) \cup AllSpread({u[2] : u \in {v \in InnerOf(MsgsUsed) : v[1] = h}})
    BY DEF AllSpread, EdgesOf
<1>3. \A j \in 1 .. k : /\ d_msg[h][j].src.block # h => d_msg[h][j].src.block \notin F
                        /\ d_msg[h][j].dst.block # h => d_msg[h][j].dst.block \notin F
    <2>1. h \in Hiers /\ F \subseteq Hiers
        BY UsedIs
    <2>2. \A m \in ToSet(d_msg[h]) :
            {m.src.block, m.dst.block} \cap (Hiers \ {h}) \subseteq Within(h)
        BY <2>1, ChildrenWithin
    <2>3. \A j \in 1 .. k : d_msg[h][j] \in ToSet(d_msg[h])
        BY MsgsAfterAre, ToSetIs
    <2> HIDE DEF k
    <2> QED
        BY <2>1, <2>2, <2>3
<1> HIDE DEF N, k
<1>4. ASSUME NEW n \in N
      PROVE  /\ n.src.block \in F \cup {h} => AtEnd(Ups(MsgsUsed), n.src)
             /\ n.dst.block \in F \cup {h} => AtEnd(Downs(MsgsUsed), n.dst)
    BY <1>1, <1>3 DEF Led, EndsFrom
<1> QED
    BY <1>1, <1>2, <1>4 DEF Led, N

\* When all blocks in use are flattened, what leads between plain blocks is there.
LeafPairs(M) == {Joined(m.src, m.dst) : m \in {n \in M : BetweenLeaves(n)}}

LEMMA LedToTheEnd ==
    ASSUME WiringInv, NEW M, Ended(UsedHiers, M), Led(UsedHiers, M)
    PROVE  LeafPairs(M) = Meaning(MsgsUsed)
<1>1. Meaning(MsgsUsed) = AllSpread(M)
    <2>1. Meaning(MsgsUsed) = UNION {Spread(MsgsUsed, u[2]) : u \in InnerOf(MsgsUsed)}
        BY MsgsAccepted, MeaningIs
    <2>2. \A u \in InnerOf(MsgsUsed) : u[1] \in UsedHiers
        BY MsgsAccepted DEF InnerOf
    <2>3. AllSpread(EdgesOf(UsedHiers)) = UNION {Spread(MsgsUsed, u[2]) : u \in InnerOf(MsgsUsed)}
        BY <2>2 DEF AllSpread, EdgesOf
    <2> QED
        BY <2>1, <2>3 DEF Led
<1>2. \A x : x.block \in Leaves => AtEnd(Ups(MsgsUsed), x) /\ AtEnd(Downs(MsgsUsed), x)
    <2> SUFFICES ASSUME NEW x, x.block \in Leaves
                 PROVE  AtEnd(Ups(MsgsUsed), x) /\ AtEnd(Downs(MsgsUsed), x)
        OBVIOUS
    <2>1. \A u \in MsgsUsed : u[1] \in Hiers
        BY MsgsAccepted DEF Accepted
    <2>2. \A y : Pt(x) = Pt(y) => y.block \in Leaves
        BY EndParts
    <2> QED
        BY <2>1, <2>2, HierAssumption DEF AtEnd, Ups, Downs
<1>3. \A R, x : AtEnd(R, x) => Reachable(R, Pt(x)) = {Pt(x)}
    BY NoStep DEF AtEnd
<1>4. ASSUME NEW n \in M
      PROVE  /\ n.src.block \in UsedHiers \cup Leaves /\ n.dst.block \in UsedHiers \cup Leaves
             /\ Reachable(Ups(MsgsUsed), Pt(n.src)) = {Pt(n.src)}
             /\ Reachable(Downs(MsgsUsed), Pt(n.dst)) = {Pt(n.dst)}
    <2>1. n.src.block \in UsedHiers \cup Leaves /\ n.dst.block \in UsedHiers \cup Leaves
        BY MsgsAccepted DEF Ended, FromIn, ToIn
    <2> QED
        BY <1>2, <1>3, <2>1 DEF Led
<1>5. ASSUME NEW n \in M
      PROVE  Spread(MsgsUsed, n) = IF BetweenLeaves(n) THEN {Joined(n.src, n.dst)} ELSE {}
    <2>1. Joined(Pt(n.src), Pt(n.dst)) = Joined(n.src, n.dst)
        BY DEF Joined, Pt, Endpoint
    <2>2. /\ PlainAt(Ups(MsgsUsed), n.src) = IF n.src.block \in Leaves THEN {Pt(n.src)} ELSE {}
          /\ PlainAt(Downs(MsgsUsed), n.dst) = IF n.dst.block \in Leaves THEN {Pt(n.dst)} ELSE {}
        <3>1. \A R, x : Reachable(R, Pt(x)) = {Pt(x)} =>
                            PlainAt(R, x) = IF x.block \in Leaves THEN {Pt(x)} ELSE {}
            <4> SUFFICES ASSUME NEW R, NEW x, Reachable(R, Pt(x)) = {Pt(x)}
                         PROVE  PlainAt(R, x) = IF x.block \in Leaves THEN {Pt(x)} ELSE {}
                OBVIOUS
            <4>1. Pt(x).block = x.block
                BY EndParts
            <4> QED
                BY <4>1 DEF PlainAt
        <3> QED
            BY <1>4, <3>1
    <2> DEFINE A == PlainAt(Ups(MsgsUsed), n.src)
               B == PlainAt(Downs(MsgsUsed), n.dst)
    <2>3. Spread(MsgsUsed, n) = {Joined(x[1], x[2]) : x \in A \X B}
        BY DEF Spread
    <2>4. CASE BetweenLeaves(n)
        <3>1. n.src.block \in Leaves /\ n.dst.block \in Leaves
            BY <2>4 DEF BetweenLeaves
        <3>2. A = {Pt(n.src)} /\ B = {Pt(n.dst)}
            BY <2>2, <3>1
        <3> HIDE DEF A, B
        <3>3. \A x \in A \X B : Joined(x[1], x[2]) = Joined(n.src, n.dst)
            BY <2>1, <3>2
        <3>4. <<Pt(n.src), Pt(n.dst)>> \in A \X B
            BY <3>2
        <3> QED
            BY <2>3, <2>4, <3>3, <3>4
    <2>5. CASE ~BetweenLeaves(n)
        <3>1. ~(n.src.block \in Leaves /\ n.dst.block \in Leaves)
            BY <2>5 DEF BetweenLeaves
        <3>2. A = {} \/ B = {}
            BY <2>2, <3>1
        <3> HIDE DEF A, B
        <3> QED
            BY <2>3, <2>5, <3>2
    <2> QED
        BY <2>4, <2>5
<1>6. AllSpread(M) = LeafPairs(M)
    BY <1>5 DEF AllSpread, LeafPairs
<1> QED
    BY <1>1, <1>6

-----------------------------------------------------------------------------
(* flatten_aux: the calls.                                                   *)

Begun(s) == Hiers \ s.white

Tree(s) ==
    /\ s.path \in Seq(Hiers) /\ s.white \subseteq Hiers /\ Begun(s) \subseteq UsedHiers
    /\ \A i \in 1 .. Len(s.path) : s.path[i] \in Begun(s)
    /\ \A i \in 2 .. Len(s.path) : s.path[i] # Top
    /\ \A b \in Begun(s) : On(s.path, b) \/ Children(b) \cap s.white = {}
    /\ \A b \in Begun(s) \ {Top} : \E g \in Begun(s) : b \in Children(g)
    /\ s.edges = UNION {flatten_edges(h) : h \in Begun(s)}

\* flatten_aux is called for the top block, then for blocks inside others.
IsNext(s, h) ==
    /\ h \in s.white
    /\ \/ h = Top /\ s.path = <<>>
       \/ h # Top /\ s.path # <<>> /\ \E g \in Begun(s) : h \in Children(g)

Parented == \A h \in UsedHiers \ {Top} : parent[h] # None

Single(E) == \A c, d \in E : c.dst = d.dst => c = d

\* What holds as long as nothing threw.
Taken(s) ==
    /\ \A h \in Begun(s) : PortsConnected(h)
    /\ \A c \in s.edges : Fits(c)
    /\ Single(s.edges)

MsgsSo(s) == Ended(Begun(s), s.msgs) /\ (Parented => Led(Begun(s), s.msgs))

LEMMA FlatteningParts ==
    ASSUME NEW p, NEW w, NEW e, NEW m, NEW t
    PROVE  /\ Flattening(p, w, e, m, t).path = p /\ Flattening(p, w, e, m, t).white = w
           /\ Flattening(p, w, e, m, t).edges = e /\ Flattening(p, w, e, m, t).msgs = m
           /\ Flattening(p, w, e, m, t).threw = t
BY DEF Flattening

LEMMA EnteringIs ==
    ASSUME NEW s, NEW h
    PROVE  /\ Entering(s, h).path = Append(s.path, h) /\ Entering(s, h).white = s.white \ {h}
           /\ Entering(s, h).edges = s.edges \cup flatten_edges(h)
           /\ Entering(s, h).msgs = flatten_msgs(h, s.msgs)
           /\ Entering(s, h).threw <=>
                ~(EdgesTaken(h, s.edges) /\ MsgsTaken(h, s.msgs) /\ PortsConnected(h))
<1>1. \A p, w, e, m, t :
        /\ Flattening(p, w, e, m, t).path = p /\ Flattening(p, w, e, m, t).white = w
        /\ Flattening(p, w, e, m, t).edges = e /\ Flattening(p, w, e, m, t).msgs = m
        /\ Flattening(p, w, e, m, t).threw = t
    BY FlatteningParts
<1> DEFINE p == Append(s.path, h)
           w == s.white \ {h}
           e == s.edges \cup flatten_edges(h)
           m == flatten_msgs(h, s.msgs)
           t == ~(EdgesTaken(h, s.edges) /\ MsgsTaken(h, s.msgs) /\ PortsConnected(h))
<1>2. Entering(s, h) = Flattening(p, w, e, m, t)
    BY DEF Entering
<1>3. /\ Entering(s, h).path = p /\ Entering(s, h).white = w
      /\ Entering(s, h).edges = e /\ Entering(s, h).msgs = m
      /\ Entering(s, h).threw = t
    <2> HIDE DEF p, w, e, m, t
    <2> QED
        BY <1>1, <1>2
<1> QED
    BY <1>3

LEMMA NextIs ==
    ASSUME WiringInv, NEW s, Tree(s), NEW h, IsNext(s, h)
    PROVE  /\ h \in UsedHiers /\ h \in Hiers /\ h \notin Begun(s)
           /\ \A b \in Begun(s) : b \notin Within(h)
           /\ Begun(Entering(s, h)) = Begun(s) \cup {h}
<1>1. h \in Hiers /\ h \notin Begun(s) /\ h \in s.white
    BY DEF Tree, IsNext, Begun
<1>2. h \in UsedHiers
    BY UsedIs DEF Tree, IsNext
<1>3. ASSUME NEW b \in Begun(s) PROVE b \notin Within(h)
    <2>1. CASE b = Top
        BY <1>1, <2>1, NestAssumption
    <2>2. CASE b # Top
        <3>1. PICK g \in Begun(s) : b \in Children(g)
            BY <2>2 DEF Tree
        <3>2. g \in Hiers /\ g # h
            BY <1>1 DEF Begun
        <3>3. b \in Within(g)
            BY <3>1, <3>2, ChildrenWithin
        <3> QED
            BY <1>1, <3>2, <3>3, NestAssumption
    <2> QED
        BY <2>1, <2>2
<1>4. Entering(s, h).white = s.white \ {h}
    BY EnteringIs
<1>5. Begun(Entering(s, h)) = Begun(s) \cup {h}
    BY <1>1, <1>4 DEF Begun
<1> QED
    BY <1>1, <1>2, <1>3, <1>5

LEMMA TreeGrows ==
    ASSUME WiringInv, NEW s, Tree(s), NEW h, IsNext(s, h)
    PROVE  Tree(Entering(s, h))
<1> DEFINE t == Entering(s, h)
<1>1. /\ t.path = Append(s.path, h) /\ t.white = s.white \ {h}
      /\ t.edges = s.edges \cup flatten_edges(h)
    BY EnteringIs
<1>2. /\ h \in UsedHiers /\ h \in Hiers /\ Begun(t) = Begun(s) \cup {h}
    BY NextIs
<1> HIDE DEF t
<1>3. s.path \in Seq(Hiers) /\ s.white \subseteq Hiers /\ Begun(s) \subseteq UsedHiers
    BY DEF Tree
<1>4. /\ t.path \in Seq(Hiers) /\ Len(t.path) = Len(s.path) + 1 /\ Len(s.path) \in Nat
      /\ t.path[Len(s.path) + 1] = h
      /\ \A i \in 1 .. Len(s.path) : t.path[i] = s.path[i]
    BY <1>1, <1>2, <1>3, Longer
<1>5. \A i \in 1 .. Len(t.path) : i \in 1 .. Len(s.path) \/ i = Len(s.path) + 1
    BY <1>4
<1>6. \A i \in 1 .. Len(t.path) : t.path[i] \in Begun(t)
    BY <1>2, <1>4, <1>5 DEF Tree
<1>7. \A i \in 2 .. Len(t.path) : t.path[i] # Top
    <2> SUFFICES ASSUME NEW i \in 2 .. Len(t.path) PROVE t.path[i] # Top
        OBVIOUS
    <2>1. CASE i \in 2 .. Len(s.path)
        <3>1. i \in 1 .. Len(s.path)
            BY <2>1
        <3> QED
            BY <1>4, <2>1, <3>1 DEF Tree
    <2>2. CASE i = Len(s.path) + 1
        <3>1. s.path # <<>>
            BY <1>3, <1>4, <2>2
        <3> QED
            BY <1>4, <2>2, <3>1 DEF IsNext
    <2> QED
        BY <1>4, <2>1, <2>2
<1>8. ASSUME NEW b \in Begun(t) PROVE On(t.path, b) \/ Children(b) \cap t.white = {}
    <2>1. On(t.path, b) <=> On(s.path, b) \/ b = h
        BY <1>1, <1>2, <1>3, OnLonger
    <2> QED
        BY <1>1, <1>2, <2>1 DEF Tree
<1>9. ASSUME NEW b \in Begun(t) \ {Top} PROVE \E g \in Begun(t) : b \in Children(g)
    BY <1>2 DEF Tree, IsNext
<1>10. t.edges = UNION {flatten_edges(g) : g \in Begun(t)}
    <2>1. s.edges = UNION {flatten_edges(g) : g \in Begun(s)}
        BY DEF Tree
    <2> QED
        BY <1>1, <1>2, <2>1
<1>11. t.white \subseteq Hiers /\ Begun(t) \subseteq UsedHiers
    BY <1>1, <1>2, <1>3
<1> QED
    BY <1>4, <1>6, <1>7, <1>8, <1>9, <1>10, <1>11 DEF Tree, t

LEMMA TreeShrinks ==
    ASSUME NEW s, Tree(s), s.path # <<>>, Children(Last(s.path)) \cap s.white = {}
    PROVE  Tree(Leaving(s)) /\ Begun(Leaving(s)) = Begun(s)
<1> DEFINE t == Leaving(s)
<1>1. t.path = Front(s.path) /\ t.white = s.white /\ t.edges = s.edges
    BY FlatteningParts DEF Leaving
<1> HIDE DEF t
<1>2. s.path \in Seq(Hiers)
    BY DEF Tree
<1>3. /\ Len(s.path) \in Nat /\ Len(s.path) > 0
      /\ t.path \in Seq(Hiers) /\ Len(t.path) = Len(s.path) - 1
      /\ \A i \in 1 .. Len(s.path) - 1 : t.path[i] = s.path[i]
    BY <1>1, <1>2, Ends
<1>4. Begun(t) = Begun(s)
    BY <1>1 DEF Begun
<1>5. \A i \in 1 .. Len(t.path) : i \in 1 .. Len(s.path) /\ t.path[i] = s.path[i]
    BY <1>3
<1>6. \A i \in 2 .. Len(t.path) : i \in 2 .. Len(s.path) /\ i \in 1 .. Len(t.path)
    BY <1>3
<1>7. \A b : On(s.path, b) <=> On(t.path, b) \/ b = Last(s.path)
    BY <1>1, <1>2, OnShorter
<1> QED
    BY <1>1, <1>3, <1>4, <1>5, <1>6, <1>7 DEF Tree, t

LEMMA ConnectableFits ==
    ASSUME NEW E, NEW c
    PROVE  Connectable(E, c) <=> Fits(c) /\ \A d \in E : d.dst # c.dst
BY DEF Connectable, Fits, check_dst_not_used

LEMMA TakenGrows ==
    ASSUME WiringInv, NEW s, Tree(s), NEW h, IsNext(s, h), Taken(s), ~Entering(s, h).threw
    PROVE  Taken(Entering(s, h))
<1> DEFINE t == Entering(s, h)
<1>1. t.edges = s.edges \cup flatten_edges(h) /\ Begun(t) = Begun(s) \cup {h}
    BY EnteringIs, NextIs
<1>2. EdgesTaken(h, s.edges) /\ PortsConnected(h)
    BY EnteringIs
<1>3. \A c \in flatten_edges(h) : Fits(c) /\ \A d \in s.edges : d.dst # c.dst
    BY <1>2, ConnectableFits DEF EdgesTaken
<1>4. \A c, d \in flatten_edges(h) : c.dst = d.dst => c = d
    BY <1>2 DEF EdgesTaken, flatten_edges
<1> HIDE DEF t
<1> QED
    BY <1>1, <1>2, <1>3, <1>4 DEF Taken, Single, t

LEMMA MsgsGrow ==
    ASSUME WiringInv, NEW s, Tree(s), NEW h, IsNext(s, h), MsgsSo(s)
    PROVE  MsgsSo(Entering(s, h))
<1>1. /\ h \in UsedHiers /\ \A b \in Begun(s) : b \notin Within(h)
      /\ Begun(Entering(s, h)) = Begun(s) \cup {h}
    BY NextIs
<1>2. Entering(s, h).msgs = flatten_msgs(h, s.msgs)
    BY EnteringIs
<1>3. Ended(Begun(s) \cup {h}, flatten_msgs(h, s.msgs))
    BY <1>1, StillEnded DEF MsgsSo
<1>4. Begun(s) \in SUBSET UsedHiers
    BY DEF Tree
<1>5. Parented => Led(Begun(s) \cup {h}, flatten_msgs(h, s.msgs))
    BY <1>1, <1>4, StillLed DEF MsgsSo
<1> QED
    BY <1>1, <1>2, <1>3, <1>5 DEF MsgsSo

-----------------------------------------------------------------------------
(* Why flattening throws.                                                    *)

Unconnected == \E h \in UsedHiers : ~PortsConnected(h)

Dangling == \E u \in StreamsUsed : \/ (u[2].src.block # u[1] /\ Behind(u[2].src, FALSE) = {})
                                   \/ (u[2].dst.block # u[1] /\ Behind(u[2].dst, TRUE) = {})

Misfit == \E e \in Meaning(StreamsUsed) : ~Fits(e)

Shared == \E u, v \in StreamsUsed : u # v /\ TargetOf(u) = TargetOf(v)

Doubled == \E u, v, w \in MsgsUsed :
              u \notin {v, w} /\ SourceOf(u) = SourceOf(v) /\ TargetOf(u) = TargetOf(w)

Reason == Unconnected \/ Dangling \/ Misfit \/ Shared \/ Doubled

\* If no two edges end at one place, an end is next to one further out at most, and
\* an end seen from inside is next to one at most.
LEMMA TargetsApart ==
    ASSUME WiringInv, ~Shared
    PROVE  /\ \A r, q \in Downs(StreamsUsed) : r[2] = q[2] => r = q
           /\ \A r, q \in Ups(StreamsUsed) : r[1] = q[1] => r = q
           /\ \A r \in Downs(StreamsUsed) : \A u \in InnerOf(StreamsUsed) : r[2] # Pt(u[2].dst)
           /\ \A u, v \in InnerOf(StreamsUsed) : Pt(u[2].dst) = Pt(v[2].dst) => u = v
<1>1. \A u, v \in StreamsUsed : TargetOf(u) = TargetOf(v) => u = v
    BY DEF Shared
<1>2. \A u \in StreamsUsed : u[2].src.block # u[2].dst.block
    BY StreamsAccepted
<1>3. \A u, v \in StreamsUsed :
        Pt(u[2].dst) = Pt(v[2].dst) /\ (u[2].dst.block = u[1] <=> v[2].dst.block = v[1]) => u = v
    <2> SUFFICES ASSUME NEW u \in StreamsUsed, NEW v \in StreamsUsed, Pt(u[2].dst) = Pt(v[2].dst),
                        u[2].dst.block = u[1] <=> v[2].dst.block = v[1]
                 PROVE  u = v
        OBVIOUS
    <2>1. (u[2].dst.block = u[1]) = (v[2].dst.block = v[1])
        OBVIOUS
    <2>2. \A x, y, b : Pt(x) = Pt(y) => End(x, b) = End(y, b)
        BY DEF Pt, Endpoint, End
    <2>3. TargetOf(u) = TargetOf(v)
        BY <2>1, <2>2 DEF TargetOf
    <2> QED
        BY <1>1, <2>3
<1>4. ASSUME NEW r \in Downs(StreamsUsed), NEW q \in Downs(StreamsUsed), r[2] = q[2] PROVE r = q
    <2>1. PICK u \in StreamsUsed : u[2].src.block = u[1] /\ r = <<Pt(u[2].src), Pt(u[2].dst)>>
        BY DEF Downs
    <2>2. PICK v \in StreamsUsed : v[2].src.block = v[1] /\ q = <<Pt(v[2].src), Pt(v[2].dst)>>
        BY DEF Downs
    <2>3. u = v
        BY <1>2, <1>3, <1>4, <2>1, <2>2
    <2> QED
        BY <2>1, <2>2, <2>3
<1>5. ASSUME NEW r \in Ups(StreamsUsed), NEW q \in Ups(StreamsUsed), r[1] = q[1] PROVE r = q
    <2>1. PICK u \in StreamsUsed : u[2].dst.block = u[1] /\ r = <<Pt(u[2].dst), Pt(u[2].src)>>
        BY DEF Ups
    <2>2. PICK v \in StreamsUsed : v[2].dst.block = v[1] /\ q = <<Pt(v[2].dst), Pt(v[2].src)>>
        BY DEF Ups
    <2>3. u = v
        BY <1>3, <1>5, <2>1, <2>2
    <2> QED
        BY <2>1, <2>2, <2>3
<1>6. ASSUME NEW r \in Downs(StreamsUsed), NEW u \in InnerOf(StreamsUsed), r[2] = Pt(u[2].dst)
      PROVE  FALSE
    <2>1. PICK v \in StreamsUsed : v[2].src.block = v[1] /\ r = <<Pt(v[2].src), Pt(v[2].dst)>>
        BY DEF Downs
    <2>2. u \in StreamsUsed /\ u[2].src.block # u[1] /\ u[2].dst.block # u[1]
        BY DEF InnerOf
    <2>3. u = v
        BY <1>2, <1>3, <1>6, <2>1, <2>2
    <2> QED
        BY <2>1, <2>2, <2>3
<1>7. \A u, v \in InnerOf(StreamsUsed) : Pt(u[2].dst) = Pt(v[2].dst) => u = v
    BY <1>3 DEF InnerOf
<1> QED
    BY <1>4, <1>5, <1>6, <1>7

\* The way inside does not come back.
LEMMA NoWayBack ==
    ASSUME WiringInv, NEW r \in Downs(StreamsUsed)
    PROVE  r[1] \notin Reachable(Downs(StreamsUsed), r[2])
<1>1. PICK level : Levels(level)
    BY NestAssumption DEF Levels, Hierarchies
<1>2. \A h \in Hiers : level[h] \in Int
    BY <1>1, SomeHiers DEF Levels
<1>3. \A q \in Downs(StreamsUsed) : /\ q[1].block \in Hiers
                                    /\ q[2].block \in Hiers => level[q[2].block] > level[q[1].block]
    <2> SUFFICES ASSUME NEW q \in Downs(StreamsUsed)
                 PROVE  /\ q[1].block \in Hiers
                        /\ q[2].block \in Hiers => level[q[2].block] > level[q[1].block]
        OBVIOUS
    <2>1. PICK u \in StreamsUsed : u[2].src.block = u[1] /\ q = <<Pt(u[2].src), Pt(u[2].dst)>>
        BY DEF Downs
    <2>2. q[1].block = u[1] /\ q[2].block = u[2].dst.block
        BY <2>1, EndParts
    <2>3. u[1] \in Hiers /\ u[2].dst.block # u[1]
        BY <2>1, StreamsAccepted DEF Accepted
    <2>4. u[2].dst.block \in Hiers => u[2].dst.block \in Within(u[1])
        BY <2>3, StreamsAccepted DEF Accepted
    <2> QED
        BY <1>1, <2>2, <2>3, <2>4 DEF Levels
<1> DEFINE R == Downs(StreamsUsed)
           S == {y \in EndsOf(R, r[2]) : y.block \in Hiers => level[y.block] > level[r[1].block]}
<1>4. r[2] \in S
    BY <1>3 DEF EndsOf
<1>5. ASSUME NEW q \in R, q[1] \in S PROVE q[2] \in S
    <2>1. q[2] \in EndsOf(R, r[2])
        BY DEF EndsOf
    <2>2. q[2].block \in Hiers => level[q[2].block] > level[r[1].block]
        BY <1>2, <1>3, <1>5
    <2> QED
        BY <2>1, <2>2
<1> HIDE DEF S
<1>6. Reachable(R, r[2]) \subseteq S
    BY <1>4, <1>5, ReachableIs DEF Keeps
<1>7. r[1] \notin S
    BY <1>2, <1>3 DEF S
<1> QED
    BY <1>6, <1>7

\* If no two edges end at one place, nothing is found twice.
LEMMA FoundApart ==
    ASSUME WiringInv, ~Shared, NEW x, Usable(x), NEW is_input \in BOOLEAN,
           Towards(is_input) = Downs(StreamsUsed), NEW f, FoundBy(f, x, is_input)
    PROVE  \A n \in 0 .. Hierarchies : \A y, z \in f[n] :
              y \in Reachable(Downs(StreamsUsed), z) => y = z
<1> DEFINE k == Hierarchies
           R == Downs(StreamsUsed)
           S == {n \in Nat : n <= k => \A y, z \in f[n] : y \in Reachable(R, z) => y = z}
<1>1. k \in Nat /\ Towards(is_input) = R
    BY SomeHiers DEF Towards
<1>2. PICK level : Levels(level)
    BY NestAssumption DEF Levels, Hierarchies
<1>3. \A n \in 0 .. k : \A y \in f[n] : Usable(y)
    BY <1>2, FoundOnTheWay
<1>4. 0 \in S
    BY <1>1 DEF FoundBy
<1>5. ASSUME NEW n \in Nat, n \in S PROVE n + 1 \in S
    <2> SUFFICES ASSUME n + 1 <= k, NEW y \in f[n + 1], NEW z \in f[n + 1],
                        y \in Reachable(R, z), y # z
                 PROVE  FALSE
        OBVIOUS
    <2>1. n \in 0 .. k - 1 /\ n \in 0 .. k /\ n + 1 \in 0 .. k
        BY <1>1
    <2>2. PICK p \in f[n] : y \in Behind(p, is_input)
        BY <2>1 DEF FoundBy
    <2>3. PICK o \in f[n] : z \in Behind(o, is_input)
        BY <2>1 DEF FoundBy
    <2>4. Usable(p) /\ Usable(o) /\ Usable(z)
        BY <1>3, <2>1
    <2>5. z.block \in Hiers
        <3>1. PICK r \in R : r[1] = z
            BY FirstStep
        <3>2. z.block \notin Leaves
            BY <1>1, <2>4, <3>1, BehindIs
        <3> QED
            BY <2>4, <3>2, UsedIs DEF Usable
    <2>6. o.block \in Hiers
        <3>1. o.block \in Leaves => o = z
            BY <2>3, <2>4, BehindIs
        <3> QED
            BY <2>4, <2>5, <3>1, HierAssumption, UsedIs DEF Usable
    <2>7. PICK a \in R : a[1] = o /\ a[2] = z
        BY <1>1, <2>3, <2>4, <2>6, BehindIs
    <2>8. z \in Reachable(R, o)
        BY <2>7, ReachableIs DEF Keeps
    <2>9. CASE p.block \in Leaves
        <3>1. p = y
            BY <2>2, <2>4, <2>9, BehindIs
        <3>2. y \in Reachable(R, o)
            BY <2>8, ReachableFrom
        <3>3. y = o
            BY <1>5, <2>1, <3>1, <3>2
        <3> QED
            BY <2>6, <2>9, <3>1, <3>3, HierAssumption
    <2>10. CASE p.block \notin Leaves
        <3>1. p.block \in Hiers
            BY <2>4, <2>10, UsedIs DEF Usable
        <3>2. PICK b \in R : b[1] = p /\ b[2] = y
            BY <1>1, <2>2, <2>4, <3>1, BehindIs
        <3>3. PICK c \in R : c[2] = y /\ c[1] \in Reachable(R, z)
            BY LastStep
        <3>4. b = c
            BY <3>2, <3>3, TargetsApart
        <3>5. p \in Reachable(R, z) /\ p \in Reachable(R, o)
            BY <2>8, <3>2, <3>3, <3>4, ReachableFrom
        <3>6. p = o
            BY <1>5, <2>1, <3>5
        <3> QED
            BY <2>7, <3>5, <3>6, NoWayBack
    <2> QED
        BY <2>9, <2>10
<1> HIDE DEF S
<1>6. \A n \in Nat : n \in S
    BY <1>4, <1>5, Induction
<1> QED
    BY <1>1, <1>6 DEF S

LEMMA FoundSingle ==
    ASSUME WiringInv, ~Shared, NEW x, Usable(x), NEW is_input \in BOOLEAN,
           Towards(is_input) = Ups(StreamsUsed), NEW f, FoundBy(f, x, is_input)
    PROVE  \A n \in 0 .. Hierarchies : \A y, z \in f[n] : y = z
<1> DEFINE k == Hierarchies
           R == Ups(StreamsUsed)
           S == {n \in Nat : n <= k => \A y, z \in f[n] : y = z}
<1>1. k \in Nat /\ Towards(is_input) = R
    BY SomeHiers DEF Towards
<1>2. PICK level : Levels(level)
    BY NestAssumption DEF Levels, Hierarchies
<1>3. \A n \in 0 .. k : \A y \in f[n] : Usable(y)
    BY <1>2, FoundOnTheWay
<1>4. 0 \in S
    BY <1>1 DEF FoundBy
<1>5. ASSUME NEW n \in Nat, n \in S PROVE n + 1 \in S
    <2> SUFFICES ASSUME n + 1 <= k, NEW y \in f[n + 1], NEW z \in f[n + 1] PROVE y = z
        OBVIOUS
    <2>1. n \in 0 .. k - 1 /\ n \in 0 .. k
        BY <1>1
    <2>2. PICK p \in f[n] : y \in Behind(p, is_input)
        BY <2>1 DEF FoundBy
    <2>3. PICK o \in f[n] : z \in Behind(o, is_input)
        BY <2>1 DEF FoundBy
    <2>4. p = o /\ Usable(p)
        BY <1>3, <1>5, <2>1
    <2>5. CASE p.block \in Leaves
        BY <2>2, <2>3, <2>4, <2>5, BehindIs
    <2>6. CASE p.block \in Hiers
        <3>1. PICK a \in R : a[1] = p /\ a[2] = y
            BY <1>1, <2>2, <2>4, <2>6, BehindIs
        <3>2. PICK b \in R : b[1] = p /\ b[2] = z
            BY <1>1, <2>3, <2>4, <2>6, BehindIs
        <3> QED
            BY <3>1, <3>2, TargetsApart
    <2> QED
        BY <2>4, <2>5, <2>6, UsedIs DEF Usable
<1> HIDE DEF S
<1>6. \A n \in Nat : n \in S
    BY <1>4, <1>5, Induction
<1> QED
    BY <1>1, <1>6 DEF S

LEMMA BooleansTowards ==
    ASSUME NEW is_input \in BOOLEAN
    PROVE  Towards(is_input) = Downs(StreamsUsed) \/ Towards(is_input) = Ups(StreamsUsed)
BY DEF Towards

LEMMA NotTwice ==
    ASSUME WiringInv, ~Shared, NEW x, Usable(x), NEW is_input \in BOOLEAN
    PROVE  ~resolve_endpoint(x, is_input).twice
<1>1. PICK f : FoundBy(f, x, is_input)
    BY FoundIs
<1>2. PICK level : Levels(level)
    BY NestAssumption DEF Levels, Hierarchies
<1>3. \A n \in 0 .. Hierarchies : \A y \in f[n] : Usable(y)
    BY <1>1, <1>2, FoundOnTheWay
<1>4. ASSUME NEW n \in 0 .. Hierarchies, NEW y \in f[n], NEW z \in f[n], y # z,
             NEW w, w \in Behind(y, is_input), w \in Behind(z, is_input)
      PROVE  FALSE
    <2>1. Usable(y) /\ Usable(z)
        BY <1>3
    <2>2. CASE Towards(is_input) = Ups(StreamsUsed)
        BY <1>1, <1>4, <2>2, FoundSingle
    <2>3. CASE Towards(is_input) = Downs(StreamsUsed)
        <3>1. \A p, q \in f[n] : p \in Reachable(Downs(StreamsUsed), q) => p = q
            BY <1>1, <2>3, FoundApart
        <3>2. \A p \in {y, z} : p.block \in Leaves => p = w
            BY <1>4, <2>1, BehindIs
        <3>3. \A p \in {y, z} : p.block \notin Leaves =>
                \E r \in Downs(StreamsUsed) : r[1] = p /\ r[2] = w
            <4> SUFFICES ASSUME NEW p \in {y, z}, p.block \notin Leaves
                         PROVE  \E r \in Downs(StreamsUsed) : r[1] = p /\ r[2] = w
                OBVIOUS
            <4>1. Usable(p) /\ p.block \in Hiers /\ w \in Behind(p, is_input)
                BY <1>4, <2>1, UsedIs DEF Usable
            <4> QED
                BY <2>3, <4>1, BehindIs
        <3>4. CASE y.block \notin Leaves /\ z.block \notin Leaves
            <4>1. PICK r \in Downs(StreamsUsed) : r[1] = y /\ r[2] = w
                BY <3>3, <3>4
            <4>2. PICK q \in Downs(StreamsUsed) : q[1] = z /\ q[2] = w
                BY <3>3, <3>4
            <4> QED
                BY <1>4, <4>1, <4>2, TargetsApart
        <3>5. ASSUME NEW p \in {y, z}, NEW q \in {y, z}, p # q, p.block \in Leaves PROVE FALSE
            <4>1. p = w
                BY <3>2, <3>5
            <4>2. q.block \notin Leaves
                BY <3>2, <3>5, <4>1
            <4>3. PICK r \in Downs(StreamsUsed) : r[1] = q /\ r[2] = p
                BY <3>3, <4>1, <4>2
            <4>4. p \in Reachable(Downs(StreamsUsed), q)
                BY <4>3, ReachableIs DEF Keeps
            <4> QED
                BY <3>1, <3>5, <4>4
        <3> QED
            BY <1>4, <3>4, <3>5
    <2> QED
        BY <2>2, <2>3, BooleansTowards
<1> QED
    BY <1>1, <1>4 DEF FoundBy

\* What is found has something behind it, if every port that is connected has.
LEMMA NotThrown ==
    ASSUME WiringInv, NEW x, Usable(x), NEW is_input \in BOOLEAN,
           \A r \in Towards(is_input) : Behind(r[2], is_input) # {},
           Behind(x, is_input) # {}
    PROVE  ~resolve_endpoint(x, is_input).threw
<1>1. PICK f : FoundBy(f, x, is_input)
    BY FoundIs
<1>2. PICK level : Levels(level)
    BY NestAssumption DEF Levels, Hierarchies
<1>3. \A n \in 0 .. Hierarchies : \A y \in f[n] : y \in Reachable(Towards(is_input), x)
    BY <1>1, <1>2, FoundOnTheWay
<1>4. ASSUME NEW n \in 0 .. Hierarchies, NEW y \in f[n] PROVE Behind(y, is_input) # {}
    <2>1. CASE y = x
        BY <2>1
    <2>2. CASE y # x
        <3>1. y \in Reachable(Towards(is_input), x)
            BY <1>3
        <3>2. \E r \in Towards(is_input) : r[2] = y
            BY <2>2, <3>1, LastStep
        <3> QED
            BY <3>2
    <2> QED
        BY <2>1, <2>2
<1> QED
    BY <1>1, <1>4 DEF FoundBy

LEMMA EdgesResolve ==
    ASSUME WiringInv, ~Shared, ~Dangling, NEW h \in UsedHiers, NEW e \in InnerEdges(h)
    PROVE  Resolves(e)
<1> DEFINE u == <<h, e>>
<1>1. u \in StreamsUsed /\ u[1] = h /\ u[2] = e /\ e.src.block # h /\ e.dst.block # h
    BY DEF StreamsUsed, InnerEdges
<1> HIDE DEF u
<1>2. Usable(e.src) /\ Usable(e.dst)
    BY <1>1, StreamsAccepted DEF Usable
<1>3. \A v \in StreamsUsed : /\ v[2].src.block # v[1] => Behind(v[2].src, FALSE) # {}
                             /\ v[2].dst.block # v[1] => Behind(v[2].dst, TRUE) # {}
    BY DEF Dangling
<1>4. Behind(e.src, FALSE) # {} /\ Behind(e.dst, TRUE) # {}
    BY <1>1, <1>3
<1>5. \A r \in Towards(TRUE) : Behind(r[2], TRUE) # {}
    <2> SUFFICES ASSUME NEW r \in Downs(StreamsUsed) PROVE Behind(r[2], TRUE) # {}
        BY DEF Towards
    <2>1. PICK v \in StreamsUsed : v[2].src.block = v[1] /\ r = <<Pt(v[2].src), Pt(v[2].dst)>>
        BY DEF Downs
    <2>2. r[2] = v[2].dst /\ v[2].dst.block # v[1]
        BY <2>1, StreamsAccepted
    <2> QED
        BY <1>3, <2>2
<1>6. \A r \in Towards(FALSE) : Behind(r[2], FALSE) # {}
    <2> SUFFICES ASSUME NEW r \in Ups(StreamsUsed) PROVE Behind(r[2], FALSE) # {}
        BY DEF Towards
    <2>1. PICK v \in StreamsUsed : v[2].dst.block = v[1] /\ r = <<Pt(v[2].dst), Pt(v[2].src)>>
        BY DEF Ups
    <2>2. r[2] = v[2].src /\ v[2].src.block # v[1]
        BY <2>1, StreamsAccepted
    <2> QED
        BY <1>3, <2>2
<1>7. ~resolve_endpoint(e.src, FALSE).threw /\ ~resolve_endpoint(e.dst, TRUE).threw
    BY <1>2, <1>4, <1>5, <1>6, NotThrown
<1>8. ~resolve_endpoint(e.src, FALSE).twice /\ ~resolve_endpoint(e.dst, TRUE).twice
    BY <1>2, NotTwice
<1> QED
    BY <1>7, <1>8 DEF Resolves

\* If no two edges end at one place, no two lead to one plain input, and one leads
\* there from one output at most.
LEMMA TargetsDisjoint ==
    ASSUME WiringInv, ~Shared, NEW u \in InnerOf(StreamsUsed), NEW v \in InnerOf(StreamsUsed),
           NEW z, z \in Reachable(Downs(StreamsUsed), Pt(u[2].dst)),
           z \in Reachable(Downs(StreamsUsed), Pt(v[2].dst))
    PROVE  u = v
<1> SUFFICES ASSUME u # v PROVE FALSE
    OBVIOUS
<1> DEFINE R == Downs(StreamsUsed)
           x == Pt(u[2].dst)
           y == Pt(v[2].dst)
           K == Reachable(R, x) \ Reachable(R, y)
<1>1. x # y /\ \A r \in R : r[2] # x /\ r[2] # y
    BY TargetsApart
<1>2. \A r, q \in R : r[2] = q[2] => r = q
    BY TargetsApart
<1> HIDE DEF R, x, y
<1>3. x \in K
    <2>1. x \in Reachable(R, x)
        BY ReachableIs
    <2>2. x \notin Reachable(R, y)
        BY <1>1, LastStep
    <2> QED
        BY <2>1, <2>2
<1>4. ASSUME NEW r \in R, r[1] \in K PROVE r[2] \in K
    <2>1. r[2] \in Reachable(R, x)
        BY <1>4, ReachableIs DEF Keeps
    <2>2. ASSUME r[2] \in Reachable(R, y) PROVE FALSE
        <3>1. PICK q \in R : q[2] = r[2] /\ q[1] \in Reachable(R, y)
            BY <1>1, <2>2, LastStep
        <3> QED
            BY <1>2, <1>4, <3>1
    <2> QED
        BY <2>1, <2>2
<1> HIDE DEF K
<1>5. Reachable(R, x) \subseteq K
    BY <1>3, <1>4, ReachableIs DEF Keeps
<1> QED
    BY <1>5 DEF K, R, x, y

LEMMA OnePlainSource ==
    ASSUME WiringInv, ~Shared, NEW x, Usable(x),
           NEW a \in PlainAt(Ups(StreamsUsed), x), NEW b \in PlainAt(Ups(StreamsUsed), x)
    PROVE  a = b
<1> DEFINE i == FALSE
<1>1. i \in BOOLEAN /\ Towards(i) = Ups(StreamsUsed)
    BY DEF Towards
<1> HIDE DEF i
<1>2. PICK f : FoundBy(f, x, i)
    BY FoundIs
<1>3. f[Hierarchies] = PlainAt(Ups(StreamsUsed), x)
    BY <1>1, <1>2, ResolveIs DEF FoundBy
<1>4. Hierarchies \in 0 .. Hierarchies
    BY SomeHiers
<1> QED
    BY <1>1, <1>2, <1>3, <1>4, FoundSingle

LEMMA CrossingEnds ==
    ASSUME WiringInv, NEW h \in UsedHiers, NEW e \in InnerEdges(h), NEW c \in Crossing(e)
    PROVE  /\ c = [src |-> c.src, dst |-> c.dst] /\ Usable(e.src)
           /\ c.src \in PlainAt(Ups(StreamsUsed), e.src)
           /\ c.dst \in Reachable(Downs(StreamsUsed), Pt(e.dst))
<1> DEFINE u == <<h, e>>
<1>1. u \in StreamsUsed /\ u[1] = h /\ u[2] = e
    BY DEF StreamsUsed, InnerEdges
<1> HIDE DEF u
<1>2. Usable(e.src)
    BY <1>1, StreamsAccepted DEF Usable
<1>3. c \in Spread(StreamsUsed, e)
    BY CrossingIs
<1> DEFINE A == PlainAt(Ups(StreamsUsed), e.src)
           B == PlainAt(Downs(StreamsUsed), e.dst)
<1>4. PICK x \in A \X B : c = Joined(x[1], x[2])
    BY <1>3 DEF Spread
<1>5. Joined(x[1], x[2]) = [src |-> x[1], dst |-> x[2]]
    BY <1>4, PlainArePoints, JoinedParts
<1>6. x[1] \in A /\ x[2] \in B
    <2> HIDE DEF A, B
    <2> QED
        BY <1>4
<1>7. c = [src |-> x[1], dst |-> x[2]]
    BY <1>4, <1>5
<1>8. c = [src |-> c.src, dst |-> c.dst] /\ c.src = x[1] /\ c.dst = x[2]
    BY <1>7
<1> QED
    BY <1>2, <1>6, <1>8 DEF PlainAt

LEMMA EdgesAreTaken ==
    ASSUME WiringInv, NEW s, Tree(s), NEW h, IsNext(s, h), ~Shared, ~Dangling, ~Misfit
    PROVE  EdgesTaken(h, s.edges)
<1>1. h \in UsedHiers /\ h \notin Begun(s) /\ Begun(s) \subseteq UsedHiers
    BY NextIs DEF Tree
<1>2. \A e \in InnerEdges(h) : Resolves(e)
    BY <1>1, EdgesResolve
<1>3. \A c \in flatten_edges(h) : Fits(c)
    <2>1. flatten_edges(h) \subseteq Meaning(StreamsUsed)
        BY <1>1, StreamsAre
    <2> QED
        BY <2>1 DEF Misfit
<1>4. ASSUME NEW g \in UsedHiers, NEW k \in UsedHiers, NEW d \in InnerEdges(g), NEW e \in InnerEdges(k),
             NEW b \in Crossing(d), NEW c \in Crossing(e), b.dst = c.dst
      PROVE  g = k /\ d = e /\ b = c
    <2> DEFINE u == <<g, d>>
               v == <<k, e>>
    <2>1. u \in InnerOf(StreamsUsed) /\ v \in InnerOf(StreamsUsed)
        BY CrossingIs
    <2>2. u[2] = d /\ v[2] = e /\ (u = v => g = k /\ d = e)
        OBVIOUS
    <2> HIDE DEF u, v
    <2>3. /\ b.dst \in Reachable(Downs(StreamsUsed), Pt(u[2].dst))
          /\ b.dst \in Reachable(Downs(StreamsUsed), Pt(v[2].dst))
        BY <1>4, <2>2, CrossingEnds
    <2>4. u = v
        BY <2>1, <2>3, TargetsDisjoint
    <2>5. g = k /\ d = e
        BY <2>2, <2>4
    <2>6. b.src = c.src
        BY <2>5, CrossingEnds, OnePlainSource
    <2>7. b = [src |-> b.src, dst |-> b.dst] /\ c = [src |-> c.src, dst |-> c.dst]
        BY CrossingEnds
    <2> QED
        BY <1>4, <2>5, <2>6, <2>7
<1>5. ASSUME NEW c \in flatten_edges(h), NEW d \in s.edges PROVE d.dst # c.dst
    <2>1. PICK e \in InnerEdges(h) : c \in Crossing(e)
        BY DEF flatten_edges
    <2>2. PICK g \in Begun(s) : d \in flatten_edges(g)
        BY DEF Tree
    <2>3. PICK b \in InnerEdges(g) : d \in Crossing(b)
        BY <2>2 DEF flatten_edges
    <2> QED
        BY <1>1, <1>4, <2>1, <2>2, <2>3
<1>6. \A c \in flatten_edges(h) : Connectable(s.edges, c)
    BY <1>3, <1>5, ConnectableFits
<1> QED
    BY <1>1, <1>2, <1>4, <1>6 DEF EdgesTaken

LEMMA MsgsAreTaken ==
    ASSUME WiringInv, NEW s, Tree(s), NEW h, IsNext(s, h), MsgsSo(s), ~Doubled
    PROVE  MsgsTaken(h, s.msgs)
<1>1. h \in UsedHiers /\ h \in Hiers /\ h \notin Begun(s)
    BY NextIs
<1>2. NoneTwice(d_msg[h]) /\ d_msg[h] \in Seq(MayMsgHave(h))
    BY <1>1 DEF WiringInv
<1>3. Len(d_msg[h]) \in Nat /\ \A n \in 1 .. Len(d_msg[h]) : d_msg[h][n] \in ToSet(d_msg[h]) /\ n \in DOMAIN d_msg[h]
    BY <1>2, ToSetIs
<1> SUFFICES ASSUME NEW n \in 1 .. Len(d_msg[h]), ~Into(h, d_msg[h][n]), ~OutOf(h, d_msg[h][n]),
                    NEW o \in MsgsAfter(h, s.msgs)[n - 1],
                    Same(o.src, d_msg[h][n].src), Same(o.dst, d_msg[h][n].dst)
             PROVE  FALSE
    BY DEF MsgsTaken
<1> DEFINE m == d_msg[h][n]
           u == <<h, m>>
<1>4. m \in ToSet(d_msg[h])
    BY <1>3
<1> HIDE DEF m
<1>5. u \in MsgsUsed /\ u[1] = h /\ u[2] = m
    BY <1>1, <1>4, MsgEdgeIs
<1> HIDE DEF u
<1>6. m.src.block # h /\ m.dst.block # h
    BY <1>5, MsgsAccepted DEF m
<1>7. n - 1 \in 0 .. Len(d_msg[h])
    BY <1>3
<1>8. Ended(Begun(s), s.msgs)
    BY DEF MsgsSo
<1>9. /\ \E v \in MsgsUsed : \/ FromIn(Begun(s), o, v)
                             \/ FromIn({h}, o, v) /\ \E j \in 1 .. n - 1 : v[2] = d_msg[h][j]
      /\ \E v \in MsgsUsed : \/ ToIn(Begun(s), o, v)
                             \/ ToIn({h}, o, v) /\ \E j \in 1 .. n - 1 : v[2] = d_msg[h][j]
    <2>1. \A i \in 0 .. Len(d_msg[h]) : \A x \in MsgsAfter(h, s.msgs)[i] : EndedSoFar(Begun(s), h, i, x)
        <3> DEFINE F == Begun(s)
                   M == s.msgs
        <3>1. Ended(F, M)
            BY <1>8
        <3> HIDE DEF F, M
        <3>2. \A i \in 0 .. Len(d_msg[h]) : \A x \in MsgsAfter(h, M)[i] : EndedSoFar(F, h, i, x)
            BY <1>1, <3>1, StillEnded
        <3> QED
            BY <3>2 DEF F, M
    <2>2. EndedSoFar(Begun(s), h, n - 1, o)
        BY <1>7, <2>1
    <2> QED
        BY <2>2 DEF EndedSoFar
<1>10. \A j \in 1 .. n - 1 : d_msg[h][j] # m
    <2> SUFFICES ASSUME NEW j \in 1 .. n - 1 PROVE d_msg[h][j] # d_msg[h][n]
        BY DEF m
    <2>1. j \in 1 .. Len(d_msg[h]) /\ j # n
        BY <1>3
    <2> QED
        BY <1>2, <1>3, <2>1 DEF NoneTwice
<1>11. \A x, y : Same(x, y) => End(x, TRUE) = End(y, TRUE) /\ End(x, FALSE) = End(y, FALSE)
    BY DEF Same, End
<1>12. SourceOf(u) = End(m.src, TRUE) /\ TargetOf(u) = End(m.dst, FALSE)
    <2>1. (m.src.block # h) = TRUE /\ (m.dst.block = h) = FALSE
        BY <1>6
    <2> QED
        BY <1>5, <2>1 DEF SourceOf, TargetOf
<1>13. PICK v \in MsgsUsed : v # u /\ SourceOf(v) = End(o.src, TRUE)
    <2>1. PICK v \in MsgsUsed : \/ FromIn(Begun(s), o, v)
                                \/ FromIn({h}, o, v) /\ \E j \in 1 .. n - 1 : v[2] = d_msg[h][j]
        BY <1>9
    <2>2. v # u
        BY <1>1, <1>5, <1>10, <2>1 DEF FromIn
    <2>3. v[2].src = o.src /\ v[2].src.block # v[1]
        BY <2>1 DEF FromIn
    <2>4. (v[2].src.block # v[1]) = TRUE
        BY <2>3
    <2>5. SourceOf(v) = End(o.src, TRUE)
        BY <2>3, <2>4 DEF SourceOf
    <2> QED
        BY <2>2, <2>5
<1>14. PICK w \in MsgsUsed : w # u /\ TargetOf(w) = End(o.dst, FALSE)
    <2>1. PICK w \in MsgsUsed : \/ ToIn(Begun(s), o, w)
                                \/ ToIn({h}, o, w) /\ \E j \in 1 .. n - 1 : w[2] = d_msg[h][j]
        BY <1>9
    <2>2. w # u
        BY <1>1, <1>5, <1>10, <2>1 DEF ToIn
    <2>3. w[2].dst = o.dst /\ w[2].dst.block # w[1]
        BY <2>1 DEF ToIn
    <2>4. (w[2].dst.block = w[1]) = FALSE
        BY <2>3
    <2>5. TargetOf(w) = End(o.dst, FALSE)
        BY <2>3, <2>4 DEF TargetOf
    <2> QED
        BY <2>2, <2>5
<1>15. SourceOf(u) = SourceOf(v) /\ TargetOf(u) = TargetOf(w)
    BY <1>11, <1>12, <1>13, <1>14 DEF m
<1> QED
    BY <1>5, <1>13, <1>14, <1>15 DEF Doubled

\* What holds after every call.
Holds(s) ==
    /\ Tree(s) /\ Top \in Begun(s)
    /\ s.threw => Reason
    /\ ~s.threw =>
          /\ Taken(s)
          /\ s.path # <<>> => MsgsSo(s)
          /\ s.path = <<>> => /\ Begun(s) = UsedHiers
                              /\ Parented => LeafPairs(s.msgs) = Meaning(MsgsUsed)

Done(s) == s.threw \/ s.path = <<>>

CountedTo(s, n) == Done(s) \/ n + 2 * Cardinality(s.white) + Len(s.path) = 2 * Hierarchies - 1

LEMMA EnterHolds ==
    ASSUME WiringInv, NEW s, Tree(s), NEW h, IsNext(s, h), Taken(s), MsgsSo(s)
    PROVE  Holds(Entering(s, h))
<1> DEFINE t == Entering(s, h)
<1>1. Tree(t) /\ Begun(t) = Begun(s) \cup {h} /\ h \in UsedHiers
    BY TreeGrows, NextIs
<1>2. Top \in Begun(t)
    <2>1. CASE h = Top
        BY <1>1, <2>1
    <2>2. CASE s.path # <<>>
        <3>1. s.path \in Seq(Hiers) /\ \A i \in 1 .. Len(s.path) : s.path[i] \in Begun(s)
            BY DEF Tree
        <3>2. Begun(s) # {}
            BY <2>2, <3>1, Ends
        <3>3. PICK b \in Begun(s) : TRUE
            BY <3>2
        <3> DEFINE T == Hiers \ Begun(s)
        <3>4. ASSUME Top \notin Begun(s) PROVE FALSE
            <4>1. PICK level : Levels(level)
                BY NestAssumption DEF Levels, Hierarchies
            <4>2. \A k \in Begun(s) : \E g \in Begun(s) : level[g] < level[k] /\ level[g] \in Nat /\ level[k] \in Nat
                <5> SUFFICES ASSUME NEW k \in Begun(s)
                             PROVE  \E g \in Begun(s) : level[g] < level[k] /\ level[g] \in Nat /\ level[k] \in Nat
                    OBVIOUS
                <5>1. PICK g \in Begun(s) : k \in Children(g)
                    BY <3>4 DEF Tree
                <5>2. g \in Hiers /\ k \in Hiers
                    BY DEF Begun
                <5>3. k \in Within(g)
                    BY <5>1, <5>2, ChildrenWithin
                <5> QED
                    BY <4>1, <5>2, <5>3, SomeHiers DEF Levels
            <4> DEFINE L == {level[k] : k \in Begun(s)}
            <4>3. L \subseteq Nat /\ L # {}
                BY <3>3, <4>2
            <4>4. \A l \in L : \E m \in L : m < l
                BY <4>2
            <4> HIDE DEF L
            <4>5. Min(L) \in L /\ \A y \in L : Min(L) <= y
                BY <4>3, LeastIs
            <4> DEFINE l == Min(L)
            <4>6. l \in L /\ \A y \in L : l <= y
                BY <4>5
            <4> HIDE DEF l
            <4>7. PICK m \in L : m < l
                BY <4>4, <4>6
            <4>8. m \in Nat /\ l \in Nat /\ l <= m
                BY <4>3, <4>6, <4>7
            <4> QED
                BY <4>7, <4>8
        <3> QED
            BY <1>1, <3>4
    <2> QED
        BY <2>1, <2>2 DEF IsNext
<1>3. t.path # <<>>
    <2>1. s.path \in Seq(Hiers) /\ h \in Hiers /\ t.path = Append(s.path, h)
        BY <1>1, EnteringIs, UsedIs DEF Tree
    <2> QED
        BY <2>1, Longer
<1>4. ASSUME t.threw PROVE Reason
    <2>1. ~(EdgesTaken(h, s.edges) /\ MsgsTaken(h, s.msgs) /\ PortsConnected(h))
        BY <1>4, EnteringIs
    <2> QED
        BY <1>1, <2>1, EdgesAreTaken, MsgsAreTaken DEF Reason, Unconnected
<1>5. ~t.threw => Taken(t)
    BY TakenGrows
<1>6. MsgsSo(t)
    BY MsgsGrow
<1> HIDE DEF t
<1> QED
    BY <1>1, <1>2, <1>3, <1>4, <1>5, <1>6 DEF Holds, t

LEMMA LeaveHolds ==
    ASSUME WiringInv, NEW s, Holds(s), ~Done(s), Children(Last(s.path)) \cap s.white = {}
    PROVE  Holds(Leaving(s)) /\ ~Leaving(s).threw
<1> DEFINE t == Leaving(s)
           top == Last(s.path)
<1>1. /\ Tree(s) /\ Top \in Begun(s) /\ s.path # <<>> /\ ~s.threw
      /\ Taken(s) /\ MsgsSo(s) /\ s.path \in Seq(Hiers)
    BY DEF Holds, Done, Tree
<1>2. Tree(t) /\ Begun(t) = Begun(s)
    BY <1>1, TreeShrinks
<1>3. /\ t.path = Front(s.path) /\ t.edges = s.edges /\ t.threw = s.threw
      /\ t.msgs = IF parent[top] = None THEN clear_hier(s.msgs) ELSE s.msgs
    BY FlatteningParts DEF Leaving
<1> HIDE DEF t
<1>4. /\ Len(s.path) \in Nat /\ Len(s.path) > 0 /\ top = s.path[Len(s.path)] /\ top \in Hiers
      /\ Len(t.path) = Len(s.path) - 1 /\ t.path \in Seq(Hiers)
    BY <1>1, <1>3, Ends
<1>5. top \in Begun(s) /\ Begun(s) \subseteq UsedHiers /\ (t.path # <<>> => top # Top)
    <2>1. Len(s.path) \in 1 .. Len(s.path) /\ (t.path # <<>> => Len(s.path) \in 2 .. Len(s.path))
        BY <1>4
    <2> QED
        BY <1>1, <1>4, <2>1 DEF Tree
<1> HIDE DEF top
<1>6. t.msgs \subseteq s.msgs /\ Ended(Begun(s), s.msgs)
    BY <1>1, <1>3 DEF clear_hier, MsgsSo
<1>7. Taken(t)
    BY <1>1, <1>2, <1>3 DEF Taken
<1>8. CASE t.path # <<>>
    <2>1. Ended(Begun(t), t.msgs)
        BY <1>2, <1>6 DEF Ended
    <2>2. Parented => t.msgs = s.msgs
        BY <1>3, <1>5, <1>8 DEF Parented
    <2>3. Parented => Led(Begun(t), t.msgs)
        BY <1>1, <1>2, <2>2 DEF MsgsSo
    <2> QED
        BY <1>1, <1>2, <1>3, <1>7, <1>8, <2>1, <2>3 DEF Holds, MsgsSo, t
<1>9. CASE t.path = <<>>
    <2>1. Begun(t) = UsedHiers
        <3>1. Begun(s) \in SUBSET Hiers /\ \A b \in Begun(s) : Children(b) \subseteq Hiers
            BY ChildrenWithin DEF Begun
        <3>2. \A b \in Begun(s) : ~On(t.path, b)
            BY <1>9 DEF On
        <3>3. t.white = s.white
            BY FlatteningParts DEF Leaving, t
        <3>4. \A b \in Begun(s) : Children(b) \subseteq Begun(s)
            BY <1>2, <3>1, <3>2, <3>3 DEF Tree, Begun
        <3> QED
            BY <1>1, <1>2, <1>5, <3>1, <3>4, UsedIs
    <2>2. Parented => LeafPairs(s.msgs) = Meaning(MsgsUsed)
        BY <1>1, <1>2, <1>6, <2>1, LedToTheEnd DEF MsgsSo
    <2>3. LeafPairs(t.msgs) = LeafPairs(s.msgs)
        <3>1. ASSUME NEW n \in s.msgs, BetweenLeaves(n) PROVE ~n.src.is_hier /\ ~n.dst.is_hier
            <4>1. PICK v \in MsgsUsed : n.src = v[2].src
                BY <1>6 DEF Ended, FromIn
            <4>2. PICK w \in MsgsUsed : n.dst = w[2].dst
                BY <1>6 DEF Ended, ToIn
            <4>3. n.src.block \notin Hiers /\ n.dst.block \notin Hiers
                BY <3>1, HierAssumption DEF BetweenLeaves
            <4> QED
                BY <4>1, <4>2, <4>3, MsgsAccepted
        <3>2. \A n \in s.msgs : BetweenLeaves(n) => n \in t.msgs
            BY <1>3, <3>1 DEF clear_hier
        <3> QED
            BY <1>6, <3>2 DEF LeafPairs
    <2> QED
        BY <1>1, <1>2, <1>3, <1>7, <1>9, <2>1, <2>2, <2>3 DEF Holds, t
<1> QED
    BY <1>1, <1>3, <1>8, <1>9 DEF t

LEMMA CallHolds ==
    ASSUME WiringInv, NEW s, Holds(s), NEW n \in Nat, CountedTo(s, n)
    PROVE  Holds(flatten_aux(s)) /\ CountedTo(flatten_aux(s), n + 1)
<1> DEFINE t == flatten_aux(s)
<1>1. CASE Done(s)
    <2>1. t = s
        BY <1>1 DEF flatten_aux, Done
    <2> QED
        BY <1>1, <2>1 DEF CountedTo
<1>2. CASE ~Done(s)
    <2> DEFINE next == Children(Last(s.path)) \cap s.white
    <2>1. /\ Tree(s) /\ s.path # <<>> /\ ~s.threw /\ s.path \in Seq(Hiers) /\ s.white \subseteq Hiers
          /\ Taken(s) /\ MsgsSo(s) /\ Top \in Begun(s)
        BY <1>2 DEF Done, Tree, Holds
    <2>2. t = IF next # {} THEN Entering(s, Min(next)) ELSE Leaving(s)
        BY <1>2 DEF flatten_aux, Done, recurse
    <2>3. IsFiniteSet(s.white) /\ Cardinality(s.white) \in Nat
        BY <2>1, HierAssumption, FS_Subset, FS_CardinalityType
    <2> DEFINE all == 2 * Hierarchies - 1
    <2>4. n + 2 * Cardinality(s.white) + Len(s.path) = all /\ all \in Nat
        BY <1>2, SomeHiers DEF CountedTo
    <2> HIDE DEF t, all
    <2>5. CASE next # {}
        <3> DEFINE h == Min(next)
        <3>1. next \subseteq Nat
            BY <2>1, HierAssumption
        <3>2. h \in next
            <4> HIDE DEF next
            <4> QED
                BY <2>5, <3>1, LeastIs
        <3>3. Last(s.path) \in Begun(s)
            <4>1. /\ Len(s.path) \in Nat /\ Len(s.path) > 0 /\ Last(s.path) = s.path[Len(s.path)]
                  /\ Len(s.path) \in 1 .. Len(s.path)
                <5>1. Len(s.path) \in Nat /\ Len(s.path) > 0 /\ Last(s.path) = s.path[Len(s.path)]
                    BY <2>1, Ends
                <5> QED
                    BY <5>1
            <4> QED
                BY <2>1, <4>1 DEF Tree
        <3> HIDE DEF h
        <3>4. IsNext(s, h)
            <4>1. h # Top
                BY <2>1, <3>2 DEF Begun
            <4> QED
                BY <2>1, <3>2, <3>3, <4>1 DEF IsNext
        <3>5. t = Entering(s, h)
            BY <2>2, <2>5 DEF h
        <3>6. Holds(t)
            BY <2>1, <3>4, <3>5, EnterHolds
        <3>7. t.path = Append(s.path, h) /\ t.white = s.white \ {h} /\ h \in s.white /\ h \in Hiers
            BY <2>1, <3>2, <3>5, EnteringIs
        <3>8. n + 1 + 2 * Cardinality(t.white) + Len(t.path) = all
            <4> DEFINE w == s.white
                       p == s.path
            <4>1. IsFiniteSet(w) /\ h \in w /\ p \in Seq(Hiers) /\ n + 2 * Cardinality(w) + Len(p) = all
                BY <2>1, <2>3, <2>4, <3>7
            <4> HIDE DEF w, p
            <4>2. n + 1 + 2 * Cardinality(w \ {h}) + Len(Append(p, h)) = all
                BY <2>4, <4>1, CountEntered
            <4> QED
                BY <3>7, <4>2 DEF w, p
        <3> QED
            BY <3>6, <3>8 DEF CountedTo, t, all
    <2>6. CASE next = {}
        <3>1. t = Leaving(s)
            BY <2>2, <2>6
        <3>2. Holds(t)
            BY <1>2, <2>6, <3>1, LeaveHolds
        <3>3. t.path = Front(s.path) /\ t.white = s.white
            BY <3>1, FlatteningParts DEF Leaving
        <3>4. n + 1 + 2 * Cardinality(t.white) + Len(t.path) = all
            BY <2>1, <2>3, <2>4, <3>3, CountLeft
        <3> QED
            BY <3>2, <3>4 DEF CountedTo, t, all
    <2> QED
        BY <2>5, <2>6
<1> QED
    BY <1>1, <1>2

LEMMA FirstCall ==
    ASSUME WiringInv
    PROVE  LET t == Entering(Flattening(<<>>, Hiers, {}, {}, FALSE), Top)
           IN  Holds(t) /\ CountedTo(t, 0)
<1> DEFINE s == Flattening(<<>>, Hiers, {}, {}, FALSE)
<1>1. s.path = <<>> /\ s.white = Hiers /\ s.edges = {} /\ s.msgs = {}
    BY DEF Flattening
<1> HIDE DEF s
<1>2. Begun(s) = {}
    BY <1>1 DEF Begun
<1>3. <<>> \in Seq(Hiers) /\ Len(<<>>) = 0
    OBVIOUS
<1>4. Tree(s)
    BY <1>1, <1>2, <1>3 DEF Tree
<1>5. IsNext(s, Top)
    BY <1>1, HierAssumption DEF IsNext
<1>6. Taken(s)
    BY <1>1, <1>2 DEF Taken, Single
<1>7. MsgsSo(s)
    <2>1. Ended({}, {})
        BY DEF Ended
    <2>2. Led({}, {})
        BY DEF Led, AllSpread, EdgesOf
    <2> QED
        BY <1>1, <1>2, <2>1, <2>2 DEF MsgsSo
<1> DEFINE t == Entering(s, Top)
<1>8. Holds(t)
    BY <1>4, <1>5, <1>6, <1>7, EnterHolds
<1>9. t.path = Append(<<>>, Top) /\ t.white = Hiers \ {Top}
    BY <1>1, EnteringIs
<1> HIDE DEF t
<1>10. Cardinality(Hiers \ {Top}) = Hierarchies - 1 /\ Hierarchies \in Nat
    BY HierAssumption, FS_RemoveElement, SomeHiers DEF Hierarchies
<1>11. Len(t.path) = 1
    BY <1>9
<1>12. CountedTo(t, 0)
    <2>1. 0 + 2 * (Hierarchies - 1) + 1 = 2 * Hierarchies - 1
        BY <1>10
    <2> QED
        BY <1>9, <1>10, <1>11, <2>1 DEF CountedTo
<1> QED
    BY <1>8, <1>12 DEF t, s

\* flatten returns when the first call has, and its result is as the calls leave it.
LEMMA FlattenHolds ==
    ASSUME WiringInv
    PROVE  Holds(flatten) /\ Done(flatten)
<1> DEFINE k == 2 * Cardinality(Hiers)
           start == Entering(Flattening(<<>>, Hiers, {}, {}, FALSE), Top)
           f == CHOOSE f : CallsOf("calls", 0, start, k, f)
<1>1. k \in Nat /\ k = 2 * Hierarchies
    BY SomeHiers DEF Hierarchies
<1>2. CallsOf("calls", 0, start, k, f)
    <2>1. \E g : CallsOf("calls", 0, start, k, g)
        BY <1>1, CallsExist
    <2> QED
        BY <2>1
<1>3. flatten = f[k]
    BY DEF flatten, CallsOf, OneCall
<1> HIDE DEF k, f
<1>4. f[0] = start /\ \A n \in 1 .. k : f[n] = OneCall("calls", 0, n, f[n - 1])
    <2> HIDE DEF start
    <2>1. CallByCall("calls", 0, start, k, f)
        BY <1>1, <1>2, CallsAre
    <2> QED
        BY <2>1 DEF CallByCall
<1>5. ASSUME NEW n \in 0 .. k - 1 PROVE f[n + 1] = flatten_aux(f[n])
    <2>1. n + 1 \in 1 .. k /\ n + 1 - 1 = n
        BY <1>1
    <2>2. f[n + 1] = OneCall("calls", 0, n + 1, f[n])
        BY <1>4, <2>1
    <2> QED
        BY <2>2 DEF OneCall
<1>6. Holds(f[0]) /\ CountedTo(f[0], 0)
    BY <1>4, FirstCall
<1> HIDE DEF start
<1> DEFINE S == {n \in Nat : n <= k => Holds(f[n]) /\ CountedTo(f[n], n)}
<1>7. 0 \in S
    BY <1>6
<1>8. ASSUME NEW n \in Nat, n \in S PROVE n + 1 \in S
    <2> SUFFICES ASSUME n + 1 <= k PROVE Holds(f[n + 1]) /\ CountedTo(f[n + 1], n + 1)
        OBVIOUS
    <2>1. n \in 0 .. k - 1 /\ n <= k
        BY <1>1
    <2> QED
        BY <1>5, <1>8, <2>1, CallHolds
<1> HIDE DEF S
<1>9. k \in S
    BY <1>1, <1>7, <1>8, Induction
<1>10. Holds(f[k]) /\ CountedTo(f[k], k)
    BY <1>1, <1>9 DEF S
<1>11. Done(f[k])
    <2> SUFFICES ASSUME ~Done(f[k]) PROVE FALSE
        OBVIOUS
    <2>1. k + 2 * Cardinality(f[k].white) + Len(f[k].path) = k - 1
        BY <1>1, <1>10 DEF CountedTo
    <2>2. Cardinality(f[k].white) \in Nat
        <3>1. f[k].white \subseteq Hiers
            BY <1>10 DEF Holds, Tree
        <3> QED
            BY <3>1, HierAssumption, FS_Subset, FS_CardinalityType
    <2>3. Len(f[k].path) \in Nat
        BY <1>10 DEF Holds, Tree
    <2> QED
        BY <1>1, <2>1, <2>2, <2>3
<1> QED
    BY <1>3, <1>10, <1>11

-----------------------------------------------------------------------------
(* Every state.                                                              *)

LEMMA FlattenIs ==
    ASSUME WiringInv
    PROVE  /\ ThrowsForReason /\ ThrowsIfWrong
           /\ ~flatten.threw => /\ flatten.edges = Meaning(StreamsUsed)
                                /\ Parented => LeafPairs(flatten.msgs) = Meaning(MsgsUsed)
<1> DEFINE s == flatten
<1>1. Holds(s) /\ Done(s)
    BY FlattenHolds
<1>2. ThrowsForReason <=> (s.threw => Reason)
    BY DEF ThrowsForReason, Reason, Unconnected, Dangling, Misfit, Shared, Doubled
<1> DEFINE Wrong == \/ \E h \in UsedHiers : ~PortsConnected(h)
                    \/ \E e \in Meaning(StreamsUsed) : ~Fits(e)
                    \/ \E d, e \in Meaning(StreamsUsed) : d.dst = e.dst /\ d # e
<1>3. ThrowsIfWrong <=> (Wrong => s.threw)
    BY DEF ThrowsIfWrong
<1> HIDE DEF s
<1>4. ASSUME ~s.threw
      PROVE  /\ s.edges = Meaning(StreamsUsed) /\ ~Wrong
             /\ Parented => LeafPairs(s.msgs) = Meaning(MsgsUsed)
    <2>1. Begun(s) = UsedHiers /\ Tree(s) /\ Taken(s)
        BY <1>1, <1>4 DEF Holds, Done
    <2>2. s.edges = Meaning(StreamsUsed)
        BY <2>1, StreamsAre DEF Tree
    <2>3. ~Wrong
        BY <2>1, <2>2 DEF Taken, Single
    <2>4. Parented => LeafPairs(s.msgs) = Meaning(MsgsUsed)
        BY <1>1, <1>4 DEF Holds, Done
    <2> QED
        BY <2>2, <2>3, <2>4
<1>5. s.threw => Reason
    BY <1>1 DEF Holds
<1> HIDE DEF Wrong
<1> QED
    BY <1>2, <1>3, <1>4, <1>5 DEF s

Running ==
    hstate = "running" =>
        /\ flat.edges = Meaning(StreamsUsed)
        /\ Parented => LeafPairs(flat.msgs) = Meaning(MsgsUsed)
        /\ flat.msgs \subseteq subs

LEMMA RunningIs ==
    ASSUME WiringInv, Running
    PROVE  Flattened
<1>1. StreamsFlattened /\ EdgesSubscribed
    BY DEF Running, StreamsFlattened, EdgesSubscribed
<1>2. MessagesFlattened
    BY DEF Running, MessagesFlattened, Parented, LeafPairs
<1> QED
    BY <1>1, <1>2, FlattenIs DEF Flattened

\* The edges that a program may make, and the blocks at them.
LEMMA MayMake ==
    /\ \A x \in MayWire : x[1] \in Hiers /\ x[2] \in MayHave(x[1])
    /\ \A x \in MayMsgWire :
          /\ x[1] \in Hiers /\ x[2] \in MayMsgHave(x[1])
          /\ {x[2].src.block, x[2].dst.block} \subseteq Hiers \cup Leaves
    /\ \A x \in MayHold : x[1] \in Hiers /\ x[2] \in Hiers \cup Leaves
    /\ \A x \in MayHold : x[2] \in Hiers \ {x[1]} => x[2] \in Within(x[1])
    /\ \A h \in Hiers : \A m \in MayMsgHave(h) : \A b \in {m.src.block, m.dst.block} :
          b \in Hiers \ {h} => b \in Within(h)
<1>1. \A x \in MayWire : x[1] \in Hiers /\ x[2] \in MayHave(x[1])
    BY WiringAssumption DEF MayHave
<1>2. \A x \in MayMsgWire : x[1] \in Hiers /\ x[2] \in MayMsgHave(x[1])
    BY WiringAssumption DEF MayMsgHave
<1>3. \A x \in MayMsgWire : {x[2].src.block, x[2].dst.block} \subseteq Hiers \cup Leaves
    BY <1>2, WiringAssumption
<1>4. \A x \in MayHold : x[1] \in Hiers /\ x[2] \in Hiers \cup Leaves
    BY WiringAssumption
<1>5. ASSUME NEW x \in MayHold, x[2] \in Hiers \ {x[1]} PROVE x[2] \in Within(x[1])
    <2> DEFINE A == {y[2] : y \in {z \in MayHold : z[1] = x[1]}}
    <2>1. x[2] \in A
        OBVIOUS
    <2>2. A \cap (Hiers \ {x[1]}) \subseteq Within(x[1])
        BY DEF Within
    <2> HIDE DEF A
    <2> QED
        BY <1>5, <2>1, <2>2
<1>6. ASSUME NEW h \in Hiers, NEW m \in MayMsgHave(h), NEW b \in {m.src.block, m.dst.block}, b \in Hiers \ {h}
      PROVE  b \in Within(h)
    <2> DEFINE A == UNION {{n.src.block, n.dst.block} : n \in MayMsgHave(h)}
    <2>1. b \in A
        OBVIOUS
    <2>2. A \cap (Hiers \ {h}) \subseteq Within(h)
        BY DEF Within
    <2> HIDE DEF A
    <2> QED
        BY <1>6, <2>1, <2>2
<1> QED
    BY <1>1, <1>2, <1>3, <1>4, <1>5, <1>6

LEMMA WiredFirst ==
    ASSUME HInit
    PROVE  WiringInv
<1>1. DOMAIN d_fg = Hiers /\ DOMAIN d_msg = Hiers /\ d_fg = Wired /\ d_msg = MsgWired
    BY WiringAssumption DEF HInit
<1>2. ASSUME NEW h \in Hiers
      PROVE  /\ d_fg[h] \subseteq MayHave(h) /\ d_msg[h] \in Seq(MayMsgHave(h)) /\ NoneTwice(d_msg[h])
             /\ ToSet(MsgWired[h]) \subseteq MayMsgHave(h)
    <2>1. d_fg[h] \subseteq MayHave(h)
        BY <1>1 DEF MayHave
    <2>2. MsgWired[h] \in Seq(UNION {MayMsgHave(g) : g \in Hiers})
        BY WiringAssumption
    <2>3. ToSet(MsgWired[h]) \subseteq MayMsgHave(h)
        BY DEF MayMsgHave
    <2>4. \A i \in 1 .. Len(MsgWired[h]) : MsgWired[h][i] \in MayMsgHave(h)
        <3> DEFINE T == UNION {MayMsgHave(g) : g \in Hiers}
                   p == MsgWired[h]
        <3>1. p \in Seq(T)
            BY <2>2
        <3> HIDE DEF T, p
        <3>2. \A i \in 1 .. Len(p) : p[i] \in ToSet(p)
            BY <3>1, ToSetIs
        <3> QED
            BY <2>3, <3>2 DEF p
    <2>5. MsgWired[h] \in Seq(MayMsgHave(h))
        <3> DEFINE T == UNION {MayMsgHave(g) : g \in Hiers}
                   U == MayMsgHave(h)
                   p == MsgWired[h]
        <3>1. p \in Seq(T) /\ \A i \in 1 .. Len(p) : p[i] \in U
            BY <2>2, <2>4
        <3> HIDE DEF T, U, p
        <3>2. p \in Seq(U)
            BY <3>1
        <3> QED
            BY <3>2 DEF U, p
    <2>6. NoneTwice(MsgWired[h])
        BY WiringAssumption DEF NoneTwice
    <2> QED
        BY <1>1, <2>1, <2>3, <2>5, <2>6
<1>3. d_blocks = [h \in Hiers |-> [b \in Hiers \cup Leaves |->
          LET ends == {m \in ToSet(MsgWired[h]) : b \in {m.src.block, m.dst.block}}
          IN  IF ends = {} THEN 0 ELSE 1]]
    BY DEF HInit
<1>4. d_blocks \in [Hiers -> [Hiers \cup Leaves -> Int]]
    BY <1>3
<1>5. ASSUME NEW h \in Hiers, NEW b \in Hiers \ {h}, d_blocks[h][b] > 0 PROVE b \in Within(h)
    <2>1. {m \in ToSet(MsgWired[h]) : b \in {m.src.block, m.dst.block}} # {}
        BY <1>3, <1>5
    <2> QED
        BY <1>2, <2>1, MayMake
<1> QED
    BY <1>1, <1>2, <1>4, <1>5 DEF WiringInv

LEMMA AddedOnce ==
    ASSUME NEW T, NEW s \in Seq(T), NoneTwice(s), NEW m \in T, m \notin ToSet(s)
    PROVE  Append(s, m) \in Seq(T) /\ NoneTwice(Append(s, m))
<1> DEFINE t == Append(s, m)
<1>1. /\ t \in Seq(T) /\ Len(t) = Len(s) + 1 /\ Len(s) \in Nat /\ t[Len(s) + 1] = m
      /\ \A i \in 1 .. Len(s) : t[i] = s[i]
    BY Longer
<1>2. DOMAIN t = 1 .. Len(s) + 1 /\ DOMAIN s = 1 .. Len(s) /\ \A i \in 1 .. Len(s) : s[i] # m
    BY <1>1, ToSetIs
<1>3. \A i \in 1 .. Len(s) + 1 : i \in 1 .. Len(s) \/ i = Len(s) + 1
    BY <1>1
<1> HIDE DEF t
<1>4. NoneTwice(t)
    BY <1>1, <1>2, <1>3 DEF NoneTwice
<1> QED
    BY <1>1, <1>4 DEF t

LEMMA RemovedOnce ==
    ASSUME NEW T, NEW s \in Seq(T), NoneTwice(s), NEW k \in DOMAIN s
    PROVE  RemoveAt(s, k) \in Seq(T) /\ NoneTwice(RemoveAt(s, k))
<1> DEFINE l == Len(s)
           a == SubSeq(s, 1, k - 1)
           b == SubSeq(s, k + 1, l)
           t == RemoveAt(s, k)
<1>1. l \in Nat /\ k \in 1 .. l /\ DOMAIN s = 1 .. l
    OBVIOUS
<1>2. a \in Seq(T) /\ Len(a) = k - 1 /\ \A i \in 1 .. k - 1 : a[i] = s[i]
    BY <1>1
<1>3. b \in Seq(T) /\ Len(b) = l - k /\ \A i \in 1 .. l - k : b[i] = s[k + i]
    BY <1>1
<1>4. t = a \o b
    BY DEF RemoveAt
<1> HIDE DEF a, b, t, l
<1>5. t \in Seq(T) /\ Len(t) = l - 1 /\ \A i \in 1 .. l - 1 : t[i] = IF i <= k - 1 THEN a[i] ELSE b[i - (k - 1)]
    <2>1. l - 1 = (k - 1) + (l - k)
        BY <1>1
    <2> QED
        BY <1>1, <1>2, <1>3, <1>4, <2>1
<1>6. \A i \in 1 .. l - 1 : t[i] = IF i < k THEN s[i] ELSE s[i + 1]
    <2> SUFFICES ASSUME NEW i \in 1 .. l - 1 PROVE t[i] = IF i < k THEN s[i] ELSE s[i + 1]
        OBVIOUS
    <2>1. CASE i < k
        BY <1>1, <1>2, <1>5, <2>1
    <2>2. CASE ~(i < k)
        <3>1. ~(i <= k - 1) /\ i - (k - 1) \in 1 .. l - k /\ k + (i - (k - 1)) = i + 1
            BY <1>1, <2>2
        <3> QED
            BY <1>3, <1>5, <2>2, <3>1
    <2> QED
        BY <2>1, <2>2
<1>7. ASSUME NEW i \in 1 .. l - 1, NEW j \in 1 .. l - 1, t[i] = t[j] PROVE i = j
    <2> DEFINE from(x) == IF x < k THEN x ELSE x + 1
    <2>1. from(i) \in 1 .. l /\ from(j) \in 1 .. l /\ t[i] = s[from(i)] /\ t[j] = s[from(j)]
        BY <1>1, <1>6
    <2>2. from(i) = from(j)
        <3> HIDE DEF from
        <3> QED
            BY <1>1, <1>7, <2>1 DEF NoneTwice
    <2> QED
        BY <1>1, <2>2
<1>8. DOMAIN t = 1 .. l - 1
    BY <1>5
<1> QED
    BY <1>5, <1>7, <1>8 DEF NoneTwice, t

\* Each call of a program leaves the wiring as connect() accepts it.
LEMMA BlocksHeld ==
    ASSUME WiringInv, NEW h \in Hiers, NEW bs, bs \subseteq Hiers \cup Leaves,
           bs \cap (Hiers \ {h}) \subseteq Within(h), NEW f \in [Hiers \cup Leaves -> Int],
           \A b \in (Hiers \cup Leaves) \ bs : f[b] > 0 => d_blocks[h][b] > 0,
           d_blocks' = [d_blocks EXCEPT ![h] = f]
    PROVE  /\ d_blocks' \in [Hiers -> [Hiers \cup Leaves -> Int]]
           /\ \A g \in Hiers : \A b \in Hiers \ {g} : d_blocks'[g][b] > 0 => b \in Within(g)
<1> DEFINE d == d_blocks'
<1>1. d_blocks \in [Hiers -> [Hiers \cup Leaves -> Int]]
    BY DEF WiringInv
<1>2. d \in [Hiers -> [Hiers \cup Leaves -> Int]] /\ d[h] = f /\ \A g \in Hiers \ {h} : d[g] = d_blocks[g]
    BY <1>1
<1> HIDE DEF d
<1>3. ASSUME NEW g \in Hiers, NEW b \in Hiers \ {g}, d[g][b] > 0 PROVE b \in Within(g)
    <2>1. CASE g # h
        BY <1>2, <1>3, <2>1 DEF WiringInv
    <2>2. CASE g = h /\ b \in bs
        BY <2>2
    <2>3. CASE g = h /\ b \notin bs
        <3>1. d_blocks[h][b] > 0
            BY <1>2, <1>3, <2>3
        <3> QED
            BY <2>3, <3>1 DEF WiringInv
    <2> QED
        BY <2>1, <2>2, <2>3
<1> QED
    BY <1>2, <1>3 DEF d

LEMMA ConnectKeeps ==
    ASSUME WiringInv, NEW x \in MayWire, HConnect(x[1], x[2]) \/ HDisconnect(x[1], x[2])
    PROVE  WiringInv'
<1> DEFINE h == x[1]
           e == x[2]
<1>1. h \in Hiers /\ e \in MayHave(h)
    BY MayMake
<1>2. \/ d_fg' = [d_fg EXCEPT ![h] = d_fg[h] \cup {e}]
      \/ d_fg' = [d_fg EXCEPT ![h] = d_fg[h] \ Parted(h, e)]
      \/ d_fg' = d_fg
    BY DEF HConnect, HDisconnect
<1>3. UNCHANGED <<d_msg, d_blocks>>
    BY DEF HConnect, HDisconnect
<1> HIDE DEF h, e
<1>4. DOMAIN d_fg = Hiers /\ \A g \in Hiers : d_fg[g] \subseteq MayHave(g)
    BY DEF WiringInv
<1>5. DOMAIN d_fg' = Hiers /\ \A g \in Hiers : d_fg'[g] \subseteq MayHave(g)
    BY <1>1, <1>2, <1>4
<1> QED
    BY <1>3, <1>5 DEF WiringInv

LEMMA MsgConnectKeeps ==
    ASSUME WiringInv, NEW x \in MayMsgWire, HMsgConnect(x[1], x[2])
    PROVE  WiringInv'
<1> DEFINE h == x[1]
           m == x[2]
<1>1. h \in Hiers /\ m \in MayMsgHave(h) /\ {m.src.block, m.dst.block} \subseteq Hiers \cup Leaves
    BY MayMake
<1>2. d_fg' = d_fg
    BY DEF HMsgConnect
<1>3. \/ d_msg' = d_msg
      \/ m \notin ToSet(d_msg[h]) /\ d_msg' = [d_msg EXCEPT ![h] = Append(d_msg[h], m)]
    BY DEF HMsgConnect
<1>4. \/ d_blocks' = d_blocks
      \/ d_blocks' = [d_blocks EXCEPT ![h][m.src.block] = @ + 1, ![h][m.dst.block] = @ + 1]
    BY DEF HMsgConnect
<1> HIDE DEF h, m
<1>5. DOMAIN d_msg' = Hiers /\ \A g \in Hiers : d_msg'[g] \in Seq(MayMsgHave(g)) /\ NoneTwice(d_msg'[g])
    <2>1. DOMAIN d_msg = Hiers /\ \A g \in Hiers : d_msg[g] \in Seq(MayMsgHave(g)) /\ NoneTwice(d_msg[g])
        BY DEF WiringInv
    <2>2. CASE d_msg' = d_msg
        BY <2>1, <2>2
    <2>3. CASE m \notin ToSet(d_msg[h]) /\ d_msg' = [d_msg EXCEPT ![h] = Append(d_msg[h], m)]
        <3> DEFINE s == Append(d_msg[h], m)
        <3>1. s \in Seq(MayMsgHave(h)) /\ NoneTwice(s)
            BY <1>1, <2>1, <2>3, AddedOnce
        <3>2. d_msg' = [d_msg EXCEPT ![h] = s]
            BY <2>3
        <3> HIDE DEF s
        <3> QED
            BY <1>1, <2>1, <3>1, <3>2
    <2> QED
        BY <1>3, <2>2, <2>3
<1>6. /\ d_blocks' \in [Hiers -> [Hiers \cup Leaves -> Int]]
      /\ \A g \in Hiers : \A b \in Hiers \ {g} : d_blocks'[g][b] > 0 => b \in Within(g)
    <2>1. CASE d_blocks' = d_blocks
        BY <2>1 DEF WiringInv
    <2>2. CASE d_blocks' = [d_blocks EXCEPT ![h][m.src.block] = @ + 1, ![h][m.dst.block] = @ + 1]
        <3> DEFINE a == m.src.block
                   c == m.dst.block
                   f0 == d_blocks[h]
                   f1 == [f0 EXCEPT ![a] = @ + 1]
                   f == [f1 EXCEPT ![c] = @ + 1]
        <3>1. d_blocks \in [Hiers -> [Hiers \cup Leaves -> Int]]
            BY DEF WiringInv
        <3>2. d_blocks' = [[d_blocks EXCEPT ![h] = f1] EXCEPT ![h] = f]
            BY <1>1, <2>2, <3>1
        <3>3. f1 \in [Hiers \cup Leaves -> Int] /\ \A b \in (Hiers \cup Leaves) \ {a} : f1[b] = f0[b]
            BY <1>1, <3>1
        <3>4. f \in [Hiers \cup Leaves -> Int] /\ \A b \in (Hiers \cup Leaves) \ {a, c} : f[b] = f0[b]
            <4> HIDE DEF f1, f0
            <4>1. f \in [Hiers \cup Leaves -> Int] /\ \A b \in (Hiers \cup Leaves) \ {c} : f[b] = f1[b]
                BY <1>1, <3>3
            <4> QED
                BY <3>3, <4>1
        <3>5. \A b \in (Hiers \cup Leaves) \ {a, c} : f[b] > 0 => d_blocks[h][b] > 0
            BY <3>4
        <3> HIDE DEF f, f1
        <3>6. d_blocks' = [d_blocks EXCEPT ![h] = f]
            BY <1>1, <3>1, <3>2, <3>3, <3>4
        <3>7. {a, c} \cap (Hiers \ {h}) \subseteq Within(h)
            BY <1>1, MayMake
        <3>8. {a, c} \subseteq Hiers \cup Leaves
            BY <1>1
        <3> HIDE DEF a, c, f0
        <3> QED
            BY <1>1, <3>4, <3>5, <3>6, <3>7, <3>8, BlocksHeld
    <2> QED
        BY <1>4, <2>1, <2>2
<1> QED
    BY <1>2, <1>5, <1>6 DEF WiringInv

LEMMA MsgDisconnectKeeps ==
    ASSUME WiringInv, NEW x \in MayMsgWire, HMsgDisconnect(x[1], x[2])
    PROVE  WiringInv'
<1> DEFINE h == x[1]
           m == x[2]
           k == Min({i \in DOMAIN d_msg[h] : d_msg[h][i] = m})
<1>1. h \in Hiers
    BY MayMake
<1>2. UNCHANGED <<d_fg, d_blocks>>
    BY DEF HMsgDisconnect
<1>3. d_msg' = d_msg \/ (m \in ToSet(d_msg[h]) /\ d_msg' = [d_msg EXCEPT ![h] = RemoveAt(d_msg[h], k)])
    BY DEF HMsgDisconnect
<1> HIDE DEF h, m
<1>4. DOMAIN d_msg = Hiers /\ \A g \in Hiers : d_msg[g] \in Seq(MayMsgHave(g)) /\ NoneTwice(d_msg[g])
    BY DEF WiringInv
<1>5. CASE d_msg' = d_msg
    BY <1>2, <1>5 DEF WiringInv
<1>6. CASE m \in ToSet(d_msg[h]) /\ d_msg' = [d_msg EXCEPT ![h] = RemoveAt(d_msg[h], k)]
    <2>1. k \in DOMAIN d_msg[h]
        <3> DEFINE T == {i \in DOMAIN d_msg[h] : d_msg[h][i] = m}
        <3>1. DOMAIN d_msg[h] = 1 .. Len(d_msg[h]) /\ Len(d_msg[h]) \in Nat
            BY <1>1, <1>4, ToSetIs
        <3>2. T \subseteq Nat /\ T # {}
            BY <1>6, <3>1 DEF ToSet
        <3> HIDE DEF T
        <3>3. Min(T) \in T
            BY <3>2, LeastIs
        <3> QED
            BY <3>3 DEF T
    <2> DEFINE s == RemoveAt(d_msg[h], k)
    <2> HIDE DEF k
    <2>2. s \in Seq(MayMsgHave(h)) /\ NoneTwice(s)
        BY <1>1, <1>4, <2>1, RemovedOnce
    <2>3. d_msg' = [d_msg EXCEPT ![h] = s]
        BY <1>6
    <2> HIDE DEF s
    <2>4. DOMAIN d_msg' = Hiers /\ \A g \in Hiers : d_msg'[g] \in Seq(MayMsgHave(g)) /\ NoneTwice(d_msg'[g])
        BY <1>1, <1>4, <2>2, <2>3
    <2> QED
        BY <1>2, <2>4 DEF WiringInv
<1> QED
    BY <1>3, <1>5, <1>6

LEMMA HoldKeeps ==
    ASSUME WiringInv, NEW x \in MayHold, HHold(x[1], x[2])
    PROVE  WiringInv'
<1> DEFINE h == x[1]
           b == x[2]
           f == [d_blocks[h] EXCEPT ![b] = @ + 1]
<1>1. h \in Hiers /\ b \in Hiers \cup Leaves /\ (b \in Hiers \ {h} => b \in Within(h))
    BY MayMake
<1>2. UNCHANGED <<d_fg, d_msg>>
    BY DEF HHold
<1>3. d_blocks' = d_blocks \/ d_blocks' = [d_blocks EXCEPT ![h][b] = @ + 1]
    BY DEF HHold
<1>4. d_blocks \in [Hiers -> [Hiers \cup Leaves -> Int]]
    BY DEF WiringInv
<1> HIDE DEF h, b
<1>5. /\ f \in [Hiers \cup Leaves -> Int]
      /\ \A c \in (Hiers \cup Leaves) \ {b} : f[c] > 0 => d_blocks[h][c] > 0
    BY <1>1, <1>4
<1>6. d_blocks' = d_blocks \/ d_blocks' = [d_blocks EXCEPT ![h] = f]
    BY <1>1, <1>3, <1>4
<1> HIDE DEF f
<1> DEFINE bs == {b}
<1>7. bs \subseteq Hiers \cup Leaves /\ bs \cap (Hiers \ {h}) \subseteq Within(h)
    BY <1>1
<1>10. \A c \in (Hiers \cup Leaves) \ bs : f[c] > 0 => d_blocks[h][c] > 0
    BY <1>5
<1>11. f \in [Hiers \cup Leaves -> Int]
    BY <1>5
<1> HIDE DEF bs
<1>8. CASE d_blocks' = d_blocks
    BY <1>2, <1>8 DEF WiringInv
<1>9. CASE d_blocks' = [d_blocks EXCEPT ![h] = f]
    <2>1. /\ d_blocks' \in [Hiers -> [Hiers \cup Leaves -> Int]]
          /\ \A g \in Hiers : \A c \in Hiers \ {g} : d_blocks'[g][c] > 0 => c \in Within(g)
        BY <1>1, <1>7, <1>9, <1>10, <1>11, BlocksHeld
    <2> QED
        BY <1>2, <2>1 DEF WiringInv
<1> QED
    BY <1>6, <1>8, <1>9

LEMMA ReleaseKeeps ==
    ASSUME WiringInv, NEW x \in MayHold, HRelease(x[1], x[2])
    PROVE  WiringInv'
<1> DEFINE h == x[1]
           b == x[2]
           f == [d_blocks[h] EXCEPT ![b] = @ - 1]
<1>1. h \in Hiers /\ b \in Hiers \cup Leaves
    BY MayMake
<1>2. d_msg' = d_msg
    BY DEF HRelease
<1>3. CASE d_blocks[h][b] > 0
    <2>1. d_fg' = d_fg /\ d_blocks' = [d_blocks EXCEPT ![h][b] = @ - 1]
        BY <1>3 DEF HRelease
    <2>2. d_blocks \in [Hiers -> [Hiers \cup Leaves -> Int]]
        BY DEF WiringInv
    <2> HIDE DEF h, b
    <2>3. f \in [Hiers \cup Leaves -> Int] /\ \A c \in Hiers \cup Leaves : f[c] > 0 => d_blocks[h][c] > 0
        BY <1>1, <2>2
    <2>4. d_blocks' = [d_blocks EXCEPT ![h] = f]
        BY <1>1, <2>1, <2>2
    <2> HIDE DEF f
    <2> DEFINE bs == {}
    <2>5. bs \cap (Hiers \ {h}) \subseteq Within(h) /\ bs \subseteq Hiers \cup Leaves
        OBVIOUS
    <2>6. \A c \in (Hiers \cup Leaves) \ bs : f[c] > 0 => d_blocks[h][c] > 0
        BY <2>3
    <2> HIDE DEF bs
    <2>7. /\ d_blocks' \in [Hiers -> [Hiers \cup Leaves -> Int]]
          /\ \A g \in Hiers : \A c \in Hiers \ {g} : d_blocks'[g][c] > 0 => c \in Within(g)
        BY <1>1, <2>3, <2>4, <2>5, <2>6, BlocksHeld
    <2> QED
        BY <1>2, <2>1, <2>7 DEF WiringInv
<1>4. CASE ~(d_blocks[h][b] > 0)
    <2> DEFINE at == {e \in InnerEdges(h) : b \in {e.src.block, e.dst.block}}
    <2>1. d_blocks' = d_blocks /\ d_fg' = [d_fg EXCEPT ![h] = d_fg[h] \ at]
        BY <1>4 DEF HRelease
    <2> HIDE DEF at, h, b
    <2>2. DOMAIN d_fg = Hiers /\ \A g \in Hiers : d_fg[g] \subseteq MayHave(g)
        BY DEF WiringInv
    <2>3. DOMAIN d_fg' = Hiers /\ \A g \in Hiers : d_fg'[g] \subseteq MayHave(g)
        BY <1>1, <2>1, <2>2
    <2> QED
        BY <1>2, <2>1, <2>3 DEF WiringInv
<1> QED
    BY <1>3, <1>4

LEMMA ClearKeeps ==
    ASSUME WiringInv, NEW x \in MayHold, HClear(x[1])
    PROVE  WiringInv'
<1> DEFINE h == x[1]
           f == [b \in Hiers \cup Leaves |-> 0]
<1>1. h \in Hiers
    BY MayMake
<1>2. /\ d_fg' = [d_fg EXCEPT ![h] = {}] /\ d_msg' = [d_msg EXCEPT ![h] = <<>>]
      /\ d_blocks' = [d_blocks EXCEPT ![h] = f]
    BY DEF HClear
<1> HIDE DEF h
<1>3. DOMAIN d_fg' = Hiers /\ \A g \in Hiers : d_fg'[g] \subseteq MayHave(g)
    BY <1>1, <1>2 DEF WiringInv
<1>4. DOMAIN d_msg' = Hiers /\ \A g \in Hiers : d_msg'[g] \in Seq(MayMsgHave(g)) /\ NoneTwice(d_msg'[g])
    <2>1. DOMAIN d_msg = Hiers /\ \A g \in Hiers : d_msg[g] \in Seq(MayMsgHave(g)) /\ NoneTwice(d_msg[g])
        BY DEF WiringInv
    <2>2. <<>> \in Seq(MayMsgHave(h)) /\ NoneTwice(<<>>)
        BY DEF NoneTwice
    <2> QED
        BY <1>1, <1>2, <2>1, <2>2
<1> DEFINE bs == {}
<1>5. /\ f \in [Hiers \cup Leaves -> Int]
      /\ \A c \in (Hiers \cup Leaves) \ bs : f[c] > 0 => d_blocks[h][c] > 0
    OBVIOUS
<1>6. bs \cap (Hiers \ {h}) \subseteq Within(h) /\ bs \subseteq Hiers \cup Leaves
    OBVIOUS
<1> HIDE DEF f, bs
<1>7. /\ d_blocks' \in [Hiers -> [Hiers \cup Leaves -> Int]]
      /\ \A g \in Hiers : \A c \in Hiers \ {g} : d_blocks'[g][c] > 0 => c \in Within(g)
    BY <1>1, <1>2, <1>5, <1>6, BlocksHeld
<1> QED
    BY <1>3, <1>4, <1>7 DEF WiringInv

LEMMA WiringUnchanged ==
    ASSUME UNCHANGED wiring
    PROVE  /\ WiringInv => WiringInv'
           /\ StreamsUsed' = StreamsUsed /\ MsgsUsed' = MsgsUsed /\ (Parented' <=> Parented)
<1>1. d_fg' = d_fg /\ d_msg' = d_msg /\ d_blocks' = d_blocks /\ parent' = parent
    BY DEF wiring
<1>2. UsedHiers' = UsedHiers
    BY <1>1 DEF UsedHiers, Children
<1>3. WiringInv => WiringInv'
    BY <1>1 DEF WiringInv
<1>4. StreamsUsed' = StreamsUsed
    BY <1>1, <1>2 DEF StreamsUsed
<1>5. MsgsUsed' = MsgsUsed
    BY <1>1, <1>2 DEF MsgsUsed
<1>6. Parented' <=> Parented
    BY <1>1, <1>2 DEF Parented
<1> QED
    BY <1>3, <1>4, <1>5, <1>6

LEMMA StepKeeps ==
    ASSUME WiringInv, Running, [HNext]_hvars
    PROVE  WiringInv' /\ Running'
<1>1. CASE UNCHANGED hvars
    <2>1. UNCHANGED wiring /\ hstate' = hstate /\ flat' = flat /\ subs' = subs
        BY <1>1 DEF hvars
    <2> QED
        BY <2>1, WiringUnchanged DEF Running
<1>2. CASE HRun
    <2>1. UNCHANGED wiring
        BY <1>2 DEF HRun
    <2>2. CASE flatten.threw \/ (flatten.edges = {} /\ flatten.msgs = {})
        <3>1. hstate' = "idle"
            BY <1>2, <2>2 DEF HRun
        <3> QED
            BY <2>1, <3>1, WiringUnchanged DEF Running
    <2>3. CASE ~(flatten.threw \/ (flatten.edges = {} /\ flatten.msgs = {}))
        <3>1. /\ flat' = [edges |-> flatten.edges, msgs |-> flatten.msgs]
              /\ subs' = subs \cup flatten.msgs
            BY <1>2, <2>3 DEF HRun, Subscribed
        <3>2. /\ flatten.edges = Meaning(StreamsUsed)
              /\ Parented => LeafPairs(flatten.msgs) = Meaning(MsgsUsed)
            BY <2>3, FlattenIs
        <3>3. flat'.edges = flatten.edges /\ flat'.msgs = flatten.msgs
            BY <3>1
        <3>4. /\ flat'.edges = Meaning(StreamsUsed')
              /\ Parented' => LeafPairs(flat'.msgs) = Meaning(MsgsUsed')
              /\ flat'.msgs \subseteq subs'
            BY <2>1, <3>1, <3>2, <3>3, WiringUnchanged
        <3> QED
            BY <2>1, <3>4, WiringUnchanged DEF Running
    <2> QED
        BY <2>2, <2>3
<1>3. CASE HLock
    <2>1. UNCHANGED wiring /\ hstate' = "locked"
        BY <1>3 DEF HLock
    <2> QED
        BY <2>1, WiringUnchanged DEF Running
<1>4. ASSUME hstate \in {"idle", "locked"}, hstate' = hstate PROVE Running'
    BY <1>4 DEF Running
<1>5. ASSUME NEW x \in MayWire, HConnect(x[1], x[2]) \/ HDisconnect(x[1], x[2])
      PROVE  WiringInv' /\ Running'
    <2>1. hstate \in {"idle", "locked"} /\ hstate' = hstate
        BY <1>5 DEF HConnect, HDisconnect, MayEdit
    <2> QED
        BY <1>4, <1>5, <2>1, ConnectKeeps
<1>6. ASSUME NEW x \in MayMsgWire, HMsgConnect(x[1], x[2]) \/ HMsgDisconnect(x[1], x[2])
      PROVE  WiringInv' /\ Running'
    <2>1. hstate \in {"idle", "locked"} /\ hstate' = hstate
        BY <1>6 DEF HMsgConnect, HMsgDisconnect, MayEdit
    <2> QED
        BY <1>4, <1>6, <2>1, MsgConnectKeeps, MsgDisconnectKeeps
<1>7. ASSUME NEW x \in MayHold, HHold(x[1], x[2]) \/ HRelease(x[1], x[2]) \/ HClear(x[1])
      PROVE  WiringInv' /\ Running'
    <2>1. hstate \in {"idle", "locked"} /\ hstate' = hstate
        BY <1>7 DEF HHold, HRelease, HClear, MayEdit
    <2> QED
        BY <1>4, <1>7, <2>1, HoldKeeps, ReleaseKeeps, ClearKeeps
<1> QED
    BY <1>1, <1>2, <1>3, <1>5, <1>6, <1>7 DEF HNext

(* Whatever a program connects, disconnects and restarts, for any number of   *)
(* blocks nested to any depth: what runs is what the wiring means, flattening *)
(* throws for a good reason and whenever there is one of the first kinds, and *)
(* every message edge that runs is subscribed.                                *)
THEOREM AlwaysFlattened == HSpec => []Flattened
<1>1. HInit => WiringInv /\ Running
    BY WiredFirst DEF HInit, Running
<1>2. WiringInv /\ Running /\ [HNext]_hvars => (WiringInv /\ Running)'
    BY StepKeeps
<1>3. WiringInv /\ Running => Flattened
    BY RunningIs
<1> QED
    BY <1>1, <1>2, <1>3, PTL DEF HSpec
=============================================================================
