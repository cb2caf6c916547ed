----------------------------- MODULE Flowgraph ------------------------------
(***************************************************************************)
(* flowgraph.cc: what a set of stream edges must be to be run, and the      *)
(* order its blocks are put in.  An edge joins an output endpoint to an     *)
(* input endpoint; an endpoint is a block and a port.  Blocks are numbers,  *)
(* which order them as their addresses do.                                  *)
(***************************************************************************)
EXTENDS Integers, Sequences, FiniteSets, SequencesExt

CONSTANTS
    input_signature, output_signature,  \* per block: least and most streams, and item size
    Refused   \* the numbers of inputs and outputs a block's check_topology denies: <<block, in, out>>

Endpoint(b, p) == [block |-> b, port |-> p]
Edge(b, p, c, q) == [src |-> Endpoint(b, p), dst |-> Endpoint(c, q)]

check_valid_port(sig, port) == port >= 0 /\ (sig.max # -1 => port < sig.max)

\* Mutant: one output may feed an input that has an edge already.
check_dst_not_used_src(edges, e) == \A d \in edges : d # e
check_dst_not_used(edges, e) == \A d \in edges : d.dst # e.dst

check_type_match(e) ==
    output_signature[e.src.block].size = input_signature[e.dst.block].size

\* What connect() accepts; anything else throws.
Connectable(edges, e) ==
    /\ check_valid_port(output_signature[e.src.block], e.src.port)
    /\ check_valid_port(input_signature[e.dst.block], e.dst.port)
    /\ check_dst_not_used(edges, e)
    /\ check_type_match(e)

\* The blocks at the stream edges and the message edges of a graph.
calc_used_blocks(edges, msgs) ==
    (UNION {{m.src.block, m.dst.block} : m \in msgs})
        \cup {e.src.block : e \in edges} \cup {e.dst.block : e \in edges}

InputsUsed(edges, b)  == {e.dst.port : e \in {d \in edges : d.dst.block = b}}
OutputsUsed(edges, b) == {e.src.port : e \in {d \in edges : d.src.block = b}}

\* Mutant: a gap between the ports used is not noticed.
check_contiguity_counts(sig, used) ==
    Cardinality(used) >= sig.min /\ (sig.max # -1 => Cardinality(used) <= sig.max)

check_contiguity(sig, used) ==
    /\ Cardinality(used) >= sig.min
    /\ sig.max # -1 => Cardinality(used) <= sig.max
    /\ used = 0 .. Cardinality(used) - 1

check_topology(edges, b) ==
    <<b, Cardinality(InputsUsed(edges, b)), Cardinality(OutputsUsed(edges, b))>> \notin Refused

\* validate() does not throw.
Valid(edges) ==
    \A b \in calc_used_blocks(edges, {}) :
        /\ check_contiguity(input_signature[b], InputsUsed(edges, b))
        /\ check_contiguity(output_signature[b], OutputsUsed(edges, b))
        /\ check_topology(edges, b)

calc_downstream_blocks(edges, b) == {e.dst.block : e \in {d \in edges : d.src.block = b}}

\* Mutant: only the blocks downstream are visited.
calc_adjacent_blocks_down(edges, b) == calc_downstream_blocks(edges, b)

calc_adjacent_blocks(edges, b) ==
    calc_downstream_blocks(edges, b) \cup {e.src.block : e \in {d \in edges : d.dst.block = b}}

source_p(edges, b) == \A e \in edges : e.dst.block # b

-----------------------------------------------------------------------------
(* The depth-first visits, call by call.  On path are the blocks whose visit  *)
(* is under way, in white those no visit has reached.  A visit looks at one   *)
(* neighbour after the other, and those it has passed are never white again:  *)
(* the next it calls itself for is the least that is white.                  *)

\* calc_reachable_blocks: rest are the blocks that are in no part yet.
Reach(path, white, rest, parts) ==
    [path |-> path, white |-> white, rest |-> rest, parts |-> parts]

Reached(s, b) == Reach(Append(s.path, b), s.white \ {b}, s.rest, s.parts)

reachable_dfs_visit(edges, s) ==
    LET next == calc_adjacent_blocks(edges, Last(s.path)) \cap s.white
    IN  IF next # {} THEN Reached(s, Min(next))
        ELSE IF Len(s.path) > 1 THEN Reach(Front(s.path), s.white, s.rest, s.parts)
        ELSE Reach(<<>>, s.white, s.white, s.parts \cup {s.rest \ s.white})

calc_reachable_blocks(edges, s) ==
    IF s.path # <<>> THEN reachable_dfs_visit(edges, s)
    ELSE IF s.white = {} THEN s ELSE Reached(s, Min(s.white))

\* partition: the connected parts.  Each block is entered once and left once.
partition(edges, blocks) ==
    LET calls == 2 * Cardinality(blocks)
        reach[n \in 0 .. calls] == IF n = 0 THEN Reach(<<>>, blocks, blocks, {})
                                   ELSE calc_reachable_blocks(edges, reach[n - 1])
    IN  reach[calls].parts

\* Blocks on path are grey, those in output are black.
Search(path, white, output, loop) ==
    [path |-> path, white |-> white, output |-> output, loop |-> loop]

Entered(s, b) == Search(Append(s.path, b), s.white \ {b}, s.output, s.loop)

\* It throws when it meets a grey block, and is over then.
topological_dfs_visit(edges, s) ==
    LET down == calc_downstream_blocks(edges, Last(s.path))
    IN  IF down \cap ToSet(s.path) # {} THEN Search(s.path, s.white, s.output, TRUE)
        ELSE IF down \cap s.white # {} THEN Entered(s, Min(down \cap s.white))
        ELSE Search(Front(s.path), s.white, Append(s.output, Last(s.path)), s.loop)

\* The next of the blocks, sources first.
sort_sources_first(edges, blocks) ==
    LET sources == {b \in blocks : source_p(edges, b)}
    IN  IF sources # {} THEN Min(sources) ELSE Min(blocks)

Sort(edges, s) ==
    IF s.loop THEN s
    ELSE IF s.path # <<>> THEN topological_dfs_visit(edges, s)
    ELSE IF s.white = {} THEN s ELSE Entered(s, sort_sources_first(edges, s.white))

\* Mutant: the blocks are left in the order their visits ended.
Sorted_unreversed(search) == search.output
Sorted(search) == Reverse(search.output)

\* topological_sort: the order, and whether it threw "flow graph has loops!".
topological_sort(edges, blocks) ==
    LET calls == 2 * Cardinality(blocks)
        search[n \in 0 .. calls] == IF n = 0 THEN Search(<<>>, blocks, <<>>, FALSE)
                                    ELSE Sort(edges, search[n - 1])
    IN  [order |-> Sorted(search[calls]), loop |-> search[calls].loop]
=============================================================================
