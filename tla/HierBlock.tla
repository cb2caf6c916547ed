----------------------------- MODULE HierBlock ------------------------------
(***************************************************************************)
(* hier_block2_detail.cc: a program wires a top block and, inside it,       *)
(* hierarchical blocks, which have wiring of their own; start() and         *)
(* unlock() flatten all of it into connections between plain blocks.        *)
(* A block that is connected to its hierarchical block's own port stands    *)
(* for the entry of d_inputs or d_outputs.                                  *)
(***************************************************************************)
EXTENDS Flowgraph

CONSTANTS
    Hiers, Leaves,   \* hierarchical and plain blocks; Top \in Hiers
    Top,
    Wired,           \* per hierarchical block: the edges its constructor makes
    MsgWired,        \*   and its message edges, in their order
    MayWire,         \* the stream edges a program connects and disconnects: <<hier, edge>>
    MayMsgWire,      \* the message edges: <<hier, edge>>
    MayHold,         \* the blocks it connects on their own: <<hier, block>>
    MaxEdits, MaxRuns   \* bounds

None == -1

ASSUME HierAssumption ==
    /\ IsFiniteSet(Hiers) /\ Hiers \cup Leaves \subseteq Nat
    /\ Top \in Hiers /\ Hiers \cap Leaves = {}
    /\ MaxEdits \in Nat /\ MaxRuns \in Nat

\* An end of a message edge of h: is_hier tells a port of a hierarchical block.
MsgEnd(b, p, hier) == [block |-> b, port |-> p, is_hier |-> hier]

\* The flags msg_connect gives an edge; a block's own ports are seen from inside,
\* and the end across from one is not looked at.
MsgEdge(h, b, p, c, q) ==
    [src |-> MsgEnd(b, p, b \in Hiers /\ (b = h \/ c # h)),
     dst |-> MsgEnd(c, q, c \in Hiers /\ b # h)]

\* The edges a hierarchical block may ever have, and the hierarchical blocks it
\* may hold.
MayHave(h)    == Wired[h] \cup {x[2] : x \in {y \in MayWire : y[1] = h}}
MayMsgHave(h) == ToSet(MsgWired[h]) \cup {x[2] : x \in {y \in MayMsgWire : y[1] = h}}
Within(h) ==
    ((UNION {{e.src.block, e.dst.block} : e \in MayHave(h)})
        \cup (UNION {{m.src.block, m.dst.block} : m \in MayMsgHave(h)})
        \cup {x[2] : x \in {y \in MayHold : y[1] = h}}) \cap (Hiers \ {h})

\* connect() refuses an edge from a block to itself, msg_connect an edge that is there
\* already.  A message edge from one of a block's own ports to another is not modelled:
\* flattening does not pass it on.
ASSUME WiringAssumption ==
    /\ DOMAIN Wired = Hiers /\ MsgWired \in [Hiers -> Seq(UNION {MayMsgHave(h) : h \in Hiers})]
    /\ \A h \in Hiers : \A i, j \in DOMAIN MsgWired[h] : MsgWired[h][i] = MsgWired[h][j] => i = j
    /\ {x[1] : x \in MayWire} \cup {x[1] : x \in MayMsgWire} \cup {x[1] : x \in MayHold} \subseteq Hiers
    /\ {x[2] : x \in MayHold} \subseteq Hiers \cup Leaves
    /\ \A h \in Hiers : \A e \in MayHave(h) :
          /\ {e.src.block, e.dst.block} \subseteq Hiers \cup Leaves
          /\ e = Edge(e.src.block, e.src.port, e.dst.block, e.dst.port)
          /\ e.src.block # e.dst.block
    /\ \A h \in Hiers : \A m \in MayMsgHave(h) :
          /\ {m.src.block, m.dst.block} \subseteq Hiers \cup Leaves
          /\ m = MsgEdge(h, m.src.block, m.src.port, m.dst.block, m.dst.port)
          /\ {m.src.block, m.dst.block} # {h}

\* A hierarchical block is inside one other at most, and never inside itself.
ASSUME NestAssumption ==
    /\ \A g, h \in Hiers : g # h => Within(g) \cap Within(h) = {}
    /\ \A h \in Hiers : Top \notin Within(h)
    /\ \E level \in [Hiers -> 0 .. Cardinality(Hiers) - 1] :
          \A h \in Hiers : \A k \in Within(h) : level[k] > level[h]

VARIABLES
    d_fg,      \* per hierarchical block: its edges, those at its own ports included
    d_msg,     \* its message edges, in order
    d_blocks,  \* how often each block is in its d_blocks
    parent,    \* its d_parent_detail
    subs,      \* message_port_sub: the message edges by which blocks post to others
    flat,      \* the flattened graph that was started
    hstate,    \* "idle", "running" or "locked"
    fault,     \* what the last call met: "no", "threw" or "crashed"
    edits, runs   \* counts, for the bounds

wiring == <<d_fg, d_msg, d_blocks, parent>>
hvars  == <<wiring, subs, flat, hstate, fault, edits, runs>>

Same(x, y) == x.block = y.block /\ x.port = y.port

InnerEdges(h) == {e \in d_fg[h] : e.src.block # h /\ e.dst.block # h}

Children(h) ==
    (calc_used_blocks(d_fg[h], ToSet(d_msg[h])) \cup {b \in Hiers \cup Leaves : d_blocks[h][b] > 0})
        \cap (Hiers \ {h})

HInit ==
    /\ d_fg = Wired
    /\ d_msg = MsgWired
    /\ d_blocks = [h \in Hiers |-> [b \in Hiers \cup Leaves |->
          LET ends == {m \in ToSet(MsgWired[h]) : b \in {m.src.block, m.dst.block}}
          IN  IF ends = {} THEN 0 ELSE 1]]
    /\ parent = [h \in Hiers |-> LET in == {k \in Hiers \ {h} : h \in Children(k)}
                                 IN  IF in = {} THEN None ELSE CHOOSE k \in in : TRUE]
    /\ subs = {}
    /\ flat = [edges |-> {}, msgs |-> {}]
    /\ hstate = "idle" /\ fault = "no"
    /\ edits = 0 /\ runs = 0

-----------------------------------------------------------------------------
(* Flattening.                                                              *)

\* Mutant: an input that goes to two blocks inside is resolved to the first.
Inside_one(ends) == IF ends = {} THEN {} ELSE {CHOOSE x \in ends : TRUE}
Inside(ends) == ends

\* resolve_port: what a port of a hierarchical block is connected to inside.
resolve_port(x, is_input) ==
    Inside(IF is_input THEN {e.dst : e \in {d \in d_fg[x.block] : d.src = x}}
           ELSE {e.src : e \in {d \in d_fg[x.block] : d.dst = x}})

Behind(x, is_input) == IF x.block \in Hiers THEN resolve_port(x, is_input) ELSE {x}

\* resolve_endpoint, level by level: the plain endpoints behind one.  It throws
\* where a port has nothing behind it, and returns twice what is behind two.
resolve_endpoint(x, is_input) ==
    LET depth == Cardinality(Hiers)
        found[n \in 0 .. depth] ==
            IF n = 0 THEN {x} ELSE UNION {Behind(y, is_input) : y \in found[n - 1]}
    IN  [ends  |-> found[depth],
         threw |-> \E n \in 0 .. depth : \E y \in found[n] : Behind(y, is_input) = {},
         twice |-> \E n \in 0 .. depth : \E y, z \in found[n] :
                       y # z /\ Behind(y, is_input) \cap Behind(z, is_input) # {}]

Crossing(e) ==
    {[src |-> x[1], dst |-> x[2]] :
        x \in resolve_endpoint(e.src, FALSE).ends \X resolve_endpoint(e.dst, TRUE).ends}

Resolves(e) ==
    /\ ~resolve_endpoint(e.src, FALSE).threw /\ ~resolve_endpoint(e.src, FALSE).twice
    /\ ~resolve_endpoint(e.dst, TRUE).threw  /\ ~resolve_endpoint(e.dst, TRUE).twice

\* The connections that replace the edges of h, and whether connect() takes each.
flatten_edges(h) == UNION {Crossing(e) : e \in InnerEdges(h)}

EdgesTaken(h, edges) ==
    /\ \A e \in InnerEdges(h) : Resolves(e)
    /\ \A c \in flatten_edges(h) : Connectable(edges, c)
    /\ \A d, e \in InnerEdges(h) : \A b \in Crossing(d), c \in Crossing(e) :
          b.dst = c.dst => b = c /\ d = e

\* Mutant: only one of the edges at a port is passed on to what is inside.
replace_endpoint_one(M, q, r, is_src) ==
    LET at == {m \in M : Same(IF is_src THEN m.src ELSE m.dst, q)}
    IN  IF at = {} THEN M
        ELSE LET m == CHOOSE x \in at : TRUE
             IN  M \cup {[src |-> IF is_src THEN r ELSE m.src, dst |-> IF is_src THEN m.dst ELSE r]}

\* replace_endpoint: the edges at q, once more, at r.
replace_endpoint(M, q, r, is_src) ==
    M \cup {[src |-> IF is_src THEN r ELSE m.src, dst |-> IF is_src THEN m.dst ELSE r] :
               m \in {n \in M : Same(IF is_src THEN n.src ELSE n.dst, q)}}

Into(h, m)  == m.src.is_hier /\ m.src.block = h
OutOf(h, m) == ~Into(h, m) /\ m.dst.is_hier /\ m.dst.block = h

\* What flatten_aux does with one message edge of h.
flatten_msg(h, M, m) ==
    IF Into(h, m) THEN replace_endpoint(M, m.src, m.dst, FALSE)
    ELSE IF OutOf(h, m) THEN replace_endpoint(M, m.dst, m.src, TRUE)
    ELSE M \cup {m}

\* The message edges with the first ones of h added; and with all of them.
MsgsAfter(h, M) ==
    LET added[n \in 0 .. Len(d_msg[h])] ==
            IF n = 0 THEN M ELSE flatten_msg(h, added[n - 1], d_msg[h][n])
    IN  added

flatten_msgs(h, M) ==
    LET Cleared(n) == \E m \in ToSet(d_msg[h]) : \/ Into(h, m) /\ Same(n.dst, m.src)
                                                 \/ OutOf(h, m) /\ Same(n.src, m.dst)
    IN  {n \in MsgsAfter(h, M)[Len(d_msg[h])] : ~Cleared(n)}

\* connect() takes each message edge: none joins the same ends.
MsgsTaken(h, M) ==
    \A n \in 1 .. Len(d_msg[h]) :
        LET m == d_msg[h][n]
        IN  ~Into(h, m) /\ ~OutOf(h, m) =>
                \A o \in MsgsAfter(h, M)[n - 1] : ~(Same(o.src, m.src) /\ Same(o.dst, m.dst))

\* Every port of a hierarchical block is connected inside.
PortsConnected(h) ==
    /\ \A p \in 0 .. input_signature[h].max - 1 : \E e \in d_fg[h] : e.src = Endpoint(h, p)
    /\ \A p \in 0 .. output_signature[h].max - 1 : \E e \in d_fg[h] : e.dst = Endpoint(h, p)

clear_hier(M) == {m \in M : ~m.src.is_hier /\ ~m.dst.is_hier}

\* Mutant: the blocks inside hierarchical blocks are not flattened.
recurse_none(h) == {}
recurse(h) == Children(h)

\* The calls of flatten_aux: on path those under way, in white the blocks it has
\* not been called for; a block is inside one other, so it is called for it once.
Flattening(path, white, edges, msgs, threw) ==
    [path |-> path, white |-> white, edges |-> edges, msgs |-> msgs, threw |-> threw]

Entering(s, h) ==
    Flattening(Append(s.path, h), s.white \ {h}, s.edges \cup flatten_edges(h),
               flatten_msgs(h, s.msgs),
               ~(EdgesTaken(h, s.edges) /\ MsgsTaken(h, s.msgs) /\ PortsConnected(h)))

Leaving(s) ==
    Flattening(Front(s.path), s.white, s.edges,
               IF parent[Last(s.path)] = None THEN clear_hier(s.msgs) ELSE s.msgs, s.threw)

flatten_aux(s) ==
    IF s.threw \/ s.path = <<>> THEN s
    ELSE LET next == recurse(Last(s.path)) \cap s.white
         IN  IF next # {} THEN Entering(s, Min(next)) ELSE Leaving(s)

\* Each block is entered once and left once.
flatten ==
    LET calls == 2 * Cardinality(Hiers)
        step[n \in 0 .. calls] ==
            IF n = 0 THEN Entering(Flattening(<<>>, Hiers, {}, {}, FALSE), Top)
            ELSE flatten_aux(step[n - 1])
    IN  step[calls]

-----------------------------------------------------------------------------
(* The calls by which a program changes the wiring.                         *)

HAlive == fault # "crashed"

MayEdit == HAlive /\ hstate \in {"idle", "locked"} /\ edits < MaxEdits /\ edits' = edits + 1

Inner(h, bs) == {b \in bs : b \in Hiers /\ b # h}

\* connect() sets the parents before it looks whether it can connect at all.
SetParents(h, bs, to) == parent' = [k \in Hiers |-> IF k \in Inner(h, bs) THEN to ELSE parent[k]]

Accepts(h, e) ==
    IF e.src.block = h
    THEN check_valid_port(input_signature[h], e.src.port) /\ e \notin d_fg[h]
    ELSE IF e.dst.block = h
    THEN /\ check_valid_port(output_signature[h], e.dst.port)
         /\ \A d \in d_fg[h] : d.dst # e.dst
    ELSE Connectable(InnerEdges(h), e)

HConnect(h, e) ==
    /\ MayEdit
    /\ SetParents(h, {e.src.block, e.dst.block}, h)
    /\ IF Accepts(h, e) THEN d_fg' = [d_fg EXCEPT ![h] = @ \cup {e}] /\ fault' = "no"
       ELSE fault' = "threw" /\ UNCHANGED d_fg
    /\ UNCHANGED <<d_msg, d_blocks, subs, flat, hstate, runs>>

\* What disconnect() takes away: at an output of h's own it asks for the block
\* inside only, and not for its port.
Parted(h, e) ==
    IF e.src.block # h /\ e.dst.block = h
    THEN {d \in d_fg[h] : d.dst = e.dst /\ d.src.block = e.src.block} ELSE d_fg[h] \cap {e}

HDisconnect(h, e) ==
    /\ MayEdit
    /\ SetParents(h, {e.src.block, e.dst.block}, None)
    /\ d_fg' = [d_fg EXCEPT ![h] = @ \ Parted(h, e)]
    /\ fault' = IF Parted(h, e) # {} THEN "no" ELSE "threw"
    /\ UNCHANGED <<d_msg, d_blocks, subs, flat, hstate, runs>>

HMsgConnect(h, m) ==
    /\ MayEdit
    /\ SetParents(h, {m.src.block, m.dst.block}, h)
    /\ d_blocks' = IF d_blocks[h][m.dst.block] > 0 THEN d_blocks
                   ELSE [d_blocks EXCEPT ![h][m.src.block] = @ + 1, ![h][m.dst.block] = @ + 1]
    /\ IF m \in ToSet(d_msg[h]) THEN fault' = "threw" /\ UNCHANGED d_msg
       ELSE d_msg' = [d_msg EXCEPT ![h] = Append(@, m)] /\ fault' = "no"
    /\ UNCHANGED <<d_fg, subs, flat, hstate, runs>>

\* One level inside a hierarchical block: the last end found across its port.
LastSource(h, x) ==
    IF x.block \notin Inner(h, {x.block}) THEN x
    ELSE FoldLeft(LAMBDA y, m : IF m.dst.block = y.block THEN m.src ELSE y, x, d_msg[x.block])
LastTarget(h, x) ==
    IF x.block \notin Inner(h, {x.block}) THEN x
    ELSE FoldLeft(LAMBDA y, m : IF m.src.block = y.block THEN m.dst ELSE y, x, d_msg[x.block])

\* msg_disconnect, with the unsubscription of what it takes the ends to be.
HMsgDisconnect(h, m) ==
    /\ MayEdit
    /\ IF m \notin ToSet(d_msg[h]) THEN fault' = "threw" /\ UNCHANGED <<d_msg, subs>>
       ELSE LET from == LastSource(h, m.src)
                to   == LastTarget(h, m.dst)
            IN  /\ d_msg' = [d_msg EXCEPT ![h] = RemoveAt(@, Min({i \in DOMAIN @ : @[i] = m}))]
                /\ subs' = {n \in subs : ~(Same(n.src, from) /\ Same(n.dst, to))}
                /\ fault' = IF from.block \in Hiers THEN "threw" ELSE "no"
    /\ UNCHANGED <<d_fg, d_blocks, parent, flat, hstate, runs>>

\* connect(block).
HHold(h, b) ==
    /\ MayEdit
    /\ IF d_blocks[h][b] > 0 \/ input_signature[b].max # 0 \/ output_signature[b].max # 0
       THEN fault' = "threw" /\ UNCHANGED <<d_blocks, parent>>
       ELSE /\ d_blocks' = [d_blocks EXCEPT ![h][b] = @ + 1]
            /\ SetParents(h, {b}, h)
            /\ fault' = "no"
    /\ UNCHANGED <<d_fg, d_msg, subs, flat, hstate, runs>>

\* disconnect(block): a plain block in d_blocks is taken for a hierarchical one.
HRelease(h, b) ==
    /\ MayEdit
    /\ IF d_blocks[h][b] > 0
       THEN /\ d_blocks' = [d_blocks EXCEPT ![h][b] = @ - 1]
            /\ SetParents(h, {b}, None)
            /\ fault' = IF b \in Leaves THEN "crashed" ELSE "no"
            /\ UNCHANGED d_fg
       ELSE LET at == {e \in InnerEdges(h) : b \in {e.src.block, e.dst.block}}
            IN  /\ d_fg' = [d_fg EXCEPT ![h] = @ \ at]
                /\ SetParents(h, calc_used_blocks(at, {}), None)
                /\ fault' = IF at = {} THEN "threw" ELSE "no"
                /\ UNCHANGED d_blocks
    /\ UNCHANGED <<d_msg, subs, flat, hstate, runs>>

\* disconnect_all: the parents of what was inside stay.
HClear(h) ==
    /\ MayEdit
    /\ d_fg' = [d_fg EXCEPT ![h] = {}]
    /\ d_msg' = [d_msg EXCEPT ![h] = <<>>]
    /\ d_blocks' = [d_blocks EXCEPT ![h] = [b \in Hiers \cup Leaves |-> 0]]
    /\ fault' = "no"
    /\ UNCHANGED <<parent, subs, flat, hstate, runs>>

-----------------------------------------------------------------------------
\* Mutant: what is connected while the graph is locked is not subscribed.
Subscribed_first(M) == IF subs = {} THEN M ELSE subs

\* setup_connections and merge_connections subscribe every message edge.
Subscribed(M) == subs \cup M

\* start() or the last unlock().
HRun ==
    /\ HAlive
    /\ hstate \in {"idle", "locked"}
    /\ runs < MaxRuns
    /\ runs' = runs + 1
    /\ LET f == flatten
       IN  IF f.threw \/ (f.edges = {} /\ f.msgs = {})
           THEN fault' = "threw" /\ hstate' = "idle" /\ UNCHANGED <<subs, flat>>
           ELSE /\ flat' = [edges |-> f.edges, msgs |-> f.msgs]
                /\ subs' = Subscribed(f.msgs)
                /\ hstate' = "running"
                /\ fault' = "no"
    /\ UNCHANGED <<wiring, edits>>

HLock ==
    /\ HAlive
    /\ hstate = "running"
    /\ hstate' = "locked"
    /\ UNCHANGED <<wiring, subs, flat, fault, edits, runs>>

HNext ==
    \/ \E x \in MayWire : HConnect(x[1], x[2]) \/ HDisconnect(x[1], x[2])
    \/ \E x \in MayMsgWire : HMsgConnect(x[1], x[2]) \/ HMsgDisconnect(x[1], x[2])
    \/ \E x \in MayHold : HHold(x[1], x[2]) \/ HRelease(x[1], x[2])
    \/ \E x \in MayHold : HClear(x[1])
    \/ HRun \/ HLock

HSpec == HInit /\ [][HNext]_hvars

-----------------------------------------------------------------------------
(* The hierarchical blocks in use: the top block and what is inside them.    *)
UsedHiers ==
    {h \in Hiers : \A S \in SUBSET Hiers :
        Top \in S /\ (\A k \in S : Children(k) \subseteq S) => h \in S}

StreamsUsed == UNION {{<<h, e>> : e \in d_fg[h]} : h \in UsedHiers}
MsgsUsed    == UNION {{<<h, m>> : m \in ToSet(d_msg[h])} : h \in UsedHiers}

(* What the wiring means: an end leads to another by an edge of any block in *)
(* use, and a port of a hierarchical block is the same inside and outside.   *)
End(x, out) == [block |-> x.block, port |-> x.port, out |-> out]
SourceOf(u) == End(u[2].src, u[2].src.block # u[1])
TargetOf(u) == End(u[2].dst, u[2].dst.block = u[1])

Leads(E) ==
    LET Step[n \in 0 .. 2 * Cardinality(Hiers)] ==
            IF n = 0 THEN E
            ELSE LET was == Step[n - 1]
                 IN  was \cup {<<z[1][1], z[2][2]>> : z \in {y \in was \X E : y[1][2] = y[2][1]}}
    IN  Step[2 * Cardinality(Hiers)]

Joined(a, b) == Edge(a.block, a.port, b.block, b.port)
BetweenLeaves(e) == {e.src.block, e.dst.block} \subseteq Leaves

Meaning(used) ==
    {e \in {Joined(x[1], x[2]) : x \in Leads({<<SourceOf(u), TargetOf(u)>> : u \in used})} :
        BetweenLeaves(e)}

(* However deep its blocks are nested, what runs has a stream from one plain *)
(* block to another exactly where the wiring leads from the one to the other.*)
StreamsFlattened == hstate = "running" => flat.edges = Meaning(StreamsUsed)

(* The same of messages, as long as every hierarchical block in use has its  *)
(* parent: one without is taken for the top block and prunes what is not yet *)
(* replaced.                                                                 *)
MessagesFlattened ==
    hstate = "running" /\ (\A h \in UsedHiers \ {Top} : parent[h] # None) =>
        {Joined(m.src, m.dst) : m \in {n \in flat.msgs : BetweenLeaves(n)}} = Meaning(MsgsUsed)

(* Flattening throws for a good reason: a port of a hierarchical block in    *)
(* use has nothing behind it, a plain block does not have a port it is       *)
(* connected at or one of its size, two streams end at one place, or the     *)
(* ends of a message edge both have another.                                 *)
Fits(e) ==
    /\ check_valid_port(output_signature[e.src.block], e.src.port)
    /\ check_valid_port(input_signature[e.dst.block], e.dst.port)
    /\ check_type_match(e)

ThrowsForReason ==
    flatten.threw =>
        \/ \E h \in UsedHiers : ~PortsConnected(h)
        \/ \E u \in StreamsUsed :
              \/ (u[2].src.block # u[1] /\ Behind(u[2].src, FALSE) = {})
              \/ (u[2].dst.block # u[1] /\ Behind(u[2].dst, TRUE) = {})
        \/ \E e \in Meaning(StreamsUsed) : ~Fits(e)
        \/ \E u, v \in StreamsUsed : u # v /\ TargetOf(u) = TargetOf(v)
        \/ \E u, v, w \in MsgsUsed : u \notin {v, w} /\ SourceOf(u) = SourceOf(v) /\ TargetOf(u) = TargetOf(w)

(* It throws if a port is not connected, or if what the wiring means has a   *)
(* misfit or feeds an input from two outputs.                                *)
ThrowsIfWrong ==
    ~flatten.threw =>
        LET means == Meaning(StreamsUsed)
        IN  /\ \A h \in UsedHiers : PortsConnected(h)
            /\ \A e \in means : Fits(e)
            /\ \A d, e \in means : d.dst = e.dst => d = e

(* Every message edge of a running graph is subscribed, whatever             *)
(* subscriptions were taken away while it was locked.                        *)
EdgesSubscribed == hstate = "running" => flat.msgs \subseteq subs

(* Kept out of the runs.                                                     *)
OnlyEdgesSubscribed == hstate = "running" => subs = flat.msgs
ParentsKept == \A h \in UsedHiers \ {Top} : parent[h] # None

(* flatten_aux: what runs is what the nested blocks were wired to, streams   *)
(* and messages; flattening throws for a good reason, and whenever there is  *)
(* one of the first kinds; and each message edge that runs is subscribed.    *)
Flattened ==
    /\ StreamsFlattened /\ MessagesFlattened
    /\ ThrowsForReason /\ ThrowsIfWrong /\ EdgesSubscribed
=============================================================================
