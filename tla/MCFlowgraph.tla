----------------------------- MODULE MCFlowgraph -----------------------------
(* How a program's connections become what runs: a behaviour is either about *)
(* flattening nested blocks or about wiring and rewiring the flat graph.     *)
EXTENDS HierBlock, FlatFlowgraph

VARIABLE graphOf   \* which of the two

(* Nested: 0 is the top block; 1 is in it and holds 2; 8 is in it and has    *)
(* only a message port; 3 and 4 are plain; 5 is in 1, 6 in 2 and 7 in 8.     *)
(* Flat: 11 and 12 are sources, 13 has history, 14 takes one or two inputs.  *)
Exactly(n)  == [min |-> n, max |-> n, size |-> 1]
UpTo(k, n)  == [min |-> k, max |-> n, size |-> 1]
AllBlocks   == 0 .. 8 \cup 11 .. 14

MCInputs == [b \in AllBlocks |->
    CASE b \in {0, 3, 7, 8, 11, 12} -> Exactly(0)
      [] b = 14 -> UpTo(1, 2)
      [] OTHER  -> Exactly(1)]
MCOutputs == [b \in AllBlocks |->
    CASE b \in {0, 4, 5, 7, 8} -> Exactly(0)
      [] b = 14 -> UpTo(0, 1)
      [] OTHER  -> Exactly(1)]

MCWired == 0 :> {} @@ 8 :> {}
    @@ 1 :> {Edge(1, 0, 2, 0), Edge(1, 0, 5, 0), Edge(2, 0, 1, 0)}
    @@ 2 :> {Edge(2, 0, 6, 0), Edge(6, 0, 2, 0)}
MCMsgWired == 0 :> <<>>
    @@ 1 :> <<MsgEdge(1, 1, "in", 5, "in"), MsgEdge(1, 1, "in", 2, "in"),
              MsgEdge(1, 2, "out", 1, "out")>>
    @@ 2 :> <<MsgEdge(2, 2, "in", 6, "in"), MsgEdge(2, 6, "out", 2, "out")>>
    @@ 8 :> <<MsgEdge(8, 8, "in", 7, "in")>>
MCMayWire == {<<0, Edge(3, 0, 1, 0)>>, <<0, Edge(1, 0, 4, 0)>>, <<0, Edge(3, 0, 4, 0)>>,
              <<1, Edge(1, 0, 5, 0)>>, <<1, Edge(2, 0, 1, 0)>>, <<1, Edge(2, 1, 1, 0)>>}
MCMayMsgWire == {<<0, MsgEdge(0, 3, "out", 1, "in")>>, <<0, MsgEdge(0, 1, "out", 4, "in")>>,
                 <<0, MsgEdge(0, 3, "out", 8, "in")>>, <<1, MsgEdge(1, 1, "in", 5, "in")>>,
                 <<0, MsgEdge(0, 1, "out", 1, "in")>>}
MCMayHold == {<<0, 8>>, <<1, 2>>, <<0, 4>>}

MCEdges == {Edge(11, 0, 13, 0), Edge(12, 0, 13, 0), Edge(13, 0, 14, 0), Edge(11, 0, 14, 0),
            Edge(11, 0, 14, 1), Edge(12, 0, 14, 1), Edge(14, 0, 13, 0)}
(* 14 is a selector that wants another input where it has an output.          *)
MCRefused == {<<14, 1, 1>>}
MCHistory == [b \in 11 .. 14 |-> IF b = 13 THEN 2 ELSE 1]

MCInit == graphOf \in {"nested", "flat"} /\ HInit /\ FInit

Nested == graphOf = "nested" /\ HNext /\ UNCHANGED <<fvars, graphOf>>
Flat   == graphOf = "flat" /\ FNext /\ UNCHANGED <<hvars, graphOf>>

MCNext == Nested \/ Flat

MCSpec == MCInit /\ [][MCNext]_<<hvars, fvars, graphOf>>
=============================================================================
