---------------------------- MODULE MCTpbScheduler ----------------------------
(* Flowgraphs for TLC.                                                      *)
EXTENDS TpbScheduler

\* A sync block: no alignment, no history.
Sync == [multiple |-> 1, multiple_set |-> FALSE, min_noutput |-> 0, max_noutput |-> 100,
         history |-> 1, decim |-> 1, interp |-> 1, fixed_rate |-> TRUE]

Unlimited == -1

\* src -> mid -> snk
ChainBlocks == {"src", "mid", "snk"}
ChainBufs   == {"a", "b"}
ChainIns    == [b \in ChainBlocks |-> CASE b = "src" -> <<>> [] b = "mid" -> <<"a">>
                                        [] b = "snk" -> <<"b">>]
ChainOuts   == [b \in ChainBlocks |-> CASE b = "src" -> <<"a">> [] b = "mid" -> <<"b">>
                                        [] b = "snk" -> <<>>]
SmallChain  == [buf \in ChainBufs |-> 3]
HugeChain   == [buf \in ChainBufs |-> IF buf = "a" THEN 9 ELSE 5]
ManyItems   == [b \in ChainBlocks |-> IF b = "src" THEN 8 ELSE Unlimited]
\* mid is a head block that stops after two items of an endless source.
HeadOfTwo   == [b \in ChainBlocks |-> CASE b = "src" -> Unlimited [] b = "mid" -> 2
                                        [] b = "snk" -> Unlimited]
ChainSync   == [b \in ChainBlocks |-> Sync]
\* mid has a history, decimates and wants calls of whole multiples of 2 for its
\* SIMD code.
ChainAligned == [ChainSync EXCEPT !["mid"] = [Sync EXCEPT !.multiple = 2, !.history = 2,
                                                          !.decim = 2]]

\* src -> add, and src -> up -> add: add is a head of two items of an endless source.
JoinBlocks == {"src", "up", "add"}
JoinBufs   == {"s", "u"}
JoinIns    == [b \in JoinBlocks |-> CASE b = "src" -> <<>> [] b = "up" -> <<"s">>
                                      [] b = "add" -> <<"u", "s">>]
JoinOuts   == [b \in JoinBlocks |-> CASE b = "src" -> <<"s">> [] b = "up" -> <<"u">>
                                      [] b = "add" -> <<>>]
JoinSize   == [buf \in JoinBufs |-> 3]
JoinQuota  == [b \in JoinBlocks |-> IF b = "add" THEN 2 ELSE Unlimited]
JoinSync   == [b \in JoinBlocks |-> Sync]

\* src -> both branches, joined by a two-input sink.
DiamondBlocks == {"src", "up", "down", "add"}
DiamondBufs   == {"s", "u", "d"}
DiamondIns    == [b \in DiamondBlocks |-> CASE b = "src" -> <<>> [] b = "up" -> <<"s">>
                                            [] b = "down" -> <<"s">>
                                            [] b = "add" -> <<"u", "d">>]
DiamondOuts   == [b \in DiamondBlocks |-> CASE b = "src" -> <<"s">> [] b = "up" -> <<"u">>
                                            [] b = "down" -> <<"d">> [] b = "add" -> <<>>]
DiamondSize   == [buf \in DiamondBufs |-> 2]
DiamondLarge  == [buf \in DiamondBufs |-> 3]
DiamondQuota  == [b \in DiamondBlocks |-> IF b = "src" THEN 2 ELSE Unlimited]
DiamondSync   == [b \in DiamondBlocks |-> Sync]

\* The same, with a head block of one item on one branch.
DiamondHead   == [DiamondQuota EXCEPT !["up"] = 1]
=============================================================================
