----------------------------- MODULE MCMsgPassing -----------------------------
(* A source publishes to a message-only block, which answers it, and to one  *)
(* whose handler is not attached.                                            *)
EXTENDS MsgPassing

LoopBlocks  == {"src", "mid", "snk"}
LoopSubs    == [b \in LoopBlocks |-> CASE b = "src" -> <<<<"mid", "in">>, <<"snk", "in">>>>
                                       [] b = "mid" -> <<<<"src", "in">>>>
                                       [] b = "snk" -> <<>>]
LoopHandled == {<<"src", "in">>, <<"mid", "in">>}
TwoMessages == [b \in LoopBlocks |-> IF b = "src" THEN 2 ELSE 0]
OneStall    == [b \in LoopBlocks |-> IF b = "src" THEN 1 ELSE 0]
=============================================================================
