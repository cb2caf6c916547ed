------------------------------- MODULE MCParts -------------------------------
(* The parts of the program that stand alone: the three places where bytes   *)
(* or messages wait between two threads outside the stream buffers (the ring *)
(* of RngLib, gr::msg_queue, the buffer of udp_source), the probe a caller   *)
(* waits for, and the standard blocks.  They share nothing; a behaviour has  *)
(* one of them at work, and the others as they were created.                 *)
EXTENDS RngLib, MsgQueue, UdpSource, ProbeGet, MCBlocks

VARIABLE part   \* which of them a behaviour is about

MCInit ==
    /\ part \in {"rng", "msg", "udp", "probe", "block"}
    /\ Init /\ QInit /\ UInit /\ PbInit /\ BInit
    /\ part # "probe" => d_len = CHOOSE len \in Lengths : TRUE
    /\ part # "block" => blk = Idle

Ring  == part = "rng" /\ Next /\ UNCHANGED <<qvars, uvars, pbvars, bvars, part>>
Msg   == part = "msg" /\ QNext /\ UNCHANGED <<vars, uvars, pbvars, bvars, part>>
Udp   == part = "udp" /\ UNext /\ UNCHANGED <<vars, qvars, pbvars, bvars, part>>
Probe == part = "probe" /\ PbNext /\ UNCHANGED <<vars, qvars, uvars, bvars, part>>
ABlock == part = "block" /\ BNext /\ UNCHANGED <<vars, qvars, uvars, pbvars, part>>

MCNext == Ring \/ Msg \/ Udp \/ Probe \/ ABlock

\* QFairness, UFairness, that of PbSpec and that of BSpec, each for the behaviours it is about.
MCFairness ==
    /\ \A p \in Producers :
          /\ WF_qvars(part = "msg" /\ InsertTail(p))
          /\ WF_qvars(part = "msg" /\ InsertWait(p))
    /\ \A c \in Consumers :
          /\ WF_qvars(part = "msg" /\ Taking(c))
          /\ WF_qvars(part = "msg" /\ Flushing(c))
          /\ WF_qvars(part = "msg" /\ CallDelete(c))
    /\ WF_uvars(part = "udp" /\ \E k \in 1 .. MaxItems : UWork(k))
    /\ WF_pbvars(part = "probe" /\ WorkStep)
    /\ WF_pbvars(part = "probe" /\ Notify)
    /\ \A g \in Getters : WF_pbvars(part = "probe" /\ Return(g))
    /\ WF_bvars(part = "block" /\ SomeWork)

MCSpec == MCInit /\ [][MCNext]_<<vars, qvars, uvars, pbvars, bvars, part>> /\ MCFairness

(* Nobody waits for ever for what comes: who waits in get() returns, and the *)
(* buffer of udp_source empties again and again.                             *)
Served == GetReturns /\ Emptied
=============================================================================
