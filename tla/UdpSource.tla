----------------------------- MODULE UdpSource ------------------------------
(***************************************************************************)
(* udp_source (gr-blocks/lib/udp_source_impl.cc; beklUdpSource of           *)
(* gr-beklBlk has the same handlers): a thread of its own receives          *)
(* datagrams into d_residbuf, the thread of the block sends them on.  Both  *)
(* hold d_udp_mutex, work waiting for at most 10 ms without it first.       *)
(*                                                                          *)
(* The n-th byte ever copied into d_residbuf is the number n.               *)
(***************************************************************************)
EXTENDS Integers, Sequences

CONSTANTS
    d_itemsize,      \* bytes of an item
    d_payload_size,  \* most bytes of a datagram
    BufPayloads,     \* BUF_SIZE_PAYLOADS, the size of d_residbuf in payloads
    d_eof,           \* whether an empty datagram ends the stream
    MaxItems,        \* most items work is asked for
    MaxAccepted,     \* bound: bytes copied into d_residbuf in a behaviour
    MaxReconnects    \* bound: calls of connect on a connected source

ASSUME UdpAssumption ==
    /\ d_itemsize \in Nat \ {0} /\ d_payload_size \in Nat \ {0}
    /\ BufPayloads \in Nat /\ MaxItems \in Nat \ {0}
    /\ d_eof \in BOOLEAN

VARIABLES
    d_residbuf,     \* the bytes between the start of the buffer and d_residual
    d_residual,     \* how many they are, or WORK_DONE
    d_sent,         \* how many of them were sent
    service,        \* d_io_service: "running", "ended" without work, "stopped"
    receiving,      \* whether a receive is posted
    d_connected,
    out,            \* history: the bytes of the items produced
    accepted,       \* history: bytes copied into d_residbuf
    cut,            \* history: bytes of less than an item that work left out
    reconnects      \* history: calls of connect

WORK_DONE == -1

uvars == <<d_residbuf, d_residual, d_sent, service, receiving, d_connected, out, accepted, cut,
           reconnects>>

BufferBytes == BufPayloads * d_payload_size

Smaller(a, b) == IF a < b THEN a ELSE b

\* The constructor, which connects.
UInit ==
    /\ d_residbuf = <<>> /\ d_residual = 0 /\ d_sent = 0
    /\ service = "running" /\ receiving = TRUE /\ d_connected = TRUE
    /\ out = <<>> /\ accepted = 0 /\ cut = {}
    /\ reconnects = 0

-----------------------------------------------------------------------------
(* handle_read, in the thread of the io service.                            *)

Receiving == service = "running" /\ receiving

\* An empty datagram: the stream is over, and no receive is posted again, so
\* that run() returns.
ReadEof ==
    /\ Receiving
    /\ d_eof
    /\ d_residual' = WORK_DONE
    /\ receiving' = FALSE
    /\ service' = "ended"
    /\ UNCHANGED <<d_residbuf, d_sent, d_connected, out, accepted, cut, reconnects>>

\* Mutant: room is counted from what was sent.
Fits_sent(n) == d_residual - d_sent + n < BufferBytes
Fits(n) == d_residual + n < BufferBytes

\* A datagram of n bytes; one that does not fit is dropped whole.
Read(n) ==
    /\ Receiving
    /\ n = 0 => ~d_eof
    /\ Fits(n)
    /\ accepted + n <= MaxAccepted
    /\ d_residbuf' = d_residbuf \o [k \in 1 .. n |-> accepted + k - 1]
    /\ d_residual' = d_residual + n
    /\ accepted' = accepted + n
    /\ UNCHANGED <<d_sent, service, receiving, d_connected, out, cut, reconnects>>

-----------------------------------------------------------------------------
\* Mutant: the buffer starts again with every call.
Rest_always(n) == d_residbuf' = <<>> /\ d_residual' = 0 /\ d_sent' = 0

\* Mutant: it does so only if all of it is sent at once.
Rest_atonce(n) ==
    IF n = d_residual
    THEN d_residbuf' = <<>> /\ d_residual' = 0 /\ d_sent' = 0
    ELSE d_sent' = d_sent + n /\ UNCHANGED <<d_residbuf, d_residual>>

\* The buffer starts again once all of it is sent.
Rest(n) ==
    IF n = d_residual - d_sent
    THEN d_residbuf' = <<>> /\ d_residual' = 0 /\ d_sent' = 0
    ELSE d_sent' = d_sent + n /\ UNCHANGED <<d_residbuf, d_residual>>

\* Mutant: bytes of less than an item wait for the rest of it.
Counted_all(n) == n

\* Of n bytes sent, those of whole items count as produced.
Counted(n) == (n \div d_itemsize) * d_itemsize

\* work, asked for noutput_items.  Once d_residual is negative it returns that.
UWork(noutput_items) ==
    /\ d_residual >= 0
    /\ LET n == Smaller(d_itemsize * noutput_items, d_residual - d_sent)
           bytes == SubSeq(d_residbuf, d_sent + 1, d_sent + n)
       IN  /\ out' = out \o SubSeq(bytes, 1, Counted(n))
           /\ cut' = cut \cup {bytes[k] : k \in Counted(n) + 1 .. n}
           /\ Rest(n)
    /\ UNCHANGED <<service, receiving, d_connected, accepted, reconnects>>

-----------------------------------------------------------------------------
\* Mutant: the io service is restarted.
Restarted_run == "running"
\* run() of an io service that was stopped, and not reset since, returns at once.
Restarted == service

\* disconnect: reset() and then stop(); the posted receive goes with the socket.
Disconnect ==
    /\ d_connected
    /\ service' = "stopped"
    /\ receiving' = FALSE
    /\ d_connected' = FALSE
    /\ UNCHANGED <<d_residbuf, d_residual, d_sent, out, accepted, cut, reconnects>>

\* connect with a host, after the disconnect that is its first step.
Connect ==
    /\ ~d_connected
    /\ reconnects < MaxReconnects
    /\ receiving' = TRUE
    /\ d_connected' = TRUE
    /\ service' = Restarted
    /\ reconnects' = reconnects + 1
    /\ UNCHANGED <<d_residbuf, d_residual, d_sent, out, accepted, cut>>

UNext ==
    \/ ReadEof
    \/ \E n \in 0 .. d_payload_size : Read(n)
    \/ \E k \in 1 .. MaxItems : UWork(k)
    \/ Disconnect \/ Connect

\* The scheduler calls a source again and again.
UFairness == WF_uvars(\E k \in 1 .. MaxItems : UWork(k))

USpec == UInit /\ [][UNext]_uvars /\ UFairness

-----------------------------------------------------------------------------
UTypeOK ==
    /\ d_residbuf \in Seq(Nat)
    /\ d_residual \in {WORK_DONE, 0} \cup 0 .. BufferBytes - 1
    /\ d_sent \in 0 .. BufferBytes
    /\ service \in {"running", "ended", "stopped"}
    /\ receiving \in BOOLEAN /\ d_connected \in BOOLEAN
    /\ out \in Seq(Nat)
    /\ accepted \in Nat /\ cut \subseteq Nat

Elements(s) == {s[k] : k \in DOMAIN s}

(* Bytes go out once, in the order they came in, and until the source has    *)
(* ended every byte that was taken in is sent, still to be sent, or was cut  *)
(* off because it did not fill an item when the buffer was emptied.  (What   *)
(* is unsent when the source ends is thrown away with the buffer.)           *)
NothingElseLost ==
    /\ \A j, k \in DOMAIN out : j < k => out[j] < out[k]
    /\ d_residual >= 0 =>
         0 .. accepted - 1 = Elements(out) \cup cut
                             \cup {d_residbuf[k] : k \in d_sent + 1 .. d_residual}

(* Every item is made of consecutive bytes, whatever the sizes of the        *)
(* datagrams and of the calls of work.                                       *)
ItemsWhole ==
    /\ Len(out) % d_itemsize = 0
    /\ \A k \in DOMAIN out : k % d_itemsize # 0 => out[k + 1] = out[k] + 1

(* The source ends for good: no later datagram, and no reconnection, brings  *)
(* a source back that has returned WORK_DONE.                                *)
DoneForGood == [][d_residual = WORK_DONE => d_residual' = WORK_DONE]_uvars

(* What was taken in is sent on, or the stream ends: the buffer, which is    *)
(* only reset when all of it is sent, cannot stay in use for ever.           *)
Emptied == []<>(d_residual \in {0, WORK_DONE})

(* udp_source as a whole: the bytes of the datagrams go out once, in order   *)
(* and as whole items, and the end of the stream is for good.                *)
BytesPassedOn == [](UTypeOK /\ NothingElseLost /\ ItemsWhole) /\ DoneForGood
=============================================================================
