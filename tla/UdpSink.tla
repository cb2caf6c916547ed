------------------------------- MODULE UdpSink -------------------------------
(***************************************************************************)
(* udp_sink: work cuts its bytes into packets while another thread connects  *)
(* and disconnects.  disconnect holds the mutex that work holds, connect     *)
(* does not when it opens the new socket.  The bytes of the input are        *)
(* numbered from 1 on.                                                      *)
(***************************************************************************)
EXTENDS Naturals, Sequences

CONSTANTS
    d_payload_size, ItemBytes,
    d_eof,                        \* whether the receiver is told of the end
    MaxBytes, MaxItems, MaxConnects   \* bounds: bytes in all, items of a call, sockets

VARIABLES
    sockets,     \* each socket opened: whether it is open, the packets sent
    connected,   \* d_connected
    caller,      \* where connect or disconnect is, and whether a host follows
    incall,      \* whether work holds the mutex
    total_end, bytes_done,  \* the last byte of the call, the last one treated
    at_begin,    \* history: the first byte of the call, the socket connected then, 0 for none
    whole,       \* history: the calls that have ended: first and last byte, and that socket
    broken       \* a send has failed: work has returned -1

kvars == <<sockets, connected, caller, incall, total_end, bytes_done, at_begin, whole, broken>>

Eof == <<>>
Socket == Len(sockets)    \* d_socket is the last one opened

KInit ==
    /\ sockets = <<[open |-> TRUE, packets |-> <<>>]>> /\ connected = TRUE
    /\ caller = [pc |-> "idle", host |-> FALSE]
    /\ incall = FALSE /\ total_end = 0 /\ bytes_done = 0
    /\ at_begin = [first |-> 1, socket |-> 0] /\ whole = {} /\ broken = FALSE

\* connect(host), connect("") or disconnect(), up to the look at d_connected.
Call(host) ==
    /\ caller.pc = "idle" /\ (host => Len(sockets) < MaxConnects)
    /\ caller' = [pc |-> IF connected THEN "disconnect" ELSE IF host THEN "open" ELSE "idle",
                  host |-> host]
    /\ UNCHANGED <<sockets, connected, incall, total_end, bytes_done, at_begin, whole, broken>>

\* Mutant: without the mutex.
MutexFree_always == TRUE
MutexFree == ~incall

Farewell == IF d_eof THEN <<Eof, Eof, Eof>> ELSE <<>>

disconnect ==
    /\ caller.pc = "disconnect" /\ MutexFree
    /\ sockets' = [sockets EXCEPT ![Socket] = [open |-> FALSE, packets |-> @.packets \o Farewell]]
    /\ connected' = FALSE
    /\ caller' = [caller EXCEPT !.pc = IF caller.host THEN "open" ELSE "idle"]
    /\ UNCHANGED <<incall, total_end, bytes_done, at_begin, whole, broken>>

OpenSocket ==
    /\ caller.pc = "open" /\ caller' = [caller EXCEPT !.pc = "idle"]
    /\ sockets' = Append(sockets, [open |-> TRUE, packets |-> <<>>]) /\ connected' = TRUE
    /\ UNCHANGED <<incall, total_end, bytes_done, at_begin, whole, broken>>

BeginSend(n) ==
    /\ ~incall /\ ~broken /\ total_end + n * ItemBytes <= MaxBytes
    /\ incall' = TRUE /\ total_end' = total_end + n * ItemBytes
    /\ at_begin' = [first |-> total_end + 1, socket |-> IF connected THEN Socket ELSE 0]
    /\ UNCHANGED <<sockets, connected, caller, bytes_done, whole, broken>>

\* Mutant: as many bytes count as a packet has room for.
Advanced_payload(to) == bytes_done + d_payload_size
Advanced(to) == to

\* One turn of the loop; without a connection the bytes are discarded.
SendPacket ==
    LET to == IF bytes_done + d_payload_size < total_end THEN bytes_done + d_payload_size ELSE total_end
    IN
    /\ incall /\ bytes_done < total_end
    /\ bytes_done' = Advanced(to)
    /\ sockets' = IF connected THEN [sockets EXCEPT ![Socket].packets = Append(@, <<bytes_done + 1, to>>)]
                  ELSE sockets
    /\ UNCHANGED <<connected, caller, incall, total_end, at_begin, whole, broken>>

SendFails ==
    /\ incall /\ bytes_done < total_end /\ connected
    /\ broken' = TRUE /\ incall' = FALSE
    /\ UNCHANGED <<sockets, connected, caller, total_end, bytes_done, at_begin, whole>>

EndSend ==
    /\ incall /\ bytes_done >= total_end /\ incall' = FALSE
    /\ whole' = whole \cup {[first |-> at_begin.first, last |-> total_end, socket |-> at_begin.socket]}
    /\ UNCHANGED <<sockets, connected, caller, total_end, bytes_done, at_begin, broken>>

KNext ==
    \/ \E host \in BOOLEAN : Call(host)
    \/ disconnect \/ OpenSocket
    \/ \E n \in 1 .. MaxItems : BeginSend(n)
    \/ SendPacket \/ SendFails \/ EndSend

-----------------------------------------------------------------------------
DataOf(s) == SelectSeq(s.packets, LAMBDA p : p # Eof)

(* What one connection receives is one unbroken run of the input, in packets *)
(* of at most payload_size bytes, however the calls of work are cut and      *)
(* whenever the connection is made; then three empty packets if it is to be  *)
(* told of the end, and nothing after them.                                  *)
Unbroken ==
    \A i \in DOMAIN sockets :
        LET s == sockets[i]  d == DataOf(s) IN
        /\ s.packets = d \o (IF s.open THEN <<>> ELSE IF d_eof THEN <<Eof, Eof, Eof>> ELSE <<>>)
        /\ \A k \in DOMAIN d : d[k][2] - d[k][1] \in 0 .. d_payload_size - 1
        /\ \A k \in 2 .. Len(d) : d[k][1] = d[k - 1][2] + 1

(* A call of work that begins with a connection puts all its bytes into it:  *)
(* no disconnect cuts an item in two, or gives the rest to another receiver. *)
CallsWhole ==
    \A c \in whole : c.socket # 0 =>
        LET d == DataOf(sockets[c.socket]) IN
        /\ \E k \in DOMAIN d : d[k][1] = c.first
        /\ \E k \in DOMAIN d : d[k][2] = c.last
=============================================================================
