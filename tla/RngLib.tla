------------------------------- MODULE RngLib -------------------------------
(***************************************************************************)
(* beklRngLib, the byte ring of gr-beklBlk (lib/RngLib.cpp): one thread     *)
(* puts, another gets, and there is no lock.  Each side reads the other's   *)
(* index once, copies byte by byte, and moves its own index at the end.     *)
(*                                                                          *)
(* The n-th byte ever put is the number n.                                  *)
(***************************************************************************)
EXTENDS Integers, Sequences

CONSTANTS
    bufSize,    \* the bytes asked of rngCreate, plus one
    MaxBytes,   \* bound: bytes put in a behaviour
    Exclusive   \* whether nothing is put during a rngBufGetNoDel

ASSUME SizeAssumption == bufSize \in Nat \ {0}
ASSUME BytesAssumption == MaxBytes \in Nat
ASSUME ExclusiveAssumption == Exclusive \in BOOLEAN

VARIABLES
    buf,               \* the bytes of the ring
    pToBuf, pFromBuf,  \* where to write and where to read next
    put_n, put_k,      \* bytesput of the put in progress (0: none) and bytes copied
    get_n, get_k,      \* bytesgot of the get in progress (0: none) and bytes copied
    peek,              \* rngBufGetNoDel: "no", "copy", or "moved" until it restores
    temp,              \* the index it restores
    sent, taken        \* history: bytes published, bytes removed

producer == <<put_n, put_k, sent>>
consumer == <<get_n, get_k, peek, temp, taken>>
vars     == <<buf, pToBuf, pFromBuf, producer, consumer>>

Less(a, b) == IF a < b THEN a ELSE b

\* Mutant: the end of the ring is forgotten.
Wrap_never(i) == i
Wrap(i) == IF i >= bufSize THEN i - bufSize ELSE i

rngNBytes == IF pToBuf < pFromBuf THEN pToBuf - pFromBuf + bufSize ELSE pToBuf - pFromBuf

rngIsEmpty == pToBuf = pFromBuf

\* Mutant: full only where the write index has wrapped around.
rngIsFull_wrapped == pToBuf - pFromBuf + 1 = 0
rngIsFull == LET n == pToBuf - pFromBuf + 1 IN n = 0 \/ n = bufSize

\* Mutant: the next-to-last byte before the read index is used too.
BytesPut_full(nbytes) ==
    IF pFromBuf > pToBuf THEN Less(nbytes, pFromBuf - pToBuf)
    ELSE IF pFromBuf = 0 THEN Less(nbytes, bufSize - pToBuf - 1)
    ELSE LET first == Less(nbytes, bufSize - pToBuf)
         IN  IF pToBuf + first = bufSize THEN first + Less(nbytes - first, pFromBuf - 1)
             ELSE first

\* How many of nbytes rngBufPut puts: up to the byte before the read index,
\* in one piece or round the end of the ring.
BytesPut(nbytes) ==
    IF pFromBuf > pToBuf THEN Less(nbytes, pFromBuf - pToBuf - 1)
    ELSE IF pFromBuf = 0 THEN Less(nbytes, bufSize - pToBuf - 1)
    ELSE LET first == Less(nbytes, bufSize - pToBuf)
         IN  IF pToBuf + first = bufSize THEN first + Less(nbytes - first, pFromBuf - 1)
             ELSE first

\* How many of maxbytes rngBufGet gets.
BytesGot(maxbytes) ==
    IF pToBuf >= pFromBuf THEN Less(maxbytes, pToBuf - pFromBuf)
    ELSE LET first == Less(maxbytes, bufSize - pFromBuf)
         IN  IF pFromBuf + first = bufSize THEN first + Less(maxbytes - first, pToBuf)
             ELSE first

\* rngCreate and rngFlush.
Init ==
    /\ buf \in [0 .. bufSize - 1 -> {-1}]
    /\ pToBuf = 0 /\ pFromBuf = 0
    /\ put_n = 0 /\ put_k = 0 /\ sent = 0
    /\ get_n = 0 /\ get_k = 0 /\ taken = 0
    /\ peek = "no" /\ temp = 0

-----------------------------------------------------------------------------
(* The producer: rngBufPut, or rngPutAhead and rngMoveAhead.                *)

StartPut(n) ==
    /\ put_n = 0
    /\ Exclusive => peek = "no"
    /\ n > 0
    /\ sent + n <= MaxBytes
    /\ put_n' = n
    /\ put_k' = 0
    /\ UNCHANGED <<buf, pToBuf, pFromBuf, sent, consumer>>

PutStart(nbytes) == StartPut(BytesPut(nbytes))

\* "Before calling rngPutAhead(), the caller must verify that at least
\* <offset> + 1 bytes are available in the ring buffer."
AheadStart(n) == n < bufSize - rngNBytes /\ StartPut(n)

PutByte ==
    /\ put_k < put_n
    /\ buf' = [buf EXCEPT ![Wrap(pToBuf + put_k)] = sent + put_k]
    /\ put_k' = put_k + 1
    /\ UNCHANGED <<pToBuf, pFromBuf, put_n, sent, consumer>>

PutEnd ==
    /\ put_n > 0 /\ put_k = put_n
    /\ pToBuf' = Wrap(pToBuf + put_n)
    /\ sent' = sent + put_n
    /\ put_n' = 0
    /\ put_k' = 0
    /\ UNCHANGED <<buf, pFromBuf, consumer>>

-----------------------------------------------------------------------------
(* The consumer: rngBufGet, rngBufGetNoDel, rngMoveRead.                    *)

StartGet(maxbytes, kind) ==
    /\ get_n = 0
    /\ BytesGot(maxbytes) > 0
    /\ get_n' = BytesGot(maxbytes)
    /\ get_k' = 0
    /\ peek' = kind
    /\ UNCHANGED <<buf, pToBuf, pFromBuf, producer, taken>>

GetStart(maxbytes) == StartGet(maxbytes, "no") /\ UNCHANGED temp

PeekStart(maxbytes) ==
    /\ Exclusive => put_n = 0
    /\ StartGet(maxbytes, "copy")
    /\ temp' = pFromBuf

\* bcopy of buf[Wrap(pFromBuf + get_k)].
GetByte ==
    /\ get_k < get_n
    /\ get_k' = get_k + 1
    /\ UNCHANGED <<buf, pToBuf, pFromBuf, producer, get_n, peek, temp, taken>>

\* Mutant: the bytes are released before they are copied.
GetEnd_early ==
    /\ get_n > 0 /\ get_k < get_n
    /\ pFromBuf' = Wrap(pFromBuf + 1)
    /\ taken' = taken + 1
    /\ get_k' = get_k + 1
    /\ UNCHANGED <<buf, pToBuf, producer, get_n, peek, temp>>

\* The read index moves; a peek has the old one to restore.
GetEnd ==
    /\ get_n > 0 /\ get_k = get_n
    /\ peek # "moved"
    /\ pFromBuf' = Wrap(pFromBuf + get_n)
    /\ IF peek = "copy"
       THEN peek' = "moved" /\ UNCHANGED <<get_n, get_k, taken>>
       ELSE /\ taken' = taken + get_n
            /\ get_n' = 0
            /\ get_k' = 0
            /\ UNCHANGED peek
    /\ UNCHANGED <<buf, pToBuf, producer, temp>>

PeekEnd ==
    /\ peek = "moved"
    /\ pFromBuf' = temp
    /\ peek' = "no"
    /\ get_n' = 0
    /\ get_k' = 0
    /\ UNCHANGED <<buf, pToBuf, producer, temp, taken>>

MoveRead(n) ==
    /\ get_n = 0
    /\ n \in 1 .. rngNBytes
    /\ pFromBuf' = Wrap(pFromBuf + n)
    /\ taken' = taken + n
    /\ UNCHANGED <<buf, pToBuf, producer, get_n, get_k, peek, temp>>

-----------------------------------------------------------------------------
Produce == (\E n \in 1 .. bufSize : PutStart(n) \/ AheadStart(n)) \/ PutByte \/ PutEnd

Consume ==
    \/ \E n \in 1 .. bufSize : GetStart(n) \/ PeekStart(n) \/ MoveRead(n)
    \/ GetByte \/ GetEnd \/ PeekEnd

Next == Produce \/ Consume

Spec == Init /\ [][Next]_vars

-----------------------------------------------------------------------------
IndexType ==
    /\ pToBuf \in 0 .. bufSize - 1
    /\ pFromBuf \in 0 .. bufSize - 1
    /\ temp \in 0 .. bufSize - 1

TypeOK ==
    /\ buf \in [0 .. bufSize - 1 -> Int]
    /\ IndexType
    /\ sent \in Nat /\ taken \in Nat
    /\ put_n \in 0 .. bufSize - 1 /\ put_k \in 0 .. put_n
    /\ get_n \in 0 .. bufSize - 1 /\ get_k \in 0 .. get_n
    /\ peek \in {"no", "copy", "moved"}

\* Where the consumer is, a peek disregarded.
From == IF peek = "no" THEN pFromBuf ELSE temp

(* The indices alone tell how many bytes are in the ring and when it is      *)
(* empty or full, whatever copies are under way.                             *)
CountsAgree ==
    peek = "no" =>
        /\ rngNBytes = sent - taken
        /\ rngIsEmpty <=> sent = taken
        /\ rngIsFull <=> sent - taken = bufSize - 1

(* No byte is overwritten before it is got, and none is read before it is    *)
(* written: without a lock, each unread place of the ring holds the byte     *)
(* that is due there.                                                        *)
UnreadKept ==
    \A k \in 0 .. sent - taken - 1 : buf[Wrap(From + k)] = taken + k

(* A copy in progress stays within the bytes it may touch: those it fills   *)
(* are free, those it reads are unread.                                      *)
CopiesFit ==
    /\ put_n <= bufSize - 1 - (sent - taken)
    /\ get_n <= sent - taken

Fifo == INSTANCE BoundedFifo WITH
            Capacity <- bufSize - 1,
            queue <- [k \in 1 .. sent - taken |-> buf[Wrap(From + k - 1)]],
            next <- sent

(* Every behaviour of the ring is one of a bounded queue.                    *)
FifoSpec == Fifo!Spec

(* rngPutBuf and rngGetBuf without a lock: whatever the other side does      *)
(* during a copy, the indices count what is in the ring, no unread byte is   *)
(* overwritten and no copy leaves the bytes that are its own.                *)
RingKept == TypeOK /\ CountsAgree /\ UnreadKept /\ CopiesFit
=============================================================================
