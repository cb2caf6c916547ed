----------------------------- MODULE PartsProofs -----------------------------
(* What the parts that stand alone promise, for all values of the constants: *)
(* the ring of RngLib, the buffer of udp_source, the probe, gr::msg_queue and *)
(* the preferences.                                                           *)
EXTENDS RngLib, UdpSource, ProbeGet, MsgQueue, Prefs, FiniteSetTheorems, SequenceTheorems, TLAPS

(* The ring: as long as nothing is put while rngBufGetNoDel runs (Exclusive),*)
(* it implements a bounded queue without a lock.                             *)

\* The bytes that were published and not yet removed.
Unread == sent - taken

\* The write index is as far ahead of the read index as there are bytes.
Distance ==
    /\ Unread \in 0 .. bufSize - 1
    /\ pToBuf = Wrap(From + Unread)

\* The bytes copied so far by a put in progress are already those that it
\* will publish.
CopiedKept == \A k \in 0 .. put_k - 1 : buf[Wrap(pToBuf + k)] = sent + k

\* rngBufGetNoDel moves the read index and moves it back; nobody puts meanwhile.
PeekKept ==
    /\ peek # "no" => put_n = 0 /\ get_n > 0
    /\ peek = "copy" => temp = pFromBuf
    /\ put_n = 0 => put_k = 0

IInv == TypeOK /\ Distance /\ CopiesFit /\ CopiedKept /\ UnreadKept /\ PeekKept

-----------------------------------------------------------------------------
\* rngBufPut puts no more than is free.
LEMMA PutFits ==
    ASSUME IndexType, peek = "no", Distance, NEW n \in 1 .. bufSize
    PROVE  BytesPut(n) \in 0 .. bufSize - 1 - Unread
  <1>1. pToBuf \in 0 .. bufSize - 1 /\ pFromBuf \in 0 .. bufSize - 1 /\ bufSize \in Nat \ {0}
    BY SizeAssumption DEF IndexType
  <1>2. Unread = IF pToBuf < pFromBuf THEN pToBuf - pFromBuf + bufSize ELSE pToBuf - pFromBuf
    BY <1>1 DEF Distance, Wrap, From
  <1> QED BY <1>1, <1>2 DEF BytesPut, Less

\* rngBufGet gets no more than is there.
LEMMA GetFits ==
    ASSUME IndexType, peek = "no", Distance, NEW n \in 1 .. bufSize
    PROVE  BytesGot(n) \in 0 .. Unread
  <1>1. pToBuf \in 0 .. bufSize - 1 /\ pFromBuf \in 0 .. bufSize - 1 /\ bufSize \in Nat \ {0}
    BY SizeAssumption DEF IndexType
  <1>2. Unread = IF pToBuf < pFromBuf THEN pToBuf - pFromBuf + bufSize ELSE pToBuf - pFromBuf
    BY <1>1 DEF Distance, Wrap, From
  <1> QED BY <1>1, <1>2 DEF BytesGot, Less

\* The difference of the indices is the number of unread bytes.
LEMMA CountIsUnread ==
    ASSUME IndexType, peek = "no", Distance
    PROVE  /\ rngNBytes = Unread
           /\ rngIsEmpty <=> Unread = 0
           /\ rngIsFull <=> Unread = bufSize - 1
  <1>1. pToBuf \in 0 .. bufSize - 1 /\ pFromBuf \in 0 .. bufSize - 1 /\ bufSize \in Nat \ {0}
    BY SizeAssumption DEF IndexType
  <1>2. Unread = IF pToBuf < pFromBuf THEN pToBuf - pFromBuf + bufSize ELSE pToBuf - pFromBuf
    BY <1>1 DEF Distance, Wrap, From
  <1> QED BY <1>1, <1>2 DEF rngNBytes, rngIsEmpty, rngIsFull

-----------------------------------------------------------------------------
\* An empty ring, and nothing under way.
LEMMA InitIInv == Init => IInv
  <1> SUFFICES ASSUME Init PROVE IInv
    OBVIOUS
  <1> USE SizeAssumption DEF Init
  <1>1. TypeOK
    BY DEF TypeOK, IndexType
  <1>2. Distance /\ CopiesFit
    BY DEF Distance, CopiesFit, Unread, From, Wrap
  <1>3. CopiedKept /\ UnreadKept /\ PeekKept
    BY DEF CopiedKept, UnreadKept, PeekKept
  <1> QED BY <1>1, <1>2, <1>3 DEF IInv

\* The arithmetic facts that the steps of either side start from.
Known ==
    /\ bufSize \in Nat \ {0}
    /\ buf \in [0 .. bufSize - 1 -> Int]
    /\ pToBuf \in Nat /\ pToBuf < bufSize
    /\ From \in Nat /\ From < bufSize
    /\ pFromBuf \in Nat /\ pFromBuf < bufSize
    /\ temp \in Nat /\ temp < bufSize
    /\ sent \in Nat /\ taken \in Nat
    /\ Unread \in Nat /\ Unread < bufSize
    /\ put_n \in Nat /\ put_n + Unread < bufSize /\ put_n < bufSize
    /\ put_k \in Nat /\ put_k <= put_n /\ put_k < bufSize
    /\ get_n \in Nat /\ get_n <= Unread /\ get_n < bufSize
    /\ get_k \in Nat /\ get_k <= get_n
    /\ pToBuf = Wrap(From + Unread)

\* They follow from the invariant.
LEMMA Facts == ASSUME IInv PROVE Known
  <1> USE DEF IInv
  <1>1. /\ bufSize \in Nat \ {0} /\ buf \in [0 .. bufSize - 1 -> Int]
        /\ sent \in Nat /\ taken \in Nat
    BY SizeAssumption DEF TypeOK
  <1>2. /\ pToBuf \in Nat /\ pToBuf < bufSize
        /\ pFromBuf \in Nat /\ pFromBuf < bufSize
        /\ temp \in Nat /\ temp < bufSize
    BY <1>1 DEF TypeOK, IndexType
  <1>3. Unread \in Nat /\ Unread < bufSize /\ pToBuf = Wrap(From + Unread)
    BY <1>1 DEF Distance
  <1>4. From \in Nat /\ From < bufSize
    BY <1>2 DEF From
  <1>5. /\ put_n \in Nat /\ put_k \in Nat /\ put_k <= put_n /\ put_n < bufSize
        /\ get_n \in Nat /\ get_k \in Nat /\ get_k <= get_n
    BY <1>1 DEF TypeOK
  <1>6. put_n + Unread < bufSize /\ get_n <= Unread
    BY <1>1, <1>3, <1>5 DEF CopiesFit, Unread
  <1> QED BY <1>1, <1>2, <1>3, <1>4, <1>5, <1>6 DEF Known

\* The producer settles on n bytes that are free.
LEMMA StartPutStep ==
    ASSUME IInv, Exclusive, NEW n \in 0 .. bufSize - 1 - Unread, StartPut(n)
    PROVE  IInv'
  <1>0. Known
    BY Facts
  <1>1. peek = "no" /\ n > 0 /\ put_n' = n /\ put_k' = 0
    BY DEF StartPut
  <1>2. UNCHANGED <<buf, pToBuf, pFromBuf, sent, get_n, get_k, peek, temp, taken>>
    BY DEF StartPut, consumer
  <1>3. TypeOK'
    BY <1>1, <1>2, <1>0 DEF Known, IInv, TypeOK, IndexType
  <1>4. Distance' /\ CopiesFit'
    BY <1>1, <1>2, <1>0 DEF Known, IInv, Distance, CopiesFit, Unread, From, Wrap
  <1>5. CopiedKept'
    BY <1>1 DEF CopiedKept
  <1>6. UnreadKept'
    BY <1>2 DEF IInv, UnreadKept, From, Wrap
  <1>7. PeekKept'
    BY <1>1, <1>2 DEF PeekKept
  <1> QED BY <1>3, <1>4, <1>5, <1>6, <1>7 DEF IInv

\* The place it fills next is none of the unread ones.
LEMMA PutByteStep == ASSUME IInv, PutByte PROVE IInv'
  <1>0. Known
    BY Facts
  <1> DEFINE place == Wrap(pToBuf + put_k)
  <1>1. /\ put_k < put_n /\ put_k' = put_k + 1
        /\ buf' = [buf EXCEPT ![place] = sent + put_k]
        /\ UNCHANGED <<pToBuf, pFromBuf, put_n, sent, get_n, get_k, peek, temp, taken>>
    BY DEF PutByte, consumer
  <1>2. place \in 0 .. bufSize - 1
    BY <1>1, <1>0 DEF Known, Wrap
  <1>3. TypeOK'
    BY <1>1, <1>2, <1>0 DEF Known, IInv, TypeOK, IndexType
  <1>4. Distance' /\ CopiesFit' /\ PeekKept'
    BY <1>1, <1>0 DEF Known, IInv, Distance, CopiesFit, PeekKept, Unread, From, Wrap
  <1>5. CopiedKept'
    <2> SUFFICES ASSUME NEW k \in 0 .. put_k PROVE buf'[Wrap(pToBuf + k)] = sent + k
      <3>1. put_k' - 1 = put_k
        BY <1>1, <1>0 DEF Known
      <3> QED BY <3>1, <1>1 DEF CopiedKept, Wrap
    <2>1. CASE k = put_k
      BY <2>1, <1>1, <1>2, <1>0 DEF Known
    <2>2. CASE k < put_k
      <3>1. Wrap(pToBuf + k) # place
        BY <2>2, <1>1, <1>0 DEF Known, Wrap
      <3>2. Wrap(pToBuf + k) \in 0 .. bufSize - 1
        BY <2>2, <1>1, <1>0 DEF Known, Wrap
      <3>3. buf[Wrap(pToBuf + k)] = sent + k
        BY <2>2, <1>0 DEF Known, IInv, CopiedKept
      <3> QED BY <3>1, <3>2, <3>3, <1>1, <1>0
    <2> QED BY <2>1, <2>2, <1>0 DEF Known
  <1>6. UnreadKept'
    <2> SUFFICES ASSUME NEW k \in 0 .. sent - taken - 1 PROVE buf'[Wrap(From + k)] = taken + k
      BY <1>1 DEF UnreadKept, From, Wrap
    <2>1. place = Wrap(From + (Unread + put_k))
      BY <1>1, <1>0 DEF Known, Wrap
    <2>2. Wrap(From + k) # place
      BY <1>1, <1>0 DEF Known, Unread, Wrap
    <2>3. Wrap(From + k) \in 0 .. bufSize - 1
      BY <1>0 DEF Known, Unread, Wrap
    <2>4. buf[Wrap(From + k)] = taken + k
      BY DEF IInv, UnreadKept
    <2> QED BY <2>2, <2>3, <2>4, <1>1, <1>0 DEF Known
  <1> QED BY <1>3, <1>4, <1>5, <1>6 DEF IInv

\* Publishing makes unread what CopiedKept says was copied.
LEMMA PutEndStep == ASSUME IInv, PutEnd PROVE IInv'
  <1>0. Known
    BY Facts
  <1>1. /\ put_n > 0 /\ put_k = put_n
        /\ pToBuf' = Wrap(pToBuf + put_n) /\ sent' = sent + put_n
        /\ put_n' = 0 /\ put_k' = 0
        /\ UNCHANGED <<buf, pFromBuf, get_n, get_k, peek, temp, taken>>
    BY DEF PutEnd, consumer
  <1>2. pToBuf' \in 0 .. bufSize - 1
    BY <1>1, <1>0 DEF Known, Wrap
  <1>3. TypeOK'
    BY <1>1, <1>2, <1>0 DEF Known, IInv, TypeOK, IndexType
  <1>4. Unread' = Unread + put_n /\ From' = From
    BY <1>1, <1>0 DEF Known, Unread, From
  <1>5. pToBuf' = Wrap(From + Unread + put_n)
    BY <1>1, <1>0 DEF Known, Wrap
  <1>6. Distance' /\ CopiesFit'
    BY <1>1, <1>4, <1>5, <1>0 DEF Known, Distance, CopiesFit, Unread, Wrap
  <1>7. CopiedKept' /\ PeekKept'
    BY <1>1 DEF CopiedKept, PeekKept, IInv
  <1>8. UnreadKept'
    <2> SUFFICES ASSUME NEW k \in 0 .. Unread + put_n - 1 PROVE buf[Wrap(From + k)] = taken + k
      <3>1. sent' - taken' - 1 = Unread + put_n - 1
        BY <1>4, <1>1, <1>0 DEF Known, Unread
      <3> QED BY <3>1, <1>1, <1>4 DEF UnreadKept, Wrap
    <2>1. CASE k < Unread
      BY <2>1, <1>0 DEF Known, IInv, UnreadKept, Unread
    <2>2. CASE k >= Unread
      <3>1. buf[Wrap(pToBuf + (k - Unread))] = sent + (k - Unread)
        BY <2>2, <1>1, <1>0 DEF Known, IInv, CopiedKept
      <3>2. Wrap(pToBuf + (k - Unread)) = Wrap(From + k)
        BY <2>2, <1>0 DEF Known, Wrap
      <3> QED BY <3>1, <3>2, <2>2, <1>0 DEF Known, Unread
    <2> QED BY <2>1, <2>2, <1>0 DEF Known
  <1> QED BY <1>3, <1>6, <1>7, <1>8 DEF IInv

-----------------------------------------------------------------------------
\* The consumer settles on bytes that are there.
LEMMA StartGetStep ==
    ASSUME IInv, NEW n \in 1 .. bufSize, GetStart(n) \/ (PeekStart(n) /\ Exclusive)
    PROVE  IInv'
  <1>0. Known
    BY Facts
  <1>1. get_n = 0 /\ peek = "no"
    BY DEF GetStart, PeekStart, StartGet, IInv, TypeOK, PeekKept
  <1>2. BytesGot(n) \in 0 .. Unread
    BY <1>1, GetFits DEF IInv, TypeOK
  <1>3. /\ get_n' = BytesGot(n) /\ get_n' > 0 /\ get_k' = 0
        /\ UNCHANGED <<buf, pToBuf, pFromBuf, put_n, put_k, sent, taken>>
        /\ \/ peek' = "no" /\ temp' = temp
           \/ peek' = "copy" /\ temp' = pFromBuf /\ put_n = 0
    BY DEF GetStart, PeekStart, StartGet, producer
  <1>4. TypeOK'
    <2>1. BytesGot(n) \in 0 .. bufSize - 1
      BY <1>2, <1>0 DEF Known
    <2>2. temp' \in 0 .. bufSize - 1
      BY <1>3 DEF IInv, TypeOK, IndexType
    <2> QED
      BY <2>1, <2>2, <1>3 DEF IInv, TypeOK, IndexType
  <1>5. From' = From
    BY <1>1, <1>3 DEF From
  <1>6. Distance' /\ CopiesFit'
    BY <1>2, <1>3, <1>5, <1>0 DEF Known, Distance, CopiesFit, Unread, Wrap
  <1>7. CopiedKept'
    BY <1>3 DEF CopiedKept, IInv, Wrap
  <1>8. UnreadKept'
    BY <1>3, <1>5 DEF UnreadKept, IInv, Wrap
  <1>9. PeekKept'
    BY <1>3 DEF PeekKept, IInv
  <1> QED BY <1>4, <1>6, <1>7, <1>8, <1>9 DEF IInv

\* Copying out changes nothing of the ring.
LEMMA GetByteStep == ASSUME IInv, GetByte PROVE IInv'
  <1>0. Known
    BY Facts
  <1>1. /\ get_k < get_n /\ get_k' = get_k + 1
        /\ UNCHANGED <<buf, pToBuf, pFromBuf, put_n, put_k, sent, get_n, peek, temp, taken>>
    BY DEF GetByte, producer
  <1>2. TypeOK'
    BY <1>1, <1>0 DEF Known, IInv, TypeOK, IndexType
  <1> QED BY <1>1, <1>2 DEF IInv, Distance, CopiesFit, CopiedKept, UnreadKept, PeekKept,
                            Unread, From, Wrap

\* Removing n of the unread bytes leaves the others where they are.
LEMMA Removal ==
    ASSUME IInv, peek = "no", peek' = "no", temp' = temp,
           NEW n \in 1 .. Unread,
           pFromBuf' = Wrap(pFromBuf + n), taken' = taken + n,
           UNCHANGED <<buf, pToBuf, put_n, put_k, sent>>,
           get_n' = 0, get_k' = 0
    PROVE  IInv'
  <1>0. Known
    BY Facts
  <1>1. From = pFromBuf /\ From' = Wrap(From + n)
    BY DEF From
  <1>2. Unread' = Unread - n /\ Unread' \in 0 .. bufSize - 1
    BY <1>0 DEF Known, Unread
  <1>3. From' \in 0 .. bufSize - 1
    BY <1>1, <1>0 DEF Known, Wrap
  <1>4. TypeOK'
    BY <1>1, <1>3, <1>0 DEF Known, IInv, TypeOK, IndexType
  <1>5. \A k \in 0 .. Unread - n : Wrap(From' + k) = Wrap(From + (n + k))
    BY <1>1, <1>0 DEF Known, Wrap
  <1>6. pToBuf' = Wrap(From' + Unread')
    <2>1. Unread - n \in 0 .. Unread - n
      BY <1>0 DEF Known
    <2>2. Wrap(From' + (Unread - n)) = Wrap(From + (n + (Unread - n)))
      BY <2>1, <1>5
    <2>3. n + (Unread - n) = Unread
      BY <1>0 DEF Known
    <2> QED BY <2>2, <2>3, <1>2, <1>0 DEF Known
  <1>7. Distance' /\ CopiesFit' /\ PeekKept'
    BY <1>2, <1>6, <1>0 DEF Known, Distance, CopiesFit, PeekKept, IInv, Unread, Wrap
  <1>8. CopiedKept'
    BY DEF CopiedKept, IInv, Wrap
  <1>9. UnreadKept'
    <2> SUFFICES ASSUME NEW k \in 0 .. Unread - n - 1 PROVE buf[Wrap(From' + k)] = taken + n + k
      BY <1>2, <1>0 DEF Known, UnreadKept, Unread, Wrap
    <2>1. n + k \in 0 .. sent - taken - 1
      BY <1>0 DEF Known, Unread
    <2>2. buf[Wrap(From + (n + k))] = taken + (n + k)
      BY <2>1 DEF IInv, UnreadKept
    <2> QED BY <2>2, <1>5, <1>0 DEF Known
  <1> QED BY <1>4, <1>7, <1>8, <1>9 DEF IInv

\* The read index moves past the bytes copied, for good or for the time of a peek.
LEMMA GetEndStep == ASSUME IInv, GetEnd PROVE IInv'
  <1>0. Known
    BY Facts
  <1>1. /\ get_n > 0 /\ get_k = get_n /\ peek # "moved"
        /\ pFromBuf' = Wrap(pFromBuf + get_n)
        /\ UNCHANGED <<buf, pToBuf, put_n, put_k, sent, temp>>
    BY DEF GetEnd, producer
  <1>2. CASE peek = "no"
    <2>1. taken' = taken + get_n /\ get_n' = 0 /\ get_k' = 0 /\ peek' = "no"
      BY <1>2 DEF GetEnd
    <2> QED BY <2>1, <1>1, <1>2, <1>0, Removal DEF Known
  <1>3. CASE peek = "copy"
    <2>1. peek' = "moved" /\ UNCHANGED <<get_n, get_k, taken>>
      BY <1>3 DEF GetEnd
    <2>2. pFromBuf' \in 0 .. bufSize - 1
      BY <1>1, <1>0 DEF Known, Wrap
    <2>3. TypeOK'
      BY <1>1, <2>1, <2>2, <1>0 DEF Known, IInv, TypeOK, IndexType
    <2>4. From' = From
      BY <1>3, <2>1, <1>1 DEF From
    <2>5. Distance' /\ CopiesFit' /\ CopiedKept' /\ UnreadKept'
      BY <1>1, <2>1, <2>4 DEF IInv, Distance, CopiesFit, CopiedKept, UnreadKept, Unread, Wrap
    <2>6. PeekKept'
      BY <1>1, <1>3, <2>1 DEF PeekKept, IInv
    <2> QED BY <2>3, <2>5, <2>6 DEF IInv
  <1> QED BY <1>1, <1>2, <1>3 DEF IInv, TypeOK

\* The index is put back to where the consumer is.
LEMMA PeekEndStep == ASSUME IInv, PeekEnd PROVE IInv'
  <1>0. Known
    BY Facts
  <1>1. /\ peek = "moved" /\ peek' = "no" /\ pFromBuf' = temp
        /\ get_n' = 0 /\ get_k' = 0
        /\ UNCHANGED <<buf, pToBuf, put_n, put_k, sent, temp, taken>>
    BY DEF PeekEnd, producer
  <1>2. TypeOK'
    BY <1>1, <1>0 DEF Known, IInv, TypeOK, IndexType
  <1>3. From' = From
    BY <1>1 DEF From
  <1>4. Distance' /\ CopiesFit'
    BY <1>1, <1>3, <1>0 DEF Known, IInv, Distance, CopiesFit, Unread, Wrap
  <1>5. CopiedKept' /\ UnreadKept' /\ PeekKept'
    BY <1>1, <1>3 DEF IInv, CopiedKept, UnreadKept, PeekKept, Wrap
  <1> QED BY <1>2, <1>4, <1>5 DEF IInv

\* rngMoveRead is a get without the copy.
LEMMA MoveReadStep ==
    ASSUME IInv, NEW n \in 1 .. bufSize, MoveRead(n)
    PROVE  IInv'
  <1>0. Known
    BY Facts
  <1>1. /\ get_n = 0 /\ n \in 1 .. rngNBytes
        /\ pFromBuf' = Wrap(pFromBuf + n) /\ taken' = taken + n
        /\ UNCHANGED <<buf, pToBuf, put_n, put_k, sent, get_n, get_k, peek, temp>>
    BY DEF MoveRead, producer
  <1>2. peek = "no" /\ get_k = 0
    BY <1>1, <1>0 DEF Known, IInv, PeekKept
  <1>3. n \in 1 .. Unread
    BY <1>1, <1>2, CountIsUnread DEF IInv, TypeOK
  <1> QED BY <1>1, <1>2, <1>3, Removal

\* Every step of either side keeps the invariant, if no put meets a peek.
LEMMA StepIInv == ASSUME IInv, Exclusive, [Next]_vars PROVE IInv'
  <1>0. Known
    BY Facts
  <1>1. ASSUME NEW n \in 1 .. bufSize, PutStart(n) PROVE IInv'
    <2>1. peek = "no"
      BY <1>1 DEF PutStart, StartPut
    <2>2. BytesPut(n) \in 0 .. bufSize - 1 - Unread
      BY <2>1, PutFits DEF IInv, TypeOK
    <2> QED BY <1>1, <2>2, StartPutStep DEF PutStart
  <1>2. ASSUME NEW n \in 1 .. bufSize, AheadStart(n) PROVE IInv'
    <2>1. peek = "no" /\ n < bufSize - rngNBytes
      BY <1>2 DEF AheadStart, StartPut
    <2>2. n \in 0 .. bufSize - 1 - Unread
      BY <2>1, CountIsUnread, <1>0 DEF Known, IInv, TypeOK
    <2> QED BY <1>2, <2>2, StartPutStep DEF AheadStart
  <1>3. CASE UNCHANGED vars
    BY <1>3 DEF vars, producer, consumer, IInv, TypeOK, IndexType, Distance, CopiesFit, CopiedKept,
                UnreadKept, PeekKept, Unread, From, Wrap
  <1> QED
    BY <1>1, <1>2, <1>3, PutByteStep, PutEndStep, StartGetStep, GetByteStep, GetEndStep,
       PeekEndStep, MoveReadStep DEF Next, Produce, Consume

-----------------------------------------------------------------------------
\* The inductive invariant holds for every size of ring.
THEOREM Invariance == ASSUME Exclusive PROVE Spec => []IInv
  <1>1. IInv /\ [Next]_vars => IInv'
    BY StepIInv
  <1> QED BY <1>1, InitIInv, PTL DEF Spec

\* Indices stay in the ring and copies within what was asked for.
THEOREM TypeCorrect == ASSUME Exclusive PROVE Spec => []TypeOK
  <1>1. IInv => TypeOK
    BY DEF IInv
  <1> QED BY <1>1, Invariance, PTL

\* The indices alone always tell how many bytes there are, and empty from full.
THEOREM CountsAlwaysAgree == ASSUME Exclusive PROVE Spec => []CountsAgree
  <1>1. ASSUME IInv, peek = "no" PROVE CountsAgree
    <2>1. IndexType /\ Distance
      BY <1>1 DEF IInv, TypeOK
    <2>2. /\ rngNBytes = Unread
          /\ rngIsEmpty <=> Unread = 0
          /\ rngIsFull <=> Unread = bufSize - 1
      BY <1>1, <2>1, CountIsUnread
    <2>3. Unread = 0 <=> sent = taken
      BY <1>1, Facts DEF IInv, TypeOK, Unread
    <2> QED BY <2>2, <2>3 DEF CountsAgree, Unread
  <1>2. IInv => CountsAgree
    BY <1>1 DEF CountsAgree
  <1> QED BY <1>2, Invariance, PTL

\* No unread byte is overwritten, and none is read before it is written.
THEOREM UnreadAlwaysKept == ASSUME Exclusive PROVE Spec => []UnreadKept
  <1>1. IInv => UnreadKept
    BY DEF IInv
  <1> QED BY <1>1, Invariance, PTL

\* Both copies stay within the bytes that are theirs.
THEOREM CopiesAlwaysFit == ASSUME Exclusive PROVE Spec => []CopiesFit
  <1>1. IInv => CopiesFit
    BY DEF IInv
  <1> QED BY <1>1, Invariance, PTL

-----------------------------------------------------------------------------
(* The refinement.  By UnreadKept the queue that FifoSpec sees is the numbers *)
(* of the unread bytes, and nothing else of the ring.                        *)

Numbers(from, n) == [k \in 1 .. n |-> from + k - 1]

\* As a sequence it has n elements.
LEMMA NumbersLen ==
    ASSUME NEW from \in Nat, NEW n \in Nat
    PROVE  Numbers(from, n) \in Seq(Nat) /\ Len(Numbers(from, n)) = n
  BY DEF Numbers

\* A new ring is an empty queue.
LEMMA InitFifo == Init => Fifo!Init
  <1> SUFFICES ASSUME Init PROVE Fifo!Init
    OBVIOUS
  <1>1. sent = 0 /\ taken = 0
    BY DEF Init
  <1>2. [k \in 1 .. sent - taken |-> buf[Wrap(From + k - 1)]] = <<>>
    BY <1>1
  <1> QED BY <1>1, <1>2 DEF Fifo!Init

\* Publishing n bytes is a put of n; removing n is a get of n.
LEMMA StepFifo == ASSUME IInv, IInv', Exclusive, [Next]_vars PROVE [Fifo!Next]_(Fifo!vars)
  <1> DEFINE queue == [k \in 1 .. sent - taken |-> buf[Wrap(From + k - 1)]]
  <1>a. bufSize \in Nat \ {0} /\ sent \in Nat /\ taken \in Nat /\ sent' \in Nat /\ taken' \in Nat
    BY SizeAssumption DEF IInv, TypeOK
  <1>b. From \in Nat /\ From' \in Nat
    BY <1>a DEF IInv, TypeOK, IndexType, From
  <1>c. Unread \in 0 .. bufSize - 1 /\ Unread' \in 0 .. bufSize - 1
    BY DEF IInv, Distance
  <1>d. sent - taken \in Nat /\ sent - taken <= bufSize - 1
    BY <1>a, <1>c DEF Unread
  <1>e. sent' - taken' \in Nat /\ sent' - taken' <= bufSize - 1
    <2>1. Unread' = sent' - taken'
      BY DEF Unread
    <2>2. Unread' \in Nat /\ Unread' <= bufSize - 1
      BY <1>a, <1>c
    <2> QED BY <2>1, <2>2
  <1>2. queue = Numbers(taken, sent - taken)
    <2>1. \A k \in 0 .. (sent - taken) - 1 : buf[Wrap(From + k)] = taken + k
      BY DEF IInv, UnreadKept
    <2>2. ASSUME NEW k \in 1 .. sent - taken
          PROVE  buf[Wrap(From + k - 1)] = taken + k - 1
      <3>1. k - 1 \in 0 .. (sent - taken) - 1
        BY <1>d
      <3>2. From + (k - 1) = From + k - 1 /\ taken + (k - 1) = taken + k - 1
        BY <1>a, <1>b
      <3>3. buf[Wrap(From + (k - 1))] = taken + (k - 1)
        BY <2>1, <3>1
      <3> QED BY <3>2, <3>3
    <2> QED BY <2>2 DEF Numbers
  <1>3. queue' = Numbers(taken', sent' - taken')
    <2>1. \A k \in 0 .. (sent' - taken') - 1 : buf'[Wrap(From' + k)] = taken' + k
      BY DEF IInv, UnreadKept, Wrap
    <2>2. ASSUME NEW k \in 1 .. sent' - taken'
          PROVE  buf'[Wrap(From' + k - 1)] = taken' + k - 1
      <3>1. k - 1 \in 0 .. (sent' - taken') - 1
        BY <1>e
      <3>2. From' + (k - 1) = From' + k - 1 /\ taken' + (k - 1) = taken' + k - 1
        BY <1>a, <1>b
      <3>3. buf'[Wrap(From' + (k - 1))] = taken' + (k - 1)
        BY <2>1, <3>1
      <3> QED BY <3>2, <3>3
    <2> QED BY <2>2 DEF Numbers, Wrap
  <1> HIDE DEF queue
  <1>4. ASSUME NEW n \in Nat \ {0}, sent' = sent + n, taken' = taken
        PROVE  Fifo!Next
    <2>1. n \in 1 .. bufSize - 1
      BY <1>a, <1>b, <1>d, <1>e, <1>4
    <2>2. Len(queue) = sent - taken
      BY <1>a, <1>b, <1>d, <1>e, <1>2, NumbersLen
    <2>3. queue' = Numbers(taken, (sent - taken) + n)
      BY <1>a, <1>b, <1>d, <1>e, <1>3, <1>4
    <2>4. queue' = [k \in 1 .. Len(queue) + n |->
                       IF k <= Len(queue) THEN queue[k] ELSE sent + k - Len(queue) - 1]
      BY <2>3, <2>2, <1>a, <1>d, <1>2 DEF Numbers
    <2>5. Fifo!Put(n)
      BY <2>1, <2>2, <2>4, <1>a, <1>b, <1>d, <1>e, <1>4 DEF Fifo!Put, queue
    <2> QED BY <2>1, <2>5 DEF Fifo!Next
  <1>5. ASSUME NEW n \in Nat \ {0}, sent' = sent, taken' = taken + n
        PROVE  Fifo!Next
    <2>1. n \in 1 .. bufSize - 1 /\ n \in 0 .. sent - taken
      BY <1>a, <1>b, <1>d, <1>e, <1>5
    <2>2. Len(queue) = sent - taken
      BY <1>a, <1>b, <1>d, <1>e, <1>2, NumbersLen
    <2>3. queue' = Numbers(taken + n, (sent - taken) - n)
      BY <1>a, <1>b, <1>d, <1>e, <1>3, <1>5
    <2>4. queue' = [k \in 1 .. Len(queue) - n |-> queue[k + n]]
      BY <2>1, <2>3, <2>2, <1>a, <1>d, <1>2 DEF Numbers
    <2>5. Fifo!Get(n)
      <3>1. n <= Len(queue)
        BY <2>1, <2>2, <1>d
      <3> QED BY <3>1, <2>4, <1>5 DEF Fifo!Get, queue
    <2> QED BY <2>1, <2>5 DEF Fifo!Next
  <1>6. ASSUME sent' = sent, taken' = taken PROVE UNCHANGED Fifo!vars
    BY <1>2, <1>3, <1>6 DEF Fifo!vars, queue
  <1>7. \/ sent' = sent /\ taken' = taken
        \/ \E n \in Nat \ {0} : sent' = sent + n /\ taken' = taken
        \/ \E n \in Nat \ {0} : sent' = sent /\ taken' = taken + n
    <2>1. CASE Produce
      BY <2>1 DEF Produce, PutStart, AheadStart, StartPut, PutByte, PutEnd, consumer, IInv, TypeOK
    <2>2. CASE Consume
      <3>1. ASSUME NEW n \in 1 .. bufSize, GetStart(n) \/ PeekStart(n)
            PROVE  sent' = sent /\ taken' = taken
        BY <3>1 DEF GetStart, PeekStart, StartGet, producer
      <3>2. ASSUME NEW n \in 1 .. bufSize, MoveRead(n)
            PROVE  \E j \in Nat \ {0} : sent' = sent /\ taken' = taken + j
        BY <3>2 DEF MoveRead, producer
      <3>3. CASE GetByte \/ PeekEnd
        BY <3>3 DEF GetByte, PeekEnd, producer
      <3>4. CASE GetEnd
        BY <3>4 DEF GetEnd, producer, IInv, TypeOK
      <3> QED BY <2>2, <3>1, <3>2, <3>3, <3>4 DEF Consume
    <2>3. CASE UNCHANGED vars
      BY <2>3 DEF vars, producer, consumer
    <2> QED BY <2>1, <2>2, <2>3 DEF Next
  <1> QED BY <1>4, <1>5, <1>6, <1>7

\* The ring implements a bounded queue of bufSize - 1 bytes, for every bufSize.
THEOREM Refinement == ASSUME Exclusive PROVE Spec => FifoSpec
  <1>1. IInv /\ IInv' /\ [Next]_vars => [Fifo!Next]_(Fifo!vars)
    BY StepFifo
  <1> QED BY <1>1, InitFifo, Invariance, PTL DEF Spec, FifoSpec, Fifo!Spec

-----------------------------------------------------------------------------
\* The ring without a lock, for every size of it: rngPutBuf and rngGetBuf count
\* right, overwrite nothing unread and stay within the bytes that are theirs.
THEOREM RingAlwaysKept == ASSUME Exclusive PROVE Spec => []RingKept
  <1>1. TypeOK /\ CountsAgree /\ UnreadKept /\ CopiesFit => RingKept
    BY DEF RingKept
  <1> QED
    BY <1>1, TypeCorrect, CountsAlwaysAgree, UnreadAlwaysKept, CopiesAlwaysFit, PTL

-----------------------------------------------------------------------------
(* The buffer of udp_source.                                                 *)

\* The first byte that is in the buffer and was not sent.
Unsent == accepted - Len(d_residbuf) + d_sent

\* The buffer holds the last bytes that came in, the part of it that was sent first.
Buffered ==
    /\ Len(d_residbuf) <= accepted
    /\ d_residual >= 0 => d_residual = Len(d_residbuf)
    /\ d_sent <= Len(d_residbuf)
    /\ \A k \in 1 .. Len(d_residbuf) : d_residbuf[k] = accepted - Len(d_residbuf) + k - 1

\* All before the first that was not sent went out or was cut off.
SentUp ==
    /\ \A k \in 1 .. Len(out) : out[k] < Unsent
    /\ \A j, k \in 1 .. Len(out) : j < k => out[j] < out[k]
    /\ \A b \in 0 .. Unsent - 1 : b \in cut \/ \E k \in 1 .. Len(out) : out[k] = b
    /\ \A b \in cut : b < Unsent

\* Once the stream is over no datagram is received.
Over == d_residual = WORK_DONE => service # "running"

UInv == UTypeOK /\ Buffered /\ SentUp /\ ItemsWhole /\ Over

LEMMA UInitInv == UInit => UInv
<1> SUFFICES ASSUME UInit PROVE UInv
    OBVIOUS
<1>1. d_residbuf = <<>> /\ out = <<>> /\ d_residual = 0 /\ d_sent = 0 /\ accepted = 0 /\ cut = {}
      /\ service = "running" /\ receiving = TRUE /\ d_connected = TRUE
    BY DEF UInit
<1>2. <<>> \in Seq(Nat) /\ Len(<<>>) = 0 /\ DOMAIN <<>> = {}
    BY EmptySeq
<1>3. UTypeOK
    <2>1. BufferBytes \in Nat
        BY UdpAssumption DEF BufferBytes
    <2> QED
        BY <1>1, <1>2, <2>1 DEF UTypeOK, WORK_DONE
<1>4. ItemsWhole
    BY <1>1, <1>2, UdpAssumption DEF ItemsWhole
<1>5. Buffered /\ SentUp /\ Over
    BY <1>1, <1>2 DEF Buffered, SentUp, Over, Unsent, WORK_DONE
<1> QED
    BY <1>3, <1>4, <1>5 DEF UInv

LEMMA ReadKeeps ==
    ASSUME UInv, NEW n \in 0 .. d_payload_size, Read(n)
    PROVE  UInv'
<1> USE DEF UInv
<1> DEFINE new == [k \in 1 .. n |-> accepted + k - 1]
           l == Len(d_residbuf)
<1>1. /\ d_residbuf' = d_residbuf \o new /\ d_residual' = d_residual + n /\ accepted' = accepted + n
      /\ service = "running" /\ Fits(n)
      /\ UNCHANGED <<d_sent, service, receiving, d_connected, out, cut, reconnects>>
    BY DEF Read, Receiving
<1>2. n \in Nat /\ l \in Nat /\ accepted \in Nat /\ d_residbuf \in Seq(Nat) /\ BufferBytes \in Nat
    BY UdpAssumption DEF UTypeOK, BufferBytes
<1>3. d_residual = l /\ d_residual \in Nat /\ l + n < BufferBytes
    BY <1>1, <1>2 DEF Over, Buffered, UTypeOK, Fits, WORK_DONE
<1>4. new \in Seq(Nat) /\ Len(new) = n /\ \A k \in 1 .. n : new[k] = accepted + k - 1
    BY <1>2
<1> HIDE DEF new
<1>5. /\ d_residbuf' \in Seq(Nat) /\ Len(d_residbuf') = l + n
      /\ \A k \in 1 .. l + n : d_residbuf'[k] = IF k <= l THEN d_residbuf[k] ELSE new[k - l]
    BY <1>1, <1>2, <1>4, ConcatProperties
<1>6. UTypeOK'
    <2>1. d_residual' \in 0 .. BufferBytes - 1 /\ accepted' \in Nat
        BY <1>1, <1>2, <1>3
    <2>2. BufferBytes' = BufferBytes
        BY DEF BufferBytes
    <2> QED
        BY <1>1, <1>5, <2>1, <2>2 DEF UTypeOK
<1>7. Buffered'
    <2>1. \A k \in 1 .. l : d_residbuf[k] = accepted - l + k - 1
        BY DEF Buffered
    <2>2. \A k \in 1 .. l + n : k <= l => k \in 1 .. l
        BY <1>2
    <2>3. \A k \in 1 .. l + n : ~(k <= l) => k - l \in 1 .. n
        BY <1>2
    <2>4. ASSUME NEW k \in 1 .. l + n PROVE d_residbuf'[k] = (accepted + n) - (l + n) + k - 1
        <3>1. CASE k <= l
            <4>1. d_residbuf'[k] = d_residbuf[k] /\ k \in 1 .. l
                BY <1>5, <2>2, <3>1
            <4>2. d_residbuf[k] = accepted - l + k - 1
                BY <2>1, <4>1
            <4> HIDE DEF l
            <4>3. (accepted + n) - (l + n) + k - 1 = accepted - l + k - 1
                BY <1>2, <4>1
            <4> QED
                BY <4>1, <4>2, <4>3
        <3>2. CASE ~(k <= l)
            <4>1. d_residbuf'[k] = new[k - l] /\ k - l \in 1 .. n
                BY <1>5, <2>3, <3>2
            <4>2. new[k - l] = accepted + (k - l) - 1
                BY <1>4, <4>1
            <4> QED
                BY <1>2, <4>1, <4>2
        <3> QED
            BY <3>1, <3>2
    <2>5. d_sent <= l /\ l <= accepted /\ d_sent \in Nat
        BY <1>2, UdpAssumption DEF Buffered, UTypeOK
    <2> HIDE DEF l
    <2>6. l + n <= accepted + n /\ d_sent <= l + n /\ d_residual' = l + n
        BY <1>1, <1>2, <1>3, <2>5
    <2> QED
        BY <1>1, <1>5, <2>4, <2>6 DEF Buffered
<1>8. SentUp'
    <2>1. Unsent' = Unsent
        BY <1>1, <1>2, <1>5 DEF Unsent, UTypeOK
    <2> QED
        BY <1>1, <2>1 DEF SentUp
<1>9. ItemsWhole' /\ Over'
    <2>1. d_residual' # WORK_DONE
        BY <1>1, <1>2, <1>3 DEF WORK_DONE
    <2>2. ItemsWhole'
        BY <1>1 DEF ItemsWhole
    <2> QED
        BY <2>1, <2>2 DEF Over, WORK_DONE
<1> QED
    BY <1>6, <1>7, <1>8, <1>9

\* Of n bytes those of whole items count.
LEMMA CountedOf ==
    ASSUME NEW n \in Nat
    PROVE  /\ Counted(n) \in 0 .. n
           /\ \A a \in Nat : a % d_itemsize = 0 => (a + Counted(n)) % d_itemsize = 0
<1>1. d_itemsize \in Nat \ {0}
    BY UdpAssumption
<1> DEFINE q == n \div d_itemsize
           r == n % d_itemsize
<1>2. q \in Nat /\ r \in 0 .. d_itemsize - 1 /\ n = q * d_itemsize + r
    BY <1>1
<1>3. Counted(n) = q * d_itemsize
    BY DEF Counted
<1> HIDE DEF q, r
<1>4. q * d_itemsize \in Nat
    BY <1>1, <1>2
<1>5. ASSUME NEW a \in Nat, a % d_itemsize = 0 PROVE (a + q * d_itemsize) % d_itemsize = 0
    <2> DEFINE p == a \div d_itemsize
    <2>1. p \in Nat /\ a = p * d_itemsize + 0
        BY <1>1, <1>5
    <2> HIDE DEF p
    <2>2. a + q * d_itemsize = (p + q) * d_itemsize + 0 /\ p + q \in Nat
        BY <1>1, <1>2, <2>1
    <2>3. \A m \in Nat : (m * d_itemsize + 0) % d_itemsize = 0
        BY <1>1
    <2> QED
        BY <2>2, <2>3
<1> QED
    BY <1>2, <1>3, <1>4, <1>5

LEMMA UWorkKeeps ==
    ASSUME UInv, NEW noutput \in 1 .. MaxItems, UWork(noutput)
    PROVE  UInv'
<1> USE DEF UInv
<1> DEFINE n == Smaller(d_itemsize * noutput, d_residual - d_sent)
           bytes == SubSeq(d_residbuf, d_sent + 1, d_sent + n)
           c == Counted(n)
           l == Len(d_residbuf)
           m == Len(out)
           passed == SubSeq(bytes, 1, c)
<1>1. /\ d_residual >= 0 /\ out' = out \o passed /\ cut' = cut \cup {bytes[k] : k \in c + 1 .. n} /\ Rest(n)
      /\ UNCHANGED <<service, receiving, d_connected, accepted, reconnects>>
    BY DEF UWork
<1>2. /\ l \in Nat /\ d_residual = l /\ d_sent \in Nat /\ d_sent <= l /\ l <= accepted /\ accepted \in Nat
      /\ BufferBytes \in Nat /\ d_residbuf \in Seq(Nat) /\ m \in Nat /\ out \in Seq(Nat) /\ cut \subseteq Nat
    BY <1>1, UdpAssumption DEF UTypeOK, Buffered, BufferBytes
<1>3. n \in 0 .. l - d_sent
    <2>1. PICK wanted : wanted = d_itemsize * noutput
        OBVIOUS
    <2>2. wanted \in Nat
        BY <2>1, UdpAssumption
    <2>3. n = IF wanted < l - d_sent THEN wanted ELSE l - d_sent
        BY <1>2, <2>1 DEF Smaller
    <2> QED
        BY <1>2, <2>2, <2>3
<1>4. c \in 0 .. n /\ (m % d_itemsize = 0 => (m + c) % d_itemsize = 0)
    BY <1>2, <1>3, CountedOf
<1>5. Unsent \in Nat /\ Unsent + n <= accepted
    BY <1>2, <1>3 DEF Unsent
<1> HIDE DEF n, c
\* The bytes taken follow each other from the first that was not passed.
<1>6. bytes \in Seq(Nat) /\ Len(bytes) = n /\ \A k \in 1 .. n : bytes[k] = Unsent + k - 1
    <2>1. \A i \in d_sent + 1 .. d_sent + n : i \in 1 .. l /\ d_residbuf[i] = accepted - l + i - 1
        BY <1>2, <1>3 DEF Buffered
    <2>2. \A i \in d_sent + 1 .. d_sent + n : d_residbuf[i] \in Nat
        BY <1>2, <2>1
    <2>3. d_sent + 1 \in Int /\ d_sent + n \in Int
        BY <1>2, <1>3
    <2>4. /\ bytes \in Seq(Nat)
          /\ Len(bytes) = IF d_sent + 1 <= d_sent + n THEN (d_sent + n) - (d_sent + 1) + 1 ELSE 0
          /\ \A i \in 1 .. (d_sent + n) - (d_sent + 1) + 1 : bytes[i] = d_residbuf[(d_sent + 1) + i - 1]
        BY <2>2, <2>3, SubSeqProperties
    <2> HIDE DEF bytes
    <2>5. \A k \in 1 .. n : k \in 1 .. (d_sent + n) - (d_sent + 1) + 1
              /\ (d_sent + 1) + k - 1 \in d_sent + 1 .. d_sent + n
        BY <1>2, <1>3
    <2>6. ASSUME NEW k \in 1 .. n PROVE bytes[k] = Unsent + k - 1
        <3>1. bytes[k] = accepted - l + ((d_sent + 1) + k - 1) - 1
            BY <2>1, <2>4, <2>5
        <3> QED
            BY <1>2, <3>1 DEF Unsent
    <2>7. Len(bytes) = n
        BY <1>2, <1>3, <2>4
    <2> QED
        BY <2>4, <2>6, <2>7
<1> HIDE DEF bytes
<1>7. passed \in Seq(Nat) /\ Len(passed) = c /\ \A k \in 1 .. c : passed[k] = Unsent + k - 1
    <2>1. 1 \in Int /\ c \in Int /\ \A i \in 1 .. c : i \in 1 .. n /\ bytes[i] \in Nat
        BY <1>3, <1>4, <1>6
    <2>2. /\ passed \in Seq(Nat) /\ Len(passed) = IF 1 <= c THEN c - 1 + 1 ELSE 0
          /\ \A i \in 1 .. c - 1 + 1 : passed[i] = bytes[1 + i - 1]
        BY <2>1, SubSeqProperties
    <2> HIDE DEF passed
    <2>3. \A i \in 1 .. c : i \in 1 .. c - 1 + 1 /\ 1 + i - 1 = i
        BY <1>3, <1>4
    <2>4. \A k \in 1 .. c : passed[k] = Unsent + k - 1
        BY <1>6, <2>1, <2>2, <2>3
    <2>5. Len(passed) = c
        BY <1>3, <1>4, <2>2
    <2> QED
        BY <2>2, <2>4, <2>5
<1> HIDE DEF passed
<1>8. /\ out' \in Seq(Nat) /\ Len(out') = m + c
      /\ \A k \in 1 .. m + c : out'[k] = IF k <= m THEN out[k] ELSE passed[k - m]
    BY <1>1, <1>2, <1>7, ConcatProperties
\* Those that go out, and those that are cut off.
<1>9. /\ \A k \in 1 .. m : out'[k] = out[k]
      /\ \A k \in m + 1 .. m + c : out'[k] = Unsent + (k - m) - 1
    <2>1. \A k \in 1 .. m : k \in 1 .. m + c /\ k <= m
        BY <1>2, <1>3, <1>4
    <2>2. \A k \in m + 1 .. m + c : k \in 1 .. m + c /\ ~(k <= m) /\ k - m \in 1 .. c
        BY <1>2, <1>3, <1>4
    <2> QED
        BY <1>7, <1>8, <2>1, <2>2
<1>10. \A b \in Int : b \in cut' <=> b \in cut \/ b \in Unsent + c .. Unsent + n - 1
    <2>1. ASSUME NEW b \in Unsent + c .. Unsent + n - 1 PROVE \E k \in c + 1 .. n : bytes[k] = b
        <3>1. b - Unsent + 1 \in c + 1 .. n /\ b - Unsent + 1 \in 1 .. n
            BY <1>3, <1>4, <1>5
        <3>2. bytes[b - Unsent + 1] = Unsent + (b - Unsent + 1) - 1
            BY <1>6, <3>1
        <3>3. bytes[b - Unsent + 1] = b
            BY <1>5, <3>2
        <3> QED
            BY <3>1, <3>3
    <2>2. ASSUME NEW k \in c + 1 .. n PROVE bytes[k] \in Unsent + c .. Unsent + n - 1
        <3>1. k \in 1 .. n
            BY <1>3, <1>4
        <3>2. bytes[k] = Unsent + k - 1
            BY <1>6, <3>1
        <3> QED
            BY <1>3, <1>4, <1>5, <3>2
    <2> QED
        BY <1>1, <2>1, <2>2
\* The buffer moves on by n, or starts again behind them.
<1>11. /\ d_residbuf' \in Seq(Nat) /\ Buffered' /\ Unsent' = Unsent + n
       /\ d_residual' \in {0, l} /\ d_sent' \in 0 .. l
    <2>1. CASE n = d_residual - d_sent
        <3>1. d_residbuf' = <<>> /\ d_residual' = 0 /\ d_sent' = 0 /\ accepted' = accepted
            BY <1>1, <2>1 DEF Rest
        <3>2. Buffered' /\ d_residbuf' \in Seq(Nat)
            BY <1>2, <3>1, EmptySeq DEF Buffered
        <3>3. Unsent' = Unsent + n
            BY <1>2, <2>1, <3>1 DEF Unsent
        <3> QED
            BY <1>2, <3>1, <3>2, <3>3
    <2>2. CASE n # d_residual - d_sent
        <3>1. d_sent' = d_sent + n /\ d_residbuf' = d_residbuf /\ d_residual' = d_residual /\ accepted' = accepted
            BY <1>1, <2>2 DEF Rest
        <3>2. d_sent' \in 0 .. l
            BY <1>2, <1>3, <3>1
        <3>3. Buffered'
            BY <3>1, <3>2 DEF Buffered
        <3>4. Unsent' = Unsent + n
            BY <1>2, <1>3, <3>1 DEF Unsent
        <3> QED
            BY <1>2, <3>1, <3>2, <3>3, <3>4
    <2> QED
        BY <2>1, <2>2
<1> HIDE DEF l, m
<1>12. UTypeOK'
    <2>1. BufferBytes' = BufferBytes
        BY DEF BufferBytes
    <2>2. d_residual' \in {WORK_DONE, 0} \cup 0 .. BufferBytes - 1 /\ d_sent' \in 0 .. BufferBytes
        BY <1>1, <1>2, <1>11 DEF UTypeOK, WORK_DONE
    <2>3. cut' \subseteq Nat
        <3>1. \A k \in c + 1 .. n : k \in 1 .. n /\ bytes[k] \in Nat
            BY <1>3, <1>4, <1>6
        <3> QED
            BY <1>1, <1>2, <3>1
    <2> QED
        BY <1>1, <1>8, <1>11, <2>1, <2>2, <2>3 DEF UTypeOK
<1>13. ASSUME NEW k \in 1 .. m + c PROVE k \in 1 .. m \/ k \in m + 1 .. m + c
    BY <1>2, <1>3, <1>4
<1>14. SentUp'
    <2>1. \A k \in 1 .. m : out[k] < Unsent /\ out[k] \in Nat
        BY <1>2 DEF SentUp, m
    <2>2. \A k \in 1 .. m + c : out'[k] < Unsent + n
        <3> SUFFICES ASSUME NEW k \in 1 .. m + c PROVE out'[k] < Unsent + n
            OBVIOUS
        <3>1. CASE k \in 1 .. m
            BY <1>3, <1>5, <1>9, <2>1, <3>1
        <3>2. CASE k \in m + 1 .. m + c
            BY <1>2, <1>3, <1>4, <1>5, <1>9, <3>2
        <3> QED
            BY <1>13, <3>1, <3>2
    <2>3. ASSUME NEW j \in 1 .. m + c, NEW k \in 1 .. m + c, j < k PROVE out'[j] < out'[k]
        <3>1. CASE k \in 1 .. m
            <4>1. j \in 1 .. m
                BY <2>3, <3>1, <1>2
            <4> QED
                BY <1>9, <2>3, <3>1, <4>1 DEF SentUp, m
        <3>2. CASE k \in m + 1 .. m + c /\ j \in 1 .. m
            <4>1. out'[j] = out[j] /\ out[j] < Unsent /\ out[j] \in Nat
                BY <1>9, <2>1, <3>2
            <4>2. out'[k] = Unsent + (k - m) - 1
                BY <1>9, <3>2
            <4>3. Unsent <= Unsent + (k - m) - 1 /\ Unsent + (k - m) - 1 \in Int
                BY <1>2, <1>5, <3>2
            <4> QED
                BY <1>5, <4>1, <4>2, <4>3
        <3>3. CASE k \in m + 1 .. m + c /\ j \in m + 1 .. m + c
            BY <1>2, <1>5, <1>9, <2>3, <3>3
        <3> QED
            BY <1>13, <3>1, <3>2, <3>3
    <2>4. ASSUME NEW b \in 0 .. (Unsent + n) - 1
          PROVE  b \in cut' \/ \E k \in 1 .. m + c : out'[k] = b
        <3>1. CASE b < Unsent
            <4>1. b \in 0 .. Unsent - 1
                BY <1>5, <3>1
            <4>2. b \in cut \/ \E k \in 1 .. m : out[k] = b
                BY <4>1 DEF SentUp, m
            <4>3. \A k \in 1 .. m : k \in 1 .. m + c
                BY <1>2, <1>3, <1>4
            <4> QED
                BY <1>9, <1>10, <4>2, <4>3
        <3>2. CASE b \in Unsent .. Unsent + c - 1
            <4>1. m + (b - Unsent) + 1 \in m + 1 .. m + c /\ m + (b - Unsent) + 1 \in 1 .. m + c
                BY <1>2, <1>3, <1>4, <1>5, <3>2
            <4>2. out'[m + (b - Unsent) + 1] = Unsent + ((m + (b - Unsent) + 1) - m) - 1
                BY <1>9, <4>1
            <4>3. out'[m + (b - Unsent) + 1] = b
                BY <1>2, <1>5, <4>2
            <4> QED
                BY <4>1, <4>3
        <3>3. CASE b \in Unsent + c .. Unsent + n - 1
            BY <1>10, <3>3
        <3> QED
            BY <1>3, <1>4, <1>5, <3>1, <3>2, <3>3
    <2>5. ASSUME NEW b \in cut' PROVE b < Unsent + n
        <3>1. b \in Int
            BY <1>12 DEF UTypeOK
        <3>2. b \in cut => b < Unsent
            BY DEF SentUp
        <3> QED
            BY <1>3, <1>4, <1>5, <1>10, <3>1, <3>2
    <2> QED
        BY <1>8, <1>11, <2>2, <2>3, <2>4, <2>5 DEF SentUp
<1>15. ItemsWhole'
    <2>1. DOMAIN out' = 1 .. m + c /\ DOMAIN out = 1 .. m
        BY <1>2, <1>8, LenProperties DEF m
    <2>2. m % d_itemsize = 0 /\ \A k \in 1 .. m : k % d_itemsize # 0 => out[k + 1] = out[k] + 1
        BY <2>1 DEF ItemsWhole, m
    <2>3. ASSUME NEW k \in 1 .. m + c, k % d_itemsize # 0 PROVE out'[k + 1] = out'[k] + 1
        <3>0. (m + c) % d_itemsize = 0
            BY <1>4, <2>2
        <3>1. CASE k \in 1 .. m
            <4>1. k # m
                BY <2>2, <2>3
            <4>2. k + 1 \in 1 .. m
                BY <1>2, <3>1, <4>1
            <4> QED
                BY <1>9, <2>2, <2>3, <3>1, <4>2
        <3>2. CASE k \in m + 1 .. m + c
            <4>1. k # m + c
                BY <2>3, <3>0
            <4>2. k + 1 \in m + 1 .. m + c
                BY <1>2, <1>3, <1>4, <3>2, <4>1
            <4>3. out'[k] = Unsent + (k - m) - 1 /\ out'[k + 1] = Unsent + ((k + 1) - m) - 1
                BY <1>9, <3>2, <4>2
            <4> QED
                BY <1>2, <1>5, <4>3
        <3> QED
            BY <1>13, <3>1, <3>2
    <2> QED
        BY <1>4, <1>8, <2>1, <2>2, <2>3 DEF ItemsWhole
<1>16. Over'
    BY <1>2, <1>11 DEF Over, WORK_DONE
<1> QED
    BY <1>11, <1>12, <1>14, <1>15, <1>16

LEMMA UNextInv == ASSUME UInv, [UNext]_uvars PROVE UInv'
<1> USE DEF UInv
<1>1. CASE ReadEof
    <2>1. /\ d_residual' = WORK_DONE /\ receiving' = FALSE /\ service' = "ended"
          /\ UNCHANGED <<d_residbuf, d_sent, d_connected, out, accepted, cut, reconnects>>
        BY <1>1 DEF ReadEof
    <2>2. UTypeOK'
        BY <2>1 DEF UTypeOK, BufferBytes
    <2> QED
        BY <2>1, <2>2 DEF Buffered, SentUp, Unsent, ItemsWhole, Over, WORK_DONE
<1>2. CASE Disconnect \/ Connect \/ UNCHANGED uvars
    <2>1. /\ service' \in {service, "stopped"} /\ receiving' \in {receiving, TRUE, FALSE}
          /\ d_connected' \in {d_connected, TRUE, FALSE}
          /\ UNCHANGED <<d_residbuf, d_residual, d_sent, out, accepted, cut>>
        BY <1>2 DEF Disconnect, Connect, Restarted, uvars
    <2>2. UTypeOK'
        BY <2>1 DEF UTypeOK, BufferBytes
    <2> QED
        BY <2>1, <2>2 DEF Buffered, SentUp, Unsent, ItemsWhole, Over
<1> QED
    BY <1>1, <1>2, ReadKeeps, UWorkKeeps DEF UNext

LEMMA NothingLost == UInv => NothingElseLost
<1> SUFFICES ASSUME UInv PROVE NothingElseLost
    OBVIOUS
<1> USE DEF UInv
<1>1. /\ out \in Seq(Nat) /\ DOMAIN out = 1 .. Len(out) /\ Len(out) \in Nat /\ cut \subseteq Nat
      /\ accepted \in Nat /\ Len(d_residbuf) \in Nat /\ d_sent \in Nat
    BY UdpAssumption, LenProperties DEF UTypeOK, BufferBytes
<1>2. ASSUME d_residual >= 0
      PROVE  \A b : b \in 0 .. accepted - 1
                <=> b \in Elements(out) \cup cut \cup {d_residbuf[k] : k \in d_sent + 1 .. d_residual}
    <2> DEFINE l == Len(d_residbuf)
    <2>1. d_residual = l /\ d_sent <= l /\ l <= accepted /\ Unsent \in Nat
          /\ \A k \in 1 .. l : d_residbuf[k] = accepted - l + k - 1
        BY <1>1, <1>2 DEF Buffered, Unsent
    <2>2. Unsent = accepted - l + d_sent
        BY DEF Unsent
    <2> HIDE DEF l
    <2>3. ASSUME NEW k \in d_sent + 1 .. l PROVE d_residbuf[k] \in 0 .. accepted - 1
        <3>1. k \in 1 .. l /\ l \in Nat
            BY <1>1 DEF l
        <3>2. d_residbuf[k] = accepted - l + k - 1
            BY <2>1, <3>1
        <3>3. accepted - l + k - 1 \in 0 .. accepted - 1
            BY <1>1, <2>1, <3>1
        <3> QED
            BY <3>2, <3>3
    <2>0. Unsent <= accepted
        BY <1>1, <2>1, <2>2 DEF l
    <2>4. \A k \in 1 .. Len(out) : out[k] \in 0 .. accepted - 1
        <3>1. \A k \in 1 .. Len(out) : out[k] \in Nat /\ out[k] < Unsent
            BY <1>1 DEF SentUp
        <3> QED
            BY <1>1, <2>0, <2>1, <3>1
    <2>5. \A b \in cut : b \in 0 .. accepted - 1
        <3>1. \A b \in cut : b \in Nat /\ b < Unsent
            BY <1>1 DEF SentUp
        <3> QED
            BY <1>1, <2>0, <2>1, <3>1
    <2>6. ASSUME NEW b \in 0 .. accepted - 1, ~(b \in 0 .. Unsent - 1)
          PROVE  \E k \in d_sent + 1 .. l : d_residbuf[k] = b
        <3>1. b - accepted + l + 1 \in d_sent + 1 .. l /\ b - accepted + l + 1 \in 1 .. l
            BY <1>1, <2>1, <2>2, <2>6 DEF l
        <3>2. d_residbuf[b - accepted + l + 1] = accepted - l + (b - accepted + l + 1) - 1
            BY <2>1, <3>1
        <3>3. d_residbuf[b - accepted + l + 1] = b
            BY <1>1, <3>2 DEF l
        <3> QED
            BY <3>1, <3>3
    <2>7. \A b \in 0 .. Unsent - 1 : b \in cut \/ b \in Elements(out)
        BY <1>1 DEF SentUp, Elements
    <2>8. \A b \in Elements(out) : b \in 0 .. accepted - 1
        BY <1>1, <2>4 DEF Elements
    <2> QED
        BY <2>1, <2>3, <2>5, <2>6, <2>7, <2>8
<1>3. \A j, k \in DOMAIN out : j < k => out[j] < out[k]
    BY <1>1 DEF SentUp
<1> QED
    BY <1>2, <1>3 DEF NothingElseLost

(* For any sizes of items, datagrams, calls of work and of the buffer, and   *)
(* any reconnections: bytes go out once, in order and as whole items, and a  *)
(* source that has ended stays so.                                           *)
THEOREM BytesAlwaysPassedOn == USpec => BytesPassedOn
<1>1. UInv => UTypeOK /\ NothingElseLost /\ ItemsWhole
    BY NothingLost DEF UInv
<1>2. ASSUME UInv, [UNext]_uvars PROVE [d_residual = WORK_DONE => d_residual' = WORK_DONE]_uvars
    <2>1. ASSUME d_residual = WORK_DONE PROVE d_residual' = WORK_DONE
        <3>1. ~Receiving /\ ~(d_residual >= 0)
            BY <2>1, <1>2 DEF UInv, Over, Receiving, WORK_DONE
        <3> QED
            BY <1>2, <2>1, <3>1 DEF UNext, ReadEof, Read, UWork, Disconnect, Connect, uvars
    <2> QED
        BY <2>1
<1> QED
    BY <1>1, <1>2, UInitInv, UNextInv, PTL DEF USpec, BytesPassedOn, DoneForGood

-----------------------------------------------------------------------------
(* The probe, with one caller of get() who is not woken alone.               *)

OneGetter == \A g, h \in Getters : g = h

\* Each sample is the one after the sample before.
Gapless(run) == \A k \in 2 .. Len(run) : run[k] = (run[k - 1] + 1) % Modulus

PbTypes ==
    /\ sample \in 0 .. Modulus - 1 /\ d_len \in Nat /\ d_buffer \in Seq(Nat) /\ Len(d_buffer) <= d_len
    /\ offering \in BOOLEAN /\ needed \in BOOLEAN
    /\ getter \in [Getters -> {"idle", "waiting", "woken"}] /\ asked \in [Getters -> BOOLEAN]
    /\ got \in [Getters -> [run : Seq(Nat), len : Nat, fresh : BOOLEAN]]
    /\ offered \in [run : Seq(Nat), len : Nat]

\* The buffer ends where the input goes on.
GoesOn ==
    /\ Gapless(d_buffer)
    /\ d_buffer # <<>> => sample = (d_buffer[Len(d_buffer)] + 1) % Modulus

Offered == Gapless(offered.run) /\ Len(offered.run) = offered.len

\* A request, an offer, the notification and the wake-up follow each other.
Turns ==
    /\ needed => ~offering /\ \A g \in Getters : getter[g] = "waiting"
    /\ offering => \A g \in Getters : getter[g] = "waiting" /\ asked[g]
    /\ \A g \in Getters : getter[g] = "woken" => asked[g]

PbInv == PbTypes /\ GoesOn /\ Offered /\ Turns /\ GotRun

LEMMA Residue ==
    ASSUME NEW a \in Nat
    PROVE  /\ a % Modulus \in 0 .. Modulus - 1
           /\ ((a % Modulus) + 1) % Modulus = (a + 1) % Modulus
           /\ a < Modulus => a % Modulus = a
<1> DEFINE q == a \div Modulus
           r == a % Modulus
<1>1. q \in Nat /\ r \in 0 .. Modulus - 1 /\ a = q * Modulus + r
    BY ProbeAssumption
<1>2. \A p \in Nat, s \in 0 .. Modulus - 1 : (p * Modulus + s) % Modulus = s
    BY ProbeAssumption
<1> HIDE DEF q, r
<1>3. ASSUME r + 1 = Modulus PROVE (r + 1) % Modulus = (a + 1) % Modulus
    <2>1. a + 1 = (q + 1) * Modulus + 0 /\ r + 1 = 1 * Modulus + 0
        BY <1>1, <1>3, ProbeAssumption
    <2>2. (a + 1) % Modulus = 0
        BY <1>1, <1>2, <2>1, ProbeAssumption
    <2>3. (r + 1) % Modulus = 0
        BY <1>2, <2>1, ProbeAssumption
    <2> QED
        BY <2>2, <2>3
<1>4. ASSUME r + 1 # Modulus PROVE (r + 1) % Modulus = (a + 1) % Modulus
    <2>1. a + 1 = q * Modulus + (r + 1) /\ r + 1 = 0 * Modulus + (r + 1) /\ r + 1 \in 0 .. Modulus - 1
        BY <1>1, <1>4, ProbeAssumption
    <2>2. (a + 1) % Modulus = r + 1
        BY <1>1, <1>2, <2>1
    <2>3. (r + 1) % Modulus = r + 1
        BY <1>2, <2>1
    <2> QED
        BY <2>2, <2>3
<1>5. a < Modulus => a % Modulus = a
    <2>1. a < Modulus => a = 0 * Modulus + a /\ a \in 0 .. Modulus - 1
        BY ProbeAssumption
    <2> QED
        BY <1>2, <2>1, ProbeAssumption
<1> QED
    BY <1>1, <1>3, <1>4, <1>5 DEF r

LEMMA PbInitInv == PbInit => PbInv
<1> SUFFICES ASSUME PbInit PROVE PbInv
    OBVIOUS
<1>1. PbTypes
    <2>1. <<>> \in Seq(Nat) /\ Len(<<>>) = 0 /\ 0 \in 0 .. Modulus - 1 /\ d_len \in Nat
        BY ProbeAssumption, EmptySeq DEF PbInit
    <2>2. [run |-> <<>>, len |-> 0, fresh |-> TRUE] \in [run : Seq(Nat), len : Nat, fresh : BOOLEAN]
          /\ [run |-> <<>>, len |-> 0] \in [run : Seq(Nat), len : Nat]
        BY <2>1
    <2>3. /\ getter \in [Getters -> {"idle", "waiting", "woken"}] /\ asked \in [Getters -> BOOLEAN]
          /\ got \in [Getters -> [run : Seq(Nat), len : Nat, fresh : BOOLEAN]]
        BY <2>2 DEF PbInit
    <2>4. /\ sample \in 0 .. Modulus - 1 /\ d_buffer \in Seq(Nat) /\ Len(d_buffer) = 0
          /\ offering \in BOOLEAN /\ needed \in BOOLEAN /\ offered \in [run : Seq(Nat), len : Nat]
        BY <2>1, <2>2 DEF PbInit
    <2> QED
        BY <2>1, <2>3, <2>4 DEF PbTypes
<1>2. GoesOn /\ Offered /\ Turns /\ GotRun
    BY DEF PbInit, GoesOn, Offered, Turns, GotRun, Gapless
<1> QED
    BY <1>1, <1>2 DEF PbInv

\* What a call of work adds to the buffer.
LEMMA Filled ==
    ASSUME PbInv, NEW n \in Nat \ {0},
           NEW filled, filled = d_buffer \o Taken(d_len - d_index, n)
    PROVE  /\ filled \in Seq(Nat) /\ Len(filled) <= d_len /\ Gapless(filled)
           /\ Len(filled) # d_len => /\ filled # <<>>
                                     /\ (sample + n) % Modulus = (filled[Len(filled)] + 1) % Modulus
<1> DEFINE room == d_len - d_index
           new == Taken(room, n)
           m == Lesser(room, n)
           b == Len(d_buffer)
<1>1. room \in Nat /\ b \in Nat /\ d_len \in Nat /\ room = d_len - b /\ m \in 0 .. n /\ m <= room /\ (m # room => m = n)
    BY DEF PbInv, PbTypes, Lesser, d_index
<1>2. sample \in 0 .. Modulus - 1 /\ Modulus \in Nat \ {0}
    BY ProbeAssumption DEF PbInv, PbTypes
<1>3. Next_(n) \in Seq(Nat) /\ Len(Next_(n)) = n /\ \A j \in 1 .. n : Next_(n)[j] = (sample + j - 1) % Modulus
    <2>1. \A j \in 1 .. n : (sample + j - 1) % Modulus \in Nat
        BY <1>2
    <2> QED
        BY <2>1 DEF Next_
<1>4. new \in Seq(Nat) /\ Len(new) = m /\ \A j \in 1 .. m : new[j] = (sample + j - 1) % Modulus
    <2> DEFINE s == Next_(n)
    <2>1. new = SubSeq(s, 1, m)
        BY DEF Taken
    <2>2. 1 \in Int /\ m \in Int /\ \A i \in 1 .. m : i \in 1 .. n /\ s[i] \in Nat
        <3>1. m \in 0 .. n /\ m \in Int /\ n \in Nat
            BY <1>1
        <3>2. \A i \in 1 .. n : s[i] \in Nat
            BY <1>3, ElementOfSeq
        <3> HIDE DEF m, s
        <3> QED
            BY <3>1, <3>2
    <2> HIDE DEF s
    <2>3. /\ SubSeq(s, 1, m) \in Seq(Nat) /\ Len(SubSeq(s, 1, m)) = IF 1 <= m THEN m - 1 + 1 ELSE 0
          /\ \A i \in 1 .. m - 1 + 1 : SubSeq(s, 1, m)[i] = s[1 + i - 1]
        BY <2>2, SubSeqProperties
    <2> HIDE DEF new, m
    <2>4. \A i \in 1 .. m : i \in 1 .. m - 1 + 1 /\ 1 + i - 1 = i
        BY <1>1
    <2>5. Len(new) = m /\ new \in Seq(Nat)
        BY <1>1, <2>1, <2>3
    <2>6. ASSUME NEW j \in 1 .. m PROVE new[j] = (sample + j - 1) % Modulus
        <3>1. new[j] = s[j] /\ j \in 1 .. n
            BY <2>1, <2>2, <2>3, <2>4
        <3> QED
            BY <1>3, <3>1 DEF s
    <2> QED
        BY <2>5, <2>6
<1>5. d_buffer \in Seq(Nat) /\ Gapless(d_buffer)
      /\ (b # 0 => sample = (d_buffer[b] + 1) % Modulus)
    BY DEF PbInv, PbTypes, GoesOn
<1> HIDE DEF new, m, room
<1>6. /\ filled \in Seq(Nat) /\ Len(filled) = b + m
      /\ \A k \in 1 .. b : filled[k] = d_buffer[k]
      /\ \A j \in 1 .. m : filled[b + j] = new[j]
    <2>1. filled = d_buffer \o new
        BY DEF new, room
    <2>2. /\ d_buffer \o new \in Seq(Nat) /\ Len(d_buffer \o new) = b + m
          /\ \A i \in 1 .. b + m : (d_buffer \o new)[i] = IF i <= b THEN d_buffer[i] ELSE new[i - b]
        BY <1>4, <1>5, ConcatProperties
    <2>3. /\ \A k \in 1 .. b : k \in 1 .. b + m /\ k <= b
          /\ \A j \in 1 .. m : b + j \in 1 .. b + m /\ ~(b + j <= b) /\ (b + j) - b = j
        BY <1>1
    <2> QED
        BY <2>1, <2>2, <2>3
<1> HIDE DEF b
<1>7. \A j \in 1 .. m : filled[b + j] = (sample + j - 1) % Modulus
    BY <1>4, <1>6
<1>8. ASSUME NEW k \in 2 .. b + m PROVE filled[k] = (filled[k - 1] + 1) % Modulus
    <2>1. CASE k <= b
        <3>1. k \in 2 .. b /\ k \in 1 .. b /\ k - 1 \in 1 .. b
            BY <1>1, <2>1
        <3> QED
            BY <1>5, <1>6, <3>1 DEF Gapless, b
    <2>2. CASE k = b + 1
        <3>1. b \in 1 .. b /\ 1 \in 1 .. m /\ b # 0 /\ k - 1 = b
            BY <1>1, <2>2
        <3>2. filled[k] = (sample + 1 - 1) % Modulus
            BY <1>7, <2>2, <3>1
        <3>3. (sample + 1 - 1) % Modulus = sample
            <4>1. sample + 1 - 1 = sample /\ sample \in Nat /\ sample < Modulus
                BY <1>2
            <4> QED
                BY <4>1, Residue
        <3>4. filled[k - 1] = d_buffer[b]
            BY <1>6, <3>1
        <3> QED
            BY <1>5, <3>1, <3>2, <3>3, <3>4
    <2>3. CASE k > b + 1
        <3> DEFINE j == k - b - 1
        <3>1. j \in 1 .. m /\ j + 1 \in 1 .. m /\ k = b + (j + 1) /\ k - 1 = b + j /\ sample + j - 1 \in Nat
            BY <1>1, <1>2, <2>3
        <3> HIDE DEF j
        <3>2. filled[k] = (sample + (j + 1) - 1) % Modulus /\ filled[k - 1] = (sample + j - 1) % Modulus
            BY <1>7, <3>1
        <3>3. sample + (j + 1) - 1 = (sample + j - 1) + 1
            BY <1>2, <3>1
        <3> QED
            BY <3>1, <3>2, <3>3, Residue
    <2>4. k <= b \/ k = b + 1 \/ k > b + 1
        BY <1>1
    <2> QED
        BY <2>1, <2>2, <2>3, <2>4
<1>9. ASSUME Len(filled) # d_len
      PROVE  filled # <<>> /\ (sample + n) % Modulus = (filled[Len(filled)] + 1) % Modulus
    <2>1. m = n /\ n \in 1 .. m /\ Len(filled) = b + n /\ sample + n - 1 \in Nat /\ n \in Nat
        <3>1. Len(filled) = b + m /\ b + m # d_len
            BY <1>6, <1>9
        <3>2. m # room
            BY <1>1, <3>1
        <3>3. m = n
            BY <1>1, <3>2
        <3> QED
            BY <1>2, <3>1, <3>3
    <2>2. filled[Len(filled)] = (sample + n - 1) % Modulus
        BY <1>7, <2>1
    <2>3. sample + n = (sample + n - 1) + 1
        BY <1>2
    <2>4. Len(filled) # 0
        BY <1>1, <2>1
    <2>5. filled # <<>>
        BY <1>6, <2>4, EmptySeq
    <2>6. (((sample + n - 1) % Modulus) + 1) % Modulus = ((sample + n - 1) + 1) % Modulus
        BY <2>1, Residue
    <2> QED
        BY <2>2, <2>3, <2>5, <2>6
<1>10. Len(filled) <= d_len
    BY <1>1, <1>6
<1> QED
    BY <1>6, <1>8, <1>9, <1>10 DEF Gapless

LEMMA WorkKeepsRun ==
    ASSUME PbInv, NEW n \in 1 .. MaxCallItems, ProbeWork(n)
    PROVE  PbInv'
<1> USE DEF PbInv
<1> DEFINE filled == d_buffer \o Taken(d_len - d_index, n)
           full   == Len(filled) = d_len
<1>1. /\ ~offering /\ d_buffer' = (IF full THEN <<>> ELSE filled)
      /\ sample' = (sample + n) % Modulus
      /\ UNCHANGED <<d_len, getter, got, setcalls>>
    BY DEF ProbeWork
<1>2. \/ /\ full /\ needed /\ offered' = [run |-> filled, len |-> d_len] /\ needed' = FALSE /\ offering' = TRUE
         /\ asked' = [g \in Getters |-> asked[g] \/ getter[g] = "waiting"]
      \/ UNCHANGED <<offered, needed, offering, asked>>
    BY DEF ProbeWork
<1>3. n \in Nat \ {0}
    BY ProbeAssumption
<1>4. /\ filled \in Seq(Nat) /\ Len(filled) <= d_len /\ Gapless(filled)
      /\ ~full => filled # <<>> /\ (sample + n) % Modulus = (filled[Len(filled)] + 1) % Modulus
    BY <1>3, Filled
<1>5. sample' \in 0 .. Modulus - 1
    BY <1>1, <1>3, ProbeAssumption DEF PbTypes
<1>6. full => filled \in Seq(Nat) /\ d_len \in Nat
    BY <1>4 DEF PbTypes
<1> HIDE DEF filled
<1>7. PbTypes'
    <2>1. d_buffer' \in Seq(Nat) /\ Len(d_buffer') <= d_len /\ d_len' = d_len
        BY <1>1, <1>4 DEF PbTypes
    <2>2. offered' \in [run : Seq(Nat), len : Nat] /\ needed' \in BOOLEAN /\ offering' \in BOOLEAN
        <3>1. CASE full /\ offered' = [run |-> filled, len |-> d_len] /\ needed' = FALSE /\ offering' = TRUE
            <4>1. filled \in Seq(Nat) /\ d_len \in Nat
                BY <1>6, <3>1
            <4> HIDE DEF full
            <4> QED
                BY <3>1, <4>1
        <3>2. CASE UNCHANGED <<offered, needed, offering>>
            BY <3>2 DEF PbTypes
        <3> QED
            BY <1>2, <3>1, <3>2
    <2>3. asked' \in [Getters -> BOOLEAN]
        <3>1. \A g \in Getters : (asked[g] \/ getter[g] = "waiting") \in BOOLEAN
            BY DEF PbTypes
        <3>2. CASE asked' = [g \in Getters |-> asked[g] \/ getter[g] = "waiting"]
            BY <3>1, <3>2, Zenon
        <3>3. CASE asked' = asked
            BY <3>3 DEF PbTypes
        <3> QED
            BY <1>2, <3>2, <3>3
    <2> QED
        BY <1>1, <1>5, <2>1, <2>2, <2>3 DEF PbTypes
<1>8. GoesOn'
    <2>1. CASE full
        BY <1>1, <2>1 DEF GoesOn, Gapless
    <2>2. CASE ~full
        BY <1>1, <1>4, <2>2 DEF GoesOn, Gapless
    <2> QED
        BY <2>1, <2>2
<1>9. Offered'
    BY <1>2, <1>4 DEF Offered, Gapless
<1>10. Turns'
    BY <1>1, <1>2 DEF Turns, PbTypes
<1>11. GotRun'
    BY <1>1 DEF GotRun
<1> QED
    BY <1>7, <1>8, <1>9, <1>10, <1>11

LEMMA GetterKeepsRun ==
    ASSUME PbInv, OneGetter, ~WakesAlone, NEW g \in Getters, get(g) \/ SpuriousWake(g) \/ Return(g)
    PROVE  PbInv'
<1> USE DEF PbInv
<1>1. \A h \in Getters : h = g
    BY DEF OneGetter
<1>2. CASE get(g)
    <2>1. /\ getter[g] = "idle" /\ needed' = TRUE /\ getter' = [getter EXCEPT ![g] = "waiting"]
          /\ asked' = [asked EXCEPT ![g] = FALSE]
          /\ UNCHANGED <<sample, d_len, d_buffer, offering, offered, got, setcalls>>
        BY <1>2 DEF get
    <2>2. PbTypes'
        BY <2>1 DEF PbTypes
    <2>3. GoesOn' /\ Offered'
        BY <2>1 DEF GoesOn, Offered, Gapless
    <2>4. GotRun'
        BY <2>1 DEF GotRun
    <2>5. Turns'
        BY <1>1, <2>1 DEF Turns, PbTypes
    <2> QED
        BY <2>2, <2>3, <2>4, <2>5
<1>3. CASE Return(g)
    <2>1. /\ getter[g] = "woken" /\ getter' = [getter EXCEPT ![g] = "idle"]
          /\ got' = [got EXCEPT ![g] = [run |-> offered.run, len |-> offered.len, fresh |-> asked[g]]]
          /\ UNCHANGED <<sample, d_len, d_buffer, offering, needed, offered, asked, setcalls>>
        BY <1>3 DEF Return
    <2>2. asked[g] /\ asked[g] \in BOOLEAN
        BY <2>1 DEF Turns, PbTypes
    <2>3. [run |-> offered.run, len |-> offered.len, fresh |-> asked[g]] \in [run : Seq(Nat), len : Nat, fresh : BOOLEAN]
        BY <2>2 DEF PbTypes
    <2>4. PbTypes' /\ GoesOn' /\ Offered'
        BY <2>1, <2>3 DEF PbTypes, GoesOn, Offered, Gapless
    <2>5. GotRun'
        BY <1>1, <2>1, <2>2 DEF GotRun, Offered, Gapless, PbTypes
    <2>6. Turns'
        BY <1>1, <2>1 DEF Turns, PbTypes
    <2> QED
        BY <2>4, <2>5, <2>6
<1> QED
    BY <1>2, <1>3 DEF SpuriousWake

LEMMA PbNextInv == ASSUME PbInv, OneGetter, ~WakesAlone, [PbNext]_pbvars PROVE PbInv'
<1> USE DEF PbInv
<1>1. CASE UNCHANGED pbvars
    BY <1>1 DEF pbvars, PbTypes, GoesOn, Offered, Turns, GotRun, Gapless
<1>2. CASE Notify
    <2>1. /\ offering /\ offering' = FALSE
          /\ UNCHANGED <<sample, d_len, d_buffer, needed, offered, asked, got, setcalls>>
          /\ \/ \E g \in Getters : getter[g] = "waiting" /\ getter' = [getter EXCEPT ![g] = "woken"]
             \/ UNCHANGED getter
        BY <1>2 DEF Notify
    <2>2. ~needed /\ \A g \in Getters : asked[g]
        BY <2>1 DEF Turns, PbTypes
    <2>3. PbTypes' /\ GoesOn' /\ Offered' /\ GotRun'
        BY <2>1 DEF PbTypes, GoesOn, Offered, GotRun, Gapless
    <2>4. Turns'
        BY <2>1, <2>2 DEF Turns, PbTypes
    <2> QED
        BY <2>3, <2>4
<1>3. ASSUME NEW len \in Lengths, set_length(len) PROVE PbInv'
    <2>1. /\ d_len' = len /\ d_buffer' = <<>> /\ len \in Nat
          /\ UNCHANGED <<sample, offering, needed, offered, getter, asked, got>>
        BY <1>3, ProbeAssumption DEF set_length, Begun
    <2> QED
        BY <2>1 DEF PbTypes, GoesOn, Offered, Turns, GotRun, Gapless
<1> QED
    BY <1>1, <1>2, <1>3, WorkKeepsRun, GetterKeepsRun DEF PbNext, WorkStep

(* For any lengths, sizes of the calls of work and changes of the length: if *)
(* one thread asks and no wait ends by itself, what get() returns is a run   *)
(* of the stream without a gap, as long as the buffer was when it was        *)
(* filled, and offered after it had asked.                                   *)
THEOREM RunsAlwaysGot == ASSUME OneGetter, ~WakesAlone PROVE PbSpec => []GotRun
<1>1. PbInv => GotRun
    BY DEF PbInv
<1> QED
    BY <1>1, PbInitInv, PbNextInv, PTL DEF PbSpec

-----------------------------------------------------------------------------
(* gr::msg_queue.  What the model calls the list is a function by recursion; *)
(* what is needed of it rests on induction, derived first.                   *)

(* Induction, and what it gives for the list.                                *)

\* If n is not in S, the map that moves the members of S up by one takes
\* 0 .. n into 1 .. n, which is smaller, and yet no two numbers to one.
LEMMA Induction ==
    ASSUME NEW S, 0 \in S, \A n \in Nat : n \in S => n + 1 \in S
    PROVE  \A n \in Nat : n \in S
<1> SUFFICES ASSUME NEW n \in Nat, n \notin S PROVE FALSE
    OBVIOUS
<1> DEFINE f == [x \in 0 .. n |-> IF x \in S THEN x + 1 ELSE x]
<1>1. f \in [0 .. n -> 1 .. n]
    <2>1. ASSUME NEW x \in 0 .. n PROVE (IF x \in S THEN x + 1 ELSE x) \in 1 .. n
        <3>1. x \in S => x # n
            OBVIOUS
        <3>2. x \notin S => x # 0
            OBVIOUS
        <3> QED
            BY <3>1, <3>2
    <2> QED
        BY <2>1
<1>2. ASSUME NEW x \in 0 .. n, NEW y \in 0 .. n, x # y PROVE f[x] # f[y]
    <2>1. x \in S => x + 1 \in S
        OBVIOUS
    <2>2. y \in S => y + 1 \in S
        OBVIOUS
    <2>3. f[x] = (IF x \in S THEN x + 1 ELSE x) /\ f[y] = IF y \in S THEN y + 1 ELSE y
        OBVIOUS
    <2> HIDE DEF f
    <2> QED
        BY <2>1, <2>2, <2>3, <1>2
<1> HIDE DEF f
<1>3. /\ Cardinality(1 .. n) < Cardinality(0 .. n)
      /\ IsFiniteSet(0 .. n) /\ IsFiniteSet(1 .. n)
    <2>1. 0 \in Int /\ 1 \in Int /\ n \in Int
        OBVIOUS
    <2>2. IsFiniteSet(0 .. n) /\ Cardinality(0 .. n) = IF 0 > n THEN 0 ELSE n - 0 + 1
        BY <2>1, FS_Interval
    <2>3. IsFiniteSet(1 .. n) /\ Cardinality(1 .. n) = IF 1 > n THEN 0 ELSE n - 1 + 1
        BY <2>1, FS_Interval
    <2> QED
        BY <2>2, <2>3
<1>4. \E x, y \in 0 .. n : x # y /\ f[x] = f[y]
    BY <1>1, <1>3, FS_PigeonHole, Zenon
<1> QED
    BY <1>2, <1>4

\* What is reached from base in k steps.
Steps(V, base, step, k) ==
    {f \in [0 .. k -> V] : f[0] = base /\ \A n \in 1 .. k : f[n] = step[f[n - 1]]}

LEMMA Recursion ==
    ASSUME NEW V, NEW base \in V, NEW step \in [V -> V], NEW k \in Nat
    PROVE  Steps(V, base, step, k) # {}
<1> DEFINE Reached(n, f) == f[0] = base /\ \A i \in 1 .. n : f[i] = step[f[i - 1]]
           S == {n \in Nat : \E f \in [0 .. n -> V] : Reached(n, f)}
<1>1. 0 \in S
    <2> DEFINE f == [i \in 0 .. 0 |-> base]
    <2>1. f \in [0 .. 0 -> V] /\ Reached(0, f)
        OBVIOUS
    <2> QED
        BY <2>1
<1>2. ASSUME NEW n \in Nat, n \in S PROVE n + 1 \in S
    <2>1. PICK f \in [0 .. n -> V] : Reached(n, f)
        BY <1>2
    <2> DEFINE g == [i \in 0 .. n + 1 |-> IF i <= n THEN f[i] ELSE step[f[n]]]
    <2>2. g \in [0 .. n + 1 -> V]
        <3>1. f[n] \in V /\ step[f[n]] \in V
            OBVIOUS
        <3>2. \A i \in 0 .. n + 1 : i <= n => i \in 0 .. n
            OBVIOUS
        <3> QED
            BY <3>1, <3>2
    <2>3. \A i \in 0 .. n : g[i] = f[i]
        OBVIOUS
    <2>4. g[n + 1] = step[f[n]]
        OBVIOUS
    <2> HIDE DEF g
    <2>5. ASSUME NEW i \in 1 .. n + 1 PROVE g[i] = step[g[i - 1]]
        <3>1. CASE i \in 1 .. n
            BY <2>1, <2>3, <3>1
        <3>2. CASE i = n + 1
            <4>1. i - 1 = n /\ n \in 0 .. n
                BY <3>2
            <4> QED
                BY <2>3, <2>4, <3>2, <4>1
        <3> QED
            BY <3>1, <3>2
    <2>6. g[0] = base
        BY <2>1, <2>3
    <2> QED
        BY <2>2, <2>5, <2>6
<1> HIDE DEF S
<1>3. k \in S
    BY <1>1, <1>2, Induction
<1> QED
    BY <1>3 DEF S, Steps

Links == [Messages -> Messages \cup {Null}]
Size  == Cardinality(Messages)

\* One message after the other, and Null behind the last.
Linked(q, head, next) ==
    /\ q \in Seq(Messages)
    /\ head = IF q = <<>> THEN Null ELSE q[1]
    /\ \A k \in 1 .. Len(q) - 1 : next[q[k]] = q[k + 1]
    /\ q # <<>> => next[q[Len(q)]] = Null

LEMMA SizeType == Size \in Nat
    BY MessagesAssumption, FS_CardinalityType DEF Size

LEMMA ListedFrom ==
    ASSUME NEW q, NEW head, NEW next \in Links, Linked(q, head, next), Len(q) <= Size
    PROVE  ListFrom(head, next) = q
<1> DEFINE M == Messages \cup {Null}
           V == [M -> Seq(Messages)]
           step == [g \in V |-> [m \in M |-> IF m = Null THEN <<>> ELSE <<m>> \o g[next[m]]]]
           base == [m \in M |-> <<>>]
           Chained(f) == f = [n \in 0 .. Size |->
                                [m \in M |-> IF m = Null \/ n = 0 THEN <<>> ELSE <<m>> \o f[n - 1][next[m]]]]
           chain == CHOOSE f : Chained(f)
<1>1. base \in V /\ step \in [V -> V]
    <2>1. <<>> \in Seq(Messages)
        BY EmptySeq
    <2>2. ASSUME NEW g \in V, NEW m \in Messages PROVE <<m>> \o g[next[m]] \in Seq(Messages)
        <3>1. next[m] \in M
            BY DEF Links
        <3>2. g[next[m]] \in Seq(Messages) /\ <<m>> \in Seq(Messages)
            BY <3>1
        <3> QED
            BY <3>2, ConcatProperties
    <2> QED
        BY <2>1, <2>2
<1>2. Size \in Nat
    BY SizeType
<1> HIDE DEF step, base, V
<1>0. Steps(V, base, step, Size) # {}
    BY <1>1, <1>2, Recursion
<1>3. PICK f \in [0 .. Size -> V] : f[0] = base /\ \A n \in 1 .. Size : f[n] = step[f[n - 1]]
    BY <1>0 DEF Steps
<1>4. Chained(f)
    <2>1. ASSUME NEW n \in 0 .. Size
          PROVE  f[n] = [m \in M |-> IF m = Null \/ n = 0 THEN <<>> ELSE <<m>> \o f[n - 1][next[m]]]
        <3>1. CASE n = 0
            BY <1>3, <3>1 DEF base
        <3>2. CASE n # 0
            <4>1. n \in 1 .. Size /\ n - 1 \in 0 .. Size
                BY <1>2, <3>2
            <4>2. f[n - 1] \in V
                BY <4>1
            <4>3. f[n] = step[f[n - 1]]
                BY <1>3, <4>1
            <4>4. step[f[n - 1]] = [m \in M |-> IF m = Null THEN <<>> ELSE <<m>> \o f[n - 1][next[m]]]
                BY <4>2 DEF step
            <4> QED
                BY <3>2, <4>3, <4>4
        <3> QED
            BY <3>1, <3>2
    <2> QED
        BY <2>1
<1>5. Chained(chain)
    BY <1>4
<1> HIDE DEF chain
<1>6. \A n \in 0 .. Size, m \in M :
          chain[n][m] = IF m = Null \/ n = 0 THEN <<>> ELSE <<m>> \o chain[n - 1][next[m]]
    <2> SUFFICES ASSUME NEW n \in 0 .. Size, NEW m \in M
                 PROVE  chain[n][m] = IF m = Null \/ n = 0 THEN <<>> ELSE <<m>> \o chain[n - 1][next[m]]
        OBVIOUS
    <2>1. chain[n] = [x \in M |-> IF x = Null \/ n = 0 THEN <<>> ELSE <<x>> \o chain[n - 1][next[x]]]
        BY <1>5, Zenon
    <2> QED
        BY <2>1, Zenon
<1> DEFINE L == Len(q)
           Of(j) == IF j = 0 THEN Null ELSE q[L - j + 1]
           FromHere(j) == \A n \in j .. Size : chain[n][Of(j)] = SubSeq(q, L - j + 1, L)
           S == {j \in Nat : j <= L => FromHere(j)}
<1>7. q \in Seq(Messages) /\ L \in Nat /\ L <= Size
    BY DEF Linked
<1>8. FromHere(0)
    <2>1. \A n \in 0 .. Size : chain[n][Null] = <<>>
        BY <1>6
    <2>2. L - 0 + 1 \in Int /\ L < L - 0 + 1 /\ L \in Int
        BY <1>7
    <2>3. SubSeq(q, L - 0 + 1, L) = <<>>
        BY <2>2, SubSeqEmpty
    <2>4. Of(0) = Null
        OBVIOUS
    <2> QED
        BY <2>1, <2>3, <2>4
<1>9. ASSUME NEW j \in Nat, j + 1 <= L, FromHere(j) PROVE FromHere(j + 1)
    <2> SUFFICES ASSUME NEW n \in j + 1 .. Size
                 PROVE  chain[n][Of(j + 1)] = SubSeq(q, L - (j + 1) + 1, L)
        OBVIOUS
    <2> DEFINE i == L - j
    <2>1. i \in 1 .. L /\ L - (j + 1) + 1 = i /\ L - j + 1 = i + 1 /\ n - 1 \in j .. Size /\ n \in 0 .. Size /\ n # 0 /\ j <= L
        BY <1>2, <1>7
    <2>2. chain[n - 1][Of(j)] = SubSeq(q, i + 1, L)
        BY <1>9, <2>1
    <2>3. Of(j + 1) = q[i] /\ q[i] \in Messages /\ q[i] # Null
        BY <1>7, <2>1, NullAssumption
    <2>4. next[q[i]] = Of(j)
        <3>1. CASE j = 0
            <4>1. i = L /\ q # <<>>
                BY <1>7, <2>1, <3>1
            <4> QED
                BY <3>1, <4>1 DEF Linked
        <3>2. CASE j # 0
            <4>1. i \in 1 .. L - 1
                BY <1>7, <2>1, <3>2
            <4> QED
                BY <2>1, <3>2, <4>1 DEF Linked
        <3> QED
            BY <3>1, <3>2
    <2>5. chain[n][q[i]] = <<q[i]>> \o chain[n - 1][next[q[i]]]
        BY <1>6, <2>1, <2>3
    <2>6. SubSeq(q, i, L) = <<q[i]>> \o SubSeq(q, i + 1, L)
        BY <1>7, <2>1, SubSeqRecursiveFirst
    <2> QED
        BY <2>1, <2>2, <2>3, <2>4, <2>5, <2>6
<1>10. FromHere(L)
    <2> HIDE DEF FromHere
    <2>1. 0 \in S /\ \A j \in Nat : j \in S => j + 1 \in S
        BY <1>7, <1>8, <1>9
    <2> HIDE DEF S
    <2>2. L \in S
        BY <1>7, <2>1, Induction
    <2> QED
        BY <2>2 DEF S
<1>11. chain[Size][Of(L)] = SubSeq(q, L - L + 1, L)
    BY <1>2, <1>7, <1>10
<1>12. Of(L) = head
    <2>1. CASE L = 0
        BY <1>7, <2>1, EmptySeq DEF Linked
    <2>2. CASE L # 0
        <3>1. q # <<>> /\ L - L + 1 = 1
            BY <1>7, <2>2
        <3> QED
            BY <2>2, <3>1 DEF Linked
    <2> QED
        BY <2>1, <2>2
<1>13. SubSeq(q, L - L + 1, L) = q
    <2>1. L - L + 1 = 1
        BY <1>7
    <2> QED
        BY <1>7, <2>1, SubSeqFull
<1>14. ListFrom(head, next) = chain[Size][head]
    BY DEF ListFrom, chain, Size
<1> QED
    BY <1>11, <1>12, <1>13, <1>14

\* A list without repetitions is not longer than there are messages.
Distinct(q) == \A j, k \in 1 .. Len(q) : q[j] = q[k] => j = k

LEMMA DistinctFits ==
    ASSUME NEW q \in Seq(Messages), Distinct(q)
    PROVE  Len(q) \in 0 .. Size
<1> DEFINE L == Len(q)
<1>1. L \in Nat /\ q \in [1 .. L -> Messages] /\ Size \in Nat
    BY SizeType, LenProperties
<1>2. IsFiniteSet(1 .. L) /\ Cardinality(1 .. L) = L
    <2> HIDE DEF L
    <2>1. 1 \in Int /\ L \in Int /\ L \in Nat
        BY <1>1
    <2>2. IsFiniteSet(1 .. L) /\ Cardinality(1 .. L) = IF 1 > L THEN 0 ELSE L - 1 + 1
        BY <2>1, FS_Interval
    <2> QED
        BY <2>1, <2>2
<1>3. ASSUME Size < L PROVE FALSE
    <2>1. \E j, k \in 1 .. L : j # k /\ q[j] = q[k]
        <3> HIDE DEF L
        <3> QED
            BY <1>1, <1>2, <1>3, MessagesAssumption, FS_PigeonHole, Zenon DEF Size
    <2> QED
        BY <2>1 DEF Distinct
<1> QED
    BY <1>1, <1>3

-----------------------------------------------------------------------------
(* The invariant.                                                            *)

QTypes ==
    /\ d_head \in Messages \cup {Null} /\ d_tail \in Messages \cup {Null}
    /\ d_next \in Links /\ d_count \in Nat
    /\ holding \in [Producers -> Messages \cup {Null}]
    /\ thread \in [Threads -> {"out", "ready", "waiting", "flushing"}]
    /\ inserted \in Nat /\ stamp \in [Messages -> Int]

\* q is the list: nothing else is linked, and no producer holds one of its messages.
Listed(q) ==
    /\ Linked(q, d_head, d_next) /\ Distinct(q)
    /\ d_tail = IF q = <<>> THEN Null ELSE q[Len(q)]
    /\ d_count = Len(q)
    /\ \A m \in Messages : (\A k \in 1 .. Len(q) - 1 : q[k] # m) => d_next[m] = Null
    /\ \A p \in Producers, k \in 1 .. Len(q) : holding[p] # q[k]

\* Each producer in a call holds a message of its own.
Held ==
    /\ \A p \in Producers : thread[p] \in {"ready", "waiting"} => holding[p] # Null
    /\ \A p, r \in Producers : holding[p] = holding[r] /\ p # r => holding[p] = Null

QInv == QTypes /\ Held /\ NoSleeper /\ \E q \in Seq(Messages) : Listed(q)

LEMMA ListedQueued ==
    ASSUME NEW q, NEW head, NEW next \in Links, Linked(q, head, next), Distinct(q)
    PROVE  ListFrom(head, next) = q
<1>1. q \in Seq(Messages)
    BY DEF Linked
<1> QED
    BY <1>1, SizeType, DistinctFits, ListedFrom

LEMMA QueuedIs ==
    ASSUME QTypes, NEW q, Listed(q)
    PROVE  Queued = q
    BY ListedQueued DEF QTypes, Listed, Queued

LEMMA QueuedThen ==
    ASSUME QTypes', NEW q, Listed(q)'
    PROVE  Queued' = q
<1>1. d_next' \in Links /\ Linked(q, d_head', d_next') /\ Distinct(q)
    BY DEF QTypes, Listed
<1> QED
    BY <1>1, ListedQueued DEF Queued

LEMMA QueuedFacts ==
    ASSUME QInv
    PROVE  /\ Queued \in Seq(Messages) /\ Listed(Queued) /\ Len(Queued) = d_count
           /\ DOMAIN Queued = 1 .. Len(Queued) /\ Len(Queued) \in 0 .. Size
<1>1. PICK q \in Seq(Messages) : Listed(q)
    BY DEF QInv
<1>2. Queued = q
    BY <1>1, QueuedIs DEF QInv
<1>3. DOMAIN q = 1 .. Len(q) /\ Len(q) \in 0 .. Size /\ Len(q) = d_count
    BY <1>1, DistinctFits, LenProperties DEF Listed
<1> QED
    BY <1>1, <1>2, <1>3

-----------------------------------------------------------------------------
(* Who sleeps and who was woken.                                             *)

LEMMA ThreadSets ==
    ASSUME NEW kind \in {Producers, Consumers}
    PROVE  /\ kind \subseteq Threads /\ IsFiniteSet(kind)
           /\ Awake(kind) \subseteq kind /\ IsFiniteSet(Awake(kind)) /\ Cardinality(Awake(kind)) \in Nat
<1>1. kind \subseteq Threads /\ IsFiniteSet(kind) /\ Awake(kind) \subseteq kind
    BY ThreadsAssumption DEF Threads, Awake
<1> QED
    BY <1>1, FS_Subset, FS_CardinalityType

\* Who becomes awake besides adds to the awake; a wait that ends adds one too.
LEMMA MoreAwake ==
    ASSUME NEW kind \in {Producers, Consumers}, Awake(kind) \subseteq Awake(kind)'
    PROVE  Cardinality(Awake(kind)') >= Cardinality(Awake(kind)) /\ Cardinality(Awake(kind)') \in Nat
<1>1. Awake(kind)' \subseteq kind /\ IsFiniteSet(kind)
    BY ThreadSets DEF Awake
<1>2. IsFiniteSet(Awake(kind)')
    BY <1>1, FS_Subset
<1> QED
    BY <1>2, ThreadSets, FS_Subset, FS_CardinalityType

LEMMA OneMoreAwake ==
    ASSUME NEW kind \in {Producers, Consumers}, NEW t, t \notin Awake(kind), Awake(kind) \cup {t} \subseteq Awake(kind)'
    PROVE  Cardinality(Awake(kind)') >= Cardinality(Awake(kind)) + 1 /\ Cardinality(Awake(kind)') \in Nat
<1>1. Awake(kind)' \subseteq kind /\ IsFiniteSet(kind)
    BY ThreadSets DEF Awake
<1>2. IsFiniteSet(Awake(kind)')
    BY <1>1, FS_Subset
<1>3. Cardinality(Awake(kind) \cup {t}) = Cardinality(Awake(kind)) + 1
    BY ThreadSets, FS_AddElement
<1> QED
    BY <1>2, <1>3, ThreadSets, FS_Subset, FS_CardinalityType

LEMMA OneLessAwake ==
    ASSUME NEW kind \in {Producers, Consumers}, NEW t \in kind, Awake(kind) \ {t} \subseteq Awake(kind)'
    PROVE  Cardinality(Awake(kind)') >= Cardinality(Awake(kind)) - 1 /\ Cardinality(Awake(kind)') \in Nat
<1>1. Awake(kind)' \subseteq kind /\ IsFiniteSet(kind)
    BY ThreadSets DEF Awake
<1>2. IsFiniteSet(Awake(kind)')
    BY <1>1, FS_Subset
<1>3. Cardinality(Awake(kind) \ {t}) >= Cardinality(Awake(kind)) - 1 /\ Cardinality(Awake(kind) \ {t}) \in Nat
    <2>1. CASE t \in Awake(kind)
        <3>1. IsFiniteSet(Awake(kind) \ {t}) /\ Cardinality(Awake(kind) \ {t}) = Cardinality(Awake(kind)) - 1
            BY <2>1, ThreadSets, FS_RemoveElement
        <3>2. Cardinality(Awake(kind) \ {t}) \in Nat /\ Cardinality(Awake(kind)) \in Nat
            BY <3>1, ThreadSets, FS_CardinalityType
        <3> QED
            BY <3>1, <3>2
    <2>2. CASE t \notin Awake(kind)
        <3>1. Awake(kind) \ {t} = Awake(kind)
            BY <2>2
        <3> QED
            BY <3>1, ThreadSets
    <2> QED
        BY <2>1, <2>2
<1>4. Cardinality(Awake(kind) \ {t}) <= Cardinality(Awake(kind)')
    BY <1>2, FS_Subset
<1> QED
    BY <1>2, <1>3, <1>4, ThreadSets, FS_CardinalityType

\* notify_one, after which nobody waits or one more is awake.
LEMMA Notifies ==
    ASSUME QTypes, NEW kind \in {Producers, Consumers}, NEW c \in Threads \ kind, NEW what \in {"out", "flushing"},
           NotifyOne(kind, [thread EXCEPT ![c] = what])
    PROVE  /\ thread' \in [Threads -> {"out", "ready", "waiting", "flushing"}]
           /\ \A t \in Threads \ (kind \cup {c}) : thread'[t] = thread[t]
           /\ thread'[c] = what
           /\ Waiting(kind) # {} => \E t \in Waiting(kind) :
                 /\ thread'[t] = "ready" /\ \A u \in kind \ {t} : thread'[u] = thread[u]
           /\ Waiting(kind) = {} => \A u \in kind : thread'[u] = thread[u]
<1> DEFINE after == [thread EXCEPT ![c] = what]
<1>1. /\ after \in [Threads -> {"out", "ready", "waiting", "flushing"}] /\ after[c] = what
      /\ \A t \in Threads \ {c} : after[t] = thread[t]
      /\ kind \subseteq Threads
    BY ThreadSets DEF QTypes
<1>2. /\ Waiting(kind) = {} => thread' = after
      /\ Waiting(kind) # {} => \E t \in Waiting(kind) : thread' = [after EXCEPT ![t] = "ready"]
    BY DEF NotifyOne
<1> HIDE DEF after
<1>3. CASE Waiting(kind) = {}
    BY <1>1, <1>2, <1>3
<1>4. CASE Waiting(kind) # {}
    <2>1. PICK t \in Waiting(kind) : thread' = [after EXCEPT ![t] = "ready"]
        BY <1>2, <1>4
    <2>2. t \in kind /\ t # c /\ t \in Threads
        BY <1>1 DEF Waiting
    <2> QED
        BY <1>1, <1>4, <2>1, <2>2
<1> QED
    BY <1>3, <1>4

-----------------------------------------------------------------------------
(* What insert_tail and delete_head make of the list.                        *)

\* The step makes r of the list q by putting m behind it.
PutBehind(q, m, r) ==
    /\ m \in Messages /\ r \in Seq(Messages) /\ Len(r) = Len(q) + 1 /\ r[Len(q) + 1] = m
    /\ \A k \in 1 .. Len(q) : r[k] = q[k] /\ r[k] # m
    /\ d_next' \in Links /\ Listed(r)'

LEMMA LinkKeepsList ==
    ASSUME QInv, NEW q \in Seq(Messages), Listed(q), NEW p \in Producers, thread[p] = "ready", Link(p),
           NEW m, m = holding[p], NEW r, r = Append(q, m)
    PROVE  PutBehind(q, m, r)
<1> USE DEF QInv, PutBehind
<1> DEFINE l == Len(q)
<1>1. m \in Messages /\ m # Null /\ l \in Nat /\ d_next \in Links
    BY NullAssumption DEF Held, QTypes
<1>2. /\ d_tail' = m /\ d_head' = (IF d_tail = Null THEN m ELSE d_head) /\ d_count' = d_count + 1
      /\ d_next' = [k \in Messages |-> IF k = m THEN Null ELSE IF k = d_tail THEN m ELSE d_next[k]]
      /\ holding' = [holding EXCEPT ![p] = Null]
    BY DEF Link
<1>3. /\ r \in Seq(Messages) /\ Len(r) = l + 1 /\ r[l + 1] = m /\ r # <<>>
      /\ \A k \in 1 .. l : r[k] = q[k]
    BY <1>1, AppendProperties
<1>4. \A k \in 1 .. l : q[k] \in Messages /\ q[k] # m /\ q[k] # Null
    BY NullAssumption, ElementOfSeq DEF Listed
<1>5. /\ Distinct(q) /\ d_count = l
      /\ d_head = (IF q = <<>> THEN Null ELSE q[1]) /\ d_tail = (IF q = <<>> THEN Null ELSE q[l])
      /\ (\A k \in 1 .. l - 1 : d_next[q[k]] = q[k + 1])
      /\ \A x \in Messages : (\A k \in 1 .. l - 1 : q[k] # x) => d_next[x] = Null
    BY DEF Listed, Linked
<1>6. l = 0 <=> q = <<>>
    BY EmptySeq
<1>7. \A x \in Messages : d_next'[x] = IF x = m THEN Null ELSE IF x = d_tail THEN m ELSE d_next[x]
    BY <1>2
<1>8. d_next' \in Links
    BY <1>1, <1>2 DEF Links
<1> HIDE DEF l
<1>9. \A k \in 1 .. l + 1 : k \in 1 .. l \/ k = l + 1
    BY <1>1
<1>10. Distinct(r)
    <2> SUFFICES ASSUME NEW j \in 1 .. l + 1, NEW k \in 1 .. l + 1, r[j] = r[k] PROVE j = k
        BY <1>3 DEF Distinct
    <2>1. CASE j \in 1 .. l /\ k \in 1 .. l
        BY <1>3, <1>5, <2>1 DEF Distinct, l
    <2>2. CASE j = l + 1 \/ k = l + 1
        BY <1>3, <1>4, <1>9, <2>2
    <2> QED
        BY <1>9, <2>1, <2>2
<1>11. Linked(r, d_head', d_next')
    <2>1. d_head' = r[1]
        <3>1. CASE l = 0
            BY <1>2, <1>3, <1>5, <1>6, <3>1
        <3>2. CASE l # 0
            <4>1. 1 \in 1 .. l /\ l \in 1 .. l
                BY <1>1, <3>2
            <4> QED
                BY <1>2, <1>3, <1>4, <1>5, <1>6, <4>1, <3>2
        <3> QED
            BY <3>1, <3>2
    <2>2. ASSUME NEW k \in 1 .. l PROVE d_next'[r[k]] = r[k + 1]
        <3>1. r[k] = q[k] /\ q[k] # m /\ q[k] \in Messages
            BY <1>3, <1>4
        <3>2. CASE k = l
            <4>1. q[k] = d_tail
                BY <1>1, <1>5, <1>6, <3>2
            <4> QED
                BY <1>3, <1>7, <3>1, <3>2, <4>1
        <3>3. CASE k # l
            <4>1. k \in 1 .. l - 1 /\ k + 1 \in 1 .. l /\ l \in 1 .. l /\ l # 0
                BY <1>1, <3>3
            <4>2. q[k] # d_tail
                BY <1>5, <1>6, <3>3, <4>1 DEF Distinct, l
            <4>3. d_next'[q[k]] = d_next[q[k]]
                BY <1>7, <3>1, <4>2
            <4> QED
                BY <1>3, <1>5, <3>1, <4>1, <4>3
        <3> QED
            BY <3>2, <3>3
    <2>3. d_next'[r[l + 1]] = Null
        BY <1>1, <1>3, <1>7
    <2>4. (l + 1) - 1 = l
        BY <1>1
    <2> QED
        BY <1>3, <2>1, <2>2, <2>3, <2>4 DEF Linked
<1>12. ASSUME NEW x \in Messages, \A k \in 1 .. l : r[k] # x PROVE d_next'[x] = Null
    <2>1. \A k \in 1 .. l : q[k] # x
        BY <1>3, <1>12
    <2>2. x # d_tail
        <3>1. CASE l = 0
            BY <1>5, <1>6, <3>1, NullAssumption
        <3>2. CASE l # 0
            BY <1>1, <1>5, <1>6, <2>1, <3>2
        <3> QED
            BY <3>1, <3>2
    <2>3. \A k \in 1 .. l - 1 : k \in 1 .. l
        BY <1>1
    <2> QED
        BY <1>5, <1>7, <2>1, <2>2, <2>3
<1>13. ASSUME NEW o \in Producers, NEW k \in 1 .. l + 1 PROVE holding'[o] # r[k]
    <2>1. holding'[o] = IF o = p THEN Null ELSE holding[o]
        BY <1>2 DEF QTypes
    <2>2. r[k] \in Messages /\ r[k] # Null
        BY <1>1, <1>3, <1>4, <1>9
    <2>3. o # p => holding[o] # m
        BY <1>1 DEF Held
    <2>4. \A i \in 1 .. l : holding[o] # q[i]
        BY DEF Listed, l
    <2> QED
        BY <1>3, <1>9, <2>1, <2>2, <2>3, <2>4
<1>14. Listed(r)'
    <2>1. d_count' = Len(r) /\ (Len(r) - 1 = l) /\ Len(r) = l + 1
        BY <1>1, <1>2, <1>3, <1>5
    <2>2. d_tail' = IF r = <<>> THEN Null ELSE r[Len(r)]
        BY <1>2, <1>3
    <2> QED
        BY <1>10, <1>11, <1>12, <1>13, <2>1, <2>2 DEF Listed
<1> QED
    BY <1>1, <1>3, <1>4, <1>8, <1>14 DEF l

\* The step makes r of the list q by taking the first message off it.
TakenOff(q, r) ==
    /\ Len(q) \in Nat \ {0} /\ r \in Seq(Messages) /\ Len(r) = Len(q) - 1
    /\ \A k \in 1 .. Len(r) : r[k] = q[k + 1]
    /\ d_next' \in Links /\ Listed(r)'

LEMMA UnlinkKeepsList ==
    ASSUME QInv, NEW q \in Seq(Messages), Listed(q), NEW c \in Threads, NEW what, Unlink(c, what),
           NEW r, r = Tail(q)
    PROVE  TakenOff(q, r)
<1> USE DEF QInv, TakenOff
<1> DEFINE l == Len(q)
           n == l - 1
<1>1. /\ d_head # Null /\ d_head' = d_next[d_head] /\ d_tail' = (IF d_next[d_head] = Null THEN Null ELSE d_tail)
      /\ d_next' = [d_next EXCEPT ![d_head] = Null] /\ d_count' = d_count - 1 /\ holding' = holding
    BY DEF Unlink, TailLeft
<1>2. /\ Distinct(q) /\ d_count = l
      /\ d_head = (IF q = <<>> THEN Null ELSE q[1]) /\ d_tail = (IF q = <<>> THEN Null ELSE q[l])
      /\ (\A k \in 1 .. l - 1 : d_next[q[k]] = q[k + 1])
      /\ \A x \in Messages : (\A k \in 1 .. l - 1 : q[k] # x) => d_next[x] = Null
    BY DEF Listed, Linked
<1>3. q # <<>> /\ l \in Nat \ {0} /\ d_head = q[1]
    BY <1>1, <1>2, EmptySeq
<1>4. r \in Seq(Messages) /\ Len(r) = n /\ \A k \in 1 .. n : r[k] = q[k + 1]
    BY <1>3, HeadTailProperties
<1>5. \A k \in 1 .. l : q[k] \in Messages /\ q[k] # Null
    BY NullAssumption, ElementOfSeq
<1>6. n \in Nat /\ l = n + 1 /\ l \in 1 .. l /\ 1 \in 1 .. l
    BY <1>3
<1>7. /\ d_next' \in Links
      /\ \A x \in Messages : d_next'[x] = IF x = q[1] THEN Null ELSE d_next[x]
    BY <1>1, <1>3, <1>5, <1>6 DEF QTypes, Links
<1> HIDE DEF l, n
<1>8. \A k \in 2 .. l : q[k] # q[1]
    BY <1>2, <1>6 DEF Distinct, l
<1>9. d_next[q[1]] = IF n = 0 THEN Null ELSE q[2]
    <2>1. CASE n = 0
        <3>1. l = 1 /\ q # <<>>
            BY <1>3, <1>6, <2>1
        <3>2. d_next[q[l]] = Null
            BY <3>1 DEF Listed, Linked, l
        <3> QED
            BY <2>1, <3>1, <3>2
    <2>2. CASE n # 0
        <3>1. 1 \in 1 .. l - 1 /\ 1 + 1 = 2
            BY <1>6, <2>2
        <3> QED
            BY <1>2, <2>2, <3>1
    <2> QED
        BY <2>1, <2>2
<1>10. \A k \in 1 .. n : k + 1 \in 2 .. l /\ k + 1 \in 1 .. l
    BY <1>6
<1>11. Distinct(r)
    <2> SUFFICES ASSUME NEW j \in 1 .. n, NEW k \in 1 .. n, r[j] = r[k] PROVE j = k
        BY <1>4 DEF Distinct
    <2>1. q[j + 1] = q[k + 1] /\ j + 1 \in 1 .. l /\ k + 1 \in 1 .. l
        BY <1>4, <1>10
    <2>2. j + 1 = k + 1
        BY <1>2, <2>1 DEF Distinct, l
    <2> QED
        BY <2>2
<1>12. n = 0 <=> r = <<>>
    BY <1>4, EmptySeq
<1>13. Linked(r, d_head', d_next')
    <2>1. d_head' = IF r = <<>> THEN Null ELSE r[1]
        <3>1. n # 0 => 1 \in 1 .. n /\ 1 + 1 = 2
            BY <1>6
        <3> QED
            BY <1>1, <1>3, <1>4, <1>9, <1>12, <3>1
    <2>2. ASSUME NEW k \in 1 .. n - 1 PROVE d_next'[r[k]] = r[k + 1]
        <3>1. k \in 1 .. n /\ k + 1 \in 1 .. n /\ k + 1 \in 1 .. l - 1
            BY <1>6
        <3>2. r[k] = q[k + 1] /\ r[k + 1] = q[(k + 1) + 1] /\ q[k + 1] # q[1] /\ q[k + 1] \in Messages
            BY <1>4, <1>5, <1>8, <1>10, <3>1
        <3>3. d_next[q[k + 1]] = q[(k + 1) + 1]
            BY <1>2, <3>1
        <3> QED
            BY <1>7, <3>2, <3>3
    <2>3. r # <<>> => d_next'[r[n]] = Null
        <3> SUFFICES ASSUME n # 0 PROVE d_next'[r[n]] = Null
            BY <1>12
        <3>1. n \in 1 .. n /\ n + 1 = l
            BY <1>6
        <3>2. r[n] = q[l] /\ q[l] # q[1] /\ q[l] \in Messages
            BY <1>4, <1>5, <1>8, <1>10, <3>1
        <3>3. d_next[q[l]] = Null
            BY <1>3 DEF Listed, Linked, l
        <3> QED
            BY <1>7, <3>2, <3>3
    <2> QED
        BY <1>4, <2>1, <2>2, <2>3 DEF Linked
<1>14. ASSUME NEW x \in Messages, \A k \in 1 .. n - 1 : r[k] # x PROVE d_next'[x] = Null
    <2>1. CASE x = q[1]
        BY <1>7, <2>1
    <2>2. CASE x # q[1]
        <3>1. ASSUME NEW k \in 1 .. l - 1 PROVE q[k] # x
            <4>1. CASE k = 1
                BY <2>2, <4>1
            <4>2. CASE k # 1
                <5>1. k - 1 \in 1 .. n - 1 /\ k - 1 \in 1 .. n /\ (k - 1) + 1 = k
                    BY <1>6, <4>2
                <5> QED
                    BY <1>4, <1>14, <5>1
            <4> QED
                BY <4>1, <4>2
        <3> QED
            BY <1>2, <1>7, <2>2, <3>1
    <2> QED
        BY <2>1, <2>2
<1>15. \A o \in Producers, k \in 1 .. n : holding'[o] # r[k]
    BY <1>1, <1>4, <1>10 DEF Listed, l
<1>16. d_tail' = IF r = <<>> THEN Null ELSE r[n]
    <2>1. CASE n = 0
        BY <1>1, <1>3, <1>9, <1>12, <2>1
    <2>2. CASE n # 0
        <3>1. n \in 1 .. n /\ n + 1 = l /\ 2 \in 1 .. l
            BY <1>6, <2>2
        <3> QED
            BY <1>1, <1>2, <1>3, <1>4, <1>5, <1>9, <1>12, <2>2, <3>1
    <2> QED
        BY <2>1, <2>2
<1>17. Listed(r)'
    <2>1. d_count' = Len(r)
        BY <1>1, <1>2, <1>4, <1>6
    <2> QED
        BY <1>4, <1>11, <1>13, <1>14, <1>15, <1>16, <2>1 DEF Listed
<1> QED
    BY <1>3, <1>4, <1>7, <1>17 DEF l, n

-----------------------------------------------------------------------------
(* One step at a time.                                                       *)

\* Only the threads and what the producers hold change: nobody falls asleep
\* but on an empty or a full list, and nobody awake is lost besides.
LEMMA OthersKeep ==
    ASSUME QInv, UNCHANGED <<list, inserted, stamp>>, QTypes', Held',
           \A q \in Seq(Messages) : \A p \in Producers, k \in 1 .. Len(q) : Listed(q) => holding'[p] # q[k],
           \/ Awake(Consumers) \subseteq Awake(Consumers)' /\ Waiting(Consumers)' \subseteq Waiting(Consumers)
           \/ d_head = Null,
           \/ Awake(Producers) \subseteq Awake(Producers)' /\ Waiting(Producers)' \subseteq Waiting(Producers)
           \/ full_p
    PROVE  QInv' /\ Queued' = Queued
<1>1. PICK q \in Seq(Messages) : Listed(q) /\ q = Queued /\ Len(q) \in Nat /\ Len(q) = d_count
    BY QueuedFacts
<1>2. UNCHANGED <<d_head, d_tail, d_next, d_count>>
    BY DEF list
<1>3. Listed(q)'
    <2>1. \A p \in Producers, k \in 1 .. Len(q) : holding'[p] # q[k]
        BY <1>1
    <2> QED
        BY <1>1, <1>2, <2>1 DEF Listed, Linked
<1>4. Queued' = q
    BY <1>3, QueuedThen
<1>5. Waiting(Consumers)' # {} => Cardinality(Awake(Consumers)') >= Len(q)
    <2>1. CASE d_head = Null
        <3>1. q = <<>> /\ Len(q) = 0
            <4>1. q # <<>> => q[1] \in Messages
                BY <1>1, EmptySeq
            <4>2. q = <<>>
                BY <1>1, <2>1, <4>1, NullAssumption DEF Listed, Linked
            <4> QED
                BY <4>2, EmptySeq
        <3>2. Awake(Consumers)' \subseteq Consumers /\ IsFiniteSet(Consumers)
            BY ThreadSets DEF Awake
        <3>3. Cardinality(Awake(Consumers)') \in Nat
            BY <3>2, FS_Subset, FS_CardinalityType
        <3> QED
            BY <3>1, <3>3
    <2>2. CASE Awake(Consumers) \subseteq Awake(Consumers)' /\ Waiting(Consumers)' \subseteq Waiting(Consumers)
        <3>1. Cardinality(Awake(Consumers)') >= Cardinality(Awake(Consumers)) /\ Cardinality(Awake(Consumers)') \in Nat
            BY <2>2, MoreAwake
        <3>2. Waiting(Consumers)' # {} => Cardinality(Awake(Consumers)) >= Len(q)
            BY <1>1, <2>2 DEF QInv, NoSleeper
        <3>3. Cardinality(Awake(Consumers)) \in Nat
            BY ThreadSets
        <3> QED
            BY <1>1, <3>1, <3>2, <3>3
    <2> QED
        BY <2>1, <2>2
<1>6. Waiting(Producers)' # {} => Cardinality(Awake(Producers)') >= d_limit - Len(q)
    <2>1. CASE full_p
        <3>1. d_limit - Len(q) <= 0
            BY <1>1, <2>1, LimitAssumption DEF full_p
        <3>2. Awake(Producers)' \subseteq Producers /\ IsFiniteSet(Producers)
            BY ThreadSets DEF Awake
        <3>3. Cardinality(Awake(Producers)') \in Nat
            BY <3>2, FS_Subset, FS_CardinalityType
        <3> QED
            BY <1>1, <3>1, <3>3, LimitAssumption
    <2>2. CASE Awake(Producers) \subseteq Awake(Producers)' /\ Waiting(Producers)' \subseteq Waiting(Producers)
        <3>1. Cardinality(Awake(Producers)') >= Cardinality(Awake(Producers)) /\ Cardinality(Awake(Producers)') \in Nat
            BY <2>2, MoreAwake
        <3>2. Waiting(Producers)' # {} => Cardinality(Awake(Producers)) >= d_limit - Len(q)
            BY <1>1, <2>2 DEF QInv, NoSleeper
        <3>3. Cardinality(Awake(Producers)) \in Nat
            BY ThreadSets
        <3> QED
            BY <1>1, <3>1, <3>2, <3>3, LimitAssumption
    <2> QED
        BY <2>1, <2>2
<1>7. NoSleeper'
    BY <1>4, <1>5, <1>6 DEF NoSleeper
<1> QED
    BY <1>1, <1>3, <1>4, <1>7 DEF QInv

LEMMA CallInsertKeeps ==
    ASSUME QInv, ~Reinsert, NEW p \in Producers, NEW m \in Messages, CallInsert(p, m)
    PROVE  QInv' /\ Queued' = Queued
<1>1. /\ thread[p] = "out" /\ m \notin QueuedSet /\ \A o \in Producers : holding[o] # m
      /\ holding' = [holding EXCEPT ![p] = m] /\ thread' = [thread EXCEPT ![p] = "ready"]
      /\ UNCHANGED <<list, inserted, stamp>>
    BY DEF CallInsert
<1>2. p \in Threads /\ QTypes /\ Held
    BY DEF Threads, QInv
<1>3. /\ \A t \in Threads : thread'[t] = IF t = p THEN "ready" ELSE thread[t]
      /\ \A o \in Producers : holding'[o] = IF o = p THEN m ELSE holding[o]
    BY <1>1, <1>2 DEF QTypes
<1>4. QTypes'
    BY <1>1, <1>2 DEF QTypes, list
<1>5. Held'
    BY <1>1, <1>3, NullAssumption, <1>2 DEF Held, Threads
<1>6. ASSUME NEW q \in Seq(Messages), NEW o \in Producers, NEW k \in 1 .. Len(q), Listed(q)
      PROVE  holding'[o] # q[k]
    <2>1. q = Queued /\ DOMAIN Queued = 1 .. Len(Queued)
        BY <1>2, <1>6, QueuedIs, QueuedFacts
    <2>2. q[k] # m
        BY <1>1, <2>1 DEF QueuedSet
    <2> QED
        BY <1>3, <1>6, <2>2 DEF Listed
<1>7. \A kind \in {Producers, Consumers} : /\ Awake(kind) \subseteq Awake(kind)'
                                           /\ Waiting(kind)' \subseteq Waiting(kind)
    BY <1>1, <1>3, ThreadSets DEF Awake, Waiting
<1> QED
    BY <1>1, <1>4, <1>5, <1>6, <1>7, OthersKeep

\* The calls and waits that touch neither the list nor what is held.
LEMMA ThreadKeeps ==
    ASSUME QInv, NEW t \in Threads, NEW what \in {"out", "ready", "waiting"},
           thread' = [thread EXCEPT ![t] = what], UNCHANGED <<list, holding, inserted, stamp>>,
           \/ what = "ready" /\ (t \in Producers => thread[t] = "waiting")
           \/ what = "waiting" /\ t \in Producers /\ thread[t] = "ready" /\ full_p
           \/ what = "waiting" /\ t \in Consumers /\ d_head = Null
           \/ what = "out" /\ t \in Consumers /\ thread[t] = "flushing"
    PROVE  QInv' /\ Queued' = Queued
<1>1. QTypes /\ Held
    BY DEF QInv
<1>2. \A u \in Threads : thread'[u] = IF u = t THEN what ELSE thread[u]
    BY <1>1 DEF QTypes
<1>3. QTypes'
    <2>1. thread' \in [Threads -> {"out", "ready", "waiting", "flushing"}]
        BY <1>1 DEF QTypes
    <2> QED
        BY <1>1, <2>1 DEF QTypes, list
<1>4. Held'
    <2>1. ASSUME NEW p \in Producers, thread'[p] \in {"ready", "waiting"} PROVE thread[p] \in {"ready", "waiting"}
        <3>1. p \in Threads /\ p \notin Consumers
            BY ThreadsAssumption DEF Threads
        <3> QED
            BY <1>2, <2>1, <3>1
    <2> QED
        BY <1>1, <2>1 DEF Held
<1>5. \A q \in Seq(Messages) : \A p \in Producers, k \in 1 .. Len(q) : Listed(q) => holding'[p] # q[k]
    BY DEF Listed
<1>6. \/ Awake(Consumers) \subseteq Awake(Consumers)' /\ Waiting(Consumers)' \subseteq Waiting(Consumers)
      \/ d_head = Null
    <2> SUFFICES ASSUME ~(what = "waiting" /\ t \in Consumers)
                 PROVE  Awake(Consumers) \subseteq Awake(Consumers)' /\ Waiting(Consumers)' \subseteq Waiting(Consumers)
        BY ThreadsAssumption
    <2> QED
        BY <1>2, ThreadSets DEF Awake, Waiting
<1>7. \/ Awake(Producers) \subseteq Awake(Producers)' /\ Waiting(Producers)' \subseteq Waiting(Producers)
      \/ full_p
    <2> SUFFICES ASSUME ~(what = "waiting" /\ t \in Producers)
                 PROVE  Awake(Producers) \subseteq Awake(Producers)' /\ Waiting(Producers)' \subseteq Waiting(Producers)
        BY ThreadsAssumption
    <2> QED
        BY <1>2, ThreadSets, ThreadsAssumption DEF Awake, Waiting
<1> QED
    BY <1>3, <1>4, <1>5, <1>6, <1>7, OthersKeep

-----------------------------------------------------------------------------
(* The steps that change the list, as steps of the bounded queue.            *)

Capacity == IF d_limit = 0 THEN Cardinality(Messages) ELSE d_limit
Stamps   == [k \in DOMAIN Queued |-> stamp[Queued[k]]]

LEMMA StampsAre ==
    ASSUME NEW q \in Seq(Messages), NEW s \in [Messages -> Int], NEW n, n = [k \in DOMAIN q |-> s[q[k]]]
    PROVE  Len(n) = Len(q) /\ \A k \in 1 .. Len(q) : n[k] = s[q[k]]
<1>1. DOMAIN q = 1 .. Len(q) /\ Len(q) \in Nat /\ \A k \in 1 .. Len(q) : s[q[k]] \in Int
    BY LenProperties, ElementOfSeq
<1>2. n \in Seq(Int)
    BY <1>1
<1>3. DOMAIN n = 1 .. Len(n) /\ Len(n) \in Nat /\ DOMAIN n = 1 .. Len(q)
    BY <1>1, <1>2, LenProperties
<1> QED
    BY <1>1, <1>3

LEMMA InsertKeeps ==
    ASSUME QInv, NEW p \in Producers, InsertTail(p)
    PROVE  QInv' /\ QFifo!Next
<1>1. PICK q \in Seq(Messages) : Listed(q) /\ q = Queued /\ Len(q) \in Nat /\ Len(q) = d_count
    BY QueuedFacts
<1>2. PICK m : m = holding[p]
    OBVIOUS
<1>3. PICK r : r = Append(q, m)
    OBVIOUS
<1>4. thread[p] = "ready" /\ ~full_p /\ Link(p)
    BY DEF InsertTail
<1>5. /\ m \in Messages /\ r \in Seq(Messages) /\ Len(r) = Len(q) + 1 /\ r[Len(q) + 1] = m
      /\ (\A k \in 1 .. Len(q) : r[k] = q[k] /\ r[k] # m)
      /\ d_next' \in Links /\ Listed(r)'
    <2>1. PutBehind(q, m, r)
        BY <1>1, <1>2, <1>3, <1>4, LinkKeepsList
    <2> QED
        BY <2>1 DEF PutBehind
<1>6. /\ d_tail' = m /\ d_head' = (IF d_tail = Null THEN m ELSE d_head) /\ d_count' = d_count + 1
      /\ holding' = [holding EXCEPT ![p] = Null] /\ inserted' = inserted + 1
      /\ stamp' = [stamp EXCEPT ![m] = inserted]
      /\ NotifyOne(Consumers, [thread EXCEPT ![p] = "out"])
    BY <1>2, <1>4 DEF Link, NotEmpty
<1>7. QTypes /\ Held /\ p \in Threads \ Consumers /\ Producers \subseteq Threads \ Consumers
    BY ThreadsAssumption DEF QInv, Threads
<1>8. /\ thread' \in [Threads -> {"out", "ready", "waiting", "flushing"}]
      /\ \A t \in Threads \ (Consumers \cup {p}) : thread'[t] = thread[t]
      /\ thread'[p] = "out"
      /\ Waiting(Consumers) # {} => \E t \in Waiting(Consumers) :
            /\ thread'[t] = "ready" /\ \A u \in Consumers \ {t} : thread'[u] = thread[u]
      /\ Waiting(Consumers) = {} => \A u \in Consumers : thread'[u] = thread[u]
    BY <1>6, <1>7, Notifies
<1>9. QTypes'
    <2>1. stamp' \in [Messages -> Int] /\ inserted' \in Nat
        BY <1>5, <1>6, <1>7 DEF QTypes
    <2>2. holding' \in [Producers -> Messages \cup {Null}]
        BY <1>6, <1>7 DEF QTypes
    <2> QED
        BY <1>5, <1>6, <1>7, <1>8, <2>1, <2>2 DEF QTypes
<1>10. Held'
    <2>1. \A o \in Producers : holding'[o] = IF o = p THEN Null ELSE holding[o]
        BY <1>6, <1>7 DEF QTypes
    <2>2. \A o \in Producers \ {p} : thread'[o] = thread[o]
        BY <1>7, <1>8
    <2> QED
        BY <1>7, <1>8, <2>1, <2>2 DEF Held
<1>11. Queued' = r
    BY <1>5, <1>9, QueuedThen
<1>12. Waiting(Consumers)' # {} => Cardinality(Awake(Consumers)') >= Len(r)
    <2> SUFFICES ASSUME Waiting(Consumers)' # {} PROVE Cardinality(Awake(Consumers)') >= Len(r)
        OBVIOUS
    <2>1. Waiting(Consumers) # {}
        BY <1>8 DEF Waiting
    <2>2. PICK t \in Waiting(Consumers) :
              thread'[t] = "ready" /\ \A u \in Consumers \ {t} : thread'[u] = thread[u]
        BY <1>8, <2>1
    <2>3. t \notin Awake(Consumers) /\ Awake(Consumers) \cup {t} \subseteq Awake(Consumers)'
        BY <2>2 DEF Awake, Waiting
    <2>4. Cardinality(Awake(Consumers)') >= Cardinality(Awake(Consumers)) + 1 /\ Cardinality(Awake(Consumers)') \in Nat
        BY <2>3, OneMoreAwake
    <2>5. Cardinality(Awake(Consumers)) >= Len(q) /\ Cardinality(Awake(Consumers)) \in Nat
        BY <1>1, <2>1, ThreadSets DEF QInv, NoSleeper
    <2> QED
        BY <1>1, <1>5, <2>4, <2>5
<1>13. Waiting(Producers)' # {} => Cardinality(Awake(Producers)') >= d_limit - Len(r)
    <2> SUFFICES ASSUME Waiting(Producers)' # {} PROVE Cardinality(Awake(Producers)') >= d_limit - Len(r)
        OBVIOUS
    <2>1. \A o \in Producers \ {p} : thread'[o] = thread[o]
        BY <1>7, <1>8
    <2>2. Waiting(Producers) # {} /\ Awake(Producers) \ {p} \subseteq Awake(Producers)'
        BY <1>8, <2>1 DEF Waiting, Awake
    <2>3. Cardinality(Awake(Producers)') >= Cardinality(Awake(Producers)) - 1 /\ Cardinality(Awake(Producers)') \in Nat
        BY <2>2, OneLessAwake
    <2>4. Cardinality(Awake(Producers)) >= d_limit - Len(q) /\ Cardinality(Awake(Producers)) \in Nat
        BY <1>1, <2>2, ThreadSets DEF QInv, NoSleeper
    <2> QED
        BY <1>1, <1>5, <2>3, <2>4, LimitAssumption
<1>14. QInv'
    <2>1. NoSleeper'
        BY <1>11, <1>12, <1>13 DEF NoSleeper
    <2> QED
        BY <1>5, <1>9, <1>10, <2>1 DEF QInv
<1>15. QFifo!Put(1)
    <2> DEFINE a == [k \in DOMAIN q |-> stamp[q[k]]]
               b == [k \in DOMAIN r |-> stamp'[r[k]]]
    <2>1. /\ Len(a) = Len(q) /\ \A k \in 1 .. Len(q) : a[k] = stamp[q[k]]
          /\ Len(b) = Len(r) /\ \A k \in 1 .. Len(r) : b[k] = stamp'[r[k]]
        BY <1>1, <1>5, <1>7, <1>9, StampsAre DEF QTypes
    <2>2. DOMAIN b = 1 .. Len(q) + 1
        BY <1>5, LenProperties
    <2>3. a = Stamps /\ b = Stamps'
        BY <1>1, <1>11 DEF Stamps
    <2> HIDE DEF a, b
    <2>4. \A x \in Messages : stamp'[x] = IF x = m THEN inserted ELSE stamp[x]
        BY <1>6, <1>7 DEF QTypes
    <2>5. Len(a) + 1 <= Capacity
        <3>1. CASE d_limit = 0
            <4>1. Len(r) \in 0 .. Size
                BY <1>5, DistinctFits DEF Listed
            <4> QED
                BY <1>5, <2>1, <3>1, <4>1 DEF Capacity, Size
        <3>2. CASE d_limit # 0
            BY <1>1, <1>4, <2>1, <3>2, LimitAssumption DEF Capacity, full_p
        <3> QED
            BY <3>1, <3>2
    <2>6. ASSUME NEW k \in 1 .. Len(q) + 1
          PROVE  b[k] = IF k <= Len(q) THEN a[k] ELSE inserted + k - Len(q) - 1
        <3>1. CASE k \in 1 .. Len(q)
            <4>1. r[k] = q[k] /\ r[k] # m /\ k \in 1 .. Len(r) /\ r[k] \in Messages
                BY <1>1, <1>5, <3>1, ElementOfSeq
            <4>2. b[k] = stamp'[r[k]] /\ a[k] = stamp[q[k]]
                BY <2>1, <3>1, <4>1
            <4> QED
                BY <1>1, <2>4, <3>1, <4>1, <4>2
        <3>2. CASE k = Len(q) + 1
            <4>1. b[k] = stamp'[m] /\ ~(k <= Len(q)) /\ inserted + k - Len(q) - 1 = inserted
                BY <1>1, <1>5, <1>7, <2>1, <3>2 DEF QTypes
            <4> QED
                BY <1>5, <2>4, <4>1
        <3> QED
            BY <1>1, <3>1, <3>2
    <2>7. b = [k \in 1 .. Len(a) + 1 |-> IF k <= Len(a) THEN a[k] ELSE inserted + k - Len(a) - 1]
        <3>1. b = [k \in 1 .. Len(q) + 1 |-> b[k]]
            BY <2>2, <1>9, <1>11, <2>3 DEF Stamps
        <3> QED
            BY <2>1, <2>6, <3>1
    <2> QED
        BY <1>6, <2>3, <2>5, <2>7 DEF QFifo!Put, Stamps, Capacity
<1>16. 1 \in 1 .. Capacity
    <2>1. CASE d_limit = 0
        <3>1. Len(r) \in 0 .. Size /\ Len(r) >= 1
            BY <1>1, <1>5, DistinctFits DEF Listed
        <3> QED
            BY <2>1, <3>1, SizeType DEF Capacity, Size
    <2>2. CASE d_limit # 0
        BY <2>2, LimitAssumption DEF Capacity
    <2> QED
        BY <2>1, <2>2
<1>17. QFifo!Next
    BY <1>15, <1>16 DEF QFifo!Next, Capacity
<1> QED
    BY <1>14, <1>17

LEMMA UnlinkKeeps ==
    ASSUME QInv, NEW c \in Consumers, NEW what \in {"out", "flushing"}, Unlink(c, what)
    PROVE  QInv' /\ QFifo!Next
<1>1. PICK q \in Seq(Messages) : Listed(q) /\ q = Queued /\ Len(q) \in Nat /\ Len(q) = d_count
    BY QueuedFacts
<1>2. PICK r : r = Tail(q)
    OBVIOUS
<1>3. QTypes /\ Held /\ c \in Threads \ Producers /\ c \in Threads
    BY ThreadsAssumption DEF QInv, Threads
<1>4. /\ Len(q) \in Nat \ {0} /\ r \in Seq(Messages) /\ Len(r) = Len(q) - 1
      /\ (\A k \in 1 .. Len(r) : r[k] = q[k + 1])
      /\ d_next' \in Links /\ Listed(r)'
    <2>1. TakenOff(q, r)
        BY <1>1, <1>2, <1>3, UnlinkKeepsList
    <2> QED
        BY <2>1 DEF TakenOff
<1>5. /\ d_head' = d_next[d_head] /\ d_head \in Messages /\ d_tail' = (IF d_next[d_head] = Null THEN Null ELSE d_tail)
      /\ d_count' = d_count - 1 /\ UNCHANGED <<holding, inserted, stamp>>
      /\ NotifyOne(Producers, [thread EXCEPT ![c] = what])
    BY <1>3 DEF Unlink, TailLeft, NotFull, QTypes
<1>6. /\ thread' \in [Threads -> {"out", "ready", "waiting", "flushing"}]
      /\ \A t \in Threads \ (Producers \cup {c}) : thread'[t] = thread[t]
      /\ thread'[c] = what
      /\ Waiting(Producers) # {} => \E t \in Waiting(Producers) :
            /\ thread'[t] = "ready" /\ \A u \in Producers \ {t} : thread'[u] = thread[u]
      /\ Waiting(Producers) = {} => \A u \in Producers : thread'[u] = thread[u]
    BY <1>3, <1>5, Notifies
<1>7. QTypes'
    <2>1. d_head' \in Messages \cup {Null}
        BY <1>3, <1>5 DEF QTypes, Links
    <2>2. d_count' \in Nat
        BY <1>1, <1>4, <1>5
    <2> QED
        BY <1>3, <1>4, <1>5, <1>6, <2>1, <2>2 DEF QTypes
<1>8. Held'
    <2>1. \A o \in Producers : thread'[o] \in {"ready", "waiting"} => thread[o] \in {"ready", "waiting"}
        BY <1>6 DEF Waiting
    <2> QED
        BY <1>3, <1>5, <2>1 DEF Held
<1>9. Queued' = r
    BY <1>4, <1>7, QueuedThen
<1>10. Waiting(Consumers)' # {} => Cardinality(Awake(Consumers)') >= Len(r)
    <2> SUFFICES ASSUME Waiting(Consumers)' # {} PROVE Cardinality(Awake(Consumers)') >= Len(r)
        OBVIOUS
    <2>1. \A o \in Consumers \ {c} : thread'[o] = thread[o]
        BY <1>6, ThreadsAssumption DEF Threads
    <2>2. Waiting(Consumers) # {} /\ Awake(Consumers) \ {c} \subseteq Awake(Consumers)'
        BY <1>6, <2>1 DEF Waiting, Awake
    <2>3. Cardinality(Awake(Consumers)') >= Cardinality(Awake(Consumers)) - 1 /\ Cardinality(Awake(Consumers)') \in Nat
        BY <2>2, OneLessAwake
    <2>4. Cardinality(Awake(Consumers)) >= Len(q) /\ Cardinality(Awake(Consumers)) \in Nat
        BY <1>1, <2>2, ThreadSets DEF QInv, NoSleeper
    <2> QED
        BY <1>1, <1>4, <2>3, <2>4
<1>11. Waiting(Producers)' # {} => Cardinality(Awake(Producers)') >= d_limit - Len(r)
    <2> SUFFICES ASSUME Waiting(Producers)' # {} PROVE Cardinality(Awake(Producers)') >= d_limit - Len(r)
        OBVIOUS
    <2>1. Waiting(Producers) # {}
        BY <1>6 DEF Waiting
    <2>2. PICK t \in Waiting(Producers) :
              thread'[t] = "ready" /\ \A u \in Producers \ {t} : thread'[u] = thread[u]
        BY <1>6, <2>1
    <2>3. t \notin Awake(Producers) /\ Awake(Producers) \cup {t} \subseteq Awake(Producers)'
        BY <2>2 DEF Awake, Waiting
    <2>4. Cardinality(Awake(Producers)') >= Cardinality(Awake(Producers)) + 1 /\ Cardinality(Awake(Producers)') \in Nat
        BY <2>3, OneMoreAwake
    <2>5. Cardinality(Awake(Producers)) >= d_limit - Len(q) /\ Cardinality(Awake(Producers)) \in Nat
        BY <1>1, <2>1, ThreadSets DEF QInv, NoSleeper
    <2> QED
        BY <1>1, <1>4, <2>4, <2>5, LimitAssumption
<1>12. QInv'
    <2>1. NoSleeper'
        BY <1>9, <1>10, <1>11 DEF NoSleeper
    <2> QED
        BY <1>4, <1>7, <1>8, <2>1 DEF QInv
<1>13. QFifo!Get(1)
    <2> DEFINE a == [k \in DOMAIN q |-> stamp[q[k]]]
               b == [k \in DOMAIN r |-> stamp'[r[k]]]
    <2>1. /\ Len(a) = Len(q) /\ \A k \in 1 .. Len(q) : a[k] = stamp[q[k]]
          /\ Len(b) = Len(r) /\ \A k \in 1 .. Len(r) : b[k] = stamp'[r[k]]
        <3>1. stamp \in [Messages -> Int] /\ stamp' \in [Messages -> Int]
            BY <1>3, <1>7 DEF QTypes
        <3>2. Len(a) = Len(q) /\ \A k \in 1 .. Len(q) : a[k] = stamp[q[k]]
            BY <3>1, StampsAre
        <3>3. PICK s : s = stamp'
            OBVIOUS
        <3>4. r \in Seq(Messages) /\ s \in [Messages -> Int] /\ b = [k \in DOMAIN r |-> s[r[k]]]
            BY <1>4, <3>1, <3>3
        <3>5. Len(b) = Len(r) /\ \A k \in 1 .. Len(r) : b[k] = s[r[k]]
            BY <3>4, StampsAre
        <3>6. Len(b) = Len(r) /\ \A k \in 1 .. Len(r) : b[k] = stamp'[r[k]]
            BY <3>3, <3>5
        <3> QED
            BY <3>2, <3>6
    <2>2. DOMAIN r = 1 .. Len(q) - 1
        BY <1>4, LenProperties
    <2>3. a = Stamps /\ b = Stamps' /\ b = [k \in 1 .. Len(q) - 1 |-> b[k]]
        BY <1>1, <1>9, <2>2 DEF Stamps
    <2> HIDE DEF a, b
    <2>4. ASSUME NEW k \in 1 .. Len(q) - 1 PROVE b[k] = a[k + 1]
        <3>1. k \in 1 .. Len(r) /\ k + 1 \in 1 .. Len(q)
            BY <1>1, <1>4
        <3>2. b[k] = stamp'[r[k]] /\ a[k + 1] = stamp[q[k + 1]] /\ r[k] = q[k + 1]
            BY <1>4, <2>1, <3>1
        <3> QED
            BY <1>5, <3>2
    <2>5. b = [k \in 1 .. Len(a) - 1 |-> a[k + 1]]
        BY <2>1, <2>3, <2>4
    <2>6. 1 <= Len(a)
        BY <1>4, <2>1
    <2> QED
        BY <1>5, <2>3, <2>5, <2>6 DEF QFifo!Get, Stamps
<1>14. 1 \in 1 .. Capacity
    <2>1. CASE d_limit = 0
        <3>1. Len(q) \in 0 .. Size
            BY <1>1, DistinctFits DEF Listed
        <3> QED
            BY <1>4, <2>1, <3>1, SizeType DEF Capacity, Size
    <2>2. CASE d_limit # 0
        BY <2>2, LimitAssumption DEF Capacity
    <2> QED
        BY <2>1, <2>2
<1>15. QFifo!Next
    BY <1>13, <1>14 DEF QFifo!Next, Capacity
<1> QED
    BY <1>12, <1>15

-----------------------------------------------------------------------------
LEMMA QInitInv == QInit => QInv /\ QFifo!Init
<1> SUFFICES ASSUME QInit PROVE QInv /\ QFifo!Init
    OBVIOUS
<1> DEFINE q == <<>>
<1>0. q \in Seq(Messages) /\ Len(q) = 0
    BY EmptySeq
<1>1. QTypes
    BY DEF QInit, QTypes, Links
<1>2. Held
    BY DEF QInit, Held, Threads
<1>6. NoSleeper
    <2>1. \A t \in Consumers \cup Producers : thread[t] = "out"
        BY DEF QInit, Threads
    <2>2. Waiting(Consumers) = {} /\ Waiting(Producers) = {}
        BY <2>1 DEF Waiting
    <2> QED
        BY <2>2 DEF NoSleeper
<1>3. Listed(q)
    <2>1. Linked(q, d_head, d_next) /\ Distinct(q)
        BY <1>0 DEF QInit, Linked, Distinct
    <2> QED
        BY <1>0, <2>1 DEF QInit, Listed
<1>4. Queued = q
    BY <1>1, <1>3, QueuedIs
<1>5. QFifo!Init
    <2>1. DOMAIN Queued = {}
        BY <1>0, <1>4
    <2>2. [k \in DOMAIN Queued |-> stamp[Queued[k]]] = <<>>
        BY <2>1
    <2> QED
        BY <2>2 DEF QFifo!Init, QInit
<1> QED
    BY <1>0, <1>1, <1>2, <1>3, <1>5, <1>6 DEF QInv

LEMMA QNextInv ==
    ASSUME QInv, ~Reinsert, [QNext]_qvars
    PROVE  QInv' /\ [QFifo!Next]_(QFifo!vars)
<1>1. ASSUME QInv' /\ Queued' = Queued, UNCHANGED <<inserted, stamp>>
      PROVE  QInv' /\ [QFifo!Next]_(QFifo!vars)
    BY <1>1 DEF QFifo!vars
<1>2. ASSUME UNCHANGED qvars PROVE QInv' /\ [QFifo!Next]_(QFifo!vars)
    <2>1. UNCHANGED <<list, d_head, d_tail, d_next, d_count, holding, thread, inserted, stamp>>
        BY <1>2 DEF qvars, list
    <2>2. QTypes' /\ Held'
        BY <2>1 DEF QInv, QTypes, Held
    <2>3. \A q \in Seq(Messages) : \A p \in Producers, k \in 1 .. Len(q) : Listed(q) => holding'[p] # q[k]
        BY <2>1 DEF Listed
    <2>4. \A kind \in {Producers, Consumers} : Awake(kind)' = Awake(kind) /\ Waiting(kind)' = Waiting(kind)
        BY <2>1 DEF Awake, Waiting
    <2>5. QInv' /\ Queued' = Queued
        BY <2>1, <2>2, <2>3, <2>4, OthersKeep
    <2> QED
        BY <1>1, <2>1, <2>5
<1>3. ASSUME NEW p \in Producers, InCall(p) \/ \E m \in Messages : CallInsert(p, m)
      PROVE  QInv' /\ [QFifo!Next]_(QFifo!vars)
    <2>1. CASE \E m \in Messages : CallInsert(p, m)
        BY <1>1, <2>1, CallInsertKeeps DEF CallInsert
    <2>2. CASE InsertWait(p)
        <3>1. p \in Threads
            BY DEF Threads
        <3>2. /\ thread[p] = "ready" /\ full_p /\ thread' = [thread EXCEPT ![p] = "waiting"]
              /\ UNCHANGED <<list, holding, inserted, stamp>>
            BY <2>2 DEF InsertWait
        <3>3. QInv' /\ Queued' = Queued
            BY <3>1, <3>2, ThreadKeeps
        <3> QED
            BY <1>1, <3>2, <3>3
    <2>3. CASE InsertTail(p)
        BY <2>3, InsertKeeps
    <2> QED
        BY <1>3, <2>1, <2>2, <2>3 DEF InCall
<1>4. ASSUME NEW c \in Consumers, \/ Taking(c) \/ Flushing(c)
                                  \/ CallDelete(c) \/ DeleteHeadNowait(c) \/ FlushFirst(c)
      PROVE  QInv' /\ [QFifo!Next]_(QFifo!vars)
    <2>0. c \in Threads /\ c \notin Producers
        BY ThreadsAssumption DEF Threads
    <2>1. CASE DeleteWait(c)
        <3>1. /\ d_head = Null /\ thread' = [thread EXCEPT ![c] = "waiting"]
              /\ UNCHANGED <<list, holding, inserted, stamp>>
            BY <2>1 DEF DeleteWait
        <3>2. QInv' /\ Queued' = Queued
            BY <2>0, <3>1, ThreadKeeps
        <3> QED
            BY <1>1, <3>1, <3>2
    <2>2. CASE CallDelete(c)
        <3>1. thread' = [thread EXCEPT ![c] = "ready"] /\ UNCHANGED <<list, holding, inserted, stamp>>
            BY <2>2 DEF CallDelete
        <3>2. QInv' /\ Queued' = Queued
            BY <2>0, <3>1, ThreadKeeps
        <3> QED
            BY <1>1, <3>1, <3>2
    <2>3. CASE FlushEnd(c)
        <3>1. /\ thread[c] = "flushing" /\ thread' = [thread EXCEPT ![c] = "out"]
              /\ UNCHANGED <<list, holding, inserted, stamp>>
            BY <2>3 DEF FlushEnd
        <3>2. QInv' /\ Queued' = Queued
            BY <2>0, <3>1, ThreadKeeps
        <3> QED
            BY <1>1, <3>1, <3>2
    <2>4. CASE \E what \in {"out", "flushing"} : Unlink(c, what)
        BY <2>4, UnlinkKeeps
    <2> QED
        BY <1>4, <2>1, <2>2, <2>3, <2>4
        DEF Taking, Flushing, DeleteHead, DeleteHeadNowait, FlushFirst, FlushMore
<1>5. ASSUME NEW t \in Threads, Spurious(t) PROVE QInv' /\ [QFifo!Next]_(QFifo!vars)
    <2>1. /\ thread[t] = "waiting" /\ thread' = [thread EXCEPT ![t] = "ready"]
          /\ UNCHANGED <<list, holding, inserted, stamp>>
        BY <1>5 DEF Spurious
    <2>2. QInv' /\ Queued' = Queued
        BY <2>1, ThreadKeeps
    <2> QED
        BY <1>1, <2>1, <2>2
<1> QED
    BY <1>2, <1>3, <1>4, <1>5 DEF QNext

LEMMA QImplies == QInv => CountIsLength /\ NoSleeper
<1> SUFFICES ASSUME QInv PROVE CountIsLength
    BY DEF QInv
<1>1. Listed(Queued)
    BY QueuedFacts
<1> QED
    BY <1>1 DEF CountIsLength, Listed

(* For any producers, consumers, messages and limit, if no message is        *)
(* inserted that is still in the queue: msg_queue is a bounded queue whose   *)
(* count and tail are those of its list, and nobody sleeps on it while there *)
(* is work for him.                                                          *)
THEOREM QueueAlwaysKept == ASSUME ~Reinsert PROVE QSpec => QueueKept
<1>1. QInit => QInv /\ QFifo!Init
    BY QInitInv
<1>2. QInv /\ [QNext]_qvars => QInv' /\ [QFifo!Next]_(QFifo!vars)
    BY QNextInv
<1>3. QInv => CountIsLength /\ NoSleeper
    BY QImplies
<1> QED
    BY <1>1, <1>2, <1>3, PTL DEF QSpec, QueueKept, QFifoSpec, QFifo!Spec

-----------------------------------------------------------------------------
(***************************************************************************)
(* The preferences.  What is in force after a file is read is, of each       *)
(* option, what the last line about it says, and what was in force where no  *)
(* line is about it; the same holds of files after one another.  Both loops  *)
(* are functions by recursion, and one induction serves for both.            *)
(***************************************************************************)

IsName(n) == n = <<n[1], n[2]>>
LineAt(l, n) == <<l[1], l[2]>> = n

\* What one map says of an option when the other, and then a text, was put in.
Told(new, old, n, said, text) ==
    /\ said => InMap(new, n) /\ TextIn(new, n) = text
    /\ ~said => (InMap(new, n) <=> InMap(old, n)) /\ (InMap(old, n) => TextIn(new, n) = TextIn(old, n))

\* The next line of a file, or the next file.
ReadStep(how, map, x) == IF how = "line" THEN Assigned(map, x) ELSE _read_file(map, x)
Hits(how, x, n) == IF how = "line" THEN LineAt(x, n) ELSE About(x, n) # {}
HitText(how, x, n) == IF how = "line" THEN x[3] ELSE x[LastOf(About(x, n))][3]
HitsIn(how, xs, k, n) == {i \in 1 .. k : Hits(how, xs[i], n)}

IsRead(how, map, xs, k, f) ==
    f = [i \in 0 .. k |-> IF i = 0 THEN map ELSE ReadStep(how, f[i - 1], xs[i])]

ReadBySteps(how, map, xs, k, f) ==
    f[0] = map /\ \A i \in 1 .. k : f[i] = ReadStep(how, f[i - 1], xs[i])

\* Each of the first k says what it says of n.
EachTold(how, xs, k, n) ==
    \A i \in 1 .. k : \A map : Told(ReadStep(how, map, xs[i]), map, n, Hits(how, xs[i], n), HitText(how, xs[i], n))

LEMMA EmptyMap == \A n : ~InMap(<<>>, n)
    BY DEF InMap

LEMMA AssignedTold ==
    ASSUME NEW map, NEW l, NEW n, IsName(n)
    PROVE  Told(Assigned(map, l), map, n, LineAt(l, n), l[3])
    BY DEF Assigned, MapPut, Options, InMap, TextIn, LineAt, IsName, Told

LEMMA ReadExists ==
    ASSUME NEW how, NEW map, NEW xs, NEW k \in Nat
    PROVE  \E f : IsRead(how, map, xs, k, f)
<1> DEFINE S == {n \in Nat : \E f : IsRead(how, map, xs, n, f)}
<1>1. 0 \in S
    <2> DEFINE f == [i \in 0 .. 0 |-> map]
    <2>1. \A i \in 0 .. 0 : i = 0
        OBVIOUS
    <2>2. IsRead(how, map, xs, 0, f)
        BY <2>1 DEF IsRead
    <2> QED
        BY <2>2
<1>2. ASSUME NEW n \in Nat, n \in S PROVE n + 1 \in S
    <2>1. PICK f : IsRead(how, map, xs, n, f)
        BY <1>2
    <2> DEFINE g == [i \in 0 .. n + 1 |-> IF i <= n THEN f[i] ELSE ReadStep(how, f[n], xs[n + 1])]
    <2>2. \A i \in 0 .. n : g[i] = f[i]
        OBVIOUS
    <2>3. g[n + 1] = ReadStep(how, f[n], xs[n + 1])
        OBVIOUS
    <2>4. \A i \in 0 .. n : f[i] = IF i = 0 THEN map ELSE ReadStep(how, f[i - 1], xs[i])
        <3> DEFINE h == [i \in 0 .. n |-> IF i = 0 THEN map ELSE ReadStep(how, f[i - 1], xs[i])]
        <3>1. \A i \in 0 .. n : h[i] = IF i = 0 THEN map ELSE ReadStep(how, f[i - 1], xs[i])
            OBVIOUS
        <3>2. f = h
            BY <2>1 DEF IsRead
        <3> HIDE DEF h
        <3> QED
            BY <3>1, <3>2
    <2>5. g = [i \in 0 .. n + 1 |-> g[i]]
        OBVIOUS
    <2> HIDE DEF g
    <2>6. ASSUME NEW i \in 0 .. n + 1
          PROVE  g[i] = IF i = 0 THEN map ELSE ReadStep(how, g[i - 1], xs[i])
        <3>1. CASE i = 0
            BY <2>2, <2>4, <3>1
        <3>2. CASE i \in 1 .. n
            <4>1. i \in 0 .. n /\ i - 1 \in 0 .. n /\ i # 0
                BY <3>2
            <4> QED
                BY <2>2, <2>4, <4>1
        <3>3. CASE i = n + 1
            <4>1. i - 1 = n /\ n \in 0 .. n /\ i # 0
                BY <3>3
            <4> QED
                BY <2>2, <2>3, <3>3, <4>1
        <3> QED
            BY <3>1, <3>2, <3>3
    <2>7. IsRead(how, map, xs, n + 1, g)
        BY <2>5, <2>6 DEF IsRead
    <2> QED
        BY <2>7
<1> HIDE DEF S
<1>3. k \in S
    BY <1>1, <1>2, Induction
<1> QED
    BY <1>3 DEF S

LEMMA ReadSteps ==
    ASSUME NEW how, NEW map, NEW xs, NEW k \in Nat, NEW f, IsRead(how, map, xs, k, f)
    PROVE  ReadBySteps(how, map, xs, k, f)
<1> DEFINE h == [i \in 0 .. k |-> IF i = 0 THEN map ELSE ReadStep(how, f[i - 1], xs[i])]
<1>1. \A i \in 0 .. k : h[i] = IF i = 0 THEN map ELSE ReadStep(how, f[i - 1], xs[i])
    OBVIOUS
<1>2. f = h
    BY DEF IsRead
<1> HIDE DEF h
<1>3. \A i \in 1 .. k : i \in 0 .. k /\ i # 0
    OBVIOUS
<1> QED
    BY <1>1, <1>2, <1>3 DEF ReadBySteps

LEMMA LastIs ==
    ASSUME NEW S, NEW i \in Int, i \in S, S \subseteq Int, \A j \in S : j <= i
    PROVE  LastOf(S) = i
<1>1. \E m \in S : \A j \in S : j <= m
    OBVIOUS
<1>2. LastOf(S) \in S /\ \A j \in S : j <= LastOf(S)
    BY <1>1 DEF LastOf
<1> DEFINE last == LastOf(S)
<1> HIDE DEF last
<1>3. last \in Int /\ last <= i /\ i <= last
    BY <1>2 DEF last
<1>4. last = i
    BY <1>3
<1> QED
    BY <1>4 DEF last

LEMMA LastExists ==
    ASSUME NEW k \in Nat, NEW S \in SUBSET (1 .. k), S # {}
    PROVE  LastOf(S) \in S
<1> DEFINE P == {m \in Nat : \A T \in SUBSET (1 .. m) : T # {} => \E i \in T : \A j \in T : j <= i}
<1>1. 0 \in P
    <2>1. 1 .. 0 = {}
        OBVIOUS
    <2> QED
        BY <2>1
<1>2. ASSUME NEW m \in Nat, m \in P PROVE m + 1 \in P
    <2> SUFFICES ASSUME NEW T \in SUBSET (1 .. m + 1), T # {}
                 PROVE  \E i \in T : \A j \in T : j <= i
        OBVIOUS
    <2>1. CASE m + 1 \in T
        <3>1. \A j \in T : j <= m + 1
            OBVIOUS
        <3> QED
            BY <2>1, <3>1
    <2>2. CASE m + 1 \notin T
        <3>1. T \in SUBSET (1 .. m)
            BY <2>2
        <3> QED
            BY <1>2, <3>1
    <2> QED
        BY <2>1, <2>2
<1>3. k \in P
    <2> HIDE DEF P
    <2> QED
        BY <1>1, <1>2, Induction
<1>4. \E i \in S : \A j \in S : j <= i
    BY <1>3
<1> QED
    BY <1>4 DEF LastOf

\* One after the other.
LEMMA AllTold ==
    ASSUME NEW how, NEW map, NEW xs, NEW k \in Nat, NEW n, NEW f,
           ReadBySteps(how, map, xs, k, f), EachTold(how, xs, k, n)
    PROVE  Told(f[k], map, n, HitsIn(how, xs, k, n) # {}, HitText(how, xs[LastOf(HitsIn(how, xs, k, n))], n))
<1> DEFINE hit(i) == Hits(how, xs[i], n)
           text(i) == HitText(how, xs[i], n)
           Unsaid(m) == (\A i \in 1 .. m : ~hit(i)) /\ Told(f[m], map, n, FALSE, "")
           Said(m) == \E i \in 1 .. m : /\ hit(i) /\ \A j \in 1 .. m : hit(j) => j <= i
                                        /\ InMap(f[m], n) /\ TextIn(f[m], n) = text(i)
           S == {m \in Nat : m <= k => Unsaid(m) \/ Said(m)}
<1>1. 0 \in S
    <2>1. f[0] = map
        BY DEF ReadBySteps
    <2> QED
        BY <2>1 DEF Told
<1>2. ASSUME NEW m \in Nat, m \in S PROVE m + 1 \in S
    <2> HIDE DEF Unsaid, Said
    <2> SUFFICES ASSUME m + 1 <= k PROVE Unsaid(m + 1) \/ Said(m + 1)
        OBVIOUS
    <2>1. m + 1 \in 1 .. k /\ m + 1 - 1 = m /\ m <= k
        OBVIOUS
    <2>2. f[m + 1] = ReadStep(how, f[m], xs[m + 1])
        BY <2>1 DEF ReadBySteps
    <2>3. Told(f[m + 1], f[m], n, hit(m + 1), text(m + 1))
        BY <2>1, <2>2 DEF EachTold
    <2>4. \A j \in 1 .. m + 1 : j \in 1 .. m \/ j = m + 1
        OBVIOUS
    <2>5. 1 .. m \subseteq 1 .. m + 1 /\ m + 1 \in 1 .. m + 1
        OBVIOUS
    <2>6. Unsaid(m) \/ Said(m)
        BY <1>2, <2>1
    <2> HIDE DEF hit, text
    <2> USE DEF Unsaid, Said
    <2>7. CASE hit(m + 1)
        <3>1. InMap(f[m + 1], n) /\ TextIn(f[m + 1], n) = text(m + 1)
            BY <2>3, <2>7 DEF Told
        <3>2. \A j \in 1 .. m + 1 : j <= m + 1
            OBVIOUS
        <3> QED
            BY <2>5, <2>7, <3>1, <3>2
    <2>8. CASE ~hit(m + 1) /\ Unsaid(m)
        <3>1. \A i \in 1 .. m + 1 : ~hit(i)
            BY <2>4, <2>8
        <3>2. Told(f[m + 1], map, n, FALSE, "")
            BY <2>3, <2>8 DEF Told
        <3> QED
            BY <3>1, <3>2
    <2>9. CASE ~hit(m + 1) /\ Said(m)
        <3>1. PICK i \in 1 .. m : /\ hit(i) /\ \A j \in 1 .. m : hit(j) => j <= i
                                  /\ InMap(f[m], n) /\ TextIn(f[m], n) = text(i)
            BY <2>9
        <3>2. InMap(f[m + 1], n) /\ TextIn(f[m + 1], n) = text(i)
            BY <2>3, <2>9, <3>1 DEF Told
        <3>3. \A j \in 1 .. m + 1 : hit(j) => j <= i
            BY <2>4, <2>9, <3>1
        <3> QED
            BY <2>5, <3>1, <3>2, <3>3
    <2> QED
        BY <2>6, <2>7, <2>8, <2>9
<1>3. k \in S
    <2> HIDE DEF S
    <2> QED
        BY <1>1, <1>2, Induction
<1>4. Unsaid(k) \/ Said(k)
    <2> HIDE DEF Unsaid, Said
    <2> QED
        BY <1>3
<1>5. CASE Unsaid(k)
    <2>1. HitsIn(how, xs, k, n) = {}
        BY <1>5 DEF HitsIn
    <2> QED
        BY <1>5, <2>1 DEF Told
<1>6. CASE Said(k)
    <2> DEFINE H == HitsIn(how, xs, k, n)
    <2>1. PICK i \in 1 .. k : /\ hit(i) /\ \A j \in 1 .. k : hit(j) => j <= i
                              /\ InMap(f[k], n) /\ TextIn(f[k], n) = text(i)
        BY <1>6
    <2>2. i \in H /\ H \subseteq Int /\ \A j \in H : j <= i
        BY <2>1 DEF HitsIn
    <2> HIDE DEF H
    <2>3. LastOf(H) = i
        BY <2>2, LastIs
    <2>4. Told(f[k], map, n, H # {}, HitText(how, xs[LastOf(H)], n))
        BY <2>1, <2>2, <2>3 DEF Told
    <2> QED
        BY <2>4 DEF H
<1> QED
    BY <1>4, <1>5, <1>6

\* A sequence, whatever it is of.
IsLines(xs) == Len(xs) \in Nat /\ DOMAIN xs = 1 .. Len(xs)
IsFiles(files) == IsLines(files) /\ \A i \in DOMAIN files : IsLines(files[i])

LEMMA FileTold ==
    ASSUME NEW map, NEW lines, IsLines(lines), NEW n, IsName(n)
    PROVE  Told(_read_file(map, lines), map, n, About(lines, n) # {}, lines[LastOf(About(lines, n))][3])
<1> DEFINE k == Len(lines)
           f == CHOOSE f : IsRead("line", map, lines, k, f)
<1>1. k \in Nat /\ DOMAIN lines = 1 .. k
    BY DEF IsLines
<1> HIDE DEF k
<1>2. IsRead("line", map, lines, k, f)
    BY <1>1, ReadExists
<1>3. _read_file(map, lines) = f[k]
    BY DEF _read_file, IsRead, ReadStep, k
<1> HIDE DEF f
<1>4. ReadBySteps("line", map, lines, k, f)
    BY <1>1, <1>2, ReadSteps
<1>5. EachTold("line", lines, k, n)
    <2> SUFFICES ASSUME NEW i \in 1 .. k, NEW m
                 PROVE  Told(ReadStep("line", m, lines[i]), m, n, Hits("line", lines[i], n),
                             HitText("line", lines[i], n))
        BY DEF EachTold
    <2> QED
        BY AssignedTold DEF ReadStep, Hits, HitText
<1>6. HitsIn("line", lines, k, n) = About(lines, n)
    BY <1>1 DEF HitsIn, Hits, LineAt, About
<1>7. Told(f[k], map, n, HitsIn("line", lines, k, n) # {},
           HitText("line", lines[LastOf(HitsIn("line", lines, k, n))], n))
    BY <1>1, <1>4, <1>5, AllTold
<1> QED
    BY <1>3, <1>6, <1>7 DEF HitText

LEMMA FilesTold ==
    ASSUME NEW map, NEW files, IsFiles(files), NEW n, IsName(n)
    PROVE  Told(_read_files(map, files), map, n, FilesAbout(files, n) # {}, LastText(files, n))
<1> DEFINE k == Len(files)
           f == CHOOSE f : IsRead("file", map, files, k, f)
<1>1. k \in Nat /\ DOMAIN files = 1 .. k
    BY DEF IsFiles, IsLines
<1> HIDE DEF k
<1>2. IsRead("file", map, files, k, f)
    BY <1>1, ReadExists
<1>3. _read_files(map, files) = f[k]
    BY DEF _read_files, IsRead, ReadStep, k
<1> HIDE DEF f
<1>4. ReadBySteps("file", map, files, k, f)
    BY <1>1, <1>2, ReadSteps
<1>5. EachTold("file", files, k, n)
    <2> SUFFICES ASSUME NEW i \in 1 .. k, NEW m
                 PROVE  Told(ReadStep("file", m, files[i]), m, n, Hits("file", files[i], n),
                             HitText("file", files[i], n))
        BY DEF EachTold
    <2>1. IsLines(files[i])
        BY <1>1 DEF IsFiles
    <2> QED
        BY <2>1, FileTold DEF ReadStep, Hits, HitText
<1>6. HitsIn("file", files, k, n) = FilesAbout(files, n)
    BY <1>1 DEF HitsIn, Hits, FilesAbout
<1>7. Told(f[k], map, n, HitsIn("file", files, k, n) # {},
           HitText("file", files[LastOf(HitsIn("file", files, k, n))], n))
    BY <1>1, <1>4, <1>5, AllTold
<1> QED
    BY <1>3, <1>6, <1>7 DEF HitText, LastText

-----------------------------------------------------------------------------
(* The files of a process: those installed, then the user's.                 *)

LEMMA IsSequence ==
    ASSUME NEW m \in Nat, NEW f, f = [i \in 1 .. m |-> f[i]]
    PROVE  IsLines(f) /\ Len(f) = m
<1> DEFINE T == {f[i] : i \in 1 .. m}
<1>1. f \in [1 .. m -> T]
    OBVIOUS
<1> HIDE DEF T
<1>2. f \in Seq(T)
    BY <1>1
<1>3. Len(f) \in Nat /\ DOMAIN f = 1 .. Len(f)
    BY <1>2, LenProperties
<1>4. Len(f) = m
    BY <1>1, <1>3
<1> QED
    BY <1>3, <1>4 DEF IsLines

LEMMA LinesType ==
    ASSUME NEW file, IsFile(file)
    PROVE  IsLines(Lines(file))
<1> DEFINE m == Len(file)
           f == [i \in 1 .. m |-> PrefLine(file[i][1], file[i][2])]
<1>1. m \in Nat /\ Lines(file) = f
    BY DEF IsFile, Lines
<1>2. f = [i \in 1 .. m |-> f[i]]
    OBVIOUS
<1> HIDE DEF m, f
<1> QED
    BY <1>1, <1>2, IsSequence

LEMMA OneFile ==
    ASSUME NEW lines, IsLines(lines), NEW n
    PROVE  /\ IsFiles(<<lines>>)
           /\ FilesAbout(<<lines>>, n) # {} <=> About(lines, n) # {}
           /\ About(lines, n) # {} => LastText(<<lines>>, n) = lines[LastOf(About(lines, n))][3]
<1> DEFINE files == <<lines>>
<1>1. Len(files) = 1 /\ DOMAIN files = 1 .. 1 /\ files[1] = lines /\ \A i \in 1 .. 1 : i = 1
    OBVIOUS
<1> HIDE DEF files
<1>2. IsFiles(files)
    BY <1>1 DEF IsFiles, IsLines
<1>3. FilesAbout(files, n) # {} <=> About(lines, n) # {}
    BY <1>1 DEF FilesAbout
<1>4. ASSUME About(lines, n) # {} PROVE LastText(files, n) = lines[LastOf(About(lines, n))][3]
    <2>1. FilesAbout(files, n) = {1}
        BY <1>1, <1>4 DEF FilesAbout
    <2>2. LastOf({1}) = 1
        BY LastIs
    <2> QED
        BY <1>1, <2>1, <2>2 DEF LastText
<1> QED
    BY <1>2, <1>3, <1>4 DEF files

\* What the parser makes of a file.
TornFile(lines) == \E i \in DOMAIN lines : lines[i][3] \in Torn

LEMMA Parsed ==
    ASSUME NEW lines, IsLines(lines)
    PROVE  /\ IsLines(parse_config_file(lines))
           /\ TornFile(lines) => \A n : About(parse_config_file(lines), n) = {}
           /\ ~TornFile(lines) => \A n : About(parse_config_file(lines), n) = About(lines, n)
           /\ ~TornFile(lines) => \A i \in DOMAIN lines :
                                     parse_config_file(lines)[i][3] = Stripped(lines[i][3])
<1>1. CASE TornFile(lines)
    <2>1. parse_config_file(lines) = <<>>
        BY <1>1 DEF parse_config_file, TornFile
    <2> QED
        BY <1>1, <2>1 DEF IsLines, About
<1>2. CASE ~TornFile(lines)
    <2> DEFINE m == Len(lines)
               f == [i \in 1 .. m |-> <<lines[i][1], lines[i][2], Stripped(lines[i][3])>>]
    <2>1. m \in Nat /\ DOMAIN lines = 1 .. m /\ parse_config_file(lines) = f
        BY <1>2 DEF parse_config_file, TornFile, IsLines
    <2>2. \A i \in 1 .. m : f[i] = <<lines[i][1], lines[i][2], Stripped(lines[i][3])>>
        OBVIOUS
    <2>3. f = [i \in 1 .. m |-> f[i]] /\ DOMAIN f = 1 .. m
        OBVIOUS
    <2> HIDE DEF m, f
    <2>4. IsLines(f)
        BY <2>1, <2>3, IsSequence
    <2>5. \A i \in 1 .. m : f[i][1] = lines[i][1] /\ f[i][2] = lines[i][2] /\ f[i][3] = Stripped(lines[i][3])
        BY <2>2
    <2>6. \A n : About(f, n) = About(lines, n)
        BY <2>1, <2>3, <2>5 DEF About
    <2> QED
        BY <1>2, <2>1, <2>4, <2>5, <2>6
<1> QED
    BY <1>1, <1>2

LEMMA InstalledType == IsFiles(Installed)
<1> DEFINE m == Len(SysFiles)
           f == [i \in 1 .. m |-> parse_config_file(Lines(SysFiles[i]))]
<1>1. m \in Nat /\ Installed = f
    BY PrefsAssumption DEF Installed
<1>2. f = [i \in 1 .. m |-> f[i]]
    OBVIOUS
<1>3. \A i \in 1 .. m : f[i] = parse_config_file(Lines(SysFiles[i])) /\ IsFile(SysFiles[i])
    BY PrefsAssumption
<1> HIDE DEF m, f
<1>4. IsLines(f) /\ Len(f) = m
    BY <1>1, <1>2, IsSequence
<1>5. \A i \in DOMAIN f : IsLines(f[i])
    <2>1. ASSUME NEW i \in 1 .. m PROVE IsLines(f[i])
        BY <1>3, LinesType, Parsed
    <2> QED
        BY <1>4, <2>1 DEF IsLines
<1> QED
    BY <1>1, <1>4, <1>5 DEF IsFiles

LEMMA UserLast ==
    ASSUME NEW user, IsLines(user), NEW n
    PROVE  LET files == Append(Installed, user)
           IN  /\ IsFiles(files)
               /\ FilesAbout(files, n) # {} <=> About(user, n) # {} \/ FilesAbout(Installed, n) # {}
               /\ About(user, n) # {} => LastText(files, n) = user[LastOf(About(user, n))][3]
<1> DEFINE k == Len(Installed)
           files == Append(Installed, user)
           T == {Installed[i] : i \in 1 .. k} \cup {user}
<1>1. k \in Nat /\ DOMAIN Installed = 1 .. k /\ \A i \in 1 .. k : IsLines(Installed[i])
    BY InstalledType DEF IsFiles, IsLines
<1>2. Installed = [i \in DOMAIN Installed |-> Installed[i]]
    BY DEF Installed
<1>3. Installed \in Seq(T) /\ user \in T
    <2>1. Installed \in [1 .. k -> T]
        BY <1>1, <1>2
    <2> HIDE DEF T
    <2>2. Installed \in Seq(T)
        BY <1>1, <2>1
    <2> QED
        BY <2>2 DEF T
<1> HIDE DEF T, k
<1>4. /\ files \in Seq(T) /\ Len(files) = k + 1
      /\ \A i \in 1 .. k : files[i] = Installed[i]
      /\ files[k + 1] = user
    BY <1>3, AppendProperties DEF k
<1>5. DOMAIN files = 1 .. k + 1
    BY <1>4, LenProperties
<1> HIDE DEF files
<1>6. \A i \in 1 .. k + 1 : i \in 1 .. k \/ i = k + 1
    BY <1>1
<1>7. k + 1 \in 1 .. k + 1 /\ 1 .. k \subseteq 1 .. k + 1 /\ k + 1 \in Nat
    BY <1>1
<1>8. IsFiles(files)
    BY <1>1, <1>4, <1>5, <1>6, <1>7 DEF IsFiles, IsLines
<1>9. FilesAbout(files, n) # {} <=> About(user, n) # {} \/ FilesAbout(Installed, n) # {}
    BY <1>1, <1>4, <1>5, <1>6, <1>7 DEF FilesAbout
<1>10. ASSUME About(user, n) # {} PROVE LastText(files, n) = user[LastOf(About(user, n))][3]
    <2> DEFINE F == FilesAbout(files, n)
    <2>1. k + 1 \in F /\ F \subseteq 1 .. k + 1
        BY <1>4, <1>5, <1>7, <1>10 DEF FilesAbout
    <2> HIDE DEF F
    <2>2. F \subseteq Int /\ k + 1 \in Int /\ \A j \in F : j <= k + 1
        BY <1>7, <2>1
    <2>3. LastOf(F) = k + 1
        BY <2>1, <2>2, LastIs
    <2> QED
        BY <1>4, <2>3 DEF LastText, F
<1> QED
    BY <1>8, <1>9, <1>10 DEF files

\* What a map has for an option is what a history says of it.
AgreesAt(map, n, how) ==
    \/ how[1] = "none" /\ ~InMap(map, n)
    \/ how[1] = "text" /\ InMap(map, n) /\ TextIn(map, n) = how[2]
    \/ how[1] = "bool" /\ InMap(map, n) /\ how[2] \in BOOLEAN /\ TextIn(map, n) = BoolText(how[2])
    \/ how[1] = "long" /\ InMap(map, n) /\ how[2] \in Longs /\ TextIn(map, n) = LongText[how[2]]

\* What a process starts with.
LEMMA NextTold ==
    ASSUME NEW user, IsLines(user), NEW n, IsName(n)
    PROVE  LET next == _read_files(<<>>, Append(Installed, user))
           IN  /\ InMap(next, n) <=> About(user, n) # {} \/ FilesAbout(Installed, n) # {}
               /\ About(user, n) # {} => TextIn(next, n) = user[LastOf(About(user, n))][3]
<1> DEFINE files == Append(Installed, user)
           next == _read_files(<<>>, files)
<1>1. /\ IsFiles(files)
      /\ FilesAbout(files, n) # {} <=> About(user, n) # {} \/ FilesAbout(Installed, n) # {}
      /\ About(user, n) # {} => LastText(files, n) = user[LastOf(About(user, n))][3]
    BY UserLast
<1> HIDE DEF files
<1>2. Told(next, <<>>, n, FilesAbout(files, n) # {}, LastText(files, n))
    BY <1>1, FilesTold
<1> HIDE DEF next
<1>3. ~InMap(<<>>, n)
    BY EmptyMap
<1> QED
    BY <1>1, <1>2, <1>3 DEF Told, next, files

\* A user's file that says nothing of an option leaves the installed files' word.
LEMMA UserSilent ==
    ASSUME NEW user, IsLines(user), NEW n, IsName(n), About(user, n) = {}
    PROVE  AgreesAt(_read_files(<<>>, Append(Installed, user)), n, Given(Installed, n, <<"none">>))
<1> DEFINE files == Append(Installed, user)
           next == _read_files(<<>>, files)
           k == Len(Installed)
           T == {Installed[i] : i \in 1 .. k} \cup {user}
<1>1. IsFiles(Installed) /\ k \in Nat /\ DOMAIN Installed = 1 .. k
    BY InstalledType DEF IsFiles, IsLines
<1>2. Installed \in Seq(T) /\ user \in T
    <2>1. Installed = [i \in DOMAIN Installed |-> Installed[i]]
        BY DEF Installed
    <2>2. Installed \in [1 .. k -> T]
        BY <1>1, <2>1
    <2> HIDE DEF T
    <2>3. Installed \in Seq(T)
        BY <1>1, <2>2
    <2> QED
        BY <2>3 DEF T
<1> HIDE DEF T, k
<1>3. /\ files \in Seq(T) /\ Len(files) = k + 1
      /\ \A i \in 1 .. k : files[i] = Installed[i]
      /\ files[k + 1] = user
    BY <1>2, AppendProperties DEF k
<1>4. DOMAIN files = 1 .. k + 1
    BY <1>3, LenProperties
<1>5. IsFiles(files) /\ (FilesAbout(files, n) # {} <=> FilesAbout(Installed, n) # {})
    BY UserLast
<1> HIDE DEF files
<1>6. FilesAbout(files, n) = FilesAbout(Installed, n)
    <2>1. \A i \in 1 .. k + 1 : i \in 1 .. k \/ i = k + 1
        BY <1>1
    <2>2. 1 .. k \subseteq 1 .. k + 1
        BY <1>1
    <2> QED
        BY <1>1, <1>3, <1>4, <2>1, <2>2 DEF FilesAbout
<1>7. FilesAbout(Installed, n) # {} => LastText(files, n) = LastText(Installed, n)
    <2> DEFINE F == FilesAbout(Installed, n)
    <2>1. F \subseteq 1 .. k
        BY <1>1 DEF FilesAbout
    <2> HIDE DEF F
    <2>2. F # {} => LastOf(F) \in F
        BY <1>1, <2>1, LastExists
    <2>3. F # {} => files[LastOf(F)] = Installed[LastOf(F)]
        BY <1>3, <2>1, <2>2
    <2> QED
        BY <1>6, <2>3 DEF LastText, F
<1>8. Told(next, <<>>, n, FilesAbout(files, n) # {}, LastText(files, n))
    BY <1>5, FilesTold
<1>9. ~InMap(<<>>, n)
    BY EmptyMap
<1> HIDE DEF next
<1>10. CASE FilesAbout(Installed, n) # {}
    <2>1. Given(Installed, n, <<"none">>) = <<"text", LastText(Installed, n)>>
        BY <1>10 DEF Given
    <2>2. InMap(next, n) /\ TextIn(next, n) = LastText(Installed, n)
        BY <1>6, <1>7, <1>8, <1>10 DEF Told
    <2> QED
        BY <2>1, <2>2 DEF AgreesAt, next, files
<1>11. CASE FilesAbout(Installed, n) = {}
    <2>1. Given(Installed, n, <<"none">>) = <<"none">>
        BY <1>11 DEF Given
    <2>2. ~InMap(next, n)
        BY <1>6, <1>8, <1>9, <1>11 DEF Told
    <2> QED
        BY <2>1, <2>2 DEF AgreesAt, next, files
<1> QED
    BY <1>10, <1>11

-----------------------------------------------------------------------------
(* What save writes: one line about each option that is in force.            *)

LEMMA NamesFinite == IsFiniteSet(Names) /\ \A n \in Names : IsName(n)
<1> DEFINE f == [k \in Spellings |-> NameOf_(k)]
<1>1. f \in Surjection(Spellings, Names)
    <2>1. \A k \in Spellings : f[k] = NameOf_(k) /\ NameOf_(k) \in Names
        BY DEF NameOf_, Names
    <2>2. \A n \in Names : \E k \in Spellings : f[k] = n
        BY DEF NameOf_, Names
    <2>3. f \in [Spellings -> Names]
        BY <2>1
    <2> HIDE DEF f
    <2> QED
        BY <2>2, <2>3 DEF Surjection
<1> HIDE DEF f
<1>2. IsFiniteSet(Names)
    BY <1>1, FS_Surjection, PrefsAssumption
<1> QED
    BY <1>2 DEF Names, IsName

LEMMA SetAsSequence ==
    ASSUME NEW S, IsFiniteSet(S)
    PROVE  LET s == SetToSeq(S) IN IsLines(s) /\ S = {s[i] : i \in DOMAIN s}
<1> DEFINE c == Cardinality(S)
           s == SetToSeq(S)
<1>1. c \in Nat /\ ExistsBijection(1 .. c, S)
    BY FS_CardinalityType
<1> HIDE DEF c
<1>2. \E f \in [1 .. c -> S] : IsInjective(f)
    BY <1>1 DEF ExistsBijection, Bijection, Injection
<1>3. s \in [1 .. c -> S] /\ IsInjective(s)
    BY <1>2 DEF SetToSeq, c
<1> HIDE DEF s
<1>4. s \in Injection(1 .. c, S)
    BY <1>3 DEF Injection
<1>5. Cardinality(1 .. c) = c
    <2>1. Cardinality(1 .. c) = IF 1 > c THEN 0 ELSE c - 1 + 1
        BY <1>1, FS_Interval
    <2> QED
        BY <1>1, <2>1
<1>6. s \in Surjection(1 .. c, S)
    BY <1>4, <1>5, FS_Injection DEF c
<1>7. DOMAIN s = 1 .. c /\ \A x \in S : \E i \in 1 .. c : s[i] = x
    BY <1>3, <1>6 DEF Surjection
<1>8. S = {s[i] : i \in DOMAIN s}
    BY <1>3, <1>7
<1>9. s = [i \in 1 .. c |-> s[i]]
    BY <1>3
<1> QED
    BY <1>1, <1>8, <1>9, IsSequence DEF s

LEMMA WhatIsSaved ==
    /\ IsLines(to_string)
    /\ \A n \in Names : About(to_string, n) # {} <=> InMap(d_config_map, n)
    /\ \A n \in Names : \A i \in About(to_string, n) : to_string[i][3] = TextIn(d_config_map, n)
    /\ \A i \in DOMAIN to_string : \E n \in Names : i \in About(to_string, n)
<1> DEFINE M == {m \in Names : InMap(d_config_map, m)}
           S == {<<n[1], n[2], SavedText(n)>> : n \in M}
           s == to_string
<1>1. IsFiniteSet(S)
    <2> DEFINE f == [n \in M |-> <<n[1], n[2], SavedText(n)>>]
    <2>1. f \in Surjection(M, S)
        <3>1. f \in [M -> S] /\ \A x \in S : \E n \in M : f[n] = x
            OBVIOUS
        <3> HIDE DEF f, S, M
        <3> QED
            BY <3>1 DEF Surjection
    <2>2. IsFiniteSet(M)
        BY NamesFinite, FS_Subset
    <2> HIDE DEF f, S, M
    <2> QED
        BY <2>1, <2>2, FS_Surjection
<1>2. s = SetToSeq(S)
    BY DEF to_string
<1>3. \A x \in S : \E n \in M : x = <<n[1], n[2], SavedText(n)>>
    OBVIOUS
<1>4. \A n \in M : <<n[1], n[2], SavedText(n)>> \in S
    OBVIOUS
<1> HIDE DEF s, S
<1>5. IsLines(s) /\ S = {s[i] : i \in DOMAIN s}
    BY <1>1, <1>2, SetAsSequence
<1>6. ASSUME NEW n \in Names, NEW i \in About(s, n)
      PROVE  n \in M /\ s[i][3] = TextIn(d_config_map, n)
    <2>1. i \in DOMAIN s /\ <<s[i][1], s[i][2]>> = n
        BY DEF About
    <2>2. s[i] \in S
        BY <1>5, <2>1
    <2>3. PICK m \in M : s[i] = <<m[1], m[2], SavedText(m)>>
        BY <1>3, <2>2
    <2>4. m \in Names /\ m = <<m[1], m[2]>>
        BY NamesFinite DEF IsName
    <2>5. m = n
        BY <2>1, <2>3, <2>4
    <2> QED
        BY <2>3, <2>5 DEF SavedText
<1>7. ASSUME NEW n \in M PROVE About(s, n) # {}
    <2>1. n = <<n[1], n[2]>>
        BY NamesFinite DEF IsName
    <2>2. <<n[1], n[2], SavedText(n)>> \in S
        BY <1>4
    <2>3. PICK i \in DOMAIN s : s[i] = <<n[1], n[2], SavedText(n)>>
        BY <1>5, <2>2
    <2>4. i \in About(s, n)
        BY <2>1, <2>3 DEF About
    <2> QED
        BY <2>4
<1>8. ASSUME NEW i \in DOMAIN s PROVE \E n \in Names : i \in About(s, n)
    <2>1. s[i] \in S
        BY <1>5
    <2>2. PICK m \in M : s[i] = <<m[1], m[2], SavedText(m)>>
        BY <1>3, <2>1
    <2>3. m \in Names /\ m = <<m[1], m[2]>>
        BY NamesFinite DEF IsName
    <2>4. i \in About(s, m)
        BY <2>2, <2>3 DEF About
    <2> QED
        BY <2>3, <2>4
<1> QED
    BY <1>5, <1>6, <1>7, <1>8 DEF s

-----------------------------------------------------------------------------
(* The invariant.  Beyond what is read, an option that an installed file     *)
(* speaks of is in the map, so that the user's file will have a line about   *)
(* it: what a process saves hides all that the installed files say.          *)

InForce == pc # "gone" => \A n \in Names : AgreesAt(d_config_map, n, given[n])
InstalledHeld == pc # "gone" => \A n \in Names : FilesAbout(Installed, n) # {} => InMap(d_config_map, n)
NextInForce == pc # "saving" => \A n \in Names : AgreesAt(_read_files(<<>>, Filenames), n, kept[n])

PrTypeOK ==
    /\ pc \in {"running", "saving", "gone"}
    /\ DOMAIN given = Names /\ DOMAIN kept = Names
    /\ IsLines(userconf)
    /\ pc = "saving" => userconf = <<>>

PrInv == PrTypeOK /\ InForce /\ InstalledHeld /\ NextInForce

\* A file, or a call, on top of what was in force.
LEMMA StillAgrees ==
    ASSUME NEW new, NEW old, NEW n, NEW said, NEW text, NEW how,
           Told(new, old, n, said, text), AgreesAt(old, n, how)
    PROVE  /\ said => AgreesAt(new, n, <<"text", text>>)
           /\ ~said => AgreesAt(new, n, how)
           /\ InMap(old, n) => InMap(new, n)
<1>1. ASSUME said PROVE AgreesAt(new, n, <<"text", text>>) /\ InMap(new, n)
    BY <1>1 DEF Told, AgreesAt
<1>2. ASSUME ~said PROVE AgreesAt(new, n, how) /\ (InMap(old, n) => InMap(new, n))
    BY <1>2 DEF Told, AgreesAt
<1> QED
    BY <1>1, <1>2

LEMMA PrInvInit == PrInit => PrInv
<1> SUFFICES ASSUME PrInit PROVE PrInv
    OBVIOUS
<1>1. IsLines(userconf)
    <2>1. IsLines(<<>>)
        BY DEF IsLines
    <2>2. \A k, t : IsLines(<<PrefLine(k, t)>>)
        BY DEF IsLines
    <2> QED
        BY <2>1, <2>2 DEF PrInit
<1>2. /\ d_config_map = _read_files(<<>>, Filenames) /\ kept = given /\ pc = "running"
      /\ given = [n \in Names |-> Given(Filenames, n, <<"none">>)]
    BY DEF PrInit
<1>2a. IsLines(parse_config_file(userconf))
    BY <1>1, Parsed
<1>3. ASSUME NEW n \in Names
      PROVE  /\ AgreesAt(d_config_map, n, given[n])
             /\ FilesAbout(Installed, n) # {} => InMap(d_config_map, n)
    <2>1. IsName(n)
        BY NamesFinite
    <2>2. IsFiles(Filenames)
        BY <1>2a, UserLast DEF Filenames
    <2>3. Told(d_config_map, <<>>, n, FilesAbout(Filenames, n) # {}, LastText(Filenames, n))
        BY <1>2, <2>1, <2>2, FilesTold
    <2>4. AgreesAt(<<>>, n, <<"none">>)
        BY EmptyMap DEF AgreesAt
    <2>5. /\ FilesAbout(Filenames, n) # {} => AgreesAt(d_config_map, n, <<"text", LastText(Filenames, n)>>)
          /\ ~(FilesAbout(Filenames, n) # {}) => AgreesAt(d_config_map, n, <<"none">>)
        BY <2>3, <2>4, StillAgrees
    <2>6. given[n] = Given(Filenames, n, <<"none">>)
        BY <1>2
    <2>7. FilesAbout(Installed, n) # {} => InMap(d_config_map, n)
        BY <1>2, <1>2a, <2>1, NextTold DEF Filenames
    <2> QED
        BY <2>5, <2>6, <2>7 DEF Given
<1>4. DOMAIN given = Names
    BY <1>2
<1> QED
    BY <1>1, <1>2, <1>3, <1>4 DEF PrInv, PrTypeOK, InForce, InstalledHeld, NextInForce

LEMMA AddAgrees == PrInv /\ add_config_file => PrInv'
<1> SUFFICES ASSUME PrInv, add_config_file PROVE PrInv'
    OBVIOUS
<1> DEFINE lines == Added
           files == <<lines>>
<1>1. /\ pc = "running" /\ pc' = "running" /\ userconf' = userconf /\ kept' = kept
      /\ d_config_map' = _read_files(d_config_map, files)
      /\ given' = [n \in Names |-> Given(files, n, given[n])]
    BY DEF add_config_file
<1>2. IsLines(lines)
    BY LinesType, Parsed, PrefsAssumption DEF Added
<1> HIDE DEF lines
<1>3. IsFiles(files)
    BY <1>2, OneFile
<1> HIDE DEF files
<1>4. ASSUME NEW n \in Names
      PROVE  /\ AgreesAt(d_config_map', n, given'[n])
             /\ FilesAbout(Installed, n) # {} => InMap(d_config_map', n)
    <2>1. IsName(n)
        BY NamesFinite
    <2>2. Told(d_config_map', d_config_map, n, FilesAbout(files, n) # {}, LastText(files, n))
        BY <1>1, <1>3, <2>1, FilesTold
    <2>3. AgreesAt(d_config_map, n, given[n]) /\ (FilesAbout(Installed, n) # {} => InMap(d_config_map, n))
        BY <1>1 DEF PrInv, InForce, InstalledHeld
    <2>4. /\ FilesAbout(files, n) # {} => AgreesAt(d_config_map', n, <<"text", LastText(files, n)>>)
          /\ ~(FilesAbout(files, n) # {}) => AgreesAt(d_config_map', n, given[n])
          /\ InMap(d_config_map, n) => InMap(d_config_map', n)
        BY <2>2, <2>3, StillAgrees
    <2>5. given'[n] = Given(files, n, given[n])
        BY <1>1
    <2> QED
        BY <2>3, <2>4, <2>5 DEF Given
<1>5. PrTypeOK'
    BY <1>1 DEF PrInv, PrTypeOK, IsLines
<1>6. NextInForce'
    BY <1>1 DEF PrInv, NextInForce, Filenames, Installed
<1> QED
    BY <1>1, <1>4, <1>5, <1>6 DEF PrInv, InForce, InstalledHeld, Installed

LEMMA SetAgrees ==
    ASSUME NEW k \in Spellings, NEW text, NEW how, PrInv, Set(k, text, how),
           \A map : /\ InMap(map, NameOf_(k)) /\ TextIn(map, NameOf_(k)) = text
                    => AgreesAt(map, NameOf_(k), how)
    PROVE  PrInv'
<1> DEFINE l == PrefLine(k, text)
           at == NameOf_(k)
<1>1. /\ pc = "running" /\ pc' = "running" /\ userconf' = userconf /\ kept' = kept
      /\ d_config_map' = Assigned(d_config_map, l) /\ given' = [given EXCEPT ![at] = how]
    BY DEF Set
<1>2. at \in Names /\ l[3] = text /\ \A n : LineAt(l, n) <=> n = at
    BY DEF Names, NameOf_, PrefLine, LineAt
<1> HIDE DEF l, at
<1>3. DOMAIN given = Names
    BY DEF PrInv, PrTypeOK
<1>4. ASSUME NEW n \in Names
      PROVE  /\ AgreesAt(d_config_map', n, given'[n])
             /\ FilesAbout(Installed, n) # {} => InMap(d_config_map', n)
    <2>1. IsName(n)
        BY NamesFinite
    <2>2. Told(d_config_map', d_config_map, n, n = at, text)
        <3>1. Told(d_config_map', d_config_map, n, LineAt(l, n), l[3])
            BY <1>1, <2>1, AssignedTold
        <3>2. LineAt(l, n) <=> n = at
            BY <1>2
        <3> QED
            BY <1>2, <3>1, <3>2 DEF Told
    <2>3. AgreesAt(d_config_map, n, given[n]) /\ (FilesAbout(Installed, n) # {} => InMap(d_config_map, n))
        BY <1>1 DEF PrInv, InForce, InstalledHeld
    <2>4. /\ ~(n = at) => AgreesAt(d_config_map', n, given[n])
          /\ InMap(d_config_map, n) => InMap(d_config_map', n)
        BY <2>2, <2>3, StillAgrees
    <2>5. given'[n] = IF n = at THEN how ELSE given[n]
        BY <1>1, <1>3
    <2>6. CASE n = at
        <3>1. InMap(d_config_map', n) /\ TextIn(d_config_map', n) = text
            BY <1>2, <2>2, <2>6 DEF Told
        <3> QED
            BY <2>5, <2>6, <3>1 DEF at
    <2>7. CASE n # at
        BY <1>2, <2>3, <2>4, <2>5, <2>7
    <2> QED
        BY <2>6, <2>7
<1>5. PrTypeOK'
    BY <1>1 DEF PrInv, PrTypeOK, IsLines
<1>6. NextInForce'
    BY <1>1 DEF PrInv, NextInForce, Filenames, Installed
<1> QED
    BY <1>1, <1>4, <1>5, <1>6 DEF PrInv, InForce, InstalledHeld, Installed

\* What save leaves to the next process.
LEMMA HandedOn ==
    ASSUME \A n \in Names : AgreesAt(d_config_map, n, given[n]),
           \A n \in Names : FilesAbout(Installed, n) # {} => InMap(d_config_map, n)
    PROVE  \A n \in Names : AgreesAt(_read_files(<<>>, Append(Installed, parse_config_file(to_string))), n, Handed[n])
<1> DEFINE user == parse_config_file(to_string)
           next == _read_files(<<>>, Append(Installed, user))
<1>1. IsLines(to_string) /\ IsLines(user)
    BY WhatIsSaved, Parsed
<1>2. \A n \in Names : /\ About(to_string, n) # {} <=> InMap(d_config_map, n)
                       /\ \A i \in About(to_string, n) : to_string[i][3] = TextIn(d_config_map, n)
    BY WhatIsSaved
<1>3. /\ TornFile(to_string) => \A n : About(user, n) = {}
      /\ ~TornFile(to_string) => \A n : About(user, n) = About(to_string, n)
      /\ ~TornFile(to_string) => \A i \in DOMAIN to_string : user[i][3] = Stripped(to_string[i][3])
    BY <1>1, Parsed
<1>4. ASSUME NEW n \in Names
      PROVE  /\ InMap(next, n) <=> About(user, n) # {} \/ FilesAbout(Installed, n) # {}
             /\ About(user, n) # {} => TextIn(next, n) = user[LastOf(About(user, n))][3]
             /\ About(user, n) = {} => AgreesAt(next, n, Given(Installed, n, <<"none">>))
    <2>1. IsName(n)
        BY NamesFinite
    <2> HIDE DEF user
    <2>2. About(user, n) = {} => AgreesAt(next, n, Given(Installed, n, <<"none">>))
        BY <1>1, <2>1, UserSilent
    <2> QED
        BY <1>1, <2>1, <2>2, NextTold
<1> HIDE DEF user, next
\* The file is torn just when a text in force tears it.
<1>5. ASSUME NEW n \in Names, Tears(given[n]) PROVE TornFile(to_string)
    <2>1. InMap(d_config_map, n) /\ TextIn(d_config_map, n) \in Torn
        BY <1>5 DEF AgreesAt, Tears
    <2>2. PICK i \in About(to_string, n) : TRUE
        BY <1>2, <2>1
    <2>3. i \in DOMAIN to_string /\ to_string[i][3] \in Torn
        BY <1>2, <2>1, <2>2 DEF About
    <2> QED
        BY <2>3 DEF TornFile
<1>6. ASSUME TornFile(to_string) PROVE \E n \in Names : Tears(given[n])
    <2>1. PICK i \in DOMAIN to_string : to_string[i][3] \in Torn
        BY <1>6 DEF TornFile
    <2>2. PICK n \in Names : i \in About(to_string, n)
        BY WhatIsSaved
    <2>3. InMap(d_config_map, n) /\ TextIn(d_config_map, n) \in Torn
        BY <1>2, <2>1, <2>2
    <2>4. \A b \in BOOLEAN : BoolText(b) \notin Torn
        BY PrefsAssumption DEF BoolText
    <2>5. \A v \in Longs : LongText[v] \notin Torn
        BY PrefsAssumption
    <2>6. Tears(given[n])
        BY <2>3, <2>4, <2>5 DEF AgreesAt, Tears
    <2> QED
        BY <2>6
<1>7. CASE TornFile(to_string)
    <2>1. \A n \in Names : Handed[n] = Given(Installed, n, <<"none">>)
        BY <1>6, <1>7 DEF Handed, OnlyInstalled
    <2>2. \A n \in Names : AgreesAt(next, n, Given(Installed, n, <<"none">>))
        BY <1>3, <1>4, <1>7
    <2> QED
        BY <2>1, <2>2 DEF next, user
<1>8. CASE ~TornFile(to_string)
    <2> SUFFICES ASSUME NEW n \in Names PROVE AgreesAt(next, n, Handed[n])
        BY DEF next, user
    <2> DEFINE A == About(to_string, n)
    <2>1. Handed[n] = AsParsed(given[n])
        BY <1>5, <1>8 DEF Handed
    <2>2. A # {} => LastOf(A) \in A
        <3>1. Len(to_string) \in Nat /\ A \subseteq 1 .. Len(to_string)
            BY <1>1 DEF IsLines, About
        <3> HIDE DEF A
        <3> QED
            BY <3>1, LastExists
    <2>3. A \subseteq DOMAIN to_string /\ About(user, n) = A
        BY <1>3, <1>8 DEF About
    <2>4. \A i \in A : user[i][3] = Stripped(TextIn(d_config_map, n))
        BY <1>2, <1>3, <1>8, <2>3
    <2> HIDE DEF A
    <2>5. /\ InMap(next, n) <=> InMap(d_config_map, n)
          /\ InMap(d_config_map, n) => TextIn(next, n) = Stripped(TextIn(d_config_map, n))
        BY <1>2, <1>4, <2>2, <2>3, <2>4 DEF A
    <2>6. \A b \in BOOLEAN : Stripped(BoolText(b)) = BoolText(b)
        BY PrefsAssumption DEF BoolText
    <2>7. \A v \in Longs : Stripped(LongText[v]) = LongText[v]
        BY PrefsAssumption
    <2>8. AgreesAt(d_config_map, n, given[n])
        OBVIOUS
    <2> QED
        BY <2>1, <2>5, <2>6, <2>7, <2>8 DEF AgreesAt, AsParsed
<1> QED
    BY <1>7, <1>8

LEMMA PrInvNext == PrInv /\ [PrNext]_prvars => PrInv'
<1> SUFFICES ASSUME PrInv, [PrNext]_prvars PROVE PrInv'
    OBVIOUS
<1> USE DEF PrInv
<1>1. CASE UNCHANGED prvars
    BY <1>1 DEF prvars, PrTypeOK, InForce, InstalledHeld, NextInForce, IsLines, Filenames, Installed
<1>2. CASE add_config_file
    BY <1>2, AddAgrees
<1>3. ASSUME NEW k \in Spellings, NEW t \in Texts, set_string(k, t) PROVE PrInv'
    <2>1. Set(k, t, <<"text", t>>)
        BY <1>3 DEF set_string
    <2>2. \A map, n : InMap(map, n) /\ TextIn(map, n) = t => AgreesAt(map, n, <<"text", t>>)
        BY DEF AgreesAt
    <2> HIDE DEF PrInv
    <2> QED
        BY <2>1, <2>2, SetAgrees
<1>4. ASSUME NEW k \in Spellings, NEW v \in BOOLEAN, set_bool(k, v) PROVE PrInv'
    <2>1. Set(k, BoolText(v), <<"bool", v>>)
        BY <1>4 DEF set_bool
    <2>2. \A map, n : InMap(map, n) /\ TextIn(map, n) = BoolText(v) => AgreesAt(map, n, <<"bool", v>>)
        BY DEF AgreesAt
    <2> HIDE DEF PrInv
    <2> QED
        BY <2>1, <2>2, SetAgrees
<1>5. ASSUME NEW k \in Spellings, NEW v \in Longs, set_long(k, v) PROVE PrInv'
    <2>1. Set(k, LongText[v], <<"long", v>>)
        BY <1>5 DEF set_long
    <2>2. \A map, n : InMap(map, n) /\ TextIn(map, n) = LongText[v] => AgreesAt(map, n, <<"long", v>>)
        BY DEF AgreesAt
    <2> HIDE DEF PrInv
    <2> QED
        BY <2>1, <2>2, SetAgrees
<1>6. CASE save
    <2>1. IsLines(<<>>)
        BY DEF IsLines
    <2>2. CASE pc' = pc /\ userconf' = userconf
        BY <1>6, <2>2 DEF save, PrTypeOK, InForce, InstalledHeld, NextInForce, IsLines, Filenames, Installed
    <2>3. CASE pc' = "saving" /\ userconf' = <<>>
        BY <1>6, <2>1, <2>3 DEF save, PrTypeOK, InForce, InstalledHeld, NextInForce, IsLines, Installed
    <2> QED
        BY <1>6, <2>2, <2>3 DEF save
<1>7. CASE SaveWrites
    <2>1. /\ pc = "saving" /\ pc' = "running" /\ userconf' = to_string /\ kept' = Handed
          /\ given' = given /\ d_config_map' = d_config_map
        BY <1>7 DEF SaveWrites
    <2>2. \A n \in Names : AgreesAt(_read_files(<<>>, Append(Installed, parse_config_file(to_string))), n, Handed[n])
        BY <2>1, HandedOn DEF InForce, InstalledHeld
    <2>3. NextInForce'
        BY <2>1, <2>2 DEF NextInForce, Filenames, Installed
    <2>4. PrTypeOK'
        BY <2>1, WhatIsSaved DEF PrTypeOK, IsLines, Handed, OnlyInstalled
    <2> QED
        BY <2>1, <2>3, <2>4 DEF InForce, InstalledHeld, Installed
<1>8. CASE End
    <2>1. CASE pc = "running"
        BY <1>8, <2>1 DEF End, PrTypeOK, InForce, InstalledHeld, NextInForce, IsLines, Filenames, Installed
    <2>2. CASE pc = "saving"
        <3>1. /\ pc' = "gone" /\ kept' = OnlyInstalled /\ userconf' = <<>> /\ UNCHANGED <<d_config_map, given>>
            BY <1>8, <2>2 DEF End, PrTypeOK
        <3>2. IsLines(<<>>) /\ parse_config_file(<<>>) = <<>> /\ \A n : About(<<>>, n) = {}
            BY DEF IsLines, parse_config_file, About
        <3>3. \A n \in Names : AgreesAt(_read_files(<<>>, Append(Installed, <<>>)), n, Given(Installed, n, <<"none">>))
            BY <3>2, NamesFinite, UserSilent
        <3>4. NextInForce'
            BY <3>1, <3>2, <3>3 DEF NextInForce, Filenames, Installed, OnlyInstalled
        <3>5. PrTypeOK'
            BY <3>1, <3>2 DEF PrTypeOK, OnlyInstalled
        <3> QED
            BY <3>1, <3>4, <3>5 DEF InForce, InstalledHeld
    <2> QED
        BY <1>8, <2>1, <2>2 DEF End
<1>9. CASE Start
    <2>1. /\ pc = "gone" /\ pc' = "running" /\ userconf' = userconf /\ kept' = kept /\ given' = kept
          /\ d_config_map' = _read_files(<<>>, Filenames)
        BY <1>9 DEF Start
    <2>2. \A n \in Names : AgreesAt(d_config_map', n, kept[n])
        BY <2>1 DEF NextInForce
    <2>3. \A n \in Names : FilesAbout(Installed, n) # {} => InMap(d_config_map', n)
        <3>1. IsLines(parse_config_file(userconf))
            BY Parsed DEF PrTypeOK
        <3>2. d_config_map' = _read_files(<<>>, Append(Installed, parse_config_file(userconf)))
            BY <2>1 DEF Filenames
        <3> SUFFICES ASSUME NEW n \in Names PROVE FilesAbout(Installed, n) # {} => InMap(d_config_map', n)
            OBVIOUS
        <3>3. IsName(n)
            BY NamesFinite
        <3> QED
            BY <3>1, <3>2, <3>3, NextTold
    <2>4. PrTypeOK' /\ NextInForce'
        BY <2>1 DEF PrTypeOK, NextInForce, IsLines, Filenames, Installed
    <2> QED
        BY <2>1, <2>2, <2>3, <2>4 DEF InForce, InstalledHeld, Installed
<1> QED
    BY <1>1, <1>2, <1>3, <1>4, <1>5, <1>6, <1>7, <1>8, <1>9 DEF PrNext

LEMMA PrInvImplies == PrInv => PrefsKept
<1> SUFFICES ASSUME PrInv PROVE PrefsKept
    OBVIOUS
<1>1. ReadsAsGiven
    <2> SUFFICES ASSUME pc # "gone", NEW n \in Names
                 PROVE  LET g == given[n] IN
                        IF option_to_env(n) # NoText THEN get_string(n, "default") = option_to_env(n)
                        ELSE CASE g[1] = "none" -> /\ get_string(n, "default") = "default"
                                                   /\ \A d \in BOOLEAN : get_bool(n, d) = d
                                                   /\ get_long(n, -1) = -1
                               [] g[1] = "text" -> get_string(n, "default") = g[2]
                               [] g[1] = "bool" -> \A d \in BOOLEAN : get_bool(n, d) = g[2]
                               [] g[1] = "long" -> get_long(n, -1) = g[2]
        BY DEF ReadsAsGiven
    <2>1. CASE option_to_env(n) # NoText
        BY <2>1 DEF get_string
    <2> DEFINE g == given[n]
               text == TextIn(d_config_map, n)
    <2>2. CASE option_to_env(n) = NoText
        <3>1. /\ InMap(d_config_map, n) => \A d : get_string(n, d) = text
              /\ ~InMap(d_config_map, n) => \A d : get_string(n, d) = d
            BY <2>2 DEF get_string, has_option
        <3>2. AgreesAt(d_config_map, n, g)
            BY DEF PrInv, InForce
        <3> HIDE DEF g, text
        <3>3. CASE g[1] = "none"
            <4>1. get_string(n, "") = "" /\ get_string(n, "default") = "default"
                BY <3>1, <3>2, <3>3 DEF AgreesAt
            <4>2. \A d \in BOOLEAN : get_bool(n, d) = d
                BY <4>1 DEF get_bool, TrueTexts, FalseTexts
            <4>3. get_long(n, -1) = -1
                BY <4>1 DEF get_long
            <4> QED
                BY <2>2, <3>3, <4>1, <4>2, <4>3 DEF g
        <3>4. CASE g[1] = "text"
            <4>1. get_string(n, "default") = g[2]
                BY <3>1, <3>2, <3>4 DEF AgreesAt, text
            <4> QED
                BY <2>2, <3>4, <4>1 DEF g
        <3>5. CASE g[1] = "bool"
            <4>1. get_string(n, "") = BoolText(g[2]) /\ g[2] \in BOOLEAN
                BY <3>1, <3>2, <3>5 DEF AgreesAt, text
            <4>2. ASSUME NEW d \in BOOLEAN PROVE get_bool(n, d) = g[2]
                <5>1. CASE g[2] = TRUE
                    BY <4>1, <5>1 DEF get_bool, BoolText, TrueTexts
                <5>2. CASE g[2] = FALSE
                    BY <4>1, <5>2 DEF get_bool, BoolText, TrueTexts, FalseTexts
                <5> QED
                    BY <4>1, <5>1, <5>2
            <4> QED
                BY <2>2, <3>5, <4>2 DEF g
        <3>6. CASE g[1] = "long"
            <4>1. get_string(n, "") = LongText[g[2]] /\ g[2] \in Longs
                BY <3>1, <3>2, <3>6 DEF AgreesAt, text
            <4>2. \A v \in Longs : LongText[v] = LongText[g[2]] => v = g[2]
                BY <4>1, PrefsAssumption
            <4>3. LongText[g[2]] # ""
                BY <4>1, PrefsAssumption
            <4>4. get_long(n, -1) = g[2]
                BY <4>1, <4>2, <4>3 DEF get_long
            <4> QED
                BY <2>2, <3>6, <4>4 DEF g
        <3> QED
            BY <3>2, <3>3, <3>4, <3>5, <3>6 DEF AgreesAt
    <2> QED
        BY <2>1, <2>2
<1>2. SavedInForce
    <2> SUFFICES ASSUME pc # "saving", NEW n \in Names
                 PROVE  LET next == _read_files(<<>>, Filenames) IN
                        /\ InMap(next, n) <=> kept[n][1] # "none"
                        /\ kept[n][1] = "text" => TextIn(next, n) = kept[n][2]
        BY DEF SavedInForce
    <2> DEFINE next == _read_files(<<>>, Filenames)
               how == kept[n]
    <2>1. AgreesAt(next, n, how)
        BY DEF PrInv, NextInForce
    <2> HIDE DEF next, how
    <2>2. InMap(next, n) <=> how[1] # "none"
        BY <2>1 DEF AgreesAt
    <2>3. how[1] = "text" => TextIn(next, n) = how[2]
        BY <2>1 DEF AgreesAt
    <2> QED
        BY <2>2, <2>3 DEF next, how
<1> QED
    BY <1>1, <1>2 DEF PrefsKept

(***************************************************************************)
(* For any installed files, spellings, texts, parser that leaves numbers as  *)
(* they are, and environment, and any number of processes, wherever they end *)
(* and whether or not their saves open the file: each reads what was last    *)
(* given, and the next one what the last save has left, or, where the file   *)
(* was torn or cut off, what the installed files say.                        *)
(***************************************************************************)
THEOREM PrefsAlwaysKept == PrSpec => []PrefsKept
<1>1. PrInv /\ [PrNext]_prvars => PrInv'
    BY PrInvNext
<1> QED
    BY <1>1, PrInvInit, PrInvImplies, PTL DEF PrSpec
=============================================================================
