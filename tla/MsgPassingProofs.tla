--------------------------- MODULE MsgPassingProofs ---------------------------
(* What MsgPassing promises for any blocks and any subscriptions: messages   *)
(* are delivered once and in order, no thread sleeps on one, and a block that *)
(* ends on the notice of its only publisher has handled all of its messages. *)
EXTENDS MsgPassing, FiniteSetTheorems, SequenceTheorems, TLAPS

Message == Published \cup {Done}

\* The functions behind the history and the queues.
Shape ==
    /\ queue \in [Blocks -> [PortNames -> Seq(Message)]]
    /\ handled \in [Blocks -> [Ports -> Seq(Published)]]
    /\ outbox \in [Blocks -> Seq(Blocks \X PortNames \X Message)]

\* What is on its way to a port is a message, and to "system" a notice.
Addressed ==
    \A c \in Blocks : \A x \in 1 .. Len(outbox[c]) :
        IF outbox[c][x][2] = System THEN outbox[c][x][3] = Done ELSE outbox[c][x][3] \in Published

QueuesOK ==
    /\ \A b \in Blocks : \A p \in Ports :
          queue[b][p] \in Seq(Published) /\ handled[b][p] \in Seq(Published)
    /\ \A b \in Blocks : queue[b][System] \in Seq({Done})

TypeInv == TypeOK /\ Shape /\ Addressed /\ at \in [Blocks -> Nat]

\* The part of TypeInv that is about one variable each.
PlainOK ==
    /\ mutex \in [Blocks -> Blocks \cup {Nobody}]
    /\ published \in [Blocks -> Nat]
    /\ at \in [Blocks -> Nat] /\ \A b \in Blocks : at[b] \in 1 .. Len(port_order) + 1
    /\ pc \in [Blocks -> {"top", "messages", "wait_in", "wait_out", "exit", "stopped"}]
    /\ finished \in [Blocks -> BOOLEAN]
    /\ input_changed \in [Blocks -> BOOLEAN]
    /\ output_changed \in [Blocks -> BOOLEAN]
    /\ interrupted \in BOOLEAN

LEMMA SetAt ==
    ASSUME NEW A, NEW B, NEW T, NEW f \in [A -> [B -> T]], NEW a \in A, NEW b \in B, NEW e \in T
    PROVE  LET g == [f EXCEPT ![a][b] = e]
           IN  /\ g \in [A -> [B -> T]] /\ g[a][b] = e
               /\ \A i \in A : \A j \in B : <<i, j>> # <<a, b>> => g[i][j] = f[i][j]
    OBVIOUS

LEMMA SystemIsNoPort == System \in PortNames /\ System \notin Ports /\ Ports \subseteq PortNames
    BY PortsAssumption DEF System, PortNames

LEMMA PublicationType ==
    ASSUME TypeInv, NEW b \in Blocks
    PROVE  /\ Publication(b) \in Seq(Blocks \X PortNames \X Message)
           /\ Len(Publication(b)) = Len(Subscribers[b])
           /\ \A x \in 1 .. Len(Subscribers[b]) :
                 /\ Publication(b)[x] = <<Subscribers[b][x][1], Subscribers[b][x][2], <<b, published[b] + 1>>>>
                 /\ Publication(b)[x][2] \in Ports /\ Publication(b)[x][3] \in Published
<1> DEFINE S == Subscribers[b]
           m == <<b, published[b] + 1>>
<1>1. S \in Seq(Blocks \X Ports)
    BY PortsAssumption
<1>2. m \in Published /\ m \in Message
    BY DEF TypeInv, TypeOK, Published, Message
<1>3. \A x \in 1 .. Len(S) : S[x][1] \in Blocks /\ S[x][2] \in Ports /\ S[x][2] \in PortNames
    BY <1>1, SystemIsNoPort
<1>4. Len(S) \in Nat
    BY <1>1
<1>5. Publication(b) = [x \in 1 .. Len(S) |-> <<S[x][1], S[x][2], m>>]
    BY DEF Publication
<1> HIDE DEF S, m
<1>6. Publication(b) \in Seq(Blocks \X PortNames \X Message) /\ Len(Publication(b)) = Len(S)
    BY <1>2, <1>3, <1>4, <1>5
<1>7. \A x \in 1 .. Len(S) : Publication(b)[x] = <<S[x][1], S[x][2], m>> /\ Publication(b)[x][2] \in Ports
                             /\ Publication(b)[x][3] \in Published
    BY <1>2, <1>3, <1>5
<1> QED
    BY <1>6, <1>7 DEF S, m

LEMMA NoticesType ==
    ASSUME NEW b \in Blocks
    PROVE  /\ DoneNotices(b) \in Seq(Blocks \X PortNames \X Message)
           /\ Len(DoneNotices(b)) = Len(Subscribers[b])
           /\ \A x \in 1 .. Len(Subscribers[b]) : DoneNotices(b)[x] = <<Subscribers[b][x][1], System, Done>>
<1> DEFINE S == Subscribers[b]
<1>1. S \in Seq(Blocks \X Ports)
    BY PortsAssumption
<1>3. \A x \in 1 .. Len(S) : S[x][1] \in Blocks
    BY <1>1
<1>4. Len(S) \in Nat
    BY <1>1
<1>5. DoneNotices(b) = [x \in 1 .. Len(S) |-> <<S[x][1], System, Done>>]
    BY DEF DoneNotices
<1> HIDE DEF S
<1>6. DoneNotices(b) \in Seq(Blocks \X PortNames \X Message) /\ Len(DoneNotices(b)) = Len(S)
    BY <1>3, <1>4, <1>5, SystemIsNoPort DEF Message
<1> QED
    BY <1>3, <1>5, <1>6 DEF S

LEMMA TypeInit == Init => TypeInv
<1> SUFFICES ASSUME Init PROVE TypeInv
    OBVIOUS
<1>1. /\ port_order \in Seq(PortNames)
      /\ \A p \in PortNames : \E k \in 1 .. Len(port_order) : port_order[k] = p
  <2> DEFINE n == Cardinality(PortNames)
  <2>1. IsFiniteSet(PortNames) /\ n \in Nat
    <3>1. IsFiniteSet(Ports)
        BY PortsAssumption
    <3>2. IsFiniteSet(Ports \cup {System})
        BY <3>1, FS_AddElement
    <3> QED
        BY <3>2, FS_CardinalityType DEF PortNames
  <2>2. port_order \in [1 .. n -> PortNames] /\ \A i, j \in 1 .. n : i # j => port_order[i] # port_order[j]
      BY DEF Init, SetToSeqs
  <2> HIDE DEF n
  <2>3. port_order \in Seq(PortNames) /\ Len(port_order) = n
      BY <2>1, <2>2
  <2> DEFINE T == {port_order[i] : i \in 1 .. n}
  <2>4. port_order \in Bijection(1 .. n, T)
      BY <2>2, <2>3 DEF Bijection, Injection, Surjection, IsInjective
  <2>5. T \in SUBSET PortNames
      BY <2>2
  <2>6. Cardinality(1 .. n) = n /\ IsFiniteSet(1 .. n)
      BY <2>1, FS_Interval
  <2>7. Cardinality(T) = n
      BY <2>4, <2>6, FS_Bijection DEF ExistsBijection
  <2>8. T = PortNames
      BY <2>1, <2>5, <2>7, FS_Subset DEF n
  <2> QED
      BY <2>3, <2>8
<1>2. \A b \in Blocks : \A p \in PortNames : queue[b][p] = << >>
    BY DEF Init
<1>3. \A b \in Blocks : \A p \in Ports : handled[b][p] = << >>
    BY DEF Init
<1>4. Shape
    BY DEF Init, Shape
<1>5. Addressed
    BY DEF Init, Addressed
<1>6. /\ mutex \in [Blocks -> Blocks \cup {Nobody}]
      /\ published \in [Blocks -> Nat]
      /\ pc \in [Blocks -> {"top", "messages", "wait_in", "wait_out", "exit", "stopped"}]
      /\ finished \in [Blocks -> BOOLEAN]
      /\ input_changed \in [Blocks -> BOOLEAN]
      /\ output_changed \in [Blocks -> BOOLEAN]
      /\ interrupted \in BOOLEAN
    BY DEF Init
<1>7. \A b \in Blocks : at[b] \in 1 .. Len(port_order) + 1
    BY <1>1 DEF Init
<1>8. QueuesOK
  <2>1. \A T : << >> \in Seq(T)
      OBVIOUS
  <2> QED
      BY <1>2, <1>3, <2>1, SystemIsNoPort DEF QueuesOK
<1>9. at \in [Blocks -> Nat]
    BY DEF Init
<1> QED
    BY <1>1, <1>4, <1>5, <1>6, <1>7, <1>8, <1>9 DEF TypeInv, TypeOK, QueuesOK

LEMMA TypeParts ==
    /\ TypeInv => PlainOK /\ QueuesOK /\ Shape /\ Addressed
    /\ TypeInv /\ port_order' = port_order /\ PlainOK' /\ QueuesOK' /\ Shape' /\ Addressed' => TypeInv'
    BY DEF TypeInv, TypeOK, PlainOK, QueuesOK

LEMMA QueueChange ==
    ASSUME TypeInv, NEW b \in Blocks, NEW p \in PortNames, NEW e,
           queue' = [queue EXCEPT ![b][p] = e],
           p \in Ports => e \in Seq(Published), p = System => e \in Seq({Done})
    PROVE  /\ queue' \in [Blocks -> [PortNames -> Seq(Message)]]
           /\ queue'[b][p] = e
           /\ \A c \in Blocks : \A q \in PortNames : <<c, q>> # <<b, p>> => queue'[c][q] = queue[c][q]
           /\ \A c \in Blocks : \A q \in Ports : queue'[c][q] \in Seq(Published)
           /\ \A c \in Blocks : queue'[c][System] \in Seq({Done})
<1>1. Seq(Published) \subseteq Seq(Message) /\ Seq({Done}) \subseteq Seq(Message)
    BY DEF Message
<1>2. e \in Seq(Message)
    BY <1>1, SystemIsNoPort DEF PortNames
<1>3. queue \in [Blocks -> [PortNames -> Seq(Message)]]
    BY DEF TypeInv, Shape
<1>4. /\ queue' \in [Blocks -> [PortNames -> Seq(Message)]] /\ queue'[b][p] = e
      /\ \A c \in Blocks : \A q \in PortNames : <<c, q>> # <<b, p>> => queue'[c][q] = queue[c][q]
    BY <1>2, <1>3, SetAt
<1>5. \A c \in Blocks : \A q \in Ports : queue'[c][q] \in Seq(Published)
    BY <1>4, SystemIsNoPort DEF TypeInv, TypeOK, Published
<1>6. \A c \in Blocks : queue'[c][System] \in Seq({Done})
    BY <1>4, SystemIsNoPort DEF TypeInv, TypeOK
<1> QED
    BY <1>4, <1>5, <1>6

\* A block begins to publish, or to give notice.
LEMMA OutboxFilled ==
    ASSUME TypeInv, NEW b \in Blocks, NEW o,
           o \in {<< >>, Publication(b), DoneNotices(b)}, outbox' = [outbox EXCEPT ![b] = o]
    PROVE  outbox' \in [Blocks -> Seq(Blocks \X PortNames \X Message)] /\ Addressed'
<1>1. outbox \in [Blocks -> Seq(Blocks \X PortNames \X Message)]
    BY DEF TypeInv, Shape
<1>2. CASE o = << >>
    BY <1>1, <1>2 DEF Addressed, TypeInv
<1> DEFINE Fits(x) == IF o[x][2] = System THEN o[x][3] = Done ELSE o[x][3] \in Published
<1>3. CASE o = Publication(b)
  <2>1. o \in Seq(Blocks \X PortNames \X Message) /\ Len(o) = Len(Subscribers[b])
      BY <1>3, PublicationType
  <2>2. \A x \in 1 .. Len(o) : Fits(x)
      BY <1>3, <2>1, PublicationType, SystemIsNoPort
  <2> QED
      BY <1>1, <2>1, <2>2 DEF Addressed, TypeInv
<1>4. CASE o = DoneNotices(b)
  <2>1. o \in Seq(Blocks \X PortNames \X Message) /\ Len(o) = Len(Subscribers[b])
      BY <1>4, NoticesType
  <2>2. \A x \in 1 .. Len(o) : Fits(x)
    <3> SUFFICES ASSUME NEW x \in 1 .. Len(o) PROVE Fits(x)
        OBVIOUS
    <3>1. o[x] = <<Subscribers[b][x][1], System, Done>>
        BY <1>4, <2>1, NoticesType
    <3> QED
        BY <3>1
  <2> QED
      BY <1>1, <2>1, <2>2 DEF Addressed, TypeInv
<1> QED
    BY <1>2, <1>3, <1>4

LEMMA NotifyType ==
    ASSUME TypeInv, NEW b \in Blocks, Notify(b)
    PROVE  input_changed' \in [Blocks -> BOOLEAN] /\ output_changed' \in [Blocks -> BOOLEAN]
    BY DEF TypeInv, TypeOK, Notify, flags

LEMMA HeadOfOutbox ==
    ASSUME TypeInv, NEW b \in Blocks, outbox[b] # << >>
    PROVE  /\ outbox[b] \in Seq(Blocks \X PortNames \X Message)
           /\ Len(outbox[b]) \in Nat \ {0} /\ Head(outbox[b]) = outbox[b][1]
           /\ Head(outbox[b])[1] \in Blocks /\ Head(outbox[b])[2] \in PortNames
           /\ Head(outbox[b]) = <<Head(outbox[b])[1], Head(outbox[b])[2], Head(outbox[b])[3]>>
           /\ Head(outbox[b])[2] = System => Head(outbox[b])[3] = Done
           /\ Head(outbox[b])[2] # System => Head(outbox[b])[2] \in Ports /\ Head(outbox[b])[3] \in Published
           /\ Tail(outbox[b]) \in Seq(Blocks \X PortNames \X Message)
           /\ Len(Tail(outbox[b])) = Len(outbox[b]) - 1
           /\ \A x \in 1 .. Len(outbox[b]) - 1 : Tail(outbox[b])[x] = outbox[b][x + 1]
<1>1. outbox[b] \in Seq(Blocks \X PortNames \X Message)
    BY DEF TypeInv, Shape
<1> DEFINE s == outbox[b]
<1>2. \A x \in 1 .. Len(s) : IF s[x][2] = System THEN s[x][3] = Done ELSE s[x][3] \in Published
    BY DEF TypeInv, Addressed
<1>3. s \in Seq(Blocks \X PortNames \X Message) /\ s # << >>
    BY <1>1
<1> HIDE DEF s
<1>4. /\ Len(s) \in Nat \ {0} /\ Head(s) = s[1] /\ Head(s) \in Blocks \X PortNames \X Message
      /\ Tail(s) \in Seq(Blocks \X PortNames \X Message) /\ Len(Tail(s)) = Len(s) - 1
      /\ \A x \in 1 .. Len(s) - 1 : Tail(s)[x] = s[x + 1]
    BY <1>3
<1>5. /\ Head(s)[1] \in Blocks /\ Head(s)[2] \in PortNames
      /\ Head(s) = <<Head(s)[1], Head(s)[2], Head(s)[3]>>
    BY <1>4
<1>6. /\ Head(s)[2] = System => Head(s)[3] = Done
      /\ Head(s)[2] # System => Head(s)[2] \in Ports /\ Head(s)[3] \in Published
    BY <1>2, <1>4, <1>5 DEF PortNames
<1> QED
    BY <1>3, <1>4, <1>5, <1>6 DEF s


LEMMA TypeNext == TypeInv /\ [Next]_vars => TypeInv'
<1> SUFFICES ASSUME TypeInv, [Next]_vars PROVE TypeInv'
    OBVIOUS
<1> USE DEF Goto, flags, threads, control
<1>0. PlainOK /\ QueuesOK /\ Shape /\ Addressed
    BY TypeParts
<1>a. \A b \in Blocks : at[b] \in Nat \ {0} /\ at[b] <= Len(port_order) + 1 /\ Len(port_order) \in Nat
    BY <1>0 DEF PlainOK, TypeInv, TypeOK
<1>1. CASE UNCHANGED vars
    BY <1>0, <1>1, TypeParts DEF vars, PlainOK, QueuesOK, Shape, Addressed
<1>2. ASSUME NEW b \in Blocks, Post(b) PROVE TypeInv'
  <2> DEFINE to == Head(outbox[b])
             e  == Append(queue[to[1]][to[2]], to[3])
  <2>1. /\ outbox[b] # << >> /\ mutex' = [mutex EXCEPT ![to[1]] = b]
        /\ queue' = [queue EXCEPT ![to[1]][to[2]] = e]
        /\ UNCHANGED <<port_order, published, handled, threads, flags, control>>
      BY <1>2 DEF Post
  <2>2. /\ to[1] \in Blocks /\ to[2] \in PortNames /\ (to[2] = System => to[3] = Done)
        /\ (to[2] # System => to[2] \in Ports /\ to[3] \in Published)
      BY <2>1, HeadOfOutbox
  <2>3. /\ to[2] \in Ports => e \in Seq(Published)
        /\ to[2] = System => e \in Seq({Done})
      BY <1>0, <2>2, SystemIsNoPort DEF QueuesOK, Published
  <2> HIDE DEF e
  <2>4. /\ queue' \in [Blocks -> [PortNames -> Seq(Message)]]
        /\ \A c \in Blocks : \A q \in Ports : queue'[c][q] \in Seq(Published)
        /\ \A c \in Blocks : queue'[c][System] \in Seq({Done})
      BY <2>1, <2>2, <2>3, QueueChange
  <2>5. PlainOK'
      BY <1>0, <2>1, <2>2 DEF PlainOK
  <2>6. QueuesOK' /\ Shape'
      BY <1>0, <2>1, <2>4 DEF QueuesOK, Shape
  <2>7. Addressed' /\ port_order' = port_order
      BY <1>0, <2>1 DEF Addressed
  <2> QED
      BY <2>5, <2>6, <2>7, TypeParts
<1>3. ASSUME NEW b \in Blocks, Wake(b) PROVE TypeInv'
  <2>1. PlainOK'
      BY <1>0, <1>3, HeadOfOutbox, NotifyType DEF Wake, PlainOK
  <2>2. QueuesOK'
      BY <1>0, <1>3 DEF Wake, QueuesOK
  <2>3. Shape'
      BY <1>0, <1>3, HeadOfOutbox DEF Wake, Shape
  <2>4. Addressed'
    <3> DEFINE s == outbox[b]
    <3>1. outbox' = [outbox EXCEPT ![b] = Tail(s)] /\ outbox \in [Blocks -> Seq(Blocks \X PortNames \X Message)]
        BY <1>0, <1>3 DEF Wake, Shape
    <3>2. /\ Len(Tail(s)) = Len(s) - 1 /\ Len(s) \in Nat
          /\ \A x \in 1 .. Len(s) - 1 : Tail(s)[x] = s[x + 1]
        BY <1>3, HeadOfOutbox DEF Wake
    <3> SUFFICES ASSUME NEW c \in Blocks, NEW x \in 1 .. Len(outbox'[c])
                 PROVE  IF outbox'[c][x][2] = System THEN outbox'[c][x][3] = Done
                        ELSE outbox'[c][x][3] \in Published
        BY DEF Addressed
    <3>3. CASE c = b
      <4>1. x + 1 \in 1 .. Len(outbox[b]) /\ outbox'[c][x] = outbox[b][x + 1]
          BY <3>1, <3>2, <3>3
      <4> QED
          BY <1>0, <4>1 DEF Addressed
    <3>4. CASE c # b
        BY <1>0, <3>1, <3>4 DEF Addressed
    <3> QED
        BY <3>3, <3>4
  <2> QED
      BY <1>3, <2>1, <2>2, <2>3, <2>4, TypeParts DEF Wake
<1>4. ASSUME NEW b \in Blocks, Top(b) PROVE TypeInv'
  <2>1. at' \in [Blocks -> Nat] /\ \A c \in Blocks : at'[c] \in 1 .. Len(port_order) + 1
      BY <1>4, <1>a DEF Top, TypeInv
  <2>2. PlainOK'
      BY <1>0, <1>4, <2>1 DEF Top, PlainOK
  <2> QED
      BY <1>0, <1>4, <2>2, TypeParts DEF Top, QueuesOK, Shape, Addressed
<1>5. ASSUME NEW b \in Blocks, Messages(b) PROVE TypeInv'
  <2> DEFINE p == port_order[at[b]]
             q == queue[b][p]
  <2>0. at[b] <= Len(port_order) /\ at[b] \in 1 .. Len(port_order)
      BY <1>5, <1>a DEF Messages
  <2>p. p \in PortNames
      BY <2>0 DEF TypeInv, TypeOK
  <2>1. /\ q \in Seq(Message)
        /\ (p \in Ports => q \in Seq(Published)) /\ (p = System => q \in Seq({Done}))
      BY <1>0, <2>p DEF Shape, QueuesOK, Published
  <2> HIDE DEF p
  <2> DEFINE taken == HasHandler(b, p) /\ q # << >>
             e == IF taken THEN Tail(q) ELSE IF Len(q) > MaxMsgs /\ ~HasHandler(b, p) THEN Tail(q) ELSE q
  <2>2. /\ queue' = [queue EXCEPT ![b][p] = e]
        /\ UNCHANGED <<port_order, mutex, pc, left, stalls, control>>
        /\ taken => Dispatch(b, p, Head(q)) /\ at' = at
        /\ ~taken => at' = [at EXCEPT ![b] = @ + 1] /\ UNCHANGED <<handled, outbox, published, finished, flags>>
    <3>1. queue' = [queue EXCEPT ![b][p] = e]
        BY <1>5 DEF Messages, p
    <3>2. taken => at' = at
        BY <1>0, <1>5 DEF Messages, AfterMessage, p, TypeInv
    <3> QED
        BY <1>5, <3>1, <3>2 DEF Messages, p
  <2>3. (p \in Ports => e \in Seq(Published)) /\ (p = System => e \in Seq({Done}))
    <3>1. ASSUME NEW T, q \in Seq(T) PROVE e \in Seq(T)
      <4>1. q # << >> => Tail(q) \in Seq(T)
          BY <3>1
      <4>2. q = << >> => ~(Len(q) > MaxMsgs)
          BY MaxMsgsAssumption
      <4> QED
          BY <3>1, <4>1, <4>2
    <3> QED
        BY <2>1, <3>1
  <2>4. CASE ~taken
    <3> HIDE DEF e
    <3>1. /\ queue' \in [Blocks -> [PortNames -> Seq(Message)]]
          /\ \A c \in Blocks : \A r \in Ports : queue'[c][r] \in Seq(Published)
          /\ \A c \in Blocks : queue'[c][System] \in Seq({Done})
        BY <2>p, <2>2, <2>3, QueueChange
    <3>2. PlainOK'
      <4>1. at' = [at EXCEPT ![b] = at[b] + 1] /\ at \in [Blocks -> Nat] /\ at[b] + 1 \in 1 .. Len(port_order) + 1
          BY <1>0, <1>a, <2>0, <2>2, <2>4 DEF PlainOK
      <4>2. at' \in [Blocks -> Nat] /\ \A c \in Blocks : at'[c] \in 1 .. Len(port_order) + 1
          BY <1>0, <4>1 DEF PlainOK
      <4> QED
          BY <1>0, <2>2, <2>4, <4>2 DEF PlainOK
    <3> QED
        BY <1>0, <2>2, <2>4, <3>1, <3>2, TypeParts DEF QueuesOK, Shape, Addressed, Published
  <2>5. CASE taken
    <3> HIDE DEF e
    <3>1. /\ queue' \in [Blocks -> [PortNames -> Seq(Message)]]
          /\ \A c \in Blocks : \A r \in Ports : queue'[c][r] \in Seq(Published)
          /\ \A c \in Blocks : queue'[c][System] \in Seq({Done})
        BY <2>p, <2>2, <2>3, QueueChange
    <3>2. CASE p = System
      <4>1. /\ finished' = [finished EXCEPT ![b] = TRUE] /\ Notify(b)
            /\ UNCHANGED <<handled, outbox, published>>
          BY <2>2, <2>5, <3>2 DEF Dispatch
      <4>2. PlainOK'
          BY <1>0, <2>2, <2>5, <4>1, NotifyType DEF PlainOK
      <4> QED
          BY <1>0, <2>2, <3>1, <4>1, <4>2, TypeParts DEF QueuesOK, Shape, Addressed, Published
    <3>3. CASE p # System
      <4>1. p \in Ports /\ Head(q) \in Published
          BY <2>p, <2>1, <2>5, <3>3 DEF PortNames
      <4> DEFINE h == Append(handled[b][p], Head(q))
      <4>2. /\ handled' = [handled EXCEPT ![b][p] = h]
            /\ UNCHANGED <<finished, flags>>
            /\ \/ /\ outbox' = [outbox EXCEPT ![b] = Publication(b)]
                  /\ published' = [published EXCEPT ![b] = @ + 1]
               \/ UNCHANGED <<outbox, published>>
          BY <2>2, <2>5, <3>3 DEF Dispatch
      <4>3. h \in Seq(Published)
          BY <1>0, <4>1 DEF Shape
      <4> HIDE DEF h
      <4>4. handled' \in [Blocks -> [Ports -> Seq(Published)]]
          BY <1>0, <4>1, <4>2, <4>3 DEF Shape
      <4>5. PlainOK'
          BY <1>0, <2>2, <2>5, <4>2 DEF PlainOK
      <4>6. outbox' \in [Blocks -> Seq(Blocks \X PortNames \X Message)] /\ Addressed'
          BY <1>0, <4>2, OutboxFilled DEF Shape, Addressed
      <4>7. QueuesOK' /\ Shape'
          BY <3>1, <4>4, <4>6 DEF QueuesOK, Shape, Published
      <4> QED
          BY <2>2, <4>5, <4>6, <4>7, TypeParts
    <3> QED
        BY <3>2, <3>3
  <2> QED
      BY <2>4, <2>5
<1>6. ASSUME NEW b \in Blocks, Iterate(b) PROVE TypeInv'
  <2>1. PICK s \in Results(b) :
          /\ Follow(b, Adjusted(b, s))
          /\ published' = [published EXCEPT ![b] = IF s = "READY" THEN @ + 1 ELSE @]
          /\ outbox' = [outbox EXCEPT ![b] = CASE s = "READY" -> Publication(b)
                                               [] Adjusted(b, s) = "DONE" -> DoneNotices(b)
                                               [] OTHER -> << >>]
      BY <1>6 DEF Iterate
  <2> DEFINE o == CASE s = "READY" -> Publication(b)
                    [] Adjusted(b, s) = "DONE" -> DoneNotices(b)
                    [] OTHER -> << >>
  <2>2. o \in {<< >>, Publication(b), DoneNotices(b)} /\ outbox' = [outbox EXCEPT ![b] = o]
      BY <2>1
  <2> HIDE DEF o
  <2>3. outbox' \in [Blocks -> Seq(Blocks \X PortNames \X Message)] /\ Addressed'
      BY <2>2, OutboxFilled
  <2>4. PlainOK'
      BY <1>0, <1>6, <1>a, <2>1 DEF Iterate, PlainOK, Follow
  <2> QED
      BY <1>0, <1>6, <2>3, <2>4, TypeParts DEF Iterate, QueuesOK, Shape
<1>7. ASSUME NEW b \in Blocks, Idle(b) PROVE TypeInv'
  <2>1. outbox' = [outbox EXCEPT ![b] = IF finished[b] THEN DoneNotices(b) ELSE << >>]
      BY <1>7 DEF Idle
  <2>2. outbox' \in [Blocks -> Seq(Blocks \X PortNames \X Message)] /\ Addressed'
      BY <2>1, OutboxFilled
  <2>3. PlainOK'
      BY <1>0, <1>7, <1>a DEF Idle, PlainOK, Follow
  <2> QED
      BY <1>0, <1>7, <2>2, <2>3, TypeParts DEF Idle, QueuesOK, Shape
<1>8. ASSUME NEW b \in Blocks, WakeIn(b) \/ WakeOut(b) \/ Timeout(b) PROVE TypeInv'
    BY <1>0, <1>8, TypeParts DEF WakeIn, WakeOut, Timeout, Waking, PlainOK, QueuesOK, Shape, Addressed
<1>9. ASSUME NEW b \in Blocks, StreamWake(b) PROVE TypeInv'
    BY <1>0, <1>9, TypeParts DEF StreamWake, PlainOK, QueuesOK, Shape, Addressed
<1>10. ASSUME NEW b \in Blocks, Interrupted(b) PROVE TypeInv'
    BY <1>0, <1>10, TypeParts DEF Interrupted, PlainOK, QueuesOK, Shape, Addressed
<1>11. CASE Stop
    BY <1>0, <1>11, TypeParts DEF Stop, PlainOK, QueuesOK, Shape, Addressed
<1>12. CASE Restart
  <2>1. at' \in [Blocks -> Nat] /\ \A c \in Blocks : at'[c] \in 1 .. Len(port_order) + 1
      BY <1>12, <1>a DEF Restart, TypeInv
  <2>2. PlainOK'
      BY <1>0, <1>12, <2>1 DEF Restart, PlainOK
  <2> QED
      BY <1>0, <1>12, <2>2, TypeParts DEF Restart, QueuesOK, Shape, Addressed
<1> QED
    BY <1>1, <1>2, <1>3, <1>4, <1>5, <1>6, <1>7, <1>8, <1>9, <1>10, <1>11, <1>12 DEF Next, Step


THEOREM TypesAlwaysKept == Spec => []TypeInv
    BY TypeInit, TypeNext, PTL DEF Spec

-----------------------------------------------------------------------------
(* Order.  A message stays what it is when it passes from the queue to the   *)
(* handler, so that only Post changes what a block has received.             *)

\* r holds c's n-th message.
Has(r, c, n) == \E x \in 1 .. Len(r) : r[x] = <<c, n>>

\* The messages of c in r are in order, and none is later than the n-th.
Ordered(r, c, n) ==
    /\ \A x \in 1 .. Len(r) : r[x][1] = c => r[x][2] \in 1 .. n
    /\ \A x \in 1 .. Len(r) : \A y \in 1 .. x - 1 :
           r[x][1] = c /\ r[y][1] = c => r[y][2] < r[x][2]

\* How many subscribers the publication or notice in the outbox has reached.
Sent(c) == Len(Subscribers[c]) - Len(outbox[c])

Publishing(c) ==
    \A x \in 1 .. Len(outbox[c]) :
        outbox[c][x] = <<Subscribers[c][Sent(c) + x][1], Subscribers[c][Sent(c) + x][2], <<c, published[c]>>>>

Closing(c) ==
    \A x \in 1 .. Len(outbox[c]) :
        outbox[c][x] = <<Subscribers[c][Sent(c) + x][1], System, Done>>

OutboxInv ==
    \A c \in Blocks : Len(outbox[c]) <= Len(Subscribers[c]) /\ (Publishing(c) \/ Closing(c))

\* Who holds a mutex is posting to its block.
HoldsHead ==
    \A b, c \in Blocks : mutex[b] = c => outbox[c] # << >> /\ Head(outbox[c])[1] = b

\* The k-th subscriber of c has yet to be posted the last message.
Owed(c, k) ==
    /\ Publishing(c)
    /\ k > Sent(c)
    /\ ~(k = Sent(c) + 1 /\ mutex[Subscribers[c][k][1]] = c)

\* What the k-th subscriber of c has received.
Got(c, k) == Received(Subscribers[c][k][1], Subscribers[c][k][2])

OrderInv ==
    \A c \in Blocks : \A k \in 1 .. Len(Subscribers[c]) :
        HasHandler(Subscribers[c][k][1], Subscribers[c][k][2]) =>
            /\ Ordered(Got(c, k), c, published[c])
            /\ \A n \in 1 .. published[c] : Has(Got(c, k), c, n) <=> ~(n = published[c] /\ Owed(c, k))

OrderAll == OutboxInv /\ HoldsHead /\ OrderInv

LEMMA SubscriberIs ==
    ASSUME NEW c \in Blocks
    PROVE  /\ Len(Subscribers[c]) \in Nat
           /\ \A k \in 1 .. Len(Subscribers[c]) :
                 /\ Subscribers[c][k][1] \in Blocks /\ Subscribers[c][k][2] \in Ports
                 /\ Subscribers[c][k] = <<Subscribers[c][k][1], Subscribers[c][k][2]>>
    BY PortsAssumption

LEMMA OutboxLen ==
    ASSUME TypeInv, NEW c \in Blocks
    PROVE  Len(outbox[c]) \in Nat /\ (Len(outbox[c]) = 0 <=> outbox[c] = << >>)
    BY DEF TypeInv, Shape

\* Steps that leave the publications alone.
LEMMA OrderStill ==
    ASSUME TypeInv, OrderAll, UNCHANGED <<mutex, outbox, published>>,
           \A b \in Blocks : \A p \in Ports : HasHandler(b, p) => Received(b, p)' = Received(b, p)
    PROVE  OrderAll'
<1>1. OutboxInv' /\ HoldsHead'
    BY DEF OrderAll, OutboxInv, HoldsHead, Publishing, Closing, Sent
<1>2. \A c \in Blocks : \A k \in 1 .. Len(Subscribers[c]) :
          HasHandler(Subscribers[c][k][1], Subscribers[c][k][2]) => Got(c, k)' = Got(c, k)
    BY SubscriberIs DEF Got
<1>3. \A c \in Blocks : \A k \in 1 .. Len(Subscribers[c]) : Owed(c, k)' = Owed(c, k)
    BY DEF Owed, Publishing, Sent
<1>4. OrderInv'
    BY <1>2, <1>3 DEF OrderAll, OrderInv
<1> QED
    BY <1>1, <1>4 DEF OrderAll

\* A block begins to publish.
LEMMA OrderPublish ==
    ASSUME TypeInv, OrderAll, NEW b \in Blocks, outbox[b] = << >>,
           outbox' = [outbox EXCEPT ![b] = Publication(b)],
           published' = [published EXCEPT ![b] = @ + 1], UNCHANGED mutex,
           \A c \in Blocks : \A p \in Ports : HasHandler(c, p) => Received(c, p)' = Received(c, p)
    PROVE  OrderAll'
<1>0. /\ outbox \in [Blocks -> Seq(Blocks \X PortNames \X Message)] /\ published \in [Blocks -> Nat]
      /\ mutex \in [Blocks -> Blocks \cup {Nobody}]
    BY DEF TypeInv, TypeOK, Shape
<1>1. /\ outbox'[b] = Publication(b) /\ Len(outbox'[b]) = Len(Subscribers[b])
      /\ published'[b] = published[b] + 1
      /\ \A c \in Blocks : c # b => outbox'[c] = outbox[c] /\ published'[c] = published[c]
    BY <1>0, PublicationType
<1>2. \A c \in Blocks : c # b => (Sent(c)' = Sent(c) /\ Publishing(c)' = Publishing(c) /\ Closing(c)' = Closing(c))
    BY <1>1 DEF Sent, Publishing, Closing
<1>3. Sent(b)' = 0
    BY <1>1, SubscriberIs DEF Sent
<1>4. Publishing(b)'
    BY <1>1, <1>3, PublicationType, SubscriberIs DEF Publishing
<1>5. OutboxInv'
    BY <1>1, <1>2, <1>4, SubscriberIs DEF OrderAll, OutboxInv
<1>6. \A c \in Blocks : mutex[c] # b
    BY DEF OrderAll, HoldsHead
<1>7. HoldsHead'
    BY <1>1, <1>6 DEF OrderAll, HoldsHead
<1>8. OrderInv'
  <2> SUFFICES ASSUME NEW c \in Blocks, NEW k \in 1 .. Len(Subscribers[c]),
                      HasHandler(Subscribers[c][k][1], Subscribers[c][k][2])
               PROVE  /\ Ordered(Got(c, k)', c, published'[c])
                      /\ \A n \in 1 .. published'[c] :
                            Has(Got(c, k)', c, n) <=> ~(n = published'[c] /\ Owed(c, k)')
      BY DEF OrderInv, Ordered, Has
  <2>1. Got(c, k)' = Got(c, k)
      BY SubscriberIs DEF Got
  <2>2. /\ Ordered(Got(c, k), c, published[c])
        /\ \A n \in 1 .. published[c] : Has(Got(c, k), c, n) <=> ~(n = published[c] /\ Owed(c, k))
      BY DEF OrderAll, OrderInv
  <2>3. CASE c # b
    <3>1. Owed(c, k)' = Owed(c, k)
        BY <1>2, <2>3 DEF Owed
    <3> QED
        BY <1>1, <2>1, <2>2, <2>3, <3>1
  <2>4. CASE c = b
    <3>1. ~Owed(b, k)
        BY <2>4, SubscriberIs DEF Owed, Sent
    <3>2. Owed(b, k)'
        BY <1>3, <1>4, <1>6, <2>4, SubscriberIs DEF Owed
    <3> DEFINE r == Got(c, k)
               N == published[c]
    <3>3. N \in Nat /\ published'[c] = N + 1
        BY <1>0, <1>1, <2>4
    <3>4. Ordered(r, c, N) /\ \A n \in 1 .. N : Has(r, c, n)
        BY <2>2, <2>4, <3>1
    <3> HIDE DEF r, N
    <3>5. Ordered(r, c, N + 1) /\ ~Has(r, c, N + 1)
        BY <3>3, <3>4 DEF Ordered, Has
    <3>6. \A n \in 1 .. N + 1 : Has(r, c, n) <=> n # N + 1
        BY <3>3, <3>4, <3>5
    <3> QED
        BY <2>1, <2>4, <3>2, <3>3, <3>5, <3>6 DEF r
  <2> QED
      BY <2>3, <2>4
<1> QED
    BY <1>5, <1>7, <1>8 DEF OrderAll


\* A block gives notice, or goes on with nothing to post.
LEMMA OrderNotice ==
    ASSUME TypeInv, OrderAll, NEW b \in Blocks, outbox[b] = << >>, NEW o \in {<< >>, DoneNotices(b)},
           outbox' = [outbox EXCEPT ![b] = o], UNCHANGED <<published, mutex>>,
           \A c \in Blocks : \A p \in Ports : HasHandler(c, p) => Received(c, p)' = Received(c, p)
    PROVE  OrderAll'
<1>1. CASE o = << >>
  <2>1. outbox' = outbox
      BY <1>1 DEF TypeInv, Shape
  <2> QED
      BY <2>1, OrderStill
<1>2. CASE o = DoneNotices(b)
  <2>0. /\ outbox \in [Blocks -> Seq(Blocks \X PortNames \X Message)] /\ published \in [Blocks -> Nat]
        /\ mutex \in [Blocks -> Blocks \cup {Nobody}]
      BY DEF TypeInv, TypeOK, Shape
  <2>1. /\ outbox'[b] = DoneNotices(b) /\ Len(outbox'[b]) = Len(Subscribers[b])
        /\ \A c \in Blocks : c # b => outbox'[c] = outbox[c]
      BY <1>2, <2>0, NoticesType
  <2>2. \A c \in Blocks : c # b => (Sent(c)' = Sent(c) /\ Publishing(c)' = Publishing(c) /\ Closing(c)' = Closing(c))
      BY <2>1 DEF Sent, Publishing, Closing
  <2>3. Sent(b)' = 0
      BY <2>1, SubscriberIs DEF Sent
  <2>4. Closing(b)'
      BY <2>1, <2>3, NoticesType, SubscriberIs DEF Closing
  <2>5. OutboxInv'
      BY <2>1, <2>2, <2>4, SubscriberIs DEF OrderAll, OutboxInv
  <2>6. \A c \in Blocks : mutex[c] # b
      BY DEF OrderAll, HoldsHead
  <2>7. HoldsHead'
      BY <2>1, <2>6 DEF OrderAll, HoldsHead
  <2>8. ASSUME NEW k \in 1 .. Len(Subscribers[b]) PROVE ~Owed(b, k) /\ ~Owed(b, k)'
    <3>1. ~Owed(b, k)
        BY SubscriberIs DEF Owed, Sent
    <3>0. 1 \in 1 .. Len(Subscribers[b])
        BY SubscriberIs
    <3>2. DoneNotices(b)[1] = <<Subscribers[b][1][1], System, Done>> /\ Subscribers[b][1][2] # System
        BY <3>0, NoticesType, SubscriberIs, SystemIsNoPort
    <3>3. ~Publishing(b)'
        BY <2>1, <2>3, <3>0, <3>2, SubscriberIs DEF Publishing
    <3> QED
        BY <3>1, <3>3 DEF Owed
  <2>9. \A c \in Blocks : \A k \in 1 .. Len(Subscribers[c]) : Owed(c, k)' <=> Owed(c, k)
    <3> SUFFICES ASSUME NEW c \in Blocks, NEW k \in 1 .. Len(Subscribers[c]) PROVE Owed(c, k)' <=> Owed(c, k)
        OBVIOUS
    <3>1. CASE c = b
        BY <2>8, <3>1
    <3>2. CASE c # b
        BY <2>2, <3>2 DEF Owed
    <3> QED
        BY <3>1, <3>2
  <2>10. \A c \in Blocks : \A k \in 1 .. Len(Subscribers[c]) :
            HasHandler(Subscribers[c][k][1], Subscribers[c][k][2]) => Got(c, k)' = Got(c, k)
      BY SubscriberIs DEF Got
  <2>11. OrderInv'
      BY <2>9, <2>10 DEF OrderAll, OrderInv
  <2> QED
      BY <2>5, <2>7, <2>11 DEF OrderAll
<1> QED
    BY <1>1, <1>2

\* The next message in r.
LEMMA AppendOwn ==
    ASSUME NEW r \in Seq(Published), NEW c \in Blocks, NEW n \in Nat, n >= 1,
           Ordered(r, c, n), ~Has(r, c, n)
    PROVE  LET s == Append(r, <<c, n>>)
           IN  Ordered(s, c, n) /\ Has(s, c, n) /\ \A m \in 1 .. n - 1 : Has(s, c, m) <=> Has(r, c, m)
<1> DEFINE s == Append(r, <<c, n>>)
<1>1. /\ Len(s) = Len(r) + 1 /\ Len(r) \in Nat /\ s[Len(r) + 1] = <<c, n>>
      /\ \A x \in 1 .. Len(r) : s[x] = r[x] /\ r[x] \in Published
    BY DEF Published
<1> HIDE DEF s
<1>2. \A x \in 1 .. Len(r) : r[x] = <<r[x][1], r[x][2]>> /\ r[x][2] \in Nat
    BY <1>1 DEF Published
<1>3. \A x \in 1 .. Len(r) : r[x][1] = c => r[x][2] < n
    BY <1>2 DEF Ordered, Has
<1>4. Ordered(s, c, n)
  <2>1. \A x \in 1 .. Len(s) : s[x][1] = c => s[x][2] \in 1 .. n
      BY <1>1 DEF Ordered
  <2>2. ASSUME NEW x \in 1 .. Len(s), NEW y \in 1 .. x - 1, s[x][1] = c, s[y][1] = c
        PROVE  s[y][2] < s[x][2]
    <3>1. y \in 1 .. Len(r) /\ s[y] = r[y]
        BY <1>1
    <3>2. CASE x = Len(r) + 1
        BY <1>1, <1>3, <2>2, <3>1, <3>2
    <3>3. CASE x # Len(r) + 1
      <4>1. x \in 1 .. Len(r) /\ s[x] = r[x]
          BY <1>1, <3>3
      <4> QED
          BY <2>2, <3>1, <4>1 DEF Ordered
    <3> QED
        BY <3>2, <3>3
  <2> QED
      BY <2>1, <2>2 DEF Ordered
<1>5. Has(s, c, n)
    BY <1>1 DEF Has
<1>6. \A m \in 1 .. n - 1 : Has(s, c, m) <=> Has(r, c, m)
  <2> SUFFICES ASSUME NEW m \in 1 .. n - 1 PROVE Has(s, c, m) <=> Has(r, c, m)
      OBVIOUS
  <2>1. <<c, n>> # <<c, m>>
      OBVIOUS
  <2> QED
      BY <1>1, <2>1, SMTT(25) DEF Has
<1> QED
    BY <1>4, <1>5, <1>6 DEF s

\* The message of another block.
LEMMA AppendOther ==
    ASSUME NEW r \in Seq(Published), NEW c, NEW m \in Published, m[1] # c, NEW N \in Nat, Ordered(r, c, N)
    PROVE  LET s == Append(r, m)
           IN  Ordered(s, c, N) /\ \A n \in Nat : Has(s, c, n) <=> Has(r, c, n)
<1> DEFINE s == Append(r, m)
<1>1. /\ Len(s) = Len(r) + 1 /\ Len(r) \in Nat /\ s[Len(r) + 1] = m
      /\ \A x \in 1 .. Len(r) : s[x] = r[x]
    OBVIOUS
<1> HIDE DEF s
<1>2. \A n : m # <<c, n>>
    OBVIOUS
<1>3. Ordered(s, c, N)
    BY <1>1, SMTT(25) DEF Ordered
<1>4. \A n \in Nat : Has(s, c, n) <=> Has(r, c, n)
    BY <1>1, <1>2, SMTT(25) DEF Has
<1> QED
    BY <1>3, <1>4 DEF s

LEMMA AppendLast ==
    ASSUME NEW T, NEW h \in Seq(T), NEW q \in Seq(T), NEW m \in T
    PROVE  h \o Append(q, m) = Append(h \o q, m)
    OBVIOUS

LEMMA TakeFirst ==
    ASSUME NEW T, NEW h \in Seq(T), NEW q \in Seq(T), q # << >>
    PROVE  Append(h, Head(q)) \o Tail(q) = h \o q
<1> DEFINE a == Append(h, Head(q)) \o Tail(q)
           b == h \o q
<1>1. a \in Seq(T) /\ b \in Seq(T) /\ Len(a) = Len(b)
    OBVIOUS
<1>2. \A i \in 1 .. Len(a) : a[i] = b[i]
    OBVIOUS
<1> HIDE DEF a, b
<1>3. a = b
    BY <1>1, <1>2, SeqEqual
<1> QED
    BY <1>3 DEF a, b


\* The first entry of the outbox, and the subscriber it is for.
LEMMA FirstInOutbox ==
    ASSUME TypeInv, OutboxInv, NEW b \in Blocks, outbox[b] # << >>
    PROVE  LET k == Sent(b) + 1
           IN  /\ k \in 1 .. Len(Subscribers[b]) /\ Head(outbox[b])[1] = Subscribers[b][k][1]
               /\ \/ /\ Publishing(b) /\ ~Closing(b)
                     /\ Head(outbox[b])[2] = Subscribers[b][k][2] /\ Head(outbox[b])[3] = <<b, published[b]>>
                     /\ published[b] >= 1
                  \/ /\ Closing(b) /\ ~Publishing(b)
                     /\ Head(outbox[b])[2] = System
<1> DEFINE k == Sent(b) + 1
<1>1. /\ Len(outbox[b]) \in Nat \ {0} /\ Head(outbox[b]) = outbox[b][1]
      /\ Len(Subscribers[b]) \in Nat /\ Len(outbox[b]) <= Len(Subscribers[b])
    BY HeadOfOutbox, SubscriberIs DEF OutboxInv
<1>2. k \in 1 .. Len(Subscribers[b]) /\ 1 \in 1 .. Len(outbox[b])
  <2>1. \A n, m \in Nat : 0 < m /\ m <= n => n - m + 1 \in 1 .. n /\ 1 \in 1 .. m
      OBVIOUS
  <2>2. k = Len(Subscribers[b]) - Len(outbox[b]) + 1
      BY DEF Sent
  <2> HIDE DEF k
  <2>3. Len(outbox[b]) > 0
      BY <1>1
  <2> QED
      BY <1>1, <2>1, <2>2, <2>3
<1>3. Publishing(b) => Head(outbox[b]) = <<Subscribers[b][k][1], Subscribers[b][k][2], <<b, published[b]>>>>
    BY <1>1, <1>2 DEF Publishing
<1>4. Closing(b) => Head(outbox[b]) = <<Subscribers[b][k][1], System, Done>>
    BY <1>1, <1>2 DEF Closing
<1>5. Subscribers[b][k][2] # System
    BY <1>2, SubscriberIs, SystemIsNoPort
<1>6. Publishing(b) => published[b] >= 1
  <2>1. Publishing(b) => <<b, published[b]>> \in Published
      BY <1>3, <1>5, HeadOfOutbox
  <2> QED
      BY <2>1 DEF Published
<1> QED
    BY <1>2, <1>3, <1>4, <1>5, <1>6 DEF OutboxInv

LEMMA OrderWake ==
    ASSUME TypeInv, OrderAll, NEW b \in Blocks, Wake(b)
    PROVE  OrderAll'
<1> DEFINE x0 == Head(outbox[b])[1]
           S  == Subscribers[b]
<1>1. /\ outbox[b] # << >> /\ mutex[x0] = b /\ mutex' = [mutex EXCEPT ![x0] = Nobody]
      /\ outbox' = [outbox EXCEPT ![b] = Tail(outbox[b])]
      /\ UNCHANGED <<queue, published, handled>>
    BY DEF Wake
<1>2. /\ outbox \in [Blocks -> Seq(Blocks \X PortNames \X Message)]
      /\ mutex \in [Blocks -> Blocks \cup {Nobody}] /\ x0 \in Blocks /\ b # Nobody
    BY <1>1, HeadOfOutbox, NobodyAssumption DEF TypeInv, TypeOK, Shape
<1>3. /\ Len(outbox[b]) \in Nat \ {0} /\ Len(outbox'[b]) = Len(outbox[b]) - 1
      /\ \A x \in 1 .. Len(outbox[b]) - 1 : outbox'[b][x] = outbox[b][x + 1]
      /\ Len(S) \in Nat /\ Len(outbox[b]) <= Len(S)
      /\ \A c \in Blocks : c # b => outbox'[c] = outbox[c]
    BY <1>1, <1>2, HeadOfOutbox, SubscriberIs DEF OrderAll, OutboxInv
<1>4. Sent(b) \in Nat /\ Sent(b)' = Sent(b) + 1
    BY <1>3 DEF Sent
<1>5. \A c \in Blocks : c # b => (Sent(c)' = Sent(c) /\ Publishing(c)' = Publishing(c) /\ Closing(c)' = Closing(c))
    BY <1>1, <1>3 DEF Sent, Publishing, Closing
<1>6. (Publishing(b) => Publishing(b)') /\ (Closing(b) => Closing(b)')
  <2>1. ASSUME NEW x \in 1 .. Len(outbox'[b])
        PROVE  x + 1 \in 1 .. Len(outbox[b]) /\ Sent(b)' + x = Sent(b) + (x + 1) /\ outbox'[b][x] = outbox[b][x + 1]
    <3>1. x \in 1 .. Len(outbox[b]) - 1
        BY <1>3
    <3>2. x \in Nat /\ x + 1 \in 1 .. Len(outbox[b])
        BY <1>3, <3>1
    <3>3. Sent(b)' + x = Sent(b) + (x + 1)
        BY <1>4, <3>2
    <3> QED
        BY <1>3, <3>1, <3>2, <3>3
  <2> QED
      BY <1>1, <2>1 DEF Publishing, Closing
<1>7. OutboxInv'
    BY <1>3, <1>5, <1>6 DEF OrderAll, OutboxInv
<1>8. \A x \in Blocks : mutex'[x] # b
    BY <1>1, <1>2 DEF OrderAll, HoldsHead
<1>9. \A x, c \in Blocks : c # b => (mutex'[x] = c <=> mutex[x] = c)
    BY <1>1, <1>2, NobodyAssumption
<1>10. HoldsHead'
    BY <1>3, <1>8, <1>9 DEF OrderAll, HoldsHead
<1>11. \A c \in Blocks : \A k \in 1 .. Len(Subscribers[c]) : Owed(c, k)' <=> Owed(c, k)
  <2> SUFFICES ASSUME NEW c \in Blocks, NEW k \in 1 .. Len(Subscribers[c]) PROVE Owed(c, k)' <=> Owed(c, k)
      OBVIOUS
  <2>1. CASE c # b
      BY <1>5, <1>9, <2>1, SubscriberIs DEF Owed
  <2>2. CASE c = b
    <3>1. /\ Sent(b) + 1 \in 1 .. Len(S) /\ x0 = S[Sent(b) + 1][1]
          /\ (Publishing(b) /\ ~Closing(b)) \/ (Closing(b) /\ ~Publishing(b))
        BY <1>1, FirstInOutbox DEF OrderAll
    <3>2. CASE Publishing(b)
      <4>1. Owed(b, k) <=> k > Sent(b) + 1
          BY <1>1, <1>4, <2>2, <3>1, <3>2, SubscriberIs DEF Owed
      <4>2. Owed(b, k)' <=> k > Sent(b) + 1
          BY <1>4, <1>6, <1>8, <2>2, <3>2, SubscriberIs DEF Owed
      <4> QED
          BY <2>2, <4>1, <4>2
    <3>3. CASE ~Publishing(b)
      <4>1. CASE outbox'[b] = << >>
        <5>1. Len(outbox'[b]) = 0
            BY <4>1
        <5>2. Sent(b)' = Len(S)
          <6>1. Sent(b)' = Len(S) - Len(outbox'[b])
              BY DEF Sent
          <6>2. Len(S) - 0 = Len(S)
              BY <1>3
          <6> QED
              BY <5>1, <6>1, <6>2
        <5>3. ~(k > Sent(b)')
            BY <1>3, <2>2, <5>2
        <5> QED
            BY <2>2, <3>3, <5>3 DEF Owed
      <4>2. CASE outbox'[b] # << >>
        <5>1. 2 \in 1 .. Len(outbox[b]) /\ outbox[b][2] = <<S[Sent(b) + 2][1], System, Done>>
            <6>1. outbox'[b] \in Seq(Blocks \X PortNames \X Message)
                BY <1>1, HeadOfOutbox, <1>2
            <6>2. 2 \in 1 .. Len(outbox[b])
                BY <1>3, <4>2, <6>1
            <6> QED
                BY <3>1, <3>3, <6>2 DEF Closing
        <5>2. outbox'[b][1] = <<S[Sent(b) + 2][1], System, Done>> /\ 1 \in 1 .. Len(outbox'[b])
            BY <1>3, <5>1
        <5>3. Sent(b) + 2 \in 1 .. Len(S) /\ S[Sent(b) + 2][2] # System
          <6>1. \A n, m \in Nat : 2 <= m /\ m <= n => n - m + 2 \in 1 .. n
              OBVIOUS
          <6>2. Len(outbox[b]) >= 2 /\ Len(outbox[b]) \in Nat
              BY <1>3, <5>1
          <6>3. Sent(b) + 2 \in 1 .. Len(S)
              BY <1>3, <6>1, <6>2 DEF Sent
          <6> QED
              BY <6>3, SubscriberIs, SystemIsNoPort
        <5>4. ~Publishing(b)'
            BY <1>1, <1>4, <5>2, <5>3 DEF Publishing
        <5> QED
            BY <2>2, <3>3, <5>4 DEF Owed
      <4> QED
          BY <4>1, <4>2
    <3> QED
        BY <3>2, <3>3
  <2> QED
      BY <2>1, <2>2
<1>12. OrderInv'
    BY <1>1, <1>11 DEF OrderAll, OrderInv, Got, Received
<1> QED
    BY <1>7, <1>10, <1>12 DEF OrderAll


LEMMA OrderPost ==
    ASSUME TypeInv, OrderAll, NEW b \in Blocks, Post(b)
    PROVE  OrderAll'
<1> DEFINE to == Head(outbox[b])
           x0 == to[1]
           p0 == to[2]
           m0 == to[3]
           S  == Subscribers[b]
           k0 == Sent(b) + 1
<1>1. /\ outbox[b] # << >> /\ mutex[x0] = Nobody /\ mutex' = [mutex EXCEPT ![x0] = b]
      /\ queue' = [queue EXCEPT ![x0][p0] = Append(queue[x0][p0], m0)]
      /\ UNCHANGED <<outbox, published, handled>>
    BY DEF Post, threads
<1>2. /\ mutex \in [Blocks -> Blocks \cup {Nobody}] /\ x0 \in Blocks /\ b # Nobody /\ p0 \in PortNames
      /\ (p0 = System => m0 = Done) /\ (p0 # System => p0 \in Ports /\ m0 \in Published)
    BY <1>1, HeadOfOutbox, NobodyAssumption DEF TypeInv, TypeOK
<1>3. /\ k0 \in 1 .. Len(S) /\ x0 = S[k0][1]
      /\ \/ Publishing(b) /\ p0 = S[k0][2] /\ m0 = <<b, published[b]>> /\ published[b] >= 1
         \/ ~Publishing(b) /\ p0 = System
    BY <1>1, FirstInOutbox DEF OrderAll
<1>4. /\ \A c \in Blocks : Sent(c)' = Sent(c) /\ Publishing(c)' = Publishing(c) /\ Closing(c)' = Closing(c)
      /\ OutboxInv'
    BY <1>1 DEF OrderAll, OutboxInv, Sent, Publishing, Closing
<1>5. \A x, c \in Blocks : mutex'[x] = c <=> (mutex[x] = c \/ (x = x0 /\ c = b))
    BY <1>1, <1>2, NobodyAssumption
<1>6. HoldsHead'
    BY <1>1, <1>5 DEF OrderAll, HoldsHead
<1>7. ASSUME NEW x \in Blocks, NEW p \in Ports
      PROVE  /\ Received(x, p) \in Seq(Published)
             /\ Received(x, p)' = IF x = x0 /\ p = p0 THEN Append(Received(x, p), m0) ELSE Received(x, p)
  <2>1. /\ handled[x][p] \in Seq(Published) /\ queue[x][p] \in Seq(Published)
      BY DEF TypeInv, TypeOK
  <2>2. Received(x, p) \in Seq(Published)
      BY <2>1 DEF Received
  <2>3. queue \in [Blocks -> [PortNames -> Seq(Message)]] /\ p \in PortNames
      BY SystemIsNoPort DEF TypeInv, Shape
  <2>4. CASE x = x0 /\ p = p0
    <3>1. queue'[x][p] = Append(queue[x][p], m0) /\ m0 \in Published
        BY <1>1, <1>2, <2>3, <2>4, SystemIsNoPort
    <3>2. handled[x][p] \o Append(queue[x][p], m0) = Append(handled[x][p] \o queue[x][p], m0)
      <4> DEFINE h == handled[x][p]
                 q == queue[x][p]
                 m == m0
      <4>1. h \in Seq(Published) /\ q \in Seq(Published) /\ m \in Published
          BY <2>1, <3>1
      <4> HIDE DEF h, q, m
      <4>2. h \o Append(q, m) = Append(h \o q, m)
          BY <4>1, AppendLast
      <4> QED
          BY <4>2 DEF h, q, m
    <3>3. Received(x, p)' = handled[x][p] \o queue'[x][p]
        BY <1>1 DEF Received
    <3>4. Received(x, p)' = Append(Received(x, p), m0)
        BY <3>1, <3>2, <3>3, Zenon DEF Received
    <3> QED
        BY <2>2, <2>4, <3>4
  <2>5. CASE ~(x = x0 /\ p = p0)
    <3>1. queue'[x][p] = queue[x][p]
        BY <1>1, <1>2, <2>3, <2>5
    <3>2. Received(x, p)' = Received(x, p)
        BY <1>1, <3>1 DEF Received
    <3> QED
        BY <2>2, <2>5, <3>2
  <2> QED
      BY <2>4, <2>5
<1>8. OrderInv'
  <2> SUFFICES ASSUME NEW c \in Blocks, NEW k \in 1 .. Len(Subscribers[c]),
                      HasHandler(Subscribers[c][k][1], Subscribers[c][k][2])
               PROVE  /\ Ordered(Got(c, k)', c, published[c])
                      /\ \A n \in 1 .. published[c] :
                            Has(Got(c, k)', c, n) <=> ~(n = published[c] /\ Owed(c, k)')
      BY <1>1 DEF OrderInv, Ordered, Has
  <2> DEFINE x == Subscribers[c][k][1]
             p == Subscribers[c][k][2]
             r == Got(c, k)
             N == published[c]
  <2>1. x \in Blocks /\ p \in Ports /\ p # System /\ N \in Nat
      BY SubscriberIs, SystemIsNoPort DEF TypeInv, TypeOK
  <2>2. /\ r \in Seq(Published)
        /\ Got(c, k)' = IF x = x0 /\ p = p0 THEN Append(r, m0) ELSE r
      BY <1>7, <2>1 DEF Got
  <2>3. Ordered(r, c, N) /\ \A n \in 1 .. N : Has(r, c, n) <=> ~(n = N /\ Owed(c, k))
      BY DEF OrderAll, OrderInv
  <2>4. Owed(c, k)' <=> (Owed(c, k) /\ ~(c = b /\ k = k0))
    <3>1. (k = Sent(c) + 1 /\ mutex'[x] = c) <=> ((k = Sent(c) + 1 /\ mutex[x] = c) \/ (c = b /\ k = k0))
        BY <1>3, <1>5, <2>1
    <3> QED
        BY <1>4, <3>1 DEF Owed
  <2> HIDE DEF r, N, x, p
  <2>5. CASE c = b /\ k = k0 /\ Publishing(b)
    <3>1. x = x0 /\ p = p0 /\ m0 = <<c, N>> /\ N >= 1
        BY <1>3, <2>1, <2>5 DEF x, p, N
    <3>2. Owed(c, k)
      <4>1. mutex[x] # c
          BY <1>1, <1>2, <2>5, <3>1
      <4>2. k > Sent(c)
        <5>0. Len(S) \in Nat /\ Len(outbox[b]) \in Nat
            BY SubscriberIs, OutboxLen
        <5>1. Sent(b) \in Int /\ Sent(b) + 1 > Sent(b)
          <6>1. \A n, m \in Nat : n - m \in Int /\ n - m + 1 > n - m
              OBVIOUS
          <6>2. Sent(b) = Len(S) - Len(outbox[b])
              BY DEF Sent
          <6> QED
              BY <5>0, <6>1, <6>2
        <5> QED
            BY <2>5, <5>1
      <4> QED
          BY <2>5, <4>1, <4>2 DEF Owed, x
    <3>3. ~Has(r, c, N)
        BY <2>1, <2>3, <3>1, <3>2
    <3>4. LET s == Append(r, <<c, N>>)
          IN  Ordered(s, c, N) /\ Has(s, c, N) /\ \A m \in 1 .. N - 1 : Has(s, c, m) <=> Has(r, c, m)
        BY <2>1, <2>2, <2>3, <3>1, <3>3, AppendOwn
    <3> DEFINE s == Append(r, <<c, N>>)
    <3>5. Got(c, k)' = s /\ ~Owed(c, k)'
        BY <2>2, <2>4, <2>5, <3>1
    <3>6. Ordered(s, c, N) /\ Has(s, c, N) /\ \A m \in 1 .. N - 1 : Has(s, c, m) <=> Has(r, c, m)
        BY <3>4
    <3> HIDE DEF s
    <3>7. \A n \in 1 .. N : Has(s, c, n)
        BY <2>1, <2>3, <3>6
    <3> QED
        BY <3>5, <3>6, <3>7 DEF N
  <2>6. CASE ~(c = b /\ k = k0 /\ Publishing(b))
    <3>1. Owed(c, k)' <=> Owed(c, k)
        BY <2>4, <2>6 DEF Owed
    <3>2. CASE ~(x = x0 /\ p = p0)
        BY <2>2, <2>3, <3>1, <3>2 DEF N
    <3>3. CASE x = x0 /\ p = p0
      <4>1. Publishing(b) /\ p0 = S[k0][2] /\ m0 = <<b, published[b]>>
          BY <1>3, <2>1, <3>3
      <4>2. c # b
        <5>1. c = b => Subscribers[b][k] = Subscribers[b][k0]
          <6>1. Subscribers[c][k] = <<x, p>> /\ S[k0] = <<S[k0][1], S[k0][2]>>
              BY <1>3, SubscriberIs DEF x, p
          <6>2. x = S[k0][1] /\ p = S[k0][2]
              BY <1>3, <3>3, <4>1
          <6> QED
              BY <6>1, <6>2
        <5>2. c = b => k = k0
            BY <1>3, <5>1, PortsAssumption
        <5> QED
            BY <2>6, <4>1, <5>2
      <4>3. m0 \in Published /\ m0[1] # c
          BY <1>2, <2>1, <3>3, <4>1, <4>2
      <4>4. Ordered(Append(r, m0), c, N) /\ \A n \in Nat : Has(Append(r, m0), c, n) <=> Has(r, c, n)
          BY <2>1, <2>2, <2>3, <4>3, AppendOther
      <4>5. Got(c, k)' = Append(r, m0)
          BY <2>2, <3>3
      <4> QED
          BY <2>1, <2>3, <3>1, <4>4, <4>5 DEF N
    <3> QED
        BY <3>2, <3>3
  <2> QED
      BY <2>5, <2>6
<1> QED
    BY <1>4, <1>6, <1>8 DEF OrderAll


\* A message handled is one received before.
LEMMA OrderMessages ==
    ASSUME TypeInv, OrderAll, NEW b \in Blocks, Messages(b)
    PROVE  OrderAll'
<1> DEFINE p == port_order[at[b]]
           q == queue[b][p]
           taken == HasHandler(b, p) /\ q # << >>
           e == IF taken THEN Tail(q) ELSE IF Len(q) > MaxMsgs /\ ~HasHandler(b, p) THEN Tail(q) ELSE q
<1>1. /\ queue' = [queue EXCEPT ![b][p] = e]
      /\ UNCHANGED mutex /\ outbox[b] = << >>
      /\ taken => Dispatch(b, p, Head(q))
      /\ ~taken => UNCHANGED <<handled, outbox, published>>
    BY DEF Messages, At
<1>2. p \in PortNames
  <2>1. at[b] \in 1 .. Len(port_order)
      BY DEF Messages, TypeInv, TypeOK
  <2> QED
      BY <2>1 DEF TypeInv, TypeOK
<1> HIDE DEF p
<1>3. queue \in [Blocks -> [PortNames -> Seq(Message)]] /\ handled \in [Blocks -> [Ports -> Seq(Published)]]
    BY DEF TypeInv, Shape
<1>4. ASSUME NEW c \in Blocks, NEW r \in Ports, HasHandler(c, r) PROVE Received(c, r)' = Received(c, r)
  <2>0. r \in PortNames /\ r # System
      BY SystemIsNoPort
  <2>1. CASE ~taken
    <3>1. HasHandler(b, p) => e = q
        BY <2>1
    <3>2. queue'[c][r] = queue[c][r]
        BY <1>1, <1>2, <1>3, <1>4, <2>0, <3>1
    <3> QED
        BY <1>1, <2>1, <3>2 DEF Received
  <2>2. CASE taken /\ <<c, r>> # <<b, p>>
    <3>1. queue'[c][r] = queue[c][r] /\ handled'[c][r] = handled[c][r]
        BY <1>1, <1>2, <1>3, <2>0, <2>2 DEF Dispatch
    <3> QED
        BY <3>1 DEF Received
  <2>3. CASE taken /\ c = b /\ r = p
    <3>1. queue'[b][p] = Tail(q) /\ handled'[b][p] = Append(handled[b][p], Head(q))
        BY <1>1, <1>2, <1>3, <2>0, <2>3 DEF Dispatch
    <3>2. handled[b][p] \in Seq(Published) /\ q \in Seq(Published) /\ q # << >>
        BY <2>3 DEF TypeInv, TypeOK
    <3>3. Append(handled[b][p], Head(q)) \o Tail(q) = handled[b][p] \o q
        BY <3>2, TakeFirst, Zenon
    <3> QED
        BY <2>3, <3>1, <3>3 DEF Received
  <2> QED
      BY <2>1, <2>2, <2>3
<1>5. CASE UNCHANGED <<outbox, published>>
    BY <1>1, <1>4, <1>5, OrderStill
<1>6. CASE ~UNCHANGED <<outbox, published>>
  <2>1. /\ outbox' = [outbox EXCEPT ![b] = Publication(b)]
        /\ published' = [published EXCEPT ![b] = @ + 1]
      BY <1>1, <1>6 DEF Dispatch
  <2> QED
      BY <1>1, <1>4, <2>1, OrderPublish
<1> QED
    BY <1>5, <1>6

LEMMA OrderInit == Init => OrderAll
<1> SUFFICES ASSUME Init PROVE OrderAll
    OBVIOUS
<1>1. \A c \in Blocks : /\ outbox[c] = << >> /\ Len(outbox[c]) = 0
                        /\ mutex[c] = Nobody /\ published[c] = 0
    BY DEF Init
<1>2. OutboxInv
    BY <1>1, SubscriberIs DEF OutboxInv, Publishing
<1>3. HoldsHead
    BY <1>1, NobodyAssumption DEF HoldsHead
<1>4. \A b \in Blocks : \A p \in Ports : Received(b, p) = << >>
    BY SystemIsNoPort DEF Init, Received
<1>5. OrderInv
    BY <1>1, <1>4, SubscriberIs DEF OrderInv, Got, Ordered
<1> QED
    BY <1>2, <1>3, <1>5 DEF OrderAll

LEMMA OrderNext == TypeInv /\ OrderAll /\ [Next]_vars => OrderAll'
<1> SUFFICES ASSUME TypeInv, OrderAll, [Next]_vars PROVE OrderAll'
    OBVIOUS
<1>0. ASSUME UNCHANGED <<queue, handled>>
      PROVE  \A c \in Blocks : \A p \in Ports : HasHandler(c, p) => Received(c, p)' = Received(c, p)
    BY <1>0 DEF Received
<1>1. ASSUME UNCHANGED <<queue, handled, mutex, outbox, published>> PROVE OrderAll'
    BY <1>0, <1>1, OrderStill
<1>2. CASE UNCHANGED vars
    BY <1>1, <1>2 DEF vars, threads
<1>3. ASSUME NEW b \in Blocks, Post(b) PROVE OrderAll'
    BY <1>3, OrderPost
<1>4. ASSUME NEW b \in Blocks, Wake(b) PROVE OrderAll'
    BY <1>4, OrderWake
<1>5. ASSUME NEW b \in Blocks, Top(b) PROVE OrderAll'
    BY <1>1, <1>5 DEF Top
<1>6. ASSUME NEW b \in Blocks, Messages(b) PROVE OrderAll'
    BY <1>6, OrderMessages
<1>7. ASSUME NEW b \in Blocks, Iterate(b) PROVE OrderAll'
  <2>1. PICK s \in Results(b) :
          /\ published' = [published EXCEPT ![b] = IF s = "READY" THEN @ + 1 ELSE @]
          /\ outbox' = [outbox EXCEPT ![b] = CASE s = "READY" -> Publication(b)
                                               [] Adjusted(b, s) = "DONE" -> DoneNotices(b)
                                               [] OTHER -> << >>]
      BY <1>7 DEF Iterate
  <2>2. outbox[b] = << >> /\ UNCHANGED <<queue, handled, mutex>>
      BY <1>7 DEF Iterate, At
  <2>3. CASE s = "READY"
    <3>1. /\ outbox' = [outbox EXCEPT ![b] = Publication(b)]
          /\ published' = [published EXCEPT ![b] = @ + 1]
        BY <2>1, <2>3 DEF Adjusted
    <3> QED
        BY <1>0, <2>2, <3>1, OrderPublish
  <2>4. CASE s # "READY"
    <3> DEFINE o == CASE s = "READY" -> Publication(b)
                      [] Adjusted(b, s) = "DONE" -> DoneNotices(b)
                      [] OTHER -> << >>
    <3>1. o \in {<< >>, DoneNotices(b)} /\ outbox' = [outbox EXCEPT ![b] = o]
        BY <2>1, <2>4
    <3>2. published' = published
        BY <2>1, <2>4 DEF TypeInv, TypeOK
    <3> HIDE DEF o
    <3> QED
        BY <1>0, <2>2, <3>1, <3>2, OrderNotice
  <2> QED
      BY <2>3, <2>4
<1>8. ASSUME NEW b \in Blocks, Idle(b) PROVE OrderAll'
  <2> DEFINE o == IF finished[b] THEN DoneNotices(b) ELSE << >>
  <2>1. /\ outbox[b] = << >> /\ UNCHANGED <<queue, handled, mutex, published>>
        /\ outbox' = [outbox EXCEPT ![b] = o] /\ o \in {<< >>, DoneNotices(b)}
      BY <1>8 DEF Idle, At
  <2> HIDE DEF o
  <2> QED
      BY <1>0, <2>1, OrderNotice
<1>9. ASSUME NEW b \in Blocks, WakeIn(b) \/ WakeOut(b) \/ Timeout(b) PROVE OrderAll'
    BY <1>1, <1>9 DEF WakeIn, WakeOut, Timeout, Waking
<1>10. ASSUME NEW b \in Blocks, StreamWake(b) PROVE OrderAll'
    BY <1>1, <1>10 DEF StreamWake, threads
<1>11. ASSUME NEW b \in Blocks, Interrupted(b) PROVE OrderAll'
    BY <1>1, <1>11 DEF Interrupted
<1>12. CASE Stop
    BY <1>1, <1>12 DEF Stop, threads
<1>13. CASE Restart
    BY <1>1, <1>13 DEF Restart
<1> QED
    BY <1>2, <1>3, <1>4, <1>5, <1>6, <1>7, <1>8, <1>9, <1>10, <1>11, <1>12, <1>13 DEF Next, Step

LEMMA OrderImplies == TypeInv /\ OrderAll => InOrder
<1> SUFFICES ASSUME TypeInv, OrderAll, NEW c \in Blocks, NEW k \in 1 .. Len(Subscribers[c]),
                    HasHandler(Subscribers[c][k][1], Subscribers[c][k][2])
             PROVE  LET r == Got(c, k)
                    IN  /\ \A x \in 1 .. Len(r) : r[x][1] = c => r[x][2] \in 1 .. published[c]
                        /\ \A x \in 1 .. Len(r) : \A y \in 1 .. x - 1 :
                              r[x][1] = c /\ r[y][1] = c => r[y][2] < r[x][2]
                        /\ \A n \in 1 .. published[c] :
                              \/ \E x \in 1 .. Len(r) : r[x] = <<c, n>>
                              \/ n = published[c] /\ outbox[c] # << >>
    BY DEF InOrder, Got
<1>1. Owed(c, k) => outbox[c] # << >>
  <2>1. outbox[c] = << >> => Sent(c) = Len(Subscribers[c])
      BY SubscriberIs DEF Sent
  <2> QED
      BY <2>1, SubscriberIs DEF Owed
<1> QED
    BY <1>1 DEF OrderAll, OrderInv, Ordered, Has

(* message_port_pub and insert_tail, for any blocks and any subscriptions,   *)
(* across stops and restarts: a subscriber with a handler receives each of a *)
(* publisher's messages once, and in the order of publication.               *)
THEOREM AlwaysInOrder == Spec => []InOrder
<1>1. Init => TypeInv /\ OrderAll
    BY TypeInit, OrderInit
<1>2. TypeInv /\ OrderAll /\ [Next]_vars => (TypeInv /\ OrderAll)'
    BY TypeNext, OrderNext
<1> QED
    BY <1>1, <1>2, OrderImplies, PTL DEF Spec


-----------------------------------------------------------------------------
(* Wake-ups.  They hold where no block has an alias, under which notify_blk  *)
(* finds none.                                                               *)

NoAliases == Aliased = {}

\* A thread whose port holds a message will look at it: it is awake, or comes
\* by the port yet, or is about to be woken.
Noticed(b, p) ==
    \/ mutex[b] # Nobody
    \/ input_changed[b] /\ output_changed[b]
    \/ pc[b] \in {"top", "exit", "stopped"}
    \/ pc[b] = "messages" /\ \E k \in at[b] .. Len(port_order) : port_order[k] = p

AwakeInv ==
    \A b \in Blocks : \A p \in PortNames :
        HasHandler(b, p) /\ queue[b][p] # << >> => Noticed(b, p)

LEMMA AwakeInit == Init => AwakeInv
    BY DEF Init, AwakeInv, Noticed

\* Steps that take nothing away.
LEMMA AwakeStill ==
    ASSUME AwakeInv, UNCHANGED <<port_order, queue, mutex>>,
           \A b \in Blocks : \A p \in PortNames : Noticed(b, p) => Noticed(b, p)'
    PROVE  AwakeInv'
    BY DEF AwakeInv

LEMMA AwakeNext == NoAliases /\ TypeInv /\ OrderAll /\ AwakeInv /\ [Next]_vars => AwakeInv'
<1> SUFFICES ASSUME NoAliases, TypeInv, OrderAll, AwakeInv, [Next]_vars PROVE AwakeInv'
    OBVIOUS
<1>0. PlainOK /\ Shape /\ Len(port_order) \in Nat
    BY TypeParts DEF TypeInv, TypeOK
<1>1. ASSUME UNCHANGED <<port_order, queue, mutex, pc, at>>,
             \A b \in Blocks : input_changed[b] /\ output_changed[b] => input_changed'[b] /\ output_changed'[b]
      PROVE  AwakeInv'
    BY <1>1 DEF AwakeInv, Noticed
<1>2. CASE UNCHANGED vars
    BY <1>1, <1>2 DEF vars, threads, flags
<1>3. ASSUME NEW b \in Blocks, Post(b) PROVE AwakeInv'
  <2> DEFINE to == Head(outbox[b])
  <2>1. /\ queue' = [queue EXCEPT ![to[1]][to[2]] = Append(queue[to[1]][to[2]], to[3])]
        /\ mutex' = [mutex EXCEPT ![to[1]] = b] /\ outbox[b] # << >>
        /\ UNCHANGED <<port_order, pc, at, input_changed, output_changed>>
      BY <1>3 DEF Post, threads, flags
  <2>2. to[1] \in Blocks /\ to[2] \in PortNames /\ b # Nobody
      BY <2>1, HeadOfOutbox, NobodyAssumption
  <2> HIDE DEF to
  <2>3. mutex'[to[1]] # Nobody
      BY <1>0, <2>1, <2>2 DEF PlainOK
  <2>4. \A c \in Blocks : c # to[1] => mutex'[c] = mutex[c] /\ queue'[c] = queue[c]
      BY <1>0, <2>1, <2>2 DEF PlainOK, Shape
  <2> QED
      BY <2>1, <2>3, <2>4 DEF AwakeInv, Noticed
<1>4. ASSUME NEW b \in Blocks, Wake(b) PROVE AwakeInv'
  <2> DEFINE x0 == Head(outbox[b])[1]
  <2>1. /\ mutex' = [mutex EXCEPT ![x0] = Nobody] /\ Notify(x0) /\ x0 \in Blocks
        /\ UNCHANGED <<port_order, queue, pc, at>>
      BY <1>4, HeadOfOutbox DEF Wake
  <2> HIDE DEF x0
  <2>2. /\ input_changed' = [input_changed EXCEPT ![x0] = TRUE]
        /\ output_changed' = [output_changed EXCEPT ![x0] = TRUE]
      BY <2>1 DEF Notify, NoAliases
  <2>3. input_changed'[x0] /\ output_changed'[x0]
      BY <1>0, <2>1, <2>2 DEF PlainOK
  <2>4. \A c \in Blocks : c # x0 => /\ mutex'[c] = mutex[c] /\ input_changed'[c] = input_changed[c]
                                    /\ output_changed'[c] = output_changed[c]
      BY <1>0, <2>1, <2>2 DEF PlainOK
  <2> QED
      BY <2>1, <2>3, <2>4 DEF AwakeInv, Noticed
<1>5. ASSUME NEW b \in Blocks, Top(b) PROVE AwakeInv'
  <2>1. /\ pc'[b] = "messages" /\ at'[b] = 1 /\ UNCHANGED <<port_order, queue, mutex>>
        /\ \A c \in Blocks : c # b => /\ pc'[c] = pc[c] /\ at'[c] = at[c]
                                      /\ input_changed'[c] = input_changed[c]
                                      /\ output_changed'[c] = output_changed[c]
      BY <1>0, <1>5 DEF Top, Goto, PlainOK
  <2>2. \A p \in PortNames : Noticed(b, p)'
      BY <2>1 DEF Noticed, TypeInv, TypeOK
  <2> QED
      BY <2>1, <2>2, AwakeStill DEF Noticed
<1>6. ASSUME NEW b \in Blocks, Messages(b) PROVE AwakeInv'
  <2> DEFINE p0 == port_order[at[b]]
             q0 == queue[b][p0]
             taken == HasHandler(b, p0) /\ q0 # << >>
             e == IF taken THEN Tail(q0) ELSE IF Len(q0) > MaxMsgs /\ ~HasHandler(b, p0) THEN Tail(q0) ELSE q0
  <2>1. /\ queue' = [queue EXCEPT ![b][p0] = e] /\ UNCHANGED <<port_order, mutex, pc>>
        /\ pc[b] = "messages" /\ at[b] \in 1 .. Len(port_order)
        /\ at' = [at EXCEPT ![b] = IF taken THEN @ ELSE @ + 1]
        /\ taken => Dispatch(b, p0, Head(q0))
        /\ ~taken => UNCHANGED flags
    <3>1. queue' = [queue EXCEPT ![b][p0] = e] /\ UNCHANGED <<port_order, mutex, pc>>
        BY <1>6 DEF Messages
    <3>2. pc[b] = "messages" /\ at[b] \in 1 .. Len(port_order)
        BY <1>0, <1>6 DEF Messages, At, PlainOK
    <3>3. /\ at' = [at EXCEPT ![b] = IF taken THEN @ ELSE @ + 1]
          /\ taken => Dispatch(b, p0, Head(q0))
          /\ ~taken => UNCHANGED flags
        BY <1>6 DEF Messages, AfterMessage
    <3> QED
        BY <3>1, <3>2, <3>3
  <2>2. p0 \in PortNames
      BY <2>1 DEF TypeInv, TypeOK
  <2>3. \A c \in Blocks : /\ input_changed[c] => input_changed'[c]
                          /\ output_changed[c] => output_changed'[c]
      BY <1>0, <2>1 DEF Dispatch, Notify, flags, PlainOK
  <2>4. \A c \in Blocks : c # b => queue'[c] = queue[c] /\ at'[c] = at[c]
      BY <1>0, <2>1 DEF Shape, PlainOK
  <2> SUFFICES ASSUME NEW c \in Blocks, NEW p \in PortNames, HasHandler(c, p), queue'[c][p] # << >>
               PROVE  Noticed(c, p)'
      BY DEF AwakeInv
  <2>5. CASE c # b
      BY <2>1, <2>3, <2>4, <2>5 DEF AwakeInv, Noticed
  <2>6. CASE c = b /\ taken
    <3>1. at' = at
        BY <1>0, <2>1, <2>6 DEF PlainOK
    <3>2. CASE p = p0
        BY <1>0, <2>1, <2>6, <3>1, <3>2 DEF Noticed
    <3>3. CASE p # p0
      <4>1. queue'[b][p] = queue[b][p]
          BY <1>0, <2>1, <2>2, <3>3 DEF Shape
      <4> QED
          BY <2>1, <2>3, <2>6, <3>1, <4>1 DEF AwakeInv, Noticed
    <3> QED
        BY <3>2, <3>3
  <2>7. CASE c = b /\ ~taken
    <3>1. at'[b] = at[b] + 1
        BY <1>0, <2>1, <2>7 DEF PlainOK
    <3>2. p # p0 /\ queue[b][p] # << >>
      <4>1. HasHandler(b, p0) => e = << >>
          BY <2>7
      <4>2. queue'[b][p0] = e /\ (p # p0 => queue'[b][p] = queue[b][p])
          BY <1>0, <2>1, <2>2 DEF Shape
      <4> QED
          BY <2>7, <4>1, <4>2
    <3>3. Noticed(b, p)
        BY <2>7, <3>2 DEF AwakeInv
    <3>4. CASE \E k \in at[b] .. Len(port_order) : port_order[k] = p
      <4>1. PICK k \in at[b] .. Len(port_order) : port_order[k] = p
          BY <3>4
      <4>2. k # at[b] /\ k \in at'[b] .. Len(port_order)
          BY <1>0, <2>1, <3>1, <3>2, <4>1
      <4> QED
          BY <2>1, <2>7, <4>1, <4>2 DEF Noticed
    <3>5. CASE ~\E k \in at[b] .. Len(port_order) : port_order[k] = p
        BY <2>1, <2>3, <2>7, <3>3, <3>5 DEF Noticed
    <3> QED
        BY <3>4, <3>5
  <2> QED
      BY <2>5, <2>6, <2>7
\* The thread has come by all ports.
<1>7. ASSUME NEW b \in Blocks, at[b] > Len(port_order), pc[b] = "messages", NEW l, NEW n,
             pc' = [pc EXCEPT ![b] = l], at' = [at EXCEPT ![b] = n],
             UNCHANGED <<port_order, queue, mutex, flags>>
      PROVE  AwakeInv'
  <2>1. \A p \in PortNames : Noticed(b, p) => mutex[b] # Nobody \/ (input_changed[b] /\ output_changed[b])
      BY <1>0, <1>7 DEF Noticed, PlainOK
  <2>2. \A c \in Blocks : c # b => pc'[c] = pc[c] /\ at'[c] = at[c]
      BY <1>0, <1>7 DEF PlainOK
  <2> QED
      BY <1>7, <2>1, <2>2, AwakeStill DEF Noticed, flags
<1>8. ASSUME NEW b \in Blocks, Iterate(b) PROVE AwakeInv'
  <2>1. PICK s \in Results(b) : Follow(b, Adjusted(b, s))
      BY <1>8 DEF Iterate
  <2> QED
      BY <1>7, <1>8, <2>1 DEF Iterate, At, Follow, Goto
<1>9. ASSUME NEW b \in Blocks, Idle(b) PROVE AwakeInv'
    BY <1>7, <1>9 DEF Idle, At, Follow, Goto
<1>10. ASSUME NEW b \in Blocks, NEW l \in {"top", "stopped"}, pc' = [pc EXCEPT ![b] = l],
              UNCHANGED <<port_order, queue, mutex, at, flags>>
       PROVE  AwakeInv'
  <2>1. pc'[b] = l /\ \A c \in Blocks : c # b => pc'[c] = pc[c]
      BY <1>0, <1>10 DEF PlainOK
  <2> QED
      BY <1>10, <2>1, AwakeStill DEF Noticed, flags
<1>11. ASSUME NEW b \in Blocks, WakeIn(b) \/ WakeOut(b) \/ Timeout(b) PROVE AwakeInv'
    BY <1>10, <1>11 DEF WakeIn, WakeOut, Timeout, Waking, Goto
<1>12. ASSUME NEW b \in Blocks, StreamWake(b) PROVE AwakeInv'
    BY <1>0, <1>1, <1>12 DEF StreamWake, threads, PlainOK
<1>13. ASSUME NEW b \in Blocks, Interrupted(b) PROVE AwakeInv'
    BY <1>10, <1>13 DEF Interrupted, Goto
<1>14. CASE Stop
    BY <1>1, <1>14 DEF Stop, threads, flags
<1>15. CASE Restart
    BY <1>15 DEF Restart, AwakeInv, Noticed
<1> QED
    BY <1>2, <1>3, <1>4, <1>5, <1>6, <1>8, <1>9, <1>11, <1>12, <1>13, <1>14, <1>15 DEF Next, Step

LEMMA AwakeImplies == AwakeInv => Awakened
    BY DEF AwakeInv, Awakened, Noticed, Asleep

(* All that Delivered says, for any blocks, ports and subscriptions.         *)
THEOREM AlwaysDelivered == ASSUME NoAliases PROVE Spec => []Delivered
<1>1. Init => TypeInv /\ OrderAll /\ AwakeInv
    BY TypeInit, OrderInit, AwakeInit
<1>2. TypeInv /\ OrderAll /\ AwakeInv /\ [Next]_vars => (TypeInv /\ OrderAll /\ AwakeInv)'
    BY TypeNext, OrderNext, AwakeNext
<1>3. TypeInv /\ OrderAll /\ AwakeInv => Delivered
    BY OrderImplies, AwakeImplies DEF Delivered, TypeInv
<1> QED
    BY <1>1, <1>2, <1>3, PTL DEF Spec


-----------------------------------------------------------------------------
(* The notice of a publisher that is done, in the first run: it is the last  *)
(* that comes from it, and is heeded when all that came before is handled.   *)

Cleared(b, p) == p \in Ports /\ HasHandler(b, p) => queue[b][p] = << >>

\* All that thread c has yet to post is notices.
OnlyNotices(c) == \A x \in 1 .. Len(outbox[c]) : outbox[c][x][2] = System

\* c is the only publisher to b.
LastWord(b, c) ==
    /\ finished[b] \/ queue[b][System] # << >> => pc[c] = "exit" /\ OnlyNotices(c)
    /\ finished[b] /\ port_order[1] = System =>
          \/ pc[b] = "messages" /\ \A k \in 1 .. at[b] - 1 : Cleared(b, port_order[k])
          \/ pc[b] = "exit" /\ \A p \in Ports : Cleared(b, p)

\* A thread posts to blocks it publishes to: a message to its subscribers, or,
\* when it ends, its notices.
Outgoing(d) ==
    \A x \in 1 .. Len(outbox[d]) :
        /\ d \in Publishers(outbox[d][x][1])
        /\ outbox[d][x][2] = System => OnlyNotices(d)
        /\ runs = 1 /\ outbox[d][x][2] = System => pc[d] = "exit"

DoneInv ==
    /\ runs \in Nat \ {0}
    /\ \A i, j \in 1 .. Len(port_order) : port_order[i] = port_order[j] => i = j
    /\ \A d \in Blocks : Outgoing(d)
    /\ runs = 1 => \A b \in Blocks \ Streaming :
          /\ pc[b] = "exit" => finished[b]
          /\ \A c \in Blocks : Publishers(b) = {c} => LastWord(b, c)

LEMMA DoneInit == Init => DoneInv
<1> SUFFICES ASSUME Init PROVE DoneInv
    OBVIOUS
<1>1. runs = 1 /\ \A d \in Blocks : /\ outbox[d] = << >> /\ Len(outbox[d]) = 0 /\ pc[d] = "top"
                                    /\ finished[d] = FALSE /\ queue[d][System] = << >>
    BY SystemIsNoPort DEF Init
<1>2. \A i, j \in 1 .. Len(port_order) : port_order[i] = port_order[j] => i = j
  <2>1. /\ port_order \in [1 .. Cardinality(PortNames) -> PortNames]
        /\ \A i, j \in 1 .. Cardinality(PortNames) : i # j => port_order[i] # port_order[j]
      BY DEF Init, SetToSeqs
  <2>2. Cardinality(PortNames) \in Nat
    <3>1. IsFiniteSet(Ports \cup {System})
        BY PortsAssumption, FS_AddElement
    <3> QED
        BY <3>1, FS_CardinalityType DEF PortNames
  <2>3. Len(port_order) = Cardinality(PortNames)
      BY <2>1, <2>2
  <2> QED
      BY <2>1, <2>3
<1> QED
    BY <1>1, <1>2 DEF DoneInv, LastWord, Outgoing

\* What a block begins to post goes to blocks it publishes to.
LEMMA OutboxTargets ==
    ASSUME TypeInv, NEW b \in Blocks, NEW o \in {Publication(b), DoneNotices(b)}, NEW x \in 1 .. Len(o)
    PROVE  /\ b \in Publishers(o[x][1])
           /\ o = DoneNotices(b) => o[x][2] = System
           /\ o[x][2] = System => o = DoneNotices(b)
<1>0. Subscribers[b] \in Seq(Blocks \X Ports)
    BY PortsAssumption
<1>1. CASE o = Publication(b) /\ o # DoneNotices(b)
  <2>1. o = [k \in 1 .. Len(Subscribers[b]) |->
                <<Subscribers[b][k][1], Subscribers[b][k][2], <<b, published[b] + 1>>>>]
      BY <1>1 DEF Publication
  <2>2. x \in 1 .. Len(Subscribers[b])
      BY <1>1, PublicationType
  <2>3. o[x] = <<Subscribers[b][x][1], Subscribers[b][x][2], <<b, published[b] + 1>>>>
      BY <2>1, <2>2
  <2>4. Subscribers[b][x] \in Blocks \X Ports
      BY <1>0, <2>2
  <2>5. o[x][1] = Subscribers[b][x][1] /\ o[x][2] # System
      BY <2>3, <2>4, SystemIsNoPort
  <2> QED
      BY <1>1, <2>2, <2>4, <2>5 DEF Publishers
<1>2. CASE o = DoneNotices(b)
  <2>1. o = [k \in 1 .. Len(Subscribers[b]) |-> <<Subscribers[b][k][1], System, Done>>]
      BY <1>2 DEF DoneNotices
  <2>2. x \in 1 .. Len(Subscribers[b])
      BY <1>2, NoticesType
  <2>3. o[x] = <<Subscribers[b][x][1], System, Done>>
      BY <2>1, <2>2
  <2>4. Subscribers[b][x] \in Blocks \X Ports
      BY <1>0, <2>2
  <2> QED
      BY <1>2, <2>2, <2>3, <2>4 DEF Publishers
<1> QED
    BY <1>1, <1>2

LEMMA NoticeIsNotNews ==
    ASSUME NEW a \in Blocks, Publication(a) = DoneNotices(a)
    PROVE  Publication(a) = << >>
<1> DEFINE o == Publication(a)
<1> SUFFICES ASSUME o # << >> PROVE FALSE
    OBVIOUS
<1>1. Subscribers[a] \in Seq(Blocks \X Ports)
    BY PortsAssumption
<1>2. 1 \in 1 .. Len(Subscribers[a])
    BY <1>1 DEF Publication
<1>3. o[1] = <<Subscribers[a][1][1], System, Done>>
    BY <1>2 DEF DoneNotices
<1>4. o[1] = <<Subscribers[a][1][1], Subscribers[a][1][2], <<a, published[a] + 1>>>>
    BY <1>2 DEF Publication
<1> QED
    BY <1>1, <1>2, <1>3, <1>4, SystemIsNoPort

\* A thread begins to post.
LEMMA OutboxStarts ==
    ASSUME TypeInv, DoneInv, NEW a \in Blocks,
           NEW o \in {Publication(a), DoneNotices(a), << >>},
           outbox' = [outbox EXCEPT ![a] = o], runs' = runs,
           o = DoneNotices(a) => o = << >> \/ pc'[a] = "exit",
           \A d \in Blocks : d # a => pc'[d] = pc[d]
    PROVE  \A d \in Blocks : Outgoing(d)'
<1>0. DOMAIN outbox = Blocks
    BY TypeParts DEF TypeInv, Shape
<1> SUFFICES ASSUME NEW d \in Blocks PROVE Outgoing(d)'
    OBVIOUS
<1>1. CASE d # a
    BY <1>0, <1>1 DEF DoneInv, Outgoing, OnlyNotices
<1>2. CASE d = a /\ o = << >>
    BY <1>0, <1>2 DEF Outgoing
<1>3. CASE d = a /\ o # << >>
  <2>1. outbox'[a] = o
      BY <1>0
  <2>2. \A x \in 1 .. Len(o) : /\ a \in Publishers(o[x][1])
                               /\ o = DoneNotices(a) => o[x][2] = System
                               /\ o[x][2] = System => o = DoneNotices(a)
      BY <1>3, OutboxTargets
  <2> QED
      BY <1>3, <2>1, <2>2 DEF Outgoing, OnlyNotices, Publishers
<1> QED
    BY <1>1, <1>2, <1>3

\* A block looks at a port.
LEMMA DoneMessages ==
    ASSUME TypeInv, DoneInv, NEW a \in Blocks, Messages(a)
    PROVE  DoneInv'
<1> DEFINE p == port_order[at[a]]
           q == queue[a][p]
           taken == HasHandler(a, p) /\ q # << >>
           e == IF taken THEN Tail(q) ELSE IF Len(q) > MaxMsgs /\ ~HasHandler(a, p) THEN Tail(q) ELSE q
<1>1. /\ queue' = [queue EXCEPT ![a][p] = e]
      /\ outbox[a] = << >> /\ pc[a] = "messages" /\ at[a] \in 1 .. Len(port_order)
      /\ taken => Dispatch(a, p, Head(q)) /\ at' = at
      /\ ~taken => at' = [at EXCEPT ![a] = at[a] + 1] /\ UNCHANGED <<outbox, finished>>
      /\ UNCHANGED <<port_order, pc, runs>>
  <2>1. at \in [Blocks -> Nat] /\ at[a] \in 1 .. Len(port_order) + 1 /\ Len(port_order) \in Nat
      BY DEF TypeInv, TypeOK
  <2> QED
      BY <2>1 DEF Messages, At, AfterMessage, control
<1>2. p \in PortNames
    BY <1>1 DEF TypeInv, TypeOK
<1>3. /\ \A i, j \in 1 .. Len(port_order) : port_order[i] = port_order[j] => i = j
      /\ Len(port_order) \in Nat /\ at[a] \in Nat
    BY DEF DoneInv, TypeInv, TypeOK
<1>4. p = System /\ port_order[1] = System => at[a] = 1
    BY <1>1, <1>3
<1>5. \A k \in 1 .. at[a] - 1 : k \in 1 .. Len(port_order) /\ port_order[k] # p
    BY <1>1, <1>3
<1>6. PICK i \in 1 .. Len(port_order), r \in PortNames : i = at[a] /\ r = p /\ r = port_order[i]
    BY <1>1, <1>2
<1> HIDE DEF p
<1>7. /\ queue'[a][p] = e
      /\ \A c \in Blocks : \A s \in PortNames : <<c, s>> # <<a, p>> => queue'[c][s] = queue[c][s]
    BY <1>1, <1>2 DEF TypeInv, Shape
<1>8. \A d \in Blocks : Outgoing(d)'
  <2>1. CASE outbox' = outbox
      BY <1>1, <2>1 DEF DoneInv, Outgoing, OnlyNotices
  <2>2. CASE outbox' = [outbox EXCEPT ![a] = Publication(a)]
      BY <1>1, <2>2, NoticeIsNotNews, OutboxStarts
  <2> QED
      BY <1>1, <2>1, <2>2 DEF Dispatch
<1>9. \A c \in Blocks : pc[c] = "exit" /\ OnlyNotices(c) => OnlyNotices(c)'
  <2>1. \A c \in Blocks : c # a => outbox'[c] = outbox[c]
      BY <1>1 DEF Dispatch, TypeInv, Shape
  <2> QED
      BY <1>1, <2>1 DEF OnlyNotices
<1>10. \A b \in Blocks : finished'[b] = IF taken /\ p = System /\ b = a THEN TRUE ELSE finished[b]
    BY <1>1 DEF Dispatch, TypeInv, TypeOK
<1>11. \A b \in Blocks : at'[b] = IF ~taken /\ b = a THEN at[b] + 1 ELSE at[b]
    BY <1>1 DEF TypeInv
<1> SUFFICES ASSUME runs = 1, NEW b \in Blocks \ Streaming, NEW c \in Blocks, Publishers(b) = {c}
             PROVE  LastWord(b, c)'
    BY <1>1, <1>8, <1>10 DEF DoneInv
<1>12. LastWord(b, c)
    BY DEF DoneInv
<1>13. CASE b # a
  <2>1. \A s \in PortNames : queue'[b][s] = queue[b][s]
      BY <1>7, <1>13
  <2>2. finished'[b] = finished[b] /\ at'[b] = at[b]
      BY <1>10, <1>11, <1>13
  <2>3. \A s : Cleared(b, s) => Cleared(b, s)'
      BY <2>1, SystemIsNoPort DEF Cleared
  <2> QED
      BY <1>1, <1>9, <1>12, <2>1, <2>2, <2>3, SystemIsNoPort DEF LastWord
<1>14. CASE b = a /\ taken /\ p = System
    BY <1>1, <1>4, <1>9, <1>10, <1>11, <1>12, <1>14 DEF LastWord
<1>15. CASE b = a /\ taken /\ p # System
  <2>1. queue'[a][System] = queue[a][System] /\ finished'[a] = finished[a] /\ at'[a] = at[a]
      BY <1>7, <1>10, <1>11, <1>15, SystemIsNoPort
  <2>2. \A k \in 1 .. at[a] - 1 : Cleared(a, port_order[k]) => Cleared(a, port_order[k])'
      BY <1>1, <1>5, <1>7, SystemIsNoPort DEF Cleared
  <2> QED
      BY <1>1, <1>9, <1>12, <1>15, <2>1, <2>2 DEF LastWord
<1>16. CASE b = a /\ ~taken
  <2>1. finished'[a] = finished[a] /\ at'[a] = at[a] + 1
      BY <1>10, <1>11, <1>16
  <2>2. queue'[a][System] = queue[a][System]
      BY <1>7, <1>16, SystemIsNoPort DEF HasHandler
  <2>3. \A k \in 1 .. at[a] - 1 : Cleared(a, port_order[k]) => Cleared(a, port_order[k])'
      BY <1>1, <1>5, <1>7, SystemIsNoPort DEF Cleared
  <2>4. Cleared(a, port_order[i])'
      BY <1>1, <1>6, <1>7, <1>16 DEF Cleared
  <2>5. \A k \in 1 .. at'[a] - 1 : k \in 1 .. at[a] - 1 \/ k = i
      BY <1>3, <1>6, <2>1
  <2>6. pc'[a] = "messages" /\ pc[a] = "messages" /\ port_order' = port_order
      BY <1>1
  <2>7. finished[a] /\ port_order[1] = System => \A k \in 1 .. at'[a] - 1 : Cleared(a, port_order[k])'
      BY <1>12, <1>16, <2>3, <2>4, <2>5, <2>6 DEF LastWord
  <2>8. finished[a] \/ queue[a][System] # << >> => pc'[c] = "exit" /\ OnlyNotices(c)'
      BY <1>1, <1>9, <1>12, <1>16 DEF LastWord
  <2> QED
      BY <1>16, <2>1, <2>2, <2>6, <2>7, <2>8 DEF LastWord
<1> QED
    BY <1>13, <1>14, <1>15, <1>16

\* A block that has come by all its ports goes on, or ends.
LEMMA DoneEnds ==
    ASSUME TypeInv, DoneInv, NEW a \in Blocks, At(a, "messages"), at[a] > Len(port_order),
           NEW l \in {"top", "wait_in", "wait_out", "exit"}, pc' = [pc EXCEPT ![a] = l],
           NEW o \in {Publication(a), DoneNotices(a), << >>}, outbox' = [outbox EXCEPT ![a] = o],
           o = DoneNotices(a) => o = << >> \/ l = "exit",
           a \notin Streaming => (l = "exit" <=> finished[a]),
           \A b \in Blocks : b # a => at'[b] = at[b],
           UNCHANGED <<port_order, queue, finished, runs>>
    PROVE  DoneInv'
<1>1. pc'[a] = l /\ pc[a] = "messages" /\ \A b \in Blocks : b # a => pc'[b] = pc[b]
    BY DEF At, TypeInv, TypeOK
<1>2. \A d \in Blocks : Outgoing(d)'
    BY <1>1, OutboxStarts
<1>3. \A c \in Blocks : pc[c] = "exit" /\ OnlyNotices(c) => pc'[c] = "exit" /\ OnlyNotices(c)'
  <2>1. \A c \in Blocks : c # a => outbox'[c] = outbox[c]
      BY DEF TypeInv, Shape
  <2> QED
      BY <1>1, <2>1 DEF OnlyNotices
<1> SUFFICES ASSUME runs = 1, NEW b \in Blocks \ Streaming, NEW c \in Blocks, Publishers(b) = {c}
             PROVE  LastWord(b, c)'
    BY <1>1, <1>2 DEF DoneInv
<1>4. LastWord(b, c)
    BY DEF DoneInv
<1>5. CASE b # a
    BY <1>1, <1>3, <1>4, <1>5 DEF LastWord, Cleared
<1>6. CASE b = a
  <2>1. finished[a] /\ port_order[1] = System => \A p \in Ports : Cleared(a, p)
    <3> SUFFICES ASSUME finished[a], port_order[1] = System, NEW p \in Ports PROVE Cleared(a, p)
        OBVIOUS
    <3>1. \A k \in 1 .. at[a] - 1 : Cleared(a, port_order[k])
        BY <1>1, <1>4, <1>6 DEF LastWord
    <3>2. PICK k \in 1 .. Len(port_order) : port_order[k] = p
        BY SystemIsNoPort DEF TypeInv, TypeOK
    <3>3. k \in 1 .. at[a] - 1
        BY <3>2 DEF TypeInv, TypeOK
    <3> QED
        BY <3>1, <3>2, <3>3
  <2> QED
      BY <1>1, <1>3, <1>4, <1>6, <2>1 DEF LastWord, Cleared
<1> QED
    BY <1>5, <1>6

LEMMA DoneNext == TypeInv /\ DoneInv /\ [Next]_vars => DoneInv'
<1> SUFFICES ASSUME TypeInv, DoneInv, [Next]_vars PROVE DoneInv'
    OBVIOUS
<1>0. PlainOK /\ Shape /\ Len(port_order) \in Nat
    BY TypeParts DEF TypeInv, TypeOK
\* Steps that leave outboxes and queues alone, and do not lead to "exit".
<1>1. ASSUME UNCHANGED <<port_order, queue, outbox, finished, runs>>,
             \A b \in Blocks : pc[b] \in {"messages", "exit"} => pc'[b] = pc[b] /\ at'[b] = at[b],
             \A b \in Blocks : pc'[b] = "exit" => pc[b] = "exit"
      PROVE  DoneInv'
    BY <1>1 DEF DoneInv, LastWord, OnlyNotices, Cleared, Outgoing
<1>2. CASE UNCHANGED vars
    BY <1>1, <1>2 DEF vars, threads, control
<1>3. ASSUME NEW a \in Blocks, Post(a) PROVE DoneInv'
  <2> DEFINE to == Head(outbox[a])
  <2>1. /\ queue' = [queue EXCEPT ![to[1]][to[2]] = Append(queue[to[1]][to[2]], to[3])]
        /\ outbox[a] # << >>
        /\ UNCHANGED <<port_order, outbox, pc, at, finished, runs>>
      BY <1>3 DEF Post, threads, control
  <2>2. to[1] \in Blocks /\ to[2] \in PortNames /\ a \in Publishers(to[1])
        /\ to = outbox[a][1] /\ 1 \in 1 .. Len(outbox[a])
      BY <2>1, HeadOfOutbox DEF DoneInv, Outgoing
  <2>3. to[2] = System => OnlyNotices(a) /\ (runs = 1 => pc[a] = "exit")
      BY <2>2 DEF DoneInv, Outgoing
  <2> SUFFICES ASSUME runs = 1, NEW b \in Blocks \ Streaming, NEW c \in Blocks, Publishers(b) = {c}
               PROVE  LastWord(b, c)'
      BY <2>1 DEF DoneInv, Outgoing, OnlyNotices
  <2>4. LastWord(b, c) /\ b \in Blocks
      BY DEF DoneInv
  <2>5. CASE to[1] # b
    <3>1. queue'[b] = queue[b]
        BY <1>0, <2>1, <2>2, <2>5 DEF Shape
    <3> QED
        BY <2>1, <2>4, <3>1 DEF LastWord, OnlyNotices, Cleared
  <2>6. CASE to[1] = b /\ to[2] = System
    <3>1. a = c
        BY <2>2, <2>6
    <3>2. \A p \in Ports : queue'[b][p] = queue[b][p]
        BY <1>0, <2>1, <2>2, <2>4, <2>6, SystemIsNoPort DEF Shape
    <3>3. pc'[c] = "exit" /\ OnlyNotices(c)'
        BY <2>1, <2>3, <2>6, <3>1 DEF OnlyNotices
    <3> QED
        BY <2>1, <2>4, <3>2, <3>3 DEF LastWord, Cleared
  <2>7. CASE to[1] = b /\ to[2] # System
    <3>1. a = c /\ ~OnlyNotices(c)
        BY <2>2, <2>7 DEF OnlyNotices
    <3>2. ~finished[b] /\ queue[b][System] = << >>
        BY <2>4, <3>1 DEF LastWord
    <3>3. queue'[b][System] = << >>
        BY <1>0, <2>1, <2>2, <2>4, <2>7, <3>2, SystemIsNoPort DEF Shape
    <3> QED
        BY <2>1, <3>2, <3>3 DEF LastWord
  <2> QED
      BY <2>5, <2>6, <2>7
<1>4. ASSUME NEW a \in Blocks, Wake(a) PROVE DoneInv'
  <2>1. /\ outbox' = [outbox EXCEPT ![a] = Tail(outbox[a])]
        /\ outbox[a] # << >>
        /\ UNCHANGED <<port_order, queue, pc, at, finished, runs>>
      BY <1>4 DEF Wake, control
  <2>2. /\ outbox[a] \in Seq(Blocks \X PortNames \X Message)
        /\ outbox'[a] = Tail(outbox[a]) /\ \A d \in Blocks : d # a => outbox'[d] = outbox[d]
      BY <1>0, <2>1 DEF Shape
  <2>3. \A x \in 1 .. Len(outbox'[a]) : x + 1 \in 1 .. Len(outbox[a]) /\ outbox'[a][x] = outbox[a][x + 1]
    <3>1. \A s \in Seq(Blocks \X PortNames \X Message) : s # << >> =>
              \A x \in 1 .. Len(Tail(s)) : x + 1 \in 1 .. Len(s) /\ Tail(s)[x] = s[x + 1]
        OBVIOUS
    <3> QED
        BY <2>1, <2>2, <3>1, Zenon
  <2>4. \A d \in Blocks : OnlyNotices(d) => OnlyNotices(d)'
    <3> SUFFICES ASSUME NEW d \in Blocks, OnlyNotices(d), NEW x \in 1 .. Len(outbox'[d])
                 PROVE  outbox'[d][x][2] = System
        BY DEF OnlyNotices
    <3>1. CASE d = a
        BY <2>3, <3>1 DEF OnlyNotices
    <3>2. CASE d # a
        BY <2>2, <3>2 DEF OnlyNotices
    <3> QED
        BY <3>1, <3>2
  <2>5. \A d \in Blocks : Outgoing(d)'
    <3> SUFFICES ASSUME NEW d \in Blocks PROVE Outgoing(d)'
        OBVIOUS
    <3>1. Outgoing(d)
        BY DEF DoneInv
    <3> QED
        BY <2>1, <2>2, <2>3, <2>4, <3>1 DEF Outgoing, Publishers
  <2> QED
      BY <2>1, <2>4, <2>5 DEF DoneInv, LastWord, Cleared
<1>5. ASSUME NEW a \in Blocks, Top(a) PROVE DoneInv'
  <2>1. /\ UNCHANGED <<port_order, queue, outbox, finished, runs>>
        /\ pc[a] = "top" /\ pc'[a] = "messages"
        /\ \A b \in Blocks : b # a => pc'[b] = pc[b] /\ at'[b] = at[b]
      BY <1>0, <1>5 DEF Top, At, Goto, control, PlainOK
  <2> QED
      BY <1>1, <2>1
<1>6. ASSUME NEW a \in Blocks, NEW l \in {"top", "stopped"}, pc' = [pc EXCEPT ![a] = l],
             pc[a] \notin {"messages", "exit"},
             UNCHANGED <<port_order, queue, outbox, at, finished, runs>>
      PROVE  DoneInv'
  <2>1. pc'[a] = l /\ \A b \in Blocks : b # a => pc'[b] = pc[b]
      BY <1>0, <1>6 DEF PlainOK
  <2> QED
      BY <1>1, <1>6, <2>1
<1>7. ASSUME NEW a \in Blocks, WakeIn(a) \/ WakeOut(a) \/ Timeout(a) PROVE DoneInv'
    BY <1>6, <1>7 DEF WakeIn, WakeOut, Timeout, Waking, Goto, control
<1>8. ASSUME NEW a \in Blocks, Interrupted(a) PROVE DoneInv'
    BY <1>6, <1>8 DEF Interrupted, Goto, control, At, Asleep
<1>9. ASSUME NEW a \in Blocks, StreamWake(a) PROVE DoneInv'
    BY <1>1, <1>9 DEF StreamWake, threads, control
<1>10. CASE Stop
    BY <1>1, <1>10 DEF Stop, threads
<1>11. CASE Restart
  <2>1. UNCHANGED <<port_order, outbox>> /\ runs' = runs + 1 /\ runs \in Nat \ {0}
      BY <1>11 DEF Restart, DoneInv
  <2>2. runs' # 1 /\ runs' \in Nat \ {0}
      BY <2>1
  <2> QED
      BY <2>1, <2>2 DEF DoneInv, Outgoing, OnlyNotices
<1>12. ASSUME NEW a \in Blocks, Messages(a) PROVE DoneInv'
    BY <1>12, DoneMessages
<1>13. ASSUME NEW a \in Blocks, Iterate(a) PROVE DoneInv'
  <2>1. PICK s \in Results(a) :
            /\ Follow(a, Adjusted(a, s))
            /\ outbox' = [outbox EXCEPT ![a] = CASE s = "READY" -> Publication(a)
                                                 [] Adjusted(a, s) = "DONE" -> DoneNotices(a)
                                                 [] OTHER -> << >>]
      BY <1>13 DEF Iterate
  <2> DEFINE l == CASE Adjusted(a, s) = "DONE" -> "exit" [] Adjusted(a, s) = "BLKD_IN" -> "wait_in"
                    [] Adjusted(a, s) = "BLKD_OUT" -> "wait_out" [] OTHER -> "top"
             o == CASE s = "READY" -> Publication(a) [] Adjusted(a, s) = "DONE" -> DoneNotices(a)
                    [] OTHER -> << >>
  <2>2. pc' = [pc EXCEPT ![a] = l] /\ outbox' = [outbox EXCEPT ![a] = o]
      BY <2>1 DEF Follow, Goto
  <2>3. l \in {"top", "wait_in", "wait_out", "exit"} /\ o \in {Publication(a), DoneNotices(a), << >>}
      OBVIOUS
  <2>4. o = DoneNotices(a) => o = << >> \/ l = "exit"
      BY NoticeIsNotNews
  <2>5. /\ At(a, "messages") /\ at[a] > Len(port_order) /\ a \in Streaming
        /\ at' = [at EXCEPT ![a] = 1]
        /\ UNCHANGED <<port_order, queue, finished, runs>>
      BY <1>13, <2>1 DEF Iterate, Follow, control
  <2> HIDE DEF l, o
  <2> QED
      BY <1>0, <2>2, <2>3, <2>4, <2>5, DoneEnds DEF PlainOK
<1>14. ASSUME NEW a \in Blocks, Idle(a) PROVE DoneInv'
  <2> DEFINE l == IF finished[a] THEN "exit" ELSE "wait_in"
             o == IF finished[a] THEN DoneNotices(a) ELSE << >>
  <2>1. /\ pc' = [pc EXCEPT ![a] = l] /\ outbox' = [outbox EXCEPT ![a] = o]
        /\ At(a, "messages") /\ at[a] > Len(port_order)
        /\ at' = [at EXCEPT ![a] = 1]
        /\ UNCHANGED <<port_order, queue, finished, runs>>
      BY <1>14 DEF Idle, Follow, Goto, control
  <2>2. /\ l \in {"top", "wait_in", "wait_out", "exit"} /\ o \in {Publication(a), DoneNotices(a), << >>}
        /\ o = DoneNotices(a) => o = << >> \/ l = "exit"
        /\ l = "exit" <=> finished[a]
      OBVIOUS
  <2> HIDE DEF l, o
  <2> QED
      BY <1>0, <2>1, <2>2, DoneEnds DEF PlainOK
<1> QED
    BY <1>2, <1>3, <1>4, <1>5, <1>7, <1>8, <1>9, <1>10, <1>11, <1>12, <1>13, <1>14 DEF Next, Step

LEMMA DoneImplies == TypeInv /\ DoneInv => DoneComesLast
<1> SUFFICES ASSUME TypeInv, DoneInv, NEW b \in Blocks \ Streaming,
                    At(b, "exit"), runs = 1, port_order[1] = System,
                    NEW c \in Blocks, Publishers(b) = {c},
                    NEW p \in Ports, HasHandler(b, p)
             PROVE  queue[b][p] = << >>
    BY DEF DoneComesLast
<1>1. LastWord(b, c) /\ finished[b] /\ pc[b] = "exit"
    BY DEF DoneInv, At
<1> QED
    BY <1>1 DEF LastWord, Cleared

(* A message-only block with one publisher ends its first run with its       *)
(* messages handled, if "system" comes first in its port map.                *)
THEOREM NoticeComesLast == Spec => []DoneComesLast
<1>1. Init => TypeInv /\ DoneInv
    BY TypeInit, DoneInit
<1>2. TypeInv /\ DoneInv /\ [Next]_vars => (TypeInv /\ DoneInv)'
    BY TypeNext, DoneNext
<1>3. TypeInv /\ DoneInv => DoneComesLast
    BY DoneImplies
<1> QED
    BY <1>1, <1>2, <1>3, PTL DEF Spec

=============================================================================
