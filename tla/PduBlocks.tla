------------------------------ MODULE PduBlocks ------------------------------
(***************************************************************************)
(* pdu_to_tagged_stream and tagged_stream_to_pdu: messages of metadata and  *)
(* a vector of bytes become packets of a stream, with a length tag and a    *)
(* tag for each entry of the metadata, and packets become messages again.   *)
(* Both are tagged_stream_blocks; the buffer between them keeps its tags.   *)
(***************************************************************************)
EXTENDS Integers, Sequences, FiniteSets, SequencesExt

CONSTANTS
    Pdus,        \* the messages that may come: [meta, vect], meta from keys to values
    LengthTag,   \* the key of the length tags
    d_itemsize,  \* bytes of an item
    MaxPosted,   \* bound: messages posted
    MaxRoom      \* the most room one call of work is offered

ASSUME PduAssumption ==
    /\ d_itemsize \in Nat \ {0}
    /\ \A pdu \in Pdus : pdu.vect \in Seq(0 .. 255)

VARIABLES
    posted,     \* history: the messages posted
    inbox,      \* those the port still holds
    current,    \* d_curr_len, d_curr_meta, d_curr_vect
    min_noutput,
    stream,     \* the bytes of the stream's items, from the first on
    nitems_written,    \* its items: nitems_written of pdu_to_tagged_stream
    tags,       \* tags of the stream
    reqd,       \* d_n_input_items_reqd[0] of tagged_stream_to_pdu
    taken,      \* its nitems_read
    published   \* the messages it has published

dvars == <<posted, inbox, current, min_noutput, stream, nitems_written, tags, reqd, taken, published>>

DInit ==
    /\ posted = <<>> /\ inbox = <<>> /\ stream = <<>> /\ tags = {} /\ published = <<>>
    /\ current = [len |-> 0, meta |-> <<>>, vect |-> <<>>]
    /\ min_noutput = 1 /\ nitems_written = 0 /\ reqd = 0 /\ taken = 0

Post(pdu) ==
    /\ Len(posted) < MaxPosted
    /\ posted' = Append(posted, pdu) /\ inbox' = Append(inbox, pdu)
    /\ UNCHANGED <<current, min_noutput, stream, nitems_written, tags, reqd, taken, published>>

\* Mutant: the next message is taken while one waits for room.
Fetches_always(cur) == TRUE
\* A message is only taken when the last one has gone out whole.
Fetches(cur) == cur.len = 0

Takes == Fetches(current) /\ inbox # <<>>

\* The bytes of a message need not make whole items.
ItemsIn(pdu) == Len(pdu.vect) \div d_itemsize

\* calculate_output_stream_length.
Fetched ==
    IF Takes THEN [len |-> ItemsIn(inbox[1]), meta |-> inbox[1].meta, vect |-> inbox[1].vect]
    ELSE current

\* A tag and its place among those on one item: the metadata come first, in any order.
Tag(offset, n, key, value) == [offset |-> offset, n |-> n, key |-> key, value |-> value]

PacketTags(at, meta, len) ==
    {Tag(at, 0, k, meta[k]) : k \in DOMAIN meta} \cup {Tag(at, 1, LengthTag, len)}

\* pdu_to_tagged_stream's general_work, with room for n items: the packet goes
\* out in one call that has room for all of it.
ToStream(n) ==
    LET cur == Fetched
    IN  /\ n >= min_noutput /\ (Takes \/ cur.len > 0)
        /\ inbox' = IF Takes THEN Tail(inbox) ELSE inbox
        /\ IF n < cur.len
           THEN min_noutput' = cur.len /\ current' = cur /\ UNCHANGED <<stream, nitems_written, tags>>
           ELSE /\ min_noutput' = 1 /\ current' = [cur EXCEPT !.len = 0]
                /\ stream' = stream \o SubSeq(cur.vect, 1, cur.len * d_itemsize)
                /\ nitems_written' = nitems_written + cur.len
                /\ tags' = IF cur.len = 0 THEN tags ELSE tags \cup PacketTags(nitems_written, cur.meta, cur.len)
        /\ UNCHANGED <<posted, reqd, taken, published>>

Later(t, u) == u.offset < t.offset \/ (u.offset = t.offset /\ u.n <= t.n)
LastTag(ts) == CHOOSE t \in ts : \A u \in ts : Later(t, u)

\* dict_add of each tag: a later value of a key takes the earlier one's place.
DictOf(ts) == [k \in {t.key : t \in ts} |-> LastTag({t \in ts : t.key = k}).value]

\* parse_length_tags: the last length tag on the first item counts, and all that
\* stand there are removed.
IsLength(t) == t.key = LengthTag /\ t.offset = taken

\* tagged_stream_to_pdu's general_work, when `have' items have come.
ToPdu(have) ==
    LET lengths == {t \in tags : IsLength(t)}
        need == IF reqd # 0 THEN reqd ELSE LastTag(lengths).value
        left == IF reqd # 0 THEN tags ELSE tags \ lengths
        here == {t \in left : taken <= t.offset /\ t.offset < taken + need}
        vect == SubSeq(stream, taken * d_itemsize + 1, (taken + need) * d_itemsize)
    IN  /\ have >= (IF reqd # 0 THEN reqd ELSE 1)                        \* forecast
        /\ tags' = left
        /\ IF need > have THEN reqd' = need /\ UNCHANGED <<taken, published>>
           ELSE /\ reqd' = 0 /\ taken' = taken + need
                /\ published' = Append(published, [meta |-> DictOf(here), vect |-> vect])
        /\ UNCHANGED <<posted, inbox, current, min_noutput, stream, nitems_written>>

DNext ==
    \/ \E pdu \in Pdus : Post(pdu)
    \/ \E n \in 1 .. MaxRoom : ToStream(n)
    \/ \E have \in 1 .. nitems_written - taken : ToPdu(have)

DSpec == DInit /\ [][DNext]_dvars

-----------------------------------------------------------------------------
\* What can go through: whole items, at least one; the stream's own length tag
\* takes the place of an entry of that key.
Through(pdu) == [meta |-> [k \in DOMAIN pdu.meta \ {LengthTag} |-> pdu.meta[k]],
                 vect |-> SubSeq(pdu.vect, 1, ItemsIn(pdu) * d_itemsize)]
Passes(i) == ItemsIn(posted[i]) > 0
\* How many of the first messages pass.
Passing(i) == Cardinality({j \in 1 .. i : Passes(j)})

(* However the two blocks' calls cut the stream between them, the messages   *)
(* come out as they went in, in their order and each whole, with their own   *)
(* metadata and none of a neighbour's; only those without an item are        *)
(* dropped, and none is held back when the port and the stream are empty.    *)
PdusThrough ==
    /\ \A n \in DOMAIN published :
          \E i \in DOMAIN posted : Passes(i) /\ Passing(i) = n /\ published[n] = Through(posted[i])
    /\ (inbox = <<>> /\ current.len = 0 /\ taken = nitems_written) => Len(published) = Passing(Len(posted))

-----------------------------------------------------------------------------
(* socket_pdu as a TCP server.  The block's thread hands each message to the *)
(* connections one by one, as writes of at most MTU bytes that the thread of *)
(* the io_service carries out; that thread also accepts clients, drops the   *)
(* connections that are closed, reads what clients send and closes a         *)
(* connection whose read fails.  d_tcp_connections has no lock.              *)
CONSTANTS
    Peers, MTU,
    PduSizes,        \* the sizes of the messages, first to last
    MaxSaid          \* bound: the bytes each client sends

ASSUME SocketAssumption ==
    /\ MTU \in Nat \ {0} /\ PduSizes \in Seq(Nat) /\ MaxSaid \in [Peers -> Nat]

VARIABLES
    peer,       \* each client: "away", "open", "eof" (it has closed) or "closed"
    d_tcp_connections,
    handed,      \* messages handed out
    next_i,     \* the loop of tcp_server_send: the index it is at, 0 outside of it
    async_writes,     \* of each connection, the writes under way: message, first and last byte
    arrived,       \* the bytes each client has got, as <<message, byte>>
    joined,     \* history: the first message handed to the client, 0 for none yet
    said, pdus_of,  \* bytes each client has sent, and the PDUs made of them: first and last byte
    stopped,
    disturbed   \* history: clients passed over by the walk, or with two writes under way at once

pduvars == <<peer, d_tcp_connections, handed, next_i, async_writes, arrived, joined, said, pdus_of, stopped, disturbed>>

SpInit ==
    /\ peer = [c \in Peers |-> "away"] /\ d_tcp_connections = <<>>
    /\ handed = 0 /\ next_i = 0
    /\ async_writes = [c \in Peers |-> <<>>] /\ arrived = [c \in Peers |-> <<>>] /\ joined = [c \in Peers |-> 0]
    /\ said = [c \in Peers |-> 0] /\ pdus_of = [c \in Peers |-> <<>>] /\ stopped = FALSE /\ disturbed = {}

-----------------------------------------------------------------------------
(* The clients.                                                              *)
Say(c) ==
    /\ peer[c] = "open" /\ said[c] < MaxSaid[c]
    /\ said' = [said EXCEPT ![c] = @ + 1]
    /\ UNCHANGED <<peer, d_tcp_connections, handed, next_i, async_writes, arrived, joined, pdus_of, stopped, disturbed>>

\* A client that leaves has said what it came to say; one with nothing to say stays.
Leave(c) ==
    /\ peer[c] = "open" /\ said[c] = MaxSaid[c] /\ said[c] > 0 /\ peer' = [peer EXCEPT ![c] = "eof"]
    /\ UNCHANGED <<d_tcp_connections, handed, next_i, async_writes, arrived, joined, said, pdus_of, stopped, disturbed>>

-----------------------------------------------------------------------------
(* The block's thread.                                                       *)
tcp_server_send ==
    /\ next_i = 0 /\ handed < Len(PduSizes)
    /\ handed' = handed + 1 /\ next_i' = 1
    /\ UNCHANGED <<peer, d_tcp_connections, async_writes, arrived, joined, said, pdus_of, stopped, disturbed>>

\* Mutant: the rest that does not fill a write is not written.
Chunks_whole(len) == [k \in 1 .. len \div MTU |-> <<(k - 1) * MTU + 1, k * MTU>>]
Chunks(len) ==
    [k \in 1 .. (len + MTU - 1) \div MTU |-> <<(k - 1) * MTU + 1, IF k * MTU < len THEN k * MTU ELSE len>>]

\* A write to a closed connection fails, and its handler does nothing.
send ==
    /\ next_i \in 1 .. Len(d_tcp_connections)
    /\ LET c == d_tcp_connections[next_i]
           new == Chunks(PduSizes[handed]) IN
       /\ async_writes' = IF peer[c] = "closed" THEN async_writes
                    ELSE [async_writes EXCEPT ![c] = @ \o [k \in DOMAIN new |-> <<handed, new[k][1], new[k][2]>>]]
       /\ joined' = [joined EXCEPT ![c] = IF @ = 0 THEN handed ELSE @]
    /\ next_i' = next_i + 1
    /\ UNCHANGED <<peer, d_tcp_connections, handed, arrived, said, pdus_of, stopped, disturbed>>

SendEnds ==
    /\ next_i > Len(d_tcp_connections) /\ next_i' = 0
    /\ UNCHANGED <<peer, d_tcp_connections, handed, async_writes, arrived, joined, said, pdus_of, stopped, disturbed>>

-----------------------------------------------------------------------------
(* The thread of the io_service.  Each async_write is on its own: what       *)
(* remains of one of which the socket took a part waits behind the others.   *)
CarryOut(c) ==
    /\ ~stopped /\ async_writes[c] # <<>> /\ peer[c] = "open"
    /\ LET w == async_writes[c][1] IN
       \E to \in w[2] .. w[3] :
           /\ arrived' = [arrived EXCEPT ![c] = @ \o [j \in 1 .. to - w[2] + 1 |-> <<w[1], w[2] + j - 1>>]]
           /\ async_writes' = [async_writes EXCEPT ![c] =
                  IF to = w[3] THEN Tail(@) ELSE Append(Tail(@), <<w[1], to + 1, w[3]>>)]
           /\ disturbed' = IF to # w[3] /\ Len(async_writes[c]) > 1 THEN disturbed \cup {c} ELSE disturbed
    /\ UNCHANGED <<peer, d_tcp_connections, handed, next_i, joined, said, pdus_of, stopped>>

IsOpen(c) == peer[c] # "closed"

\* Mutant: everything behind the first closed one goes with it.
OpenOnes_first(conns) ==
    LET k == SelectInSeq(conns, LAMBDA c : ~IsOpen(c)) IN IF k = 0 THEN conns ELSE SubSeq(conns, 1, k - 1)
OpenOnes(conns) ==
    LET kept[n \in 0 .. Len(conns)] ==
            IF n = 0 THEN <<>>
            ELSE IF IsOpen(conns[n]) THEN Append(kept[n - 1], conns[n]) ELSE kept[n - 1]
    IN  kept[Len(conns)]

\* Those the walk had yet to come to, in the places of `before', and that stand
\* in those of `after' where it has been.
PassedOver(before, after) ==
    {d \in Peers : \E p \in DOMAIN before, q \in DOMAIN after :
                      before[p] = d /\ after[q] = d /\ next_i <= p /\ q < next_i}

\* In the midst of a walk too, whose index stays what it is; where the walk
\* reads the list while this changes it the process may end, and that is all
\* there is to say.
handle_tcp_accept(c) ==
    /\ ~stopped /\ peer[c] = "away"
    /\ d_tcp_connections' = Append(OpenOnes(d_tcp_connections), c)
    /\ disturbed' = disturbed \cup PassedOver(d_tcp_connections, OpenOnes(d_tcp_connections))
    /\ peer' = [peer EXCEPT ![c] = "open"]
    /\ UNCHANGED <<handed, next_i, async_writes, arrived, joined, said, pdus_of, stopped>>

\* How many of the client's bytes were read.
Heard(c) == IF pdus_of[c] = <<>> THEN 0 ELSE pdus_of[c][Len(pdus_of[c])][2]

\* Mutant: the end of the stream is met before the bytes in front of it.
EofNow_early(c) == peer[c] = "eof"
EofNow(c) == peer[c] = "eof" /\ Heard(c) = said[c]

\* A read of what there is, up to d_buf's size, is published; at the end of
\* the stream the socket is closed and its writes are given up.
handle_read(c) ==
    /\ ~stopped /\ peer[c] \in {"open", "eof"}
    /\ \/ \E n \in 1 .. MTU :
              /\ Heard(c) + n <= said[c]
              /\ pdus_of' = [pdus_of EXCEPT ![c] = Append(@, <<Heard(c) + 1, Heard(c) + n>>)]
              /\ UNCHANGED <<peer, async_writes>>
       \/ /\ EofNow(c)
          /\ peer' = [peer EXCEPT ![c] = "closed"] /\ async_writes' = [async_writes EXCEPT ![c] = <<>>]
          /\ UNCHANGED pdus_of
    /\ UNCHANGED <<d_tcp_connections, handed, next_i, arrived, joined, said, stopped, disturbed>>

stop ==
    /\ ~stopped /\ stopped' = TRUE
    /\ UNCHANGED <<peer, d_tcp_connections, handed, next_i, async_writes, arrived, joined, said, pdus_of, disturbed>>

SpNext ==
    \/ \E c \in Peers : Say(c) \/ Leave(c)
    \/ tcp_server_send \/ send \/ SendEnds
    \/ \E c \in Peers : CarryOut(c) \/ handle_tcp_accept(c) \/ handle_read(c)
    \/ stop

-----------------------------------------------------------------------------
SpSpec == SpInit /\ [][SpNext]_pduvars

-----------------------------------------------------------------------------
\* The bytes of the messages handed out since c was handed its first, and their order.
BytesFor(c) == UNION {{<<m, b>> : b \in 1 .. PduSizes[m]} : m \in joined[c] .. handed}
Before(x, y) == x[1] < y[1] \/ (x[1] = y[1] /\ x[2] < y[2])

(* What a client gets is the bytes of the messages, unbroken and in order,   *)
(* from the first message it was handed on: none is passed over for it,      *)
(* given to it twice or mixed with another, whichever connections are added  *)
(* and dropped meanwhile, unless it was the client itself that the walk      *)
(* passed over or that had a write cut with another behind it.               *)
StreamUnbroken ==
    \A c \in Peers \ disturbed : joined[c] # 0 =>
        /\ ToSet(arrived[c]) \subseteq BytesFor(c)
        /\ \A i, j \in DOMAIN arrived[c] : i < j => Before(arrived[c][i], arrived[c][j])
        /\ \A x \in ToSet(arrived[c]) : \A y \in BytesFor(c) : Before(y, x) => y \in ToSet(arrived[c])

(* Every message handed out reaches a client that stays, whatever became of  *)
(* the others: between two messages what it has got and what is being        *)
(* written to it are all the bytes there are; but for the same clients.      *)
StreamComplete ==
    next_i = 0 => \A c \in Peers \ disturbed : joined[c] # 0 /\ peer[c] = "open" =>
        \A x \in BytesFor(c) : \/ x \in ToSet(arrived[c])
                               \/ \E w \in ToSet(async_writes[c]) : x[1] = w[1] /\ x[2] \in w[2] .. w[3]

(* The PDUs hold each byte of a client once and in order, at most MTU each;  *)
(* a connection is closed only when all that its client sent has been        *)
(* published.                                                                *)
ReadBeforeClose ==
    \A c \in Peers :
        /\ \A k \in DOMAIN pdus_of[c] :
              /\ pdus_of[c][k][1] = (IF k = 1 THEN 1 ELSE pdus_of[c][k - 1][2] + 1)
              /\ pdus_of[c][k][2] \in pdus_of[c][k][1] .. pdus_of[c][k][1] + MTU - 1
        /\ peer[c] = "closed" => Heard(c) = said[c]

(* Packets and messages: pdu_to_tagged_stream and tagged_stream_to_pdu undo  *)
(* each other; what socket_pdu hears is neither cut nor lost, and what it     *)
(* sends is not for any client that neither moved under the walk nor had two *)
(* writes at once, one of which was cut.                                     *)
PdusKept == PdusThrough /\ StreamUnbroken /\ StreamComplete /\ ReadBeforeClose
=============================================================================
