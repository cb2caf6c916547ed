------------------------------- MODULE Buffer -------------------------------
(***************************************************************************)
(* gr::buffer and gr::buffer_reader: the single-writer, multiple-reader    *)
(* ring through which two stream blocks exchange items and tags            *)
(* (gnuradio-runtime/lib/buffer.cc, include/gnuradio/buffer.h).            *)
(*                                                                         *)
(* The writer is the thread of the block that owns the buffer; each reader *)
(* is the thread of a downstream block.  All of them run concurrently.     *)
(* Every operation below takes the buffer's mutex and is one step; what    *)
(* the threads do between two operations (filling the write window,        *)
(* looking at the read window) takes no lock, so it is a step of its own.  *)
(*                                                                         *)
(* An item is its position in the stream: the n-th item written is n, and  *)
(* the zeros that "preload" the buffer for a reader with history are the   *)
(* negative positions.                                                     *)
(***************************************************************************)
EXTENDS Integers, FiniteSets

CONSTANTS
    Readers,    \* the downstream blocks that read this buffer
    BufSize,    \* d_bufsize, in items
    Preload,    \* Preload[r]: history() - 1 of reader r
    Delay,      \* Delay[r]: sample_delay() of reader r
    Keys,       \* what tells two tags at one offset apart (key, value, source)
    MaxItems,   \* bound: items written in a behaviour
    MaxTags     \* bound: tags added in a behaviour

ASSUME BufSizeAssumption == BufSize \in Nat \ {0}
ASSUME PreloadAssumption == Preload \in [Readers -> 0 .. BufSize - 1]
ASSUME DelayAssumption   == Delay \in [Readers -> Nat]
ASSUME BoundAssumption   == MaxItems \in Nat /\ MaxTags \in Nat

VARIABLES
    slot,                \* d_base: the item in each slot of the ring
    write_index,         \* d_write_index
    abs_write_offset,    \* d_abs_write_offset
    done,                \* d_done
    readers,             \* d_readers
    read_index,          \* d_read_index of each reader
    abs_read_offset,     \* d_abs_read_offset of each reader
    max_reader_delay,    \* d_max_reader_delay
    last_min_items_read, \* d_last_min_items_read
    item_tags,           \* d_item_tags
    running,             \* the scheduler has started the threads
    window,              \* noutput_items of the work call in progress, or 0
    filled,              \* how many items of the window are written
    avail,               \* ninput_items of each reader's work call, or -1
    start,               \* d_start_nitems_read of each reader's work call
    delivered,           \* history: tags each reader was given or has removed
    added                \* history: every tag ever added

ring   == <<slot, write_index, abs_write_offset, done>>
rdvars == <<readers, read_index, abs_read_offset>>
tagvars == <<max_reader_delay, last_min_items_read, item_tags>>
writer == <<window, filled>>
reader == <<avail, start, delivered>>
vars   == <<ring, rdvars, tagvars, running, writer, reader, added>>

-----------------------------------------------------------------------------
(* buffer.h: index arithmetic, items and space.                            *)

\* The 64-bit offsets, narrowed so that an unsigned difference can wrap.
U64 == 4096
Unsigned(n) == n % U64

\* Mutant: the wrap is forgotten.
index_add_nowrap(a, b) == a + b
index_add(a, b) == IF a + b >= BufSize THEN a + b - BufSize ELSE a + b
index_sub(a, b) == IF a - b < 0 THEN a - b + BufSize ELSE a - b

items_available(r) == index_sub(write_index, read_index[r])

\* Mutant: no slot is kept free.
HasSpace_full(n) == /\ n \in 0 .. BufSize - 1
                    /\ \A r \in readers : n <= BufSize - items_available(r)

\* Mutant: most_data is the data of some reader, not of the slowest.
HasSpace_any(n) == /\ n \in 0 .. BufSize - 1
                   /\ readers = {} \/ \E r \in readers : n <= BufSize - items_available(r) - 1

\* space_available() >= n: room for n more items in front of every reader; one
\* slot stays free so that equal indices mean "empty".
HasSpace(n) == /\ n \in 0 .. BufSize - 1
               /\ \A r \in readers : n <= BufSize - items_available(r) - 1

\* min_items_read of space_available().
IsMinItemsRead(m) == \A r \in readers : m <= abs_read_offset[r]

\* Mutant: prune_tags(max_time) without the slack of one buffer.
Pruned_eager(max_time) == {t \in item_tags : t.offset + max_reader_delay >= max_time}

\* The tags prune_tags(max_time) keeps.
Pruned(max_time) ==
    {t \in item_tags : t.offset + max_reader_delay + BufSize >= max_time}

\* A tag: the absolute offset it was given and the readers for which it is
\* marked deleted.
Tag == [offset : Nat, key : Keys, marked_deleted : SUBSET Readers]
Name(t) == <<t.offset, t.key>>
Names(T) == {Name(t) : t \in T}

-----------------------------------------------------------------------------
Init ==
    /\ slot = [i \in 0 .. BufSize - 1 |-> i - BufSize]
    /\ write_index = 0
    /\ abs_write_offset = 0
    /\ done = FALSE
    /\ readers = {}
    /\ read_index = [r \in Readers |-> 0]
    /\ abs_read_offset = [r \in Readers |-> 0]
    /\ max_reader_delay = 0
    /\ last_min_items_read = 0
    /\ item_tags = {}
    /\ running = FALSE
    /\ window = 0
    /\ filled = 0
    /\ avail = [r \in Readers |-> -1]
    /\ start = [r \in Readers |-> 0]
    /\ delivered = [r \in Readers |-> {}]
    /\ added = {}

\* Mutant: the preload is not stepped back over.
AddReader_nopreload(r) ==
    /\ ~running
    /\ r \notin readers
    /\ readers' = readers \cup {r}
    /\ read_index' = [read_index EXCEPT ![r] = write_index]
    /\ abs_read_offset' = [abs_read_offset EXCEPT ![r] = 0]
    /\ max_reader_delay' = Delay[r]
    /\ UNCHANGED <<ring, last_min_items_read, item_tags, running, writer, reader, added>>

(* buffer_add_reader: the reader starts Preload[r] items behind the write   *)
(* index.  Its constructor sets the buffer's d_max_reader_delay to 0 before *)
(* declare_sample_delay raises it to the delay of this reader.              *)
AddReader(r) ==
    /\ ~running
    /\ r \notin readers
    /\ readers' = readers \cup {r}
    /\ read_index' = [read_index EXCEPT ![r] = index_sub(write_index, Preload[r])]
    /\ abs_read_offset' = [abs_read_offset EXCEPT ![r] = 0]
    /\ max_reader_delay' = Delay[r]
    /\ UNCHANGED <<ring, last_min_items_read, item_tags, running, writer, reader, added>>

(* scheduler_tpb's constructor clears done on every block before it creates *)
(* the threads.                                                             *)
Start ==
    /\ ~running
    /\ running' = TRUE
    /\ done' = FALSE
    /\ UNCHANGED <<slot, write_index, abs_write_offset, rdvars, tagvars, writer, reader, added>>

(* min_available_space, under the mutex: space_available() prunes the tags  *)
(* below the PREVIOUS minimum of the readers' offsets, then the executor    *)
(* settles on n items; n = 0 is "output blocked".                           *)
MinAvailableSpace(n) ==
    /\ running
    /\ window = 0
    /\ HasSpace(n)
    /\ abs_write_offset + n <= MaxItems
    /\ window' = n
    /\ filled' = 0
    /\ IF readers = {}
       THEN UNCHANGED <<item_tags, last_min_items_read>>
       ELSE \E m \in {abs_read_offset[r] : r \in readers} :
                /\ IsMinItemsRead(m)
                /\ last_min_items_read' = m
                /\ item_tags' = IF m = last_min_items_read THEN item_tags
                                ELSE Pruned(last_min_items_read)
    /\ UNCHANGED <<ring, rdvars, max_reader_delay, running, reader, added>>

(* general_work fills the window that begins at write_pointer(), unlocked.  *)
WriteItem ==
    /\ filled < window
    /\ slot' = [slot EXCEPT ![index_add(write_index, filled)] = abs_write_offset + filled]
    /\ filled' = filled + 1
    /\ UNCHANGED <<write_index, abs_write_offset, done, rdvars, tagvars, running, window,
                   reader, added>>

(* add_item_tag on an item of the window, from work or from the executor's  *)
(* propagate_tags: both run before produce_each.                            *)
AddItemTag(o, k) ==
    /\ window > 0
    /\ o \in abs_write_offset .. abs_write_offset + window - 1
    /\ <<o, k>> \notin added
    /\ Cardinality(added) < MaxTags
    /\ item_tags' = item_tags \cup {[offset |-> o, key |-> k, marked_deleted |-> {}]}
    /\ added' = added \cup {<<o, k>>}
    /\ UNCHANGED <<ring, rdvars, max_reader_delay, last_min_items_read, running, writer,
                   reader>>

(* update_write_pointer(n) from produce/produce_each; n <= 0 makes no call. *)
UpdateWritePointer(n) ==
    /\ window > 0
    /\ n \in 0 .. filled
    /\ write_index' = index_add(write_index, n)
    /\ abs_write_offset' = abs_write_offset + n
    /\ window' = 0
    /\ filled' = 0
    /\ UNCHANGED <<slot, done, rdvars, tagvars, running, reader, added>>

(* The reader's executor snapshots items_available() under the mutex.       *)
Snapshot(r) ==
    /\ running
    /\ r \in readers
    /\ avail[r] = -1
    /\ avail' = [avail EXCEPT ![r] = items_available(r)]
    /\ start' = [start EXCEPT ![r] = abs_read_offset[r]]
    /\ UNCHANGED <<ring, rdvars, tagvars, running, writer, delivered, added>>

\* Mutant: the counter is advanced twice.
UpdateReadPointer_twice(r, n) ==
    /\ avail[r] >= 0
    /\ n \in 1 .. avail[r] - Preload[r]
    /\ read_index' = [read_index EXCEPT ![r] = index_add(read_index[r], n)]
    /\ abs_read_offset' = [abs_read_offset EXCEPT ![r] = @ + 2 * n]
    /\ avail' = [avail EXCEPT ![r] = @ - n]
    /\ UNCHANGED <<ring, readers, tagvars, running, writer, start, delivered, added>>

(* update_read_pointer(n) from consume in the reader's general_work, which  *)
(* may call it several times in one call; a block keeps its history, which  *)
(* is as long as what the reader was preloaded with.                        *)
UpdateReadPointer(r, n) ==
    /\ avail[r] >= 0
    /\ n \in 1 .. avail[r] - Preload[r]
    /\ read_index' = [read_index EXCEPT ![r] = index_add(read_index[r], n)]
    /\ abs_read_offset' = [abs_read_offset EXCEPT ![r] = @ + n]
    /\ avail' = [avail EXCEPT ![r] = @ - n]
    /\ UNCHANGED <<ring, readers, tagvars, running, writer, start, delivered, added>>

(* remove_item_tag: marks every equal tag at that offset for one reader.    *)
RemoveItemTag(r, t) ==
    /\ avail[r] >= 0
    /\ t \in item_tags
    /\ r \notin t.marked_deleted
    /\ item_tags' = (item_tags \ {t})
                      \cup {[t EXCEPT !.marked_deleted = @ \cup {r}]}
    /\ delivered' = [delivered EXCEPT ![r] = @ \cup {Name(t)}]
    /\ UNCHANGED <<ring, rdvars, max_reader_delay, last_min_items_read, running, writer,
                   avail, start, added>>

-----------------------------------------------------------------------------
(* get_tags_in_range(abs_start, abs_end) of reader r.  The multimap is      *)
(* walked from lower_bound(lo) to upper_bound(hi), where lo and hi are the  *)
(* range shifted down by the delay unless the unsigned difference wraps.    *)
\* Mutant: the wrapped difference is taken as it is.
Shifted_wraps(r, x) == Unsigned(x - Delay[r])
Shifted(r, x) == IF Unsigned(x - Delay[r]) < x THEN Unsigned(x - Delay[r]) ELSE x

TagsWalked(r, abs_start, abs_end) ==
    {t \in item_tags : /\ t.offset >= Shifted(r, abs_start)
                       /\ t.offset <= Shifted(r, abs_end)}

\* lower_bound(lo) lies beyond upper_bound(hi): the loop "itr != itr_end"
\* never meets its end.
WalkOverruns(r, abs_start, abs_end) ==
    \E t \in item_tags : /\ t.offset > Shifted(r, abs_end)
                         /\ t.offset < Shifted(r, abs_start)

\* Mutant: the first item of the range is left out.
TagsInRange_open(r, abs_start, abs_end) ==
    {t \in TagsWalked(r, abs_start, abs_end) :
        /\ t.offset + Delay[r] > abs_start
        /\ t.offset + Delay[r] < abs_end
        /\ r \notin t.marked_deleted}

TagsInRange(r, abs_start, abs_end) ==
    {t \in TagsWalked(r, abs_start, abs_end) :
        /\ t.offset + Delay[r] >= abs_start
        /\ t.offset + Delay[r] < abs_end
        /\ r \notin t.marked_deleted}

\* What the call can return: past its end the walk reads what it finds.
TagsReturned(r, abs_start, abs_end) ==
    IF WalkOverruns(r, abs_start, abs_end)
    THEN SUBSET item_tags
    ELSE {TagsInRange(r, abs_start, abs_end)}

(* propagate_tags after general_work returns: the tags of the items that    *)
(* this call consumed.  The work call is over.                              *)
PropagateTags(r) ==
    /\ avail[r] >= 0
    /\ \E got \in TagsReturned(r, start[r], abs_read_offset[r]) :
            delivered' = [delivered EXCEPT ![r] = @ \cup Names(got)]
    /\ avail' = [avail EXCEPT ![r] = -1]
    /\ start' = [start EXCEPT ![r] = abs_read_offset[r]]
    /\ UNCHANGED <<ring, rdvars, tagvars, running, writer, added>>

(* block_detail::set_done(true): the writer's block or the block of any     *)
(* reader is done, and marks the whole buffer.                              *)
SetDone ==
    /\ running
    /\ ~done
    /\ \/ window = 0
       \/ \E r \in readers : avail[r] = -1
    /\ done' = TRUE
    /\ UNCHANGED <<slot, write_index, abs_write_offset, rdvars, tagvars, running, writer,
                   reader, added>>

-----------------------------------------------------------------------------
Write ==
    \/ \E n \in 0 .. BufSize : MinAvailableSpace(n) \/ UpdateWritePointer(n)
    \/ WriteItem
    \/ \E o \in 0 .. MaxItems, k \in Keys : AddItemTag(o, k)

Read(r) ==
    \/ Snapshot(r)
    \/ \E n \in 1 .. BufSize : UpdateReadPointer(r, n)
    \/ \E t \in item_tags : RemoveItemTag(r, t)
    \/ PropagateTags(r)

Next ==
    \/ \E r \in Readers : AddReader(r)
    \/ Start
    \/ Write
    \/ \E r \in Readers : Read(r)
    \/ SetDone

Spec == Init /\ [][Next]_vars

-----------------------------------------------------------------------------
RingType ==
    /\ slot \in [0 .. BufSize - 1 -> Int]
    /\ write_index \in 0 .. BufSize - 1
    /\ abs_write_offset \in Nat

ReadersType ==
    /\ readers \in SUBSET Readers
    /\ read_index \in [Readers -> 0 .. BufSize - 1]
    /\ abs_read_offset \in [Readers -> Nat]

TagsType ==
    /\ max_reader_delay \in Nat
    /\ last_min_items_read \in Nat
    /\ item_tags \in SUBSET Tag
    /\ added \in SUBSET (Nat \X Keys)
    /\ delivered \in [Readers -> SUBSET (Nat \X Keys)]

WorkType ==
    /\ window \in 0 .. BufSize - 1
    /\ filled \in 0 .. window
    /\ avail \in [Readers -> -1 .. BufSize - 1]
    /\ start \in [Readers -> Nat]

FlagsType == done \in BOOLEAN /\ running \in BOOLEAN

TypeOK == RingType /\ ReadersType /\ TagsType /\ WorkType /\ FlagsType

\* Items of the stream, preloaded zeros included, that reader r has not read.
Unread(r) == abs_write_offset + Preload[r] - abs_read_offset[r]

(* The two independent records of a reader's position, the ring indices and *)
(* the 64-bit counters, never drift apart: what items_available() computes  *)
(* by wrapping is exactly what has been written and not yet read.           *)
IndicesAgree == \A r \in readers : items_available(r) = Unread(r)

(* Whatever the writer is doing to its window, every unread slot of every   *)
(* reader holds the item that is due at that place of the reader's stream:  *)
(* no unread item is overwritten, skipped, repeated or reordered.           *)
ReaderSeesStream ==
    \A r \in readers : \A k \in 0 .. items_available(r) - 1 :
        slot[index_add(read_index[r], k)] = abs_read_offset[r] - Preload[r] + k

(* A snapshot taken under the mutex and used after it stays good: the items *)
(* a work call was promised are still there, unread, when it looks at them, *)
(* and the space the writer was promised is still free.                     *)
PromisesKept ==
    \A r \in readers :
        /\ avail[r] <= items_available(r)
        /\ window <= BufSize - 1 - items_available(r)

(* A tag stays in the buffer until each reader has finished the work call   *)
(* that consumes its item, although the writer prunes concurrently.         *)
TagsSurvive ==
    \A r \in readers : \A o \in 0 .. MaxItems, k \in Keys :
        (<<o, k>> \in added /\ o + Delay[r] >= start[r]) => <<o, k>> \in Names(item_tags)

(* get_tags_in_range gives a reader each tag of the items it has consumed,  *)
(* unless it had removed the tag: nothing falls between two work calls.     *)
TagsDelivered ==
    \A r \in readers : \A o \in 0 .. MaxItems, k \in Keys :
        (<<o, k>> \in added /\ o + Delay[r] < start[r]) => <<o, k>> \in delivered[r]

(* The walk over the tags meets its end iterator.                           *)
WalkEnds ==
    \A r \in readers : avail[r] >= 0 => ~WalkOverruns(r, start[r], abs_read_offset[r])

\* The buffer is a set of bounded FIFO queues, one per reader.
Queue(r) == IF r \in readers
            THEN [k \in 1 .. items_available(r) |-> slot[index_add(read_index[r], k - 1)]]
            ELSE <<>>

Fifo == INSTANCE BroadcastFifo WITH
            Capacity <- BufSize - 1,
            attached <- readers,
            queue <- [r \in Readers |-> Queue(r)],
            next <- abs_write_offset

(* Every behaviour of the ring is one of the broadcast FIFO.                *)
FifoSpec == Fifo!Spec

(* buffer.cc and buffer_reader: however writer and readers interleave, each  *)
(* reader has before it the stream itself, as much of it as index and        *)
(* counter both say, and no promise of items or of space is ever taken back. *)
StreamKept == TypeOK /\ IndicesAgree /\ ReaderSeesStream /\ PromisesKept

(* add_item_tag, prune_tags and get_tags_in_range: pruning takes no tag that *)
(* a reader is still to be given, no tag falls between two calls of work,    *)
(* and the walk that looks for tags ends.                                    *)
TagsKept == TagsSurvive /\ TagsDelivered /\ WalkEnds
=============================================================================
