----------------------------- MODULE FileSource -----------------------------
(***************************************************************************)
(* file_source: other threads open, close and seek while work reads.  open  *)
(* leaves the handle in d_new_fp, and the range to read in variables that   *)
(* work uses too; work takes the handle over under the mutex, lets go of it *)
(* and takes it again to read.  The file is regular and a begin tag is set. *)
(***************************************************************************)
EXTENDS Integers, Sequences, SequencesExt, FiniteSets

CONSTANTS
    Ranges,      \* what may be opened: [size: of the file in items, from, len, repeat]
    Seeks,       \* what may be sought: <<seek_point, whence>>
    OpenInGap,   \* whether open may come between the two times work has the mutex
    MaxOpened, MaxRead, MaxOut, MaxSought   \* bounds: files opened, items asked for by a call and in all, seeks

ASSUME RangesAssumption ==
    /\ Ranges \subseteq [size : Nat, from : Nat, len : Nat, repeat : BOOLEAN]
    /\ OpenInGap \in BOOLEAN /\ {MaxOpened, MaxRead, MaxOut, MaxSought} \subseteq Nat

VARIABLES
    rfiles,      \* the FILEs in the order they were opened: range, position, times closed
    rd_fp, rd_new_fp, rd_updated,
    d_repeat, d_start_offset_items, d_length_items, d_items_remaining,
    d_file_begin, d_repeat_cnt,
    at,          \* where work is
    out,         \* items produced: the FILE and the position in it
    begins,      \* begin tags
    sought       \* history: the FILEs seek has moved, one entry for each time

filevars  == <<rfiles, rd_fp, rd_new_fp, rd_updated>>
rangevars == <<d_repeat, d_start_offset_items, d_length_items, d_items_remaining>>
evars == <<filevars, rangevars, d_file_begin, d_repeat_cnt, at, out, begins, sought>>

Fewer(a, b) == IF a < b THEN a ELSE b
Fits(r)     == r.size > r.from
Available(r) == IF r.len = 0 THEN r.size - r.from ELSE Fewer(r.len, r.size - r.from)
Close(fs, h) == IF h = 0 THEN fs ELSE [fs EXCEPT ![h].closed = @ + 1]
Opened(r)    == [range |-> r, pos |-> r.from, closed |-> 0]

\* The constructor opens the first file and takes it over.
EInit ==
    \E r \in {q \in Ranges : Fits(q)} :
        /\ rfiles = <<Opened(r)>> /\ rd_fp = 1 /\ rd_new_fp = 0 /\ rd_updated = FALSE
        /\ d_repeat = r.repeat /\ d_start_offset_items = r.from
        /\ d_length_items = Available(r) /\ d_items_remaining = Available(r)
        /\ d_file_begin = TRUE /\ d_repeat_cnt = 0
        /\ at = "idle" /\ out = <<>> /\ begins = {} /\ sought = <<>>

Unread == at \in {"idle", "update"} \/ (at = "read" /\ OpenInGap)

\* A file with no item of the range is closed again, and d_new_fp keeps the
\* handle.
open_range(r) ==
    /\ Unread /\ Len(rfiles) < MaxOpened
    /\ LET fs == Append(Close(rfiles, rd_new_fp), Opened(r)) IN
       /\ rd_new_fp' = Len(fs)
       /\ IF Fits(r)
          THEN /\ rfiles' = fs /\ rd_updated' = TRUE
               /\ d_repeat' = r.repeat /\ d_start_offset_items' = r.from
               /\ d_length_items' = Available(r) /\ d_items_remaining' = Available(r)
          ELSE rfiles' = Close(fs, Len(fs)) /\ UNCHANGED <<rd_updated, rangevars>>
    /\ UNCHANGED <<rd_fp, d_file_begin, d_repeat_cnt, at, out, begins, sought>>

\* There is no such file.
open_missing ==
    /\ Unread /\ rd_new_fp # 0
    /\ rfiles' = Close(rfiles, rd_new_fp) /\ rd_new_fp' = 0
    /\ UNCHANGED <<rd_fp, rd_updated, rangevars, d_file_begin, d_repeat_cnt, at, out, begins, sought>>

close_file ==
    /\ at \in {"idle", "update", "read"} /\ ~(rd_updated /\ rd_new_fp = 0)
    /\ rfiles' = Close(rfiles, rd_new_fp) /\ rd_new_fp' = 0 /\ rd_updated' = TRUE
    /\ UNCHANGED <<rd_fp, rangevars, d_file_begin, d_repeat_cnt, at, out, begins, sought>>

\* Where seek moves to.  SEEK_END counts the start of the range twice over.
SeekPoint(point, whence) ==
    LET p == point + d_start_offset_items IN
    CASE whence = "SET" -> p
      [] whence = "CUR" -> p + (d_length_items - d_items_remaining)
      [] whence = "END" -> d_length_items - p

\* Without the mutex; between two calls of work, or in one of them before it
\* reads.  What remains to be read is as before.  (With no file installed it
\* hands fseek a null pointer.)
seek(point, whence) ==
    /\ at \in {"idle", "update", "read"} /\ rd_fp # 0 /\ Len(sought) < MaxSought
    /\ LET p == SeekPoint(point, whence) IN
       /\ p \in d_start_offset_items .. d_start_offset_items + d_length_items - 1
       /\ rfiles' = [rfiles EXCEPT ![rd_fp].pos = p]
    /\ sought' = Append(sought, rd_fp)
    /\ UNCHANGED <<rd_fp, rd_new_fp, rd_updated, rangevars, d_file_begin, d_repeat_cnt, at, out, begins>>

\* work, up to the look at d_updated.
BeginRead ==
    /\ at = "idle" /\ Len(out) < MaxOut
    /\ at' = IF rd_updated THEN "update" ELSE "read"
    /\ UNCHANGED <<filevars, rangevars, d_file_begin, d_repeat_cnt, out, begins, sought>>

\* Mutant: the handle waits to be taken over once more.
Waiting_still(h) == h
Waiting(h) == 0

do_update_source ==
    /\ at = "update"
    /\ rfiles' = Close(rfiles, rd_fp)
    /\ rd_fp' = rd_new_fp /\ rd_new_fp' = Waiting(rd_new_fp) /\ rd_updated' = FALSE
    /\ d_file_begin' = TRUE /\ at' = IF rd_new_fp = 0 THEN "threw" ELSE "read"
    /\ UNCHANGED <<rangevars, d_repeat_cnt, out, begins, sought>>

\* What remains after n items of a range that repeats: never nothing.
\* Mutant: the whole range remains after every rewind.
Rewound_whole(n) == d_length_items
Rewound(n) == d_length_items - ((n - d_items_remaining) % d_length_items)

\* Mutant: to the start of the file.
RewindsTo_start == 0
RewindsTo == d_start_offset_items

\* Mutant: a rewind at the end of a call leaves nothing for the next.
BeginsAt_within(n) == {i \in 0 .. n - 1 : i >= d_items_remaining /\ (i - d_items_remaining) % d_length_items = 0}
\* The items of a call of n before which the range begins again, from 0 on.
BeginsAt(n) == {i \in 0 .. n : i >= d_items_remaining /\ (i - d_items_remaining) % d_length_items = 0}

\* work with the mutex for a call of n items.  One step: a seek that comes between
\* two freads of one call, before a rewind, is left out.
Read(n) ==
    /\ at = "read"
    /\ LET f     == rfiles[rd_fp]
           first == Fewer(n, d_items_remaining)
           Pos(i) == IF i < d_items_remaining THEN f.pos + i
                     ELSE RewindsTo + ((i - d_items_remaining) % d_length_items)
           made  == IF d_repeat THEN n ELSE first
           again == IF d_repeat THEN BeginsAt(n) ELSE {}
           starts == again \cup (IF d_file_begin THEN {0} ELSE {})
           marked == {i \in starts : i < made}
           Count(i) == d_repeat_cnt + Cardinality({j \in again : j <= i})
       IN
       IF d_items_remaining = 0
       THEN at' = "done" /\ UNCHANGED <<rfiles, d_items_remaining, d_file_begin, d_repeat_cnt, out, begins>>
       ELSE IF f.pos + first > f.range.size
       THEN at' = "threw" /\ UNCHANGED <<rfiles, d_items_remaining, d_file_begin, d_repeat_cnt, out, begins>>
       ELSE
       /\ at' = "idle"
       /\ out' = out \o [k \in 1 .. made |-> [file |-> rd_fp, pos |-> Pos(k - 1)]]
       /\ begins' = begins \cup {[offset |-> Len(out) + i, count |-> Count(i)] : i \in marked}
       /\ d_repeat_cnt' = d_repeat_cnt + Cardinality(again)
       /\ d_file_begin' = (starts \ marked # {})
       /\ d_items_remaining' = IF again = {} THEN d_items_remaining - made ELSE Rewound(n)
       /\ rfiles' = [rfiles EXCEPT ![rd_fp].pos = IF again = {} THEN @ + made ELSE Pos(n)]
    /\ UNCHANGED <<rd_fp, rd_new_fp, rd_updated, d_repeat, d_start_offset_items, d_length_items, sought>>

\* The destructor, once no thread calls work.
DestroySource ==
    /\ at \in {"idle", "done", "threw"} /\ at' = "gone"
    /\ rfiles' = Close(Close(rfiles, rd_fp), rd_new_fp)
    /\ UNCHANGED <<rd_fp, rd_new_fp, rd_updated, rangevars, d_file_begin, d_repeat_cnt, out, begins, sought>>

ENext ==
    \/ \E r \in Ranges : open_range(r)
    \/ open_missing \/ close_file
    \/ \E s \in Seeks : seek(s[1], s[2])
    \/ BeginRead \/ do_update_source \/ DestroySource
    \/ \E n \in 1 .. MaxRead : Read(n)

-----------------------------------------------------------------------------
\* The items of a file, and how many items of its file precede the i-th item.
ItemsOf(h) == {i \in DOMAIN out : out[i].file = h}
CountOf(h) == Cardinality(ItemsOf(h))
RankOf(i)  == Cardinality({j \in 1 .. i - 1 : out[j].file = out[i].file})
RangeOf(h) == rfiles[h].range
Moved(h)   == h \in {sought[i] : i \in DOMAIN sought}

(* A file that is opened is read from where and as far as it was asked for,  *)
(* over and over if it was asked to repeat, whatever the sizes of the calls, *)
(* the files opened before it was taken over, and the file it follows.  A    *)
(* seek changes which items come, never how many.                            *)
RangesRead ==
    \A h \in DOMAIN rfiles :
        LET r == RangeOf(h) IN
        /\ ~r.repeat => CountOf(h) <= Available(r)
        /\ ~Moved(h) => \A i \in ItemsOf(h) : out[i].pos = r.from + (RankOf(i) % Available(r))
        /\ at = "done" /\ h = rd_fp => CountOf(h) = Available(r)

(* A begin tag lies on the first item of a file and on every first item      *)
(* after a rewind, and nowhere else.                                         *)
BeginsTagged ==
    {b.offset : b \in begins} =
        {i - 1 : i \in {j \in DOMAIN out : RankOf(j) % Available(RangeOf(out[j].file)) = 0}}

(* Every file is closed once when the block is gone, never twice, and never  *)
(* while work reads it.                                                      *)
SourceFilesClosed ==
    \A h \in DOMAIN rfiles :
        /\ rfiles[h].closed <= 1
        /\ at = "gone" => rfiles[h].closed = 1
        /\ at = "read" /\ h = rd_fp => rfiles[h].closed = 0

(* work throws only when the file was closed, or when a seek has gone so far *)
(* that the file ends before what was still to be read.                      *)
ThrowsAfterSeek ==
    at = "threw" => rd_fp = 0 \/ Moved(rd_fp)

-----------------------------------------------------------------------------
(* file_descriptor_source and file_descriptor_sink: items read from and      *)
(* written to a descriptor whose read and write take any number of bytes and *)
(* may be interrupted.  The source keeps the bytes of an unfinished item for *)
(* its next read.  The bytes of the file are numbered from 1 on.             *)
CONSTANTS
    fd_itemsize, FileSize,
    Room,          \* bound: items of a call of work
    MaxPassed      \* bound: items that go through

ASSUME DescriptorAssumption ==
    fd_itemsize \in Nat \ {0} /\ {FileSize, Room, MaxPassed} \subseteq Nat

VARIABLES
    fd_repeat,
    fd_at,          \* bytes read of the file
    d_residue,   \* the bytes kept of an unfinished item
    reading,     \* the room of the call of work under way, 0 for none
    fd_out,         \* the items put out, each a sequence of bytes
    ended,       \* work has returned -1
    left,        \* the sink: bytes of its call still to be written
    items_in, written, \* items the sink has been given, bytes that reached its file
    failed       \* a write has failed

fdvars == <<fd_repeat, fd_at, d_residue, reading, fd_out, ended, left, items_in, written, failed>>
sourcevars == <<fd_repeat, fd_at, d_residue, reading, fd_out, ended>>
sinkvars   == <<left, items_in, written, failed>>

FdInit ==
    /\ fd_repeat \in BOOLEAN /\ fd_at = 0 /\ d_residue = <<>> /\ reading = 0 /\ fd_out = <<>> /\ ended = FALSE
    /\ left = 0 /\ items_in = 0 /\ written = 0 /\ failed = FALSE

BeginFdRead(n) ==
    /\ reading = 0 /\ ~ended /\ Len(fd_out) + n <= MaxPassed
    /\ reading' = n /\ UNCHANGED <<fd_repeat, fd_at, d_residue, fd_out, ended, sinkvars>>

CutItems(bytes) ==
    [k \in 1 .. Len(bytes) \div fd_itemsize |-> SubSeq(bytes, (k - 1) * fd_itemsize + 1, k * fd_itemsize)]

\* Mutant: only the bytes of the last read count for the residue.
Residue_last(bytes, r) == SubSeq(bytes, Len(bytes) - (r % fd_itemsize) + 1, Len(bytes))
Residue(bytes, r) == SubSeq(bytes, Len(bytes) - (Len(bytes) % fd_itemsize) + 1, Len(bytes))

\* read returns r bytes; with less than an item work reads again.
FdRead(r) ==
    LET bytes == d_residue \o [k \in 1 .. r |-> fd_at + k] IN
    /\ reading > 0 /\ fd_at + r <= FileSize /\ Len(bytes) <= reading * fd_itemsize
    /\ fd_at' = fd_at + r
    /\ d_residue' = Residue(bytes, r)
    /\ fd_out' = fd_out \o CutItems(bytes)
    /\ reading' = IF CutItems(bytes) = <<>> THEN reading ELSE 0
    /\ UNCHANGED <<fd_repeat, ended, sinkvars>>

\* Mutant: the unfinished item at the end of the file goes on with its first byte.
Flushed_not == d_residue
Flushed == <<>>

\* read returns 0: the end, or lseek to the beginning.
EndOfFile ==
    /\ reading > 0 /\ fd_at = FileSize
    /\ IF fd_repeat THEN fd_at' = 0 /\ d_residue' = Flushed /\ UNCHANGED <<reading, ended>>
       ELSE ended' = TRUE /\ reading' = 0 /\ UNCHANGED <<fd_at, d_residue>>
    /\ UNCHANGED <<fd_repeat, fd_out, sinkvars>>

ReadFails ==
    /\ reading > 0 /\ ended' = TRUE /\ reading' = 0
    /\ UNCHANGED <<fd_repeat, fd_at, d_residue, fd_out, sinkvars>>

-----------------------------------------------------------------------------
\* Mutant: write is taken to have written everything.
Remaining_none(r) == 0
Remaining(r) == left - r

BeginFdWrite(n) ==
    /\ left = 0 /\ ~failed /\ items_in + n <= MaxPassed
    /\ left' = n * fd_itemsize /\ items_in' = items_in + n
    /\ UNCHANGED <<sourcevars, written, failed>>

FdWrite(r) ==
    /\ left > 0 /\ r <= left
    /\ left' = Remaining(r) /\ written' = written + r
    /\ UNCHANGED <<sourcevars, items_in, failed>>

WriteFails ==
    /\ left > 0 /\ failed' = TRUE /\ left' = 0 /\ UNCHANGED <<sourcevars, items_in, written>>

FdNext ==
    \/ \E n \in 1 .. Room : BeginFdRead(n) \/ BeginFdWrite(n)
    \/ \E r \in 1 .. Room * fd_itemsize : FdRead(r) \/ FdWrite(r)
    \/ EndOfFile \/ ReadFails \/ WriteFails

-----------------------------------------------------------------------------
(* What the source puts out is the file cut into items, however many bytes   *)
(* each read returns; a file that is repeated is cut anew from its first     *)
(* byte on each time, and the bytes at its end that make no item are left.   *)
CutIntoItems ==
    LET whole == FileSize \div fd_itemsize IN
    \A k \in DOMAIN fd_out :
        /\ fd_repeat \/ k <= whole
        /\ fd_out[k] = [j \in 1 .. fd_itemsize |-> ((k - 1) % whole) * fd_itemsize + j]

(* Between two calls the sink's file has every byte it was given, until a    *)
(* write fails, and then never more.                                         *)
AllWritten ==
    /\ left = 0 /\ ~failed => written = items_in * fd_itemsize
    /\ written + left <= items_in * fd_itemsize

(* The sources that read files and the sink that writes to a descriptor:     *)
(* what comes out is the range of the file that was asked for, item by item, *)
(* with its begin tags; nothing that was given is left unwritten; and each   *)
(* file is closed once.                                                      *)
FilesAsAsked ==
    RangesRead /\ BeginsTagged /\ SourceFilesClosed /\ ThrowsAfterSeek /\ CutIntoItems /\ AllWritten
=============================================================================
