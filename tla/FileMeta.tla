------------------------------- MODULE FileMeta -------------------------------
(***************************************************************************)
(* file_meta_sink and file_meta_source: a stream and its tags go to a file  *)
(* in segments, each behind a header that is written when the segment       *)
(* begins and written again, with the segment's size, when it ends; with    *)
(* detached headers these have a file of their own.  Then the file is read  *)
(* back.  A file is a sequence of cells: an item, the fixed part of a       *)
(* header, or one entry of its extra dictionary, so that positions and      *)
(* lengths are those of the code with every size 1.                         *)
(***************************************************************************)
EXTENDS Integers, Sequences, SequencesExt

CONSTANTS
    FileSetups,   \* streams with their tags, the blocks' arguments, how much is read
    MaxChunk      \* the most items of one call of work

VARIABLES fsetup, sink, source

fvars == <<fsetup, sink, source>>

Least(a, b) == IF a < b THEN a ELSE b

METADATA_HEADER_SIZE == 1
ItemCell(n)  == [is |-> "item", n |-> n]
HeaderCell(h) == [is |-> "header", h |-> h]
ExtraCell(e)  == [is |-> "extra", key |-> e[1], value |-> e[2]]

\* fwrite at pos: over what is there, or at the end.
Overwritten(cells, pos, new) ==
    SubSeq(cells, 1, pos) \o new \o SubSeq(cells, pos + Len(new) + 1, Len(cells))

-----------------------------------------------------------------------------
(* The sink.  d_header is a record, d_extra a sequence of entries, the       *)
(* newest first; `at' is the position in the file that holds the headers.    *)
\* rx_time counts half samples, so that a rate of 2 stays whole.
SinkInit(s) ==
    LET header == [rx_rate |-> s.rate, rx_time |-> 0, bytes |-> 0,
                   strt |-> METADATA_HEADER_SIZE + Len(s.extra)]
    IN  [d_header |-> header, d_extra |-> s.extra, d_samp_rate |-> s.rate, d_total_seg_size |-> 0,
         headers |-> <<HeaderCell(header)>> \o [n \in DOMAIN s.extra |-> ExtraCell(s.extra[n])],
         data |-> <<>>, at |-> METADATA_HEADER_SIZE + Len(s.extra), nitems_read |-> 0, open |-> TRUE]

\* With inline headers there is one file, which `headers' and `at' stand for.
Inline == ~fsetup.detached

write_header(k) ==
    LET cells == <<HeaderCell(k.d_header)>> \o [n \in DOMAIN k.d_extra |-> ExtraCell(k.d_extra[n])]
    IN  [k EXCEPT !.headers = Overwritten(@, k.at, cells), !.at = @ + Len(cells)]

update_header(k, key, value) ==
    CASE key = "rx_rate" -> [k EXCEPT !.d_samp_rate = value, !.d_header.rx_rate = value * fsetup.relative]
      [] key \in {"rx_time", "bytes", "strt"} -> [k EXCEPT !.d_header[key] = value]
      [] OTHER -> [k EXCEPT !.d_extra = <<<<key, value>>>> \o SelectSeq(@, LAMBDA e : e[1] # key)]

WithStart(k) == update_header(k, "strt", METADATA_HEADER_SIZE + Len(k.d_extra))

\* Mutant: the header's length is taken after it has grown.
LastHeader_grown(k) == METADATA_HEADER_SIZE + Len(k.d_extra)
LastHeader(k) == k.d_header.strt

\* update_last_header_inline and _detached: back over the segment and its header.
update_last_header(k) ==
    LET seg == IF Inline THEN k.d_total_seg_size ELSE 0
        new == WithStart(update_header(k, "bytes", k.d_total_seg_size))
        w   == write_header([new EXCEPT !.at = @ - seg - LastHeader(k)])
    IN  [w EXCEPT !.at = @ + seg]

write_and_update(k) == write_header(WithStart(update_header(k, "bytes", 0)))

\* Mutant: the time of the items between is forgotten.
update_rx_time_still(k) == k
update_rx_time(k) ==
    [k EXCEPT !.d_header.rx_time =
        @ + (2 * k.d_total_seg_size) \div (k.d_samp_rate * fsetup.relative)]

NextSegment(k) == [write_and_update(update_rx_time(update_last_header(k))) EXCEPT !.d_total_seg_size = 0]

\* fwrite of the items up to, and not with, item `to'.
WriteItems(k, to) ==
    LET cells == [n \in 1 .. to - k.nitems_read |-> ItemCell(k.nitems_read + n - 1)]
        w == IF Inline THEN [k EXCEPT !.headers = Overwritten(@, k.at, cells), !.at = @ + Len(cells)]
             ELSE [k EXCEPT !.data = @ \o cells]
    IN  [w EXCEPT !.d_total_seg_size = @ + Len(cells), !.nitems_read = to]

\* Whole segments up to item `to'; a segment full there is closed only if
\* `last', for otherwise a tag closes it.
RECURSIVE WriteUpTo(_, _, _)
WriteUpTo(k, to, last) ==
    IF k.nitems_read = to THEN k
    ELSE LET room == fsetup.max_seg_size - k.d_total_seg_size
             stop == Least(k.nitems_read + room, to)
             w    == WriteItems(k, stop)
         IN  WriteUpTo(IF w.d_total_seg_size = fsetup.max_seg_size /\ (last \/ stop < to)
                       THEN NextSegment(w) ELSE w, to, last)

WriteTag(k, t) ==
    IF k.d_total_seg_size > 0
    THEN [write_and_update(update_header(update_last_header(k), t.key, t.value)) EXCEPT !.d_total_seg_size = 0]
    ELSE update_last_header(update_header(k, t.key, t.value))

\* sink work on n items, with their tags in the order of the stream.
SinkWork(n) ==
    LET first == sink.nitems_read
        tags  == SelectSeq(fsetup.tags, LAMBDA t : t.offset >= first /\ t.offset < first + n)
        step(k, t) == WriteTag(WriteUpTo(k, t.offset, FALSE), t)
    IN  /\ sink.open /\ n \in 1 .. fsetup.nitems - first
        /\ sink' = WriteUpTo(FoldLeft(step, sink, tags), first + n, TRUE)
        /\ UNCHANGED <<fsetup, source>>

\* Mutant: the file is closed as it is.
Closed_asis(k) == k
Closed(k) == update_last_header(k)

\* close(), when the flowgraph is gone; the source opens the file after it.
SinkClose ==
    /\ sink.open
    /\ sink' = [Closed(sink) EXCEPT !.open = FALSE]
    /\ UNCHANGED <<fsetup, source>>

-----------------------------------------------------------------------------
(* The source.  d_seg_size counts items.  The constructor reads the first    *)
(* header like work does the later ones.                                     *)
SourceInit == [at |-> 0, hat |-> 0, d_seg_size |-> 0, d_tags |-> {}, begun |-> FALSE, done |-> FALSE,
               items |-> <<>>, tags |-> {}]

DataFile == IF Inline THEN sink.headers ELSE sink.data

\* What read_header finds at the place it reads from, if there is a header.
HeaderAt(p) == sink.headers[p + 1].h
HasHeader(p) ==
    /\ p < Len(sink.headers) /\ sink.headers[p + 1].is = "header"
    /\ p + HeaderAt(p).strt <= Len(sink.headers)
    /\ \A n \in p + 2 .. p + HeaderAt(p).strt : sink.headers[n].is = "extra"

\* Mutant: the tags are put where the first segment starts.
TagOffset_first(r) == 0
TagOffset(r) == Len(r.items)

TagOf(r, key, value) == [offset |-> TagOffset(r), key |-> key, value |-> value]

\* read_header, parse_header and parse_extras.
ReadHeader(r) ==
    LET p == IF Inline THEN r.at ELSE r.hat
        h == HeaderAt(p)
        extras == SubSeq(sink.headers, p + 2, p + h.strt)
        moved == IF Inline THEN [r EXCEPT !.at = p + h.strt] ELSE [r EXCEPT !.hat = p + h.strt]
    IN  [moved EXCEPT !.d_seg_size = h.bytes,
            !.d_tags = {TagOf(r, "rx_rate", h.rx_rate), TagOf(r, "rx_time", h.rx_time)}
                       \cup {TagOf(r, e.key, e.value) : e \in {extras[n] : n \in DOMAIN extras}}]

SourceOpen ==
    /\ ~sink.open /\ ~source.begun /\ HasHeader(0)
    /\ source' = [ReadHeader(source) EXCEPT !.begun = TRUE]
    /\ UNCHANGED <<fsetup, sink>>

\* fread from the data file: what is asked for, of the segment, of the file.
Produce(r, n) ==
    LET size == Least(n, Least(r.d_seg_size, Len(DataFile) - r.at))
    IN  [r EXCEPT !.items = @ \o SubSeq(DataFile, r.at + 1, r.at + size), !.at = @ + size,
                  !.d_seg_size = @ - size, !.tags = @ \cup r.d_tags, !.d_tags = {}]

\* source work for n items; at the end of the headers either done, or back to
\* the start of the data file: detached headers are not wound back.
SourceWork(n) ==
    LET p == IF Inline THEN source.at ELSE source.hat
    IN  /\ source.begun /\ ~source.done /\ Len(source.items) < fsetup.toread
        /\ source' = IF source.d_seg_size > 0 THEN Produce(source, n)
                     ELSE IF HasHeader(p) THEN Produce(ReadHeader(source), n)
                     ELSE IF fsetup.repeat THEN Produce([source EXCEPT !.at = 0], n)
                     ELSE [source EXCEPT !.done = TRUE]
        /\ UNCHANGED <<fsetup, sink>>

-----------------------------------------------------------------------------
FInit == fsetup \in FileSetups /\ sink = SinkInit(fsetup) /\ source = SourceInit

FNext == SinkClose \/ SourceOpen \/ \E n \in 1 .. MaxChunk : SinkWork(n) \/ SourceWork(n)

-----------------------------------------------------------------------------
\* What the header should say of a key at item o: the last of the tags up to
\* there, or what the sink was made with.
TagsUpTo(key, o) == SelectSeq(fsetup.tags, LAMBDA t : t.key = key /\ t.offset <= o)
Latest(key, o) ==
    LET ts == TagsUpTo(key, o)
    IN  IF ts = <<>> THEN IF key = "rx_rate" THEN {fsetup.rate}
                          ELSE {fsetup.extra[n][2] : n \in {m \in DOMAIN fsetup.extra : fsetup.extra[m][1] = key}}
        ELSE {ts[Len(ts)].value * (IF key = "rx_rate" THEN fsetup.relative ELSE 1)}

\* The stream as it was written; a repeated file starts over.
Written == sink.nitems_read

(* However the calls of the two blocks cut the stream, and wherever tags and *)
(* full segments end one, the items come back in their order, all of them    *)
(* before the end, and none of the headers between them.                     *)
ItemsBack ==
    /\ \A n \in DOMAIN source.items : source.items[n] = ItemCell((n - 1) % Written)
    /\ source.done => Len(source.items) = Written

(* Each tag comes back at its item, and no header carries a value to an item *)
(* that a later tag had already replaced or an earlier one not yet set.      *)
TagsBack ==
    LET told == {t \in source.tags : t.key # "rx_time" /\ t.offset < Written}
    IN  /\ \A t \in told : t.value \in Latest(t.key, t.offset)
        /\ \A n \in DOMAIN fsetup.tags :
              LET t == fsetup.tags[n] IN
              (t.offset < Len(source.items) /\ t.offset < Written /\ t.key # "rx_time") =>
                  \E u \in told : u.offset = t.offset /\ u.key = t.key /\ u.value \in Latest(t.key, t.offset)

(* Where every tag comes with the time, each header tells the true time of   *)
(* the first item of its segment.                                            *)
TimeTrue ==
    fsetup.timed => \A t \in source.tags :
        (t.key = "rx_time" /\ t.offset < Written) =>
            LET ts   == TagsUpTo("rx_time", t.offset)
                base == IF ts = <<>> THEN [offset |-> 0, value |-> 0] ELSE ts[Len(ts)]
                rs   == TagsUpTo("rx_rate", t.offset)
                rate == IF rs = <<>> THEN fsetup.rate ELSE rs[Len(rs)].value
            IN  t.value = base.value + (2 * (t.offset - base.offset)) \div (rate * fsetup.relative)
=============================================================================
