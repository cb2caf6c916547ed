------------------------------ MODULE FileSinks ------------------------------
(***************************************************************************)
(* The sinks to files whose handles and names matter: file_sink_base, and   *)
(* tagged_file_sink below.                                                  *)
(*                                                                         *)
(* file_sink_base and file_sink: other threads open and close the file      *)
(* while work writes.  They leave the handle in d_new_fp under the mutex;    *)
(* work looks at d_updated without it and takes the handle over before it    *)
(* writes.                                                                 *)
(***************************************************************************)
EXTENDS Integers, Sequences, SequencesExt

CONSTANTS
    MaxHandles,   \* bound: files opened
    MaxWorks      \* bound: calls of work

VARIABLES
    handles,  \* the FILEs in the order they were opened: how often closed, the calls written
    d_fp, d_new_fp,  \* 0: none
    d_updated,
    stage,    \* where work is
    works,    \* calls of work begun
    asked,    \* history: the file last asked for, 0 after close
    askedbefore, \* history: the files asked for when the call began or since
    gone      \* the block has been destroyed

hvars == <<handles, d_fp, d_new_fp, d_updated, stage, works, asked, askedbefore, gone>>

NewHandle == [closed |-> 0, got |-> <<>>]
fclose(hs, h) == IF h = 0 THEN hs ELSE [hs EXCEPT ![h].closed = @ + 1]

\* The constructor has opened the first file.
HInit ==
    /\ handles = <<NewHandle>> /\ d_fp = 0 /\ d_new_fp = 1 /\ d_updated = TRUE
    /\ stage = "idle" /\ works = 0 /\ asked = 1 /\ askedbefore = {} /\ gone = FALSE

Asks(h) ==
    /\ asked' = h
    /\ askedbefore' = IF stage = "idle" THEN askedbefore ELSE askedbefore \cup {h}

open ==
    /\ ~gone /\ Len(handles) < MaxHandles
    /\ handles' = Append(fclose(handles, d_new_fp), NewHandle)
    /\ d_new_fp' = Len(handles) + 1 /\ d_updated' = TRUE
    /\ Asks(Len(handles) + 1)
    /\ UNCHANGED <<d_fp, stage, works, gone>>

\* fdopen fails: the handle that waited is closed, and none takes its place.
open_fails ==
    /\ ~gone /\ d_new_fp # 0
    /\ handles' = fclose(handles, d_new_fp)
    /\ d_new_fp' = 0 /\ d_updated' = TRUE
    /\ Asks(0)
    /\ UNCHANGED <<d_fp, stage, works, gone>>

close ==
    /\ ~gone /\ asked # 0
    /\ handles' = fclose(handles, d_new_fp)
    /\ d_new_fp' = 0 /\ d_updated' = TRUE
    /\ Asks(0)
    /\ UNCHANGED <<d_fp, stage, works, gone>>

\* work, up to the look at d_updated.
BeginWork ==
    /\ ~gone /\ stage = "idle" /\ works < MaxWorks
    /\ works' = works + 1 /\ askedbefore' = {asked}
    /\ stage' = IF d_updated THEN "update" ELSE "write"
    /\ UNCHANGED <<handles, d_fp, d_new_fp, d_updated, asked, gone>>

\* Mutant: without a new file the old one is kept.
Replacement_kept(fp, new) == IF new = 0 THEN fp ELSE new
Replacement(fp, new) == new

\* Mutant: the old one is not closed.
Retired_open(hs, h) == hs
Retired(hs, h) == fclose(hs, h)

do_update ==
    /\ stage = "update" /\ stage' = "write"
    /\ handles' = Retired(handles, d_fp)
    /\ d_fp' = Replacement(d_fp, d_new_fp) /\ d_new_fp' = 0 /\ d_updated' = FALSE
    /\ UNCHANGED <<works, asked, askedbefore, gone>>

\* The items of the call; without a file they are dropped.
Write ==
    /\ stage = "write" /\ stage' = "idle"
    /\ handles' = IF d_fp = 0 THEN handles ELSE [handles EXCEPT ![d_fp].got = Append(@, works)]
    /\ UNCHANGED <<d_fp, d_new_fp, d_updated, works, asked, askedbefore, gone>>

\* The destructor, when the flowgraph has let go of the block.
Destroy ==
    /\ ~gone /\ stage = "idle" /\ gone' = TRUE
    /\ handles' = fclose(fclose(handles, d_new_fp), d_fp)
    /\ d_new_fp' = 0 /\ d_updated' = TRUE /\ d_fp' = 0
    /\ UNCHANGED <<stage, works, asked, askedbefore>>

HNext == open \/ open_fails \/ close \/ BeginWork \/ do_update \/ Write \/ Destroy

(* However open and close fall between the steps of work, what a call writes *)
(* goes to a file that was asked for when the call began or while it ran,    *)
(* and is dropped only if a close was: no call writes to a file that had     *)
(* been replaced before.                                                     *)
HandedOver == stage = "write" => d_fp \in askedbefore

(* Every handle is closed once: those work has, or has not yet taken over,   *)
(* not at all, and all the others, which includes all of them at the end.    *)
HandlesClosed ==
    \A h \in DOMAIN handles : handles[h].closed = IF h \in {d_fp, d_new_fp} THEN 0 ELSE 1

(* file_sink_base as a whole, with other threads in open() and close().      *)
HandlesKept == HandedOver /\ HandlesClosed

-----------------------------------------------------------------------------
(***************************************************************************)
(* tagged_file_sink: a file for each burst, from the item with a tag of     *)
(* value true to the one with a tag of value false, named after the time of *)
(* its first item.                                                          *)
(***************************************************************************)
CONSTANTS
    BurstSetups,  \* streams: how many items, and the tags in the order of their offsets
    MaxBurstCall, \* the most items of one call of work
    Huge          \* no less than an unsigned difference below zero

VARIABLES
    bsetup,   \* the stream
    bread,    \* nitems_read
    burst     \* d_state, d_timeval, d_last_N, the files; idx is work's own, an offset of the stream

gvars == <<bsetup, bread, burst>>

GInit ==
    /\ bsetup \in BurstSetups /\ bread = 0
    /\ burst = [in_burst |-> FALSE, d_timeval |-> 0, d_last_N |-> 0, idx |-> 0, files |-> <<>>]

\* get_tags_in_range for times; time is counted in items.
Times(lo, hi) == SelectSeq(bsetup.tags, LAMBDA t : t.key = "rx_time" /\ t.offset >= lo /\ t.offset < hi)

\* The first time tag of the call: its offset is added though it tells its own
\* item's time.
SeenTime(g, n) ==
    LET ts == Times(bread, bread + n)
    IN  IF ts = <<>> THEN g
        ELSE [g EXCEPT !.d_timeval = ts[1].value + ts[1].offset, !.d_last_N = ts[1].offset]

\* Mutant: the last burst's place is forgotten.
Elapsed_fromstart(g, N) == N
Elapsed(g, N) == IF N >= g.d_last_N THEN N - g.d_last_N ELSE Huge

\* The time of the burst that begins at item N: from the last time tag since
\* d_last_N, where tags of earlier calls may be gone from the buffer, or counted
\* on from d_last_N.
BurstTime(g, N, kept) ==
    LET ts == SelectSeq(Times(g.d_last_N, N), LAMBDA t : kept \/ t.offset >= bread)
    IN  IF ts # <<>> THEN ts[Len(ts)].value + N - ts[Len(ts)].offset ELSE g.d_timeval + Elapsed(g, N)

StartBurst(g, N, kept) ==
    LET time == BurstTime(g, N, kept)
    IN  [in_burst |-> TRUE, d_timeval |-> time, d_last_N |-> N, idx |-> N,
         files |-> Append(g.files, [time |-> time, items |-> <<>>])]

\* fwrite of the items from idx to below hi.
WriteBurst(g, hi) ==
    [g EXCEPT !.files[Len(g.files)].items = @ \o [k \in 1 .. hi - g.idx |-> g.idx + k - 1], !.idx = hi]

\* Mutant: a burst that goes on is written from where it began.
Begin_burst(g) == [g EXCEPT !.idx = IF g.in_burst THEN g.d_last_N ELSE bread]
Begin(g) == [g EXCEPT !.idx = bread]

\* A burst tag's value: 1 for true, 0 for false.
IsTrue(t) == t.value = 1

\* The loop of work: each burst tag in its turn, whose value is wanted, and what
\* is left of the call for a burst that goes on.
BurstTag(g, t, kept) ==
    CASE t.key # "burst"          -> g
      [] IsTrue(t) /\ ~g.in_burst  -> StartBurst(g, t.offset, kept)
      [] ~IsTrue(t) /\ g.in_burst  -> [WriteBurst(g, t.offset) EXCEPT !.in_burst = FALSE]
      [] OTHER                    -> g

TaggedWork(n, kept) ==
    LET here == SelectSeq(bsetup.tags, LAMBDA t : t.offset >= bread /\ t.offset < bread + n)
        g == FoldLeft(LAMBDA acc, t : BurstTag(acc, t, kept), SeenTime(Begin(burst), n), here)
    IN  /\ bread + n <= bsetup.nitems
        /\ burst' = IF g.in_burst THEN WriteBurst(g, bread + n) ELSE g
        /\ bread' = bread + n
        /\ UNCHANGED bsetup

GNext == \E n \in 1 .. MaxBurstCall, kept \in BOOLEAN : TaggedWork(n, kept)

-----------------------------------------------------------------------------
\* The tags that open a file: those of value true that come when none is open.
BurstTags == SelectSeq(bsetup.tags, LAMBDA t : t.key = "burst")
Opens(n) ==
    /\ IsTrue(BurstTags[n])
    /\ \A m \in 1 .. n - 1 : IsTrue(BurstTags[m]) => \E k \in m + 1 .. n - 1 : ~IsTrue(BurstTags[k])
Openers == SelectSeq([n \in DOMAIN BurstTags |-> n], Opens)
EndOf(n) ==
    LET ends == {BurstTags[m].offset : m \in {k \in n + 1 .. Len(BurstTags) : ~IsTrue(BurstTags[k])}} \cup {bread}
    IN  CHOOSE e \in ends : \A x \in ends : e <= x
Begun == SelectSeq(Openers, LAMBDA n : BurstTags[n].offset < bread)

(* However the calls cut the stream, each burst has its file, with its items *)
(* from the first to the one before the end, also where a burst ends and the *)
(* next begins on one item, and no other item is in any file.                *)
BurstsFiled ==
    /\ Len(burst.files) = Len(Begun)
    /\ \A f \in DOMAIN burst.files :
          LET first == BurstTags[Begun[f]].offset
          IN  burst.files[f].items = [k \in 1 .. EndOf(Begun[f]) - first |-> first + k - 1]

(* If the only time tag is on the first item, each file is named after the   *)
(* true time of its burst, however many calls and bursts lie in between, and *)
(* whether the buffer still has that tag or not.                             *)
BurstTimes ==
    bsetup.timed => \A f \in DOMAIN burst.files :
        burst.files[f].time = Times(0, 1)[1].value + BurstTags[Begun[f]].offset
=============================================================================
