----------------------------- MODULE SignalBlocks -----------------------------
(* The blocks whose output depends on what they have seen before (delay,     *)
(* moving_average, integrate, sample_and_hold, threshold_ff, regenerate_bb,  *)
(* peak_detector2_fb, bin_statistics_f, check_lfsr_32k_s), those that add    *)
(* tags of their own or read them, and the blocks of packets (gr-blocks/lib).*)
EXTENDS RateBlocks

\* For i in 0 .. noutput_items - 1: Each(acc, i), from acc = [s, out, tags].
OverItems(b, s, c, Each(_, _)) ==
    LET r == FoldLeft(Each, [s |-> s, out |-> <<>>, tags |-> {}], [i \in 1 .. c.n |-> i - 1])
    IN  SyncResult(b, r.s, r.out, r.tags)

\* d_delta < 0: items are read and dropped.  d_delta > 0: places are put in for
\* which nothing is read.  They are meant for zeros before the items, but the
\* items are copied to the start of the output, over the zeros: the places come
\* after the items, and what is not zeroed keeps what an earlier lap left there.
delay(b, s, c) ==
    LET skip   == Least(-s.d_delta, c.n)
        pad    == Least(s.d_delta, c.n)
        Out(n, Item_(_)) == [i \in 1 .. b.nout |-> [k \in 1 .. n |-> Item_(<<i, k>>)]]
        used(n) == [i \in 1 .. b.nin |-> n]
    IN  IF s.d_delta = 0
        THEN Result(s, used(c.n), Out(c.n, LAMBDA ik : Item(c, ik[1], ik[2] - 1)), {})
        ELSE IF s.d_delta < 0
        THEN Result([s EXCEPT !.d_delta = @ + skip], used(c.n),
                    Out(c.n - skip, LAMBDA ik : Item(c, ik[1], ik[2] - 1 - s.d_delta)), {})
        ELSE Result([s EXCEPT !.d_delta = @ - pad], used(c.n - pad),
                    Out(c.n, LAMBDA ik : IF ik[2] <= c.n - pad THEN Item(c, ik[1], ik[2] - 1)
                                         ELSE IF ik[2] <= pad THEN 0 ELSE Stale), {})

\* dly() is history() - 1.
set_dly_restarts(s, d) == [s EXCEPT !.dly = d, !.d_delta = d - s.dly]
set_dly(s, d) ==
    IF d = s.dly THEN s ELSE [s EXCEPT !.dly = d, !.d_delta = @ + d - s.dly]

\* The sum is kept from item to item and made again at every call, over
\* d_length - 1 items of history; d_scale is one.
moving_average(b, s, c) ==
    LET last  == b.d_length - 1
        first == FoldLeft(LAMBDA sum, i : sum + Item(c, 1, i), Item(c, 1, 0), [i \in 1 .. last - 1 |-> i])
        num_iter == Least(c.n, b.d_max_iter)
        Each(acc, i) ==
            LET sum == acc.sum + Item(c, 1, i + last) IN
            [sum |-> sum - Item(c, 1, i), out |-> Append(acc.out, sum)]
        r == FoldLeft(Each, [sum |-> first, out |-> <<>>], [i \in 1 .. num_iter |-> i - 1])
    IN  SyncResult(b, s, r.out, {})

integrate(b, s, c) ==
    SyncResult(b, s, [m \in 1 .. c.n |->
        FoldLeft(LAMBDA sum, x : sum + x, 0, Copied(c, 1, (m - 1) * b.decimation, b.decimation))], {})

sample_and_hold(b, s, c) ==
    LET Each(acc, i) ==
            LET data == IF Item(c, 2, i) # 0 THEN Item(c, 1, i) ELSE acc.s.d_data IN
            [acc EXCEPT !.s.d_data = data, !.out = Append(@, data)]
    IN  OverItems(b, s, c, Each)

threshold_ff(b, s, c) ==
    LET Each(acc, i) ==
            LET x == Item(c, 1, i)
                y == IF x > b.d_hi THEN 1 ELSE IF x < b.d_lo THEN 0 ELSE acc.s.d_last_state
            IN  [acc EXCEPT !.s.d_last_state = y, !.out = Append(@, y)]
    IN  OverItems(b, s, c, Each)

regenerate_bb(b, s, c) ==
    LET Each(acc, i) ==
            LET counting == acc.s.d_regen_count < b.d_max_regen
                down     == IF counting THEN acc.s.d_countdown - 1 ELSE acc.s.d_countdown
                again    == counting /\ down = 0
                trigger  == Item(c, 1, i) = 1
            IN  [acc EXCEPT !.out = Append(@, IF trigger \/ again THEN 1 ELSE 0),
                            !.s = [d_countdown   |-> IF trigger \/ again THEN b.d_period ELSE down,
                                   d_regen_count |-> IF trigger THEN 0
                                                     ELSE IF again THEN @.d_regen_count + 1
                                                     ELSE @.d_regen_count]]
    IN  OverItems(b, s, c, Each)

burst_tagger(b, s, c) ==
    LET Each(acc, i) ==
            LET on == Item(c, 2, i) > 0 IN
            [acc EXCEPT !.out = Append(@, Item(c, 1, i)), !.s.d_state = on,
                        !.tags = IF on = acc.s.d_state THEN @
                                 ELSE @ \cup {[offset |-> c.wr[1] + i, value |-> on]}]
    IN  OverItems(b, s, c, Each)

\* while (nitems - d_offset) > d_nsamps.
tags_strobe(b, s, c) ==
    LET beats == (c.wr[1] + c.n - s.d_offset - 1) \div b.d_nsamps
        at(k) == s.d_offset + k * b.d_nsamps
    IN  SyncResult(b, [d_offset |-> at(beats)], [k \in 1 .. c.n |-> 0],
                   {[offset |-> at(k), value |-> "strobe"] : k \in 1 .. beats})

\* A tag at every d_next_tag_pos below nitems_written(0) + noutput_items.
stream_to_tagged_stream_anew(b, s, c) ==
    LET count == (c.n + b.d_packet_len - 1) \div b.d_packet_len
    IN  SyncResult(b, s, Copied(c, 1, 0, c.n),
                   {[offset |-> c.wr[1] + k * b.d_packet_len, value |-> b.d_packet_len] : k \in 0 .. count - 1})
stream_to_tagged_stream(b, s, c) ==
    LET ahead == c.wr[1] + c.n - s.d_next_tag_pos
        count == IF ahead <= 0 THEN 0 ELSE (ahead + b.d_packet_len - 1) \div b.d_packet_len
        at(k) == s.d_next_tag_pos + k * b.d_packet_len
    IN  SyncResult(b, [d_next_tag_pos |-> at(count)], Copied(c, 1, 0, c.n),
                   {[offset |-> at(k), value |-> b.d_packet_len] : k \in 0 .. count - 1})

\* Without propagation, every tag but those of the single key is put again; the
\* tags of the items that b.gated holds have that key.
tag_gate(b, s, c) ==
    SyncResult(b, s, Copied(c, 1, 0, c.n),
               IF b.d_single_key_set /\ ~b.d_propagate_tags
               THEN {t \in InWindow(c, 1, 0, c.n) : t.offset \notin b.gated}
               ELSE {})

\* d_k is the value of the last tag that came; a value that is no number leaves
\* it.  b.gains is the function from the offsets of the tags to their values.
multiply_by_tag_value_late(b, s, c) ==
    LET here == {o \in DOMAIN b.gains : o >= c.rd[1] /\ o < c.rd[1] + c.n /\ b.gains[o][1] = "number"}
        last == CHOOSE o \in here : \A x \in here : x <= o
    IN  SyncResult(b, IF here = {} THEN s ELSE [d_k |-> b.gains[last][2]],
                   [m \in 1 .. c.n |-> s.d_k * Item(c, 1, m - 1)], {})
multiply_by_tag_value(b, s, c) ==
    LET Each(acc, i) ==
            LET o == c.rd[1] + i
                k == IF o \in DOMAIN b.gains /\ b.gains[o][1] = "number" THEN b.gains[o][2] ELSE acc.s.d_k
            IN  [acc EXCEPT !.s.d_k = k, !.out = Append(@, k * Item(c, 1, i))]
    IN  OverItems(b, s, c, Each)

\* The average moves half way to each item (d_alpha), and an item half as much
\* again as it (d_threshold_factor_rise) begins the search for the highest of
\* d_look_ahead items, for which the block waits by its output multiple; the
\* item is then averaged once more.  Numbers are powers of two apart.
Average(d_avg, x) == (x + d_avg) \div 2
Crosses(x, d_avg) == 2 * x > 3 * d_avg
Searching(s) == [s EXCEPT !.d_found = FALSE, !.output_multiple = 1]

peak_detector2_fb(b, s, c) ==
    LET x == Copied(c, 1, 0, c.n)
        avg[i \in 0 .. c.n] == IF i = 0 THEN s.d_avg ELSE Average(avg[i - 1], x[i])
        over == {i \in 1 .. c.n : Crosses(x[i], avg[i])}
        first == CHOOSE i \in over : \A j \in over : i <= j
        L    == b.d_look_ahead
        peak == CHOOSE i \in 1 .. L : (\A j \in 1 .. L : x[j] <= x[i]) /\ (\A j \in 1 .. i - 1 : x[j] < x[i])
        Out(st, n, hot) == Result(st, <<n>>, <<[i \in 1 .. n |-> IF i = hot THEN 1 ELSE 0],
                                               [i \in 1 .. n |-> avg[i]]>>, {})
    IN  IF ~s.d_found
        THEN IF over = {} THEN Out([s EXCEPT !.d_avg = avg[c.n]], c.n, 0)
             ELSE Out([d_found |-> TRUE, output_multiple |-> L, d_avg |-> avg[first]], first - 1, 0)
        ELSE IF c.n >= L THEN Out(Searching([s EXCEPT !.d_avg = avg[L]]), L, peak)
        ELSE Out(s, 0, 0)

\* Tunes, lets d_tune_delay items go by, takes the maximum of d_dwell_delay items
\* (vlen is 1) and puts it into a queue, if that is not full.  The n-th call of
\* d_tune returns the frequency n; the messages stand for the output.
enter_tune_delay(b, s) ==
    [s EXCEPT !.d_state = "ST_TUNE_DELAY", !.d_delay = b.d_tune_delay, !.d_center_freq = @ + 1]
enter_dwell_delay(b, s) == [s EXCEPT !.d_state = "ST_DWELL_DELAY", !.d_delay = b.d_dwell_delay, !.d_max = 0]

bin_statistics_f(b, s, c) ==
    LET RECURSIVE Loop(_, _, _)
        Loop(st, n, sent) ==
            LET t     == Least(c.n - n, st.d_delay)
                later == [st EXCEPT !.d_delay = @ - t]
                dwelt == [later EXCEPT !.d_max = FoldLeft(Most, @, Copied(c, 1, n, t))]
                full_p == c.wr[1] + Len(sent) >= b.limit
            IN  IF n >= c.n THEN Result(st, <<c.n>>, <<sent>>, {})
                ELSE CASE st.d_state = "ST_INIT" -> Loop(enter_tune_delay(b, st), n, sent)
                       [] st.d_state = "ST_TUNE_DELAY" ->
                            Loop(IF later.d_delay = 0 THEN enter_dwell_delay(b, later) ELSE later, n + t, sent)
                       [] st.d_state = "ST_DWELL_DELAY" ->
                            IF dwelt.d_delay > 0 THEN Loop(dwelt, n + t, sent)
                            ELSE Loop(enter_tune_delay(b, dwelt), n + t,
                                      IF full_p THEN sent ELSE Append(sent, <<dwelt.d_center_freq, dwelt.d_max>>))
    IN  Loop(s, 0, <<>>)

\* right() and wrong(); of d_history the last three decisions matter.
Judged(s, ok) ==
    [s EXCEPT !.d_history = Tail(@) \o <<ok>>, !.d_runlength = IF ok THEN @ + 1 ELSE 0]
enter_SEARCHING(s) ==
    [s EXCEPT !.d_state = "MATCH0", !.d_history = <<FALSE, FALSE, FALSE>>, !.d_runlength = 0, !.d_index = 0]
enter_LOCKED(s) ==
    [Judged(Judged(Judged(s, TRUE), TRUE), TRUE) EXCEPT !.d_state = "LOCKED", !.d_index = 3]

\* Three items in a row as the sequence begins lock it, three wrong ones in a
\* row unlock it.
check_lfsr_32k_s(b, s, c) ==
    LET BUFSIZE == Len(b.d_buffer)
        Matched(st, k, x, then) == IF x = b.d_buffer[k] THEN then ELSE [st EXCEPT !.d_state = "MATCH0"]
        Each(st, x) ==
            LET ok   == x = b.d_buffer[st.d_index + 1]
                seen == Judged([st EXCEPT !.d_index = (@ + 1) % BUFSIZE], ok)
            IN  CASE st.d_state = "MATCH0" -> Matched(st, 1, x, [st EXCEPT !.d_state = "MATCH1"])
                  [] st.d_state = "MATCH1" -> Matched(st, 2, x, [st EXCEPT !.d_state = "MATCH2"])
                  [] st.d_state = "MATCH2" -> Matched(st, 3, x, enter_LOCKED(st))
                  [] st.d_state = "LOCKED" ->
                        IF seen.d_history = <<FALSE, FALSE, FALSE>> THEN enter_SEARCHING(seen) ELSE seen
    IN  Result(FoldLeft(Each, s, Copied(c, 1, 0, c.n)), <<c.n>>, <<>>, {})

\* Every d_when items each output is given a tag, with the next number of all.
Numbered(b, s, c, nout) ==
    LET hits == {i \in 0 .. c.n - 1 : (c.wr[1] + i) % b.d_when = 0}
        Before(i) == Cardinality({j \in hits : j < i})
    IN  [st |-> [s EXCEPT !.d_tag_counter = @ + nout * Cardinality(hits)],
         tags |-> {[offset |-> c.wr[1] + i, value |-> s.d_tag_counter + nout * Before(i)] : i \in hits}]

annotator_alltoall(b, s, c) ==
    LET r == Numbered(b, s, c, b.nout)
        Sum(k) == FoldLeft(LAMBDA x, i : x + Item(c, i, k), 0, [i \in 1 .. b.nin |-> i])
    IN  Result(r.st, [i \in 1 .. b.nin |-> c.n], [p \in 1 .. b.nout |-> [m \in 1 .. c.n |-> Sum(m - 1)]], r.tags)

annotator_1to1(b, s, c) ==
    LET r == Numbered(b, s, c, Least(b.nout, b.nin)) IN
    Result(r.st, [i \in 1 .. b.nin |-> c.n], [p \in 1 .. b.nout |-> Copied(c, p, 0, c.n)], r.tags)

\* What the sink keeps, in d_data and d_tags, stands for its output.
vector_sink(b, s, c) == SyncResult(b, s, Copied(c, 1, 0, c.n), InWindow(c, 1, 0, c.n))

\* d_scalar is a fraction; from_long cuts the product.
set_scalar(s, scalar) == [s EXCEPT !.d_scalar = scalar]
tagged_stream_multiply_length(b, s, c) ==
    LET Scaled(o) == (b.lengths[1][o] * s.d_scalar[1]) \div s.d_scalar[2]
        here == {o \in DOMAIN b.lengths[1] : o >= c.rd[1] /\ o < c.rd[1] + c.n}
    IN  SyncResult(b, s, Copied(c, 1, 0, c.n),
                   InWindow(c, 1, 0, c.n) \cup {[offset |-> o, value |-> <<0, Scaled(o)>>] : o \in here})

-----------------------------------------------------------------------------
(* tagged_stream_block (gnuradio-runtime/lib): work is called with one whole *)
(* packet of each input, whose length a tag on its first item tells.  Its    *)
(* blocks here are tagged_stream_mux, tsb_vector_sink and repack_bits_bb in  *)
(* packet mode; tagged_stream_align waits for the first such tag.            *)
(*                                                                           *)
(* b.lengths[i] is the function from the offset of a packet's first item at  *)
(* input i to the packet's length: where the length tags are.                *)
\* get_tags_in_range over the first item of each input: -1 if no length tag is
\* there, or it has been removed with remove_item_tag.
parse_length_tags(b, s, c) ==
    [i \in 1 .. b.nin |-> IF c.rd[i] \in DOMAIN b.lengths[i] /\ <<i, c.rd[i]>> \notin s.removed
                           THEN b.lengths[i][c.rd[i]] ELSE -1]

SumOf(f) == FoldLeft(LAMBDA x, y : x + y, 0, f)

calculate_output_stream_length(b, reqd) ==
    IF b.kind # "repack_bits_bb" THEN SumOf(reqd)
    ELSE LET bits == reqd[1] * b.d_k
         IN  (bits \div b.d_l) + (IF bits % b.d_l # 0 /\ ~(b.d_packet_mode /\ b.d_align_output) THEN 1 ELSE 0)

\* Tags keep their place in their packet; those on the first item of the packet
\* of input tag_preserve_head_pos go to the head of the output.
tagged_stream_mux(b, s, c, reqd) ==
    LET Before(i) == SumOf(SubSeq(reqd, 1, i - 1))
        At(i, t) == t.offset - c.rd[i] + c.wr[1]
                    + (IF i - 1 = b.d_tag_preserve_head_pos /\ t.offset = c.rd[i] THEN 0 ELSE Before(i))
    IN  [out  |-> FlattenSeq([i \in 1 .. b.nin |-> Copied(c, i, 0, reqd[i])]),
         st   |-> s,
         tags |-> UNION {{[t EXCEPT !.offset = At(i, t)] : t \in InWindow(c, i, 0, reqd[i])} : i \in 1 .. b.nin}]

\* The packets the sink keeps stand for its output, which has no length tags.
tsb_vector_sink(b, s, c, reqd) ==
    [out |-> <<Copied(c, 1, 0, reqd[1])>>, st |-> s, tags |-> InWindow(c, 1, 0, reqd[1])]

PacketWork(b, s, c, reqd) ==
    IF b.kind = "tagged_stream_mux" THEN tagged_stream_mux(b, s, c, reqd)
    ELSE IF b.kind = "tsb_vector_sink" THEN tsb_vector_sink(b, s, c, reqd)
    ELSE LET bits == reqd[1] * b.d_k
             bytes == (bits \div b.d_l) + (IF ~b.d_align_output /\ bits % b.d_l # 0 THEN 1 ELSE 0)
             r == repack_bits(b, s, c, bytes, reqd[1])
         IN  [out |-> r.out, st |-> r.st, tags |-> {}]

\* Nothing is consumed or produced: the lengths are kept for the next call, in
\* which their tags are no longer there.
Waits_forgetting(b, s) == [WorkDone(b, [s EXCEPT !.reqd = [i \in 1 .. b.nin |-> 0]]) EXCEPT !.done = FALSE]
Waits(b, s) == [WorkDone(b, s) EXCEPT !.done = FALSE]

tsb_general_work(b, s, c) ==
    LET reads  == s.reqd[1] = 0
        reqd   == IF reads THEN parse_length_tags(b, s, c) ELSE s.reqd
        known  == [s EXCEPT !.reqd = reqd, !.removed = IF reads THEN {<<i, c.rd[i]>> : i \in 1 .. b.nin} ELSE @]
        need   == calculate_output_stream_length(b, reqd)
        w      == PacketWork(b, known, c, reqd)
        length == [offset |-> c.wr[1], value |-> <<0, Len(w.out)>>]
    IN  IF \E i \in 1 .. b.nin : reqd[i] = -1 THEN WorkDone(b, [known EXCEPT !.threw = TRUE])
        ELSE IF \E i \in 1 .. b.nin : reqd[i] > c.a[i] THEN Waits(b, known)
        ELSE IF c.n < need THEN Waits(b, [known EXCEPT !.min_noutput = need])
        ELSE Result([w.st EXCEPT !.reqd = [i \in 1 .. b.nin |-> 0], !.min_noutput = 1], reqd, <<w.out>>,
                    w.tags \cup (IF w.out = <<>> \/ b.kind = "tsb_vector_sink" THEN {} ELSE {length}))

\* The rate is the number of inputs, or d_k over d_l.
tsb_forecast(b, s, n) ==
    [i \in 1 .. b.nin |-> IF s.reqd[i] # 0 THEN s.reqd[i]
                          ELSE Most(1, (2 * n * b.rate[2] + b.rate[1]) \div (2 * b.rate[1]))]

\* Without a length tag's key, general_work is work: repack_bits_bb consumes itself.
repack_bits_bb(b, s, c) ==
    IF b.d_packet_mode THEN tsb_general_work(b, s, c)
    ELSE LET r == repack_bits(b, s, c, c.n, c.a[1]) IN Result(r.st, <<r.n_read>>, <<r.out>>, {})

\* Drops what comes before the first length tag, then copies.
tagged_stream_align(b, s, c) ==
    LET ncp   == Least(c.n, c.a[1])
        shift == c.wr[1] - c.rd[1]
        first == {o \in DOMAIN b.lengths[1] : o >= c.rd[1] /\ o < c.rd[1] + c.a[1]}
        sync  == CHOOSE o \in first : \A x \in first : o <= x
    IN  IF s.d_have_sync
        THEN Result(s, <<ncp>>, <<Copied(c, 1, 0, ncp)>>, Moved(InWindow(c, 1, 0, c.n), shift))
        ELSE Result([d_have_sync |-> first # {}],
                    <<IF first # {} THEN sync - c.rd[1] ELSE c.a[1]>>, <<<<>>>>, {})
=============================================================================
