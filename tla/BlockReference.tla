---------------------------- MODULE BlockReference ----------------------------
(* What each of the blocks of StreamBlocks makes of a whole stream, said of  *)
(* the stream and not of calls: which item the k-th item of an output is a   *)
(* copy of, or its value; and where the tags stand.                          *)
EXTENDS StreamBlocks

Sums(f, n) == SumOf([j \in 1 .. n |-> f[j]])

\* The j-th smallest of a finite set of numbers, from 0.
Nth(S, j) == CHOOSE x \in S : Cardinality({y \in S : y < x}) = j

\* The input (0 for the block's own data) and the index there of the k-th item
\* of output p, all counted from 0; <<>> if there is none.
Origin(b, p, k) ==
    CASE b.kind = "head" -> IF k < b.nitems THEN <<1, k>> ELSE <<>>
      [] b.kind = "skiphead" -> <<1, k + b.nitems_to_skip>>
      [] b.kind = "keep_one_in_n" -> <<1, (k + 1) * b.d_n - 1>>
      [] b.kind = "keep_m_in_n" ->
            <<1, (k \div b.d_m) * b.d_n
                 + Nth({(b.d_offset + j) % b.d_n : j \in 0 .. b.d_m - 1}, k % b.d_m)>>
      [] b.kind = "repeat" -> <<1, k \div b.interpolation>>
      [] b.kind = "interleave" ->
            LET q == k \div b.d_blocksize IN
            <<(q % b.nin) + 1, (q \div b.nin) * b.d_blocksize + (k % b.d_blocksize)>>
      [] b.kind = "deinterleave" ->
            LET q == k \div b.d_blocksize IN
            <<1, (q * b.nout + p - 1) * b.d_blocksize + (k % b.d_blocksize)>>
      [] b.kind = "stream_mux" ->
            LET round == Sums(b.d_lengths, b.nin)
                r     == k % round
                i     == CHOOSE i \in 1 .. b.nin : r >= Sums(b.d_lengths, i - 1) /\ r < Sums(b.d_lengths, i)
            IN  <<i, (k \div round) * b.d_lengths[i] + r - Sums(b.d_lengths, i - 1)>>
      [] b.kind = "patterned_interleaver" ->
            LET size == Len(b.d_pattern)
                i    == b.d_pattern[(k % size) + 1]
            IN  <<i, (k \div size) * Times(b, i)
                     + Cardinality({j \in 1 .. k % size : b.d_pattern[j] = i})>>
      [] b.kind = "vector_insert" ->
            LET at(j) == (b.s0.d_offset + j) % b.d_periodicity
                own   == at(k) < Len(b.d_data)
            IN  IF own THEN <<0, at(k)>>
                ELSE <<1, Cardinality({j \in 0 .. k - 1 : at(j) >= Len(b.d_data)})>>
      [] b.kind = "streams_to_stream" -> <<(k % b.nin) + 1, k \div b.nin>>
      [] b.kind = "stream_to_streams" -> <<1, k * b.nout + p - 1>>
      [] b.kind = "lfsr_32k_source_s" -> <<0, k % Len(b.d_buffer)>>
      [] b.kind = "vector_source" ->
            IF b.d_repeat \/ k < Len(b.d_data) THEN <<0, k % Len(b.d_data)>> ELSE <<>>
      [] b.kind = "file_source" ->
            IF b.d_repeat \/ k < b.d_length_items
            THEN <<0, b.d_start_offset_items + (k % b.d_length_items)>> ELSE <<>>
      [] b.kind = "tagged_stream_align" ->
            <<1, k + (CHOOSE o \in DOMAIN b.lengths[1] : \A x \in DOMAIN b.lengths[1] : o <= x)>>
      [] b.kind = "delay" -> IF k < b.s0.dly THEN <<0, k>> ELSE <<p, k - b.s0.dly>>
      [] b.kind \in {"burst_tagger", "stream_to_tagged_stream", "tag_gate", "annotator_1to1", "vector_sink",
                      "annotator_raw", "tag_share"} ->
            <<p, k>>

\* tagged_stream_mux: the packets of all inputs, round after round.
PacketOf(b, i, r) ==
    LET o == Nth(DOMAIN b.lengths[i], r) IN [k \in 1 .. b.lengths[i][o] |-> <<i, o + k - 1>>]
Packets(b) == [r \in 1 .. Cardinality(DOMAIN b.lengths[1]) |->
                  FlattenSeq([i \in 1 .. b.nin |-> PacketOf(b, i, r - 1)])]

\* For these blocks an item is no copy; its value in terms of the input.
Bits(b, x) == \* the bits of an item, in the order the block takes them
    LET width == CASE b.kind = "packed_to_unpacked" -> b.bits
                   [] b.kind = "unpacked_to_packed" -> b.bits_per_chunk
                   [] b.kind = "pack_k_bits" -> 1
                   [] b.kind = "unpack_k_bits" -> b.interpolation
                   [] OTHER -> b.d_k
        msb == [j \in 1 .. width |-> (x \div 2^(width - j)) % 2]
    IN  IF b.kind \in {"packed_to_unpacked", "repack_bits_bb"} /\ ~MsbFirst(b) THEN Reverse(msb) ELSE msb
Group(b) ==
    CASE b.kind = "packed_to_unpacked" -> b.bits_per_chunk
      [] b.kind = "unpacked_to_packed" -> b.bits
      [] b.kind = "pack_k_bits" -> b.decimation
      [] b.kind = "unpack_k_bits" -> 1
      [] OTHER -> b.d_l
Number(b, bits) ==
    IF b.kind \in {"unpacked_to_packed", "repack_bits_bb"} /\ ~MsbFirst(b)
    THEN FromBits(Reverse(bits)) ELSE FromBits(bits)
Joined(b, items) ==
    LET all  == FlattenSeq([k \in 1 .. Len(items) |-> Bits(b, items[k])])
        g    == Group(b)
        odd  == Len(all) % g
        pads == b.kind = "repack_bits_bb" /\ b.d_packet_mode /\ ~b.d_align_output /\ odd # 0
        full == IF pads THEN all \o [j \in 1 .. g - odd |-> 0] ELSE all
    IN  [m \in 1 .. Len(full) \div g |-> Number(b, SubSeq(full, (m - 1) * g + 1, m * g))]

\* The latest of 1 .. k for which P holds, 0 if there is none.
Latest(k, P(_)) == LET S == {j \in 1 .. k : P(j)} IN
                   IF S = {} THEN 0 ELSE CHOOSE j \in S : \A o \in S : o <= j
Value(b, k) ==
    LET x == b.x[1] IN
    CASE b.kind = "moving_average" -> SumOf(SubSeq(x, Most(1, k - b.d_length + 1), k))
      [] b.kind = "integrate" -> SumOf(SubSeq(x, (k - 1) * b.decimation + 1, k * b.decimation))
      [] b.kind = "sample_and_hold" ->
            LET t == Latest(k, LAMBDA j : b.x[2][j] # 0) IN IF t = 0 THEN 0 ELSE x[t]
      [] b.kind = "threshold_ff" ->
            LET t == Latest(k, LAMBDA j : x[j] > b.d_hi \/ x[j] < b.d_lo) IN
            IF t = 0 THEN b.s0.d_last_state ELSE IF x[t] > b.d_hi THEN 1 ELSE 0
      [] b.kind = "regenerate_bb" ->
            LET t == Latest(k, LAMBDA j : x[j] = 1) IN
            IF t > 0 /\ (k - t) % b.d_period = 0 /\ (k - t) \div b.d_period <= b.d_max_regen THEN 1 ELSE 0
      [] b.kind = "tags_strobe" -> 0
      [] b.kind = "annotator_alltoall" -> SumOf([i \in 1 .. b.nin |-> b.x[i][k]])
      [] b.kind = "multiply_by_tag_value" ->
            LET t == Latest(k, LAMBDA j : j - 1 \in DOMAIN b.gains /\ b.gains[j - 1][1] = "number") IN
            (IF t = 0 THEN b.s0.d_k ELSE b.gains[t - 1][2]) * x[k]
      [] b.kind = "streams_to_vector" -> [i \in 1 .. b.nin |-> b.x[i][k]]

\* bin_statistics_f: message after message, with its frequency and the maximum of
\* its dwell; messages beyond the queue's limit are dropped.
Statistics(b) ==
    LET round == b.d_tune_delay + b.d_dwell_delay
        Dwell(m) == SubSeq(b.x[1], (m - 1) * round + b.d_tune_delay + 1, m * round)
    IN  [m \in 1 .. Least(b.limit, Len(b.x[1]) \div round) |-> <<m, FoldLeft(Most, 0, Dwell(m))>>]

\* peak_detector2_fb: item by item, or d_look_ahead of them from one that crosses
\* on, the first highest of which is the peak; <<is it the peak, average>>.
RECURSIVE Peaks(_, _, _)
Peaks(b, from, avg) ==
    LET x    == b.x[1]
        L    == b.d_look_ahead
        now  == Average(avg, x[from])
        win  == SubSeq(x, from, from + L - 1)
        peak == CHOOSE j \in 1 .. L : \A o \in 1 .. L : win[o] < win[j] \/ (win[o] = win[j] /\ j <= o)
        avgs[j \in 0 .. L] == IF j = 0 THEN now ELSE Average(avgs[j - 1], win[j])
    IN  IF from > Len(x) THEN <<>>
        ELSE IF ~Crosses(x[from], now) THEN <<<<0, now>>>> \o Peaks(b, from + 1, now)
        ELSE IF from + L - 1 > Len(x) THEN <<>>
        ELSE [j \in 1 .. L |-> <<IF j = peak THEN 1 ELSE 0, avgs[j]>>] \o Peaks(b, from + L, avgs[L])

\* copy, selector, mute: what output p is given for the k-th item, with the
\* settings that were in force when it was taken; tagged_stream_multiply_length.
InForce(b, log, what, k) ==
    LET limit == [d_input_index |-> b.nin, d_output_index |-> b.nout]
        done  == {j \in DOMAIN log : /\ log[j].what = what /\ log[j].at < k
                                     /\ what \in DOMAIN limit => log[j].to < limit[what]}
    IN  IF done = {} THEN b.s0[what] ELSE log[CHOOSE j \in done : \A o \in done : o <= j].to
MatrixRow(b, log, p, k) ==
    LET fits(A) == Len(A) = b.nout /\ \A q \in 1 .. b.nout : A[q].is_vector => Len(A[q].row) = b.nin
        done == {j \in DOMAIN log : log[j].at < k /\ fits(log[j].to) /\ log[j].to[p].is_vector}
    IN  IF done = {} THEN b.s0.d_A[p] ELSE log[CHOOSE j \in done : \A o \in done : o <= j].to[p].row
Passed(b, log, p, k) ==
    LET Now(what) == InForce(b, log, what, k) IN
    CASE b.kind = "copy" -> IF Now("d_enabled") THEN <<b.x[p][k]>> ELSE <<>>
      [] b.kind = "mute" -> <<IF Now("d_mute") THEN 0 ELSE b.x[1][k]>>
      [] b.kind = "selector" ->
            IF Now("d_enabled") /\ Now("d_output_index") = p - 1 THEN <<b.x[Now("d_input_index") + 1][k]>> ELSE <<>>
      [] b.kind = "tagged_stream_multiply_length" -> <<b.x[1][k]>>
      [] b.kind = "multiply_matrix" -> <<SumOf([i \in 1 .. b.nin |-> MatrixRow(b, log, p, k)[i] * b.x[i][k]])>>
      [] b.kind = "interleaved_short_to_complex" ->
            LET q == IF b.vector_input THEN b.x[1][k] ELSE <<b.x[1][2 * k - 1], b.x[1][2 * k]>> IN
            <<IF Now("d_swap") THEN <<q[2], q[1]>> ELSE q>>
Switched(b, log, p, n) == FlattenSeq([k \in 1 .. n |-> Passed(b, log, p, k)])

\* The blocks that compute item by item, by what the numbers are, not by how they
\* are come by: the one number of the type that differs from the exact result by
\* a multiple of 2^bits, the bits of the result one by one, the greatest of a set.
InType(T, x) == LET least == IF T.signed THEN 2^(T.bits - 1) ELSE 0 IN ((x + least) % 2^T.bits) - least
FromTruth(T, P(_)) == InType(T, SumOf([j \in 1 .. T.bits |-> IF P(j - 1) THEN 2^(j - 1) ELSE 0]))
IsSet(x, j) == (x \div 2^j) % 2 = 1
Highest(S) == CHOOSE m \in S : \A x \in S : x <= m
Lowest(S)  == CHOOSE m \in S : \A x \in S : x >= m
Nearest(h, S) == \* of the numbers of S; the even one where two are as near to h / 2
    CHOOSE v \in S : \A o \in S : \/ Magnitude(2 * v - h) < Magnitude(2 * o - h)
                                  \/ Magnitude(2 * v - h) = Magnitude(2 * o - h) /\ (v % 2 = 0 \/ v = o)
Around(h) == (h \div 2) - 1 .. (h \div 2) + 1

Number1(b, xs, j) == \* the j-th number of an item, from those at its place
    LET first == xs[1] IN
    CASE b.kind = "add_blk" -> InType(b.T, SumOf(xs))
      [] b.kind = "sub" -> InType(b.T, 2 * first - SumOf(xs))
      [] b.kind = "multiply" -> InType(b.T, first * xs[2])
      [] b.kind = "divide" -> \* the quotient of which first is a multiple, with a rest of its sign
            InType(b.T, CHOOSE q \in {n * (Magnitude(first) \div Magnitude(xs[2])) : n \in {1, -1}} :
                            LET rest == first - q * xs[2] IN
                            Magnitude(rest) < Magnitude(xs[2]) /\ (rest = 0 \/ (rest < 0) = (first < 0)))
      [] b.kind = "and_blk" -> FromTruth(b.T, LAMBDA n : \A i \in DOMAIN xs : IsSet(xs[i], n))
      [] b.kind = "or_blk" -> FromTruth(b.T, LAMBDA n : \E i \in DOMAIN xs : IsSet(xs[i], n))
      [] b.kind = "xor_blk" ->
            FromTruth(b.T, LAMBDA n : Cardinality({i \in DOMAIN xs : IsSet(xs[i], n)}) % 2 = 1)
      [] b.kind = "and_const" -> FromTruth(b.T, LAMBDA n : IsSet(first, n) /\ IsSet(b.d_k, n))
      [] b.kind = "not_blk" -> FromTruth(b.T, LAMBDA n : ~IsSet(first, n))
      [] b.kind = "add_const_bb" -> InType(UChar, first + b.d_k)
      [] b.kind = "add_const_ss" -> InType(Short, first + b.d_k)
      [] b.kind = "add_const_v" -> InType(b.T, first + b.d_k[j])
      [] b.kind = "multiply_const" -> InType(b.T, first * b.d_k)
      [] b.kind = "multiply_const_v" -> InType(b.T, first * b.d_k[j])
      [] b.kind = "abs_blk" -> InType(b.T, Highest({first, -first}))
      [] b.kind = "float_to_uchar" -> \* cut to the range before it is rounded
            LET h == Highest({0, Lowest({first, 2 * 255})}) IN Nearest(h, Around(h))

NumberKinds ==
    {"add_blk", "sub", "multiply", "divide", "and_blk", "or_blk", "xor_blk", "and_const", "not_blk", "add_const_bb",
     "add_const_ss", "add_const_v", "multiply_const", "multiply_const_v", "abs_blk", "float_to_uchar"}
ItemKinds == NumberKinds \cup
    {"max_blk", "min_blk", "argmax", "complex_to_interleaved_short", "complex_to_interleaved_char",
     "interleaved_char_to_complex", "endian_swap", "stream_to_vector", "vector_to_stream"}

Computed(b, p, k) ==
    LET x == b.x[1]
        Place(j) == [i \in 1 .. b.nin |-> b.x[i][k][j]]
        Column(j) == {b.x[i][k][j] : i \in 1 .. b.nin}
        whole == UNION {Column(j) : j \in 1 .. b.d_vlen}
        Ends(S) == IF b.kind = "max_blk" THEN Highest(S) ELSE Lowest(S)
        top == {xy \in (0 .. b.d_vlen - 1) \X (0 .. b.nin - 1) : b.x[xy[2] + 1][k][xy[1] + 1] = Highest(whole)}
        place == Lowest({xy[1] : xy \in top})
        T == IF b.kind = "complex_to_interleaved_short" THEN Short ELSE Char
        Half(h) == InType(T, Nearest(h, Around(h)))
    IN  CASE b.kind \in NumberKinds -> [j \in 1 .. b.d_vlen |-> Number1(b, Place(j), j)]
          [] b.kind \in {"max_blk", "min_blk"} ->
                IF b.d_vlen_out = 1 THEN <<Ends(whole)>> ELSE [j \in 1 .. b.d_vlen |-> Ends(Column(j))]
          [] b.kind = "argmax" ->
                IF p = 1 THEN place ELSE Lowest({xy[2] : xy \in {at \in top : at[1] = place}})
          [] b.kind \in {"complex_to_interleaved_short", "complex_to_interleaved_char"} ->
                IF b.d_vector THEN <<Half(x[k][1]), Half(x[k][2])>>
                ELSE Half(x[((k - 1) \div 2) + 1][((k - 1) % 2) + 1])
          [] b.kind = "interleaved_char_to_complex" -> IF b.vector_input THEN x[k] ELSE <<x[2 * k - 1], x[2 * k]>>
          [] b.kind = "endian_swap" -> [j \in DOMAIN x[k] |-> x[k][Len(x[k]) + 1 - j]]
          [] b.kind = "stream_to_vector" -> [j \in 1 .. b.decimation |-> x[(k - 1) * b.decimation + j]]
          [] b.kind = "vector_to_stream" -> x[((k - 1) \div b.interpolation) + 1][((k - 1) % b.interpolation) + 1]

BitKinds == {"packed_to_unpacked", "unpacked_to_packed", "pack_k_bits", "unpack_k_bits"}
ValueKinds == {"moving_average", "integrate", "sample_and_hold", "threshold_ff", "regenerate_bb",
               "tags_strobe", "annotator_alltoall", "multiply_by_tag_value", "streams_to_vector"}
SwitchedKinds == {"copy", "mute", "selector", "tagged_stream_multiply_length", "multiply_matrix",
                  "interleaved_short_to_complex"}

\* All of output p for the whole of the input.
Reference(b, p) ==
    LET own == CASE b.kind = "delay" -> [k \in 1 .. b.s0.dly |-> 0]
                 [] b.kind = "lfsr_32k_source_s" -> b.d_buffer
                 [] OTHER -> b.d_data
        At(o) == IF o[1] = 0 THEN own[o[2] + 1] ELSE b.x[o[1]][o[2] + 1]
        Here(o) == o # <<>> /\ (o[1] = 0 \/ o[2] < Len(b.x[o[1]]))
        last    == IF b.kind = "stream_to_streams" THEN b.nout ELSE p
        size(k) == \A j \in 0 .. k - 1 : Here(Origin(b, last, j))
        most    == CHOOSE k \in 0 .. MaxSource : size(k) /\ (k = MaxSource \/ ~size(k + 1))
        packets == [r \in 1 .. Cardinality(DOMAIN b.lengths[1]) |->
                       LET o == Nth(DOMAIN b.lengths[1], r - 1) IN SubSeq(b.x[1], o + 1, o + b.lengths[1][o])]
    IN  CASE b.kind \in BitKinds -> Joined(b, b.x[p])
          [] b.kind = "repack_bits_bb" ->
                IF b.d_packet_mode THEN FlattenSeq([r \in DOMAIN packets |-> Joined(b, packets[r])])
                ELSE Joined(b, b.x[1])
          [] b.kind = "tagged_stream_mux" ->
                LET all == FlattenSeq(Packets(b)) IN [k \in DOMAIN all |-> At(all[k])]
          [] b.kind = "tsb_vector_sink" -> packets
          [] b.kind = "bin_statistics_f" -> Statistics(b)
          [] b.kind = "peak_detector2_fb" ->
                LET all == Peaks(b, 1, b.s0.d_avg) IN [k \in DOMAIN all |-> all[k][p]]
          [] b.kind = "vector_to_streams" -> [k \in DOMAIN b.x[1] |-> b.x[1][k][p]]
          [] b.kind = "vector_map" ->
                [k \in DOMAIN b.x[1] |-> [j \in DOMAIN b.d_mapping[p] |->
                    b.x[b.d_mapping[p][j][1] + 1][k][b.d_mapping[p][j][2] + 1]]]
          [] b.kind \in SwitchedKinds -> Switched(b, <<>>, p, Len(b.x[1]) \div b.decimation)
          [] b.kind \in ItemKinds ->
                [k \in 1 .. (Len(b.x[1]) * b.interpolation) \div b.decimation |-> Computed(b, p, k)]
          [] b.kind \in ValueKinds -> [k \in 1 .. b.length |-> Value(b, k)]
          [] OTHER -> [k \in 1 .. most |-> At(Origin(b, p, k - 1))]

-----------------------------------------------------------------------------
Tag(o, v) == [offset |-> o, value |-> v]

\* The lengths of the packets a tagged stream block puts out, and their heads.
OutLengths(b) ==
    IF b.kind = "tagged_stream_mux" THEN [r \in DOMAIN Packets(b) |-> Len(Packets(b)[r])]
    ELSE [r \in DOMAIN Packets(b) |-> Len(Joined(b, [k \in DOMAIN Packets(b)[r] |-> 0]))]
Head_(b, r) == Sums(OutLengths(b), r - 1)
LengthTag(b, r) == IF OutLengths(b)[r] = 0 THEN {} ELSE {Tag(Head_(b, r), <<0, OutLengths(b)[r]>>)}
MuxTag(b, r, k) ==
    LET o == Packets(b)[r][k]
        first == o[2] \in DOMAIN b.lengths[o[1]] /\ o[1] - 1 = b.d_tag_preserve_head_pos
    IN  Tag(Head_(b, r) + (IF first THEN 0 ELSE k - 1), o)

\* Every tag of the first n items, and for each length tag one with its length
\* scaled by what was in force.
Scaled(b, log, n) ==
    {Tag(k, <<1, k>>) : k \in 0 .. n - 1} \cup
    {LET by == InForce(b, log, "d_scalar", o + 1) IN Tag(o, <<0, (b.lengths[1][o] * by[1]) \div by[2]>>)
     : o \in DOMAIN b.lengths[1] \cap (0 .. n - 1)}

\* multiply_matrix: an item's tags go on when its factor in the first row, as it was
\* in force when the item was taken, is not zero.  annotator_raw: each tag on its item.
Mixed(b, log, n) ==
    {Tag(ik[2], ik) : ik \in {x \in (1 .. b.nin) \X (0 .. n - 1) : MatrixRow(b, log, 1, x[2] + 1)[x[1]] # 0}}
QueuedTags(b, log, n) ==
    {Tag(o, "queued") : o \in {x \in ToSet(b.s0.d_queued_tags) \cup {log[j].to : j \in DOMAIN log} : x < n}}

\* The tags a block adds of its own: those of the items it copies, at their
\* copies, or new ones.
ReferenceTags(b) ==
    LET n == Len(Reference(b, 1))
        On(k) == k >= 0 /\ b.x[2][k + 1] > 0
        kept == {k \in 0 .. n - 1 : Origin(b, 1, k)[1] > 0}
    IN  CASE b.kind \in {"skiphead", "stream_mux", "vector_insert", "tagged_stream_align"} ->
                {Tag(k, Origin(b, 1, k)) : k \in kept}
          [] b.kind = "keep_one_in_n" -> {Tag(k \div b.d_n, <<1, k>>) : k \in 0 .. n * b.d_n - 1}
          [] b.kind = "tag_gate" ->
                IF b.d_single_key_set /\ ~b.d_propagate_tags
                THEN {Tag(k, <<1, k>>) : k \in (0 .. n - 1) \ b.gated} ELSE {}
          [] b.kind = "burst_tagger" -> {Tag(k, On(k)) : k \in {j \in 0 .. n - 1 : On(j) # On(j - 1)}}
          [] b.kind = "tags_strobe" ->
                {Tag(k, "strobe") : k \in {j \in 1 .. n - 1 : j % b.d_nsamps = 0}}
          [] b.kind = "stream_to_tagged_stream" ->
                {Tag(k, b.d_packet_len) : k \in {j \in 0 .. n - 1 : j % b.d_packet_len = 0}}
          [] b.kind \in {"annotator_alltoall", "annotator_1to1"} ->
                {Tag(k, b.nout * (k \div b.d_when)) : k \in {j \in 0 .. n - 1 : j % b.d_when = 0}}
          [] b.kind \in {"vector_sink", "tsb_vector_sink"} ->
                {Tag(k, <<1, k>>) : k \in 0 .. Len(b.x[1]) - 1}
          [] b.kind = "tagged_stream_multiply_length" -> Scaled(b, <<>>, n)
          [] b.kind = "multiply_matrix" /\ b.TPP_CUSTOM -> Mixed(b, <<>>, n)
          [] b.kind = "annotator_raw" -> QueuedTags(b, <<>>, n)
          [] b.kind = "vector_source" ->
                {Tag(k, k % Len(b.d_data)) : k \in {j \in 0 .. n - 1 : j % Len(b.d_data) \in b.d_tags}}
          [] b.kind = "file_source" ->
                {Tag(k, <<0, k \div b.d_length_items>>) : k \in {j \in 0 .. n - 1 : j % b.d_length_items = 0}}
          [] b.kind = "tagged_stream_mux" ->
                UNION {LengthTag(b, r) \cup {MuxTag(b, r, k) : k \in 1 .. OutLengths(b)[r]}
                       : r \in DOMAIN OutLengths(b)}
          [] b.kind = "repack_bits_bb" /\ b.d_packet_mode ->
                UNION {LengthTag(b, r) : r \in DOMAIN OutLengths(b)}
          [] OTHER -> {}

\* Both for every block, worked out once.
References == [b \in Configs |-> [p \in 1 .. b.nout |-> Reference(b, p)]]
TagReferences == [b \in Configs |-> ReferenceTags(b)]

-----------------------------------------------------------------------------
\* However the executor cuts a stream into calls, a block makes of it what it
\* would have made of it in one: what it has put out is a beginning of that.
Chunked ==
    changes = <<>> => \A p \in 1 .. blk.nout : IsPrefix(made[p], References[blk][p])

\* Below what has been put out, the tags are those of the whole stream: none is
\* lost, moved or put twice where one call ends and the next begins.
TagsPlaced ==
    LET upto == IF blk.kind = "tsb_vector_sink" THEN nread[1] ELSE Len(made[1])
        Below(tags) == {t \in tags : t.offset < upto}
    IN  changes = <<>> /\ blk.nout > 0 => Below(put) = Below(TagReferences[blk])

\* A call the executor may make consumes no more than has come and produces no
\* more than there is room for: forecast and general_work agree.
WithinBuffers ==
    ~over => \A n \in Sizes : \A a \in Offers(n) :
        LET r == general_work(blk, state, Call(n, a)) IN
        /\ \A i \in 1 .. blk.nin : r.used[i] <= a[i]
        /\ \A p \in 1 .. blk.nout : Len(r.made[p]) <= n

\* Of all the changes of delay that were asked for, none is lost and none made
\* twice, though they come between calls that have done part of an earlier one:
\* what has gone out beyond what came in is the delay less what is still to do.
\* Each item taken goes out once, in order and with a delay between the least and
\* the most asked for so far, and only those are dropped that a shorter delay
\* drops.  What stands in the places a longer delay puts in is not said.
DelayFollows ==
    LET asked   == <<blk.s0.dly>> \o [j \in 1 .. Len(changes) |-> changes[j].to]
        shorter == SumOf([j \in 1 .. Len(changes) |-> Most(0, asked[j] - asked[j + 1])])
        came    == Most(0, nread[1] - blk.s0.dly)
        Places(p, i) == {k \in 1 .. Len(made[p]) : made[p][k] = blk.x[p][i]}
        InOrder(p) == \A i \in 1 .. came : \A k \in Places(p, i) :
            /\ Places(p, i) = {k}
            /\ \A j \in 1 .. i - 1 : \A l \in Places(p, j) : l < k
            /\ \E lo, hi \in Range(asked) : lo <= k - i /\ k - i <= hi
    IN  blk.kind = "delay" =>
          /\ Len(made[1]) - nread[1] = state.dly - blk.s0.dly - state.d_delta
          /\ \A p \in 1 .. blk.nout :
                /\ InOrder(p)
                /\ Cardinality({i \in 1 .. came : Places(p, i) = {}}) <= shorter
                /\ \A i \in came + 1 .. Len(blk.x[p]) : Places(p, i) = {}

\* A block that is switched while it runs applies each change from the next call
\* on, to all of it: every item is passed, dropped or zeroed, and every length
\* scaled, as was in force when the item was taken, and none is kept waiting.
SettingsFollow ==
    /\ blk.kind \in SwitchedKinds =>
          \A p \in 1 .. blk.nout : made[p] = Switched(blk, changes, p, nread[1] \div blk.decimation)
    /\ blk.kind = "multiply_matrix" => put = IF blk.TPP_CUSTOM THEN Mixed(blk, changes, nread[1]) ELSE {}
    /\ blk.kind = "annotator_raw" => put = QueuedTags(blk, changes, nread[1])
    /\ blk.kind = "tagged_stream_multiply_length" => put = Scaled(blk, changes, nread[1])

\* check_lfsr_32k_s: what it takes for matched are the latest items, and the run
\* length counts items in a row that are each the next of the sequence.
LockKept ==
    LET n == nread[1]
        Begins(m) == n >= m /\ SubSeq(blk.x[1], n - m + 1, n) = SubSeq(blk.d_buffer, 1, m)
        size == Len(blk.d_buffer)
    IN  blk.kind = "check_lfsr_32k_s" =>
          /\ state.d_state = "MATCH1" => Begins(1)
          /\ state.d_state = "MATCH2" => Begins(2)
          /\ state.d_state = "LOCKED" =>
                /\ state.d_runlength <= n
                /\ \A j \in 0 .. state.d_runlength - 1 :
                      blk.x[1][n - j] = blk.d_buffer[((state.d_index - 1 - j) % size) + 1]

\* A stream of packets of which each first item has its length tag is taken
\* packet by packet: no call looks for a length tag where there is none.
PacketsFound == "threw" \in DOMAIN state => ~state.threw

\* repack_bits_bb.h: on every fresh input byte it starts reading on the first
\* bit, so also on the first byte of every packet.
PacketStartsFresh ==
    blk.kind = "repack_bits_bb" /\ blk.d_packet_mode /\ state.reqd[1] = 0 => state.d_in_index = 0

\* Whatever calls the executor makes, in the end all that the input allows has
\* been put out, but for less than one output multiple: a block holds nothing
\* back, and no forecast asks for items that will never come.  One whose
\* parameters were changed has taken all of its input: switched off, it drains it.
AllPutOut ==
    <>(IF changes # <<>> THEN nread[1] = Len(Stream(1))
       ELSE \A p \in 1 .. blk.nout : Len(References[blk][p]) - Len(made[p]) < blk.output_multiple)

\* The work functions of gr-blocks/lib, called as block_executor calls them: the
\* items and the tags of the whole stream, however it is cut into calls; none
\* reads or writes beyond what it was offered, loses a change of its parameters,
\* misses the first item of a packet or takes a sequence for locked that is not.
AsReference ==
    /\ Chunked /\ TagsPlaced /\ WithinBuffers
    /\ DelayFollows /\ SettingsFollow /\ PacketsFound /\ LockKept
=============================================================================
