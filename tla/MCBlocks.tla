------------------------------- MODULE MCBlocks -------------------------------
(* One block of each kind with small parameters, and a short stream for it:  *)
(* the n-th item of input i is 10 i + n, or a bit pattern where bits matter, *)
(* or any sequence of zeros and ones where the items trigger something.      *)
EXTENDS BlockReference

Items(i, n) == [k \in 1 .. n |-> 10 * i + k]
Bytes == <<157, 98, 229>>
Triggers(n) == [1 .. n -> {0, 1}]

\* What every block has; the others come on top.
Block(kind, nin, nout, x, s0) ==
    [kind |-> kind, nin |-> nin, nout |-> nout, x |-> x, s0 |-> s0, output_multiple |-> 1,
     history |-> 1, decimation |-> 1, interpolation |-> 1]

RateConfigs == {
    Block("head", 1, 1, <<Items(1, 8)>>, [d_ncopied_items |-> 0]) @@ [nitems |-> 5],
    Block("skiphead", 1, 1, <<Items(1, 8)>>, [d_nitems |-> 0]) @@ [nitems_to_skip |-> 3],
    Block("keep_one_in_n", 1, 1, <<Items(1, 9)>>, [d_count |-> 3]) @@ [d_n |-> 3],
    [Block("keep_m_in_n", 1, 1, <<Items(1, 9)>>, <<>>) EXCEPT !.output_multiple = 2]
        @@ [d_m |-> 2, d_n |-> 3, d_offset |-> 2],
    [Block("repeat", 1, 1, <<Items(1, 4)>>, <<>>) EXCEPT !.output_multiple = 2, !.interpolation = 2],
    [Block("interleave", 2, 1, <<Items(1, 6), Items(2, 5)>>, <<>>) EXCEPT !.output_multiple = 4]
        @@ [d_blocksize |-> 2],
    [Block("deinterleave", 1, 2, <<Items(1, 9)>>, [d_current_output |-> 0])
        EXCEPT !.output_multiple = 2] @@ [d_blocksize |-> 2],
    Block("stream_mux", 3, 1, <<Items(1, 5), <<>>, Items(3, 3)>>, [d_stream |-> 0, d_residual |-> 2])
        @@ [d_lengths |-> <<2, 0, 1>>],
    [Block("patterned_interleaver", 2, 1, <<Items(1, 5), Items(2, 3)>>, <<>>)
        EXCEPT !.output_multiple = 3] @@ [d_pattern |-> <<1, 2, 1>>],
    Block("vector_insert", 1, 1, <<Items(1, 5)>>, [d_offset |-> 1])
        @@ [d_data |-> <<91, 92>>, d_periodicity |-> 4],
    Block("vector_source", 0, 1, <<>>, [d_offset |-> 0])
        @@ [d_data |-> Items(9, 5), d_repeat |-> FALSE, d_tags |-> {0, 3}],
    Block("vector_source", 0, 1, <<>>, [d_offset |-> 0])
        @@ [d_data |-> Items(9, 5), d_repeat |-> TRUE, d_tags |-> {}],
    [Block("vector_source", 0, 1, <<>>, [d_offset |-> 0]) EXCEPT !.output_multiple = 3]
        @@ [d_data |-> Items(9, 3), d_repeat |-> TRUE, d_tags |-> {0, 2}] }
    \cup {Block("file_source", 0, 1, <<>>,
                [at |-> 1, d_items_remaining |-> 4, d_file_begin |-> TRUE, d_repeat_cnt |-> 0])
            @@ [d_data |-> Items(9, 6), d_start_offset_items |-> 1, d_length_items |-> 4, d_repeat |-> r]
          : r \in BOOLEAN}

Unstarted(n) == [reqd |-> [i \in 1 .. n |-> 0], min_noutput |-> 1, threw |-> FALSE, removed |-> {}]
Chunking == [bits |-> 8, bits_per_chunk |-> 3]
BitConfigs ==
    UNION {{Block("packed_to_unpacked", 1, 1, <<Bytes>>, [d_index |-> 0]) @@ Chunking @@ [endianness |-> e],
            Block("unpacked_to_packed", 1, 1, <<<<5, 3, 6, 1, 7, 2>>>>, [d_index |-> 0]) @@ Chunking @@ [endianness |-> e],
            Block("repack_bits_bb", 1, 1, <<Bytes>>,
                  [d_in_index |-> 0, d_out_index |-> 0, filling |-> 0] @@ Unstarted(1))
                @@ [d_k |-> 8, d_l |-> 3, d_packet_mode |-> FALSE, d_align_output |-> FALSE,
                    rate |-> <<8, 3>>, endianness |-> e]}
           : e \in {"GR_MSB_FIRST", "GR_LSB_FIRST"}}
    \cup {[Block("pack_k_bits", 1, 1, <<<<1, 0, 1, 1, 1, 0, 0>>>>, <<>>) EXCEPT !.decimation = 3],
          [Block("unpack_k_bits", 1, 1, <<<<5, 3, 6>>>>, <<>>) EXCEPT !.interpolation = 3, !.output_multiple = 3]}

Delayed(dly) ==
    [Block("delay", 2, 2, <<Items(1, 6), Items(2, 6)>>, [dly |-> dly, d_delta |-> 0])
        EXCEPT !.history = dly + 1]
SignalConfigs ==
    {Delayed(0), Delayed(2),
     [Block("moving_average", 1, 1, <<Items(1, 6)>>, <<>>) EXCEPT !.history = 3]
        @@ [d_length |-> 3, d_max_iter |-> 2, length |-> 6],
     [Block("integrate", 1, 1, <<Items(1, 7)>>, <<>>) EXCEPT !.decimation = 2] @@ [length |-> 3],
     Block("tags_strobe", 0, 1, <<>>, [d_offset |-> 0]) @@ [d_nsamps |-> 2, length |-> MaxSource],
     Block("stream_to_tagged_stream", 1, 1, <<Items(1, 8)>>, [d_next_tag_pos |-> 0]) @@ [d_packet_len |-> 3],
     Block("tag_gate", 1, 1, <<Items(1, 6)>>, <<>>)
        @@ [d_single_key_set |-> TRUE, d_propagate_tags |-> FALSE, gated |-> {1, 4}]}
    \cup {Block("threshold_ff", 1, 1, <<x>>, [d_last_state |-> 1]) @@ [d_lo |-> 1, d_hi |-> 1, length |-> 4]
          : x \in [1 .. 4 -> 0 .. 2]}
    \cup {Block("regenerate_bb", 1, 1, <<x>>, [d_countdown |-> 0, d_regen_count |-> 2])
            @@ [d_period |-> 2, d_max_regen |-> 2, length |-> 7] : x \in Triggers(7)}
    \cup {Block("sample_and_hold", 2, 1, <<Items(1, 4), x>>, [d_data |-> 0]) @@ [length |-> 4] : x \in Triggers(4)}
    \cup {Block("burst_tagger", 2, 1, <<Items(1, 5), x>>, [d_state |-> FALSE]) : x \in Triggers(5)}

TaggedConfigs ==
    {Block("tagged_stream_mux", 2, 1, <<Items(1, 5), Items(2, 3)>>, Unstarted(2))
        @@ [d_tag_preserve_head_pos |-> h, rate |-> <<2, 1>>,
            lengths |-> <<0 :> 2 @@ 2 :> 3, 0 :> 1 @@ 1 :> 2>>] : h \in {0, 1}}
    \cup {Block("repack_bits_bb", 1, 1, <<Bytes>>,
                [d_in_index |-> 0, d_out_index |-> 0, filling |-> 0] @@ Unstarted(1))
            @@ [d_k |-> 8, d_l |-> l, d_packet_mode |-> TRUE, d_align_output |-> l = 4, rate |-> <<8, l>>,
                endianness |-> "GR_MSB_FIRST", lengths |-> <<0 :> 2 @@ 2 :> 1>>] : l \in {4, 5}}
    \cup {Block("tagged_stream_align", 1, 1, <<Items(1, 8)>>, [d_have_sync |-> FALSE])
            @@ [lengths |-> <<3 :> 2 @@ 5 :> 3>>],
          Block("tsb_vector_sink", 1, 1, <<Items(1, 5)>>, Unstarted(1))
            @@ [rate |-> <<1, 1>>, lengths |-> <<0 :> 2 @@ 2 :> 3>>]}

Vectors(i, n) == [k \in 1 .. n |-> <<100 * i + k, 200 * i + k>>]
DealingConfigs ==
    {[Block("streams_to_stream", 2, 1, <<Items(1, 4), Items(2, 3)>>, <<>>)
        EXCEPT !.interpolation = 2, !.output_multiple = 2],
     [Block("stream_to_streams", 1, 2, <<Items(1, 7)>>, <<>>) EXCEPT !.decimation = 2],
     Block("streams_to_vector", 2, 1, <<Items(1, 4), Items(2, 4)>>, <<>>) @@ [length |-> 4],
     Block("vector_to_streams", 1, 2, <<Vectors(1, 4)>>, <<>>),
     Block("vector_map", 2, 2, <<Vectors(1, 4), Vectors(2, 4)>>, <<>>)
        @@ [d_mapping |-> << <<<<0, 0>>, <<1, 1>>, <<1, 0>>>>, <<<<0, 1>>>> >>],
     Block("lfsr_32k_source_s", 0, 1, <<>>, [d_index |-> 0]) @@ [d_buffer |-> Items(9, 5)],
     Block("copy", 2, 2, <<Items(1, 4), Items(2, 4)>>, [d_enabled |-> TRUE]),
     Block("mute", 1, 1, <<Items(1, 5)>>, [d_mute |-> FALSE]),
     Block("selector", 2, 2, <<Items(1, 3), Items(2, 3)>>,
           [d_enabled |-> TRUE, d_input_index |-> 0, d_output_index |-> 1])}

\* Powers of two, so that the averages are exact.
Rising == [k \in 1 .. 9 |-> 16384 * <<1, 1, 4, 6, 6, 2, 1, 9, 3>>[k]]
WatchingConfigs ==
    {Block("multiply_by_tag_value", 1, 1, <<Items(1, 6)>>, [d_k |-> 1])
        @@ [gains |-> (1 :> <<"number", 2>> @@ 3 :> <<"text", 0>> @@ 4 :> <<"number", 5>>), length |-> 6],
     Block("peak_detector2_fb", 1, 2, <<Rising>>, [d_found |-> FALSE, output_multiple |-> 1, d_avg |-> 16384])
        @@ [d_look_ahead |-> 3],
     Block("annotator_alltoall", 2, 2, <<Items(1, 5), Items(2, 5)>>, [d_tag_counter |-> 0])
        @@ [d_when |-> 2, length |-> 5],
     Block("annotator_1to1", 2, 2, <<Items(1, 5), Items(2, 5)>>, [d_tag_counter |-> 0]) @@ [d_when |-> 2],
     Block("vector_sink", 1, 1, <<Items(1, 5)>>, <<>>),
     Block("tagged_stream_multiply_length", 1, 1, <<Items(1, 5)>>, [d_scalar |-> <<1, 1>>])
        @@ [lengths |-> <<0 :> 2 @@ 2 :> 3>>]}
    \cup {Block("bin_statistics_f", 1, 1, <<Items(1, 9)>>,
                [d_state |-> "ST_INIT", d_delay |-> 0, d_center_freq |-> 0, d_max |-> 0])
            @@ [d_tune_delay |-> t, d_dwell_delay |-> 2, limit |-> 3] : t \in {0, 1}}
    \cup {Block("check_lfsr_32k_s", 1, 0, <<x>>, enter_SEARCHING([d_history |-> <<>>]
                @@ [d_state |-> "SEARCHING", d_runlength |-> 0, d_index |-> 0])) @@ [d_buffer |-> <<1, 2, 2, 1>>]
          : x \in {f \in [1 .. 8 -> {1, 2}] : f[1] = 1 /\ f[2] = 2}}

\* Numbers at the ends of their types, and computations that leave them.
Ones(seq) == [k \in DOMAIN seq |-> <<seq[k]>>]
Extremes == Ones(<<32767, -32768, -1, 20000>>)
Divisors == Ones(<<-2, -1, 7, 300>>)
Item1(kind, nin, x) == Block(kind, nin, 1, x, <<>>) @@ [d_vlen |-> 1, T |-> Short]
Pairs(seq) == [k \in 1 .. Len(seq) \div 2 |-> <<seq[2 * k - 1], seq[2 * k]>>]
ComputingConfigs ==
    {Item1(kind, 2, <<Extremes, Divisors>>) : kind \in {"sub", "multiply", "divide", "and_blk", "or_blk", "xor_blk"}}
    \cup {Item1("add_blk", 3, <<Extremes, Extremes, Divisors>>),
          Item1("not_blk", 1, <<Extremes>>), Item1("abs_blk", 1, <<Extremes>>)}
    \cup {Item1(kind, 1, <<Extremes>>) @@ [d_k |-> -3] : kind \in {"add_const_ss", "multiply_const", "and_const"}}
    \cup {Item1("add_const_bb", 1, <<Ones(<<0, 250, 255>>)>>) @@ [d_k |-> 7],
          Item1("float_to_uchar", 1, <<Ones(<<-1, 1, 3, 5, 509, 511>>)>>)}
    \cup {[Item1(kind, 1, <<Pairs(<<250, 3, 1, 255>>)>>) EXCEPT !.d_vlen = 2, !.T = UChar]
            @@ [d_k |-> <<9, 130>>] : kind \in {"add_const_v", "multiply_const_v"}}
    \cup {[Item1(kind, 2, <<Pairs(<<5, 1, 2, 2>>), Pairs(<<3, 5, 2, 1>>)>>) EXCEPT !.d_vlen = 2] @@ [d_vlen_out |-> v]
          : kind \in {"max_blk", "min_blk"}, v \in {1, 2}}
    \cup {[Item1("argmax", 2, <<Pairs(<<5, 1, 2, 2, 1, 4>>), Pairs(<<3, 5, 2, 1, 3, 4>>)>>) EXCEPT !.d_vlen = 2, !.nout = 2]}
    \cup {[Block(kind, 1, 1, <<Pairs(<<3, 5, 65535, -65537, 255, -257>>)>>, <<>>)
            EXCEPT !.interpolation = IF v THEN 1 ELSE 2, !.output_multiple = IF v THEN 1 ELSE 2] @@ [d_vector |-> v]
          : kind \in {"complex_to_interleaved_short", "complex_to_interleaved_char"}, v \in BOOLEAN}
    \cup {[Block(kind, 1, 1, <<IF v THEN Pairs(Items(1, 6)) ELSE Items(1, 7)>>, [d_swap |-> TRUE])
            EXCEPT !.decimation = IF v THEN 1 ELSE 2] @@ [vector_input |-> v]
          : kind \in {"interleaved_short_to_complex", "interleaved_char_to_complex"}, v \in BOOLEAN}
    \cup {Block("endian_swap", 1, 1, <<Pairs(<<1, 2, 3, 4>>)>>, <<>>),
          Block("tag_share", 2, 1, <<Items(1, 4), Items(2, 4)>>, <<>>),
          [Block("stream_to_vector", 1, 1, <<Items(1, 7)>>, <<>>) EXCEPT !.decimation = 3],
          [Block("vector_to_stream", 1, 1, <<Pairs(<<1, 2, 3, 4, 5, 6>>)>>, <<>>)
            EXCEPT !.interpolation = 2, !.output_multiple = 2],
          Block("annotator_raw", 1, 1, <<Items(1, 5)>>, [d_queued_tags |-> <<0, 3>>])}
    \cup {Block("multiply_matrix", 2, 2, <<Items(1, 3), Items(2, 3)>>, [d_A |-> <<<<1, 0>>, <<2, 3>>>>])
            @@ [TPP_CUSTOM |-> t,
                messages |-> {<<>>,
                    <<[is_vector |-> TRUE, row |-> <<0, 4>>], [is_vector |-> FALSE, row |-> <<>>]>>,
                    <<[is_vector |-> TRUE, row |-> <<5, 5>>], [is_vector |-> TRUE, row |-> <<5>>]>>}]
          : t \in BOOLEAN}

\* The example of repack_bits_bb.h, for two packets: three items of three bits
\* make one byte, and the ninth bit is dropped.
RepackConfigs ==
    {Block("repack_bits_bb", 1, 1, <<<<5, 3, 6, 1, 7, 2>>>>,
           [d_in_index |-> 0, d_out_index |-> 0, filling |-> 0] @@ Unstarted(1))
        @@ [d_k |-> 3, d_l |-> 8, d_packet_mode |-> TRUE, d_align_output |-> TRUE, rate |-> <<3, 8>>,
            endianness |-> e, lengths |-> <<0 :> 3 @@ 3 :> 3>>] : e \in {"GR_LSB_FIRST", "GR_MSB_FIRST"}}

\* A block that no item ever comes to.
Idle == Block("head", 1, 1, <<<<>>>>, [d_ncopied_items |-> 0]) @@ [nitems |-> 5]

MCConfigs ==
    {Idle} \cup RateConfigs \cup BitConfigs \cup SignalConfigs \cup TaggedConfigs
    \cup DealingConfigs \cup WatchingConfigs \cup ComputingConfigs
=============================================================================
