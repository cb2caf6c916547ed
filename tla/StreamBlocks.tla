----------------------------- MODULE StreamBlocks -----------------------------
(* One standard block, called by its executor again and again until its      *)
(* input is used up: each call offers some room and the items that have      *)
(* come, any amounts that the block's forecast and output multiple allow.    *)
(* What the block makes of a stream may not depend on how the calls cut it.  *)
EXTENDS SignalBlocks

CONSTANTS
    Configs,    \* the blocks: kind, parameters, inputs, first state
    MaxCall,    \* bound: noutput_items of one call
    Delays,     \* what set_dly may be called with
    MaxChanges, \* bound: changes of a parameter
    MaxSource   \* bound: items asked of a block without inputs

VARIABLES
    blk,      \* the block and its input
    state,    \* its private members
    nread,    \* nitems_read of each input
    made,     \* what each output has been given
    put,      \* the tags added to output 0
    over,     \* work has returned WORK_DONE
    changes   \* the changes of parameters: which, to what, after how many items

bvars == <<blk, state, nread, made, put, over, changes>>

\* The read pointer of an input starts history() - 1 zeros before its first item.
Stream(i) == [k \in 1 .. blk.history - 1 |-> 0] \o blk.x[i]

\* sync_block::forecast and its two cousins, and each forecast of its own.
forecast(b, s, n) ==
    CASE b.kind = "keep_m_in_n" -> <<b.d_n * (n \div b.d_m)>>
      [] b.kind = "interleave" -> [i \in 1 .. b.nin |-> n \div b.nin]
      [] b.kind = "deinterleave" -> <<n * b.nout>>
      [] b.kind = "stream_mux" -> [i \in 1 .. b.nin |-> IF s.d_stream = i - 1 THEN 1 ELSE 0]
      [] b.kind = "patterned_interleaver" ->
            [i \in 1 .. b.nin |-> Times(b, i) * (n \div Len(b.d_pattern))]
      [] b.kind = "packed_to_unpacked" ->
            [i \in 1 .. b.nin |-> (s.d_index + n * b.bits_per_chunk + b.bits - 1) \div b.bits]
      [] b.kind = "unpacked_to_packed" ->
            [i \in 1 .. b.nin |-> (s.d_index + n * b.bits + b.bits_per_chunk - 1) \div b.bits_per_chunk]
      [] b.kind \in {"tagged_stream_mux", "repack_bits_bb", "tsb_vector_sink"} -> tsb_forecast(b, s, n)
      [] b.kind \in {"delay", "copy", "selector"} -> [i \in 1 .. b.nin |-> n]
      [] OTHER -> [i \in 1 .. b.nin |-> fixed_rate_noutput_to_ninput(b, n)]

general_work(b, s, c) ==
    CASE b.kind = "head" -> head(b, s, c)
      [] b.kind = "skiphead" -> skiphead(b, s, c)
      [] b.kind = "keep_one_in_n" -> keep_one_in_n(b, s, c)
      [] b.kind = "keep_m_in_n" -> keep_m_in_n(b, s, c)
      [] b.kind = "repeat" -> repeat(b, s, c)
      [] b.kind = "interleave" -> interleave(b, s, c)
      [] b.kind = "deinterleave" -> deinterleave(b, s, c)
      [] b.kind = "stream_mux" -> stream_mux(b, s, c)
      [] b.kind = "patterned_interleaver" -> patterned_interleaver(b, s, c)
      [] b.kind = "vector_insert" -> vector_insert(b, s, c)
      [] b.kind = "vector_source" -> vector_source(b, s, c)
      [] b.kind = "file_source" -> file_source(b, s, c)
      [] b.kind = "packed_to_unpacked" -> packed_to_unpacked(b, s, c)
      [] b.kind = "unpacked_to_packed" -> unpacked_to_packed(b, s, c)
      [] b.kind = "pack_k_bits" -> pack_k_bits(b, s, c)
      [] b.kind = "unpack_k_bits" -> unpack_k_bits(b, s, c)
      [] b.kind = "repack_bits_bb" -> repack_bits_bb(b, s, c)
      [] b.kind = "delay" -> delay(b, s, c)
      [] b.kind = "moving_average" -> moving_average(b, s, c)
      [] b.kind = "integrate" -> integrate(b, s, c)
      [] b.kind = "sample_and_hold" -> sample_and_hold(b, s, c)
      [] b.kind = "threshold_ff" -> threshold_ff(b, s, c)
      [] b.kind = "regenerate_bb" -> regenerate_bb(b, s, c)
      [] b.kind = "burst_tagger" -> burst_tagger(b, s, c)
      [] b.kind = "tags_strobe" -> tags_strobe(b, s, c)
      [] b.kind = "stream_to_tagged_stream" -> stream_to_tagged_stream(b, s, c)
      [] b.kind = "tag_gate" -> tag_gate(b, s, c)
      [] b.kind \in {"tagged_stream_mux", "tsb_vector_sink"} -> tsb_general_work(b, s, c)
      [] b.kind = "streams_to_stream" -> streams_to_stream(b, s, c)
      [] b.kind = "stream_to_streams" -> stream_to_streams(b, s, c)
      [] b.kind = "streams_to_vector" -> streams_to_vector(b, s, c)
      [] b.kind = "vector_to_streams" -> vector_to_streams(b, s, c)
      [] b.kind = "vector_map" -> vector_map(b, s, c)
      [] b.kind = "lfsr_32k_source_s" -> lfsr_32k_source_s(b, s, c)
      [] b.kind = "copy" -> copy(b, s, c)
      [] b.kind = "selector" -> selector(b, s, c)
      [] b.kind = "mute" -> mute(b, s, c)
      [] b.kind = "multiply_by_tag_value" -> multiply_by_tag_value(b, s, c)
      [] b.kind = "peak_detector2_fb" -> peak_detector2_fb(b, s, c)
      [] b.kind = "bin_statistics_f" -> bin_statistics_f(b, s, c)
      [] b.kind = "check_lfsr_32k_s" -> check_lfsr_32k_s(b, s, c)
      [] b.kind = "annotator_alltoall" -> annotator_alltoall(b, s, c)
      [] b.kind = "annotator_1to1" -> annotator_1to1(b, s, c)
      [] b.kind = "vector_sink" -> vector_sink(b, s, c)
      [] b.kind = "tagged_stream_multiply_length" -> tagged_stream_multiply_length(b, s, c)
      [] b.kind = "tagged_stream_align" -> tagged_stream_align(b, s, c)
      [] b.kind = "add_blk" -> add_blk(b, s, c)
      [] b.kind = "sub" -> sub(b, s, c)
      [] b.kind = "multiply" -> multiply(b, s, c)
      [] b.kind = "divide" -> divide(b, s, c)
      [] b.kind = "and_blk" -> and_blk(b, s, c)
      [] b.kind = "or_blk" -> or_blk(b, s, c)
      [] b.kind = "xor_blk" -> xor_blk(b, s, c)
      [] b.kind = "add_const_bb" -> add_const_bb(b, s, c)
      [] b.kind = "add_const_ss" -> add_const_ss(b, s, c)
      [] b.kind = "add_const_v" -> add_const_v(b, s, c)
      [] b.kind = "multiply_const" -> multiply_const(b, s, c)
      [] b.kind = "multiply_const_v" -> multiply_const_v(b, s, c)
      [] b.kind = "and_const" -> and_const(b, s, c)
      [] b.kind = "not_blk" -> not_blk(b, s, c)
      [] b.kind = "abs_blk" -> abs_blk(b, s, c)
      [] b.kind = "max_blk" -> max_blk(b, s, c)
      [] b.kind = "min_blk" -> min_blk(b, s, c)
      [] b.kind = "argmax" -> argmax(b, s, c)
      [] b.kind = "float_to_uchar" -> float_to_uchar(b, s, c)
      [] b.kind = "complex_to_interleaved_short" -> complex_to_interleaved_short(b, s, c)
      [] b.kind = "complex_to_interleaved_char" -> complex_to_interleaved_char(b, s, c)
      [] b.kind = "interleaved_short_to_complex" -> interleaved_short_to_complex(b, s, c)
      [] b.kind = "interleaved_char_to_complex" -> interleaved_char_to_complex(b, s, c)
      [] b.kind = "endian_swap" -> endian_swap(b, s, c)
      [] b.kind = "stream_to_vector" -> stream_to_vector(b, s, c)
      [] b.kind = "vector_to_stream" -> vector_to_stream(b, s, c)
      [] b.kind = "tag_share" -> tag_share(b, s, c)
      [] b.kind = "multiply_matrix" -> multiply_matrix(b, s, c)
      [] b.kind = "annotator_raw" -> annotator_raw(b, s, c)

-----------------------------------------------------------------------------
\* A tagged stream block may ask for min_noutput_items.
MinNoutput(b, s) == IF "min_noutput" \in DOMAIN s THEN s.min_noutput ELSE 1

\* set_output_multiple may be called again.
OutputMultiple == IF "output_multiple" \in DOMAIN state THEN state.output_multiple ELSE blk.output_multiple

\* The calls the executor may make next: how much room, how many items of each
\* input have come by now, at least what the forecast asks for.
Sizes ==
    {n \in MinNoutput(blk, state) .. MaxCall :
        n % OutputMultiple = 0 /\ (blk.nin = 0 => Len(made[1]) + n <= MaxSource)}

Offers(n) ==
    LET left == [i \in 1 .. blk.nin |-> Len(Stream(i)) - nread[i]]
        need == forecast(blk, state, n)
        Come(i) == need[i] .. left[i]
    IN  {a \in [1 .. blk.nin -> UNION {Come(i) : i \in 1 .. blk.nin}] : \A i \in 1 .. blk.nin : a[i] \in Come(i)}

Call(n, a) ==
    [n |-> n, a |-> a, rd |-> nread, wr |-> [p \in 1 .. blk.nout |-> Len(made[p])],
     in |-> [i \in 1 .. blk.nin |-> SubSeq(Stream(i), nread[i] + 1, nread[i] + a[i])]]

BInit ==
    /\ blk \in Configs
    /\ state = blk.s0
    /\ nread = [i \in 1 .. blk.nin |-> 0]
    /\ made = [p \in 1 .. blk.nout |-> <<>>]
    /\ put = {} /\ over = FALSE /\ changes = <<>>

\* block_executor::run_one_iteration around the call: the counters move on.
Work(n, a) ==
    LET r == general_work(blk, state, Call(n, a)) IN
    /\ ~over
    /\ state' = r.s
    /\ nread' = [i \in 1 .. blk.nin |-> nread[i] + r.used[i]]
    /\ made' = [p \in 1 .. blk.nout |-> made[p] \o r.made[p]]
    /\ put' = put \cup r.tags
    /\ over' = r.done
    /\ UNCHANGED <<blk, changes>>

\* Another thread, or a message, changes a parameter: between two calls, because
\* general_work holds the same mutex, or is called by the thread that handles
\* messages, or reads the parameter once.
Change(what, v) ==
    /\ Len(changes) < MaxChanges /\ ~over
    /\ state' = CASE what = "dly" -> set_dly(state, v)
                  [] what = "d_enabled" -> handle_enable(state, v)
                  [] what = "d_mute" -> set_mute(state, v)
                  [] what = "d_scalar" -> set_scalar(state, v)
                  [] what = "d_input_index" -> set_input_index(blk, state, v)
                  [] what = "d_output_index" -> set_output_index(blk, state, v)
                  [] what = "d_swap" -> set_swap(state, v)
                  [] what = "d_A" -> msg_handler_A(state, v)
                  [] what = "d_queued_tags" -> add_tag(state, v)
    /\ changes' = Append(changes, [what |-> what, to |-> v, at |-> IF blk.nin = 0 THEN 0 ELSE nread[1]])
    /\ UNCHANGED <<blk, nread, made, put, over>>

\* What may be changed of the block, and to what.
MayChange ==
    CASE blk.kind = "delay" -> {"dly"} \X Delays
      [] blk.kind = "copy" -> {"d_enabled"} \X BOOLEAN
      [] blk.kind = "mute" -> {"d_mute"} \X BOOLEAN
      [] blk.kind = "tagged_stream_multiply_length" -> {"d_scalar"} \X {<<2, 1>>, <<1, 2>>}
      [] blk.kind = "selector" -> ({"d_enabled"} \X BOOLEAN) \cup ({"d_input_index"} \X (0 .. blk.nin))
                                  \cup ({"d_output_index"} \X (0 .. blk.nout))
      [] blk.kind = "interleaved_short_to_complex" /\ blk.vector_input -> {"d_swap"} \X BOOLEAN
      [] blk.kind = "multiply_matrix" -> {"d_A"} \X blk.messages
      [] blk.kind = "annotator_raw" -> {"d_queued_tags"} \X (nread[1] .. Len(blk.x[1]) - 1)
      [] OTHER -> {}

SomeWork == \E n \in Sizes : \E a \in Offers(n) : Work(n, a)

BNext == SomeWork \/ (\E x \in MayChange : Change(x[1], x[2]))

\* The executor goes on calling a block that has input and room.
BSpec == BInit /\ [][BNext]_bvars /\ WF_bvars(SomeWork)
=============================================================================
