------------------------------ MODULE RateBlocks ------------------------------
(* The work functions of the standard blocks that copy items at another rate *)
(* or from several streams: head, skiphead, keep_one_in_n, keep_m_in_n,      *)
(* repeat, interleave, deinterleave, stream_mux, patterned_interleaver,      *)
(* vector_insert, vector_source, file_source, the blocks of bits, those that *)
(* deal items out, those that are switched and those that compute each item  *)
(* from the items at its place (gr-blocks/lib/*_impl.cc).                    *)
(*                                                                           *)
(* A work function is given the block b (its constructor's parameters), its  *)
(* state s and the call c: n is noutput_items, a[i] is ninput_items[i],      *)
(* in[i] is what the input buffer holds from the read pointer on, rd[i] is   *)
(* nitems_read(i) and wr[p] is nitems_written(p).  It returns the state it   *)
(* leaves, what it consumed, what it produced, the tags it added to output 0 *)
(* and whether it said that it is done.                                      *)
EXTENDS Integers, Sequences, SequencesExt, FiniteSets, Bitwise

CONSTANT Stale   \* what lies in the circular buffer beyond ninput_items

Least(x, y) == IF x < y THEN x ELSE y
Most(x, y)  == IF x > y THEN x ELSE y

\* The (k + 1)-th item at input i; C++ indexes from 0.
Item(c, i, k) == IF k < c.a[i] THEN c.in[i][k + 1] ELSE Stale

\* memcpy of n items of input i, beginning at in[k].
Copied(c, i, k, n) == [j \in 1 .. n |-> Item(c, i, k + j - 1)]

\* Every item of every input carries a tag that names it: get_tags_in_window.
InWindow(c, i, lo, hi) ==
    {[offset |-> c.rd[i] + k, value |-> <<i, c.rd[i] + k>>] : k \in lo .. hi - 1}

Moved(tags, d) == {[t EXCEPT !.offset = @ + d] : t \in tags}

Result(s, used, made, tags) ==
    [s |-> s, used |-> used, made |-> made, tags |-> tags, done |-> FALSE]

\* return -1: WORK_DONE.
WorkDone(b, s) ==
    [s |-> s, used |-> [i \in 1 .. b.nin |-> 0], made |-> [p \in 1 .. b.nout |-> <<>>],
     tags |-> {}, done |-> TRUE]

\* sync_block, sync_decimator and sync_interpolator consume what the items
\* work returned stand for.
SyncResult(b, s, out, tags) ==
    Result(s, [i \in 1 .. b.nin |-> (Len(out) * b.decimation) \div b.interpolation],
           <<out>>, tags)

fixed_rate_noutput_to_ninput_same(b, n) == n + b.history - 1
fixed_rate_noutput_to_ninput(b, n) == (n * b.decimation) \div b.interpolation + b.history - 1

-----------------------------------------------------------------------------
head(b, s, c) ==
    LET n == Least(b.nitems - s.d_ncopied_items, c.n) IN
    IF s.d_ncopied_items >= b.nitems THEN WorkDone(b, s)
    ELSE SyncResult(b, [d_ncopied_items |-> s.d_ncopied_items + n], Copied(c, 1, 0, n), {})

\* Skips until nitems_to_skip have gone by, and copies what is left of the call.
skiphead(b, s, c) ==
    LET ninput == Least(c.a[1], c.n)
        ii     == Least(ninput, Most(0, b.nitems_to_skip - s.d_nitems))
    IN  Result([d_nitems |-> s.d_nitems + ninput], <<ninput>>,
               <<Copied(c, 1, ii, ninput - ii)>>,
               Moved(InWindow(c, 1, ii, ninput), -b.nitems_to_skip))

\* d_decim_rate is the float nearest to 1 / d_n, its 24 bits here in units of
\* 2^-e, and the product with an offset is a float again: both round to nearest,
\* and the offset drops the rest.
Rounded(p, q) ==
    LET down == p \div q  rest == 2 * (p % q) IN
    IF rest > q \/ (rest = q /\ down % 2 = 1) THEN down + 1 ELSE down
TimesDecimRate(offset, d_n) ==
    LET e    == CHOOSE e \in 23 .. 30 : 2^e >= 2^23 * d_n /\ 2^(e - 1) < 2^23 * d_n
        full == offset * Rounded(2^e, d_n)
        k    == CHOOSE k \in 0 .. 6 : full < 2^(24 + k) /\ (k = 0 \/ full >= 2^(23 + k))
    IN  (Rounded(full, 2^k) * 2^k) \div 2^e

keep_one_in_n(b, s, c) ==
    LET RECURSIVE Loop(_, _, _)
        Loop(ni, out, d_count) ==
            IF ni < c.a[1] /\ Len(out) < c.n
            THEN IF d_count - 1 <= 0 THEN Loop(ni + 1, Append(out, Item(c, 1, ni)), b.d_n)
                                     ELSE Loop(ni + 1, out, d_count - 1)
            ELSE Result([d_count |-> d_count], <<ni>>, <<out>>,
                        {[t EXCEPT !.offset = TimesDecimRate(@, b.d_n)] : t \in InWindow(c, 1, 0, ni)})
    IN  Loop(0, <<>>, s.d_count)

keep_m_in_n(b, s, c) ==
    LET blks   == Least(c.n \div b.d_m, c.a[1] \div b.d_n)
        excess == b.d_offset + b.d_m - b.d_n
        Blk(i) == IF excess <= 0 THEN Copied(c, 1, i * b.d_n + b.d_offset, b.d_m)
                  ELSE Copied(c, 1, i * b.d_n, excess)
                       \o Copied(c, 1, i * b.d_n + b.d_offset, b.d_m - excess)
    IN  Result(s, <<blks * b.d_n>>, <<FlattenSeq([i \in 1 .. blks |-> Blk(i - 1)])>>, {})

repeat(b, s, c) ==
    SyncResult(b, s, FlattenSeq([i \in 1 .. c.n \div b.interpolation |->
                                    [j \in 1 .. b.interpolation |-> Item(c, 1, i - 1)]]), {})

interleave(b, s, c) ==
    LET Round(r) == FlattenSeq([i \in 1 .. b.nin |-> Copied(c, i, r * b.d_blocksize, b.d_blocksize)])
        rounds   == c.n \div (b.d_blocksize * b.nin)
    IN  Result(s, [i \in 1 .. b.nin |-> c.n \div b.nin],
               <<FlattenSeq([r \in 1 .. rounds |-> Round(r - 1)])>>, {})

\* Goes round the outputs from where the last call left off.
deinterleave(b, s, c) ==
    LET total == c.n * b.nout
        Deal(acc, k) ==
            [acc EXCEPT !.out[acc.at + 1] = @ \o Copied(c, 1, (k - 1) * b.d_blocksize, b.d_blocksize),
                        !.at = (@ + 1) % b.nout]
        dealt == FoldLeft(Deal, [out |-> [p \in 1 .. b.nout |-> <<>>], at |-> s.d_current_output],
                          [k \in 1 .. total \div b.d_blocksize |-> k])
    IN  Result([d_current_output |-> dealt.at], <<total>>, dealt.out, {})

\* do d_stream++ while its length is zero.
NextStream_unskipped(b, d_stream) == (d_stream + 1) % b.nin
NextStream(b, d_stream) ==
    LET Away(k) == (d_stream + k) % b.nin
        k == CHOOSE k \in 1 .. b.nin : /\ b.d_lengths[Away(k) + 1] > 0
                                       /\ \A j \in 1 .. k - 1 : b.d_lengths[Away(j) + 1] = 0
    IN  Away(k)

stream_mux(b, s, c) ==
    LET RECURSIVE Loop(_, _, _, _)
        Loop(st, out, index, tags) ==
            LET i == st.d_stream + 1
                n == Least(Least(c.n - Len(out), c.a[i] - index[i]), st.d_residual)
                out2   == out \o Copied(c, i, index[i], n)
                index2 == [index EXCEPT ![i] = @ + n]
                tags2  == tags \cup Moved(InWindow(c, i, index[i], index[i] + n),
                                          c.wr[1] + Len(out) - c.rd[i] - index[i])
                next   == NextStream(b, st.d_stream)
            IN  IF Len(out) >= c.n \/ c.a[i] <= index[i] THEN Result(st, index, <<out>>, tags)
                ELSE IF n = st.d_residual
                THEN Loop([d_stream |-> next, d_residual |-> b.d_lengths[next + 1]], out2, index2, tags2)
                ELSE Result([st EXCEPT !.d_residual = @ - n], index2, <<out2>>, tags2)
    IN  Loop(s, <<>>, [i \in 1 .. b.nin |-> 0], {})

\* How often input i occurs in the pattern: d_counts.
Times(b, i) == Cardinality({j \in DOMAIN b.d_pattern : b.d_pattern[j] = i})

patterned_interleaver(b, s, c) ==
    LET size  == Len(b.d_pattern)
        nblks == c.n \div size
        Take(acc, k) ==
            LET i == b.d_pattern[((k - 1) % size) + 1] IN
            [out |-> Append(acc.out, Item(c, i, acc.ii[i])), ii |-> [acc.ii EXCEPT ![i] = @ + 1]]
        taken == FoldLeft(Take, [out |-> <<>>, ii |-> [i \in 1 .. b.nin |-> 0]],
                          [k \in 1 .. nblks * size |-> k])
    IN  Result(s, [i \in 1 .. b.nin |-> Times(b, i) * nblks], <<taken.out>>, {})

vector_insert(b, s, c) ==
    LET size == Len(b.d_data)
        RECURSIVE Loop(_, _, _, _)
        Loop(d_offset, ii, out, tags) ==
            LET room   == c.n - Len(out)
                copy   == Least(Least(room, c.a[1] - ii), b.d_periodicity - d_offset)
                insert == Least(room, size - d_offset)
            IN  IF room <= 0 \/ ii >= c.a[1]
                THEN Result([d_offset |-> d_offset], <<ii>>, <<out>>, tags)
                ELSE IF d_offset >= size
                THEN Loop((d_offset + copy) % b.d_periodicity, ii + copy, out \o Copied(c, 1, ii, copy),
                          tags \cup Moved(InWindow(c, 1, ii, ii + copy),
                                          c.wr[1] + Len(out) - c.rd[1] - ii))
                ELSE Loop((d_offset + insert) % b.d_periodicity, ii,
                          out \o SubSeq(b.d_data, d_offset + 1, d_offset + insert), tags)
    IN  Loop(s.d_offset, 0, <<>>, {})

\* With tags a repeated vector is written whole; the output multiple is its length.
vector_source(b, s, c) ==
    LET size == Len(b.d_data)
        n    == Least(size - s.d_offset, c.n)
        Tag(t, at) == [offset |-> at, value |-> t]
    IN  IF b.d_repeat
        THEN Result([d_offset |-> IF b.d_tags = {} THEN (s.d_offset + c.n) % size ELSE s.d_offset], <<>>,
                    <<[k \in 1 .. c.n |-> b.d_data[((s.d_offset + k - 1) % size) + 1]]>>,
                    {Tag(t, c.wr[1] + i * size + t) : t \in b.d_tags, i \in 0 .. (c.n \div size) - 1})
        ELSE IF s.d_offset >= size THEN WorkDone(b, s)
        ELSE Result([d_offset |-> s.d_offset + n], <<>>,
                    <<SubSeq(b.d_data, s.d_offset + 1, s.d_offset + n)>>,
                    {Tag(t, t) : t \in {x \in b.d_tags : x >= s.d_offset /\ x < s.d_offset + n}})

\* Reads on to the end of the part of the file it was opened for, and there
\* begins again if it repeats; b.d_data is the file.  Each beginning is tagged.
file_source(b, s, c) ==
    LET RECURSIVE Loop(_, _, _)
        Loop(st, out, tags) ==
            LET n    == Least(c.n - Len(out), st.d_items_remaining)
                ends == n = st.d_items_remaining
                out2 == out \o SubSeq(b.d_data, st.at + 1, st.at + n)
                tags2 == IF st.d_file_begin
                         THEN tags \cup {[offset |-> c.wr[1] + Len(out), value |-> <<0, st.d_repeat_cnt>>]}
                         ELSE tags
                read == [st EXCEPT !.at = @ + n, !.d_items_remaining = @ - n, !.d_file_begin = FALSE]
            IN  IF Len(out) = c.n THEN Result(st, <<>>, <<out>>, tags)
                ELSE IF ~ends THEN Loop(read, out2, tags2)
                ELSE IF b.d_repeat
                THEN Loop([at |-> b.d_start_offset_items, d_items_remaining |-> b.d_length_items,
                           d_file_begin |-> TRUE, d_repeat_cnt |-> st.d_repeat_cnt + 1], out2, tags2)
                ELSE Result(read, <<>>, <<out2>>, tags2)
    IN  IF s.d_items_remaining = 0 THEN WorkDone(b, s) ELSE Loop(s, <<>>, {})

-----------------------------------------------------------------------------
(* The blocks that cut items into bits and join bits to items:               *)
(* packed_to_unpacked, unpacked_to_packed, pack_k_bits_bb, unpack_k_bits_bb  *)
(* and the loop of repack_bits_bb.  An item is a number of b.bits bits (8,   *)
(* 16 or 32 in the code: bits_per_type); what is beyond ninput_items is      *)
(* Stale, whose bits are taken as ones.                                      *)
\* Bit j of x, the least significant one being bit 0.
Bit(x, j) == IF x = Stale THEN 1 ELSE (x \div 2^j) % 2

\* x = (x << 1) | bit, for each bit.
FromBits(bits) == FoldLeft(LAMBDA x, bit : 2 * x + bit, 0, bits)

MsbFirst(b) == b.endianness = "GR_MSB_FIRST"

\* get_bit_be and get_bit_le of packed_to_unpacked.
PackedBit(b, c, i, at) ==
    LET x == Item(c, i, at \div b.bits)
    IN  Bit(x, IF MsbFirst(b) THEN b.bits - 1 - (at % b.bits) ELSE at % b.bits)

\* All noutput_items are written, from as many bits as that takes.
packed_to_unpacked(b, s, c) ==
    LET k == b.bits_per_chunk
        Chunk(i, m) == FromBits([j \in 1 .. k |-> PackedBit(b, c, i, s.d_index + m * k + j - 1)])
        index == s.d_index + c.n * k
    IN  Result([d_index |-> index % b.bits], [i \in 1 .. b.nin |-> index \div b.bits],
               [i \in 1 .. b.nout |-> [m \in 1 .. c.n |-> Chunk(i, m - 1)]], {})

\* get_bit_be1: the chunks are read most significant bit first in either order.
ChunkBit(b, c, i, at) ==
    LET k == b.bits_per_chunk IN Bit(Item(c, i, at \div k), k - 1 - (at % k))

unpacked_to_packed(b, s, c) ==
    LET k == b.bits_per_chunk
        Bits(i, m) == [j \in 1 .. b.bits |-> ChunkBit(b, c, i, s.d_index + m * b.bits + j - 1)]
        index == s.d_index + c.n * b.bits
    IN  Result([d_index |-> index % k], [i \in 1 .. b.nin |-> index \div k],
               [i \in 1 .. b.nout |-> [m \in 1 .. c.n |->
                    FromBits(IF MsbFirst(b) THEN Bits(i, m - 1) ELSE Reverse(Bits(i, m - 1)))]], {})

pack_k_bits(b, s, c) ==
    LET k == b.decimation IN
    SyncResult(b, s, [m \in 1 .. c.n |->
        FromBits([j \in 1 .. k |-> Bit(Item(c, 1, (m - 1) * k + j - 1), 0)])], {})

unpack_k_bits(b, s, c) ==
    LET k == b.interpolation IN
    SyncResult(b, s, [m \in 1 .. (c.n \div k) * k |->
        Bit(Item(c, 1, (m - 1) \div k), k - 1 - ((m - 1) % k))], {})

-----------------------------------------------------------------------------
\* Bit j of the input, counted on from where the last call stopped in an item.
NextBit(b, s, c, j) ==
    LET at == s.d_in_index + j
        in == at % b.d_k
    IN  Bit(Item(c, 1, at \div b.d_k), IF MsbFirst(b) THEN b.d_k - 1 - in ELSE in)

\* out[n_written] |= bit << place, for the bits of the m-th byte of this call.  The
\* byte a call leaves unfinished is what the output buffer holds at the write
\* pointer, and is still there at the next call.
ByteOf_cleared(b, s, c, m, nbits) ==
    LET place(o) == IF MsbFirst(b) THEN b.d_l - 1 - o ELSE o
        filled   == IF m = 0 THEN s.d_out_index ELSE 0
        bit(o)   == LET j == m * b.d_l + o - s.d_out_index IN
                    IF j < nbits THEN NextBit(b, s, c, j) * 2^place(o) ELSE 0
    IN  FoldLeft(LAMBDA x, o : x + bit(o), 0, [k \in 1 .. b.d_l - filled |-> filled + k - 1])
ByteOf(b, s, c, m, nbits) ==
    LET place(o) == IF MsbFirst(b) THEN b.d_l - 1 - o ELSE o
        filled   == IF m = 0 THEN s.d_out_index ELSE 0
        bit(o)   == LET j == m * b.d_l + o - s.d_out_index IN
                    IF j < nbits THEN NextBit(b, s, c, j) * 2^place(o) ELSE 0
    IN  FoldLeft(LAMBDA x, o : x + bit(o), IF filled > 0 THEN s.filling ELSE 0,
                 [k \in 1 .. b.d_l - filled |-> filled + k - 1])

\* Bit by bit until bytes_to_write are written or ninput items read; in packet
\* mode an unfinished last byte counts as written.
repack_bits(b, s, c, bytes_to_write, ninput) ==
    LET nbits   == Most(0, Least(bytes_to_write * b.d_l - s.d_out_index, ninput * b.d_k - s.d_in_index))
        outbits == s.d_out_index + nbits
        inbits  == s.d_in_index + nbits
        whole   == outbits \div b.d_l
        odd     == outbits % b.d_l
        last    == IF odd = 0 THEN 0 ELSE ByteOf(b, s, c, whole, nbits)
        bytes   == [m \in 1 .. whole |-> ByteOf(b, s, c, m - 1, nbits)]
        flush   == b.d_packet_mode /\ odd # 0
    IN  [st |-> [s EXCEPT !.d_in_index = inbits % b.d_k, !.filling = last,
                          !.d_out_index = IF flush THEN 0 ELSE odd],
         n_read |-> inbits \div b.d_k,
         out |-> IF flush THEN Append(bytes, last) ELSE bytes]

-----------------------------------------------------------------------------
(* The blocks that deal items out to streams, or to the parts of a vector,   *)
(* and those a message or a call switches: copy, selector, mute.             *)
streams_to_stream(b, s, c) ==
    SyncResult(b, s, [m \in 1 .. c.n |-> Item(c, ((m - 1) % b.nin) + 1, (m - 1) \div b.nin)], {})

stream_to_streams(b, s, c) ==
    Result(s, <<c.n * b.nout>>,
           [p \in 1 .. b.nout |-> [m \in 1 .. c.n |-> Item(c, 1, (m - 1) * b.nout + p - 1)]], {})

\* An item of vlen parts is a sequence of them.
streams_to_vector(b, s, c) ==
    SyncResult(b, s, [m \in 1 .. c.n |-> [i \in 1 .. b.nin |-> Item(c, i, m - 1)]], {})

vector_to_streams(b, s, c) ==
    Result(s, <<c.n>>, [p \in 1 .. b.nout |-> [m \in 1 .. c.n |-> Item(c, 1, m - 1)[p]]], {})

\* b.d_mapping[p][j] is the input and the part of its vector that part j of
\* output p is copied from, both counted from 0.
vector_map(b, s, c) ==
    LET Part(from, m) == Item(c, from[1] + 1, m)[from[2] + 1] IN
    Result(s, [i \in 1 .. b.nin |-> c.n],
           [p \in 1 .. b.nout |-> [m \in 1 .. c.n |->
                [j \in DOMAIN b.d_mapping[p] |-> Part(b.d_mapping[p][j], m - 1)]]], {})

lfsr_32k_source_s(b, s, c) ==
    LET BUFSIZE == Len(b.d_buffer) IN
    SyncResult(b, [d_index |-> (s.d_index + c.n) % BUFSIZE],
               [m \in 1 .. c.n |-> b.d_buffer[((s.d_index + m - 1) % BUFSIZE) + 1]], {})

handle_enable(s, en) == [s EXCEPT !.d_enabled = en]

\* What is not copied is consumed.
copy_held(b, s, c) ==
    LET n == IF s.d_enabled THEN c.n ELSE 0 IN
    Result(s, [i \in 1 .. b.nin |-> n], [p \in 1 .. b.nout |-> Copied(c, p, 0, n)], {})
copy(b, s, c) ==
    Result(s, [i \in 1 .. b.nin |-> c.n],
           [p \in 1 .. b.nout |-> IF s.d_enabled THEN Copied(c, p, 0, c.n) ELSE <<>>], {})

\* An index that is no port's is refused with an exception.
set_input_index(b, s, i)  == IF i < b.nin THEN [s EXCEPT !.d_input_index = i] ELSE s
set_output_index(b, s, p) == IF p < b.nout THEN [s EXCEPT !.d_output_index = p] ELSE s

selector(b, s, c) ==
    Result(s, [i \in 1 .. b.nin |-> c.n],
           [p \in 1 .. b.nout |-> IF s.d_enabled /\ p - 1 = s.d_output_index
                                  THEN Copied(c, s.d_input_index + 1, 0, c.n) ELSE <<>>], {})

set_mute(s, m) == [s EXCEPT !.d_mute = m]
mute(b, s, c) ==
    SyncResult(b, s, IF s.d_mute THEN [m \in 1 .. c.n |-> 0] ELSE Copied(c, 1, 0, c.n), {})
-----------------------------------------------------------------------------
(* The blocks that compute item by item.  An item is a vector of b.d_vlen    *)
(* numbers of an integer type, [bits, signed]; what is computed is narrowed  *)
(* to it.  (With float and complex items these blocks only call volk.)       *)
UChar == [bits |-> 8, signed |-> FALSE]
Char  == [bits |-> 8, signed |-> TRUE]
Short == [bits |-> 16, signed |-> TRUE]

Unsigned(T, x) == x % 2^T.bits
Narrow(T, x) == LET m == Unsigned(T, x)
                IN  IF T.signed /\ m >= 2^(T.bits - 1) THEN m - 2^T.bits ELSE m

\* F is given the numbers that stand at one place of all inputs, and the place.
EachNumber(b, s, c, T, F(_, _)) ==
    LET Numbers(m, j) == [i \in 1 .. b.nin |-> Item(c, i, m)[j]] IN
    SyncResult(b, s, [m \in 1 .. c.n |->
        [j \in 1 .. b.d_vlen |-> Narrow(T, F(Numbers(m - 1, j), j))]], {})

\* T acc = the first input's; acc op= each of the others'.
Accumulated(b, s, c, Op(_, _)) ==
    EachNumber(b, s, c, b.T, LAMBDA xs, j :
        FoldLeft(LAMBDA acc, x : Narrow(b.T, Op(acc, x)), xs[1], Tail(xs)))

\* Integer division of C rounds towards zero.
Magnitude(x) == IF x < 0 THEN -x ELSE x
Quotient(x, y) == LET q == Magnitude(x) \div Magnitude(y) IN IF (x < 0) = (y < 0) THEN q ELSE -q

add_blk(b, s, c)  == Accumulated(b, s, c, LAMBDA acc, x : acc + x)
sub(b, s, c)      == Accumulated(b, s, c, LAMBDA acc, x : acc - x)
multiply(b, s, c) == Accumulated(b, s, c, LAMBDA acc, x : acc * x)
divide(b, s, c)   == Accumulated(b, s, c, Quotient)
and_blk(b, s, c)  == Accumulated(b, s, c, LAMBDA acc, x : Unsigned(b.T, acc) & Unsigned(b.T, x))
or_blk(b, s, c)   == Accumulated(b, s, c, LAMBDA acc, x : Unsigned(b.T, acc) | Unsigned(b.T, x))
xor_blk(b, s, c)  == Accumulated(b, s, c, LAMBDA acc, x : Unsigned(b.T, acc) ^^ Unsigned(b.T, x))

add_const_bb(b, s, c) == EachNumber(b, s, c, UChar, LAMBDA xs, j : xs[1] + b.d_k)
add_const_ss(b, s, c) == EachNumber(b, s, c, Short, LAMBDA xs, j : xs[1] + b.d_k)
add_const_v(b, s, c)  == EachNumber(b, s, c, b.T, LAMBDA xs, j : xs[1] + b.d_k[j])
multiply_const(b, s, c)   == EachNumber(b, s, c, b.T, LAMBDA xs, j : xs[1] * b.d_k)
multiply_const_v(b, s, c) == EachNumber(b, s, c, b.T, LAMBDA xs, j : xs[1] * b.d_k[j])
and_const(b, s, c) == EachNumber(b, s, c, b.T, LAMBDA xs, j : Unsigned(b.T, xs[1]) & Unsigned(b.T, b.d_k))
not_blk(b, s, c)   == EachNumber(b, s, c, b.T, LAMBDA xs, j : -xs[1] - 1)
abs_blk(b, s, c)   == EachNumber(b, s, c, b.T, LAMBDA xs, j : Magnitude(xs[1]))

\* The extreme of all inputs, of whole vectors or place by place; the first of
\* several stays.
Extreme(b, s, c, Beats(_, _)) ==
    LET Best(xs)     == FoldLeft(LAMBDA best, x : IF Beats(x, best) THEN x ELSE best, xs[1], xs)
        Place(m, j)  == [i \in 1 .. b.nin |-> Item(c, i, m)[j]]
        Everywhere(m) == FlattenSeq([j \in 1 .. b.d_vlen |-> Place(m, j)])
    IN  SyncResult(b, s, [m \in 1 .. c.n |->
            IF b.d_vlen_out = 1 THEN <<Best(Everywhere(m - 1))>>
            ELSE [j \in 1 .. b.d_vlen |-> Best(Place(m - 1, j))]], {})
max_blk(b, s, c) == Extreme(b, s, c, LAMBDA x, best : x > best)
min_blk(b, s, c) == Extreme(b, s, c, LAMBDA x, best : x < best)

\* The place (output 0) and the input (output 1) of the first greatest, looked
\* for place by place and at each place input by input.
argmax(b, s, c) ==
    LET Scan == FlattenSeq([j \in 1 .. b.d_vlen |-> [i \in 1 .. b.nin |-> <<j - 1, i - 1>>]])
        At(m, xy) == Item(c, xy[2] + 1, m)[xy[1] + 1]
        Best(m) == FoldLeft(LAMBDA best, xy : IF At(m, xy) > At(m, best) THEN xy ELSE best, <<0, 0>>, Scan)
    IN  Result(s, [i \in 1 .. b.nin |-> c.n],
               [p \in 1 .. 2 |-> [m \in 1 .. c.n |-> Best(m - 1)[p]]], {})

\* A float is given in halves; rint and lrintf round a half to the even neighbour.
rint(h) == IF h % 2 = 0 \/ (h \div 2) % 2 = 0 THEN h \div 2 ELSE h \div 2 + 1

float_array_to_uchar(h) == Least(Most(rint(h), 0), 255)
float_to_uchar(b, s, c) == EachNumber(b, s, c, UChar, LAMBDA xs, j : float_array_to_uchar(xs[1]))

\* A complex number is <<re, im>>.  Nothing saturates on the way to integers.
ComplexToPairs(b, s, c, T) ==
    LET npairs == IF b.d_vector THEN c.n ELSE c.n \div 2
        pairs  == [m \in 1 .. npairs |-> [q \in 1 .. 2 |-> Narrow(T, rint(Item(c, 1, m - 1)[q]))]]
    IN  SyncResult(b, s, IF b.d_vector THEN pairs ELSE FlattenSeq(pairs), {})
complex_to_interleaved_short(b, s, c) == ComplexToPairs(b, s, c, Short)
complex_to_interleaved_char(b, s, c)  == ComplexToPairs(b, s, c, Char)

PairAt(b, c, m) == IF b.vector_input THEN Item(c, 1, m) ELSE Copied(c, 1, 2 * m, 2)
interleaved_char_to_complex(b, s, c) == SyncResult(b, s, [m \in 1 .. c.n |-> PairAt(b, c, m - 1)], {})

set_swap(s, swap) == [s EXCEPT !.d_swap = swap]
interleaved_short_to_complex(b, s, c) ==
    SyncResult(b, s, [m \in 1 .. c.n |-> IF s.d_swap THEN Reverse(PairAt(b, c, m - 1))
                                         ELSE PairAt(b, c, m - 1)], {})

\* An item is the sequence of its 1, 2, 4 or 8 bytes.
endian_swap(b, s, c) == SyncResult(b, s, [m \in 1 .. c.n |-> Reverse(Item(c, 1, m - 1))], {})

stream_to_vector(b, s, c) ==
    SyncResult(b, s, [m \in 1 .. c.n |-> Copied(c, 1, (m - 1) * b.decimation, b.decimation)], {})
vector_to_stream(b, s, c) ==
    SyncResult(b, s, FlattenSeq([m \in 1 .. c.n \div b.interpolation |-> Item(c, 1, m - 1)]), {})

\* The tags of input 1 go to the output too: TPP_ALL_TO_ALL.
tag_share(b, s, c) == SyncResult(b, s, Copied(c, 1, 0, c.n), {})

\* set_A refuses a matrix of another shape; a row of the message that is no
\* vector leaves the row as it is.
set_A(s, new_A) ==
    IF Len(new_A) = Len(s.d_A) /\ \A p \in DOMAIN new_A : Len(new_A[p]) = Len(s.d_A[p])
    THEN [s EXCEPT !.d_A = new_A] ELSE s
msg_handler_A(s, A) ==
    IF Len(A) # Len(s.d_A) \/ \E p \in DOMAIN A : A[p].is_vector /\ Len(A[p].row) # Len(s.d_A[1]) THEN s
    ELSE set_A(s, [p \in DOMAIN A |-> IF A[p].is_vector THEN A[p].row ELSE s.d_A[p]])

\* With TPP_CUSTOM an input's tags go where its factor is not zero; those of the
\* first output are kept here.
multiply_matrix(b, s, c) ==
    LET Row(p, m) == FoldLeft(LAMBDA sum, i : sum + Item(c, i, m) * s.d_A[p][i], 0, [i \in 1 .. b.nin |-> i])
        propagate_tags_by_A == UNION {InWindow(c, i, 0, c.n) : i \in {i \in 1 .. b.nin : s.d_A[1][i] # 0}}
    IN  Result(s, [i \in 1 .. b.nin |-> c.n], [p \in 1 .. b.nout |-> [m \in 1 .. c.n |-> Row(p, m - 1)]],
               IF b.TPP_CUSTOM THEN propagate_tags_by_A ELSE {})

\* Tags that wait, by offset.  One in the future is refused with an exception, but
\* waits all the same; one in the past would keep those behind it from being placed.
add_tag(s, offset) == [s EXCEPT !.d_queued_tags = SortSeq(Append(@, offset), LAMBDA x, y : x < y)]
annotator_raw(b, s, c) ==
    LET Due(o) == o >= c.rd[1] /\ o < c.rd[1] + c.n
        queued == s.d_queued_tags
        due    == SelectInSeq(Append(queued, -1), LAMBDA o : ~Due(o)) - 1
    IN  SyncResult(b, [d_queued_tags |-> SubSeq(queued, due + 1, Len(queued))], Copied(c, 1, 0, c.n),
                   {[offset |-> queued[k], value |-> "queued"] : k \in 1 .. due})
=============================================================================
