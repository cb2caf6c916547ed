----------------------------- MODULE PmtSerialize -----------------------------
(***************************************************************************)
(* pmt_serialize.cc: values written to a stream one after the other and     *)
(* read back, the stream perhaps cut short in between.  A byte holds one of *)
(* Base values, so that words of 16, 32 and 64 bits are 2, 3 and 4 bytes    *)
(* here; their order on the wire and their signs are as in the code.        *)
(***************************************************************************)
EXTENDS Pmt, SequencesExt

CONSTANTS
    Values,      \* what is written
    MaxWritten,  \* bound on how many values
    TmpBuf       \* the longest symbol that deserialize reads, 1024 in the code

VARIABLES
    wire,     \* the bytes not yet read
    wrote,    \* the values written
    got,      \* what each deserialize returned or threw
    iscut     \* the stream was cut short

svars == <<wire, wrote, got, iscut>>

Base == 16
W16 == 2
W32 == 3
W64 == 4
All1 == Base - 1     \* (eof & 0xff)

PST == [true |-> 0, false |-> 1, symbol |-> 2, int32 |-> 3, double |-> 4, complex |-> 5, null |-> 6,
        pair |-> 7, vector |-> 8, uniform |-> 10, uint64 |-> 11, tuple |-> 12, int64 |-> 13]

\* Bytes of a number, the most significant first; of a negative one those of
\* its two's complement.
Untagged(n, w) == [k \in 1 .. w |-> (n \div Base ^ (w - k)) % Base]

\* A uniform vector's item: how many words, how wide, and whether signed.
\* 32-bit floats go as doubles.
Words(kind) == IF kind \in {"c32", "c64"} THEN 2 ELSE 1
Width(kind) == CASE kind \in {"u8", "s8"} -> 1 [] kind \in {"u16", "s16"} -> W16
                 [] kind \in {"u32", "s32"} -> W32 [] OTHER -> W64
Signed(kind) == kind \in {"s8", "s16", "s32", "s64", "f32", "f64", "c32", "c64"}
Kinds == <<"u8", "s8", "u16", "s16", "u32", "s32", "u64", "s64", "f32", "f64", "c32", "c64">>
KindNo(kind) == (CHOOSE n \in DOMAIN Kinds : Kinds[n] = kind) - 1

FitsInt32(n) == n >= -(Base ^ W32 \div 2) /\ n < Base ^ W32 \div 2

\* Mutant: every integer is sent as 32 bits.
IntBytes_narrow(n) == <<PST.int32>> \o Untagged(n, W32)
IntBytes(n) == IF FitsInt32(n) THEN <<PST.int32>> \o Untagged(n, W32)
               ELSE <<PST.int64>> \o Untagged(n, W64)

Joined(parts) == FoldLeft(LAMBDA x, y : x \o y, <<>>, parts)

RECURSIVE serialize(_)
serialize(x) ==
    CASE x.type = "bool" -> <<IF x.b THEN PST.true ELSE PST.false>>
      [] x.type = "null" -> <<PST.null>>
      [] x.type = "symbol" -> <<PST.symbol>> \o Untagged(Len(x.name), W16) \o x.name
      [] is_pair(x) -> <<PST.pair>> \o serialize(car(x)) \o serialize(cdr(x))
      [] x.type = "uint64" -> <<PST.uint64>> \o Untagged(x.u, W64)
      [] x.type = "integer" -> IntBytes(x.i)
      [] x.type = "real" -> <<PST.double>> \o Untagged(x.r, W64)
      [] x.type = "complex" -> <<PST.complex>> \o Untagged(x.re, W64) \o Untagged(x.im, W64)
      [] x.type \in {"vector", "tuple"} ->
            <<IF x.type = "vector" THEN PST.vector ELSE PST.tuple>> \o Untagged(Len(x.elems), W32)
            \o Joined([n \in DOMAIN x.elems |-> serialize(x.elems[n])])
      [] x.type = "uniform" ->
            <<PST.uniform, KindNo(x.kind)>>
            \o Untagged(Len(x.nums) \div Words(x.kind), W32) \o <<1, 0>>
            \o Joined([n \in DOMAIN x.nums |-> Untagged(x.nums[n], Width(x.kind))])

-----------------------------------------------------------------------------
(* Reading.  What is missing at the end of the stream reads as All1, and is  *)
(* reported (`ok') when the last byte of the word is missing.                *)
Word(s, w) ==
    [n    |-> FoldLeft(LAMBDA x, y : x * Base + y, 0,
                       [k \in 1 .. w |-> IF k <= Len(s) THEN s[k] ELSE All1]),
     ok   |-> Len(s) >= w,
     left |-> SubSeq(s, w + 1, Len(s))]

AsSigned(n, w) == IF n >= Base ^ w \div 2 THEN n - Base ^ w ELSE n

Returned(x, s) == [value |-> x, threw |-> FALSE, left |-> s]
Threw == [value |-> NIL, threw |-> TRUE, left |-> <<>>]

\* The items of a vector: nobody looks whether the stream has ended.
RECURSIVE deserialize(_), Items(_, _)
Items(s, n) ==
    IF n = 0 THEN [elems |-> <<>>, threw |-> FALSE, left |-> s]
    ELSE LET x == deserialize(s)
             more == Items(x.left, n - 1)
         IN  IF x.threw THEN [elems |-> <<>>, threw |-> TRUE, left |-> <<>>]
             ELSE [more EXCEPT !.elems = <<x.value>> \o @]

\* Mutant: the cdr is read without looking for the end of the stream.
parse_pair_blindly(s) ==
    LET a == deserialize(s)
        d == deserialize(a.left)
    IN  IF a.threw \/ d.threw THEN Threw ELSE Returned(cons(a.value, d.value), d.left)

parse_pair(s) ==
    LET a == deserialize(s)
        d == deserialize(a.left)
    IN  IF a.threw \/ a.left = <<>> \/ d.threw THEN Threw
        ELSE Returned(cons(a.value, d.value), d.left)

ReadSymbol(s) ==
    LET len == Word(s, W16)
    IN  IF ~len.ok \/ len.n > TmpBuf \/ Len(len.left) < len.n THEN Threw
        ELSE Returned(Symbol(SubSeq(len.left, 1, len.n)), SubSeq(len.left, len.n + 1, Len(len.left)))

ReadComplex(s) ==
    LET re == Word(s, W64)
        im == Word(re.left, W64)
    IN  IF ~re.ok \/ ~im.ok THEN Threw ELSE Returned(make_rectangular(re.n, im.n), im.left)

ReadNumber(s, w, make(_)) ==
    LET n == Word(s, w) IN IF n.ok THEN Returned(make(n.n), n.left) ELSE Threw

\* to_tuple() takes a list, and NIL is none.
ReadElems(s, make(_), empty) ==
    LET len == Word(s, W32)
        all == Items(len.left, len.n)
    IN  IF ~len.ok \/ (len.n = 0 /\ ~empty) THEN Threw
        ELSE IF all.threw THEN Threw ELSE Returned(make(all.elems), all.left)

ReadUniform(s) ==
    LET kind  == Kinds[s[1] + 1]
        len   == Word(Tail(s), W32)
        npad  == Word(len.left, 1)
        data  == SubSeq(npad.left, npad.n + 1, Len(npad.left))
        w     == Width(kind)
        count == len.n * Words(kind)
        num(k) == Word(SubSeq(data, (k - 1) * w + 1, Len(data)), w).n
    IN  IF s = <<>> THEN Returned(PMT_EOF, <<>>)
        ELSE IF s[1] >= Len(Kinds) \/ ~len.ok THEN Threw
        ELSE Returned(make_uniform(kind, [k \in 1 .. count |-> IF Signed(kind) THEN AsSigned(num(k), w) ELSE num(k)]),
                      SubSeq(data, count * w + 1, Len(data)))

deserialize(s) ==
    IF s = <<>> THEN Returned(PMT_EOF, <<>>)
    ELSE LET tag == Head(s)
             r   == Tail(s)
         IN  CASE tag = PST.true    -> Returned(PMT_T, r)
               [] tag = PST.false   -> Returned(PMT_F, r)
               [] tag = PST.null    -> Returned(NIL, r)
               [] tag = PST.symbol  -> ReadSymbol(r)
               [] tag = PST.int32   -> ReadNumber(r, W32, LAMBDA n : from_long(AsSigned(n, W32)))
               [] tag = PST.int64   -> ReadNumber(r, W64, LAMBDA n : from_long(AsSigned(n, W64)))
               [] tag = PST.uint64  -> ReadNumber(r, W64, from_uint64)
               [] tag = PST.double  -> ReadNumber(r, W64, from_double)
               [] tag = PST.complex -> ReadComplex(r)
               [] tag = PST.pair    -> parse_pair(r)
               [] tag = PST.tuple   -> ReadElems(r, make_tuple, FALSE)
               [] tag = PST.vector  -> ReadElems(r, make_vector, TRUE)
               [] tag = PST.uniform -> ReadUniform(r)
               [] OTHER -> Threw

-----------------------------------------------------------------------------
SInit == wire = <<>> /\ wrote = <<>> /\ got = <<>> /\ iscut = FALSE

WriteValue(x) ==
    /\ Len(wrote) < MaxWritten /\ ~iscut
    /\ wire' = wire \o serialize(x) /\ wrote' = Append(wrote, x)
    /\ UNCHANGED <<got, iscut>>

\* The stream loses its last n bytes, and nothing is written after.
CutShort(n) ==
    /\ ~iscut /\ n \in 1 .. Len(wire)
    /\ wire' = SubSeq(wire, 1, Len(wire) - n) /\ iscut' = TRUE
    /\ UNCHANGED <<wrote, got>>

Outcome(x) == [value |-> x.value, threw |-> x.threw]

\* A reader reads up to the end of the stream, or to what it cannot read.
ReadValue ==
    /\ wire # <<>> \/ iscut \/ Len(wrote) = MaxWritten
    /\ got # <<>> => ~(got[Len(got)].threw \/ got[Len(got)].value = PMT_EOF)
    /\ got' = Append(got, Outcome(deserialize(wire)))
    /\ wire' = deserialize(wire).left
    /\ UNCHANGED <<wrote, iscut>>

SNext == ReadValue \/ (\E x \in Values : WriteValue(x)) \/ (\E n \in 1 .. Len(wire) : CutShort(n))

-----------------------------------------------------------------------------
RECURSIVE Readable(_)
Readable(x) ==
    CASE x.type = "symbol" -> Len(x.name) <= TmpBuf
      [] x.type = "tuple"  -> x.elems # <<>> /\ \A n \in DOMAIN x.elems : Readable(x.elems[n])
      [] x.type = "vector" -> \A n \in DOMAIN x.elems : Readable(x.elems[n])
      [] x.type = "pair"   -> Readable(x.first) /\ Readable(x.rest)
      [] OTHER -> TRUE

RECURSIVE Counted(_)
Counted(x) == \/ x.type \in {"vector", "tuple", "uniform"}
              \/ x.type = "pair" /\ (Counted(x.first) \/ Counted(x.rest))

Ok(x) == [value |-> x, threw |-> FALSE]

(* What is read back from a whole stream is what was written, in its order:  *)
(* numbers of any width and sign, nested lists and vectors.  Only a tuple of *)
(* no elements and a long symbol, which can be written, throw when read.     *)
ReadBack ==
    ~iscut => \A n \in DOMAIN got :
        (\A m \in 1 .. n - 1 : Readable(wrote[m])) =>
            IF n > Len(wrote) THEN got[n] = Ok(PMT_EOF)
            ELSE IF Readable(wrote[n]) THEN got[n] = Ok(wrote[n])
            ELSE got[n].threw

(* From a stream cut short nothing is read that was not written, vectors and *)
(* tuples apart: the reader is told of the end, or gets an exception.        *)
CutNoticed ==
    iscut => \A n \in DOMAIN got :
        \/ got[n].threw \/ got[n] = Ok(PMT_EOF)
        \/ n <= Len(wrote) /\ (got[n] = Ok(wrote[n]) \/ Counted(wrote[n]))

(* pmt as a whole: lists and dictionaries hold what was put in them, a name  *)
(* has one symbol, and values come back from their bytes as they were; of a  *)
(* stream cut short the reader is told, unless it is cut inside a vector or  *)
(* a tuple, which it gets with what it happens to be filled with.            *)
PmtKept == ListAsSequence /\ DictAsMap /\ OneSymbol /\ ReadBack /\ CutNoticed
=============================================================================
