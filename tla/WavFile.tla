------------------------------- MODULE WavFile -------------------------------
(***************************************************************************)
(* wavfile_sink and wavfile_source: the sink's files are opened, closed and *)
(* replaced by other threads while work writes samples to the present one;  *)
(* a header is written when a file is opened and completed with the length  *)
(* when it is closed.  The source reads a completed file back.  A file is   *)
(* its header's fields and the bytes behind the header.                     *)
(***************************************************************************)
EXTENDS Integers, Sequences, FiniteSets

CONSTANTS
    d_nchans,    \* channels of the files
    GivenFrames, \* frames of as many samples as there are inputs, in 128ths of full scale
    MaxWav,      \* bound: files opened
    MaxFrames    \* bound: frames the sink is given

VARIABLES
    wavs,      \* the files, in the order of their opening
    wsink,     \* d_fp and d_new_fp (0: none), d_updated, the counts and widths
    frames,    \* frames work has had
    wsource    \* the source that reads one file: which, where, what it has given

wvars == <<wavs, wsink, frames, wsource>>

NewWav(bytes) == [bytes_per_sample |-> bytes, chunk_size |-> 0, data |-> <<>>, completed |-> FALSE,
                  given |-> <<>>, written |-> bytes]

\* The constructor opens the first file.
WInit ==
    \E bytes \in {1, 2} :
        /\ wavs = <<NewWav(bytes)>>
        /\ wsink = [d_fp |-> 0, d_new_fp |-> 1, d_updated |-> TRUE, d_sample_count |-> 0,
                    d_bytes_per_sample |-> bytes, d_bytes_per_sample_new |-> bytes]
        /\ frames = 0
        /\ wsource = [file |-> 0, d_repeat |-> FALSE, at |-> 0, d_sample_idx |-> 0, out |-> <<>>, done |-> FALSE]

\* d_new_fp that work has not taken over is closed as it is.
OpenWav ==
    /\ Len(wavs) < MaxWav
    /\ wavs' = Append(wavs, NewWav(wsink.d_bytes_per_sample_new))
    /\ wsink' = [wsink EXCEPT !.d_new_fp = Len(wavs) + 1, !.d_updated = TRUE]
    /\ UNCHANGED <<frames, wsource>>

\* Mutant: frames are counted, not samples.
ByteCount_frames(w) == (w.d_sample_count \div d_nchans) * w.d_bytes_per_sample
ByteCount(w) == w.d_sample_count * w.d_bytes_per_sample

close_wav(files, w) ==
    IF w.d_fp = 0 THEN files
    ELSE [files EXCEPT ![w.d_fp].chunk_size = ByteCount(w), ![w.d_fp].completed = TRUE]

CloseWav ==
    /\ wsink.d_fp # 0
    /\ wavs' = close_wav(wavs, wsink)
    /\ wsink' = [wsink EXCEPT !.d_fp = 0]
    /\ UNCHANGED <<frames, wsource>>

\* The executor's stop, or the destructor.
StopWav ==
    /\ wsink.d_fp # 0 \/ wsink.d_new_fp # 0
    /\ wavs' = close_wav(wavs, wsink)
    /\ wsink' = [wsink EXCEPT !.d_fp = 0, !.d_new_fp = 0]
    /\ UNCHANGED <<frames, wsource>>

set_bits_per_sample(bytes) ==
    /\ wsink.d_bytes_per_sample_new # bytes
    /\ wsink' = [wsink EXCEPT !.d_bytes_per_sample_new = bytes]
    /\ UNCHANGED <<wavs, frames, wsource>>

\* boost::math::iround: to the nearest, a half away from zero.
Round(num, den) == IF num >= 0 THEN (2 * num + den) \div (2 * den) ELSE -((den - 2 * num) \div (2 * den))

\* The sample is scaled and clipped, and then rounded.
Clip(x, lo, hi) == IF x < lo THEN lo ELSE IF x > hi THEN hi ELSE x
convert_to_short(bytes, x) ==
    IF bytes = 1 THEN Round(Clip((x + 128) * 127, 0, 255 * 128), 128)
    ELSE Round(Clip(x * 32767, -32768 * 128, 32767 * 128), 128)

wav_write_sample(bytes, v) == IF bytes = 1 THEN <<v % 256>> ELSE <<v % 256, (v \div 256) % 256>>

FrameBytes(bytes, frame) ==
    LET Cell(n) == wav_write_sample(bytes, IF n <= Len(frame) THEN convert_to_short(bytes, frame[n]) ELSE 0)
        byte(k) == Cell((k - 1) \div bytes + 1)[((k - 1) % bytes) + 1]
    IN  [k \in 1 .. d_nchans * bytes |-> byte(k)]

\* do_update: close_wav on the present file, then the new one takes its place.
\* Mutant: it is replaced as it is.
Replaced_open(files, w) == files
Replaced(files, w) == close_wav(files, w)

\* Mutant: the count runs on.
Taken_counting(w) == [w EXCEPT !.d_fp = w.d_new_fp, !.d_new_fp = 0, !.d_updated = FALSE,
                               !.d_bytes_per_sample = w.d_bytes_per_sample_new]
Taken(w) == [w EXCEPT !.d_fp = w.d_new_fp, !.d_new_fp = 0, !.d_updated = FALSE, !.d_sample_count = 0,
                      !.d_bytes_per_sample = w.d_bytes_per_sample_new]

\* work, with one frame: a sample for each input, which may be fewer than the
\* channels.  Without a file the frame is dropped.
WavWork(frame) ==
    LET files == IF wsink.d_updated THEN Replaced(wavs, wsink) ELSE wavs
        w     == IF wsink.d_updated THEN Taken(wsink) ELSE wsink
        put   == FrameBytes(w.d_bytes_per_sample, frame)
    IN  /\ frames < MaxFrames
        /\ frames' = frames + 1
        /\ wsink' = IF w.d_fp = 0 THEN w ELSE [w EXCEPT !.d_sample_count = @ + d_nchans]
        /\ wavs' = IF w.d_fp = 0 THEN files
                   ELSE [files EXCEPT ![w.d_fp].data = @ \o put, ![w.d_fp].given = Append(@, frame),
                                      ![w.d_fp].written = w.d_bytes_per_sample]
        /\ UNCHANGED wsource

-----------------------------------------------------------------------------
\* wavheader_parse.
samples_per_chan(f) == f.chunk_size \div (f.bytes_per_sample * d_nchans)

\* A file without samples is refused by the constructor.
OpenSource(n, repeat) ==
    /\ wsource.file = 0 /\ wavs[n].completed /\ samples_per_chan(wavs[n]) > 0
    /\ wsource' = [wsource EXCEPT !.file = n, !.d_repeat = repeat]
    /\ UNCHANGED <<wavs, wsink, frames>>

\* wav_read_sample, which returns 0 at the end of the file, and convert_to_float,
\* in 128ths (8 bits) or 32767ths (16 bits).
Signed16(v) == IF v >= 32768 THEN v - 65536 ELSE v
ReadSample(f, at) ==
    LET bytes == f.bytes_per_sample IN
    IF at + bytes > Len(f.data) THEN 0
    ELSE IF bytes = 1 THEN f.data[at + 1] - 128
    ELSE Signed16(f.data[at + 1] + 256 * f.data[at + 2])

\* work, for one frame: at the end of the samples, again from the first or done.
WavSourceWork ==
    LET f     == wavs[wsource.file]
        ends  == wsource.d_sample_idx >= samples_per_chan(f)
        r     == IF ends THEN [wsource EXCEPT !.at = 0, !.d_sample_idx = 0] ELSE wsource
        frame == [c \in 1 .. d_nchans |-> ReadSample(f, r.at + (c - 1) * f.bytes_per_sample)]
        next  == r.at + d_nchans * f.bytes_per_sample
    IN  /\ wsource.file # 0 /\ ~wsource.done /\ Len(wsource.out) < MaxFrames
        /\ wsource' = IF ends /\ ~wsource.d_repeat THEN [wsource EXCEPT !.done = TRUE]
                      ELSE IF next > Len(f.data) THEN [r EXCEPT !.done = TRUE]   \* feof
                      ELSE [r EXCEPT !.at = next, !.d_sample_idx = @ + 1, !.out = Append(@, frame)]
        /\ UNCHANGED <<wavs, wsink, frames>>

WNext ==
    \/ OpenWav \/ CloseWav \/ StopWav \/ WavSourceWork
    \/ \E bytes \in {1, 2} : set_bits_per_sample(bytes)
    \/ \E frame \in GivenFrames : WavWork(frame)
    \/ \E n \in DOMAIN wavs, r \in BOOLEAN : OpenSource(n, r)

-----------------------------------------------------------------------------
\* A sample within full scale, and one that comes back, in the units of the file.
Full(x) == Clip(x, -128, 128)
Near(bytes, x, y) ==
    IF bytes = 1 THEN y - Full(x) \in -2 .. 1
    ELSE 2 * (128 * y - 32767 * Full(x)) \in -256 .. 128

\* set_bits_per_sample between open and the first work leaves a header of the
\* old width over samples of the new one; such a file cannot be read back.
OneWidth(f) == f.written = f.bytes_per_sample

(* Whoever opens, closes and replaces files in between, a file that has been *)
(* given samples and is no longer the present one is completed, and what is  *)
(* read from it is what was given while it was, frame for frame, again from  *)
(* the start if it is repeated, all of it before the end; samples come back  *)
(* to within a step, missing channels as zero bytes.                         *)
WavReadBack ==
    /\ \A n \in DOMAIN wavs \ {wsink.d_fp} : wavs[n].given # <<>> => wavs[n].completed
    /\ wsource.file # 0 /\ OneWidth(wavs[wsource.file]) =>
          LET f == wavs[wsource.file]
              n == Len(f.given)
              total == Len(wsource.out)
              Sample(frame, c) == IF c <= Len(frame) THEN frame[c] ELSE 0
          IN  /\ \A k \in 1 .. total, c \in 1 .. d_nchans :
                    LET frame == f.given[((k - 1) % n) + 1] IN
                    IF c > Len(frame) /\ f.bytes_per_sample = 1 THEN wsource.out[k][c] = -128
                    ELSE Near(f.bytes_per_sample, Sample(frame, c), wsource.out[k][c])
              /\ wsource.done => total = n /\ ~wsource.d_repeat

=============================================================================
