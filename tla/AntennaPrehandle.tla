-------------------------- MODULE AntennaPrehandle --------------------------
(***************************************************************************)
(* beklAntennaPrehandle_impl: frames come as UDP packets, one packet for    *)
(* each channel; a packet may be lost, late, repeated or damaged.  The      *)
(* channels of a frame are put together in comBuf, dataNum consecutive      *)
(* frames in sumCorr, and a full sumCorr goes out as one item, its head     *)
(* corrected by package.ini and magdec.ini.                                 *)
(***************************************************************************)
EXTENDS Integers, Sequences, FiniteSets

(* The head of a batch before it goes out: correct_gps and correct_magdec    *)
(* put the azimuth, the position and the time of package.ini in the place of *)
(* the receiver's own, as the file says.  Angles are in 1/100 degree,        *)
(* coordinates in 1/100000 minute of arc.                                    *)
Degree == 6000000

(* ---- package.ini: lines [is |-> "title" | "key" | "comment", name, value] *)
\* GetIniKeyString takes the first line with the key after the title, in
\* whatever section it stands.
\* Mutant: the title is not looked for.
KeyLines_anywhere(lines, key) ==
    {k \in DOMAIN lines : lines[k].is = "key" /\ lines[k].name = key}
KeyLines(lines, key) ==
    {k \in DOMAIN lines : /\ lines[k].is = "key" /\ lines[k].name = key
                          /\ \E t \in 1 .. k : lines[t].is = "title" /\ lines[t].name = "GPS"}

\* GetIniKeyInt and GetIniKeyFloat: a key that is absent counts as 0.
IniNumber(lines, key) ==
    LET hits == KeyLines(lines, key)
    IN  IF hits = {} THEN 0 ELSE lines[CHOOSE k \in hits : \A m \in hits : k <= m].value

(* ---- the bytes of a coordinate *)
Whole(c) == IF c >= 0 THEN c \div Degree ELSE -((-c) \div Degree)   \* (short)c
Minutes24(c) == (c - Whole(c) * Degree) % 16777216                  \* its low three bytes
SignExtend24(m) == IF m >= 8388608 THEN m - 16777216 ELSE m

\* The top bit of the degrees is the hemisphere: west, and north.
WithTopBit(d, width, set) == (d % (width \div 2)) + (IF set THEN width \div 2 ELSE 0)
LonBytes(c) == [min |-> Minutes24(c), deg |-> WithTopBit(Whole(c) % 65536, 65536, c < 0)]
\* Mutant: north and south are swapped.
LatBytes_south(c) == [min |-> Minutes24(c), deg |-> WithTopBit(Whole(c) % 256, 256, c < 0)]
LatBytes(c) == [min |-> Minutes24(c), deg |-> WithTopBit(Whole(c) % 256, 256, c > 0)]

LonOf(b) == LET c == (b.deg % 32768) * Degree + SignExtend24(b.min)
            IN  IF b.deg >= 32768 THEN -c ELSE c
LatOf(b) == LET c == (b.deg % 128) * Degree + SignExtend24(b.min)
            IN  IF b.deg >= 128 THEN c ELSE -c

(* ---- correct_gps; tz is the zone of the machine, utc its clock *)
InDay(h) == IF h < 0 THEN h + 24 ELSE IF h > 24 THEN h - 24 ELSE h

FromFile(mode, valid) == mode = 0 \/ (mode = 2 /\ valid # "0x55")

correct_gps(head, ini, tz, utc) ==
    LET n(key) == IniNumber(ini, key)
        otherZone == n("UseTimeZone") = 0 /\ n("TimeZone") # tz
        azimuth == IF FromFile(n("UseSystemAzimuth"), head.angle_valid)
                   THEN [head EXCEPT !.angle_valid = "0x66", !.angle = n("SystemAzimuth") % 65536]
                   ELSE head
        local == (utc + tz) % 24
    IN  IF FromFile(n("UseFile"), head.gps_valid)
        THEN [azimuth EXCEPT
                !.hour = IF otherZone THEN InDay(local + n("TimeZone") - tz) ELSE local,
                !.gps_valid = "0x66",
                !.lon = LonBytes(n("longitude")), !.lat = LatBytes(n("latitude"))]
        ELSE [azimuth EXCEPT
                !.hour = InDay(head.hour + (IF otherZone THEN n("TimeZone") ELSE tz))]

(* ---- correct_magdec; table is magdec.ini, a function of whole degrees *)
Nearest(c) == Whole(c + Degree \div 2)   \* (int)(c + 0.5)

\* Mutant: the angle is not brought back above zero.
Turned_signed(angle, by) == (angle + by) % 65536
Turned(angle, by) == (IF angle + by >= 0 THEN angle + by ELSE angle + by + 36000) % 65536

Marked(valid) == CASE valid = "0x55" -> "0x56" [] valid = "0x66" -> "0x67" [] OTHER -> valid

correct_magdec(head, ini, table) ==
    LET mode  == IniNumber(ini, "UseMaDe")
        angle == IniNumber(ini, "MagneticDeclination")
        place == <<Nearest(LatOf(head.lat)), Nearest(LonOf(head.lon))>>
    IN  CASE mode = 0 -> head
          [] mode = 1 /\ angle \notin -18000 .. 18000 -> head
          [] mode = 1 /\ angle \in -18000 .. 18000 ->
                [head EXCEPT !.angle = Turned(head.angle, angle), !.angle_valid = Marked(head.angle_valid)]
          [] mode = 2 /\ place \notin DOMAIN table -> head
          [] mode = 2 /\ place \in DOMAIN table ->
                [head EXCEPT !.angle = Turned(head.angle, table[place]), !.angle_valid = "0x56"]
          [] OTHER -> [head EXCEPT !.angle_valid = Marked(head.angle_valid)]

-----------------------------------------------------------------------------

CONSTANTS
    Channels,   \* packets of a frame; the code has 5
    dataNum,    \* frames of a batch; the code has 2000
    Setups      \* what a behaviour starts from: the sender, the files, the receiver's head;
                \* its .frames and .faults are bounds

ASSUME ChannelsAssumption == Channels \in Nat \ {0} /\ dataNum \in Nat \ {0}
ASSUME SetupsAssumption ==
    \A s \in Setups : s.first \in Nat /\ s.frames \in Nat /\ s.faults \in Nat /\ s.inorder \in BOOLEAN

VARIABLES
    setup,
    next, late,   \* the packet sent next, and those underway that others overtook
    faults,       \* packets overtaken, repeated or damaged
    clean,        \* packets in a row that arrived in order and whole
    j,            \* how many of j0 .. j4 are 1: always the first ones
    comBuf, nframeNumber, pframeNumber, sumCorr, ndataNum,
    beyond,       \* copies to sumCorr that lay past its end
    batches       \* the items produced

avars == <<setup, next, late, faults, clean, j, comBuf, nframeNumber, pframeNumber,
           sumCorr, ndataNum, beyond, batches>>

Datagrams == 0 .. Channels * setup.frames - 1
FrameOf(k)   == setup.first + k \div Channels
ChannelOf(k) == (k % Channels) + 1

AInit ==
    /\ setup \in Setups
    /\ next = 0 /\ late = {} /\ faults = 0 /\ clean = 0
    /\ j = 0 /\ comBuf = <<>>
    /\ nframeNumber = 0 /\ pframeNumber = 0
    /\ sumCorr = [i \in 0 .. dataNum - 1 |-> <<>>] /\ ndataNum = 0 /\ beyond = 0
    /\ batches = <<>>

-----------------------------------------------------------------------------
Wanted(k) == ChannelOf(k) = j + 1

\* Mutant: the flags are left as they are.
INIT_j_none == j
INIT_j == 0

\* A frame that does not follow the one before it starts the batch again.
\* Mutant: frames that were lost between two others go unnoticed.
Follows_later(n) == n > pframeNumber
Follows(n) == n - pframeNumber = 1

FreshBatch == [batch |-> [i \in 0 .. dataNum - 1 |-> <<>>], n |-> 0]

Corrected(batch) ==
    [head |-> correct_magdec(correct_gps(setup.head, setup.ini, setup.tz, setup.utc),
                             setup.ini, setup.table),
     frames |-> [i \in 1 .. dataNum |-> batch[i - 1]]]

\* The last channel has come: func_run from `j4 == 1' on.
CloseFrame(frame, n) ==
    LET base  == IF Follows(n) THEN [batch |-> sumCorr, n |-> ndataNum] ELSE FreshBatch
        batch == [i \in DOMAIN base.batch |-> IF i = base.n THEN frame ELSE base.batch[i]]
    IN  /\ sumCorr' = batch
        /\ beyond' = beyond + (IF base.n \in DOMAIN base.batch THEN 0 ELSE 1)
        /\ pframeNumber' = n
        /\ ndataNum' = base.n + 1
        /\ j' = INIT_j /\ comBuf' = SubSeq(frame, 1, j')
        /\ batches' = IF base.n + 1 = dataNum THEN Append(batches, Corrected(batch)) ELSE batches

Collect(k) ==
    LET frame == Append(comBuf, k)
        n == IF j = 0 THEN FrameOf(k) ELSE nframeNumber
    IN  /\ nframeNumber' = n
        /\ IF j + 1 = Channels THEN CloseFrame(frame, n)
           ELSE /\ j' = j + 1 /\ comBuf' = frame
                /\ UNCHANGED <<sumCorr, ndataNum, beyond, pframeNumber, batches>>

\* INIT_j (comBuf keeps its bytes, but none before they are written again
\* counts): the packet that did not fit is dropped with what was collected.
GiveUp ==
    /\ j' = INIT_j /\ comBuf' = SubSeq(comBuf, 1, j')
    /\ UNCHANGED <<nframeNumber, pframeNumber, sumCorr, ndataNum, beyond, batches>>

func_run(k) == IF Wanted(k) THEN Collect(k) ELSE GiveUp

\* general_work on packet k, which is the next one, a late one, or one seen before.
Arrive(k) ==
    /\ k \in Datagrams /\ k <= next
    /\ \/ k = next /\ next' = next + 1 /\ late' = late /\ clean' = clean + 1 /\ faults' = faults
       \/ k \in late /\ ~setup.inorder /\ late' = late \ {k} /\ clean' = 0 /\ UNCHANGED <<next, faults>>
       \/ /\ k = next - 1 /\ k \notin late /\ ~setup.inorder /\ faults < setup.faults
          /\ faults' = faults + 1 /\ clean' = 0 /\ UNCHANGED <<next, late>>
    /\ func_run(k)
    /\ UNCHANGED setup

\* The next packet is overtaken, or lost altogether.
Overtaken ==
    /\ next \in Datagrams /\ faults < setup.faults
    /\ next' = next + 1 /\ late' = late \cup {next} /\ faults' = faults + 1 /\ clean' = 0
    /\ UNCHANGED <<setup, j, comBuf, nframeNumber, pframeNumber, sumCorr, ndataNum, beyond, batches>>

\* A packet without its marks, or with frequency 0, is consumed and forgotten.
Damaged ==
    /\ next \in Datagrams /\ faults < setup.faults
    /\ next' = next + 1 /\ faults' = faults + 1 /\ clean' = 0
    /\ UNCHANGED <<setup, late, j, comBuf, nframeNumber, pframeNumber, sumCorr, ndataNum, beyond, batches>>

ANext == (\E k \in Datagrams : Arrive(k)) \/ Overtaken \/ Damaged

-----------------------------------------------------------------------------
(* Every item that goes out has dataNum frames whose first packets come from *)
(* consecutive frames, and in each the channels stand in their order.        *)
BatchConsecutive ==
    \A b \in DOMAIN batches : \A i \in 1 .. dataNum :
        LET f == batches[b].frames[i] IN
        /\ [c \in DOMAIN f |-> ChannelOf(f[c])] = [c \in 1 .. Channels |-> c]
        /\ i > 1 => FrameOf(f[1]) = FrameOf(batches[b].frames[i - 1][1]) + 1

(* While packets are lost or damaged but none arrives late or twice, two     *)
(* channels of a frame have nothing between them, or a whole frame and more, *)
(* all of it lost: the frame numbers of the channels are not compared, so    *)
(* only the loss of Channels packets or more puts two frames into one.       *)
WholeGap(a, b, lost) == b = a + 1 \/ (b - a > Channels /\ b - a - 1 <= lost)
FramesUnmixed ==
    setup.inorder =>
        \A i \in DOMAIN sumCorr : \A c \in 2 .. Len(sumCorr[i]) :
            WholeGap(sumCorr[i][c - 1], sumCorr[i][c], faults)

(* A batch has gone out, and each frame since has followed the one before:   *)
(* ndataNum, which nothing sets back, counts on from the batch's first frame *)
(* and no other batch will go out until a frame is missing.                  *)
Overfull ==
    /\ ndataNum > dataNum /\ batches # <<>>
    /\ FrameOf(batches[Len(batches)].frames[1][1]) = pframeNumber - (ndataNum - 1)

(* The block falls into step again: after two frames undisturbed, whatever   *)
(* came before them, it has taken the second, and put it into the batch, or, *)
(* if no frame has been missing since the last batch, behind its end.        *)
Resynchronised ==
    (clean >= 2 * Channels /\ next % Channels = 0) =>
        /\ j = 0 /\ pframeNumber = FrameOf(next - 1)
        /\ \/ /\ ndataNum \in 1 .. dataNum
              /\ sumCorr[ndataNum - 1] = [c \in 1 .. Channels |-> next - 1 - Channels + c]
           \/ Overfull

(* The head that goes out: the angle is the one chosen turned by the chosen  *)
(* declination, the hour is that of the chosen zone, each up to full turns;  *)
(* a position from the file, north and east, reads back as it was written.   *)
HeadCorrected ==
    \A b \in DOMAIN batches :
        LET h == batches[b].head
            w == setup.want
        IN  /\ h.angle % 36000 = w.angle % 36000
            /\ h.hour % 24 = w.hour % 24
            /\ h.angle_valid = w.angle_valid
            /\ w.file => LonOf(h.lon) = w.lon /\ LatOf(h.lat) = w.lat

(* beklAntennaPrehandle's work: a batch has consecutive frames, two frames   *)
(* are taken for one only over the loss of a whole one, and after any        *)
(* disturbance the next whole frame but one is taken; it goes into a batch   *)
(* unless frames have come without a gap since the last one was full.        *)
BatchesSound == BatchConsecutive /\ FramesUnmixed /\ Resynchronised
=============================================================================
