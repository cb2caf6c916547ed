------------------------------ MODULE MCOutside ------------------------------
(* The parts of the program at its edges, where samples come in, go out or   *)
(* change their form: the antenna block, values of pmt and their bytes, the  *)
(* table of symbols, the files with metadata, WAV files, packets made of     *)
(* messages, the handles of file_sink and file_source, the files of bursts,  *)
(* the server of tcp_server_sink, the packets of udp_sink, the sockets of    *)
(* socket_pdu, the descriptors of file_descriptor_source and its sink; and   *)
(* the memory of a buffer, the choice of its kind, the preferences, the      *)
(* names of blocks, the jumps after a fault.  They share nothing; a          *)
(* behaviour has one of them at work and the others as they were created.    *)
EXTENDS AntennaPrehandle, PmtSerialize, FileMeta, WavFile, PduBlocks, FileSinks,
        TcpServerSink, BlockRegistry, FileSource, UdpSink, ErrorHandle,
        VmCircBuf, Prefs, TLC

-----------------------------------------------------------------------------
(* Senders that lose, delay and repeat packets; and, with an orderly sender, *)
(* the combinations of package.ini with what the receiver knew.              *)
Line(is, name, value) == [is |-> is, name |-> name, value |-> value]

\* A package.ini with another section before the one that counts.
IniOf(f) ==
    <<Line("comment", "", 0), Line("title", "NET", 0), Line("key", "UseFile", 9), Line("key", "UseMaDe", 9),
      Line("title", "GPS", 0),
      Line("key", "UseFile", f.file), Line("key", "UseSystemAzimuth", f.azimuth), Line("key", "UseMaDe", f.made),
      Line("comment", "", 0),
      Line("key", "SystemAzimuth", 10000), Line("key", "MagneticDeclination", f.turn),
      Line("key", "TimeZone", f.zone), Line("key", "longitude", f.lon), Line("key", "latitude", f.lat)>>

ReceiverHead(f) ==
    [angle |-> 200, angle_valid |-> f.compass, gps_valid |-> f.gps, hour |-> f.utc,
     lon |-> LonBytes(20 * Degree), lat |-> LatBytes(30 * Degree)]

\* magdec.ini for the position of the receiver and for the one in the file.
Declinations == (<<30, 20>> :> -300 @@ <<39, 116>> :> 250)

\* What should go out, said without bytes and branches.
WantedHead(f) ==
    LET pick(mode, valid) == mode = 0 \/ (mode = 2 /\ valid # "0x55")
        base == IF pick(f.azimuth, f.compass) THEN 10000 ELSE 200
        turn == CASE f.made = 0 -> 0
                  [] f.made = 1 -> f.turn
                  [] f.made = 2 -> IF ~pick(f.file, f.gps) THEN -300
                                   ELSE IF f.lat = 39 * Degree THEN 250 ELSE 0
        mark == IF pick(f.azimuth, f.compass) THEN "0x66" ELSE f.compass
    IN  [file |-> pick(f.file, f.gps), angle |-> 36000 + base + turn,
         hour |-> f.utc + f.zone, lon |-> f.lon, lat |-> f.lat,
         angle_valid |-> CASE f.made = 0 -> mark [] f.made = 1 -> Marked(mark)
                           [] f.made = 2 -> IF turn = 0 THEN mark ELSE "0x56"]

Sender(first, count, most, inorder) ==
    [first |-> first, frames |-> count, faults |-> most, inorder |-> inorder]

SetupOf(sender, f) ==
    sender @@ [ini |-> IniOf(f), head |-> ReceiverHead(f), tz |-> f.tz, utc |-> f.utc,
               table |-> Declinations, want |-> WantedHead(f)]

Plain == [file |-> 1, azimuth |-> 1, made |-> 0, turn |-> 0, zone |-> 8, tz |-> 8, utc |-> 20,
          lon |-> 116 * Degree + 2400000, lat |-> 39 * Degree, compass |-> "0x55", gps |-> "0x55"]

Files ==
    {[Plain EXCEPT !.azimuth = a, !.made = m, !.turn = t, !.compass = c, !.file = g, !.gps = v] :
        a \in 0 .. 2, m \in 0 .. 2, t \in {-500, 250}, c \in {"0x55", "0x66"},
        g \in 0 .. 2, v \in {"0x55", "0x66"}}
    \cup {[Plain EXCEPT !.file = g, !.zone = z, !.tz = t, !.utc = u, !.lon = x, !.lat = y] :
        g \in 0 .. 1, z \in {-5, 0, 8}, t \in {-11, 0, 8}, u \in {0, 3, 16, 23},
        x \in {0, 77 * Degree + 5999999}, y \in {1, 89 * Degree + 4200000}}

MCSetups ==
    {SetupOf(Sender(n, 6, 2, FALSE), Plain) : n \in {0, 1, 5}}
    \cup {SetupOf(Sender(1, 6, 3, TRUE), Plain)}
    \cup {SetupOf(Sender(1, 2, 0, TRUE), f) : f \in Files}

Quiet == SetupOf(Sender(1, 6, 3, TRUE), Plain)   \* the setup while another part is at work

-----------------------------------------------------------------------------
(* Values of every type, at the limits of their widths and nested.           *)
MCElements == {from_long(1), from_uint64(1), NIL, cons(from_long(1), NIL)}
MCKeys == {from_long(1), from_uint64(1), Symbol(<<1>>)}

Atoms == {PMT_T, PMT_F, NIL, Symbol(<<>>), Symbol(<<3, 15>>), from_long(-1), from_long(2047), from_long(2048),
          from_long(-2048), from_long(-2049), from_uint64(65535), from_double(4097), make_rectangular(7, 65535)}
Uniforms == {make_uniform("s8", <<-8, 7>>), make_uniform("u16", <<255>>), make_uniform("s32", <<-2048>>),
             make_uniform("f32", <<-1>>), make_uniform("c64", <<5, -9>>), make_uniform("u8", <<>>)}
Nested == {make_tuple(<<>>), make_vector(<<>>), make_tuple(<<NIL, from_long(-1)>>),
           make_vector(<<PMT_T, cons(NIL, NIL)>>), cons(from_long(1), from_long(2)),
           cons(Symbol(<<1>>), cons(make_tuple(<<PMT_F>>), NIL)),
           cons(cons(Symbol(<<1>>), from_uint64(1)), cons(cons(PMT_T, NIL), NIL)),
           Symbol(<<1, 2, 3, 4>>), cons(Symbol(<<1, 2, 3, 4>>), NIL)}
MCValues == Atoms \cup Uniforms \cup Nested

-----------------------------------------------------------------------------
(* Streams whose tags fall on, next to and between the ends of segments.     *)
At(o, k, v) == [offset |-> o, key |-> k, value |-> v]

TagSeqs == {<<>>,
            <<At(0, "b", 1), At(2, "a", 2), At(2, "b", 3)>>,
            <<At(1, "a", 1), At(1, "a", 2), At(4, "c", 3)>>,
            <<At(3, "rx_rate", 2), At(4, "b", 1)>>}
TimedSeqs == {<<At(2, "rx_time", 40)>>,
              <<At(0, "rx_rate", 2), At(0, "rx_time", 9), At(3, "a", 1), At(3, "rx_time", 50)>>,
              <<At(1, "rx_time", 7), At(1, "rx_rate", 2)>>}

MCFileSetups ==
    [tags : TagSeqs \cup TimedSeqs, nitems : {5}, max_seg_size : {2, 3}, detached : BOOLEAN,
     repeat : BOOLEAN, rate : {1}, relative : {1, 2}, extra : {<<>>, <<<<"a", 9>>>>},
     toread : {7}, timed : {FALSE}]

MCTimed == {IF s.tags \in TimedSeqs \cup {<<>>} THEN [s EXCEPT !.timed = TRUE] ELSE s : s \in MCFileSetups}

-----------------------------------------------------------------------------
(* The rest.                                                                 *)
\* Two names in one bucket.
MCHash == [n \in SymbolNames |-> IF n = "freq" THEN 2 ELSE 1]

MCFrames == {<<-200, 128>>, <<65>>}

\* A packet with a byte too many, one whose metadata has the length key, one
\* larger than a call has room for, one that makes no item.
MCPdus == {[meta |-> <<>>, vect |-> <<1, 2, 3>>],
           [meta |-> "a" :> 1 @@ "len" :> 1, vect |-> <<4, 5, 6, 7>>],
           [meta |-> "b" :> 2 @@ "a" :> 3, vect |-> <<8, 9, 10, 11, 12, 13>>],
           [meta |-> "b" :> 9, vect |-> <<0>>]}

\* Bursts that touch, that are marked twice, that are empty, that do not end.
Bursts == {<<At(0, "burst", 1), At(2, "burst", 0), At(2, "burst", 1), At(5, "burst", 0)>>,
           <<At(1, "burst", 0), At(2, "burst", 1), At(3, "burst", 1), At(4, "burst", 0),
             At(6, "burst", 1)>>,
           <<At(1, "burst", 1), At(1, "burst", 0), At(3, "burst", 1)>>}
MCBursts == {[nitems |-> 7, tags |-> <<At(0, "rx_time", 50)>> \o b, timed |-> TRUE] : b \in Bursts}
            \cup {[nitems |-> 7, tags |-> b \o <<At(6, "rx_time", 50)>>, timed |-> FALSE] : b \in Bursts}

\* Three blocks of one name, and one whose names are written like theirs.
MCNameOf  == [b \in Places |-> IF b = "p4" THEN <<"x", "1">> ELSE <<"x">>]
MCText    == [n \in 0 .. 3 |-> CASE n = 0 -> <<"0">> [] n = 1 -> <<"1">> [] n = 2 -> <<"1", "0">> [] n = 3 -> <<"1", "1">>]
MCAliases == {<<"a">>, <<"x", "1", "0">>}

\* All of the rest of a file, a part of one, more of one than there is.
MCRanges == {[size |-> 4, from |-> 1, len |-> 0, repeat |-> TRUE],
             [size |-> 3, from |-> 0, len |-> 2, repeat |-> FALSE],
             [size |-> 2, from |-> 1, len |-> 5, repeat |-> TRUE]}
MCSeeks  == {<<1, "SET">>, <<-1, "CUR">>, <<1, "END">>}

\* The first and the last have one id, the first two one name.
MCIdOf       == [t \in Workers |-> IF t = "w2" THEN 2 ELSE 1]
MCThreadName == [t \in Workers |-> IF t = "w3" THEN "copy0" ELSE "head0"]

\* SysV segments may be exhausted; a build without mmap has nothing else.
MCFactories   == <<"createfilemapping", "sysv_shm", "mmap_shm_open", "mmap_tmpfile">>
MCFactoryTests == {[f \in ToSet(MCFactories) |-> CASE f = "sysv_shm" -> "sometimes" [] f = "mmap_tmpfile" -> mmap
                                                   [] OTHER -> "never"] : mmap \in {"always", "never"}}
MCFoundPrefs  == {Missing, "", "elsewhere", "mmap_shm_open"}

MCPduSizes == <<1, 3>>
MCMaxSaid  == [c \in Peers |-> IF c = "a" THEN 1 ELSE 0]

\* One option under two spellings, two of one section, one in no file.
MCSectionOf   == [k \in Spellings |-> IF k = "t.c" THEN "t" ELSE "s"]
MCOptionOf    == [k \in Spellings |-> CASE k = "s.b" -> "b" [] k = "t.c" -> "c" [] OTHER -> "a"]
MCSysFiles    == << <<<<"s.a", "1">>, <<"s.b", "x">>>>, <<<<"S.A", "on">>>> >>
MCAddedFile   == <<<<"s.b", "y">>, <<"S.A", "">>>>
MCLongText    == (0 :> "0") @@ (7 :> "7")
\* A text the parser cuts, and one of two lines.
MCTexts       == {" 7 # gain", "7\ngain"}
MCStripped(t) == IF t = " 7 # gain" THEN "7" ELSE t
MCTorn        == {"7\ngain"}
MCEnvironment == [n \in {<<"s", "a">>, <<"s", "b">>, <<"t", "c">>} |-> IF n[2] = "b" THEN "off" ELSE NoText]

VARIABLE part   \* which of them a behaviour is about

outvars == <<avars, pvars, svars, fvars, tvars, wvars, dvars, hvars, gvars, nvars, rvars, evars, kvars, xvars,
             vmvars, sysvars, pduvars, prvars, fdvars, part>>

\* One start of a part while another is at work.
QuietFile  == CHOOSE s \in MCTimed : TRUE
QuietBurst == CHOOSE s \in MCBursts : TRUE
AIdle == setup = Quiet
FIdle == fsetup = QuietFile
WIdle == wsink.d_bytes_per_sample = 1
GIdle == bsetup = QuietBurst
EIdle == rfiles[1].range.from = 0
VmIdle == kind = "tmpfile"
PrIdle == userconf = <<>>
NIdle == \A c \in Clients : clients[c] = "out"

OInit ==
    /\ part \in {"antenna", "pmt", "bytes", "symbols", "meta", "wav", "pdu", "handles", "bursts", "tcp",
              "registry", "source", "udp", "errors", "memory", "sockets", "prefs", "descriptors", "factory"}
    /\ AInit /\ (part = "antenna" \/ AIdle)
    /\ FInit /\ (part = "meta" \/ FIdle)
    /\ WInit /\ (part = "wav" \/ WIdle)
    /\ GInit /\ (part = "bursts" \/ GIdle)
    /\ NInit /\ (part = "tcp" \/ NIdle)
    /\ EInit /\ (part = "source" \/ EIdle)
    /\ VInit /\ (part = "memory" \/ VmIdle)
    /\ PrInit /\ (part = "prefs" \/ PrIdle)
    /\ FdInit /\ (part = "descriptors" \/ ~fd_repeat)
    /\ SysInit /\ (part = "factory" \/ (found = Missing /\ fares = CHOOSE f \in FactoryTests : TRUE))
    /\ SpInit
    /\ PInit /\ SInit /\ TInit /\ DInit /\ HInit /\ RInit /\ KInit /\ XInit

AStep == part = "antenna" /\ ANext /\ UNCHANGED <<pvars, svars, fvars, tvars, wvars, dvars, hvars, gvars, nvars, rvars, evars,
    kvars, xvars, vmvars, sysvars, pduvars, prvars, fdvars, part>>
PStep == part = "pmt" /\ PNext /\ UNCHANGED <<avars, svars, fvars, tvars, wvars, dvars, hvars, gvars, nvars, rvars, evars,
    kvars, xvars, vmvars, sysvars, pduvars, prvars, fdvars, part>>
SStep == part = "bytes" /\ SNext /\ UNCHANGED <<avars, pvars, fvars, tvars, wvars, dvars, hvars, gvars, nvars, rvars, evars,
    kvars, xvars, vmvars, sysvars, pduvars, prvars, fdvars, part>>
FStep == part = "meta" /\ FNext /\ UNCHANGED <<avars, pvars, svars, tvars, wvars, dvars, hvars, gvars, nvars, rvars, evars,
    kvars, xvars, vmvars, sysvars, pduvars, prvars, fdvars, part>>
TStep == part = "symbols" /\ TNext /\ UNCHANGED <<avars, pvars, svars, fvars, wvars, dvars, hvars, gvars, nvars, rvars, evars,
    kvars, xvars, vmvars, sysvars, pduvars, prvars, fdvars, part>>
WStep == part = "wav" /\ WNext /\ UNCHANGED <<avars, pvars, svars, fvars, tvars, dvars, hvars, gvars, nvars, rvars, evars,
    kvars, xvars, vmvars, sysvars, pduvars, prvars, fdvars, part>>
DStep == part = "pdu" /\ DNext /\ UNCHANGED <<avars, pvars, svars, fvars, tvars, wvars, hvars, gvars, nvars, rvars, evars,
    kvars, xvars, vmvars, sysvars, pduvars, prvars, fdvars, part>>
HStep == part = "handles" /\ HNext /\ UNCHANGED <<avars, pvars, svars, fvars, tvars, wvars, dvars, gvars, nvars, rvars, evars,
    kvars, xvars, vmvars, sysvars, pduvars, prvars, fdvars, part>>
GStep == part = "bursts" /\ GNext /\ UNCHANGED <<avars, pvars, svars, fvars, tvars, wvars, dvars, hvars, nvars, rvars, evars,
    kvars, xvars, vmvars, sysvars, pduvars, prvars, fdvars, part>>
NStep == part = "tcp" /\ NNext /\ UNCHANGED <<avars, pvars, svars, fvars, tvars, wvars, dvars, hvars, gvars, rvars, evars,
    kvars, xvars, vmvars, sysvars, pduvars, prvars, fdvars, part>>
RStep == part = "registry" /\ RNext /\ UNCHANGED <<avars, pvars, svars, fvars, tvars, wvars, dvars, hvars, gvars, nvars, evars,
    kvars, xvars, vmvars, sysvars, pduvars, prvars, fdvars, part>>
EStep == part = "source" /\ ENext /\ UNCHANGED <<avars, pvars, svars, fvars, tvars, wvars, dvars, hvars, gvars, nvars, rvars,
    kvars, xvars, vmvars, sysvars, pduvars, prvars, fdvars, part>>
KStep == part = "udp" /\ KNext /\ UNCHANGED <<avars, pvars, svars, fvars, tvars, wvars, dvars, hvars, gvars, nvars, rvars,
    evars, xvars, vmvars, sysvars, pduvars, prvars, fdvars, part>>
XStep == part = "errors" /\ XNext /\ UNCHANGED <<avars, pvars, svars, fvars, tvars, wvars, dvars, hvars, gvars, nvars, rvars,
    evars, kvars, vmvars, sysvars, pduvars, prvars, fdvars, part>>
VmStep == part = "memory" /\ VNext /\ UNCHANGED <<avars, pvars, svars, fvars, tvars, wvars, dvars, hvars, gvars, nvars, rvars,
    evars, kvars, xvars, sysvars, pduvars, prvars, fdvars, part>>
SpStep == part = "sockets" /\ SpNext /\ UNCHANGED <<avars, pvars, svars, fvars, tvars, wvars, dvars, hvars, gvars, nvars, rvars,
    evars, kvars, xvars, vmvars, sysvars, prvars, fdvars, part>>
PrStep == part = "prefs" /\ PrNext /\ UNCHANGED <<avars, pvars, svars, fvars, tvars, wvars, dvars, hvars, gvars, nvars, rvars,
    evars, kvars, xvars, vmvars, sysvars, pduvars, fdvars, part>>
FdStep == part = "descriptors" /\ FdNext /\ UNCHANGED <<avars, pvars, svars, fvars, tvars, wvars, dvars, hvars, gvars, nvars, rvars,
    evars, kvars, xvars, vmvars, sysvars, pduvars, prvars, part>>
SysStep == part = "factory" /\ SysNext /\ UNCHANGED <<avars, pvars, svars, fvars, tvars, wvars, dvars, hvars, gvars, nvars, rvars,
    evars, kvars, xvars, vmvars, pduvars, prvars, fdvars, part>>

ONext == AStep \/ PStep \/ SStep \/ FStep \/ TStep \/ WStep \/ DStep \/ HStep \/ GStep \/ NStep
         \/ RStep \/ EStep \/ KStep \/ XStep \/ VmStep \/ SpStep \/ PrStep \/ FdStep \/ SysStep

OSpec == OInit /\ [][ONext]_outvars

-----------------------------------------------------------------------------
(* What goes out in a format of its own: the files with metadata, WAV files,  *)
(* the files of bursts, the head of the antenna block's batches, the packets  *)
(* of udp_sink.  What is read back, or what a name says, is what was given:   *)
(* items, tags, times and widths; the angle, zone and position that the two   *)
(* files ask for; and each socket sends whole packets without a gap.          *)
FormatsKept == /\ ItemsBack /\ TagsBack /\ TimeTrue /\ WavReadBack /\ BurstsFiled /\ BurstTimes
               /\ HeadCorrected /\ Unbroken /\ CallsWhole
=============================================================================
