-------------------------------- MODULE Prefs --------------------------------
(***************************************************************************)
(* prefs: the preferences a process reads when it starts, from the system's  *)
(* files in the order of their names and then from the user's, looks up, may *)
(* set and may save to the user's file; and the process after it.  Sections  *)
(* and options are looked up in lower case.  A value of the environment      *)
(* hides the one of the files.                                               *)
(***************************************************************************)
EXTENDS Integers, Sequences, FiniteSets, SequencesExt

CONSTANTS
    Spellings,             \* ways to write a section and an option
    SectionOf, OptionOf,   \* each one's section and option in lower case
    SysFiles, AddedFile,   \* what the files say: sequences of <<spelling, text>>
    Texts, Longs, LongText, \* texts given, numbers given and the text of each
    Stripped(_),           \* what the parser leaves of a text: nothing from '#' on, no outer blanks
    Torn,                  \* texts that fill two lines, the second of which is no option
    Environment,           \* the environment: a text, or NoText, for each section and option
    MaxSets, MaxLives      \* bounds: assignments of a process, processes

\* A file: a sequence of pairs of a spelling and a text.
IsFile(file) ==
    /\ Len(file) \in Nat /\ DOMAIN file = 1 .. Len(file)
    /\ \A i \in DOMAIN file : file[i][1] \in Spellings

\* Numbers are written each in its own way, which the parser leaves alone.
ASSUME PrefsAssumption ==
    /\ IsFiniteSet(Spellings)
    /\ Len(SysFiles) \in Nat /\ DOMAIN SysFiles = 1 .. Len(SysFiles)
    /\ \A i \in DOMAIN SysFiles : IsFile(SysFiles[i])
    /\ IsFile(AddedFile)
    /\ \A v, w \in Longs : LongText[v] = LongText[w] => v = w
    /\ \A v \in Longs : LongText[v] # ""
    /\ \A v \in Longs : Stripped(LongText[v]) = LongText[v] /\ LongText[v] \notin Torn
    /\ \A t \in {"0", "1"} : Stripped(t) = t /\ t \notin Torn

VARIABLES
    d_config_map,   \* of each section, the text of each of its options
    userconf,       \* config.conf: <<section, option, text>> of each option, as written
    process, pc,       \* the number of the process; whether it runs, saves or is gone
    sets,           \* assignments made in this process
    given,          \* history: of each section and option the last value given, and how
    kept            \* history: what the next process is to read

prvars == <<d_config_map, userconf, process, pc, sets, given, kept>>

NoText == "(none)"
Names == {<<SectionOf[k], OptionOf[k]>> : k \in Spellings}
NameOf_(k) == <<SectionOf[k], OptionOf[k]>>

PrefLine(k, text) == <<SectionOf[k], OptionOf[k], text>>
Lines(file) == [i \in DOMAIN file |-> PrefLine(file[i][1], file[i][2])]

\* boost's parse_config_file: the whole file is parsed before anything of it
\* counts, and a line that is neither empty, a section nor an option throws.
\* Mutant: what can be read counts.
parse_config_file_part(lines) ==
    [i \in DOMAIN lines |-> <<lines[i][1], lines[i][2], Stripped(lines[i][3])>>]
parse_config_file(lines) ==
    IF \E i \in DOMAIN lines : lines[i][3] \in Torn THEN <<>>
    ELSE [i \in DOMAIN lines |-> <<lines[i][1], lines[i][2], Stripped(lines[i][3])>>]

\* A map with a key and its value put in.
MapPut(map, key, value) == [x \in DOMAIN map \cup {key} |-> IF x = key THEN value ELSE map[x]]
Options(map, section) == IF section \in DOMAIN map THEN map[section] ELSE <<>>

\* Mutant: the options the section had are forgotten.
Assigned_fresh(map, l) == MapPut(map, l[1], MapPut(<<>>, l[2], l[3]))
\* d_config_map[section][key] = value
Assigned(map, l) == MapPut(map, l[1], MapPut(Options(map, l[1]), l[2], l[3]))

\* The options of one file, from its first line on.
_read_file(map, lines) ==
    LET upto[i \in 0 .. Len(lines)] == IF i = 0 THEN map ELSE Assigned(upto[i - 1], lines[i])
    IN  upto[Len(lines)]

_read_files(map, files) ==
    LET upto[i \in 0 .. Len(files)] == IF i = 0 THEN map ELSE _read_file(upto[i - 1], files[i])
    IN  upto[Len(files)]

\* The files a process reads when it starts, parsed.
Installed == [i \in DOMAIN SysFiles |-> parse_config_file(Lines(SysFiles[i]))]

\* Mutant: the user's file is read first.
Filenames_userfirst == <<parse_config_file(userconf)>> \o Installed
Filenames == Append(Installed, parse_config_file(userconf))
Added == parse_config_file(Lines(AddedFile))

-----------------------------------------------------------------------------
(* What a process is told.                                                   *)
option_to_env(n) == Environment[n]
InMap(map, n) == n[1] \in DOMAIN map /\ n[2] \in DOMAIN map[n[1]]
TextIn(map, n) == map[n[1]][n[2]]
has_option(n) == option_to_env(n) # NoText \/ InMap(d_config_map, n)

get_string(n, default) ==
    IF option_to_env(n) # NoText THEN option_to_env(n)
    ELSE IF has_option(n) THEN TextIn(d_config_map, n) ELSE default

\* Mutant: only the words.
TrueTexts_words == {"true", "True", "TRUE", "on", "On", "ON"}
TrueTexts == {"true", "True", "TRUE", "on", "On", "ON", "1"}
FalseTexts == {"false", "False", "FALSE", "off", "Off", "OFF", "0"}

get_bool(n, default) ==
    LET str == get_string(n, "") IN
    IF str \in TrueTexts THEN TRUE ELSE IF str \in FalseTexts THEN FALSE ELSE default

\* A text that begins with no number is read as 0.
get_long(n, default) ==
    LET str == get_string(n, "") IN
    IF str = "" THEN default
    ELSE IF \E v \in Longs : LongText[v] = str THEN CHOOSE v \in Longs : LongText[v] = str ELSE 0

-----------------------------------------------------------------------------
\* What files say of an option: the last line about it in the last of the
\* files that has one.
About(lines, n) == {i \in DOMAIN lines : <<lines[i][1], lines[i][2]>> = n}
FilesAbout(files, n) == {i \in DOMAIN files : About(files[i], n) # {}}
LastOf(S) == CHOOSE i \in S : \A j \in S : j <= i
LastText(files, n) ==
    LET file == files[LastOf(FilesAbout(files, n))] IN file[LastOf(About(file, n))][3]

Given(files, n, before) ==
    IF FilesAbout(files, n) = {} THEN before ELSE <<"text", LastText(files, n)>>

PrInit ==
    /\ userconf \in {<<>>} \cup {<<PrefLine(k, t)>> : k \in Spellings, t \in Texts}
    /\ d_config_map = _read_files(<<>>, Filenames)
    /\ given = [n \in Names |-> Given(Filenames, n, <<"none">>)]
    /\ kept = given /\ process = 1 /\ pc = "running" /\ sets = 0

add_config_file ==
    /\ pc = "running" /\ sets < MaxSets /\ sets' = sets + 1
    /\ d_config_map' = _read_files(d_config_map, <<Added>>)
    /\ given' = [n \in Names |-> Given(<<Added>>, n, given[n])]
    /\ UNCHANGED <<userconf, process, pc, kept>>

Set(k, text, how) ==
    /\ pc = "running" /\ sets < MaxSets /\ sets' = sets + 1
    /\ d_config_map' = Assigned(d_config_map, PrefLine(k, text))
    /\ given' = [given EXCEPT ![NameOf_(k)] = how]
    /\ UNCHANGED <<userconf, process, pc, kept>>

BoolText(val) == IF val THEN "1" ELSE "0"

set_string(k, val) == Set(k, val, <<"text", val>>)
set_bool(k, val)   == Set(k, BoolText(val), <<"bool", val>>)
set_long(k, val)   == Set(k, LongText[val], <<"long", val>>)

-----------------------------------------------------------------------------
\* Mutant: what is in force is saved, be it the environment's.
SavedText_env(n) == get_string(n, "")
SavedText(n) == TextIn(d_config_map, n)

\* to_string: every option of every section, with its text.
to_string == SetToSeq({<<n[1], n[2], SavedText(n)>> : n \in {m \in Names : InMap(d_config_map, m)}})

\* The history of what is left for the next process: the installed files'
\* alone, or what has been given, each text stripped of what the parser drops.
OnlyInstalled == [n \in Names |-> Given(Installed, n, <<"none">>)]
AsParsed(how) == IF how[1] = "text" THEN <<"text", Stripped(how[2])>> ELSE how
Tears(how) == how[1] = "text" /\ how[2] \in Torn
Handed ==
    IF \E n \in Names : Tears(given[n]) THEN OnlyInstalled
    ELSE [n \in Names |-> AsParsed(given[n])]

\* save: the file is opened, which empties it, and written in one piece when
\* it is closed; one that cannot be opened (no ~/.gnuradio) goes unnoticed.
save ==
    /\ pc = "running"
    /\ \/ pc' = "saving" /\ userconf' = <<>>
       \/ UNCHANGED <<pc, userconf>>
    /\ UNCHANGED <<d_config_map, process, sets, given, kept>>

SaveWrites ==
    /\ pc = "saving" /\ pc' = "running" /\ userconf' = to_string /\ kept' = Handed
    /\ UNCHANGED <<d_config_map, process, sets, given>>

End ==
    /\ pc \in {"running", "saving"} /\ pc' = "gone"
    /\ kept' = IF pc = "saving" THEN OnlyInstalled ELSE kept
    /\ UNCHANGED <<d_config_map, userconf, process, sets, given>>

Start ==
    /\ pc = "gone" /\ process < MaxLives /\ process' = process + 1 /\ pc' = "running" /\ sets' = 0
    /\ d_config_map' = _read_files(<<>>, Filenames) /\ given' = kept
    /\ UNCHANGED <<userconf, kept>>

PrNext ==
    \/ add_config_file
    \/ \E k \in Spellings : \/ \E t \in Texts : set_string(k, t)
                            \/ \E v \in BOOLEAN : set_bool(k, v)
                            \/ \E v \in Longs : set_long(k, v)
    \/ save \/ SaveWrites \/ End \/ Start

PrSpec == PrInit /\ [][PrNext]_prvars

-----------------------------------------------------------------------------
(* A process reads, in the way it was given, the last value given to an      *)
(* option under any spelling of its name, by a file or by itself, or left to *)
(* it by the process before; the caller's default where there is none; the   *)
(* environment's value where that has one.                                   *)
ReadsAsGiven ==
    pc # "gone" => \A n \in Names :
        LET g == given[n] IN
        IF option_to_env(n) # NoText THEN get_string(n, "default") = option_to_env(n)
        ELSE CASE g[1] = "none" -> /\ get_string(n, "default") = "default"
                                   /\ \A d \in BOOLEAN : get_bool(n, d) = d
                                   /\ get_long(n, -1) = -1
               [] g[1] = "text" -> get_string(n, "default") = g[2]
               [] g[1] = "bool" -> \A d \in BOOLEAN : get_bool(n, d) = g[2]
               [] g[1] = "long" -> get_long(n, -1) = g[2]

(* What is left for the next process is all that had been given when the    *)
(* user's file was last written, and nothing that only the environment said: *)
(* of each text what the parser does not strip.  If a text tears the file,   *)
(* or the process ended between opening and writing it, the user's settings  *)
(* are lost, all of them, and those of the installed files are not.          *)
SavedInForce ==
    pc # "saving" => \A n \in Names :
        LET next == _read_files(<<>>, Filenames) IN
        /\ InMap(next, n) <=> kept[n][1] # "none"
        /\ kept[n][1] = "text" => TextIn(next, n) = kept[n][2]

(* prefs.cc as a whole, from one process to the next: what is set, saved and  *)
(* read again, and what a parser and an end in the wrong place make of it.   *)
PrefsKept == ReadsAsGiven /\ SavedInForce
=============================================================================
