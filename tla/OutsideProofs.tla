---------------------------- MODULE OutsideProofs ----------------------------
(***************************************************************************)
(* Proofs about parts that MCOutside composes: the handling of faults,     *)
(* file_sink_base, the block registry with its sptr_magic, the antenna     *)
(* block, tcp_server_sink, the files and descriptors that are read and      *)
(* written (file_source, file_descriptor_source and its sink), and the      *)
(* messages that become packets and network traffic: the PDU blocks.       *)
(***************************************************************************)
EXTENDS ErrorHandle, FileSinks, BlockRegistry, AntennaPrehandle, TcpServerSink, FileSource,
        PduBlocks, FiniteSetTheorems, SequenceTheorems, TLAPS

-----------------------------------------------------------------------------
(***************************************************************************)
(* For any number of threads and any reuse of their ids, a fault in a call   *)
(* brings the thread back into that call.  What is needed beyond the         *)
(* property: two threads that run differ in their ids, so that the entry of  *)
(* a thread between its push and the end of its call is its own.             *)
(***************************************************************************)

XSpec == XInit /\ [][XNext]_xvars

WorkerPlaces == {"none", "messages", "forecast", "pushing", "work", "error_handle", "signal", "looking",
           "ended", "lost"}

XTypeOK ==
    /\ where \in [Workers -> WorkerPlaces]
    /\ iteration \in [Workers -> Nat]
    /\ frame \in [Workers -> Nat]
    /\ faultedin \in [Workers -> {"nothing", "forecast", "work", "error_handle", "messages"}]

\* A thread that can come to jump, from the end of its push on.
InCall(t) ==
    \/ where[t] \in {"work", "error_handle"}
    \/ where[t] \in {"signal", "looking"} /\ faultedin[t] \in {"work", "error_handle"}

OwnIds == \A t, u \in Workers : Running(t) /\ Running(u) /\ t # u => IdOf[t] # IdOf[u]

FrameIs == \A t \in Workers : where[t] \in {"forecast", "pushing"} => frame[t] = iteration[t]

Saved == \A t \in Workers : InCall(t) =>
            IdOf[t] \in DOMAIN jmpMap /\ jmpMap[IdOf[t]] = <<t, frame[t]>>

FaultedIn == \A t \in Workers :
              where[t] \in {"signal", "looking"} => faultedin[t] \in {"forecast", "work", "error_handle", "messages"}

XInv == XTypeOK /\ OwnIds /\ FrameIs /\ Saved /\ FaultedIn /\ FaultsCaught

LEMMA XInvInit == XInit => XInv
  BY DEF XInit, XInv, XTypeOK, OwnIds, FrameIs, Saved, FaultedIn, FaultsCaught, InCall, Running, WorkerPlaces

LEMMA XInvNext == XInv /\ [XNext]_xvars => XInv'
<1> SUFFICES ASSUME XInv, [XNext]_xvars PROVE XInv'
    OBVIOUS
<1> USE DEF XInv, XTypeOK, OwnIds, FrameIs, Saved, FaultedIn, FaultsCaught, InCall, Running, WorkerPlaces,
            GoesTo
<1>1. CASE UNCHANGED xvars
    BY <1>1 DEF xvars
<1>2. ASSUME NEW t \in Workers, StartThread(t) PROVE XInv'
    BY <1>2 DEF StartThread
<1>3. ASSUME NEW t \in Workers, EndThread(t) PROVE XInv'
    BY <1>3 DEF EndThread
<1>4. ASSUME NEW t \in Workers, BeginIteration(t) PROVE XInv'
    BY <1>4 DEF BeginIteration
<1>5. ASSUME NEW t \in Workers, LockMap(t) PROVE XInv'
    BY <1>5 DEF LockMap
<1>6. ASSUME NEW t \in Workers, pushOne(t) PROVE XInv'
    BY <1>6 DEF pushOne, Key
<1>7. ASSUME NEW t \in Workers, Returns(t) PROVE XInv'
    BY <1>7 DEF Returns
<1>8. ASSUME NEW t \in Workers, Fault(t) PROVE XInv'
    BY <1>8 DEF Fault
<1>9. ASSUME NEW t \in Workers, Jump(t) PROVE XInv'
    BY <1>9 DEF Jump, Key
<1> QED
    BY <1>1, <1>2, <1>3, <1>4, <1>5, <1>6, <1>7, <1>8, <1>9 DEF XNext

(* A thread whose work function faults comes back into the call it was in:   *)
(* only a fault in a handler of messages or in forecast() loses it.          *)
THEOREM FaultsAreCaught == XSpec => []FaultsCaught
<1>1. XInv => FaultsCaught
    BY DEF XInv
<1> QED
    BY <1>1, XInvInit, XInvNext, PTL DEF XSpec

-----------------------------------------------------------------------------
(***************************************************************************)
(* For any number of files and calls: no call of work writes to a file that  *)
(* had been replaced before it began, and every file but the two the block   *)
(* knows of has been closed once.  What is needed beyond the two properties: *)
(* the file last asked for is the one in d_new_fp until work has taken it    *)
(* over, and the one in d_fp from then on.                                   *)
(***************************************************************************)

HSpec == HInit /\ [][HNext]_hvars

FILE == [closed : Nat, got : Seq(Nat)]

HTypeOK ==
    /\ handles \in Seq(FILE)
    /\ d_fp \in 0 .. Len(handles) /\ d_new_fp \in 0 .. Len(handles)
    /\ d_updated \in BOOLEAN /\ gone \in BOOLEAN
    /\ stage \in {"idle", "update", "write"} /\ works \in Nat

Apart == d_fp # 0 => d_fp # d_new_fp

LastAsked ==
    /\ d_updated /\ ~gone => d_new_fp = asked
    /\ ~d_updated => d_fp = asked /\ d_new_fp = 0
    /\ stage # "idle" => asked \in askedbefore /\ ~gone
    /\ stage = "update" => d_updated

HInv == HTypeOK /\ Apart /\ LastAsked /\ HandedOver /\ HandlesClosed

LEMMA FileFields ==
    ASSUME NEW f \in FILE
    PROVE  /\ f.closed \in Nat /\ f.got \in Seq(Nat)
           /\ [f EXCEPT !.closed = @ + 1] = [closed |-> f.closed + 1, got |-> f.got]
           /\ \A g : [f EXCEPT !.got = g] = [closed |-> f.closed, got |-> g]
  BY DEF FILE

LEMMA CloseType ==
    ASSUME NEW hs \in Seq(FILE), NEW h \in 0 .. Len(hs)
    PROVE  /\ fclose(hs, h) \in Seq(FILE)
           /\ Len(fclose(hs, h)) = Len(hs)
           /\ \A k \in 1 .. Len(hs) :
                 fclose(hs, h)[k].closed = IF k = h THEN hs[k].closed + 1 ELSE hs[k].closed
<1>1. CASE h = 0
    BY <1>1 DEF fclose
<1>2. CASE h # 0
    <2>1. h \in 1 .. Len(hs) /\ DOMAIN hs = 1 .. Len(hs)
        BY <1>2
    <2>2. hs[h] \in FILE
        BY <2>1
    <2>3. fclose(hs, h) = [hs EXCEPT ![h] = [hs[h] EXCEPT !.closed = @ + 1]]
        BY <1>2 DEF fclose
    <2> DEFINE f == [closed |-> hs[h].closed + 1, got |-> hs[h].got]
    <2>4. fclose(hs, h) = [hs EXCEPT ![h] = f]
        BY <2>2, <2>3, FileFields
    <2>5. f \in FILE /\ f.closed = hs[h].closed + 1
        BY <2>2, FileFields DEF FILE
    <2> HIDE DEF f
    <2> QED
        BY <2>1, <2>4, <2>5, ExceptSeq
<1> QED
    BY <1>1, <1>2

LEMMA HInvInit == HInit => HInv
<1> SUFFICES ASSUME HInit PROVE HInv
    OBVIOUS
<1>1. NewHandle \in FILE /\ NewHandle.closed = 0
    BY DEF NewHandle, FILE
<1>2. handles \in Seq(FILE) /\ Len(handles) = 1 /\ handles[1] = NewHandle /\ DOMAIN handles = {1}
    BY <1>1 DEF HInit
<1>3. d_updated \in BOOLEAN /\ gone \in BOOLEAN /\ Apart
    BY DEF HInit, Apart
<1>4. HTypeOK
    BY <1>2, <1>3 DEF HInit, HTypeOK
<1>5. LastAsked /\ HandedOver
    BY DEF HInit, LastAsked, HandedOver
<1>6. HandlesClosed
    BY <1>1, <1>2 DEF HInit, HandlesClosed
<1> QED
    BY <1>3, <1>4, <1>5, <1>6 DEF HInv

LEMMA HInvNext == HInv /\ [HNext]_hvars => HInv'
<1> SUFFICES ASSUME HInv, [HNext]_hvars PROVE HInv'
    OBVIOUS
<1> USE DEF HInv, HTypeOK, Apart, LastAsked, HandedOver, HandlesClosed
<1>1. CASE UNCHANGED hvars
    BY <1>1 DEF hvars
<1>2. CASE open
    <2> DEFINE hs == fclose(handles, d_new_fp)
    <2>1. /\ hs \in Seq(FILE) /\ Len(hs) = Len(handles)
          /\ \A k \in 1 .. Len(handles) :
                hs[k].closed = IF k = d_new_fp THEN handles[k].closed + 1 ELSE handles[k].closed
        BY CloseType
    <2>2. handles' = Append(hs, NewHandle) /\ NewHandle \in FILE
        BY <1>2 DEF open, NewHandle, FILE
    <2> HIDE DEF hs
    <2>3. HTypeOK'
        BY <1>2, <2>1, <2>2 DEF open
    <2>4. Apart' /\ LastAsked' /\ HandedOver'
        BY <1>2 DEF open, Asks
    <2>5. NewHandle.closed = 0 /\ d_fp' = d_fp /\ d_new_fp' = Len(handles) + 1
        BY <1>2 DEF open, NewHandle
    <2>6. Len(handles') = Len(handles) + 1
          /\ \A k \in 1 .. Len(handles) + 1 :
                handles'[k] = IF k <= Len(handles) THEN hs[k] ELSE NewHandle
        BY <2>1, <2>2
    <2>7. HandlesClosed'
        <3> SUFFICES ASSUME NEW k \in DOMAIN handles'
                     PROVE  handles'[k].closed = IF k \in {d_fp', d_new_fp'} THEN 0 ELSE 1
            OBVIOUS
        <3>1. k \in 1 .. Len(handles) + 1
            BY <2>2, <2>1
        <3>2. CASE k <= Len(handles)
            <4>1. k \in 1 .. Len(handles) /\ k # d_new_fp' /\ DOMAIN handles = 1 .. Len(handles)
                BY <2>5, <3>1, <3>2
            <4>2. handles'[k].closed = hs[k].closed
                BY <2>6, <3>1, <3>2
            <4>3. hs[k].closed = IF k = d_fp THEN 0 ELSE 1
                BY <2>1, <4>1
            <4> QED
                BY <2>5, <4>1, <4>2, <4>3
        <3>3. CASE k = Len(handles) + 1
            BY <2>5, <2>6, <3>1, <3>3
        <3> QED
            BY <3>1, <3>2, <3>3
    <2> QED
        BY <2>3, <2>4, <2>7
<1>3. CASE open_fails
    BY <1>3, CloseType DEF open_fails, Asks
<1>4. CASE close
    BY <1>4, CloseType DEF close, Asks
<1>5. CASE BeginWork
    BY <1>5 DEF BeginWork
<1>6. CASE do_update
    <2> DEFINE hs == fclose(handles, d_fp)
    <2>1. /\ hs \in Seq(FILE) /\ Len(hs) = Len(handles)
          /\ \A k \in 1 .. Len(handles) :
                hs[k].closed = IF k = d_fp THEN handles[k].closed + 1 ELSE handles[k].closed
        BY CloseType
    <2>2. handles' = hs /\ d_fp' = d_new_fp /\ d_new_fp' = 0
        BY <1>6 DEF do_update, Replacement, Retired
    <2> HIDE DEF hs
    <2>3. d_updated' \in BOOLEAN /\ gone' \in BOOLEAN
        BY <1>6 DEF do_update
    <2>4. HTypeOK' /\ Apart'
        BY <1>6, <2>1, <2>2, <2>3 DEF do_update
    <2>5. LastAsked'
        BY <1>6, <2>2 DEF do_update
    <2>6. HandedOver'
        BY <1>6, <2>2 DEF do_update
    <2>7. HandlesClosed'
        BY <2>1, <2>2
    <2> QED
        BY <2>4, <2>5, <2>6, <2>7
<1>7. CASE Write
    <2>1. CASE d_fp = 0
        BY <1>7, <2>1 DEF Write
    <2>2. CASE d_fp # 0
        <3>1. d_fp \in 1 .. Len(handles) /\ DOMAIN handles = 1 .. Len(handles) /\ handles[d_fp] \in FILE
            BY <2>2
        <3>2. [handles[d_fp] EXCEPT !.got = Append(@, works)]
                  = [closed |-> handles[d_fp].closed, got |-> Append(handles[d_fp].got, works)]
            BY <3>1, FileFields
        <3>3. Append(handles[d_fp].got, works) \in Seq(Nat)
            BY <3>1, FileFields, AppendProperties
        <3> DEFINE f == [closed |-> handles[d_fp].closed, got |-> Append(handles[d_fp].got, works)]
        <3>4. f \in FILE /\ f.closed = handles[d_fp].closed
            BY <3>1, <3>3, FileFields DEF FILE
        <3>5. handles' = [handles EXCEPT ![d_fp] = f]
            BY <1>7, <2>2, <3>2 DEF Write
        <3> HIDE DEF f
        <3>6. /\ handles' \in Seq(FILE) /\ Len(handles') = Len(handles)
              /\ \A k \in 1 .. Len(handles) : handles'[k].closed = handles[k].closed
            BY <3>1, <3>4, <3>5, ExceptSeq
        <3> QED
            BY <1>7, <3>6 DEF Write
    <2> QED
        BY <2>1, <2>2
<1>8. CASE Destroy
    <2> DEFINE hs == fclose(handles, d_new_fp)
    <2>1. /\ hs \in Seq(FILE) /\ Len(hs) = Len(handles)
          /\ \A k \in 1 .. Len(handles) :
                hs[k].closed = IF k = d_new_fp THEN handles[k].closed + 1 ELSE handles[k].closed
        BY CloseType
    <2> HIDE DEF hs
    <2>2. /\ fclose(hs, d_fp) \in Seq(FILE)
          /\ Len(fclose(hs, d_fp)) = Len(handles)
          /\ \A k \in 1 .. Len(handles) :
                fclose(hs, d_fp)[k].closed = IF k = d_fp THEN hs[k].closed + 1 ELSE hs[k].closed
        BY <2>1, CloseType
    <2>3. handles' = fclose(hs, d_fp)
        BY <1>8 DEF Destroy, hs
    <2> QED
        BY <1>8, <2>1, <2>2, <2>3, SMTT(20) DEF Destroy
<1> QED
    BY <1>1, <1>2, <1>3, <1>4, <1>5, <1>6, <1>7, <1>8 DEF HNext

(* What a call of work writes goes to a file that was asked for when the     *)
(* call began or while it ran.                                               *)
THEOREM AlwaysHandedOver == HSpec => []HandedOver
<1>1. HInv => HandedOver
    BY DEF HInv
<1> QED
    BY <1>1, HInvInit, HInvNext, PTL DEF HSpec

(* Every handle is closed once, except the two the block still has, which    *)
(* are open.                                                                 *)
THEOREM HandlesAlwaysClosed == HSpec => []HandlesClosed
<1>1. HInv => HandlesClosed
    BY DEF HInv
<1> QED
    BY <1>1, HInvInit, HInvNext, PTL DEF HSpec

(* file_sink_base as a whole, for any number of files and calls.             *)
THEOREM HandlesAlwaysKept == HSpec => []HandlesKept
<1>1. HandedOver /\ HandlesClosed => HandlesKept
    BY DEF HandlesKept
<1> QED
    BY <1>1, AlwaysHandedOver, HandlesAlwaysClosed, PTL

-----------------------------------------------------------------------------
(***************************************************************************)
(* For any blocks, names and aliases: no name leads to freed memory, a block *)
(* is found under each of its names while anybody holds it, and so for       *)
(* notifications.  What is needed beyond the properties: a block has its     *)
(* names from the moment it is registered until it is removed, also while    *)
(* nobody can hold it, and has no alias before make() has returned it.       *)
(***************************************************************************)

RSpec == RInit /\ [][RNext]_rvars

Lives == {"none", "registered", "named", "built", "alive", "dying", "erased"}

RTypeOK ==
    /\ life \in [Places -> Lives]
    /\ DOMAIN symbolic_id = Places /\ DOMAIN d_symbol_alias = Places /\ DOMAIN renaming = Places

\* From the end of basic_block's constructor to the end of its destructor.
Registered(b) == life[b] \in {"named", "built", "alive", "dying", "erased"}

Known ==
    \A b \in Places : Registered(b) =>
        \A key \in KnownBy(b) : key \in DOMAIN d_ref_map /\ d_ref_map[key] = b

OnlyKnown ==
    \A key \in DOMAIN d_ref_map :
        d_ref_map[key] \in Places /\ Registered(d_ref_map[key]) /\ key \in KnownBy(d_ref_map[key])

Unnamed ==
    \A b \in Places :
       /\ life[b] \in {"none", "registered", "named", "built"} => d_symbol_alias[b] = NoAlias
       /\ life[b] # "alive" => renaming[b] = NoAlias

\* A plain block is in primitive_map from the end of its constructor to the
\* start of its destructor.
Notified ==
    /\ \A key \in DOMAIN primitive_map :
          /\ primitive_map[key] \in Places \ Hiers
          /\ life[primitive_map[key]] \in {"built", "alive", "dying"}
          /\ key = symbol_name(primitive_map[key])
    /\ \A b \in Places \ Hiers : life[b] \in {"built", "alive", "dying"} =>
          symbol_name(b) \in DOMAIN primitive_map /\ primitive_map[symbol_name(b)] = b

Unlike ==
    \A b \in Places :
       /\ Registered(b) => symbol_name(b) \notin AliasOf(b)
       /\ renaming[b] # NoAlias => symbol_name(b) # renaming[b]

RInv == RTypeOK /\ Known /\ OnlyKnown /\ Unnamed /\ Notified /\ Unlike

LEMMA RInvInit == RInit => RInv
  BY DEF RInit, RInv, RTypeOK, Known, OnlyKnown, Unnamed, Notified, Unlike, Registered, None, Lives

LEMMA NameFacts ==
    ASSUME NEW c
    PROVE  /\ symbol_name(c) \in NamesOf(c)
           /\ d_symbol_alias[c] = NoAlias => NamesOf(c) = {symbol_name(c)}
           /\ d_symbol_alias[c] = NoAlias => AliasOf(c) = {}
           /\ NamesOf(c) = {symbol_name(c)} \cup AliasOf(c)
           /\ renaming[c] = NoAlias => KnownBy(c) = NamesOf(c)
           /\ symbol_name(c) \in KnownBy(c)
  BY DEF NamesOf, AliasOf, alias_set, KnownBy

\* Names change with the number and the aliases alone.
LEMMA SameNames ==
    ASSUME NEW c, symbolic_id'[c] = symbolic_id[c], d_symbol_alias'[c] = d_symbol_alias[c],
           renaming'[c] = renaming[c]
    PROVE  symbol_name(c)' = symbol_name(c) /\ KnownBy(c)' = KnownBy(c)
           /\ AliasOf(c)' = AliasOf(c)
  BY DEF symbol_name, NamesOf, AliasOf, alias_set, KnownBy

LEMMA RInvNext == RInv /\ [RNext]_rvars => RInv'
<1> SUFFICES ASSUME RInv, [RNext]_rvars PROVE RInv'
    OBVIOUS
<1> USE DEF RInv, RTypeOK, Known, OnlyKnown, Unnamed, Notified, Unlike, Registered, Lives, Reach
<1>1. CASE UNCHANGED rvars
    <2>1. \A c \in Places :
            symbol_name(c)' = symbol_name(c) /\ KnownBy(c)' = KnownBy(c) /\ AliasOf(c)' = AliasOf(c)
        BY <1>1, SameNames DEF rvars
    <2> QED
        BY <1>1, <2>1 DEF rvars
<1>2. ASSUME NEW b \in Places, block_register(b) PROVE RInv'
    <2>1. \A c \in Places \ {b} :
            symbol_name(c)' = symbol_name(c) /\ KnownBy(c)' = KnownBy(c) /\ AliasOf(c)' = AliasOf(c)
        BY <1>2, SameNames DEF block_register
    <2> QED
        BY <1>2, <2>1 DEF block_register
<1>3. ASSUME NEW b \in Places, register_symbolic_name(b) PROVE RInv'
    <2>1. \A c \in Places :
            symbol_name(c)' = symbol_name(c) /\ KnownBy(c)' = KnownBy(c) /\ AliasOf(c)' = AliasOf(c)
        BY <1>3, SameNames DEF register_symbolic_name
    <2>2. CASE Taken_by(symbol_name(b))
        BY <1>3, <2>1, <2>2 DEF register_symbolic_name
    <2>3. CASE ~Taken_by(symbol_name(b))
        <3>1. /\ symbol_name(b) \notin DOMAIN d_ref_map
              /\ d_ref_map' = With(d_ref_map, symbol_name(b), b)
              /\ life[b] = "registered" /\ life' = [life EXCEPT ![b] = "named"]
            BY <1>3, <2>3 DEF register_symbolic_name, Taken_by
        <3>2. KnownBy(b) = {symbol_name(b)} /\ AliasOf(b) = {}
            BY <3>1, NameFacts
        <3>3. RTypeOK' /\ Unnamed' /\ Notified' /\ Unlike'
            BY <1>3, <2>1, <3>1, <3>2 DEF register_symbolic_name
        <3>4. /\ DOMAIN d_ref_map' = DOMAIN d_ref_map \cup {symbol_name(b)}
              /\ d_ref_map'[symbol_name(b)] = b
              /\ \A x \in DOMAIN d_ref_map : d_ref_map'[x] = d_ref_map[x]
            BY <3>1 DEF With
        <3>5. Known'
            BY <2>1, <3>1, <3>2, <3>4
        <3>6. OnlyKnown'
            BY <2>1, <3>1, <3>2, <3>4
        <3> QED
            BY <3>3, <3>5, <3>6
    <2> QED
        BY <2>2, <2>3
<1>4. ASSUME NEW b \in Places, Construct(b) PROVE RInv'
    <2>1. \A c \in Places :
            symbol_name(c)' = symbol_name(c) /\ KnownBy(c)' = KnownBy(c) /\ AliasOf(c)' = AliasOf(c)
        BY <1>4, SameNames DEF Construct
    <2>2. \A c \in Places \ {b} : Registered(c) => symbol_name(c) # symbol_name(b)
        BY <1>4, NameFacts DEF Construct
    <2>3. RTypeOK' /\ Known' /\ OnlyKnown' /\ Unnamed' /\ Unlike'
        BY <1>4, <2>1 DEF Construct
    <2>4. Notified'
        <3>1. CASE b \in Hiers
            BY <1>4, <2>1, <3>1 DEF Construct
        <3>2. CASE b \notin Hiers
            <4>1. /\ primitive_map' = With(primitive_map, symbol_name(b), b)
                  /\ life[b] = "named" /\ life' = [life EXCEPT ![b] = "built"]
                BY <1>4, <3>2 DEF Construct
            <4>2. /\ DOMAIN primitive_map' = DOMAIN primitive_map \cup {symbol_name(b)}
                  /\ primitive_map'[symbol_name(b)] = b
                  /\ \A x \in DOMAIN primitive_map :
                        x # symbol_name(b) => primitive_map'[x] = primitive_map[x]
                BY <4>1 DEF With
            <4> QED
                BY <2>1, <2>2, <3>2, <4>1, <4>2
        <3> QED
            BY <3>1, <3>2
    <2> QED
        BY <2>3, <2>4
<1>5. ASSUME NEW b \in Places, fetch_initial_sptr(b) PROVE RInv'
    <2>1. \A c \in Places :
            symbol_name(c)' = symbol_name(c) /\ KnownBy(c)' = KnownBy(c) /\ AliasOf(c)' = AliasOf(c)
        BY <1>5, SameNames DEF fetch_initial_sptr
    <2> QED
        BY <1>5, <2>1 DEF fetch_initial_sptr
<1>6. ASSUME NEW b \in Places, ConstructorThrows(b) PROVE RInv'
    <2>1. \A c \in Places :
            symbol_name(c)' = symbol_name(c) /\ KnownBy(c)' = KnownBy(c) /\ AliasOf(c)' = AliasOf(c)
        BY <1>6, SameNames DEF ConstructorThrows
    <2> QED
        BY <1>6, <2>1 DEF ConstructorThrows
<1>7. ASSUME NEW b \in Places, Release(b) PROVE RInv'
    <2>1. \A c \in Places :
            symbol_name(c)' = symbol_name(c) /\ KnownBy(c)' = KnownBy(c) /\ AliasOf(c)' = AliasOf(c)
        BY <1>7, SameNames DEF Release
    <2> QED
        BY <1>7, <2>1 DEF Release
<1>8. ASSUME NEW b \in Places, DestroyDerived(b) PROVE RInv'
    <2>1. \A c \in Places :
            symbol_name(c)' = symbol_name(c) /\ KnownBy(c)' = KnownBy(c) /\ AliasOf(c)' = AliasOf(c)
        BY <1>8, SameNames DEF DestroyDerived
    <2>2. \A c \in Places \ {b} : Registered(c) => symbol_name(c) # symbol_name(b)
        BY <1>8, NameFacts DEF DestroyDerived
    <2>3. RTypeOK' /\ Known' /\ OnlyKnown' /\ Unnamed' /\ Unlike'
        BY <1>8, <2>1 DEF DestroyDerived
    <2>4. Notified'
        <3>1. CASE b \in Hiers
            BY <1>8, <2>1, <3>1 DEF DestroyDerived
        <3>2. CASE b \notin Hiers
            <4>1. /\ primitive_map' = Less(primitive_map, {symbol_name(b)})
                  /\ life[b] = "dying" /\ life' = [life EXCEPT ![b] = "erased"]
                BY <1>8, <3>2 DEF DestroyDerived, PrimitiveName
            <4>2. /\ DOMAIN primitive_map' = DOMAIN primitive_map \ {symbol_name(b)}
                  /\ \A x \in DOMAIN primitive_map' : primitive_map'[x] = primitive_map[x]
                BY <4>1 DEF Less
            <4> HIDE DEF Known, OnlyKnown, Unnamed, Unlike
            <4>3. \A key \in DOMAIN primitive_map' : key # symbol_name(b) /\ primitive_map'[key] # b
                BY <4>2
            <4>4. \A c \in Places \ {b} : life'[c] = life[c]
                BY <4>1
            <4>5. \A key \in DOMAIN primitive_map' :
                     /\ primitive_map'[key] \in Places \ Hiers
                     /\ life'[primitive_map'[key]] \in {"built", "alive", "dying"}
                     /\ key = symbol_name(primitive_map[key])'
                <5> TAKE key \in DOMAIN primitive_map'
                <5>1. PICK c : c = primitive_map[key]
                    OBVIOUS
                <5>2. primitive_map'[key] = c /\ c \in Places \ Hiers /\ c # b /\ key = symbol_name(c)
                      /\ life[c] \in {"built", "alive", "dying"}
                    BY <4>2, <4>3, <5>1
                <5>3. symbol_name(c)' = symbol_name(c)
                    BY <2>1, <5>2
                <5>4. symbol_name(primitive_map[key])' = symbol_name(c)'
                    BY <5>2 DEF symbol_name
                <5> QED
                    BY <4>4, <5>2, <5>3, <5>4
            <4>6. \A c \in Places \ Hiers : life'[c] \in {"built", "alive", "dying"} =>
                     symbol_name(c)' \in DOMAIN primitive_map' /\ primitive_map'[symbol_name(c)'] = c
                BY <2>1, <2>2, <3>2, <4>1, <4>2
            <4> QED
                BY <4>5, <4>6
        <3> QED
            BY <3>1, <3>2
    <2> QED
        BY <2>3, <2>4
<1>9. ASSUME NEW b \in Places, block_unregister(b) PROVE RInv'
    <2>1. \A c \in Places \ {b} :
            symbol_name(c)' = symbol_name(c) /\ KnownBy(c)' = KnownBy(c) /\ AliasOf(c)' = AliasOf(c)
        BY <1>9, SameNames DEF block_unregister
    <2>2. /\ d_ref_map' = Less(d_ref_map, NamesOf(b))
          /\ life[b] = "erased" /\ life' = [life EXCEPT ![b] = "none"]
          /\ d_symbol_alias' = [d_symbol_alias EXCEPT ![b] = NoAlias]
          /\ renaming' = renaming /\ KnownBy(b) = NamesOf(b)
        BY <1>9, NameFacts DEF block_unregister, Removed
    <2>3. RTypeOK' /\ Unnamed' /\ Notified' /\ Unlike'
        BY <1>9, <2>1, <2>2 DEF block_unregister
    <2>4. /\ DOMAIN d_ref_map' = DOMAIN d_ref_map \ NamesOf(b)
          /\ \A x \in DOMAIN d_ref_map' : d_ref_map'[x] = d_ref_map[x]
        BY <2>2 DEF Less
    <2>5. Known'
        BY <2>1, <2>2, <2>4
    <2>6. OnlyKnown'
        BY <2>1, <2>2, <2>4
    <2> QED
        BY <2>3, <2>5, <2>6
<1>10. ASSUME NEW b \in Places, NEW a \in Aliases, set_block_alias(b, a) PROVE RInv'
    <2>1. \A c \in Places \ {b} :
            symbol_name(c)' = symbol_name(c) /\ KnownBy(c)' = KnownBy(c) /\ AliasOf(c)' = AliasOf(c)
        BY <1>10, SameNames DEF set_block_alias
    <2> DEFINE kept == Less(d_ref_map, AliasOf(b))
    <2>2. /\ d_ref_map' = With(kept, a, b)
          /\ life[b] = "alive" /\ life' = life
          /\ a \notin DOMAIN d_ref_map
          /\ renaming[b] = NoAlias /\ renaming' = [renaming EXCEPT ![b] = a] /\ a # NoAlias
          /\ UNCHANGED <<symbolic_id, d_symbol_alias, primitive_map>>
        BY <1>10, AliasAssumption DEF set_block_alias, Taken_by
    <2>3. symbol_name(b)' = symbol_name(b) /\ KnownBy(b)' = {symbol_name(b), a}
          /\ AliasOf(b)' = AliasOf(b)
        BY <2>2 DEF symbol_name, KnownBy, AliasOf, alias_set
    <2>4. KnownBy(b) = {symbol_name(b)} \cup AliasOf(b)
        BY <2>2, NameFacts
    <2>5. RTypeOK' /\ Unnamed' /\ Notified'
        BY <2>1, <2>2, <2>3
    <2>6. a # symbol_name(b)
        BY <2>2, <2>4
    <2>7. Unlike'
        BY <2>1, <2>2, <2>3, <2>6
    <2>8. /\ DOMAIN kept = DOMAIN d_ref_map \ AliasOf(b)
          /\ \A x \in DOMAIN kept : kept[x] = d_ref_map[x]
        BY DEF Less
    <2>9. /\ DOMAIN d_ref_map' = DOMAIN kept \cup {a}
          /\ d_ref_map'[a] = b
          /\ \A x \in DOMAIN kept : x # a => d_ref_map'[x] = kept[x]
        BY <2>2 DEF With
    <2>10. symbol_name(b) \in DOMAIN kept
        BY <2>2, <2>4, <2>8
    <2> HIDE DEF kept
    <2>11. Known'
        BY <2>1, <2>2, <2>3, <2>4, <2>8, <2>9, <2>10
    <2>12. OnlyKnown'
        BY <2>1, <2>2, <2>3, <2>4, <2>8, <2>9, <2>10
    <2> QED
        BY <2>5, <2>7, <2>11, <2>12
<1>11. ASSUME NEW key \in DOMAIN d_ref_map, block_lookup(key) PROVE RInv'
    <2>1. \A c \in Places :
            symbol_name(c)' = symbol_name(c) /\ KnownBy(c)' = KnownBy(c) /\ AliasOf(c)' = AliasOf(c)
        BY <1>11, SameNames DEF block_lookup
    <2> QED
        BY <1>11, <2>1 DEF block_lookup
<1>12. ASSUME NEW b \in Places, AssignAlias(b) PROVE RInv'
    <2>1. \A c \in Places \ {b} :
            symbol_name(c)' = symbol_name(c) /\ KnownBy(c)' = KnownBy(c) /\ AliasOf(c)' = AliasOf(c)
        BY <1>12, SameNames DEF AssignAlias
    <2>2. /\ renaming[b] # NoAlias /\ renaming' = [renaming EXCEPT ![b] = NoAlias]
          /\ d_symbol_alias' = [d_symbol_alias EXCEPT ![b] = renaming[b]]
          /\ UNCHANGED <<symbolic_id, d_ref_map, primitive_map, life>>
        BY <1>12 DEF AssignAlias
    <2>3. life[b] = "alive"
        BY <2>2
    <2>4. symbol_name(b)' = symbol_name(b) /\ AliasOf(b)' = {renaming[b]}
        BY <2>2 DEF symbol_name, AliasOf, alias_set
    <2>5. KnownBy(b)' = KnownBy(b)
        BY <2>2, <2>4 DEF KnownBy, NamesOf
    <2> QED
        BY <2>1, <2>2, <2>3, <2>4, <2>5
<1> QED
    BY <1>1, <1>2, <1>3, <1>4, <1>5, <1>6, <1>7, <1>8, <1>9, <1>10, <1>11,
       <1>12 DEF RNext

(* No name leads to freed memory or to a block that does not go by it.       *)
THEOREM RefsStayAlive == RSpec => []RefsAlive
<1>1. RInv => RefsAlive
    BY DEF RInv, RefsAlive, OnlyKnown, Registered
<1> QED
    BY <1>1, RInvInit, RInvNext, PTL DEF RSpec

(* A block that is held is found under its name and its alias.               *)
THEOREM AlwaysFindable == RSpec => []Findable
<1>1. RInv => Findable
    BY DEF RInv, Findable, Known, Registered
<1> QED
    BY <1>1, RInvInit, RInvNext, PTL DEF RSpec

(* A plain block that is alive is notified under its symbolic name, and      *)
(* nothing that is not.                                                      *)
THEOREM PrimitivesStayAlive == RSpec => []PrimitivesAlive
<1>1. RInv => PrimitivesAlive
    BY DEF RInv, PrimitivesAlive, Notified
<1> QED
    BY <1>1, RInvInit, RInvNext, PTL DEF RSpec

\* Only hierarchical blocks are stashed, while their constructors or destructors
\* run.
Stashed == StashLive /\ s_map \subseteq Hiers \cap Places

LEMMA StashInit == RInit => Stashed
  BY DEF RInit, Stashed, StashLive

LEMMA StashNext == RInv /\ Stashed /\ [RNext]_rvars => Stashed'
<1> SUFFICES ASSUME RInv, Stashed, [RNext]_rvars PROVE Stashed'
    OBVIOUS
<1> USE DEF Stashed, StashLive, RInv, RTypeOK, Reach
<1>1. CASE UNCHANGED rvars
    BY <1>1 DEF rvars
<1>2. ASSUME NEW b \in Places, block_register(b) PROVE Stashed'
    BY <1>2 DEF block_register
<1>3. ASSUME NEW b \in Places, register_symbolic_name(b) PROVE Stashed'
    BY <1>3 DEF register_symbolic_name
<1>4. ASSUME NEW b \in Places, Construct(b) PROVE Stashed'
    BY <1>4 DEF Construct
<1>5. ASSUME NEW b \in Places, fetch_initial_sptr(b) PROVE Stashed'
    BY <1>5 DEF fetch_initial_sptr
<1>6. ASSUME NEW b \in Places, ConstructorThrows(b) PROVE Stashed'
    BY <1>6 DEF ConstructorThrows
<1>7. ASSUME NEW b \in Places, Release(b) PROVE Stashed'
    BY <1>7 DEF Release
<1>8. ASSUME NEW b \in Places, DestroyDerived(b) PROVE Stashed'
    BY <1>8 DEF DestroyDerived, Cancelled
<1>9. ASSUME NEW b \in Places, block_unregister(b) PROVE Stashed'
    BY <1>9 DEF block_unregister
<1>10. ASSUME NEW b \in Places, NEW a \in Aliases, set_block_alias(b, a) PROVE Stashed'
    BY <1>10 DEF set_block_alias
<1>11. ASSUME NEW key \in DOMAIN d_ref_map, block_lookup(key) PROVE Stashed'
    BY <1>11 DEF block_lookup
<1>12. ASSUME NEW b \in Places, AssignAlias(b) PROVE Stashed'
    BY <1>12 DEF AssignAlias
<1> QED
    BY <1>1, <1>2, <1>3, <1>4, <1>5, <1>6, <1>7, <1>8, <1>9, <1>10, <1>11,
       <1>12 DEF RNext

(* sptr_magic: an sptr is stashed only while its block is under construction *)
(* or destroyed, also when constructors throw.                               *)
THEOREM StashAlwaysLive == RSpec => []StashLive
<1>1. RInv /\ Stashed => StashLive
    BY DEF Stashed
<1> QED
    BY <1>1, RInvInit, RInvNext, StashInit, StashNext, PTL DEF RSpec

(* The registry and the stash as a whole, for any blocks, names and aliases. *)
THEOREM RegistryAlwaysSound == RSpec => []RegistrySound
<1>1. RefsAlive /\ Findable /\ PrimitivesAlive /\ StashLive => RegistrySound
    BY DEF RegistrySound
<1> QED
    BY <1>1, RefsStayAlive, AlwaysFindable, PrimitivesStayAlive, StashAlwaysLive, PTL

-----------------------------------------------------------------------------
(***************************************************************************)
(* The antenna block, for any number of channels, any length of a batch and  *)
(* any senders: what it has collected of a frame are the packets of the      *)
(* first channels, what it has collected of a batch are consecutive frames.  *)
(***************************************************************************)

ASpec == AInit /\ [][ANext]_avars

LEMMA Divided ==
    ASSUME NEW a \in Nat
    PROVE  /\ a \div Channels \in Nat /\ a % Channels \in 0 .. Channels - 1
           /\ a = (a \div Channels) * Channels + (a % Channels)
    BY ChannelsAssumption

LEMMA DividedOf ==
    ASSUME NEW q \in Nat, NEW r \in 0 .. Channels - 1
    PROVE  (q * Channels + r) \div Channels = q /\ (q * Channels + r) % Channels = r
    BY ChannelsAssumption

\* The packet after one of the last channel is of the first.
LEMMA NextChannel ==
    ASSUME NEW a \in Nat
    PROVE  /\ a % Channels = Channels - 1 => (a + 1) % Channels = 0
           /\ a % Channels # Channels - 1 => (a + 1) % Channels = (a % Channels) + 1
<1>1. PICK q \in Nat, r \in 0 .. Channels - 1 : a = q * Channels + r /\ a % Channels = r
    BY Divided
<1>2. CASE r = Channels - 1
  <2>1. a + 1 = (q + 1) * Channels + 0 /\ 0 \in 0 .. Channels - 1 /\ q + 1 \in Nat
      BY <1>1, <1>2, ChannelsAssumption
  <2> QED
      BY <1>1, <1>2, <2>1, DividedOf
<1>3. CASE r # Channels - 1
  <2>1. a + 1 = q * Channels + (r + 1) /\ r + 1 \in 0 .. Channels - 1
      BY <1>1, <1>3, ChannelsAssumption
  <2> QED
      BY <1>1, <1>3, <2>1, DividedOf
<1> QED
    BY <1>2, <1>3

\* Two packets of adjacent channels with less than a frame between them are
\* of one frame, and so are all those from the frame's first on.
LEMMA SameFrame ==
    ASSUME NEW a \in Nat, NEW b \in Nat, NEW c \in 1 .. Channels - 1,
           a % Channels = c - 1, b % Channels = c, a < b, b - 1 - a < Channels
    PROVE  a \div Channels = b \div Channels
<1>1. PICK q \in Nat : a = q * Channels + (c - 1) /\ a \div Channels = q
    BY Divided
<1>2. PICK p \in Nat : b = p * Channels + c /\ b \div Channels = p
    BY Divided
<1>3. p >= q
  <2> SUFFICES ASSUME p + 1 <= q PROVE FALSE
      BY <1>1, <1>2
  <2>1. (p + 1) * Channels <= q * Channels
      BY ChannelsAssumption
  <2>2. (p + 1) * Channels = p * Channels + Channels
      BY ChannelsAssumption
  <2> QED
      BY <1>1, <1>2, <2>1, <2>2, ChannelsAssumption
<1>4. p <= q
  <2> SUFFICES ASSUME q + 1 <= p PROVE FALSE
      BY <1>1, <1>2
  <2>1. (q + 1) * Channels <= p * Channels
      BY ChannelsAssumption
  <2>2. (q + 1) * Channels = q * Channels + Channels
      BY ChannelsAssumption
  <2> QED
      BY <1>1, <1>2, <2>1, <2>2, ChannelsAssumption
<1> QED
    BY <1>1, <1>2, <1>3, <1>4

\* ... and otherwise more than a frame lies between them.
LEMMA NextOrGap ==
    ASSUME NEW a \in Nat, NEW b \in Nat, NEW c \in 1 .. Channels - 1, faults \in Nat,
           a % Channels = c - 1, b % Channels = c, a < b, b - 1 - a <= faults
    PROVE  WholeGap(a, b, faults)
<1>1. CASE b - 1 - a < Channels
  <2>1. a \div Channels = b \div Channels
      BY <1>1, SameFrame
  <2>2. PICK q \in Nat : a = q * Channels + (c - 1) /\ a \div Channels = q
      BY Divided
  <2>3. PICK p \in Nat : b = p * Channels + c /\ b \div Channels = p
      BY Divided
  <2>4. p = q
      BY <2>1, <2>2, <2>3
  <2>5. p * Channels \in Nat
      BY ChannelsAssumption
  <2> QED
      BY <2>2, <2>3, <2>4, <2>5 DEF WholeGap
<1>2. CASE ~(b - 1 - a < Channels)
    BY <1>2, ChannelsAssumption DEF WholeGap
<1> QED
    BY <1>1, <1>2

LEMMA WithinFrame ==
    ASSUME NEW a \in Nat, NEW d \in 0 .. a % Channels
    PROVE  a - d \in Nat /\ (a - d) \div Channels = a \div Channels
<1>1. PICK q \in Nat, r \in 0 .. Channels - 1 :
          a = q * Channels + r /\ a % Channels = r /\ a \div Channels = q
    BY Divided
<1>2. q * Channels \in Nat
    BY ChannelsAssumption
<1>3. a - d = q * Channels + (r - d) /\ r - d \in 0 .. Channels - 1 /\ a - d \in Nat
    BY <1>1, <1>2, ChannelsAssumption
<1> QED
    BY <1>1, <1>3, DividedOf

-----------------------------------------------------------------------------
\* The packets of the first channels, in their order.
InChannels(f) == f \in Seq(Nat) /\ \A c \in 1 .. Len(f) : ChannelOf(f[c]) = c

Heads == {correct_magdec(correct_gps(s.head, s.ini, s.tz, s.utc), s.ini, s.table) : s \in Setups}
Items == [head : Heads, frames : [1 .. dataNum -> Seq(Nat)]]

ATypes ==
    /\ setup \in Setups
    /\ next \in Nat /\ late \subseteq Nat /\ faults \in Nat /\ clean \in Nat
    /\ j \in 0 .. Channels - 1
    /\ nframeNumber \in Int /\ pframeNumber \in Int
    /\ sumCorr \in [0 .. dataNum - 1 -> Seq(Nat)] /\ ndataNum \in Nat
    /\ batches \in Seq(Items)

Collected ==
    /\ InChannels(comBuf) /\ Len(comBuf) = j
    /\ j > 0 => nframeNumber = FrameOf(comBuf[1])

\* The batch so far: consecutive frames, the last of which is the one before.
FramesFollow ==
    \A i \in 0 .. dataNum - 1 : i < ndataNum =>
        /\ InChannels(sumCorr[i]) /\ Len(sumCorr[i]) = Channels
        /\ FrameOf(sumCorr[i][1]) = pframeNumber - (ndataNum - 1 - i)

\* With an orderly sender only what was lost lies between two packets.
Gaps ==
    setup.inorder =>
        /\ j > 0 => comBuf[j] < next /\ next - 1 - comBuf[j] <= faults
        /\ \A c \in 2 .. Len(comBuf) : WholeGap(comBuf[c - 1], comBuf[c], faults)

\* Once it has seen the beginning of a frame undisturbed, the block collects
\* the packets of this frame.
InStep ==
    clean > next % Channels =>
        /\ j = next % Channels
        /\ \A c \in 1 .. j : comBuf[c] = next - j - 1 + c

LastWhole ==
    clean > Channels /\ next % Channels = 0 =>
        /\ pframeNumber = FrameOf(next - 1)
        /\ ndataNum > 0
        /\ ndataNum <= dataNum => sumCorr[ndataNum - 1] = [c \in 1 .. Channels |-> next - 1 - Channels + c]

\* A batch that is full is the last one that went out, and stays.
Full ==
    ndataNum >= dataNum =>
        batches # <<>> /\ \A i \in 0 .. dataNum - 1 : sumCorr[i] = batches[Len(batches)].frames[i + 1]

AInv == /\ ATypes /\ Collected /\ FramesFollow /\ Gaps /\ InStep /\ LastWhole /\ Full
        /\ BatchConsecutive /\ FramesUnmixed

LEMMA AntennaInit == AInit => AInv
<1> SUFFICES ASSUME AInit PROVE AInv
    OBVIOUS
<1>1. ATypes
    BY ChannelsAssumption DEF AInit, ATypes
<1>2. Collected /\ FramesFollow /\ Gaps /\ FramesUnmixed /\ BatchConsecutive /\ Full
    BY ChannelsAssumption DEF AInit, Collected, FramesFollow, Gaps, FramesUnmixed, BatchConsecutive, InChannels, Full
<1>3. 0 % Channels = 0
    BY ChannelsAssumption
<1>4. InStep /\ LastWhole
    BY <1>3, ChannelsAssumption DEF AInit, InStep, LastWhole
<1> QED
    BY <1>1, <1>2, <1>4 DEF AInv

\* One more packet of a frame.
LEMMA OneMore ==
    ASSUME NEW f, InChannels(f), NEW k \in Nat, ChannelOf(k) = Len(f) + 1
    PROVE  LET g == Append(f, k)
           IN  /\ InChannels(g) /\ Len(g) = Len(f) + 1 /\ g[Len(f) + 1] = k
               /\ \A c \in 1 .. Len(f) : g[c] = f[c] /\ f[c] \in Nat
               /\ Len(f) \in Nat
    BY DEF InChannels

\* What closing a frame makes of the batch.
LEMMA FrameCloses ==
    ASSUME AInv, NEW f, InChannels(f), Len(f) = Channels, NEW n \in Int, n = FrameOf(f[1]),
           setup' = setup, CloseFrame(f, n)
    PROVE  /\ j' = 0 /\ comBuf' = << >> /\ pframeNumber' = n
           /\ ndataNum' \in Nat \ {0}
           /\ sumCorr' \in [0 .. dataNum - 1 -> Seq(Nat)]
           /\ batches' \in Seq(Items)
           /\ FramesFollow' /\ BatchConsecutive' /\ Full'
           /\ ndataNum' <= dataNum => sumCorr'[ndataNum' - 1] = f
           /\ \A i \in 0 .. dataNum - 1 : sumCorr'[i] \in {f, sumCorr[i], << >>}
<1> DEFINE base  == IF Follows(n) THEN [batch |-> sumCorr, n |-> ndataNum] ELSE FreshBatch
           old   == base.batch
           m     == base.n
           batch == [i \in DOMAIN base.batch |-> IF i = base.n THEN f ELSE base.batch[i]]
<1>1. /\ sumCorr' = batch /\ pframeNumber' = n /\ ndataNum' = m + 1
      /\ j' = INIT_j /\ comBuf' = SubSeq(f, 1, j')
      /\ batches' = IF m + 1 = dataNum THEN Append(batches, Corrected(batch)) ELSE batches
    BY DEF CloseFrame
<1>2. j' = 0 /\ comBuf' = << >>
    BY <1>1 DEF INIT_j, InChannels
<1>3. /\ old \in [0 .. dataNum - 1 -> Seq(Nat)] /\ m \in Nat
      /\ \A i \in 0 .. dataNum - 1 : old[i] \in {sumCorr[i], << >>}
      /\ \A i \in 0 .. dataNum - 1 : i < m => Follows(n) /\ old[i] = sumCorr[i] /\ m = ndataNum
  <2>1. CASE Follows(n)
      BY <2>1 DEF AInv, ATypes
  <2>2. CASE ~Follows(n)
      BY <2>2 DEF FreshBatch
  <2> QED
      BY <2>1, <2>2
<1>4. /\ batch \in [0 .. dataNum - 1 -> Seq(Nat)]
      /\ \A i \in 0 .. dataNum - 1 : batch[i] = IF i = m THEN f ELSE old[i]
    BY <1>3 DEF InChannels
<1> HIDE DEF base, old, m, batch
<1>5. \A i \in 0 .. dataNum - 1 : i < m + 1 =>
          /\ InChannels(batch[i]) /\ Len(batch[i]) = Channels
          /\ FrameOf(batch[i][1]) = n - (m - i)
  <2> SUFFICES ASSUME NEW i \in 0 .. dataNum - 1, i < m + 1
               PROVE  /\ InChannels(batch[i]) /\ Len(batch[i]) = Channels
                      /\ FrameOf(batch[i][1]) = n - (m - i)
      OBVIOUS
  <2>1. CASE i = m
      BY <1>3, <1>4, <2>1
  <2>2. CASE i # m
    <3>1. i < m
        BY <1>3, <2>2
    <3>2. batch[i] = sumCorr[i] /\ m = ndataNum /\ n - pframeNumber = 1
        BY <1>3, <1>4, <2>2, <3>1 DEF Follows
    <3>3. /\ InChannels(sumCorr[i]) /\ Len(sumCorr[i]) = Channels
          /\ FrameOf(sumCorr[i][1]) = pframeNumber - (ndataNum - 1 - i)
        BY <3>1, <3>2 DEF AInv, FramesFollow
    <3>4. pframeNumber \in Int /\ ndataNum \in Nat
        BY DEF AInv, ATypes
    <3> QED
        BY <3>2, <3>3, <3>4, SMTT(20)
  <2> QED
      BY <2>1, <2>2
<1>6. FramesFollow'
    BY <1>1, <1>3, <1>5 DEF FramesFollow, FrameOf
<1>7. ndataNum' \in Nat \ {0} /\ (ndataNum' <= dataNum => sumCorr'[ndataNum' - 1] = f)
    BY <1>1, <1>3, <1>4, ChannelsAssumption
<1>8. batches' \in Seq(Items) /\ BatchConsecutive'
  <2>0. BatchConsecutive /\ batches \in Seq(Items) /\ setup \in Setups
      BY DEF AInv, ATypes
  <2>1. CASE m + 1 # dataNum
      BY <1>1, <2>0, <2>1 DEF BatchConsecutive, FrameOf
  <2>2. CASE m + 1 = dataNum
    <3> DEFINE x == Corrected(batch)
    <3>1. x \in Items /\ x.frames = [i \in 1 .. dataNum |-> batch[i - 1]]
        BY <1>4, <2>0, ChannelsAssumption DEF Corrected, Items, Heads
    <3> HIDE DEF x
    <3>2. ASSUME NEW i \in 1 .. dataNum
          PROVE  LET g == x.frames[i]
                 IN  /\ [c \in DOMAIN g |-> ChannelOf(g[c])] = [c \in 1 .. Channels |-> c]
                     /\ i > 1 => FrameOf(g[1]) = FrameOf(x.frames[i - 1][1]) + 1
      <4>1. x.frames[i] = batch[i - 1] /\ i - 1 \in 0 .. dataNum - 1 /\ i - 1 < m + 1
          BY <1>3, <2>2, <3>1, <3>2, ChannelsAssumption, SMTT(20)
      <4>2. i > 1 => x.frames[i - 1] = batch[i - 2] /\ i - 2 \in 0 .. dataNum - 1 /\ i - 2 < m + 1
        <5> SUFFICES ASSUME i > 1
                     PROVE  x.frames[i - 1] = batch[i - 2] /\ i - 2 \in 0 .. dataNum - 1 /\ i - 2 < m + 1
            OBVIOUS
        <5>1. /\ i - 1 \in 1 .. dataNum /\ (i - 1) - 1 = i - 2
              /\ i - 2 \in 0 .. dataNum - 1 /\ i - 2 < m + 1
            BY <1>3, <2>2, ChannelsAssumption
        <5>2. x.frames[i - 1] = batch[(i - 1) - 1]
            BY <3>1, <5>1
        <5> QED
            BY <5>1, <5>2
      <4>3. i > 1 => FrameOf(batch[i - 1][1]) = n - (m - (i - 1)) /\ FrameOf(batch[i - 2][1]) = n - (m - (i - 2))
          BY <1>5, <4>1, <4>2
      <4>4. InChannels(batch[i - 1]) /\ Len(batch[i - 1]) = Channels
          BY <1>5, <4>1
      <4>5. [c \in DOMAIN batch[i - 1] |-> ChannelOf(batch[i - 1][c])] = [c \in 1 .. Channels |-> c]
        <5> DEFINE g == batch[i - 1]
        <5>1. DOMAIN g = 1 .. Channels /\ \A c \in 1 .. Channels : ChannelOf(g[c]) = c
            BY <4>4 DEF InChannels
        <5> HIDE DEF g
        <5>2. [c \in DOMAIN g |-> ChannelOf(g[c])] = [c \in 1 .. Channels |-> c]
            BY <5>1
        <5> QED
            BY <5>2 DEF g
      <4> QED
          BY <1>3, <4>1, <4>2, <4>3, <4>5
    <3>3. batches' = Append(batches, x)
        BY <1>1, <2>2 DEF x
    <3>4. /\ batches' \in Seq(Items) /\ DOMAIN batches' = 1 .. Len(batches) + 1
          /\ batches'[Len(batches) + 1] = x
          /\ \A b \in 1 .. Len(batches) : batches'[b] = batches[b]
          /\ DOMAIN batches = 1 .. Len(batches) /\ Len(batches) \in Nat
        BY <2>0, <3>1, <3>3
    <3> SUFFICES ASSUME NEW b \in 1 .. Len(batches) + 1, NEW i \in 1 .. dataNum
                 PROVE  LET g == batches'[b].frames[i]
                        IN  /\ [c \in DOMAIN g |-> ChannelOf(g[c])] = [c \in 1 .. Channels |-> c]
                            /\ i > 1 => FrameOf(g[1]) = FrameOf(batches'[b].frames[i - 1][1]) + 1
        BY <3>4 DEF BatchConsecutive, FrameOf
    <3>5. CASE b \in 1 .. Len(batches)
        <4>1. batches'[b] = batches[b] /\ b \in DOMAIN batches
            BY <3>4, <3>5
        <4>2. LET g == batches[b].frames[i]
              IN  /\ [c \in DOMAIN g |-> ChannelOf(g[c])] = [c \in 1 .. Channels |-> c]
                  /\ i > 1 => FrameOf(g[1]) = FrameOf(batches[b].frames[i - 1][1]) + 1
            BY <2>0, <4>1 DEF BatchConsecutive
        <4> QED
            BY <4>1, <4>2
    <3>6. CASE b = Len(batches) + 1
        BY <3>2, <3>4, <3>6
    <3> QED
        BY <3>4, <3>5, <3>6
  <2> QED
      BY <2>1, <2>2
<1>9. \A i \in 0 .. dataNum - 1 : sumCorr'[i] \in {f, sumCorr[i], << >>}
    BY <1>1, <1>3, <1>4
<1>10. Full'
  <2>0. Full /\ batches \in Seq(Items) /\ setup \in Setups
      BY DEF AInv, ATypes
  <2>1. CASE m + 1 # dataNum
    <3> SUFFICES ASSUME ndataNum' >= dataNum
                 PROVE  batches' # <<>> /\ \A i \in 0 .. dataNum - 1 : sumCorr'[i] = batches'[Len(batches')].frames[i + 1]
        BY DEF Full
    <3>1. m >= dataNum
        BY <1>1, <1>3, <2>1, ChannelsAssumption
    <3>2. 0 \in 0 .. dataNum - 1 /\ 0 < m
        BY <1>3, <3>1, ChannelsAssumption
    <3>3. m = ndataNum
        BY <1>3, <3>2
    <3>4. \A i \in 0 .. dataNum - 1 : batch[i] = sumCorr[i]
        BY <1>3, <1>4, <3>1, ChannelsAssumption
    <3>5. batches' = batches /\ sumCorr' = batch
        BY <1>1, <2>1
    <3> QED
        BY <2>0, <3>1, <3>3, <3>4, <3>5 DEF Full
  <2>2. CASE m + 1 = dataNum
    <3> DEFINE x == Corrected(batch)
    <3>1. x.frames = [i \in 1 .. dataNum |-> batch[i - 1]]
        BY DEF Corrected
    <3>2. x \in Items
        BY <1>4, <2>0, <3>1, ChannelsAssumption DEF Corrected, Items, Heads
    <3> HIDE DEF x
    <3>3. batches' = Append(batches, x) /\ sumCorr' = batch
        BY <1>1, <2>2 DEF x
    <3>4. batches' # <<>> /\ batches'[Len(batches')] = x
        BY <2>0, <3>2, <3>3
    <3>5. \A i \in 0 .. dataNum - 1 : i + 1 \in 1 .. dataNum /\ (i + 1) - 1 = i
        BY ChannelsAssumption
    <3>6. \A i \in 0 .. dataNum - 1 : x.frames[i + 1] = batch[i]
        BY <3>1, <3>5
    <3> QED
        BY <3>3, <3>4, <3>6 DEF Full
  <2> QED
      BY <2>1, <2>2
<1> QED
    BY <1>1, <1>2, <1>4, <1>6, <1>7, <1>8, <1>9, <1>10

\* The step that takes packet k in: what general_work does with it, whatever
\* became of the sender's counters.
LEMMA Received ==
    ASSUME AInv, NEW k \in Nat, func_run(k), setup' = setup
    PROVE  /\ j' \in 0 .. Channels - 1 /\ nframeNumber' \in Int /\ pframeNumber' \in Int
           /\ sumCorr' \in [0 .. dataNum - 1 -> Seq(Nat)] /\ ndataNum' \in Nat
           /\ batches' \in Seq(Items)
           /\ Collected' /\ FramesFollow' /\ BatchConsecutive' /\ Full'
           /\ j' > 0 => /\ j' = j + 1 /\ ChannelOf(k) = j' /\ comBuf'[j'] = k
                        /\ \A c \in 1 .. j : comBuf'[c] = comBuf[c]
           /\ Wanted(k) /\ j + 1 # Channels => j' = j + 1
           /\ Wanted(k) /\ j + 1 = Channels =>
                 /\ pframeNumber' = IF j = 0 THEN FrameOf(k) ELSE FrameOf(comBuf[1])
                 /\ ndataNum' > 0
                 /\ ndataNum' <= dataNum => sumCorr'[ndataNum' - 1] = Append(comBuf, k)
           /\ \A i \in 0 .. dataNum - 1 :
                 \/ sumCorr'[i] \in {sumCorr[i], << >>}
                 \/ Wanted(k) /\ j + 1 = Channels /\ sumCorr'[i] = Append(comBuf, k)
<1>0. /\ InChannels(comBuf) /\ Len(comBuf) = j /\ j \in 0 .. Channels - 1
      /\ j > 0 => nframeNumber = FrameOf(comBuf[1])
      /\ setup \in Setups /\ nframeNumber \in Int /\ pframeNumber \in Int
      /\ sumCorr \in [0 .. dataNum - 1 -> Seq(Nat)] /\ ndataNum \in Nat /\ batches \in Seq(Items)
      /\ FramesFollow /\ BatchConsecutive /\ Full
    BY DEF AInv, ATypes, Collected
<1>1. CASE ~Wanted(k)
  <2>1. /\ j' = 0 /\ comBuf' = << >>
        /\ UNCHANGED <<nframeNumber, pframeNumber, sumCorr, ndataNum, batches>>
      BY <1>0, <1>1 DEF func_run, GiveUp, INIT_j, InChannels
  <2>2. Collected' /\ FramesFollow' /\ BatchConsecutive' /\ Full'
      BY <1>0, <2>1 DEF Collected, InChannels, FramesFollow, BatchConsecutive, FrameOf, Full
  <2> QED
      BY <1>0, <1>1, <2>1, <2>2, ChannelsAssumption
<1>2. CASE Wanted(k)
  <2> DEFINE f == Append(comBuf, k)
             n == IF j = 0 THEN FrameOf(k) ELSE nframeNumber
  <2>1. /\ nframeNumber' = n
        /\ j + 1 = Channels => CloseFrame(f, n)
        /\ j + 1 # Channels => /\ j' = j + 1 /\ comBuf' = f
                               /\ UNCHANGED <<sumCorr, ndataNum, pframeNumber, batches>>
      BY <1>2 DEF func_run, Collect
  <2>2. /\ InChannels(f) /\ Len(f) = j + 1 /\ f[j + 1] = k
        /\ \A c \in 1 .. j : f[c] = comBuf[c] /\ comBuf[c] \in Nat
        /\ ChannelOf(k) = j + 1
      BY <1>0, <1>2, OneMore DEF Wanted
  <2>3. \A i \in Nat : FrameOf(i) \in Int
    <3>1. setup.first \in Nat
        BY <1>0, SetupsAssumption
    <3>2. \A i \in Nat : i \div Channels \in Nat
        BY Divided
    <3> QED
        BY <3>1, <3>2 DEF FrameOf
  <2>4. n \in Int /\ n = FrameOf(f[1]) /\ n = (IF j = 0 THEN FrameOf(k) ELSE FrameOf(comBuf[1]))
      BY <1>0, <2>2, <2>3
  <2> HIDE DEF f, n
  <2>5. CASE j + 1 # Channels
    <3>1. Collected'
        BY <1>0, <2>1, <2>2, <2>4, <2>5 DEF Collected, InChannels, FrameOf, ChannelOf
    <3>2. FramesFollow' /\ BatchConsecutive' /\ Full'
        BY <1>0, <2>1, <2>5 DEF FramesFollow, BatchConsecutive, FrameOf, Full
    <3>3. /\ j' \in 0 .. Channels - 1 /\ nframeNumber' \in Int /\ pframeNumber' \in Int
          /\ sumCorr' \in [0 .. dataNum - 1 -> Seq(Nat)] /\ ndataNum' \in Nat
          /\ batches' \in Seq(Items)
        BY <1>0, <2>1, <2>4, <2>5, ChannelsAssumption
    <3>4. /\ j' = j + 1 /\ ChannelOf(k) = j' /\ comBuf'[j'] = k
          /\ \A c \in 1 .. j : comBuf'[c] = comBuf[c]
        BY <2>1, <2>2, <2>5
    <3>5. \A i \in 0 .. dataNum - 1 : sumCorr'[i] = sumCorr[i]
        BY <2>1, <2>5
    <3> QED
        BY <2>5, <3>1, <3>2, <3>3, <3>4, <3>5, Zenon
  <2>6. CASE j + 1 = Channels
    <3>1. /\ j' = 0 /\ comBuf' = << >> /\ pframeNumber' = n
          /\ ndataNum' \in Nat \ {0}
          /\ sumCorr' \in [0 .. dataNum - 1 -> Seq(Nat)]
          /\ batches' \in Seq(Items)
          /\ FramesFollow' /\ BatchConsecutive' /\ Full'
          /\ ndataNum' <= dataNum => sumCorr'[ndataNum' - 1] = f
          /\ \A i \in 0 .. dataNum - 1 : sumCorr'[i] \in {f, sumCorr[i], << >>}
        BY <2>1, <2>2, <2>4, <2>6, FrameCloses
    <3>2. Collected'
        BY <3>1 DEF Collected, InChannels
    <3>3. /\ j' \in 0 .. Channels - 1 /\ ~(j' > 0) /\ nframeNumber' \in Int /\ pframeNumber' \in Int
          /\ ndataNum' \in Nat /\ ndataNum' > 0
          /\ pframeNumber' = IF j = 0 THEN FrameOf(k) ELSE FrameOf(comBuf[1])
        BY <2>1, <2>4, <3>1, ChannelsAssumption
    <3>4. /\ ndataNum' <= dataNum => sumCorr'[ndataNum' - 1] = Append(comBuf, k)
          /\ \A i \in 0 .. dataNum - 1 :
                \/ sumCorr'[i] \in {sumCorr[i], << >>}
                \/ Wanted(k) /\ j + 1 = Channels /\ sumCorr'[i] = Append(comBuf, k)
        BY <1>2, <2>6, <3>1 DEF f
    <3> QED
        BY <2>6, <3>1, <3>2, <3>3, <3>4, Zenon
  <2> QED
      BY <2>5, <2>6
<1> QED
    BY <1>1, <1>2

\* More losses never undo it.
LEMMA GapLasts ==
    ASSUME NEW a \in Nat, NEW b \in Nat, NEW m \in Nat, NEW n \in Nat, m <= n, WholeGap(a, b, m)
    PROVE  WholeGap(a, b, n)
<1>1. Channels \in Nat
    BY ChannelsAssumption
<1> QED
    BY <1>1 DEF WholeGap

LEMMA ArriveKeeps ==
    ASSUME AInv, NEW k \in Nat, Arrive(k)
    PROVE  AInv'
<1>0. /\ setup' = setup /\ setup \in Setups /\ func_run(k) /\ next \in Nat /\ clean \in Nat /\ faults \in Nat
      /\ late \subseteq Nat
      /\ Collected /\ Gaps /\ InStep /\ FramesUnmixed /\ j \in 0 .. Channels - 1
    BY DEF AInv, ATypes, Arrive
<1>1. /\ j' \in 0 .. Channels - 1 /\ nframeNumber' \in Int /\ pframeNumber' \in Int
      /\ sumCorr' \in [0 .. dataNum - 1 -> Seq(Nat)] /\ ndataNum' \in Nat
      /\ batches' \in Seq(Items)
      /\ Collected' /\ FramesFollow' /\ BatchConsecutive' /\ Full'
      /\ j' > 0 => /\ j' = j + 1 /\ ChannelOf(k) = j' /\ comBuf'[j'] = k
                   /\ \A c \in 1 .. j : comBuf'[c] = comBuf[c]
      /\ Wanted(k) /\ j + 1 # Channels => j' = j + 1
      /\ Wanted(k) /\ j + 1 = Channels =>
            /\ pframeNumber' = IF j = 0 THEN FrameOf(k) ELSE FrameOf(comBuf[1])
            /\ ndataNum' > 0
            /\ ndataNum' <= dataNum => sumCorr'[ndataNum' - 1] = Append(comBuf, k)
      /\ \A i \in 0 .. dataNum - 1 :
            \/ sumCorr'[i] \in {sumCorr[i], << >>}
            \/ Wanted(k) /\ j + 1 = Channels /\ sumCorr'[i] = Append(comBuf, k)
    BY <1>0, Received, Zenon
<1>2. /\ next' \in Nat /\ late' \subseteq Nat /\ faults' \in Nat /\ faults' >= faults /\ clean' \in Nat
      /\ \/ k = next /\ next' = next + 1 /\ clean' = clean + 1 /\ faults' = faults
         \/ ~setup.inorder /\ clean' = 0
  <2>1. CASE k = next /\ next' = next + 1 /\ late' = late /\ clean' = clean + 1 /\ faults' = faults
      BY <1>0, <2>1
  <2>2. CASE k \in late /\ ~setup.inorder /\ late' = late \ {k} /\ clean' = 0 /\ UNCHANGED <<next, faults>>
      BY <1>0, <2>2
  <2>3. CASE ~setup.inorder /\ faults' = faults + 1 /\ clean' = 0 /\ UNCHANGED <<next, late>>
      BY <1>0, <2>3
  <2> QED
      BY <2>1, <2>2, <2>3 DEF Arrive
<1>3. ATypes'
    BY <1>0, <1>1, <1>2 DEF ATypes
<1>4. /\ InChannels(comBuf) /\ Len(comBuf) = j
      /\ Wanted(k) => InChannels(Append(comBuf, k)) /\ Len(Append(comBuf, k)) = j + 1
                      /\ Append(comBuf, k)[j + 1] = k
                      /\ \A c \in 1 .. j : Append(comBuf, k)[c] = comBuf[c] /\ comBuf[c] \in Nat
    BY <1>0, OneMore DEF Collected, Wanted
\* A packet that fits, from an orderly sender.
<1>5. setup.inorder /\ Wanted(k) =>
          \A c \in 2 .. j + 1 : WholeGap(Append(comBuf, k)[c - 1], Append(comBuf, k)[c], faults)
  <2> SUFFICES ASSUME setup.inorder, Wanted(k), NEW c \in 2 .. j + 1
               PROVE  WholeGap(Append(comBuf, k)[c - 1], Append(comBuf, k)[c], faults)
      OBVIOUS
  <2>0. j \in Nat /\ j > 0 /\ c - 1 \in 1 .. j
      BY <1>0, ChannelsAssumption
  <2>1. CASE c \in 2 .. j
    <3>1. Append(comBuf, k)[c - 1] = comBuf[c - 1] /\ Append(comBuf, k)[c] = comBuf[c]
        BY <1>4, <2>0, <2>1
    <3>2. WholeGap(comBuf[c - 1], comBuf[c], faults)
        BY <1>0, <1>4, <2>1 DEF Gaps
    <3> QED
        BY <3>1, <3>2
  <2>2. CASE c = j + 1
    <3>1. k = next /\ comBuf[j] < next /\ next - 1 - comBuf[j] <= faults
        BY <1>0, <1>2, <2>0 DEF Gaps
    <3>2. comBuf[j] \in Nat /\ ChannelOf(comBuf[j]) = j /\ ChannelOf(k) = j + 1
        BY <1>0, <1>4, <2>0 DEF InChannels, Wanted
    <3>3. comBuf[j] % Channels = j - 1 /\ k % Channels = j
        BY <1>0, <3>2, Divided, ChannelsAssumption DEF ChannelOf
    <3>4. j \in 1 .. Channels - 1
        BY <1>0, <2>0
    <3>5. WholeGap(comBuf[j], k, faults)
        BY <1>0, <3>1, <3>2, <3>3, <3>4, NextOrGap
    <3>6. Append(comBuf, k)[c - 1] = comBuf[j] /\ Append(comBuf, k)[c] = k
        BY <1>4, <2>0, <2>2
    <3> QED
        BY <3>5, <3>6
  <2>3. c \in 2 .. j \/ c = j + 1
      BY <2>0
  <2> QED
      BY <2>1, <2>2, <2>3
<1>6. Gaps'
  <2>1. ASSUME setup.inorder, j' > 0
        PROVE  comBuf'[j'] < next' /\ next' - 1 - comBuf'[j'] <= faults'
      BY <1>0, <1>1, <1>2, <2>1
  <2>2. ASSUME setup.inorder, NEW c \in 2 .. Len(comBuf')
        PROVE  WholeGap(comBuf'[c - 1], comBuf'[c], faults')
    <3>1. Len(comBuf') = j' /\ j' > 0
        BY <1>1, <2>2 DEF Collected, InChannels
    <3>2. Wanted(k) /\ j' = j + 1
        BY <1>0, <1>1, <3>1, ChannelsAssumption DEF Wanted
    <3>3. \A d \in 1 .. j + 1 : comBuf'[d] = Append(comBuf, k)[d]
      <4>1. \A d \in 1 .. j + 1 : d \in 1 .. j \/ d = j + 1
          BY <1>0
      <4> QED
          BY <1>1, <1>4, <3>1, <3>2, <4>1
    <3>4. c \in 2 .. j + 1 /\ c - 1 \in 1 .. j + 1 /\ c \in 1 .. j + 1
        BY <1>0, <2>2, <3>1, <3>2
    <3>5. comBuf'[c] = Append(comBuf, k)[c] /\ comBuf'[c - 1] = Append(comBuf, k)[c - 1]
        BY <3>3, <3>4
    <3>6. WholeGap(Append(comBuf, k)[c - 1], Append(comBuf, k)[c], faults)
        BY <1>5, <2>2, <3>2, <3>4
    <3>7. Append(comBuf, k)[c] \in Nat /\ Append(comBuf, k)[c - 1] \in Nat
        BY <1>4, <3>2, <3>4 DEF InChannels
    <3> QED
        BY <1>0, <1>2, <3>5, <3>6, <3>7, GapLasts
  <2> QED
      BY <1>0, <2>1, <2>2 DEF Gaps
<1>7. FramesUnmixed'
  <2> SUFFICES ASSUME setup.inorder, NEW i \in 0 .. dataNum - 1, NEW c \in 2 .. Len(sumCorr'[i])
               PROVE  WholeGap(sumCorr'[i][c - 1], sumCorr'[i][c], faults')
      BY <1>0, <1>1 DEF FramesUnmixed
  <2>0. sumCorr'[i] \in Seq(Nat)
      BY <1>1
  <2>1. sumCorr'[i][c - 1] \in Nat /\ sumCorr'[i][c] \in Nat
      BY <2>0
  <2>2. CASE sumCorr'[i] = sumCorr[i]
    <3>1. WholeGap(sumCorr[i][c - 1], sumCorr[i][c], faults)
        BY <1>0, <2>2 DEF FramesUnmixed, AInv, ATypes
    <3> QED
        BY <1>0, <1>2, <2>1, <2>2, <3>1, GapLasts
  <2>3. CASE sumCorr'[i] = << >>
      BY <2>3
  <2>4. CASE Wanted(k) /\ j + 1 = Channels /\ sumCorr'[i] = Append(comBuf, k)
    <3>1. c \in 2 .. j + 1
        BY <1>4, <2>4 DEF InChannels
    <3>2. WholeGap(Append(comBuf, k)[c - 1], Append(comBuf, k)[c], faults)
        BY <1>5, <2>4, <3>1
    <3> QED
        BY <1>0, <1>2, <2>1, <2>4, <3>2, GapLasts
  <2> QED
      BY <1>1, <2>2, <2>3, <2>4
\* In a row of packets that arrive in order.
<1>8. next % Channels \in 0 .. Channels - 1
    BY <1>0, Divided
<1>9. ASSUME clean > next % Channels, k = next
      PROVE  Wanted(k) /\ j = next % Channels /\ \A c \in 1 .. j + 1 : Append(comBuf, k)[c] = next - j - 1 + c
  <2>1. j = next % Channels /\ \A c \in 1 .. j : comBuf[c] = next - j - 1 + c
      BY <1>0, <1>9 DEF InStep
  <2>2. Wanted(k)
      BY <1>9, <2>1 DEF Wanted, ChannelOf
  <2> QED
      BY <1>0, <1>4, <1>9, <2>1, <2>2
<1>10. InStep'
  <2> SUFFICES ASSUME clean' > next' % Channels
               PROVE  j' = next' % Channels /\ \A c \in 1 .. j' : comBuf'[c] = next' - j' - 1 + c
      BY DEF InStep
  <2>1. k = next /\ next' = next + 1 /\ clean' = clean + 1
      BY <1>2, Divided
  <2>2. CASE next % Channels = Channels - 1
    <3>1. next' % Channels = 0
        BY <1>0, <2>1, <2>2, NextChannel
    <3>2. j' = 0
      <4> SUFFICES ASSUME j' > 0 PROVE FALSE
          BY <1>1
      <4>1. j' = (next % Channels) + 1
          BY <1>1, <2>1 DEF ChannelOf
      <4> QED
          BY <1>1, <2>2, <4>1, ChannelsAssumption
    <3> QED
        BY <3>1, <3>2
  <2>3. CASE next % Channels # Channels - 1
    <3>1. next' % Channels = (next % Channels) + 1
        BY <1>0, <2>1, <2>3, NextChannel
    <3>2. clean > next % Channels
        BY <1>0, <1>8, <2>1, <3>1
    <3>3. Wanted(k) /\ j = next % Channels /\ \A c \in 1 .. j + 1 : Append(comBuf, k)[c] = next - j - 1 + c
        BY <1>9, <2>1, <3>2
    <3>4. j' = j + 1
      <4>1. j + 1 # Channels
          BY <1>0, <1>8, <2>3, <3>3, ChannelsAssumption
      <4> QED
          BY <1>1, <3>3, <4>1
    <3>5. \A c \in 1 .. j' : comBuf'[c] = Append(comBuf, k)[c]
      <4>1. j' > 0 /\ \A d \in 1 .. j + 1 : d \in 1 .. j \/ d = j + 1
          BY <1>0, <3>4
      <4> QED
          BY <1>1, <1>4, <3>3, <3>4, <4>1
    <3>6. j' = next' % Channels
        BY <3>1, <3>3, <3>4
    <3>7. next' - j' = next - j
        BY <1>0, <2>1, <3>4
    <3>8. \A c \in 1 .. j' : comBuf'[c] = next - j - 1 + c
        BY <3>3, <3>4, <3>5
    <3> QED
        BY <3>6, <3>7, <3>8
  <2> QED
      BY <2>2, <2>3
<1>11. LastWhole'
  <2> SUFFICES ASSUME clean' > Channels, next' % Channels = 0
               PROVE  /\ pframeNumber' = FrameOf(next' - 1)
                      /\ ndataNum' > 0
                      /\ ndataNum' <= dataNum =>
                            sumCorr'[ndataNum' - 1] = [c \in 1 .. Channels |-> next' - 1 - Channels + c]
      BY <1>0 DEF LastWhole, FrameOf
  <2>1. k = next /\ next' = next + 1 /\ clean' = clean + 1
      BY <1>2, ChannelsAssumption
  <2>2. next % Channels = Channels - 1
      BY <1>0, <1>8, <2>1, NextChannel
  <2>3. clean > next % Channels
      BY <1>0, <2>1, <2>2, ChannelsAssumption
  <2>4. /\ Wanted(k) /\ j = Channels - 1 /\ j + 1 = Channels
        /\ \A c \in 1 .. Channels : Append(comBuf, k)[c] = next - Channels + c
    <3>1. Wanted(k) /\ j = next % Channels /\ \A c \in 1 .. j + 1 : Append(comBuf, k)[c] = next - j - 1 + c
        BY <1>9, <2>1, <2>3
    <3>2. j = Channels - 1 /\ j + 1 = Channels /\ next - j - 1 = next - Channels
        BY <1>0, <2>2, <3>1, ChannelsAssumption
    <3> QED
        BY <3>1, <3>2
  <2>5. pframeNumber' = FrameOf(next)
    <3>1. CASE j = 0
        BY <1>1, <2>1, <2>4, <3>1
    <3>2. CASE j > 0
      <4>1. comBuf[1] = next - j
          BY <1>0, <1>4, <2>4, <3>2, ChannelsAssumption
      <4>2. comBuf[1] \div Channels = next \div Channels
          BY <1>0, <2>2, <2>4, <4>1, WithinFrame
      <4> QED
          BY <1>1, <2>4, <3>2, <4>2 DEF FrameOf
    <3> QED
        BY <1>0, <3>1, <3>2
  <2>6. Append(comBuf, k) = [c \in 1 .. Channels |-> next - Channels + c]
    <3> DEFINE f == Append(comBuf, k)
    <3>1. f \in Seq(Nat) /\ Len(f) = Channels
        BY <1>4, <2>4 DEF InChannels
    <3>2. \A c \in 1 .. Channels : f[c] = next - Channels + c
        BY <2>4
    <3> HIDE DEF f
    <3>3. f = [c \in 1 .. Channels |-> next - Channels + c]
        BY <3>1, <3>2
    <3> QED
        BY <3>3 DEF f
  <2>7. [c \in 1 .. Channels |-> next - Channels + c] = [c \in 1 .. Channels |-> next' - 1 - Channels + c]
      BY <1>0, <2>1, ChannelsAssumption
  <2>8. next' - 1 = next
      BY <1>0, <2>1
  <2> QED
      BY <1>1, <2>4, <2>5, <2>6, <2>7, <2>8
<1> QED
    BY <1>1, <1>3, <1>6, <1>7, <1>10, <1>11 DEF AInv

LEMMA AntennaNext == AInv /\ [ANext]_avars => AInv'
<1> SUFFICES ASSUME AInv, [ANext]_avars PROVE AInv'
    OBVIOUS
<1>1. CASE UNCHANGED avars
  <2>1. UNCHANGED <<setup, next, late, faults, clean, j, comBuf, nframeNumber, pframeNumber, sumCorr,
                    ndataNum, batches>>
      BY <1>1 DEF avars
  <2>2. ATypes'
      BY <2>1 DEF AInv, ATypes
  <2>3. Collected'
      BY <2>1 DEF AInv, Collected, FrameOf
  <2>4. FramesFollow' /\ BatchConsecutive'
      BY <2>1 DEF AInv, FramesFollow, BatchConsecutive, FrameOf
  <2>5. Gaps' /\ FramesUnmixed'
      BY <2>1 DEF AInv, Gaps, FramesUnmixed
  <2>6. InStep' /\ LastWhole'
      BY <2>1 DEF AInv, InStep, LastWhole, FrameOf
  <2>7. Full'
      BY <2>1 DEF AInv, Full
  <2> QED
      BY <2>2, <2>3, <2>4, <2>5, <2>6, <2>7 DEF AInv
<1>2. ASSUME NEW k \in Datagrams, Arrive(k) PROVE AInv'
  <2>1. k \in Nat
      BY SetupsAssumption, ChannelsAssumption DEF Datagrams, AInv, ATypes
  <2> QED
      BY <1>2, <2>1, ArriveKeeps
\* A packet that never gets here.
<1>3. ASSUME Overtaken \/ Damaged PROVE AInv'
  <2>1. /\ next' = next + 1 /\ faults' = faults + 1 /\ clean' = 0 /\ late' \subseteq late \cup {next}
        /\ UNCHANGED <<setup, j, comBuf, nframeNumber, pframeNumber, sumCorr, ndataNum, batches>>
      BY <1>3 DEF Overtaken, Damaged
  <2>2. ATypes /\ Collected /\ FramesFollow /\ Gaps /\ BatchConsecutive /\ FramesUnmixed /\ Full
      BY DEF AInv
  <2>3. next' % Channels \in 0 .. Channels - 1 /\ next \in Nat /\ faults \in Nat
    <3>1. next' \in Nat /\ next \in Nat /\ faults \in Nat
        BY <2>1, <2>2 DEF ATypes
    <3> QED
        BY <3>1, Divided
  <2>3a. faults \in Nat /\ faults' \in Nat /\ faults <= faults'
      BY <2>1, <2>3
  <2>4. ATypes'
      BY <2>1, <2>2 DEF ATypes
  <2>5. Collected' /\ FramesFollow' /\ BatchConsecutive' /\ Full'
      BY <2>1, <2>2 DEF Collected, FramesFollow, BatchConsecutive, FrameOf, Full
  <2>6. FramesUnmixed'
    <3> SUFFICES ASSUME setup.inorder, NEW i \in 0 .. dataNum - 1, NEW c \in 2 .. Len(sumCorr[i])
                 PROVE  WholeGap(sumCorr[i][c - 1], sumCorr[i][c], faults')
        BY <2>1, <2>2 DEF FramesUnmixed, ATypes
    <3>1. sumCorr[i] \in Seq(Nat)
        BY <2>2 DEF ATypes
    <3>2. sumCorr[i][c - 1] \in Nat /\ sumCorr[i][c] \in Nat
        BY <3>1
    <3>3. WholeGap(sumCorr[i][c - 1], sumCorr[i][c], faults)
        BY <2>2 DEF FramesUnmixed, ATypes
    <3> QED
        BY <2>3a, <3>2, <3>3, GapLasts
  <2>7. Gaps'
    <3>1. j > 0 => comBuf[j] \in Nat
        BY <2>2 DEF Collected, InChannels, ATypes
    <3>2. ASSUME setup.inorder, NEW c \in 2 .. Len(comBuf)
          PROVE  WholeGap(comBuf[c - 1], comBuf[c], faults')
      <4>1. comBuf[c - 1] \in Nat /\ comBuf[c] \in Nat
          BY <2>2 DEF Collected, InChannels
      <4>2. WholeGap(comBuf[c - 1], comBuf[c], faults)
          BY <2>2, <3>2 DEF Gaps
      <4> QED
          BY <2>3a, <4>1, <4>2, GapLasts
    <3>3. setup.inorder /\ j > 0 => comBuf[j] < next' /\ next' - 1 - comBuf[j] <= faults'
        BY <2>1, <2>2, <2>3, <3>1 DEF Gaps
    <3> QED
        BY <2>1, <3>2, <3>3 DEF Gaps
  <2>8. InStep' /\ LastWhole'
      BY <2>1, <2>3, ChannelsAssumption DEF InStep, LastWhole
  <2> QED
      BY <2>4, <2>5, <2>6, <2>7, <2>8 DEF AInv
<1> QED
    BY <1>1, <1>2, <1>3 DEF ANext

LEMMA AntennaImplies == AInv => BatchesSound
<1> SUFFICES ASSUME AInv PROVE Resynchronised
    BY DEF AInv, BatchesSound
<1> SUFFICES ASSUME clean >= 2 * Channels, next % Channels = 0
             PROVE  /\ j = 0 /\ pframeNumber = FrameOf(next - 1)
                    /\ \/ /\ ndataNum \in 1 .. dataNum
                          /\ sumCorr[ndataNum - 1] = [c \in 1 .. Channels |-> next - 1 - Channels + c]
                       \/ Overfull
    BY DEF Resynchronised
<1>0. clean > Channels /\ clean > 0
    BY ChannelsAssumption DEF AInv, ATypes
<1>1. /\ j = 0 /\ pframeNumber = FrameOf(next - 1) /\ ndataNum > 0
      /\ ndataNum <= dataNum => sumCorr[ndataNum - 1] = [c \in 1 .. Channels |-> next - 1 - Channels + c]
    BY <1>0 DEF AInv, InStep, LastWhole
<1>2. ndataNum \in Nat /\ pframeNumber \in Int
    BY DEF AInv, ATypes
<1>3. CASE ndataNum <= dataNum
    BY <1>1, <1>2, <1>3, ChannelsAssumption
<1>4. CASE ndataNum > dataNum
  <2>1. 0 \in 0 .. dataNum - 1 /\ 0 + 1 = 1
      BY ChannelsAssumption
  <2>2. batches # <<>> /\ sumCorr[0] = batches[Len(batches)].frames[0 + 1]
      BY <1>2, <1>4, <2>1, ChannelsAssumption DEF AInv, Full
  <2>3. FrameOf(sumCorr[0][1]) = pframeNumber - (ndataNum - 1 - 0)
      BY <1>1, <2>1 DEF AInv, FramesFollow
  <2>4. Overfull
      BY <1>2, <1>4, <2>1, <2>2, <2>3 DEF Overfull
  <2> QED
      BY <1>1, <2>4
<1> QED
    BY <1>2, <1>3, <1>4, ChannelsAssumption

(* For any number of channels, any length of a batch and any sender, however *)
(* many packets it loses, delays, repeats or damages: the items that go out  *)
(* have consecutive frames; an orderly sender's frames are mixed only over   *)
(* the loss of at least a whole one; and after two frames undisturbed the    *)
(* block has taken the second, which is in the batch unless the frames since *)
(* the last batch have all followed each other.                              *)
THEOREM BatchesAlwaysSound == ASpec => []BatchesSound
<1> QED
    BY AntennaInit, AntennaNext, AntennaImplies, PTL DEF ASpec

-----------------------------------------------------------------------------
(***************************************************************************)
(* tcp_server_sink, for any number of clients and of calls of work.  What is *)
(* needed beyond the properties: d_writing counts each write until its       *)
(* handler has run, a client has one of them at most, and a write that is    *)
(* under way is that of the last call of work.                               *)
(***************************************************************************)

NSpec == NInit /\ [][NNext]_nvars

SENT == [client : Clients, error : BOOLEAN]
NTypes ==
    /\ clients \in [Clients -> {"out", "waiting", "in", "deleted"}]
    /\ heard \in [Clients -> Seq(Nat)] /\ since \in [Clients -> Nat]
    /\ d_buf \in Nat /\ chunks \in Nat /\ d_writing \in Nat
    /\ writes \subseteq Clients /\ done \subseteq SENT
    /\ ending \in {"no", "waiting", "joining", "gone"}

\* The writes counted are those under way and those whose handler is to come, one per client at most.
Counted ==
    /\ IsFiniteSet(writes) /\ IsFiniteSet(done)
    /\ d_writing = Cardinality(writes) + Cardinality(done)
    /\ \A d \in done : d.client \notin writes /\ \A e \in done : e.client = d.client => e = d

\* A client hears one call of work after the other from where it joined: a write under way is that of the last.
InOrderHeard == \A c \in Clients :
    /\ Len(heard[c]) \in Nat
    /\ \A k \in 1 .. Len(heard[c]) : heard[c][k] = since[c] + k
    /\ clients[c] \in {"out", "waiting"} => Len(heard[c]) = 0
    /\ c \in writes => since[c] + Len(heard[c]) + 1 = chunks /\ d_buf = chunks
    /\ (clients[c] = "in" /\ c \notin writes /\ [client |-> c, error |-> TRUE] \notin done) =>
          since[c] + Len(heard[c]) = chunks

Handling ==
    \/ handler = <<"none">>
    \/ \E c \in Clients : handler = <<"accept", c>> /\ clients[c] = "waiting"
    \/ \E d \in done : handler = <<"write", d>>

Ended == ending \in {"joining", "gone"} => writes = {} /\ done = {}

NInv == NTypes /\ Counted /\ NoDeletedSocket /\ InOrderHeard /\ Handling /\ Ended

LEMMA NInitInv == NInit => NInv
<1> SUFFICES ASSUME NInit PROVE NInv
    OBVIOUS
<1>1. PICK first \in Clients \cup {"none"} : clients = [c \in Clients |-> IF c = first THEN "in" ELSE "out"]
    BY DEF NInit
<1>2. /\ heard = [c \in Clients |-> <<>>] /\ since = [c \in Clients |-> 0]
      /\ d_buf = 0 /\ chunks = 0 /\ d_writing = 0 /\ writes = {} /\ done = {}
      /\ handler = <<"none">> /\ ending = "no"
    BY DEF NInit
<1>3. NTypes
    BY <1>1, <1>2 DEF NTypes
<1>4. Counted
    BY <1>2, FS_EmptySet DEF Counted
<1>5. InOrderHeard
    BY <1>1, <1>2 DEF InOrderHeard
<1> QED
    BY <1>2, <1>3, <1>4, <1>5 DEF NInv, NoDeletedSocket, Handling, Ended

\* No write is counted when none is under way and no handler is to come, and only then.
LEMMA NoneCounted ==
    ASSUME NInv, BufferFree
    PROVE  writes = {} /\ done = {}
<1>1. Cardinality(writes) \in Nat /\ Cardinality(done) \in Nat /\ IsFiniteSet(writes) /\ IsFiniteSet(done)
    BY FS_CardinalityType DEF NInv, Counted
<1>2. Cardinality(writes) = 0 /\ Cardinality(done) = 0
    BY <1>1 DEF NInv, Counted, BufferFree
<1> QED
    BY <1>1, <1>2, FS_EmptySet

LEMMA AcceptKeeps ==
    ASSUME NInv, (\E c \in Clients : Connect(c)) \/ BeginHandler \/ do_accept
    PROVE  NInv'
<1> USE DEF NInv
<1>1. CASE \E c \in Clients : Connect(c)
    <2> PICK c \in Clients : Connect(c)
        BY <1>1
    <2>1. /\ clients[c] = "out" /\ clients' = [clients EXCEPT ![c] = "waiting"] 
          /\ UNCHANGED <<heard, since, d_buf, chunks, d_writing, writes, done, handler, ending>>
        BY DEF Connect
    <2>2. clients' \in [Clients -> {"out", "waiting", "in", "deleted"}]
          /\ \A x \in Clients : clients'[x] = IF x = c THEN "waiting" ELSE clients[x]
        BY <2>1 DEF NTypes
    <2>3. NTypes' /\ Counted' /\ Ended'
        BY <2>1, <2>2 DEF NTypes, Counted, Ended
    <2>4. NoDeletedSocket'
        BY <2>1, <2>2 DEF NoDeletedSocket, NTypes, SENT
    <2>5. InOrderHeard'
        BY <2>1, <2>2 DEF InOrderHeard
    <2>6. Handling'
        BY <2>1, <2>2 DEF Handling
    <2> QED
        BY <2>3, <2>4, <2>5, <2>6
<1>2. CASE BeginHandler
    <2>1. /\ ending # "gone" /\ UNCHANGED <<clients, heard, since, d_buf, chunks, d_writing, writes, done, ending>>
          /\ \/ \E c \in Clients : clients[c] = "waiting" /\ handler' = <<"accept", c>>
             \/ \E d \in done : handler' = <<"write", d>>
        BY <1>2 DEF BeginHandler
    <2>2. NTypes' /\ Counted' /\ Ended' /\ NoDeletedSocket' /\ InOrderHeard'
        BY <2>1 DEF NTypes, Counted, Ended, NoDeletedSocket, InOrderHeard
    <2>3. Handling'
        BY <2>1 DEF Handling
    <2> QED
        BY <2>2, <2>3
<1>3. CASE do_accept
    <2>1. PICK c \in Clients : handler = <<"accept", c>> /\ clients[c] = "waiting"
        BY <1>3 DEF do_accept, Handling
    <2>2. /\ clients' = [clients EXCEPT ![c] = "in"] /\ since' = [since EXCEPT ![c] = chunks]
          /\ handler' = <<"none">>
          /\ UNCHANGED <<heard, d_buf, chunks, d_writing, writes, done, ending>>
        BY <1>3, <2>1 DEF do_accept
    <2>3. /\ clients' \in [Clients -> {"out", "waiting", "in", "deleted"}] /\ since' \in [Clients -> Nat]
          /\ \A x \in Clients : clients'[x] = (IF x = c THEN "in" ELSE clients[x])
                /\ since'[x] = IF x = c THEN chunks ELSE since[x]
        BY <2>2 DEF NTypes
    <2>4. NTypes' /\ Counted' /\ Ended'
        BY <2>2, <2>3 DEF NTypes, Counted, Ended
    <2>5. NoDeletedSocket'
        BY <2>2, <2>3 DEF NoDeletedSocket, NTypes, SENT
    <2>6. c \notin writes /\ Len(heard[c]) = 0
        BY <2>1 DEF NoDeletedSocket, InOrderHeard
    <2>7. InOrderHeard'
        <3>1. chunks \in Nat /\ since'[c] + Len(heard[c]) = chunks /\ c \notin writes
            BY <2>3, <2>6 DEF NTypes
        <3>2. \A x \in Clients \ {c} : clients'[x] = clients[x] /\ since'[x] = since[x]
            BY <2>3
        <3>3. heard' = heard /\ writes' = writes /\ done' = done /\ chunks' = chunks /\ d_buf' = d_buf
            BY <2>2
        <3>4. clients'[c] = "in"
            BY <2>3
        <3> DEFINE P(x) ==
                /\ Len(heard[x]) \in Nat
                /\ \A k \in 1 .. Len(heard[x]) : heard[x][k] = since'[x] + k
                /\ clients'[x] \in {"out", "waiting"} => Len(heard[x]) = 0
                /\ x \in writes => since'[x] + Len(heard[x]) + 1 = chunks /\ d_buf = chunks
                /\ (clients'[x] = "in" /\ x \notin writes /\ [client |-> x, error |-> TRUE] \notin done) =>
                      since'[x] + Len(heard[x]) = chunks
        <3>5. P(c)
            BY <2>6, <3>1, <3>4
        <3>6. ASSUME NEW x \in Clients \ {c} PROVE P(x)
            BY <3>2 DEF InOrderHeard
        <3>7. \A x \in Clients : P(x)
            BY <3>5, <3>6
        <3> QED
            BY <3>3, <3>7 DEF InOrderHeard
    <2>8. Handling'
        BY <2>2, <2>3 DEF Handling
    <2> QED
        BY <2>4, <2>5, <2>7, <2>8
<1> QED
    BY <1>1, <1>2, <1>3

LEMMA WriteKeeps ==
    ASSUME NInv, do_write PROVE NInv'
<1> USE DEF NInv
<1>1. PICK d \in done : handler = <<"write", d>>
    BY DEF do_write, Handling
<1>2. /\ d_writing' = d_writing - 1 /\ done' = done \ {d} /\ handler' = <<"none">>
      /\ clients' = IF d.error THEN [clients EXCEPT ![d.client] = "deleted"] ELSE clients
      /\ UNCHANGED <<heard, since, d_buf, chunks, writes, ending>>
    BY <1>1 DEF do_write
<1>3. d.client \in Clients /\ d.error \in BOOLEAN /\ d = [client |-> d.client, error |-> d.error]
    BY DEF NTypes, SENT
<1>4. /\ clients' \in [Clients -> {"out", "waiting", "in", "deleted"}]
      /\ \A x \in Clients : clients'[x] = IF d.error /\ x = d.client THEN "deleted" ELSE clients[x]
    BY <1>2, <1>3 DEF NTypes
<1>5. IsFiniteSet(done') /\ Cardinality(done') = Cardinality(done) - 1 /\ Cardinality(done) \in Nat \ {0}
      /\ Cardinality(writes) \in Nat
    <2>1. IsFiniteSet(done) /\ IsFiniteSet(writes)
        BY DEF Counted
    <2>2. Cardinality(done') \in Nat /\ Cardinality(writes) \in Nat
        BY <1>2, <2>1, FS_RemoveElement, FS_CardinalityType
    <2>3. Cardinality(done) # 0
        BY <2>1, FS_EmptySet
    <2> QED
        BY <1>2, <2>1, <2>2, <2>3, FS_RemoveElement, FS_CardinalityType
<1>6. NTypes'
    <2>1. d_writing' \in Nat
        BY <1>2, <1>5 DEF Counted
    <2> QED
        BY <1>2, <1>4, <2>1 DEF NTypes
<1>7. Counted'
    BY <1>2, <1>5 DEF Counted
<1>8. NoDeletedSocket'
    <2>1. ASSUME NEW c \in writes \cup {e.client : e \in done'} PROVE c # d.client /\ clients[c] = "in" /\ c \in Clients
        <3>1. CASE c \in writes
            BY <3>1 DEF Counted, NoDeletedSocket, NTypes
        <3>2. CASE c \notin writes
            <4> PICK e \in done' : c = e.client
                BY <2>1, <3>2
            <4>1. e \in done /\ e # d
                BY <1>2
            <4> QED
                BY <4>1 DEF Counted, NoDeletedSocket, NTypes, SENT
        <3> QED
            BY <3>1, <3>2
    <2> QED
        BY <1>2, <1>4, <2>1 DEF NoDeletedSocket
<1>9. InOrderHeard'
    <2> SUFFICES ASSUME NEW c \in Clients, clients'[c] = "in", c \notin writes, [client |-> c, error |-> TRUE] \notin done'
                 PROVE  since[c] + Len(heard[c]) = chunks
        BY <1>2, <1>4 DEF InOrderHeard
    <2>1. clients[c] = "in" /\ ~(d.error /\ c = d.client)
        BY <1>4
    <2>2. [client |-> c, error |-> TRUE] # d
        BY <1>3, <2>1
    <2> QED
        BY <1>2, <2>1, <2>2 DEF InOrderHeard
<1>10. Handling' /\ Ended'
    BY <1>2, <1>4 DEF Handling, Ended
<1> QED
    BY <1>6, <1>7, <1>8, <1>9, <1>10

LEMMA SentKeeps ==
    ASSUME NInv, NEW c \in Clients, Sent(c) PROVE NInv'
<1> USE DEF NInv
<1>1. /\ c \in writes /\ writes' = writes \ {c}
      /\ UNCHANGED <<clients, since, d_buf, chunks, d_writing, handler, ending>>
    BY DEF Sent
<1>2. PICK error \in BOOLEAN :
          /\ done' = done \cup {[client |-> c, error |-> error]}
          /\ heard' = IF error THEN heard ELSE [heard EXCEPT ![c] = Append(@, d_buf)]
    <2>1. CASE heard' = heard /\ done' = done \cup {[client |-> c, error |-> TRUE]}
        BY <2>1
    <2>2. CASE heard' = [heard EXCEPT ![c] = Append(@, d_buf)] /\ done' = done \cup {[client |-> c, error |-> FALSE]}
        BY <2>2
    <2> QED
        BY <2>1, <2>2 DEF Sent
<1> DEFINE d == [client |-> c, error |-> error]
<1>3. d \in SENT /\ d.client = c /\ d.error = error /\ d \notin done /\ \A e \in done : e.client # c
    BY <1>1 DEF SENT, Counted
<1>4. done' = done \cup {d}
    BY <1>2
<1>0. error = TRUE => d = [client |-> c, error |-> TRUE]
    OBVIOUS
<1> HIDE DEF d
<1>5. heard' \in [Clients -> Seq(Nat)] /\ \A x \in Clients : x # c \/ error => heard'[x] = heard[x]
    BY <1>2 DEF NTypes
<1>6. ~error => heard'[c] = Append(heard[c], d_buf) /\ heard[c] \in Seq(Nat) /\ d_buf \in Nat
    BY <1>2 DEF NTypes
<1>7. /\ IsFiniteSet(writes') /\ IsFiniteSet(done')
      /\ Cardinality(writes') = Cardinality(writes) - 1 /\ Cardinality(done') = Cardinality(done) + 1
      /\ Cardinality(writes) \in Nat /\ Cardinality(done) \in Nat
    BY <1>1, <1>3, <1>4, FS_RemoveElement, FS_AddElement, FS_CardinalityType DEF Counted
<1>8. NTypes'
    BY <1>1, <1>3, <1>4, <1>5 DEF NTypes
<1>9. Counted'
    <2>1. d_writing' = Cardinality(writes') + Cardinality(done')
        BY <1>1, <1>7 DEF Counted
    <2>2. \A e \in done' : e.client \notin writes' /\ \A f \in done' : f.client = e.client => f = e
        BY <1>1, <1>3, <1>4 DEF Counted
    <2> QED
        BY <1>7, <2>1, <2>2 DEF Counted
<1>10. NoDeletedSocket'
    BY <1>1, <1>3, <1>4 DEF NoDeletedSocket
<1>11. InOrderHeard'
    <2> DEFINE P(x) ==
            /\ Len(heard'[x]) \in Nat
            /\ \A k \in 1 .. Len(heard'[x]) : heard'[x][k] = since[x] + k
            /\ clients[x] \in {"out", "waiting"} => Len(heard'[x]) = 0
            /\ x \in writes' => since[x] + Len(heard'[x]) + 1 = chunks /\ d_buf = chunks
            /\ (clients[x] = "in" /\ x \notin writes' /\ [client |-> x, error |-> TRUE] \notin done') =>
                  since[x] + Len(heard'[x]) = chunks
    <2>1. ASSUME NEW x \in Clients, x # c PROVE P(x)
        BY <1>1, <1>4, <1>5, <2>1 DEF InOrderHeard
    <2>2. since[c] \in Nat /\ chunks \in Nat /\ clients[c] = "in" /\ since[c] + Len(heard[c]) + 1 = chunks /\ d_buf = chunks
          /\ c \notin writes' /\ Len(heard[c]) \in Nat
        BY <1>1 DEF NTypes, NoDeletedSocket, InOrderHeard
    <2>3. CASE error
        <3>1. [client |-> c, error |-> TRUE] \in done'
            BY <1>0, <1>4, <2>3
        <3>2. heard'[c] = heard[c]
            BY <1>5, <2>3
        <3>3. \A k \in 1 .. Len(heard[c]) : heard[c][k] = since[c] + k
            BY DEF InOrderHeard
        <3>4. P(c)
            BY <2>2, <3>1, <3>2, <3>3
        <3> QED
            BY <1>1, <2>1, <3>4 DEF InOrderHeard
    <2>4. CASE ~error
        <3>1. /\ Len(heard'[c]) = Len(heard[c]) + 1 /\ heard'[c][Len(heard[c]) + 1] = d_buf
              /\ \A k \in 1 .. Len(heard[c]) : heard'[c][k] = heard[c][k]
            BY <1>6, <2>4
        <3>2. \A k \in 1 .. Len(heard[c]) : heard[c][k] = since[c] + k
            BY DEF InOrderHeard
        <3>3. \A k \in 1 .. Len(heard[c]) + 1 : k \in 1 .. Len(heard[c]) \/ k = Len(heard[c]) + 1
            BY <2>2
        <3>4. ASSUME NEW k \in 1 .. Len(heard'[c]) PROVE heard'[c][k] = since[c] + k
            <4>1. CASE k \in 1 .. Len(heard[c])
                BY <3>1, <3>2, <4>1
            <4>2. CASE k = Len(heard[c]) + 1
                <5>1. heard'[c][k] = d_buf
                    BY <3>1, <4>2
                <5>2. since[c] + k = d_buf
                    BY <2>2, <4>2
                <5> QED
                    BY <5>1, <5>2
            <4> QED
                BY <3>1, <3>3, <4>1, <4>2
        <3>5. since[c] + Len(heard'[c]) = chunks /\ Len(heard'[c]) \in Nat
            BY <2>2, <3>1
        <3>6. P(c)
            BY <2>2, <3>4, <3>5
        <3> QED
            BY <1>1, <2>1, <3>6 DEF InOrderHeard
    <2> QED
        BY <2>3, <2>4
<1>12. Handling' /\ Ended'
    BY <1>1, <1>4 DEF Handling, Ended
<1> QED
    BY <1>8, <1>9, <1>10, <1>11, <1>12

LEMMA WorkKeeps ==
    ASSUME NInv, work PROVE NInv'
<1> USE DEF NInv
<1>1. /\ ending = "no" /\ BufferFree /\ chunks' = chunks + 1 /\ d_buf' = chunks + 1
      /\ writes' = d_sockets /\ d_writing' = Cardinality(d_sockets)
      /\ UNCHANGED <<clients, heard, since, done, handler, ending>>
    BY DEF work, Started
<1>2. writes = {} /\ done = {}
    BY <1>1, NoneCounted
<1>3. d_sockets \subseteq Clients /\ IsFiniteSet(d_sockets) /\ Cardinality(d_sockets) \in Nat
    BY ClientsAssumption, FS_Subset, FS_CardinalityType DEF d_sockets
<1>4. NTypes'
    BY <1>1, <1>3 DEF NTypes
<1>5. Counted'
    BY <1>1, <1>2, <1>3, FS_EmptySet DEF Counted
<1>6. NoDeletedSocket'
    BY <1>1, <1>2 DEF NoDeletedSocket, d_sockets
<1>7. InOrderHeard'
    <2>1. \A c \in Clients : clients[c] = "in" => since[c] + Len(heard[c]) = chunks
        BY <1>2 DEF InOrderHeard
    <2>2. \A c \in Clients : since[c] \in Nat /\ Len(heard[c]) \in Nat /\ chunks \in Nat
        BY DEF NTypes, InOrderHeard
    <2>3. \A c \in Clients : c \in writes' <=> clients[c] = "in"
        BY <1>1 DEF d_sockets
    <2> QED
        BY <1>1, <2>1, <2>2, <2>3 DEF InOrderHeard
<1>8. Handling' /\ Ended'
    BY <1>1, <1>2 DEF Handling, Ended
<1> QED
    BY <1>4, <1>5, <1>6, <1>7, <1>8

LEMMA EndKeeps ==
    ASSUME NInv, Destroying \/ Delete \/ Join PROVE NInv'
<1> USE DEF NInv
<1>1. CASE Destroying
    <2>1. /\ UNCHANGED <<clients, heard, since, d_buf, chunks, d_writing, writes, done, handler>>
          /\ ending' = "waiting"
        BY <1>1 DEF Destroying
    <2>2. NTypes' /\ Counted' /\ NoDeletedSocket' /\ InOrderHeard'
        BY <2>1, <1>1 DEF NTypes, Counted, NoDeletedSocket, InOrderHeard, Destroying
    <2>3. Handling' /\ Ended'
        BY <2>1, <1>1 DEF Handling, Ended, Destroying
    <2> QED
        BY <2>2, <2>3
<1>2. CASE Delete
    <2>1. /\ ending = "waiting" /\ BufferFree /\ ending' = "joining"
          /\ clients' = [c \in Clients |-> IF clients[c] = "in" THEN "deleted" ELSE clients[c]]
          /\ UNCHANGED <<heard, since, d_buf, chunks, d_writing, writes, done, handler>>
        BY <1>2 DEF Delete
    <2>2. writes = {} /\ done = {}
        BY <2>1, NoneCounted
    <2>3. clients' \in [Clients -> {"out", "waiting", "in", "deleted"}]
          /\ \A c \in Clients : clients'[c] # "in" /\ (clients'[c] \in {"out", "waiting"} <=> clients[c] \in {"out", "waiting"})
                 /\ (clients'[c] = "waiting" <=> clients[c] = "waiting")
        BY <2>1 DEF NTypes
    <2>4. NTypes' /\ Counted' /\ NoDeletedSocket'
        BY <2>1, <2>2, <2>3 DEF NTypes, Counted, NoDeletedSocket
    <2>5. InOrderHeard'
        BY <2>1, <2>2, <2>3 DEF InOrderHeard
    <2>6. Handling' /\ Ended'
        BY <2>1, <2>2, <2>3 DEF Handling, Ended
    <2> QED
        BY <2>4, <2>5, <2>6
<1>3. CASE Join
    <2>1. /\ UNCHANGED <<clients, heard, since, d_buf, chunks, d_writing, writes, done, handler>>
          /\ ending = "joining" /\ ending' = "gone"
        BY <1>3 DEF Join
    <2>2. NTypes' /\ Counted' /\ NoDeletedSocket' /\ InOrderHeard'
        BY <2>1 DEF NTypes, Counted, NoDeletedSocket, InOrderHeard
    <2>3. Handling' /\ Ended'
        BY <2>1 DEF Handling, Ended
    <2> QED
        BY <2>2, <2>3
<1> QED
    BY <1>1, <1>2, <1>3

LEMMA NNextInv == NInv /\ [NNext]_nvars => NInv'
<1> SUFFICES ASSUME NInv, [NNext]_nvars PROVE NInv'
    OBVIOUS
<1>1. CASE UNCHANGED nvars
    <2>1. UNCHANGED <<clients, heard, since, d_buf, chunks, d_writing, writes, done, handler, ending>>
        BY <1>1 DEF nvars
    <2>2. NTypes' /\ Counted' /\ NoDeletedSocket' /\ InOrderHeard'
        BY <2>1 DEF NInv, NTypes, Counted, NoDeletedSocket, InOrderHeard
    <2>3. Handling' /\ Ended'
        BY <2>1 DEF NInv, Handling, Ended
    <2> QED
        BY <2>2, <2>3 DEF NInv
<1>2. CASE NNext
    BY <1>2, AcceptKeeps, WriteKeeps, SentKeeps, WorkKeeps, EndKeeps DEF NNext
<1> QED
    BY <1>1, <1>2

LEMMA HeardInOrder == NInv => FanOut
<1> SUFFICES ASSUME NInv, NEW c \in Clients
             PROVE  heard[c] = [k \in 1 .. Len(heard[c]) |-> since[c] + k]
    BY DEF NInv, InOrderHeard, FanOut
<1> DEFINE n == Len(heard[c])
           f == [k \in 1 .. n |-> since[c] + k]
<1>1. heard[c] \in Seq(Nat) /\ since[c] \in Nat /\ n \in Nat
    BY DEF NInv, NTypes
<1>2. \A k \in 1 .. n : heard[c][k] = since[c] + k
    BY DEF NInv, InOrderHeard
<1>3. heard[c] = [k \in 1 .. n |-> heard[c][k]]
    BY <1>1
<1> QED
    BY <1>2, <1>3

(* For any number of clients that connect, fail and go at any time, at the   *)
(* end too: each one hears the stream from where it joined, call by call; no *)
(* socket is deleted while a write to it is under way or its handler is to   *)
(* come; and a destructor that joins waits for no handler of a write.        *)
THEOREM SentAlwaysUnbroken == NSpec => []SentUnbroken
<1>1. NInv => JoinEnds
    <2> SUFFICES ASSUME NInv, ending = "joining" PROVE handler[1] # "write"
        BY DEF JoinEnds
    <2>1. done = {}
        BY DEF NInv, Ended
    <2> QED
        BY <2>1 DEF NInv, Handling
<1>2. NInv => SentUnbroken
    BY <1>1, HeardInOrder DEF NInv, SentUnbroken
<1> QED
    BY <1>2, NInitInv, NNextInv, PTL DEF NSpec

-----------------------------------------------------------------------------
(***************************************************************************)
(* file_descriptor_source and file_descriptor_sink, for items and files of   *)
(* any size and reads and writes of any number of bytes.  Needed beyond the  *)
(* property: the residue holds the bytes just before the place in the file,  *)
(* and before it the file has been cut into whole items, the same number in  *)
(* each pass that came to the end.                                           *)
(***************************************************************************)

FdSpec == FdInit /\ [][FdNext]_fdvars

WholeItems == FileSize \div fd_itemsize

\* q items of this pass are out after p passes, and the residue follows them.
CutSoFar(p, q) ==
    /\ fd_at = q * fd_itemsize + Len(d_residue)
    /\ Len(fd_out) = p * WholeItems + q
    /\ ~fd_repeat => p = 0

FdTypes ==
    /\ fd_repeat \in BOOLEAN /\ failed \in BOOLEAN /\ ended \in BOOLEAN
    /\ fd_at \in 0 .. FileSize /\ reading \in Nat
    /\ d_residue \in Seq(Nat) /\ fd_out \in Seq(Seq(Nat))
    /\ left \in Nat /\ items_in \in Nat /\ written \in Nat

ResidueBefore ==
    /\ Len(d_residue) < fd_itemsize
    /\ \A v \in 1 .. Len(d_residue) : d_residue[v] = fd_at - Len(d_residue) + v

InPasses == \E p \in Nat, q \in 0 .. WholeItems : CutSoFar(p, q)

SinkCounts ==
    /\ left + written <= items_in * fd_itemsize
    /\ ~failed => left + written = items_in * fd_itemsize

FdInv == FdTypes /\ ResidueBefore /\ InPasses /\ CutIntoItems /\ SinkCounts

LEMMA DivMod ==
    ASSUME NEW a \in Nat, NEW d \in Nat \ {0}
    PROVE  a \div d \in Nat /\ a % d \in 0 .. d - 1 /\ a = (a \div d) * d + (a % d)
    OBVIOUS

LEMMA ModOf ==
    ASSUME NEW d \in Nat \ {0}, NEW q \in Nat, NEW r \in 0 .. d - 1
    PROVE  (q * d + r) % d = r
    OBVIOUS

\* A piece cut out of a sequence of numbers.
LEMMA CutOut ==
    ASSUME NEW s \in Seq(Nat), NEW a \in Nat, NEW n \in Nat, a + n <= Len(s)
    PROVE  LET c == SubSeq(s, a + 1, a + n)
           IN  c \in Seq(Nat) /\ Len(c) = n /\ \A i \in 1 .. n : c[i] = s[a + i]
<1> DEFINE l == a + 1
           h == a + n
           c == SubSeq(s, l, h)
<1>1. l \in Int /\ h \in Int /\ h - l + 1 = n /\ \A i \in 1 .. n : l + i - 1 = a + i
    OBVIOUS
<1>2. \A i \in l .. h : s[i] \in Nat
    OBVIOUS
<1> HIDE DEF l, h
<1>3. /\ c \in Seq(Nat) /\ Len(c) = IF l <= h THEN h - l + 1 ELSE 0
      /\ \A i \in 1 .. h - l + 1 : c[i] = s[l + i - 1]
    BY <1>1, <1>2, SubSeqProperties
<1> HIDE DEF c
<1>4. Len(c) = n
    BY <1>1, <1>3
<1>5. \A i \in 1 .. n : c[i] = s[a + i]
    BY <1>1, <1>3
<1> QED
    BY <1>3, <1>4, <1>5 DEF c, l, h

LEMMA WholeItems_ ==
    /\ WholeItems \in Nat
    /\ \A q \in Nat : q <= WholeItems <=> q * fd_itemsize <= FileSize
<1> DEFINE s == fd_itemsize
<1>1. s \in Nat \ {0} /\ FileSize \in Nat
    BY DescriptorAssumption
<1>2. PICK r \in 0 .. s - 1 : WholeItems \in Nat /\ FileSize = WholeItems * s + r
    BY <1>1, DivMod DEF WholeItems
<1>3. ASSUME NEW q \in Nat, q <= WholeItems PROVE q * s <= FileSize
  <2>1. PICK d \in Nat : WholeItems = q + d
      BY <1>2, <1>3
  <2>2. WholeItems * s = q * s + d * s /\ d * s \in Nat /\ q * s \in Nat
      BY <1>1, <2>1
  <2> QED
      BY <1>1, <1>2, <2>2
<1>4. ASSUME NEW q \in Nat, q * s <= FileSize PROVE q <= WholeItems
  <2> SUFFICES ASSUME q > WholeItems PROVE FALSE
      BY <1>2
  <2>1. PICK d \in Nat : q = WholeItems + 1 + d
      BY <1>2
  <2>2. q * s = WholeItems * s + s + d * s /\ d * s \in Nat /\ WholeItems * s \in Nat
      BY <1>1, <1>2, <2>1
  <2> QED
      BY <1>1, <1>2, <1>4, <2>2
<1> QED
    BY <1>2, <1>3, <1>4

LEMMA FdReadKeeps == ASSUME FdInv, NEW r \in 1 .. Room * fd_itemsize, FdRead(r) PROVE FdInv'
<1> DEFINE s == fd_itemsize
           new == [k \in 1 .. r |-> fd_at + k]
           bytes == d_residue \o new
           c == Len(d_residue)
           m == Len(bytes) \div s
           e == Len(bytes) % s
           cut == CutItems(bytes)
           rest == Residue(bytes, r)
<1>0. s \in Nat \ {0} /\ FileSize \in Nat /\ Room \in Nat /\ r \in Nat \ {0}
  <2>1. s \in Nat \ {0} /\ FileSize \in Nat /\ Room \in Nat
      BY DescriptorAssumption
  <2>2. Room * s \in Nat
      BY <2>1
  <2> QED
      BY <2>1, <2>2
<1>1. FdTypes /\ ResidueBefore /\ InPasses /\ CutIntoItems /\ SinkCounts
    BY DEF FdInv
<1>2. PICK p \in Nat, q \in 0 .. WholeItems : CutSoFar(p, q)
    BY <1>1 DEF InPasses
<1>3. /\ fd_at + r <= FileSize /\ fd_at' = fd_at + r
      /\ d_residue' = rest /\ fd_out' = fd_out \o cut
      /\ reading' = IF cut = <<>> THEN reading ELSE 0
      /\ fd_repeat' = fd_repeat /\ ended' = ended
      /\ left' = left /\ items_in' = items_in /\ written' = written /\ failed' = failed
    BY DEF FdRead, sinkvars
<1>4. /\ c \in Nat /\ q \in Nat /\ WholeItems \in Nat /\ fd_at \in Nat
      /\ d_residue \in Seq(Nat) /\ c = Len(d_residue) /\ fd_out \in Seq(Seq(Nat))
    BY <1>0, <1>1, WholeItems_ DEF FdTypes
<1> HIDE DEF c
<1> DEFINE Q == q * s
<1>5. Q \in Nat /\ fd_at = Q + c /\ Len(fd_out) = p * WholeItems + q /\ (~fd_repeat => p = 0)
    BY <1>0, <1>2, <1>4 DEF CutSoFar, c
<1> HIDE DEF Q
<1>6. bytes \in Seq(Nat) /\ Len(bytes) = c + r /\ \A v \in 1 .. c + r : bytes[v] = Q + v
  <2>1. new \in Seq(Nat) /\ Len(new) = r /\ \A k \in 1 .. r : new[k] = fd_at + k
      BY <1>0, <1>4
  <2> HIDE DEF new
  <2>2. bytes \in Seq(Nat) /\ Len(bytes) = c + r
      BY <2>1, <1>4, ConcatProperties
  <2> HIDE DEF bytes
  <2>3. ASSUME NEW v \in 1 .. c + r PROVE bytes[v] = Q + v
    <3>1. CASE v <= c
      <4>1. v \in 1 .. c /\ bytes[v] = d_residue[v]
          BY <3>1, <2>1, <1>4, ConcatProperties DEF bytes
      <4> QED
          BY <4>1, <1>1, <1>4, <1>5 DEF ResidueBefore
    <3>2. CASE v > c
      <4>1. v - c \in 1 .. r
          BY <3>2, <1>4, <1>0
      <4>2. bytes[v] = new[v - c]
          BY <3>2, <2>1, <1>4, ConcatProperties DEF bytes
      <4> QED
          BY <4>1, <4>2, <2>1, <1>0, <1>4, <1>5
    <3> QED
        BY <3>1, <3>2, <1>4, <1>0
  <2> QED
      BY <2>2, <2>3
<1> HIDE DEF bytes, new
<1>8. m = (c + r) \div s /\ e = (c + r) % s /\ c + r \in Nat
    BY <1>0, <1>4, <1>6
<1> HIDE DEF m, e
<1> DEFINE M == m * s
<1>7. m \in Nat /\ e \in 0 .. s - 1 /\ c + r = M + e /\ M \in Nat
  <2>1. m \in Nat /\ e \in 0 .. s - 1 /\ c + r = m * s + e
      BY <1>0, <1>8, DivMod
  <2> QED
      BY <2>1, <1>0
<1> HIDE DEF M
<1>9. rest \in Seq(Nat) /\ Len(rest) = e /\ \A v \in 1 .. e : rest[v] = fd_at + r - e + v
  <2>0. Len(bytes) = c + r /\ (Len(bytes) % fd_itemsize) = e
      BY <1>6, <1>8
  <2>1. rest = SubSeq(bytes, M + 1, M + e)
    <3>1. Residue(bytes, r) = SubSeq(bytes, Len(bytes) - (Len(bytes) % fd_itemsize) + 1, Len(bytes))
        BY Zenon DEF Residue
    <3> QED
      <4> DEFINE l == Len(bytes)
                 x == l % fd_itemsize
      <4>1. rest = SubSeq(bytes, l - x + 1, l)
          BY <3>1
      <4>2. l = c + r /\ x = e
          BY <2>0
      <4> HIDE DEF l, x, rest
      <4>5. l = M + e /\ M \in Nat /\ e \in Nat
          BY <4>2, <1>0, <1>7
      <4>3. l - x + 1 = M + 1 /\ l = M + e
          BY <4>2, <4>5
      <4> QED
          BY <4>1, <4>2, <4>3
  <2> HIDE DEF rest
  <2>3. rest \in Seq(Nat) /\ Len(rest) = e /\ \A v \in 1 .. e : rest[v] = bytes[M + v]
    <3>1. M + e <= Len(bytes) /\ e \in Nat /\ M \in Nat /\ bytes \in Seq(Nat)
        BY <1>0, <1>6, <1>7
    <3> QED
        BY <2>1, <3>1, CutOut
  <2>5. \A v \in 1 .. e : rest[v] = fd_at + r - e + v
    <3> SUFFICES ASSUME NEW v \in 1 .. e PROVE rest[v] = fd_at + r - e + v
        OBVIOUS
    <3>1. M + v \in 1 .. c + r /\ rest[v] = bytes[M + v]
        BY <1>7, <2>3
    <3>2. bytes[M + v] = Q + (M + v)
        BY <1>6, <3>1
    <3>3. r \in Nat /\ c \in Nat /\ Q \in Nat /\ M \in Nat /\ e \in Nat /\ v \in Nat
        BY <1>0, <1>4, <1>5, <1>7
    <3>4. fd_at = Q + c /\ c + r = M + e
        BY <1>5, <1>7
    <3>5. fd_at + r - e + v = Q + (M + v)
        BY <3>3, <3>4
    <3> QED
        BY <3>1, <3>2, <3>5
  <2> QED
      BY <2>3, <2>5
<1>10. cut \in Seq(Seq(Nat)) /\ Len(cut) = m
      /\ \A k \in 1 .. m : cut[k] = [v \in 1 .. s |-> (q + k - 1) * s + v]
  <2>1. cut = [k \in 1 .. m |-> SubSeq(bytes, (k - 1) * s + 1, k * s)]
      BY DEF CutItems, m
  <2>2. ASSUME NEW k \in 1 .. m
        PROVE  /\ SubSeq(bytes, (k - 1) * s + 1, k * s) = [v \in 1 .. s |-> (q + k - 1) * s + v]
               /\ SubSeq(bytes, (k - 1) * s + 1, k * s) \in Seq(Nat)
    <3> DEFINE a == (k - 1) * s
               b == k * s
               item == SubSeq(bytes, a + 1, b)
    <3>1. a \in Nat /\ b = a + s /\ k \in Nat /\ b \in Nat
        BY <1>0, <1>7
    <3>2. b <= M
      <4>1. PICK d \in Nat : m = k + d
          BY <1>7, <3>1
      <4>2. M = b + d * s /\ d * s \in Nat
          BY <1>0, <3>1, <4>1 DEF M
      <4> QED
          BY <1>0, <3>1, <4>2
    <3>3. (q + k - 1) * s = Q + a
        BY <1>0, <1>4, <3>1 DEF Q
    <3> HIDE DEF a, b
    <3>4. a + 1 >= 1 /\ a + 1 <= b /\ b <= Len(bytes) /\ a + 1 \in Nat /\ b - (a + 1) + 1 = s
        BY <1>0, <1>4, <1>6, <1>7, <3>1, <3>2
    <3>5. item \in Seq(Nat) /\ Len(item) = s /\ \A v \in 1 .. s : item[v] = bytes[a + v]
      <4>1. a + s <= Len(bytes) /\ b = a + s /\ s \in Nat /\ bytes \in Seq(Nat)
          BY <1>0, <1>6, <3>1, <3>4
      <4> QED
          BY <3>1, <4>1, CutOut, SMTT(20)
    <3>6. \A v \in 1 .. s : bytes[a + v] = (q + k - 1) * s + v
      <4> SUFFICES ASSUME NEW v \in 1 .. s PROVE bytes[a + v] = (q + k - 1) * s + v
          OBVIOUS
      <4>1. a + v \in 1 .. c + r
          BY <1>0, <1>4, <1>7, <3>1, <3>2
      <4>2. bytes[a + v] = Q + (a + v)
          BY <4>1, <1>6
      <4> QED
          BY <4>1, <4>2, <3>3, <3>1, <1>5
    <3>7. item = [v \in 1 .. s |-> (q + k - 1) * s + v]
      <4>1. \A v \in 1 .. s : item[v] = (q + k - 1) * s + v
          BY <3>5, <3>6
      <4> HIDE DEF item
      <4>2. item = [v \in 1 .. Len(item) |-> item[v]]
          BY <3>5
      <4> QED
          BY <3>5, <4>1, <4>2
    <3> QED
        BY <3>5, <3>7 DEF a, b
  <2> HIDE DEF cut
  <2>3. cut \in Seq(Seq(Nat)) /\ Len(cut) = m
      BY <2>1, <2>2, <1>7
  <2> QED
      BY <2>1, <2>2, <2>3
<1> HIDE DEF cut, rest
<1>11. (q + m) * s = Q + M
    BY <1>0, <1>4, <1>7 DEF Q, M
<1>17. q + m \in 0 .. WholeItems
  <2>1. (q + m) * s <= FileSize /\ q + m \in Nat
      BY <1>11, <1>0, <1>3, <1>4, <1>5, <1>7
  <2> QED
      BY <2>1, WholeItems_
<1>12. /\ fd_at' = (q + m) * s + Len(d_residue') /\ Len(fd_out') = p * WholeItems + (q + m)
       /\ fd_out' \in Seq(Seq(Nat))
  <2>1. Len(fd_out') = Len(fd_out) + m /\ fd_out' \in Seq(Seq(Nat))
      BY <1>3, <1>4, <1>10, ConcatProperties, ZenonT(30)
  <2>2. p * WholeItems \in Nat
      BY <1>4
  <2>3. fd_at' = (q + m) * s + Len(d_residue')
    <3>1. fd_at' = fd_at + r /\ Len(d_residue') = e
        BY <1>3, <1>9
    <3>2. Q + M \in Nat /\ fd_at + r = (Q + M) + e
      <4>1. Q \in Nat /\ M \in Nat /\ e \in Nat /\ c \in Nat /\ r \in Nat
          BY <1>0, <1>4, <1>5, <1>7
      <4>2. fd_at = Q + c /\ c + r = M + e
          BY <1>5, <1>7
      <4> HIDE DEF s
      <4> QED
          BY <4>1, <4>2
    <3> QED
        BY <3>1, <3>2, <1>11
  <2> QED
      BY <2>1, <2>2, <2>3, <1>4, <1>5, <1>7
<1>13. InPasses'
    BY <1>2, <1>3, <1>5, <1>17, <1>12 DEF InPasses, CutSoFar, WholeItems
<1>14. ResidueBefore'
  <2>1. Len(d_residue') = e /\ fd_at' = fd_at + r /\ \A v \in 1 .. e : d_residue'[v] = fd_at + r - e + v
      BY <1>3, <1>9
  <2>3. e < s
      BY <1>0, <1>7
  <2> HIDE DEF s
  <2>4. \A v \in 1 .. e : d_residue'[v] = fd_at' - e + v
      BY <2>1, <1>0, <1>4, <1>7 DEF s
  <2> QED
      BY <2>1, <2>3, <2>4 DEF ResidueBefore, s
<1>15. FdTypes'
    BY <1>0, <1>1, <1>3, <1>4, <1>9, <1>12 DEF FdTypes
<1>16. CutIntoItems'
  <2> SUFFICES ASSUME NEW k \in 1 .. Len(fd_out')
               PROVE  /\ fd_repeat \/ k <= WholeItems
                      /\ fd_out'[k] = [v \in 1 .. s |-> ((k - 1) % WholeItems) * s + v]
    <3>1. DOMAIN fd_out' = 1 .. Len(fd_out')
        BY <1>12
    <3> QED
        BY <3>1, <1>3 DEF CutIntoItems, WholeItems
  <2>1. CASE k <= Len(fd_out)
    <3>1. k \in DOMAIN fd_out /\ fd_out'[k] = fd_out[k]
        BY <2>1, <1>3, <1>4, <1>10, ConcatProperties
    <3> QED
        BY <3>1, <1>1 DEF CutIntoItems, WholeItems
  <2>2. CASE k > Len(fd_out)
    <3> DEFINE i == k - Len(fd_out)
    <3>1. p * WholeItems \in Nat /\ k = p * WholeItems + q + i /\ i \in 1 .. m
        BY <2>2, <1>4, <1>5, <1>7, <1>12
    <3>2. fd_out'[k] = cut[i]
        BY <2>2, <1>3, <1>4, <1>10, <1>12, ConcatProperties
    <3> HIDE DEF i
    <3>3. q + i - 1 \in 0 .. WholeItems - 1
        BY <3>1, <1>4, <1>7, <1>17
    <3>4. (p * WholeItems + (q + i - 1)) % WholeItems = q + i - 1
      <4>1. WholeItems \in Nat \ {0}
          BY <3>3, <1>4
      <4> QED
          BY <4>1, <3>3, <1>4, ModOf
    <3>5. k - 1 = p * WholeItems + (q + i - 1)
        BY <3>1, <1>4
    <3>6. fd_repeat \/ k <= WholeItems
      <4> SUFFICES ASSUME ~fd_repeat PROVE k <= WholeItems
          OBVIOUS
      <4>1. p * WholeItems = 0
          BY <1>4, <1>5
      <4> QED
          BY <4>1, <3>1, <3>3, <1>4
    <3> QED
        BY <3>2, <3>1, <3>4, <3>5, <3>6, <1>10
  <2> QED
      BY <2>1, <2>2, <1>4, <1>12
<1> QED
    BY <1>1, <1>3, <1>13, <1>14, <1>15, <1>16 DEF FdInv, SinkCounts

LEMMA EndOfFileKeeps == ASSUME FdInv, EndOfFile PROVE FdInv'
<1>1. FdTypes /\ ResidueBefore /\ InPasses /\ CutIntoItems /\ SinkCounts
    BY DEF FdInv
<1>2. /\ fd_at = FileSize /\ fd_repeat' = fd_repeat /\ fd_out' = fd_out
      /\ left' = left /\ items_in' = items_in /\ written' = written /\ failed' = failed
      /\ \/ fd_repeat /\ fd_at' = 0 /\ d_residue' = <<>> /\ reading' = reading /\ ended' = ended
         \/ ended' = TRUE /\ reading' = 0 /\ fd_at' = fd_at /\ d_residue' = d_residue
    BY DEF EndOfFile, Flushed, sinkvars
<1>3. CutIntoItems' /\ SinkCounts'
    BY <1>1, <1>2 DEF CutIntoItems, SinkCounts
<1>4. CASE fd_at' = fd_at /\ d_residue' = d_residue /\ ended' = TRUE /\ reading' = 0
    BY <1>1, <1>2, <1>3, <1>4 DEF FdInv, FdTypes, ResidueBefore, InPasses, CutSoFar, WholeItems
<1>5. CASE fd_repeat /\ fd_at' = 0 /\ d_residue' = <<>> /\ reading' = reading /\ ended' = ended
  <2>1. FileSize \in Nat /\ fd_itemsize \in Nat \ {0} /\ WholeItems \in Nat
      BY DescriptorAssumption, WholeItems_
  <2>2. FdTypes' /\ ResidueBefore'
      BY <1>1, <1>2, <1>5, <2>1 DEF FdTypes, ResidueBefore
  <2>3. PICK p \in Nat, q \in 0 .. WholeItems : CutSoFar(p, q)
      BY <1>1 DEF InPasses
  \* At the end of the file there is less than an item behind the last one.
  <2>4. q = WholeItems
    <3> SUFFICES ASSUME q < WholeItems PROVE FALSE
        BY <2>1
    <3>1. q + 1 \in Nat /\ (q + 1) * fd_itemsize <= FileSize
        BY <2>1, WholeItems_
    <3>2. (q + 1) * fd_itemsize = q * fd_itemsize + fd_itemsize /\ q * fd_itemsize \in Nat
        BY <2>1
    <3>3. FileSize = q * fd_itemsize + Len(d_residue) /\ Len(d_residue) < fd_itemsize /\ Len(d_residue) \in Nat
        BY <1>1, <1>2, <2>3 DEF CutSoFar, ResidueBefore, FdTypes
    <3> QED
        BY <2>1, <3>1, <3>2, <3>3
  <2>5. (p + 1) * WholeItems + 0 = p * WholeItems + WholeItems /\ 0 * fd_itemsize = 0
      BY <2>1
  <2>6. Len(d_residue') = 0 /\ p + 1 \in Nat /\ 0 \in 0 .. WholeItems
      BY <1>5, <2>1
  <2>7. fd_at' = 0 * fd_itemsize + Len(d_residue') /\ Len(fd_out') = (p + 1) * WholeItems + 0 /\ fd_repeat'
      BY <1>2, <1>5, <2>3, <2>4, <2>5, <2>6 DEF CutSoFar
  <2>8. InPasses'
      BY <2>6, <2>7 DEF InPasses, CutSoFar, WholeItems
  <2> QED
      BY <1>3, <2>2, <2>8 DEF FdInv
<1> QED
    BY <1>2, <1>4, <1>5

\* What touches the source only in what it is doing keeps the rest.
LEMMA SourceStays ==
    ASSUME FdInv, fd_repeat' = fd_repeat, fd_at' = fd_at, d_residue' = d_residue, fd_out' = fd_out,
           ended' \in BOOLEAN, reading' \in Nat, failed' \in BOOLEAN,
           left' \in Nat, items_in' \in Nat, written' \in Nat, SinkCounts'
    PROVE  FdInv'
    BY DEF FdInv, FdTypes, ResidueBefore, InPasses, CutSoFar, WholeItems, CutIntoItems

LEMMA FdNextInv == ASSUME FdInv, [FdNext]_fdvars PROVE FdInv'
<1>0. /\ fd_itemsize \in Nat \ {0} /\ Room \in Nat /\ Room * fd_itemsize \in Nat
      /\ ended \in BOOLEAN /\ reading \in Nat /\ failed \in BOOLEAN
      /\ left \in Nat /\ items_in \in Nat /\ written \in Nat /\ SinkCounts
  <2>1. fd_itemsize \in Nat \ {0} /\ Room \in Nat
      BY DescriptorAssumption
  <2> QED
      BY <2>1 DEF FdInv, FdTypes
<1>1. ASSUME NEW n \in 1 .. Room, BeginFdRead(n) PROVE FdInv'
  <2>1. n \in Nat /\ UNCHANGED <<fd_repeat, fd_at, d_residue, fd_out, ended, left, items_in, written, failed>> /\ reading' = n
      BY <1>0, <1>1 DEF BeginFdRead, sinkvars
  <2> QED
      BY <1>0, <2>1, SourceStays DEF SinkCounts
<1>2. ASSUME NEW n \in 1 .. Room, BeginFdWrite(n) PROVE FdInv'
  <2>1. /\ n \in Nat /\ UNCHANGED <<fd_repeat, fd_at, d_residue, fd_out, ended, reading, written, failed>>
        /\ left = 0 /\ left' = n * fd_itemsize /\ items_in' = items_in + n
      BY <1>0, <1>2 DEF BeginFdWrite, sourcevars
  <2>2. n * fd_itemsize \in Nat /\ (items_in + n) * fd_itemsize = items_in * fd_itemsize + n * fd_itemsize
        /\ items_in * fd_itemsize \in Nat
      BY <1>0, <2>1
  <2>3. SinkCounts'
      BY <1>0, <2>1, <2>2 DEF SinkCounts
  <2> QED
      BY <1>0, <2>1, <2>2, <2>3, SourceStays
<1>3. ASSUME NEW r \in 1 .. Room * fd_itemsize, FdWrite(r) PROVE FdInv'
  <2>1. /\ r \in Nat /\ UNCHANGED <<fd_repeat, fd_at, d_residue, fd_out, ended, reading, items_in, failed>>
        /\ r <= left /\ left' = left - r /\ written' = written + r
      BY <1>0, <1>3 DEF FdWrite, Remaining, sourcevars
  <2>2. left' \in Nat /\ written' \in Nat /\ left' + written' = left + written
      BY <1>0, <2>1
  <2>3. SinkCounts'
      BY <1>0, <2>1, <2>2 DEF SinkCounts
  <2> QED
      BY <1>0, <2>1, <2>2, <2>3, SourceStays
<1>4. ASSUME ReadFails PROVE FdInv'
  <2>1. /\ UNCHANGED <<fd_repeat, fd_at, d_residue, fd_out, left, items_in, written, failed>>
        /\ ended' = TRUE /\ reading' = 0
      BY <1>4 DEF ReadFails, sinkvars
  <2> QED
      BY <1>0, <2>1, SourceStays DEF SinkCounts
<1>5. ASSUME WriteFails PROVE FdInv'
  <2>1. /\ UNCHANGED <<fd_repeat, fd_at, d_residue, fd_out, ended, reading, items_in, written>>
        /\ left' = 0 /\ failed' = TRUE
      BY <1>5 DEF WriteFails, sourcevars
  <2>2. items_in * fd_itemsize \in Nat
      BY <1>0
  <2>3. SinkCounts'
      BY <1>0, <2>1, <2>2 DEF SinkCounts
  <2> QED
      BY <1>0, <2>1, <2>3, SourceStays
<1>6. ASSUME UNCHANGED fdvars PROVE FdInv'
    BY <1>0, <1>6, SourceStays DEF fdvars, SinkCounts
<1> QED
    BY <1>1, <1>2, <1>3, <1>4, <1>5, <1>6, FdReadKeeps, EndOfFileKeeps DEF FdNext

LEMMA FdInitInv == FdInit => FdInv
<1> SUFFICES ASSUME FdInit PROVE FdInv
    OBVIOUS
<1>1. /\ FileSize \in Nat /\ fd_itemsize \in Nat \ {0} /\ WholeItems \in Nat
      /\ 0 * fd_itemsize = 0 /\ 0 * WholeItems = 0
    BY DescriptorAssumption, WholeItems_
<1>2. /\ fd_repeat \in BOOLEAN /\ fd_at = 0 /\ d_residue = <<>> /\ reading = 0 /\ fd_out = <<>>
      /\ ended = FALSE /\ left = 0 /\ items_in = 0 /\ written = 0 /\ failed = FALSE
    BY DEF FdInit
<1>3. CutSoFar(0, 0) /\ 0 \in 0 .. WholeItems
    BY <1>1, <1>2 DEF CutSoFar
<1>4. FdTypes /\ ResidueBefore /\ SinkCounts
  <2>1. Len(d_residue) = 0 /\ d_residue \in Seq(Nat) /\ fd_out \in Seq(Seq(Nat))
      BY <1>2
  <2>2. FdTypes
    <3>1. fd_at \in 0 .. FileSize /\ reading \in Nat /\ left \in Nat /\ items_in \in Nat /\ written \in Nat
        BY <1>1, <1>2
    <3>2. fd_repeat \in BOOLEAN /\ ended \in BOOLEAN /\ failed \in BOOLEAN
        BY <1>2, Zenon
    <3> QED
        BY <2>1, <3>1, <3>2, Zenon DEF FdTypes
  <2>3. ResidueBefore
      BY <1>1, <2>1 DEF ResidueBefore
  <2>4. SinkCounts
      BY <1>1, <1>2 DEF SinkCounts
  <2> QED
      BY <2>2, <2>3, <2>4
<1>5. CutIntoItems
    BY <1>2 DEF CutIntoItems
<1> QED
    BY <1>3, <1>4, <1>5 DEF FdInv, InPasses

LEMMA FdImplies == FdInv => CutIntoItems /\ AllWritten
<1> SUFFICES ASSUME FdInv PROVE CutIntoItems /\ AllWritten
    OBVIOUS
<1>1. left \in Nat /\ written \in Nat /\ items_in \in Nat /\ fd_itemsize \in Nat /\ items_in * fd_itemsize \in Nat
  <2>1. left \in Nat /\ written \in Nat /\ items_in \in Nat /\ fd_itemsize \in Nat
      BY DescriptorAssumption DEF FdInv, FdTypes
  <2> QED
      BY <2>1
<1>2. CutIntoItems /\ SinkCounts
    BY DEF FdInv
<1>3. AllWritten
    BY <1>1, <1>2 DEF SinkCounts, AllWritten
<1> QED
    BY <1>2, <1>3

(* For items and files of any size, however few bytes a read or a write      *)
(* moves: the source puts out the file cut into items, pass by pass, and the *)
(* sink's file has what it was given until a write fails.                    *)
THEOREM DescriptorsAlwaysWhole == FdSpec => [](CutIntoItems /\ AllWritten)
    BY FdInitInv, FdNextInv, FdImplies, PTL DEF FdSpec

-----------------------------------------------------------------------------
(***************************************************************************)
(* file_source, for any ranges that hold an item and any sizes of calls, as  *)
(* long as no file is opened between the two times work has the mutex.       *)
(* Needed beyond the property: whose range the shared variables hold, which  *)
(* is the waiting file's while one waits; and that what remains and where    *)
(* the file is read follow from how many of its items are out.               *)
(***************************************************************************)

ESpec == EInit /\ [][ENext]_evars

AllFit == \A r \in Ranges : Fits(r)

RFILE == [range : Ranges, pos : Nat, closed : Nat]
ITEM  == [file : Nat, pos : Nat]

ETypes ==
    /\ rfiles \in Seq(RFILE)
    /\ rd_fp \in 0 .. Len(rfiles) /\ rd_new_fp \in 0 .. Len(rfiles)
    /\ rd_updated \in BOOLEAN /\ d_repeat \in BOOLEAN /\ d_file_begin \in BOOLEAN
    /\ d_start_offset_items \in Nat /\ d_length_items \in Nat \ {0} /\ d_items_remaining \in Nat
    /\ d_repeat_cnt \in Nat
    /\ at \in {"idle", "update", "read", "done", "threw", "gone"}
    /\ out \in Seq(ITEM) /\ sought \in Seq(1 .. Len(rfiles))

HandlesOpen ==
    /\ at \in {"idle", "update", "read", "done"} => rd_fp # 0
    /\ rd_new_fp # 0 => rd_new_fp # rd_fp /\ rd_updated
    /\ at = "update" => rd_updated
    /\ at \in {"read", "done"} => rd_new_fp = 0
    /\ \A h \in 1 .. Len(rfiles) :
          rfiles[h].closed = IF at # "gone" /\ h \in {rd_fp, rd_new_fp} THEN 0 ELSE 1

\* d_start_offset_items, d_length_items and d_repeat are the file's.
HoldsRange(h) ==
    /\ d_repeat = RangeOf(h).repeat /\ d_start_offset_items = RangeOf(h).from
    /\ d_length_items = Available(RangeOf(h))

Pending ==
    rd_new_fp # 0 =>
        /\ HoldsRange(rd_new_fp) /\ d_items_remaining = d_length_items
        /\ rfiles[rd_new_fp].pos = d_start_offset_items
        /\ CountOf(rd_new_fp) = 0 /\ ~Moved(rd_new_fp)

\* How far a range of length a has been read when n items are out.
Progress(n, a, repeat, from, remaining, begin, moved, pos) ==
    /\ repeat => /\ remaining = a - (n % a) /\ (begin <=> n % a = 0)
                 /\ ~moved => pos = from + (n % a)
    /\ ~repeat => /\ n <= a /\ remaining = a - n /\ (begin <=> n = 0)
                  /\ ~moved => pos = from + n

\* Whether the shared variables are about the file that is read.
Mine == at \in {"read", "done"} \/ (at = "idle" /\ ~rd_updated)

Reading ==
    Mine => /\ HoldsRange(rd_fp)
            /\ Progress(CountOf(rd_fp), d_length_items, d_repeat, d_start_offset_items,
                        d_items_remaining, d_file_begin, Moved(rd_fp), rfiles[rd_fp].pos)
            /\ at = "done" => d_items_remaining = 0

\* What is out of a file is of its range.
OfRange ==
    /\ \A i \in 1 .. Len(out) : out[i].file \in 1 .. Len(rfiles)
    /\ \A h \in 1 .. Len(rfiles) :
          /\ ~RangeOf(h).repeat => CountOf(h) <= Available(RangeOf(h))
          /\ ~Moved(h) => \A i \in 1 .. Len(out) : out[i].file = h =>
                 out[i].pos = RangeOf(h).from + (RankOf(i) % Available(RangeOf(h)))

EInv == /\ ETypes /\ HandlesOpen /\ Pending /\ Reading /\ OfRange
        /\ BeginsTagged /\ ThrowsAfterSeek

-----------------------------------------------------------------------------
\* A range that fits has an item, and ends within the file.
LEMMA RangeFacts ==
    ASSUME NEW r \in Ranges, Fits(r)
    PROVE  /\ r.size \in Nat /\ r.from \in Nat /\ r.len \in Nat /\ r.repeat \in BOOLEAN
           /\ Available(r) \in Nat \ {0} /\ r.from + Available(r) <= r.size
<1>1. r.size \in Nat /\ r.from \in Nat /\ r.len \in Nat
    BY RangesAssumption
<1>2. r.repeat \in BOOLEAN
    BY RangesAssumption, Zenon
<1> QED
    BY <1>1, <1>2 DEF Fits, Available, Fewer

LEMMA FileFields_ ==
    ASSUME NEW f \in RFILE
    PROVE  f.range \in Ranges /\ f.pos \in Nat /\ f.closed \in Nat
    BY DEF RFILE

LEMMA CloseFacts ==
    ASSUME NEW fs \in Seq(RFILE), NEW h \in 0 .. Len(fs)
    PROVE  /\ Close(fs, h) \in Seq(RFILE) /\ Len(Close(fs, h)) = Len(fs)
           /\ \A g \in 1 .. Len(fs) :
                 /\ Close(fs, h)[g].range = fs[g].range /\ Close(fs, h)[g].pos = fs[g].pos
                 /\ Close(fs, h)[g].closed = IF g = h THEN fs[g].closed + 1 ELSE fs[g].closed
<1>1. CASE h = 0
    BY <1>1 DEF Close
<1>2. CASE h # 0
  <2> DEFINE f == [fs[h] EXCEPT !.closed = @ + 1]
             c == [fs EXCEPT ![h] = f]
  <2>1. Close(fs, h) = c
      BY <1>2 DEF Close
  <2>2. h \in 1 .. Len(fs) /\ fs[h] \in RFILE
      BY <1>2
  <2>5. fs[h].range \in Ranges /\ fs[h].pos \in Nat /\ fs[h].closed \in Nat
      BY <2>2, FileFields_
  <2>6. f.range = fs[h].range /\ f.pos = fs[h].pos /\ f.closed = fs[h].closed + 1
      BY <2>2 DEF RFILE
  <2>3. f.range = fs[h].range /\ f.pos = fs[h].pos /\ f.closed = fs[h].closed + 1 /\ f \in RFILE
      BY <2>2, <2>5, <2>6 DEF RFILE
  <2> HIDE DEF f
  <2>4. c \in Seq(RFILE) /\ Len(c) = Len(fs) /\ \A g \in 1 .. Len(fs) : c[g] = IF g = h THEN f ELSE fs[g]
      BY <2>2, <2>3
  <2> HIDE DEF c
  <2> QED
      BY <2>1, <2>3, <2>4
<1> QED
    BY <1>1, <1>2

CountIn(o, h) == Cardinality({i \in 1 .. Len(o) : o[i].file = h})
RankIn(o, i)  == Cardinality({k \in 1 .. i - 1 : o[k].file = o[i].file})

\* What becomes of ranks and counts when items of a file h are appended.
LEMMA CountNat ==
    ASSUME NEW o \in Seq(ITEM), NEW h
    PROVE  /\ CountIn(o, h) \in Nat
           /\ (\A i \in 1 .. Len(o) : o[i].file # h) => CountIn(o, h) = 0
<1> DEFINE S == {i \in 1 .. Len(o) : o[i].file = h}
<1>1. Len(o) \in Nat /\ IsFiniteSet(1 .. Len(o))
    BY FS_Interval
<1>2. S \subseteq 1 .. Len(o)
    OBVIOUS
<1>3. IsFiniteSet(S) /\ Cardinality(S) \in Nat
    BY <1>1, <1>2, FS_Subset, FS_CardinalityType
<1>4. (\A i \in 1 .. Len(o) : o[i].file # h) => S = {}
    OBVIOUS
<1> QED
    BY <1>3, <1>4, FS_EmptySet DEF CountIn

LEMMA UpTo ==
    ASSUME NEW o \in Seq(ITEM), NEW add \in Seq(ITEM), NEW h \in Nat,
           \A k \in 1 .. Len(add) : add[k].file = h, NEW n \in 0 .. Len(add)
    PROVE  Cardinality({k \in 1 .. Len(o) + n : (o \o add)[k].file = h}) = CountIn(o, h) + n
<1> DEFINE s == o \o add
           A == {k \in 1 .. Len(o) : o[k].file = h}
           B == Len(o) + 1 .. Len(o) + n
           C == {k \in 1 .. Len(o) + n : s[k].file = h}
<1>1. /\ Len(o) \in Nat /\ Len(add) \in Nat /\ n \in Nat /\ Len(s) = Len(o) + Len(add)
      /\ \A k \in 1 .. Len(o) : s[k] = o[k]
      /\ \A k \in 1 .. Len(add) : s[Len(o) + k] = add[k]
    BY ConcatProperties
<1> HIDE DEF s
<1>2. \A k \in B : s[k].file = h
  <2> SUFFICES ASSUME NEW k \in B PROVE s[k].file = h
      OBVIOUS
  <2>1. k - Len(o) \in 1 .. Len(add) /\ k = Len(o) + (k - Len(o))
      BY <1>1
  <2> QED
      BY <1>1, <2>1
<1>3. C = A \cup B
  <2>1. \A k \in C : k \in A \cup B
      BY <1>1
  <2>2. \A k \in A : k \in C
      BY <1>1
  <2>3. \A k \in B : k \in C
      BY <1>1, <1>2
  <2> QED
      BY <2>1, <2>2, <2>3
<1>4. A \cap B = {}
    BY <1>1
<1>5. IsFiniteSet(A) /\ Cardinality(A) \in Nat
  <2>0. IsFiniteSet(1 .. Len(o))
      BY <1>1, FS_Interval
  <2>1. IsFiniteSet(1 .. Len(o)) /\ A \subseteq 1 .. Len(o)
      BY <2>0
  <2> QED
      BY <2>1, FS_Subset, FS_CardinalityType
<1>6. IsFiniteSet(B) /\ Cardinality(B) = n
  <2> DEFINE a == Len(o) + 1
             b == Len(o) + n
  <2>2. a \in Int /\ b \in Int
      BY <1>1
  <2> HIDE DEF a, b
  <2>3. IsFiniteSet(a .. b) /\ Cardinality(a .. b) = IF a > b THEN 0 ELSE b - a + 1
      BY <2>2, FS_Interval
  <2>1. IsFiniteSet(B) /\ Cardinality(B) = IF Len(o) + 1 > Len(o) + n THEN 0 ELSE (Len(o) + n) - (Len(o) + 1) + 1
      BY <2>3 DEF a, b
  <2> HIDE DEF B
  <2> QED
      BY <1>1, <2>1
<1> HIDE DEF A, B, C
<1>7. Cardinality(C) = Cardinality(A) + n
  <2>1. Cardinality(A \cup B) = Cardinality(A) + Cardinality(B) - Cardinality(A \cap B)
      BY <1>5, <1>6, FS_Union
  <2>2. Cardinality(A \cap B) = 0
      BY <1>4, FS_EmptySet
  <2> QED
      BY <1>3, <1>5, <1>6, <2>1, <2>2
<1> QED
    BY <1>7 DEF A, C, s, CountIn

LEMMA Appended ==
    ASSUME NEW o \in Seq(ITEM), NEW add \in Seq(ITEM), NEW h \in Nat,
           \A k \in 1 .. Len(add) : add[k].file = h
    PROVE  /\ Len(o \o add) = Len(o) + Len(add) /\ o \o add \in Seq(ITEM)
           /\ \A i \in 1 .. Len(o) : (o \o add)[i] = o[i] /\ RankIn(o \o add, i) = RankIn(o, i)
           /\ \A k \in 1 .. Len(add) : /\ (o \o add)[Len(o) + k] = add[k]
                                       /\ RankIn(o \o add, Len(o) + k) = CountIn(o, h) + (k - 1)
           /\ CountIn(o \o add, h) = CountIn(o, h) + Len(add)
           /\ \A g \in Nat : g # h => CountIn(o \o add, g) = CountIn(o, g)
<1> DEFINE s == o \o add
<1>1. /\ Len(o) \in Nat /\ Len(add) \in Nat /\ Len(s) = Len(o) + Len(add) /\ s \in Seq(ITEM)
      /\ \A k \in 1 .. Len(o) : s[k] = o[k]
      /\ \A k \in 1 .. Len(add) : s[Len(o) + k] = add[k]
    BY ConcatProperties
<1>2. \A n \in 0 .. Len(add) : Cardinality({k \in 1 .. Len(o) + n : s[k].file = h}) = CountIn(o, h) + n
    BY UpTo
<1> HIDE DEF s
<1>3. ASSUME NEW i \in 1 .. Len(o) PROVE RankIn(s, i) = RankIn(o, i)
  <2>1. \A k \in 1 .. i - 1 : k \in 1 .. Len(o)
      BY <1>1
  <2>2. {k \in 1 .. i - 1 : s[k].file = s[i].file} = {k \in 1 .. i - 1 : o[k].file = o[i].file}
      BY <1>1, <2>1
  <2> QED
      BY <2>2 DEF RankIn
<1>4. ASSUME NEW k \in 1 .. Len(add) PROVE RankIn(s, Len(o) + k) = CountIn(o, h) + (k - 1)
  <2>1. s[Len(o) + k].file = h
      BY <1>1
  <2>2. (Len(o) + k) - 1 = Len(o) + (k - 1) /\ k - 1 \in 0 .. Len(add)
      BY <1>1
  <2>3. RankIn(s, Len(o) + k) = Cardinality({v \in 1 .. Len(o) + (k - 1) : s[v].file = h})
      BY <2>1, <2>2 DEF RankIn
  <2> QED
      BY <1>2, <2>2, <2>3
<1>5. CountIn(s, h) = CountIn(o, h) + Len(add)
  <2>1. Len(add) \in 0 .. Len(add)
      BY <1>1
  <2> QED
      BY <1>1, <1>2, <2>1 DEF CountIn
<1>6. ASSUME NEW g \in Nat, g # h PROVE CountIn(s, g) = CountIn(o, g)
  <2>1. \A i \in 1 .. Len(s) : s[i].file = g => i \in 1 .. Len(o)
    <3> SUFFICES ASSUME NEW i \in 1 .. Len(s), i \notin 1 .. Len(o) PROVE s[i].file # g
        OBVIOUS
    <3>1. i - Len(o) \in 1 .. Len(add) /\ i = Len(o) + (i - Len(o))
        BY <1>1
    <3> QED
        BY <1>1, <3>1, <1>6
  <2>2. {i \in 1 .. Len(s) : s[i].file = g} = {i \in 1 .. Len(o) : o[i].file = g}
    <3>1. \A i \in 1 .. Len(o) : i \in 1 .. Len(s)
        BY <1>1
    <3> QED
        BY <1>1, <2>1, <3>1
  <2> QED
      BY <2>2 DEF CountIn
<1> QED
    BY <1>1, <1>3, <1>4, <1>5, <1>6 DEF s

LEMMA SetPos ==
    ASSUME NEW fs \in Seq(RFILE), NEW h \in 1 .. Len(fs), NEW p \in Nat
    PROVE  LET gs == [fs EXCEPT ![h].pos = p]
           IN  /\ gs \in Seq(RFILE) /\ Len(gs) = Len(fs)
               /\ \A g \in 1 .. Len(fs) :
                     /\ gs[g].range = fs[g].range /\ gs[g].closed = fs[g].closed
                     /\ gs[g].pos = IF g = h THEN p ELSE fs[g].pos
<1> DEFINE f == [fs[h] EXCEPT !.pos = p]
           gs == [fs EXCEPT ![h] = f]
<1>1. fs[h] \in RFILE
    OBVIOUS
<1>2. fs[h].range \in Ranges /\ fs[h].pos \in Nat /\ fs[h].closed \in Nat
    BY <1>1, FileFields_
<1>3. f.range = fs[h].range /\ f.pos = p /\ f.closed = fs[h].closed
    BY <1>1 DEF RFILE
<1>4. f \in RFILE
    BY <1>1, <1>2, <1>3 DEF RFILE
<1> HIDE DEF f
<1>5. gs \in Seq(RFILE) /\ Len(gs) = Len(fs) /\ \A g \in 1 .. Len(fs) : gs[g] = IF g = h THEN f ELSE fs[g]
    BY <1>4
<1>6. gs = [fs EXCEPT ![h].pos = p]
    BY DEF f
<1> HIDE DEF gs
<1> QED
    BY <1>3, <1>5, <1>6

LEMMA SeqWider ==
    ASSUME NEW S, NEW T, S \subseteq T, NEW s \in Seq(S)
    PROVE  s \in Seq(T)
    OBVIOUS

LEMMA CountIs ==
    ASSUME ETypes
    PROVE  /\ \A h : CountOf(h) = CountIn(out, h)
           /\ \A i : RankOf(i) = RankIn(out, i)
           /\ DOMAIN out = 1 .. Len(out)
<1>1. DOMAIN out = 1 .. Len(out)
    BY DEF ETypes
<1> QED
    BY <1>1 DEF CountOf, ItemsOf, CountIn, RankOf, RankIn

-----------------------------------------------------------------------------
\* Opening, closing and seeking leave what is out of a file in its range.
LEMMA FilesStay ==
    ASSUME EInv, AllFit, out' = out, begins' = begins,
           rfiles' \in Seq(RFILE), Len(rfiles') >= Len(rfiles),
           \A g \in 1 .. Len(rfiles) : rfiles'[g].range = rfiles[g].range,
           \A g \in 1 .. Len(rfiles) : Moved(g) => Moved(g)'
    PROVE  OfRange' /\ BeginsTagged'
<1>1. ETypes /\ OfRange /\ BeginsTagged
    BY DEF EInv
<1>2. /\ rfiles \in Seq(RFILE) /\ out \in Seq(ITEM) /\ Len(rfiles) \in Nat /\ Len(rfiles') \in Nat
      /\ DOMAIN out = 1 .. Len(out) /\ Len(out) \in Nat
    BY <1>1 DEF ETypes
<1>3. \A g \in 1 .. Len(rfiles) : RangeOf(g)' = RangeOf(g) /\ g \in 1 .. Len(rfiles')
    BY <1>2 DEF RangeOf
<1>4. /\ \A g : CountOf(g)' = CountOf(g)
      /\ \A i : RankOf(i)' = RankOf(i)
    BY DEF CountOf, ItemsOf, RankOf
<1>5. \A i \in 1 .. Len(out) : out[i].file \in 1 .. Len(rfiles)
    BY <1>1 DEF OfRange
<1>6. OfRange'
  <2> SUFFICES ASSUME NEW h \in 1 .. Len(rfiles')
               PROVE  /\ ~(RangeOf(h)').repeat => CountOf(h)' <= Available(RangeOf(h)')
                      /\ ~Moved(h)' => \A i \in 1 .. Len(out) : out[i].file = h =>
                             out[i].pos = (RangeOf(h)').from + (RankOf(i)' % Available(RangeOf(h)'))
      BY <1>3, <1>5 DEF OfRange
  <2>1. CASE h \in 1 .. Len(rfiles)
      BY <1>1, <1>3, <1>4, <2>1 DEF OfRange
  <2>2. CASE h \notin 1 .. Len(rfiles)
    <3>1. \A i \in 1 .. Len(out) : out[i].file # h
        BY <1>5, <2>2
    <3>2. CountOf(h)' = 0
        BY <1>1, <1>2, <1>4, <3>1, CountNat, CountIs
    <3>3. Available(RangeOf(h)') \in Nat
      <4>1. rfiles'[h] \in RFILE
          BY <1>2
      <4>2. RangeOf(h)' \in Ranges
          BY <4>1, FileFields_ DEF RangeOf
      <4> QED
          BY <4>2, RangeFacts DEF AllFit
    <3> QED
        BY <3>1, <3>2, <3>3
  <2> QED
      BY <2>1, <2>2
<1>7. BeginsTagged'
  <2>1. {b.offset : b \in begins} =
            {i - 1 : i \in {v \in DOMAIN out : RankOf(v) % Available(RangeOf(out[v].file)) = 0}}
      BY <1>1 DEF BeginsTagged
  <2>2. \A v \in DOMAIN out : /\ RankOf(v)' = RankOf(v) /\ out'[v].file = out[v].file
                               /\ RangeOf(out[v].file)' = RangeOf(out[v].file)
      BY <1>2, <1>3, <1>4, <1>5 DEF RangeOf
  <2>3. \A v \in DOMAIN out' : (RankOf(v) % Available(RangeOf(out[v].file)) = 0)'
                                = (RankOf(v) % Available(RangeOf(out[v].file)) = 0)
      BY <2>2 DEF RangeOf
  <2> QED
      BY <2>1, <2>3 DEF BeginsTagged
<1> QED
    BY <1>6, <1>7

LEMMA EInitInv == ASSUME AllFit, EInit PROVE EInv
<1>1. PICK r \in Ranges :
          /\ rfiles = <<Opened(r)>> /\ rd_fp = 1 /\ rd_new_fp = 0 /\ rd_updated = FALSE
          /\ d_repeat = r.repeat /\ d_start_offset_items = r.from
          /\ d_length_items = Available(r) /\ d_items_remaining = Available(r)
          /\ d_file_begin = TRUE /\ d_repeat_cnt = 0
          /\ at = "idle" /\ out = <<>> /\ begins = {} /\ sought = <<>>
    BY DEF EInit
<1>2. /\ r.from \in Nat /\ r.repeat \in BOOLEAN /\ Available(r) \in Nat \ {0}
    BY RangeFacts DEF AllFit
<1>3. /\ Opened(r) \in RFILE /\ Opened(r).range = r /\ Opened(r).pos = r.from /\ Opened(r).closed = 0
    BY <1>2 DEF Opened, RFILE
<1>4. /\ rfiles \in Seq(RFILE) /\ Len(rfiles) = 1 /\ rfiles[1] = Opened(r)
      /\ out \in Seq(ITEM) /\ Len(out) = 0 /\ sought \in Seq(1 .. 1) /\ DOMAIN sought = {} /\ DOMAIN out = {}
    BY <1>1, <1>3
<1>5. ETypes
  <2>1. rd_updated \in BOOLEAN /\ d_repeat \in BOOLEAN /\ d_file_begin \in BOOLEAN
      BY <1>1, <1>2, Zenon
  <2>2. rd_fp \in 0 .. Len(rfiles) /\ rd_new_fp \in 0 .. Len(rfiles)
      BY <1>1, <1>4
  <2>3. sought \in Seq(1 .. Len(rfiles))
      BY <1>4
  <2> QED
      BY <1>1, <1>2, <1>4, <2>1, <2>2, <2>3 DEF ETypes
<1>6. HandlesOpen
    BY <1>1, <1>3, <1>4 DEF HandlesOpen
<1>7. CountOf(1) = 0 /\ ~Moved(1)
  <2>1. CountOf(1) = 0
      BY <1>4, <1>5, CountIs, CountNat
  <2> QED
      BY <1>4, <2>1 DEF Moved
<1>8. Reading
  <2>1. RangeOf(1) = r
      BY <1>3, <1>4 DEF RangeOf
  <2>2. 0 % d_length_items = 0
      BY <1>1, <1>2
  <2> QED
      BY <1>1, <1>2, <1>3, <1>4, <1>7, <2>1, <2>2 DEF Reading, HoldsRange, Progress
<1>9. OfRange
  <2>1. RangeOf(1) = r
      BY <1>3, <1>4 DEF RangeOf
  <2> QED
      BY <1>2, <1>4, <1>7, <2>1 DEF OfRange
<1>10. BeginsTagged
    BY <1>1, <1>4 DEF BeginsTagged
<1> QED
    BY <1>1, <1>5, <1>6, <1>8, <1>9, <1>10 DEF EInv, Pending, ThrowsAfterSeek

\* Closing the waiting file and, maybe, moving on to none.
LEMMA CloseWaiting ==
    ASSUME EInv, AllFit, rfiles' = Close(rfiles, rd_new_fp), rd_new_fp' = 0, rd_updated' = TRUE,
           at \in {"idle", "update", "read"},
           UNCHANGED <<rd_fp, rangevars, d_file_begin, d_repeat_cnt, at, out, begins, sought>>
    PROVE  EInv'
<1>1. ETypes /\ HandlesOpen /\ Reading
    BY DEF EInv
<1>2. rfiles \in Seq(RFILE) /\ rd_new_fp \in 0 .. Len(rfiles) /\ Len(rfiles) \in Nat
    BY <1>1 DEF ETypes
<1>3. /\ rfiles' \in Seq(RFILE) /\ Len(rfiles') = Len(rfiles)
      /\ \A g \in 1 .. Len(rfiles) :
            /\ rfiles'[g].range = rfiles[g].range /\ rfiles'[g].pos = rfiles[g].pos
            /\ rfiles'[g].closed = IF g = rd_new_fp THEN rfiles[g].closed + 1 ELSE rfiles[g].closed
    BY <1>2, CloseFacts
<1>4. /\ rd_fp' = rd_fp /\ d_file_begin' = d_file_begin /\ d_repeat_cnt' = d_repeat_cnt /\ at' = at
      /\ out' = out /\ begins' = begins /\ sought' = sought
      /\ d_repeat' = d_repeat /\ d_start_offset_items' = d_start_offset_items
      /\ d_length_items' = d_length_items /\ d_items_remaining' = d_items_remaining
    BY DEF rangevars
<1>5. ETypes'
  <2>1. rd_new_fp' \in 0 .. Len(rfiles')
      BY <1>2, <1>3
  <2> QED
      BY <1>1, <1>3, <1>4, <2>1, Zenon DEF ETypes
<1>6. OfRange' /\ BeginsTagged'
  <2>1. \A g : Moved(g) => Moved(g)'
      BY <1>4 DEF Moved
  <2> QED
      BY <1>2, <1>3, <1>4, <2>1, FilesStay
<1>7. HandlesOpen'
    BY <1>1, <1>2, <1>3, <1>4 DEF HandlesOpen
<1>8. Reading'
  <2> SUFFICES ASSUME Mine' PROVE Reading'
      BY DEF Reading
  <2>1. Mine /\ at = "read"
      BY <1>1, <1>4 DEF Mine, HandlesOpen
  <2>2. rd_fp \in 1 .. Len(rfiles)
      BY <1>1, <2>1 DEF HandlesOpen, ETypes
  <2>3. RangeOf(rd_fp)' = RangeOf(rd_fp) /\ rfiles'[rd_fp].pos = rfiles[rd_fp].pos
      BY <1>3, <1>4, <2>2 DEF RangeOf
  <2>4. CountOf(rd_fp)' = CountOf(rd_fp) /\ Moved(rd_fp)' = Moved(rd_fp)
      BY <1>4 DEF CountOf, ItemsOf, Moved
  <2> QED
      BY <1>1, <1>4, <2>1, <2>3, <2>4 DEF Reading, HoldsRange
<1> QED
    BY <1>1, <1>4, <1>5, <1>6, <1>7, <1>8 DEF EInv, Pending, ThrowsAfterSeek

LEMMA OpenKeeps ==
    ASSUME EInv, AllFit, ~OpenInGap, NEW r \in Ranges, open_range(r)
    PROVE  EInv'
<1> DEFINE fs == Append(Close(rfiles, rd_new_fp), Opened(r))
           n == Len(rfiles)
<1>1. ETypes /\ HandlesOpen /\ Reading /\ OfRange
    BY DEF EInv
<1>2. rfiles \in Seq(RFILE) /\ rd_new_fp \in 0 .. n /\ rd_fp \in 0 .. n /\ n \in Nat
    BY <1>1 DEF ETypes
<1>3. Fits(r) /\ r.from \in Nat /\ r.repeat \in BOOLEAN /\ Available(r) \in Nat \ {0}
    BY RangeFacts DEF AllFit
<1>4. Opened(r) \in RFILE /\ Opened(r).range = r /\ Opened(r).pos = r.from /\ Opened(r).closed = 0
    BY <1>3 DEF Opened, RFILE
<1>5. /\ fs \in Seq(RFILE) /\ Len(fs) = n + 1 /\ fs[n + 1] = Opened(r)
      /\ \A g \in 1 .. n :
            /\ fs[g].range = rfiles[g].range /\ fs[g].pos = rfiles[g].pos
            /\ fs[g].closed = IF g = rd_new_fp THEN rfiles[g].closed + 1 ELSE rfiles[g].closed
  <2> DEFINE c == Close(rfiles, rd_new_fp)
  <2>1. /\ c \in Seq(RFILE) /\ Len(c) = n
        /\ \A g \in 1 .. n :
            /\ c[g].range = rfiles[g].range /\ c[g].pos = rfiles[g].pos
            /\ c[g].closed = IF g = rd_new_fp THEN rfiles[g].closed + 1 ELSE rfiles[g].closed
      BY <1>2, CloseFacts
  <2> HIDE DEF c
  <2>2. /\ Append(c, Opened(r)) \in Seq(RFILE) /\ Len(Append(c, Opened(r))) = n + 1
        /\ Append(c, Opened(r))[n + 1] = Opened(r)
        /\ \A g \in 1 .. n : Append(c, Opened(r))[g] = c[g]
      BY <1>2, <1>4, <2>1, AppendProperties
  <2> QED
      BY <2>1, <2>2 DEF c
<1>6. /\ at \in {"idle", "update"} /\ rd_new_fp' = Len(fs) /\ rfiles' = fs /\ rd_updated' = TRUE
      /\ d_repeat' = r.repeat /\ d_start_offset_items' = r.from
      /\ d_length_items' = Available(r) /\ d_items_remaining' = Available(r)
      /\ rd_fp' = rd_fp /\ d_file_begin' = d_file_begin /\ d_repeat_cnt' = d_repeat_cnt /\ at' = at
      /\ out' = out /\ begins' = begins /\ sought' = sought
    BY <1>3 DEF open_range, Unread
<1> HIDE DEF fs
<1>7. n + 1 \in 1 .. Len(rfiles') /\ Len(rfiles') = n + 1 /\ rd_new_fp' = n + 1
    BY <1>2, <1>5, <1>6
<1>8. ETypes'
  <2>1. sought' \in Seq(1 .. Len(rfiles'))
    <3>1. 1 .. n \subseteq 1 .. n + 1 /\ sought \in Seq(1 .. n)
        BY <1>1, <1>2 DEF ETypes
    <3> HIDE DEF n
    <3> QED
        BY <1>6, <1>7, <3>1, SeqWider
  <2>2. rd_fp' \in 0 .. Len(rfiles') /\ rd_new_fp' \in 0 .. Len(rfiles')
      BY <1>2, <1>6, <1>7
  <2>3. rd_updated' \in BOOLEAN /\ d_repeat' \in BOOLEAN /\ d_file_begin' \in BOOLEAN
      BY <1>1, <1>3, <1>6, Zenon DEF ETypes
  <2>4. rfiles' \in Seq(RFILE) /\ out' \in Seq(ITEM) /\ at' \in {"idle", "update", "read", "done", "threw", "gone"}
      BY <1>1, <1>5, <1>6 DEF ETypes
  <2>5. d_start_offset_items' \in Nat /\ d_length_items' \in Nat \ {0} /\ d_items_remaining' \in Nat /\ d_repeat_cnt' \in Nat
      BY <1>1, <1>3, <1>6 DEF ETypes
  <2> QED
      BY <2>1, <2>2, <2>3, <2>4, <2>5 DEF ETypes
<1>9. OfRange' /\ BeginsTagged'
  <2>1. \A g : Moved(g) => Moved(g)'
      BY <1>6 DEF Moved
  <2> QED
      BY <1>2, <1>5, <1>6, <2>1, FilesStay
<1>10. HandlesOpen'
  <2>1. \A h \in 1 .. n + 1 : rfiles'[h].closed = IF h \in {rd_fp, n + 1} THEN 0 ELSE 1
    <3> SUFFICES ASSUME NEW h \in 1 .. n + 1 PROVE rfiles'[h].closed = IF h \in {rd_fp, n + 1} THEN 0 ELSE 1
        OBVIOUS
    <3>1. CASE h = n + 1
        BY <1>4, <1>5, <1>6, <3>1
    <3>2. CASE h \in 1 .. n
        BY <1>1, <1>2, <1>5, <1>6, <3>2 DEF HandlesOpen
    <3> QED
        BY <1>2, <3>1, <3>2
  <2>2. rd_new_fp' # rd_fp'
      BY <1>2, <1>6, <1>7
  <2> QED
      BY <1>1, <1>6, <1>7, <2>1, <2>2 DEF HandlesOpen
<1>11. Pending'
  <2>0. PICK w \in Nat : w = n + 1
      BY <1>2
  <2>1. RangeOf(w)' = r /\ rfiles'[w].pos = r.from
      BY <2>0, <1>4, <1>5, <1>6 DEF RangeOf
  <2>2. CountOf(w)' = 0
    <3>1. \A i \in 1 .. Len(out) : out[i].file # w
        BY <2>0, <1>1, <1>2 DEF OfRange
    <3>2. CountIn(out, w) = 0
        BY <1>1, <3>1, CountNat DEF ETypes
    <3>3. CountOf(w) = CountIn(out, w)
        BY <1>1, CountIs
    <3>4. CountOf(w)' = CountOf(w)
        BY <1>6 DEF CountOf, ItemsOf
    <3> QED
        BY <3>2, <3>3, <3>4
  <2>3. ~Moved(w)'
    <3>1. sought \in Seq(1 .. n)
        BY <1>1 DEF ETypes
    <3>2. \A i \in DOMAIN sought : sought[i] # w
        BY <2>0, <1>2, <3>1
    <3> QED
        BY <1>6, <3>2 DEF Moved
  <2>4. rd_new_fp' = w /\ HoldsRange(w)'
      BY <2>0, <2>1, <1>6, <1>7 DEF HoldsRange
  <2>5. HoldsRange(rd_new_fp)' /\ CountOf(rd_new_fp)' = 0 /\ ~Moved(rd_new_fp)' /\ rfiles'[rd_new_fp'].pos = r.from
    <3>1. HoldsRange(rd_new_fp)' /\ rfiles'[rd_new_fp'].pos = r.from
        BY <2>1, <2>4 DEF HoldsRange, RangeOf
    <3>2. CountOf(rd_new_fp)' = 0
        BY <2>2, <2>4 DEF CountOf, ItemsOf
    <3>3. ~Moved(rd_new_fp)'
        BY <2>3, <2>4 DEF Moved
    <3> QED
        BY <3>1, <3>2, <3>3
  <2> QED
      BY <1>6, <2>5 DEF Pending
<1>12. ~Mine'
    BY <1>6 DEF Mine
<1> QED
    BY <1>6, <1>8, <1>9, <1>10, <1>11, <1>12 DEF EInv, Reading, ThrowsAfterSeek

LEMMA MissingKeeps == ASSUME EInv, AllFit, ~OpenInGap, open_missing PROVE EInv'
<1>1. rd_updated = TRUE /\ at \in {"idle", "update"}
  <2>1. rd_updated
      BY DEF EInv, HandlesOpen, open_missing
  <2> QED
      BY <2>1 DEF EInv, ETypes, open_missing, Unread
<1> QED
    BY <1>1, CloseWaiting DEF open_missing

LEMMA CloseFileKeeps == ASSUME EInv, AllFit, close_file PROVE EInv'
    BY CloseWaiting DEF close_file

LEMMA BeginKeeps == ASSUME EInv, AllFit, BeginRead PROVE EInv'
<1>1. /\ at = "idle" /\ at' = IF rd_updated THEN "update" ELSE "read"
      /\ rfiles' = rfiles /\ rd_fp' = rd_fp /\ rd_new_fp' = rd_new_fp /\ rd_updated' = rd_updated
      /\ d_file_begin' = d_file_begin /\ d_repeat_cnt' = d_repeat_cnt
      /\ out' = out /\ begins' = begins /\ sought' = sought
      /\ d_repeat' = d_repeat /\ d_start_offset_items' = d_start_offset_items
      /\ d_length_items' = d_length_items /\ d_items_remaining' = d_items_remaining
    BY DEF BeginRead, filevars, rangevars
<1>2. ETypes /\ HandlesOpen /\ Pending /\ Reading
    BY DEF EInv
<1>3. at' \in {"update", "read"} /\ (at' = "update" => rd_updated) /\ (at' = "read" => ~rd_updated)
    BY <1>1
<1>4. ETypes'
    BY <1>1, <1>2, <1>3, Zenon DEF ETypes
<1>5. OfRange' /\ BeginsTagged'
    BY <1>1, <1>2, FilesStay DEF ETypes, Moved
<1>6. HandlesOpen'
    BY <1>1, <1>2, <1>3 DEF HandlesOpen
<1>7. CountOf(rd_fp)' = CountOf(rd_fp) /\ CountOf(rd_new_fp)' = CountOf(rd_new_fp)
    BY <1>1 DEF CountOf, ItemsOf
<1>8. Moved(rd_fp)' = Moved(rd_fp) /\ Moved(rd_new_fp)' = Moved(rd_new_fp)
    BY <1>1 DEF Moved
<1>9. HoldsRange(rd_fp)' = HoldsRange(rd_fp) /\ HoldsRange(rd_new_fp)' = HoldsRange(rd_new_fp)
    BY <1>1 DEF HoldsRange, RangeOf
<1>10. Pending'
    BY <1>1, <1>2, <1>7, <1>8, <1>9 DEF Pending
<1>11. Reading'
  <2>1. Mine' => Mine /\ at' # "done"
      BY <1>1, <1>3 DEF Mine
  <2> QED
      BY <1>1, <1>2, <1>7, <1>8, <1>9, <2>1 DEF Reading
<1> QED
    BY <1>3, <1>4, <1>5, <1>6, <1>10, <1>11 DEF EInv, ThrowsAfterSeek

LEMMA SeekKeeps ==
    ASSUME EInv, AllFit, NEW point, NEW whence, seek(point, whence)
    PROVE  EInv'
<1> DEFINE p == SeekPoint(point, whence)
<1>1. /\ at \in {"idle", "update", "read"} /\ rd_fp # 0
      /\ p \in d_start_offset_items .. d_start_offset_items + d_length_items - 1
      /\ rfiles' = [rfiles EXCEPT ![rd_fp].pos = p]
      /\ sought' = Append(sought, rd_fp)
      /\ rd_fp' = rd_fp /\ rd_new_fp' = rd_new_fp /\ rd_updated' = rd_updated
      /\ d_file_begin' = d_file_begin /\ d_repeat_cnt' = d_repeat_cnt /\ at' = at
      /\ out' = out /\ begins' = begins
      /\ d_repeat' = d_repeat /\ d_start_offset_items' = d_start_offset_items
      /\ d_length_items' = d_length_items /\ d_items_remaining' = d_items_remaining
    BY DEF seek, rangevars
<1>2. ETypes /\ HandlesOpen /\ Pending /\ Reading
    BY DEF EInv
<1>3. /\ rfiles \in Seq(RFILE) /\ rd_fp \in 1 .. Len(rfiles) /\ p \in Nat /\ Len(rfiles) \in Nat
      /\ sought \in Seq(1 .. Len(rfiles)) /\ rd_new_fp \in 0 .. Len(rfiles)
    BY <1>1, <1>2 DEF ETypes
<1> HIDE DEF p
<1>4. /\ rfiles' \in Seq(RFILE) /\ Len(rfiles') = Len(rfiles)
      /\ \A g \in 1 .. Len(rfiles) :
            /\ rfiles'[g].range = rfiles[g].range /\ rfiles'[g].closed = rfiles[g].closed
            /\ rfiles'[g].pos = IF g = rd_fp THEN p ELSE rfiles[g].pos
  <2> DEFINE gs == [rfiles EXCEPT ![rd_fp].pos = p]
  <2>1. /\ gs \in Seq(RFILE) /\ Len(gs) = Len(rfiles)
        /\ \A g \in 1 .. Len(rfiles) :
            /\ gs[g].range = rfiles[g].range /\ gs[g].closed = rfiles[g].closed
            /\ gs[g].pos = IF g = rd_fp THEN p ELSE rfiles[g].pos
      BY <1>3, SetPos
  <2>2. rfiles' = gs
      BY <1>1
  <2> HIDE DEF gs
  <2> QED
      BY <2>1, <2>2
<1>5. \A g \in Nat : Moved(g)' <=> (Moved(g) \/ g = rd_fp)
  <2>1. /\ Len(sought') = Len(sought) + 1 /\ sought'[Len(sought) + 1] = rd_fp
        /\ \A i \in 1 .. Len(sought) : sought'[i] = sought[i]
        /\ DOMAIN sought = 1 .. Len(sought) /\ DOMAIN sought' = 1 .. Len(sought) + 1 /\ Len(sought) \in Nat
      BY <1>1, <1>3, AppendProperties
  <2>2. {sought'[i] : i \in DOMAIN sought'} = {sought[i] : i \in DOMAIN sought} \cup {rd_fp}
    <3>1. \A i \in DOMAIN sought' : i \in DOMAIN sought \/ i = Len(sought) + 1
        BY <2>1
    <3>2. \A i \in DOMAIN sought : i \in DOMAIN sought' /\ sought'[i] = sought[i]
        BY <2>1
    <3>3. Len(sought) + 1 \in DOMAIN sought'
        BY <2>1
    <3> QED
        BY <2>1, <3>1, <3>2, <3>3
  <2> QED
      BY <2>2 DEF Moved
<1>6. ETypes'
  <2>1. sought' \in Seq(1 .. Len(rfiles'))
      BY <1>1, <1>3, <1>4, AppendProperties
  <2> QED
      BY <1>1, <1>2, <1>4, <2>1, Zenon DEF ETypes
<1>7. OfRange' /\ BeginsTagged'
  <2>1. \A g \in 1 .. Len(rfiles) : Moved(g) => Moved(g)'
      BY <1>5
  <2> QED
      BY <1>1, <1>3, <1>4, <2>1, FilesStay
<1>8. HandlesOpen'
    BY <1>1, <1>2, <1>4 DEF HandlesOpen
<1>9. Pending'
  <2> SUFFICES ASSUME rd_new_fp # 0 PROVE Pending'
      BY <1>1 DEF Pending
  <2>1. rd_new_fp # rd_fp /\ rd_new_fp \in 1 .. Len(rfiles)
      BY <1>2, <1>3 DEF HandlesOpen
  <2>2. PICK w \in 1 .. Len(rfiles) : w = rd_new_fp
      BY <2>1
  <2>3. RangeOf(w)' = RangeOf(w) /\ rfiles'[w].pos = rfiles[w].pos /\ ~Moved(w)' /\ CountOf(w)' = CountOf(w)
    <3>1. CountOf(w)' = CountOf(w)
        BY <1>1 DEF CountOf, ItemsOf
    <3>2. ~Moved(w)'
        BY <1>2, <1>5, <2>1, <2>2 DEF Pending
    <3> QED
        BY <1>4, <2>1, <2>2, <3>1, <3>2 DEF RangeOf
  <2>4. RangeOf(rd_new_fp)' = RangeOf(w)' /\ Moved(rd_new_fp)' = Moved(w)' /\ CountOf(rd_new_fp)' = CountOf(w)'
      BY <1>1, <2>2 DEF RangeOf, Moved, CountOf, ItemsOf
  <2> QED
      BY <1>1, <1>2, <2>2, <2>3, <2>4 DEF Pending, HoldsRange
<1>10. Reading'
  <2> SUFFICES ASSUME Mine PROVE Reading'
      BY <1>1 DEF Reading, Mine
  <2>1. PICK w \in 1 .. Len(rfiles) : w = rd_fp
      BY <1>3
  <2>2. RangeOf(w)' = RangeOf(w) /\ Moved(w)' /\ CountOf(w)' = CountOf(w)
    <3>1. CountOf(w)' = CountOf(w)
        BY <1>1 DEF CountOf, ItemsOf
    <3>2. Moved(w)'
        BY <1>5, <2>1
    <3> QED
        BY <1>4, <2>1, <3>1, <3>2 DEF RangeOf
  <2>3. RangeOf(rd_fp)' = RangeOf(w)' /\ Moved(rd_fp)' = Moved(w)' /\ CountOf(rd_fp)' = CountOf(w)'
      BY <1>1, <2>1 DEF RangeOf, Moved, CountOf, ItemsOf
  <2>4. at' # "done"
      BY <1>1
  <2> QED
      BY <1>1, <1>2, <2>1, <2>2, <2>3, <2>4 DEF Reading, HoldsRange, Progress
<1> QED
    BY <1>1, <1>6, <1>7, <1>8, <1>9, <1>10 DEF EInv, ThrowsAfterSeek

LEMMA UpdateKeeps == ASSUME EInv, AllFit, do_update_source PROVE EInv'
<1>1. /\ at = "update" /\ rfiles' = Close(rfiles, rd_fp)
      /\ rd_fp' = rd_new_fp /\ rd_new_fp' = 0 /\ rd_updated' = FALSE
      /\ d_file_begin' = TRUE /\ at' = IF rd_new_fp = 0 THEN "threw" ELSE "read"
      /\ d_repeat_cnt' = d_repeat_cnt
      /\ out' = out /\ begins' = begins /\ sought' = sought
      /\ d_repeat' = d_repeat /\ d_start_offset_items' = d_start_offset_items
      /\ d_length_items' = d_length_items /\ d_items_remaining' = d_items_remaining
    BY DEF do_update_source, Waiting, rangevars
<1>2. ETypes /\ HandlesOpen /\ Pending /\ Reading
    BY DEF EInv
<1>3. /\ rfiles \in Seq(RFILE) /\ rd_fp \in 0 .. Len(rfiles) /\ Len(rfiles) \in Nat /\ rd_fp # 0
      /\ rd_new_fp \in 0 .. Len(rfiles)
    BY <1>1, <1>2 DEF ETypes, HandlesOpen
<1>4. /\ rfiles' \in Seq(RFILE) /\ Len(rfiles') = Len(rfiles)
      /\ \A g \in 1 .. Len(rfiles) :
            /\ rfiles'[g].range = rfiles[g].range /\ rfiles'[g].pos = rfiles[g].pos
            /\ rfiles'[g].closed = IF g = rd_fp THEN rfiles[g].closed + 1 ELSE rfiles[g].closed
    BY <1>1, <1>3, CloseFacts
<1>5. ETypes'
  <2>1. rd_new_fp' \in 0 .. Len(rfiles') /\ rd_fp' \in 0 .. Len(rfiles')
      BY <1>1, <1>3, <1>4
  <2>2. at' \in {"idle", "update", "read", "done", "threw", "gone"}
      BY <1>1
  <2> QED
      BY <1>1, <1>2, <1>4, <2>1, <2>2, Zenon DEF ETypes
<1>6. OfRange' /\ BeginsTagged'
  <2>1. \A g : Moved(g) => Moved(g)'
      BY <1>1 DEF Moved
  <2> QED
      BY <1>1, <1>3, <1>4, <2>1, FilesStay
<1>7. HandlesOpen'
  <2>1. \A h \in 1 .. Len(rfiles') : rfiles'[h].closed = IF h \in {rd_new_fp, 0} THEN 0 ELSE 1
    <3> SUFFICES ASSUME NEW h \in 1 .. Len(rfiles) PROVE rfiles'[h].closed = IF h \in {rd_new_fp, 0} THEN 0 ELSE 1
        BY <1>4
    <3>1. rfiles[h].closed = IF h \in {rd_fp, rd_new_fp} THEN 0 ELSE 1
        BY <1>1, <1>2 DEF HandlesOpen
    <3>2. rd_fp # rd_new_fp
        BY <1>2, <1>3 DEF HandlesOpen
    <3> QED
        BY <1>4, <3>1, <3>2
  <2>2. at' \in {"threw", "read"} /\ (at' = "read" => rd_new_fp # 0)
      BY <1>1
  <2> QED
      BY <1>1, <2>1, <2>2 DEF HandlesOpen
<1>8. Reading'
  <2> SUFFICES ASSUME rd_new_fp # 0, at' = "read" PROVE Reading'
      BY <1>1 DEF Reading, Mine
  <2>1. PICK w \in 1 .. Len(rfiles) : w = rd_new_fp
      BY <1>3
  <2>2. /\ RangeOf(w)' = RangeOf(w) /\ CountOf(w)' = 0 /\ ~Moved(w)' /\ rfiles'[w].pos = d_start_offset_items
    <3>1. CountOf(w)' = CountOf(w) /\ Moved(w)' = Moved(w)
        BY <1>1 DEF CountOf, ItemsOf, Moved
    <3> QED
        BY <1>2, <1>4, <2>1, <3>1 DEF RangeOf, Pending
  <2>3. RangeOf(rd_fp)' = RangeOf(w)' /\ Moved(rd_fp)' = Moved(w)' /\ CountOf(rd_fp)' = CountOf(w)'
      BY <1>1, <2>1 DEF RangeOf, Moved, CountOf, ItemsOf
  <2>4. HoldsRange(rd_fp)' /\ d_items_remaining = d_length_items
      BY <1>1, <1>2, <2>1, <2>2, <2>3 DEF Pending, HoldsRange
  <2>5. d_length_items \in Nat \ {0} /\ d_start_offset_items \in Nat /\ 0 % d_length_items = 0
      BY <1>2 DEF ETypes
  <2>6. Progress(0, d_length_items, d_repeat, d_start_offset_items, d_items_remaining, TRUE, FALSE, d_start_offset_items)
      BY <2>4, <2>5 DEF Progress
  <2>7. Moved(rd_fp)' = FALSE /\ CountOf(rd_fp)' = 0 /\ rfiles'[rd_fp'].pos = d_start_offset_items
      BY <1>1, <2>1, <2>2, <2>3
  <2> QED
      BY <1>1, <2>4, <2>6, <2>7 DEF Reading, Progress
<1>9. Pending' /\ ThrowsAfterSeek'
    BY <1>1 DEF Pending, ThrowsAfterSeek
<1> QED
    BY <1>5, <1>6, <1>7, <1>8, <1>9 DEF EInv

LEMMA DestroyKeeps == ASSUME EInv, AllFit, DestroySource PROVE EInv'
<1>1. /\ at' = "gone" /\ at # "gone"
      /\ rfiles' = Close(Close(rfiles, rd_fp), rd_new_fp)
      /\ rd_fp' = rd_fp /\ rd_new_fp' = rd_new_fp /\ rd_updated' = rd_updated
      /\ d_file_begin' = d_file_begin /\ d_repeat_cnt' = d_repeat_cnt
      /\ out' = out /\ begins' = begins /\ sought' = sought
      /\ d_repeat' = d_repeat /\ d_start_offset_items' = d_start_offset_items
      /\ d_length_items' = d_length_items /\ d_items_remaining' = d_items_remaining
    BY DEF DestroySource, rangevars
<1>2. ETypes /\ HandlesOpen /\ Pending
    BY DEF EInv
<1>3. /\ rfiles \in Seq(RFILE) /\ rd_fp \in 0 .. Len(rfiles) /\ Len(rfiles) \in Nat
      /\ rd_new_fp \in 0 .. Len(rfiles)
    BY <1>2 DEF ETypes
<1> DEFINE c == Close(rfiles, rd_fp)
<1>4. /\ c \in Seq(RFILE) /\ Len(c) = Len(rfiles)
      /\ \A g \in 1 .. Len(rfiles) :
            /\ c[g].range = rfiles[g].range /\ c[g].pos = rfiles[g].pos
            /\ c[g].closed = IF g = rd_fp THEN rfiles[g].closed + 1 ELSE rfiles[g].closed
    BY <1>3, CloseFacts
<1>5. rfiles' = Close(c, rd_new_fp)
    BY <1>1
<1> HIDE DEF c
<1>6. /\ rfiles' \in Seq(RFILE) /\ Len(rfiles') = Len(rfiles)
      /\ \A g \in 1 .. Len(rfiles) :
            /\ rfiles'[g].range = c[g].range /\ rfiles'[g].pos = c[g].pos
            /\ rfiles'[g].closed = IF g = rd_new_fp THEN c[g].closed + 1 ELSE c[g].closed
  <2>1. rd_new_fp \in 0 .. Len(c)
      BY <1>3, <1>4
  <2> QED
      BY <1>4, <1>5, <2>1, CloseFacts
<1>7. ETypes'
  <2>1. at' \in {"idle", "update", "read", "done", "threw", "gone"}
      BY <1>1
  <2> QED
      BY <1>1, <1>2, <1>6, <2>1, Zenon DEF ETypes
<1>8. OfRange' /\ BeginsTagged'
  <2>1. \A g : Moved(g) => Moved(g)'
      BY <1>1 DEF Moved
  <2>2. \A g \in 1 .. Len(rfiles) : rfiles'[g].range = rfiles[g].range
      BY <1>4, <1>6
  <2> QED
      BY <1>1, <1>3, <1>6, <2>1, <2>2, FilesStay
<1>9. HandlesOpen'
  <2>1. \A h \in 1 .. Len(rfiles') : rfiles'[h].closed = 1
    <3> SUFFICES ASSUME NEW h \in 1 .. Len(rfiles) PROVE rfiles'[h].closed = 1
        BY <1>6
    <3>1. rfiles[h].closed = IF h \in {rd_fp, rd_new_fp} THEN 0 ELSE 1
        BY <1>1, <1>2 DEF HandlesOpen
    <3>2. h = rd_new_fp => h # rd_fp
        BY <1>2, <1>3 DEF HandlesOpen
    <3> QED
        BY <1>4, <1>6, <3>1, <3>2
  <2> QED
      BY <1>1, <1>2, <2>1 DEF HandlesOpen
<1>10. Pending'
  <2> SUFFICES ASSUME rd_new_fp # 0 PROVE Pending'
      BY <1>1 DEF Pending
  <2>1. PICK w \in 1 .. Len(rfiles) : w = rd_new_fp
      BY <1>3
  <2>2. RangeOf(w)' = RangeOf(w) /\ rfiles'[w].pos = rfiles[w].pos /\ Moved(w)' = Moved(w) /\ CountOf(w)' = CountOf(w)
      BY <1>1, <1>4, <1>6 DEF RangeOf, Moved, CountOf, ItemsOf
  <2>4. RangeOf(rd_new_fp)' = RangeOf(w)' /\ Moved(rd_new_fp)' = Moved(w)' /\ CountOf(rd_new_fp)' = CountOf(w)'
      BY <1>1, <2>1 DEF RangeOf, Moved, CountOf, ItemsOf
  <2> QED
      BY <1>1, <1>2, <2>1, <2>2, <2>4 DEF Pending, HoldsRange
<1>11. ~Mine' /\ at' # "threw"
    BY <1>1 DEF Mine
<1> QED
    BY <1>7, <1>8, <1>9, <1>10, <1>11 DEF EInv, Reading, ThrowsAfterSeek

\* How many items of a range precede the i-th item from here, over its length.
LEMMA Ahead ==
    ASSUME NEW a \in Nat \ {0}, NEW n \in Nat, NEW i \in Nat
    PROVE  /\ n % a \in 0 .. a - 1
           /\ i < a - (n % a) => (n + i) % a = (n % a) + i
           /\ i >= a - (n % a) => /\ (n + i) % a = (i - (a - (n % a))) % a
                                 /\ (i - (a - (n % a))) % a \in 0 .. a - 1
<1>1. PICK q \in Nat, m \in 0 .. a - 1 : n = q * a + m /\ n % a = m
    BY DivMod
<1>2. ASSUME i < a - m PROVE (n + i) % a = m + i
  <2>1. n + i = q * a + (m + i) /\ m + i \in 0 .. a - 1
    <3>1. q * a \in Nat
        BY <1>1
    <3> QED
        BY <1>1, <1>2, <3>1
  <2> DEFINE r == m + i
             t == n + i
  <2>2. r \in 0 .. a - 1 /\ t = q * a + r
      BY <2>1
  <2> HIDE DEF r, t
  <2>3. (q * a + r) % a = r
      BY <2>2, ModOf
  <2>4. t % a = r
      BY <2>2, <2>3
  <2> QED
      BY <2>4 DEF r, t
<1>3. ASSUME i >= a - m PROVE (n + i) % a = (i - (a - m)) % a /\ (i - (a - m)) % a \in 0 .. a - 1
  <2> DEFINE x == i - (a - m)
  <2>1. x \in Nat /\ i = x + (a - m)
      BY <1>1, <1>3
  <2> HIDE DEF x
  <2>2. PICK p \in Nat, y \in 0 .. a - 1 : x = p * a + y /\ x % a = y
      BY <2>1, DivMod
  <2>3. (q + 1 + p) * a = q * a + a + p * a /\ q * a \in Nat /\ p * a \in Nat /\ q + 1 + p \in Nat
      BY <1>1, <2>2
  <2>4. n + i = (q + 1 + p) * a + y
      BY <1>1, <2>1, <2>2, <2>3
  <2> DEFINE Q == q + 1 + p
             t == n + i
  <2>6. Q \in Nat /\ t = Q * a + y
      BY <2>3, <2>4
  <2> HIDE DEF Q, t
  <2>7. (Q * a + y) % a = y
      BY <2>2, <2>6, ModOf
  <2>8. t % a = y
      BY <2>6, <2>7
  <2>5. (n + i) % a = y
      BY <2>8 DEF t
  <2> QED
      BY <2>2, <2>5 DEF x
<1> QED
    BY <1>1, <1>2, <1>3

\* A call of m items, at a range of length a of which n items are out: where its
\* items come from, before which of them the range begins, and what remains.
Made_(repeat, m, remaining) == IF repeat THEN m ELSE Fewer(m, remaining)
From_(i, a, from, remaining, pos) ==
    IF i < remaining THEN pos + i ELSE from + ((i - remaining) % a)
Again_(repeat, m, a, remaining) ==
    IF repeat THEN {i \in 0 .. m : i >= remaining /\ (i - remaining) % a = 0} ELSE {}
Starts_(repeat, m, a, remaining, begin) ==
    Again_(repeat, m, a, remaining) \cup (IF begin THEN {0} ELSE {})

CallIs(n, a, m, from, pos, remaining, repeat, begin, moved) ==
    LET made == Made_(repeat, m, remaining)
        again == Again_(repeat, m, a, remaining)
        starts == Starts_(repeat, m, a, remaining, begin)
        marked == {i \in starts : i < made}
        pos2 == IF again = {} THEN pos + made ELSE From_(m, a, from, remaining, pos)
        rem2 == IF again = {} THEN remaining - made ELSE a - ((m - remaining) % a)
    IN  /\ made \in Nat \ {0} /\ rem2 \in Nat /\ pos2 \in Nat
        /\ \A i \in 0 .. made - 1 :
              /\ From_(i, a, from, remaining, pos) \in Nat
              /\ ~moved => From_(i, a, from, remaining, pos) = from + ((n + i) % a)
              /\ i \in marked <=> (n + i) % a = 0
        /\ marked \subseteq 0 .. made - 1
        /\ Progress(n + made, a, repeat, from, rem2, starts \ marked # {}, moved, pos2)

LEMMA CallReads ==
    ASSUME NEW a \in Nat \ {0}, NEW n \in Nat, NEW m \in Nat \ {0}, NEW from \in Nat, NEW pos \in Nat,
           NEW remaining \in Nat \ {0}, NEW repeat \in BOOLEAN, NEW begin \in BOOLEAN, NEW moved \in BOOLEAN,
           Progress(n, a, repeat, from, remaining, begin, moved, pos)
    PROVE  CallIs(n, a, m, from, pos, remaining, repeat, begin, moved)
<1> DEFINE made == Made_(repeat, m, remaining)
           again == Again_(repeat, m, a, remaining)
           starts == Starts_(repeat, m, a, remaining, begin)
           marked == {i \in starts : i < made}
           pos2 == IF again = {} THEN pos + made ELSE From_(m, a, from, remaining, pos)
           rem2 == IF again = {} THEN remaining - made ELSE a - ((m - remaining) % a)
<1>1. made \in Nat \ {0}
    BY DEF Made_, Fewer
<1>2. CASE repeat
  <2>0. n % a \in 0 .. a - 1
      BY DivMod
  <2>1. /\ remaining = a - (n % a) /\ (begin <=> n % a = 0) /\ (~moved => pos = from + (n % a))
        /\ n % a \in 0 .. a - 1 /\ made = m
      BY <1>2, <2>0 DEF Progress, Made_
  <2>2. ASSUME NEW i \in Nat
        PROVE  /\ i < remaining => (n + i) % a = (n % a) + i
               /\ i >= remaining => (n + i) % a = (i - remaining) % a /\ (i - remaining) % a \in 0 .. a - 1
    <3>1. /\ i < a - (n % a) => (n + i) % a = (n % a) + i
          /\ i >= a - (n % a) => /\ (n + i) % a = (i - (a - (n % a))) % a
                                /\ (i - (a - (n % a))) % a \in 0 .. a - 1
        BY Ahead
    <3>2. a - (n % a) = remaining
        BY <2>1
    <3> QED
        BY <3>1, <3>2
  <2> DEFINE Off(i) == (n + i) % a
             Res(i) == (i - remaining) % a
             off == n % a
  <2>3. again = {i \in 0 .. m : i >= remaining /\ Res(i) = 0}
      BY <1>2 DEF Again_
  <2>14. \A i \in Nat : /\ i < remaining => Off(i) = off + i
                        /\ i >= remaining => Off(i) = Res(i) /\ Res(i) \in 0 .. a - 1
      BY <2>2
  <2>15. /\ remaining = a - off /\ (begin <=> off = 0) /\ (~moved => pos = from + off)
         /\ off \in 0 .. a - 1 /\ made = m
      BY <2>1
  <2>16. Res(remaining) = 0
    <3>1. 0 \in 0 .. a - 1 /\ remaining - remaining = 0 * a + 0
        OBVIOUS
    <3>2. (0 * a + 0) % a = 0
        BY <3>1, ModOf
    <3> QED
        BY <3>1, <3>2
  <2> HIDE DEF Off, Res, off, again, starts
  <2>4. \A i \in 0 .. m : i \in starts <=> Off(i) = 0
    <3> SUFFICES ASSUME NEW i \in 0 .. m PROVE i \in starts <=> Off(i) = 0
        OBVIOUS
    <3>1. i \in starts <=> (i \in again \/ (begin /\ i = 0))
        BY DEF Starts_, starts, again
    <3>2. CASE i >= remaining
        BY <2>3, <2>14, <3>1, <3>2
    <3>3. CASE i < remaining
        BY <2>3, <2>14, <2>15, <3>1, <3>3
    <3> QED
        BY <3>2, <3>3
  <2>5. \A i \in starts : i \in 0 .. m
      BY <2>3 DEF Starts_, starts, again
  <2>6. again = {} <=> m < remaining
    <3>1. CASE m < remaining
        BY <2>3, <3>1
    <3>2. CASE m >= remaining
      <4>1. remaining \in 0 .. m /\ remaining >= remaining
          BY <3>2
      <4> QED
          BY <2>3, <2>16, <3>2, <4>1
    <3> QED
        BY <3>1, <3>2
  <2>7. rem2 = a - Off(m) /\ rem2 \in Nat
    <3>1. rem2 = IF again = {} THEN remaining - made ELSE a - Res(m)
        BY DEF Res
    <3> QED
        BY <2>6, <2>14, <2>15, <3>1
  <2>17. ASSUME NEW i \in 0 .. m
         PROVE  /\ From_(i, a, from, remaining, pos) \in Nat
                /\ ~moved => From_(i, a, from, remaining, pos) = from + Off(i)
    <3>1. From_(i, a, from, remaining, pos) = IF i < remaining THEN pos + i ELSE from + Res(i)
        BY DEF From_, Res
    <3> QED
        BY <2>14, <2>15, <3>1
  <2>8. pos2 \in Nat /\ (~moved => pos2 = from + Off(m))
      BY <2>6, <2>14, <2>15, <2>17
  <2>9. ASSUME NEW i \in 0 .. made - 1
        PROVE  /\ From_(i, a, from, remaining, pos) \in Nat
               /\ ~moved => From_(i, a, from, remaining, pos) = from + ((n + i) % a)
               /\ i \in marked <=> (n + i) % a = 0
    <3>1. i \in 0 .. m /\ i < made
        BY <2>15
    <3>2. i \in marked <=> Off(i) = 0
        BY <2>4, <3>1
    <3> QED
        BY <2>17, <3>1, <3>2 DEF Off
  <2>10. marked \subseteq 0 .. made - 1
      BY <2>1, <2>5
  <2>11. starts \ marked # {} <=> Off(m) = 0
    <3>1. \A i \in starts \ marked : i = m
        BY <2>1, <2>5
    <3>2. m \notin marked
        BY <2>1
    <3> QED
        BY <2>4, <3>1, <3>2
  <2>12. Progress(n + made, a, repeat, from, rem2, starts \ marked # {}, moved, pos2)
    <3>1. Off(m) = (n + made) % a
        BY <2>15 DEF Off
    <3> HIDE DEF marked, pos2, rem2, made
    <3> QED
        BY <1>2, <2>7, <2>8, <2>11, <3>1 DEF Progress
  <2> QED
      BY <1>1, <2>7, <2>8, <2>9, <2>10, <2>12, Zenon DEF CallIs, again, starts
<1>3. CASE ~repeat
  <2>1. /\ n <= a /\ remaining = a - n /\ (begin <=> n = 0) /\ (~moved => pos = from + n)
        /\ made <= remaining /\ again = {}
      BY <1>3 DEF Progress, Made_, Fewer, Again_
  <2>2. starts = IF begin THEN {0} ELSE {}
      BY <2>1 DEF Starts_
  <2> HIDE DEF again, starts, made
  <2>3. rem2 = a - (n + made) /\ rem2 \in Nat /\ pos2 = pos + made /\ pos2 \in Nat /\ n + made <= a
      BY <1>1, <2>1
  <2>4. ASSUME NEW i \in 0 .. made - 1
        PROVE  /\ From_(i, a, from, remaining, pos) \in Nat
               /\ ~moved => From_(i, a, from, remaining, pos) = from + ((n + i) % a)
               /\ i \in marked <=> (n + i) % a = 0
    <3>1. i < remaining /\ n + i \in 0 .. a - 1 /\ i \in Nat
        BY <1>1, <2>1
    <3>2. (n + i) % a = n + i
        BY <3>1
    <3>3. i \in marked <=> (begin /\ i = 0)
        BY <1>1, <2>2
    <3>4. i \in marked <=> n + i = 0
        BY <2>1, <3>1, <3>3
    <3>5. /\ From_(i, a, from, remaining, pos) \in Nat
          /\ ~moved => From_(i, a, from, remaining, pos) = from + ((n + i) % a)
        BY <2>1, <3>1, <3>2 DEF From_
    <3> QED
        BY <3>2, <3>4, <3>5
  <2>5. marked \subseteq 0 .. made - 1 /\ ~(starts \ marked # {})
      BY <1>1, <2>2
  <2>6. Progress(n + made, a, repeat, from, rem2, starts \ marked # {}, moved, pos2)
    <3>1. n + made # 0 /\ (~moved => pos2 = from + (n + made))
        BY <1>1, <2>1, <2>3
    <3> HIDE DEF marked, pos2, rem2
    <3> QED
        BY <1>3, <2>1, <2>3, <2>5, <3>1 DEF Progress
  <2> QED
      BY <1>1, <2>3, <2>4, <2>5, <2>6, Zenon DEF CallIs, again, starts, made
<1> QED
    BY <1>2, <1>3
-----------------------------------------------------------------------------
\* A call of work that finds nothing left, or a file that ends too early.
LEMMA ReadStops ==
    ASSUME EInv, AllFit, NEW m \in 1 .. MaxRead, Read(m), at' # "idle"
    PROVE  EInv'
<1> DEFINE first == Fewer(m, d_items_remaining)
<1>1. /\ at = "read"
      /\ \/ d_items_remaining = 0 /\ at' = "done"
         \/ d_items_remaining # 0 /\ rfiles[rd_fp].pos + first > rfiles[rd_fp].range.size /\ at' = "threw"
      /\ rfiles' = rfiles /\ d_items_remaining' = d_items_remaining /\ d_file_begin' = d_file_begin
      /\ d_repeat_cnt' = d_repeat_cnt /\ out' = out /\ begins' = begins
      /\ rd_fp' = rd_fp /\ rd_new_fp' = rd_new_fp /\ rd_updated' = rd_updated /\ d_repeat' = d_repeat
      /\ d_start_offset_items' = d_start_offset_items /\ d_length_items' = d_length_items /\ sought' = sought
    BY DEF Read
<1>2. ETypes /\ HandlesOpen /\ Pending /\ Reading /\ OfRange /\ BeginsTagged
    BY DEF EInv
<1>3. /\ rfiles \in Seq(RFILE) /\ rd_fp \in 1 .. Len(rfiles) /\ Len(rfiles) \in Nat /\ m \in Nat \ {0}
      /\ d_items_remaining \in Nat /\ d_length_items \in Nat \ {0} /\ d_repeat \in BOOLEAN
  <2>1. m \in Nat \ {0}
      BY RangesAssumption
  <2>2. d_repeat \in BOOLEAN
      BY <1>2, Zenon DEF ETypes
  <2> QED
      BY <1>1, <1>2, <2>1, <2>2 DEF ETypes, HandlesOpen
<1>4. at = "read" /\ Mine /\ rd_new_fp = 0
    BY <1>1, <1>2 DEF Mine, HandlesOpen
<1>5. \A h : RangeOf(h)' = RangeOf(h) /\ Moved(h)' = Moved(h) /\ CountOf(h)' = CountOf(h)
    BY <1>1 DEF RangeOf, Moved, CountOf, ItemsOf
<1>6. ETypes'
  <2>1. at' \in {"idle", "update", "read", "done", "threw", "gone"}
      BY <1>1
  <2> QED
      BY <1>1, <1>2, <2>1, Zenon DEF ETypes
<1>7. HandlesOpen'
    BY <1>1, <1>2, <1>4 DEF HandlesOpen
<1>8. Pending'
    BY <1>1, <1>4 DEF Pending
<1>9. Reading'
    BY <1>1, <1>2, <1>4, <1>5 DEF Reading, HoldsRange, Mine
<1>10. OfRange' /\ BeginsTagged'
  <2>1. \A g \in 1 .. Len(rfiles) : rfiles'[g].range = rfiles[g].range
      BY <1>1
  <2>2. Len(rfiles') >= Len(rfiles)
      BY <1>1, <1>3
  <2> QED
      BY <1>1, <1>3, <1>5, <2>1, <2>2, FilesStay
<1>11. ThrowsAfterSeek'
  <2> SUFFICES ASSUME at' = "threw", ~Moved(rd_fp) PROVE FALSE
    <3>1. Moved(rd_fp)' = Moved(rd_fp)
        BY <1>1 DEF Moved
    <3> QED
        BY <3>1 DEF ThrowsAfterSeek
  <2> DEFINE r == rfiles[rd_fp].range
             n == CountOf(rd_fp)
             pos == rfiles[rd_fp].pos
             a == d_length_items
             off == n % a
  <2>1. rfiles[rd_fp] \in RFILE
      BY <1>3
  <2>2. r \in Ranges /\ pos \in Nat
      BY <2>1, FileFields_
  <2>3. r.from \in Nat /\ r.size \in Nat /\ r.from + a <= r.size /\ d_start_offset_items = r.from
    <3>1. d_start_offset_items = r.from /\ a = Available(r)
        BY <1>2, <1>4 DEF Reading, HoldsRange, RangeOf
    <3> QED
        BY <2>2, <3>1, RangeFacts DEF AllFit
  <2>4. n \in Nat /\ off \in 0 .. a - 1
    <3>1. n \in Nat
        BY <1>2, CountNat, CountIs DEF ETypes
    <3> QED
        BY <1>3, <3>1, DivMod
  <2>5. /\ d_repeat => d_items_remaining = a - off /\ pos = r.from + off
        /\ ~d_repeat => d_items_remaining = a - n /\ pos = r.from + n
      BY <1>2, <1>4, <2>3 DEF Reading, Progress
  <2>6. first <= d_items_remaining /\ first \in Nat
      BY <1>3 DEF Fewer
  <2>7. pos + first > r.size
      BY <1>1
  <2> HIDE DEF first, r, n, pos, off
  <2> QED
      BY <1>3, <2>2, <2>3, <2>4, <2>5, <2>6, <2>7, SMTT(30)
<1> QED
    BY <1>6, <1>7, <1>8, <1>9, <1>10, <1>11 DEF EInv

\* The items a call puts out.
Call_(w, made, a, from, remaining, pos) ==
    [k \in 1 .. made |-> [file |-> w, pos |-> From_(k - 1, a, from, remaining, pos)]]

LEMMA ReadGoes ==
    ASSUME EInv, AllFit, NEW m \in 1 .. MaxRead, Read(m), at' = "idle"
    PROVE  EInv'
<1>0. PICK L \in Nat : L = Len(out)
    BY DEF EInv, ETypes
<1> DEFINE a == d_length_items
           n == CountOf(rd_fp)
           pos == rfiles[rd_fp].pos
           made == Made_(d_repeat, m, d_items_remaining)
           again == Again_(d_repeat, m, a, d_items_remaining)
           starts == Starts_(d_repeat, m, a, d_items_remaining, d_file_begin)
           marked == {i \in starts : i < made}
           rem2 == IF again = {} THEN d_items_remaining - made ELSE a - ((m - d_items_remaining) % a)
           pos2 == IF again = {} THEN pos + made ELSE From_(m, a, d_start_offset_items, d_items_remaining, pos)
           add == Call_(rd_fp, made, a, d_start_offset_items, d_items_remaining, pos)
           Mark(i) == [offset |-> L + i, count |-> d_repeat_cnt + Cardinality({v \in again : v <= i})]
<1>1. /\ at = "read" /\ d_items_remaining # 0
      /\ out' = out \o add
      /\ begins' = begins \cup {Mark(i) : i \in marked}
      /\ d_repeat_cnt' = d_repeat_cnt + Cardinality(again)
      /\ d_file_begin' = (starts \ marked # {})
      /\ d_items_remaining' = rem2
      /\ rfiles' = [rfiles EXCEPT ![rd_fp].pos = pos2]
      /\ rd_fp' = rd_fp /\ rd_new_fp' = rd_new_fp /\ rd_updated' = rd_updated /\ d_repeat' = d_repeat
      /\ d_start_offset_items' = d_start_offset_items /\ d_length_items' = d_length_items /\ sought' = sought
    BY <1>0, ZenonT(30) DEF Read, BeginsAt, Again_, Starts_, Made_, From_, Call_, RewindsTo, Rewound
<1>2. ETypes /\ HandlesOpen /\ Pending /\ Reading /\ OfRange /\ BeginsTagged
    BY DEF EInv
<1>3. /\ rfiles \in Seq(RFILE) /\ rd_fp \in 1 .. Len(rfiles) /\ Len(rfiles) \in Nat /\ m \in Nat \ {0}
      /\ d_items_remaining \in Nat \ {0} /\ a \in Nat \ {0} /\ d_start_offset_items \in Nat
      /\ d_repeat \in BOOLEAN /\ d_file_begin \in BOOLEAN /\ d_repeat_cnt \in Nat
      /\ out \in Seq(ITEM) /\ L \in Nat /\ DOMAIN out = 1 .. L
  <2>1. m \in Nat \ {0}
      BY RangesAssumption
  <2>2. d_repeat \in BOOLEAN /\ d_file_begin \in BOOLEAN
      BY <1>2, Zenon DEF ETypes
  <2> QED
      BY <1>0, <1>1, <1>2, <2>1, <2>2 DEF ETypes, HandlesOpen
<1>4. n \in Nat /\ pos \in Nat /\ n = CountIn(out, rd_fp)
  <2>1. rfiles[rd_fp] \in RFILE
      BY <1>3
  <2> QED
      BY <1>2, <1>3, <2>1, FileFields_, CountNat, CountIs
<1>5. /\ Mine /\ rd_new_fp = 0 /\ HoldsRange(rd_fp)
      /\ Progress(n, a, d_repeat, d_start_offset_items, d_items_remaining, d_file_begin, Moved(rd_fp), pos)
    BY <1>1, <1>2 DEF Mine, HandlesOpen, Reading
<1>6. /\ made \in Nat \ {0} /\ rem2 \in Nat /\ pos2 \in Nat
      /\ \A i \in 0 .. made - 1 :
            /\ From_(i, a, d_start_offset_items, d_items_remaining, pos) \in Nat
            /\ ~Moved(rd_fp) => From_(i, a, d_start_offset_items, d_items_remaining, pos)
                                  = d_start_offset_items + ((n + i) % a)
            /\ i \in marked <=> (n + i) % a = 0
      /\ marked \subseteq 0 .. made - 1
      /\ Progress(n + made, a, d_repeat, d_start_offset_items, rem2, starts \ marked # {}, Moved(rd_fp), pos2)
  <2>1. Moved(rd_fp) \in BOOLEAN
      BY DEF Moved
  <2> DEFINE w == Moved(rd_fp)
             from == d_start_offset_items
             remaining == d_items_remaining
             repeat == d_repeat
             begin == d_file_begin
             len == d_length_items
             n0 == CountOf(rd_fp)
             p0 == rfiles[rd_fp].pos
  <2>2. /\ len \in Nat \ {0} /\ n0 \in Nat /\ m \in Nat \ {0} /\ from \in Nat /\ p0 \in Nat
        /\ remaining \in Nat \ {0} /\ repeat \in BOOLEAN /\ begin \in BOOLEAN /\ w \in BOOLEAN
        /\ Progress(n0, len, repeat, from, remaining, begin, w, p0)
      BY <1>3, <1>4, <1>5, <2>1
  <2> HIDE DEF w, from, remaining, repeat, begin, len, n0, p0
  <2>3. CallIs(n0, len, m, from, p0, remaining, repeat, begin, w)
      BY <2>2, CallReads, SMTT(60)
  <2> QED
      BY <2>3, Zenon DEF CallIs, w, from, remaining, repeat, begin, len, n0, p0
<1>7. again \subseteq 0 .. m /\ Cardinality(again) \in Nat
  <2>1. again \subseteq 0 .. m
      BY DEF Again_
  <2>2. IsFiniteSet(0 .. m)
      BY <1>3, FS_Interval
  <2> QED
      BY <2>1, <2>2, FS_Subset, FS_CardinalityType
<1> DEFINE Where(i) == From_(i, a, d_start_offset_items, d_items_remaining, pos)
<1>8. /\ add \in Seq(ITEM) /\ Len(add) = made
      /\ \A k \in 1 .. made : add[k] = [file |-> rd_fp, pos |-> Where(k - 1)]
  <2>1. \A k \in 1 .. made : Where(k - 1) \in Nat
      BY <1>6
  <2>2. add = [k \in 1 .. made |-> [file |-> rd_fp, pos |-> Where(k - 1)]]
      BY DEF Call_
  <2>3. made \in Nat /\ rd_fp \in Nat
      BY <1>3, <1>6
  <2> HIDE DEF add, made, Where
  <2>4. \A k \in 1 .. made : [file |-> rd_fp, pos |-> Where(k - 1)] \in ITEM
      BY <2>1, <2>3 DEF ITEM
  <2> QED
      BY <2>2, <2>3, <2>4
<1> HIDE DEF add
<1>9. \A k \in 1 .. made : /\ add[k].file = rd_fp /\ add[k].pos = Where(k - 1)
                           /\ ~Moved(rd_fp) => add[k].pos = d_start_offset_items + ((n + (k - 1)) % a)
                           /\ k - 1 \in marked <=> (n + (k - 1)) % a = 0
  <2> SUFFICES ASSUME NEW k \in 1 .. made
               PROVE  /\ add[k].file = rd_fp /\ add[k].pos = Where(k - 1)
                      /\ ~Moved(rd_fp) => add[k].pos = d_start_offset_items + ((n + (k - 1)) % a)
                      /\ k - 1 \in marked <=> (n + (k - 1)) % a = 0
      OBVIOUS
  <2>1. k - 1 \in 0 .. made - 1
      BY <1>6
  <2>2. add[k].file = rd_fp /\ add[k].pos = Where(k - 1)
      BY <1>8
  <2> QED
      BY <1>6, <2>1, <2>2
<1>10. /\ \A b : (\E c \in begins' : b = c.offset)
                  <=> ((\E c \in begins : b = c.offset) \/ (\E i \in marked : b = L + i))
  <2>1. \A i : Mark(i).offset = L + i
      OBVIOUS
  <2>2. begins' = begins \cup {Mark(i) : i \in marked}
      BY <1>1
  <2> HIDE DEF Mark, marked
  <2>3. \A c : c \in begins' <=> (c \in begins \/ \E i \in marked : c = Mark(i))
      BY <2>2
  <2> QED
      BY <2>1, <2>3
<1>11. marked \subseteq 0 .. made - 1 /\ made \in Nat \ {0} /\ rem2 \in Nat /\ pos2 \in Nat
    BY <1>6
<1>12. Progress(n + made, a, d_repeat, d_start_offset_items, rem2, starts \ marked # {}, Moved(rd_fp), pos2)
    BY <1>6
<1> HIDE DEF made, again, starts, marked, rem2, pos2, Where
<1>13. /\ rfiles' \in Seq(RFILE) /\ Len(rfiles') = Len(rfiles)
       /\ \A g \in 1 .. Len(rfiles) :
             /\ rfiles'[g].range = rfiles[g].range /\ rfiles'[g].closed = rfiles[g].closed
             /\ rfiles'[g].pos = IF g = rd_fp THEN pos2 ELSE rfiles[g].pos
  <2> DEFINE gs == [rfiles EXCEPT ![rd_fp].pos = pos2]
  <2>1. /\ gs \in Seq(RFILE) /\ Len(gs) = Len(rfiles)
        /\ \A g \in 1 .. Len(rfiles) :
            /\ gs[g].range = rfiles[g].range /\ gs[g].closed = rfiles[g].closed
            /\ gs[g].pos = IF g = rd_fp THEN pos2 ELSE rfiles[g].pos
      BY <1>3, <1>11, SetPos, SMTT(20)
  <2>2. rfiles' = gs
      BY <1>1
  <2> HIDE DEF gs
  <2> QED
      BY <2>1, <2>2
<1>14. /\ Len(out') = L + made /\ out' \in Seq(ITEM) /\ DOMAIN out' = 1 .. L + made
       /\ \A i \in 1 .. L : out'[i] = out[i] /\ RankOf(i)' = RankOf(i)
       /\ \A k \in 1 .. made : out'[L + k] = add[k] /\ RankOf(L + k)' = n + (k - 1)
       /\ CountOf(rd_fp)' = n + made
       /\ \A g \in 1 .. Len(rfiles) : g # rd_fp => CountOf(g)' = CountOf(g)
  <2> DEFINE o2 == out \o add
  <2>1. /\ Len(o2) = L + Len(add) /\ o2 \in Seq(ITEM)
        /\ \A i \in 1 .. L : o2[i] = out[i] /\ RankIn(o2, i) = RankIn(out, i)
        /\ \A k \in 1 .. Len(add) : o2[L + k] = add[k] /\ RankIn(o2, L + k) = CountIn(out, rd_fp) + (k - 1)
        /\ CountIn(o2, rd_fp) = CountIn(out, rd_fp) + Len(add)
        /\ \A g \in Nat : g # rd_fp => CountIn(o2, g) = CountIn(out, g)
    <3>1. PICK w \in Nat : w = rd_fp
        BY <1>3
    <3>2. \A k \in 1 .. Len(add) : add[k].file = w
        BY <1>8, <1>9, <3>1
    <3>3. /\ Len(out \o add) = Len(out) + Len(add) /\ out \o add \in Seq(ITEM)
          /\ \A i \in 1 .. Len(out) : (out \o add)[i] = out[i] /\ RankIn(out \o add, i) = RankIn(out, i)
          /\ \A k \in 1 .. Len(add) : /\ (out \o add)[Len(out) + k] = add[k]
                                      /\ RankIn(out \o add, Len(out) + k) = CountIn(out, w) + (k - 1)
          /\ CountIn(out \o add, w) = CountIn(out, w) + Len(add)
          /\ \A g \in Nat : g # w => CountIn(out \o add, g) = CountIn(out, g)
      <4>1. out \in Seq(ITEM) /\ add \in Seq(ITEM)
          BY <1>3, <1>8
      <4> QED
          BY <3>1, <3>2, <4>1, Appended, ZenonT(30)
    <3> QED
        BY <1>0, <3>1, <3>3, Zenon
  <2>2. out' = o2
      BY <1>1
  <2> HIDE DEF o2
  <2>3. DOMAIN out' = 1 .. Len(out')
      BY <2>1, <2>2
  <2>4. /\ \A i : RankOf(i)' = RankIn(out', i)
        /\ \A g : CountOf(g)' = CountIn(out', g)
      BY <2>3 DEF CountOf, ItemsOf, CountIn, RankOf, RankIn
  <2>5. CountOf(rd_fp)' = CountIn(out', rd_fp)
      BY <1>1, <2>3 DEF CountOf, ItemsOf, CountIn
  <2>6. /\ \A i : RankOf(i) = RankIn(out, i)
        /\ \A g : CountOf(g) = CountIn(out, g)
      BY <1>2, CountIs
  <2>7. Len(out') = L + made /\ out' \in Seq(ITEM) /\ DOMAIN out' = 1 .. L + made
      BY <1>8, <2>1, <2>2, <2>3
  <2>8. \A i \in 1 .. L : out'[i] = out[i] /\ RankOf(i)' = RankOf(i)
      BY <2>1, <2>2, <2>4, <2>6
  <2>9. \A k \in 1 .. made : out'[L + k] = add[k] /\ RankOf(L + k)' = n + (k - 1)
      BY <1>4, <1>8, <2>1, <2>2, <2>4
  <2>10. CountOf(rd_fp)' = n + made
      BY <1>4, <1>8, <2>1, <2>2, <2>5
  <2>11. \A g \in 1 .. Len(rfiles) : g # rd_fp => CountOf(g)' = CountOf(g)
      BY <1>3, <2>1, <2>2, <2>4, <2>6
  <2> QED
      BY <2>7, <2>8, <2>9, <2>10, <2>11
<1>15. \A g \in 1 .. Len(rfiles) : RangeOf(g)' = RangeOf(g) /\ Moved(g)' = Moved(g)
    BY <1>1, <1>13 DEF RangeOf, Moved
<1>16. \A v \in 1 .. L + made : v \notin 1 .. L => \E k \in 1 .. made : v = L + k
  <2> SUFFICES ASSUME NEW v \in 1 .. L + made, v \notin 1 .. L PROVE v - L \in 1 .. made /\ v = L + (v - L)
      OBVIOUS
  <2> QED
      BY <1>3, <1>11
<1>17. ETypes'
  <2>1. at' \in {"idle", "update", "read", "done", "threw", "gone"}
      OBVIOUS
  <2>2. d_file_begin' \in BOOLEAN /\ d_repeat_cnt' \in Nat /\ d_items_remaining' \in Nat
      BY <1>1, <1>3, <1>7, <1>11, SMTT(20)
  <2> QED
      BY <1>1, <1>2, <1>13, <1>14, <2>1, <2>2, Zenon DEF ETypes
<1>18. HandlesOpen'
    BY <1>1, <1>2, <1>3, <1>13 DEF HandlesOpen
<1>19. Pending'
    BY <1>1, <1>5 DEF Pending
<1>20. Reading'
  <2>1. PICK w \in 1 .. Len(rfiles) : w = rd_fp
      BY <1>3
  <2>2. RangeOf(w)' = RangeOf(w) /\ Moved(w)' = Moved(w) /\ rfiles'[w].pos = pos2
      BY <1>13, <1>15, <2>1
  <2>3. RangeOf(rd_fp)' = RangeOf(w)' /\ Moved(rd_fp)' = Moved(w)'
      BY <1>1, <2>1 DEF RangeOf, Moved
  <2>4. HoldsRange(rd_fp)'
      BY <1>1, <1>5, <2>1, <2>2, <2>3 DEF HoldsRange
  <2>5. Progress(CountOf(rd_fp)', d_length_items', d_repeat', d_start_offset_items',
                 d_items_remaining', d_file_begin', Moved(rd_fp)', rfiles'[rd_fp'].pos)
      BY <1>1, <1>12, <1>14, <2>1, <2>2, <2>3, Zenon
  <2> QED
      BY <2>4, <2>5 DEF Reading, Progress
<1>21. OfRange'
  <2>1. \A i \in 1 .. Len(out') : out'[i].file \in 1 .. Len(rfiles')
    <3> SUFFICES ASSUME NEW i \in 1 .. L + made PROVE out'[i].file \in 1 .. Len(rfiles)
        BY <1>13, <1>14
    <3>1. CASE i \in 1 .. L
        BY <1>0, <1>2, <1>14, <3>1 DEF OfRange
    <3>2. CASE i \notin 1 .. L
      <4>1. PICK k \in 1 .. made : i = L + k
          BY <1>16, <3>2
      <4> QED
          BY <1>3, <1>9, <1>14, <4>1
    <3> QED
        BY <3>1, <3>2
  <2>2. ASSUME NEW h \in 1 .. Len(rfiles)
        PROVE  /\ ~(RangeOf(h)').repeat => CountOf(h)' <= Available(RangeOf(h)')
               /\ ~Moved(h)' => \A i \in 1 .. Len(out') : out'[i].file = h =>
                      out'[i].pos = (RangeOf(h)').from + (RankOf(i)' % Available(RangeOf(h)'))
    <3>1. CASE h # rd_fp
      <4>1. \A k \in 1 .. made : out'[L + k].file # h
          BY <1>9, <1>14, <3>1
      <4>2. \A i \in 1 .. Len(out') : out'[i].file = h => i \in 1 .. L
        <5> SUFFICES ASSUME NEW i \in 1 .. L + made, i \notin 1 .. L PROVE out'[i].file # h
            BY <1>14
        <5>1. PICK k \in 1 .. made : i = L + k
            BY <1>16
        <5> QED
            BY <4>1, <5>1
      <4> QED
          BY <1>0, <1>2, <1>14, <1>15, <3>1, <4>2 DEF OfRange
    <3>2. CASE h = rd_fp
      <4>1. RangeOf(h)' = RangeOf(h) /\ Moved(h)' = Moved(h) /\ CountOf(h)' = n + made
        <5>1. CountOf(h)' = CountOf(rd_fp)'
            BY <1>1, <3>2 DEF CountOf, ItemsOf
        <5> QED
            BY <1>14, <1>15, <5>1
      <4>2. a = Available(RangeOf(h)) /\ d_start_offset_items = RangeOf(h).from /\ d_repeat = RangeOf(h).repeat
          BY <1>5, <3>2 DEF HoldsRange
      <4>3. ~RangeOf(h).repeat => CountOf(h)' <= Available(RangeOf(h))
          BY <1>12, <4>1, <4>2 DEF Progress
      <4>4. ASSUME ~Moved(h), NEW i \in 1 .. Len(out'), out'[i].file = h
            PROVE  out'[i].pos = RangeOf(h).from + (RankOf(i)' % Available(RangeOf(h)))
        <5>1. CASE i \in 1 .. L
            BY <1>0, <1>2, <1>14, <4>4, <5>1 DEF OfRange
        <5>2. CASE i \notin 1 .. L
          <6>1. PICK k \in 1 .. made : i = L + k
              BY <1>14, <1>16, <5>2
          <6>2. out'[i] = add[k] /\ RankOf(i)' = n + (k - 1)
              BY <1>14, <6>1
          <6>3. add[k].pos = d_start_offset_items + ((n + (k - 1)) % a)
              BY <1>9, <3>2, <4>4
          <6> QED
              BY <4>2, <6>2, <6>3
        <5> QED
            BY <5>1, <5>2
      <4> QED
          BY <4>1, <4>3, <4>4
    <3> QED
        BY <3>1, <3>2
  <2> QED
      BY <1>13, <2>1, <2>2 DEF OfRange
<1>22. BeginsTagged'
  <2> DEFINE First(v) == RankOf(v) % Available(RangeOf(out[v].file)) = 0
  <2>1. \A v \in 1 .. L : First(v)' <=> First(v)
    <3> SUFFICES ASSUME NEW v \in 1 .. L PROVE First(v)' <=> First(v)
        OBVIOUS
    <3>1. PICK g \in 1 .. Len(rfiles) : g = out[v].file
        BY <1>0, <1>2 DEF OfRange
    <3>2. out'[v].file = g /\ RankOf(v)' = RankOf(v) /\ RangeOf(g)' = RangeOf(g)
        BY <1>14, <1>15, <3>1
    <3>3. RangeOf(out[v].file)' = RangeOf(g)'
        BY <3>2 DEF RangeOf
    <3> QED
        BY <3>1, <3>2, <3>3
  <2>2. \A k \in 1 .. made : First(L + k)' <=> k - 1 \in marked
    <3> SUFFICES ASSUME NEW k \in 1 .. made PROVE First(L + k)' <=> k - 1 \in marked
        OBVIOUS
    <3>1. PICK g \in 1 .. Len(rfiles) : g = rd_fp
        BY <1>3
    <3>2. PICK v \in 1 .. L + made : v = L + k
        BY <1>3, <1>11
    <3>3. out'[v].file = g /\ RankOf(v)' = n + (k - 1) /\ RangeOf(g)' = RangeOf(g)
        BY <1>9, <1>14, <1>15, <3>1, <3>2
    <3>4. RangeOf(out[v].file)' = RangeOf(g)'
        BY <3>3 DEF RangeOf
    <3>5. a = Available(RangeOf(g))
        BY <1>5, <3>1 DEF HoldsRange
    <3>6. First(v)' <=> (n + (k - 1)) % a = 0
        BY <3>3, <3>4, <3>5
    <3>7. First(v)' <=> First(L + k)'
        BY <1>1, <3>2
    <3> QED
        BY <1>9, <3>6, <3>7
  <2>3. {b.offset : b \in begins} = {i - 1 : i \in {v \in 1 .. L : First(v)}}
      BY <1>2, <1>3 DEF BeginsTagged
  <2>4. \A i \in marked : i + 1 \in 1 .. made /\ (i + 1) - 1 = i /\ L + (i + 1) = (L + i) + 1
      BY <1>3, <1>11
  <2>5. \A v \in 1 .. L : v \in 1 .. L + made
      BY <1>3, <1>11
  <2>6. \A k \in 1 .. made : (L + k) - 1 = L + (k - 1) /\ L + k \in 1 .. L + made
      BY <1>3, <1>11
  <2> SUFFICES {b.offset : b \in begins'} = {i - 1 : i \in {v \in 1 .. L + made : First(v)'}}
      BY <1>14 DEF BeginsTagged
  <2> HIDE DEF First
  <2>7. ASSUME NEW b \in {c.offset : c \in begins'}
        PROVE  \E v \in 1 .. L + made : First(v)' /\ b = v - 1
    <3>1. CASE \E c \in begins : b = c.offset
      <4>1. b \in {i - 1 : i \in {v \in 1 .. L : First(v)}}
          BY <2>3, <3>1
      <4>2. PICK v \in 1 .. L : First(v) /\ b = v - 1
          BY <4>1
      <4> QED
          BY <2>1, <2>5, <4>2
    <3>2. CASE \E i \in marked : b = L + i
      <4>1. PICK i \in marked : b = L + i
          BY <3>2
      <4>2. PICK k \in 1 .. made : k = i + 1 /\ k - 1 = i
          BY <2>4
      <4>3. First(L + k)' /\ L + k \in 1 .. L + made /\ b = (L + k) - 1
          BY <2>2, <2>6, <4>1, <4>2
      <4> QED
          BY <4>3
    <3> QED
        BY <1>10, <3>1, <3>2
  <2>8. ASSUME NEW v \in 1 .. L + made, First(v)'
        PROVE  \E c \in begins' : v - 1 = c.offset
    <3>1. CASE v \in 1 .. L
      <4>1. First(v)
          BY <2>1, <2>8, <3>1
      <4>2. v - 1 \in {b.offset : b \in begins}
          BY <2>3, <3>1, <4>1
      <4> QED
          BY <1>10, <4>2
    <3>2. CASE v \notin 1 .. L
      <4>1. PICK k \in 1 .. made : v = L + k
          BY <1>16, <3>2
      <4>2. First(L + k)' <=> First(v)'
          BY <4>1
      <4>3. k - 1 \in marked /\ v - 1 = L + (k - 1)
          BY <2>2, <2>6, <2>8, <4>1, <4>2
      <4> QED
          BY <1>10, <4>3
    <3> QED
        BY <3>1, <3>2
  <2> QED
      BY <2>7, <2>8
<1> QED
    BY <1>17, <1>18, <1>19, <1>20, <1>21, <1>22 DEF EInv, ThrowsAfterSeek

LEMMA ReadKeeps ==
    ASSUME EInv, AllFit, NEW m \in 1 .. MaxRead, Read(m)
    PROVE  EInv'
    BY ReadStops, ReadGoes

LEMMA ENextInv == ASSUME EInv, AllFit, ~OpenInGap, [ENext]_evars PROVE EInv'
<1>1. ASSUME NEW r \in Ranges, open_range(r) PROVE EInv'
    BY <1>1, OpenKeeps
<1>2. CASE open_missing
    BY <1>2, MissingKeeps
<1>3. CASE close_file
    BY <1>3, CloseFileKeeps
<1>4. ASSUME NEW s \in Seeks, seek(s[1], s[2]) PROVE EInv'
    BY <1>4, SeekKeeps
<1>5. CASE BeginRead
    BY <1>5, BeginKeeps
<1>6. CASE do_update_source
    BY <1>6, UpdateKeeps
<1>7. CASE DestroySource
    BY <1>7, DestroyKeeps
<1>8. ASSUME NEW m \in 1 .. MaxRead, Read(m) PROVE EInv'
    BY <1>8, ReadKeeps
<1>9. CASE UNCHANGED evars
  <2>1. /\ UNCHANGED <<rfiles, rd_fp, rd_new_fp, rd_updated, d_file_begin, d_repeat_cnt, at, out, begins, sought>>
        /\ UNCHANGED <<d_repeat, d_start_offset_items, d_length_items, d_items_remaining>>
      BY <1>9 DEF evars, filevars, rangevars
  <2>2. ETypes' /\ HandlesOpen'
      BY <2>1 DEF EInv, ETypes, HandlesOpen
  <2>3. /\ \A h : RangeOf(h)' = RangeOf(h) /\ CountOf(h)' = CountOf(h) /\ Moved(h)' = Moved(h)
        /\ \A i : RankOf(i)' = RankOf(i)
      BY <2>1 DEF RangeOf, CountOf, ItemsOf, Moved, RankOf
  <2>4. Pending' /\ Reading'
      BY <2>1, <2>3 DEF EInv, Pending, Reading, HoldsRange, Mine, Progress
  <2>5. OfRange' /\ ThrowsAfterSeek'
      BY <2>1, <2>3 DEF EInv, OfRange, ThrowsAfterSeek
  <2>6. BeginsTagged'
      BY <2>1, <2>3 DEF EInv, BeginsTagged
  <2> QED
      BY <2>2, <2>4, <2>5, <2>6 DEF EInv
<1> QED
    BY <1>1, <1>2, <1>3, <1>4, <1>5, <1>6, <1>7, <1>8, <1>9 DEF ENext

SourceSound == RangesRead /\ BeginsTagged /\ SourceFilesClosed /\ ThrowsAfterSeek

LEMMA EImplies == ASSUME EInv, AllFit PROVE SourceSound
<1>1. ETypes /\ HandlesOpen /\ Reading /\ OfRange /\ BeginsTagged /\ ThrowsAfterSeek
    BY DEF EInv
<1>2. DOMAIN rfiles = 1 .. Len(rfiles) /\ DOMAIN out = 1 .. Len(out)
    BY <1>1 DEF ETypes
<1>3. SourceFilesClosed
    BY <1>1, <1>2 DEF SourceFilesClosed, HandlesOpen
<1>4. RangesRead
  <2> SUFFICES ASSUME NEW h \in 1 .. Len(rfiles)
               PROVE  /\ ~RangeOf(h).repeat => CountOf(h) <= Available(RangeOf(h))
                      /\ ~Moved(h) => \A i \in ItemsOf(h) :
                            out[i].pos = RangeOf(h).from + (RankOf(i) % Available(RangeOf(h)))
                      /\ at = "done" /\ h = rd_fp => CountOf(h) = Available(RangeOf(h))
      BY <1>2 DEF RangesRead
  <2>1. \A i \in ItemsOf(h) : i \in 1 .. Len(out) /\ out[i].file = h
      BY <1>2 DEF ItemsOf
  <2>2. at = "done" /\ h = rd_fp => CountOf(h) = Available(RangeOf(h))
    <3> SUFFICES ASSUME at = "done", h = rd_fp PROVE CountOf(h) = Available(RangeOf(h))
        OBVIOUS
    <3> DEFINE n == CountOf(h)
               a == d_length_items
               off == n % a
    <3>1. n \in Nat /\ a \in Nat \ {0} /\ d_items_remaining = 0 /\ a = Available(RangeOf(h))
      <4>1. n \in Nat
          BY <1>1, CountNat, CountIs DEF ETypes
      <4> QED
          BY <1>1, <4>1 DEF ETypes, Reading, Mine, HoldsRange
    <3>2. off \in 0 .. a - 1
        BY <3>1, DivMod
    <3>3. /\ d_repeat => d_items_remaining = a - off
          /\ ~d_repeat => d_items_remaining = a - n
        BY <1>1 DEF Reading, Mine, Progress
    <3> HIDE DEF n, off
    <3>4. n = a
        BY <3>1, <3>2, <3>3
    <3> QED
        BY <3>1, <3>4 DEF n
  <2> QED
      BY <1>1, <2>1, <2>2 DEF OfRange
<1> QED
    BY <1>1, <1>3, <1>4 DEF SourceSound

(* For any files whose ranges hold an item, any calls of work and any seeks:  *)
(* file_source reads the range that was asked for, tags where it begins,     *)
(* closes each file once and throws only for a reason.                       *)
THEOREM SourceAlwaysReads ==
    ASSUME AllFit, ~OpenInGap
    PROVE  ESpec => []SourceSound
<1>1. EInit => EInv
    BY EInitInv
<1>2. EInv /\ [ENext]_evars => EInv'
    BY ENextInv
<1>3. EInv => SourceSound
    BY EImplies
<1> QED
    BY <1>1, <1>2, <1>3, PTL DEF ESpec

\* The source of files and the descriptors, side by side.
FileSpec ==
    /\ EInit /\ FdInit
    /\ [][(ENext /\ UNCHANGED fdvars) \/ (FdNext /\ UNCHANGED evars)]_<<evars, fdvars>>

(* Both together, where every range asked for holds an item and no file is   *)
(* opened between the two times work has the mutex.                          *)
THEOREM FilesAlwaysAsAsked ==
    ASSUME AllFit, ~OpenInGap
    PROVE  FileSpec => []FilesAsAsked
<1>1. [(ENext /\ UNCHANGED fdvars) \/ (FdNext /\ UNCHANGED evars)]_<<evars, fdvars>>
          => [ENext]_evars /\ [FdNext]_fdvars
    OBVIOUS
<1>2. FileSpec => ESpec /\ FdSpec
    BY <1>1, PTL DEF FileSpec, ESpec, FdSpec
<1>3. SourceSound /\ CutIntoItems /\ AllWritten => FilesAsAsked
    BY DEF SourceSound, FilesAsAsked
<1> QED
    BY <1>2, <1>3, SourceAlwaysReads, DescriptorsAlwaysWhole, PTL

-----------------------------------------------------------------------------
(***************************************************************************)
(* Packets.  For any messages and any cuts of the stream between the calls   *)
(* of the two blocks, what comes out is what went in.  The invariant says,   *)
(* for the messages gone into the stream, which of those posted they are     *)
(* (idx) and the item where each begins (st): the stream and its tags are   *)
(* theirs, and what has been published are the first of them.                *)
(***************************************************************************)

\* How many messages have gone into the stream, or were dropped in front of it.
Gone == Len(posted) - Len(inbox) - (IF current.len > 0 THEN 1 ELSE 0)

PktTypes ==
    /\ posted \in Seq(Pdus) /\ inbox \in Seq(Pdus) /\ Len(inbox) <= Len(posted)
    /\ current.len \in Nat /\ reqd \in Nat /\ taken \in Nat
    /\ stream \in Seq(0 .. 255) /\ nitems_written \in Nat /\ Len(stream) = nitems_written * d_itemsize
    /\ published \in Seq({Through(pdu) : pdu \in Pdus})

InboxWaits == \A i \in 1 .. Len(inbox) : inbox[i] = posted[Len(posted) - Len(inbox) + i]

\* What calculate_output_stream_length makes of a message.
Curr(pdu) == [len |-> ItemsIn(pdu), meta |-> pdu.meta, vect |-> pdu.vect]

CurrentNext ==
    current.len > 0 => Len(inbox) < Len(posted) /\ current = Curr(posted[Len(posted) - Len(inbox)])

Indexed(K, idx, st) ==
    /\ K \in Nat /\ idx \in [1 .. K -> 1 .. Gone] /\ st \in [1 .. K + 1 -> Nat]
    /\ Passing(Gone) = K /\ st[1] = 0 /\ st[K + 1] = nitems_written
    /\ \A r \in 1 .. K : /\ Passes(idx[r]) /\ Passing(idx[r]) = r
                         /\ st[r + 1] = st[r] + ItemsIn(posted[idx[r]])
    /\ \A i, l \in 1 .. K + 1 : i < l => st[i] < st[l]

\* The bytes of a packet.
Piece(s, first, n) == SubSeq(s, first * d_itemsize + 1, (first + n) * d_itemsize)
Bytes(pdu) == SubSeq(pdu.vect, 1, ItemsIn(pdu) * d_itemsize)

InStream(K, idx, st) ==
    \A r \in 1 .. K : Piece(stream, st[r], ItemsIn(posted[idx[r]])) = Bytes(posted[idx[r]])

TagsOf(idx, st, r) == PacketTags(st[r], posted[idx[r]].meta, ItemsIn(posted[idx[r]]))

Tagged(K, idx, st) ==
    /\ \A t \in tags : t.offset \in Nat
    /\ \A t : (t \in tags /\ t.offset >= taken) <=>
           \E r \in Len(published) + 1 .. K : t \in TagsOf(idx, st, r) /\ (reqd = 0 \/ ~IsLength(t))

ReadUpTo(K, idx, st) ==
    /\ Len(published) <= K /\ taken = st[Len(published) + 1]
    /\ \A n \in DOMAIN published : published[n] = Through(posted[idx[n]])
    /\ reqd # 0 => Len(published) < K /\ reqd = ItemsIn(posted[idx[Len(published) + 1]])

Packets(K, idx, st) == Indexed(K, idx, st) /\ InStream(K, idx, st) /\ Tagged(K, idx, st) /\ ReadUpTo(K, idx, st)

PktInv == PktTypes /\ InboxWaits /\ CurrentNext /\ \E K, idx, st : Packets(K, idx, st)

LEMMA ItemsNat ==
    ASSUME NEW pdu \in Pdus
    PROVE  /\ ItemsIn(pdu) \in Nat /\ ItemsIn(pdu) * d_itemsize \in Nat
           /\ ItemsIn(pdu) * d_itemsize <= Len(pdu.vect)
           /\ Bytes(pdu) \in Seq(0 .. 255) /\ Len(Bytes(pdu)) = ItemsIn(pdu) * d_itemsize
<1> DEFINE v == pdu.vect
           d == d_itemsize
           n == Len(v) \div d
           h == n * d
<1>1. v \in Seq(0 .. 255) /\ d \in Nat \ {0}
    BY PduAssumption
<1> HIDE DEF v, d
<1>2. Len(v) \in Nat /\ DOMAIN v = 1 .. Len(v) /\ \A i \in 1 .. Len(v) : v[i] \in 0 .. 255
    BY <1>1, LenProperties, ElementOfSeq
<1>3. PICK m \in 0 .. d - 1 : n \in Nat /\ Len(v) = n * d + m
    BY <1>1, <1>2, DivMod
<1> HIDE DEF n
<1>4. h \in Nat
    BY <1>1, <1>3
<1>5. h <= Len(v)
    BY <1>3, <1>4
<1> HIDE DEF h
<1>6. \A i \in 1 .. h : v[i] \in 0 .. 255
    BY <1>2, <1>4, <1>5
<1>7. SubSeq(v, 1, h) \in Seq(0 .. 255) /\ Len(SubSeq(v, 1, h)) = IF 1 <= h THEN h - 1 + 1 ELSE 0
    BY <1>4, <1>6, SubSeqProperties
<1>8. Len(SubSeq(v, 1, h)) = h
    BY <1>4, <1>7
<1> QED
    BY <1>3, <1>4, <1>5, <1>7, <1>8 DEF ItemsIn, Bytes, n, v, d, h

\* Counting one more message.
LEMMA PassingNext ==
    ASSUME NEW i \in Nat
    PROVE  /\ Passing(i) \in Nat
           /\ Passing(i + 1) = Passing(i) + (IF Passes(i + 1) THEN 1 ELSE 0)
<1> DEFINE S == {l \in 1 .. i : Passes(l)}
           T == {l \in 1 .. i + 1 : Passes(l)}
           x == i + 1
<1>1. IsFiniteSet(S)
    BY FS_Interval, FS_Subset, IsFiniteSet(1 .. i), S \subseteq 1 .. i
<1>2. x \notin S /\ T = IF Passes(x) THEN S \cup {x} ELSE S
    OBVIOUS
<1> HIDE DEF S, T
<1>3. Cardinality(S) \in Nat
    BY <1>1, FS_CardinalityType
<1>4. Cardinality(S \cup {x}) = Cardinality(S) + 1
    BY <1>1, <1>2, FS_AddElement
<1> QED
    BY <1>2, <1>3, <1>4 DEF Passing, S, T

LEMMA PassingNone == Passing(0) = 0
<1>1. {l \in 1 .. 0 : Passes(l)} = {}
    OBVIOUS
<1> QED
    BY <1>1, FS_EmptySet DEF Passing

LEMMA TagsAt ==
    ASSUME NEW st \in Nat, NEW meta, NEW len, NEW t \in PacketTags(st, meta, len)
    PROVE  t.offset = st
    BY DEF PacketTags, Tag

LEMMA PktInit == DInit => PktInv
<1> SUFFICES ASSUME DInit PROVE PktInv
    OBVIOUS
<1>0. Len(posted) = 0 /\ Len(inbox) = 0 /\ current.len = 0
    BY EmptySeq DEF DInit
<1>1. Gone = 0
    BY <1>0 DEF Gone
<1> USE DEF DInit
<1>2. PktTypes
    BY PduAssumption, EmptySeq DEF PktTypes
<1>3. InboxWaits /\ CurrentNext
    BY DEF InboxWaits, CurrentNext
<1> DEFINE idx == [r \in 1 .. 0 |-> 0]
           st == [r \in 1 .. 1 |-> 0]
<1>4. Indexed(0, idx, st)
    BY <1>1, PassingNone DEF Indexed
<1>5. InStream(0, idx, st) /\ Tagged(0, idx, st) /\ ReadUpTo(0, idx, st)
    BY DEF InStream, Tagged, ReadUpTo
<1> QED
    BY <1>2, <1>3, <1>4, <1>5 DEF PktInv, Packets

\* A message that is posted changes nothing of those before it.
LEMMA PostKeeps == ASSUME PktInv, NEW pdu \in Pdus, Post(pdu) PROVE PktInv'
<1> USE DEF Post
<1>1. PICK K, idx, st : Packets(K, idx, st)
    BY DEF PktInv
<1>2. /\ posted' \in Seq(Pdus) /\ Len(posted') = Len(posted) + 1
      /\ inbox' \in Seq(Pdus) /\ Len(inbox') = Len(inbox) + 1
      /\ \A i \in 1 .. Len(posted) : posted'[i] = posted[i]
      /\ posted'[Len(posted) + 1] = pdu
      /\ \A i \in 1 .. Len(inbox) : inbox'[i] = inbox[i]
      /\ inbox'[Len(inbox) + 1] = pdu
    BY DEF PktInv, PktTypes
<1>3. Len(posted) \in Nat /\ Len(inbox) \in Nat /\ Len(inbox) <= Len(posted)
    BY DEF PktInv, PktTypes
<1>4. PktTypes'
    BY <1>2, <1>3 DEF PktInv, PktTypes, Through, ItemsIn
<1>5. InboxWaits'
  <2> SUFFICES ASSUME NEW i \in 1 .. Len(inbox) + 1
               PROVE  inbox'[i] = posted'[Len(posted) - Len(inbox) + i]
    <3>1. Len(posted') - Len(inbox') = Len(posted) - Len(inbox) /\ Len(inbox') = Len(inbox) + 1
        BY <1>2, <1>3
    <3> QED
        BY <3>1 DEF InboxWaits
  <2>1. CASE i = Len(inbox) + 1
      BY <1>2, <1>3, <2>1
  <2>2. CASE i \in 1 .. Len(inbox)
    <3>1. Len(posted) - Len(inbox) + i \in 1 .. Len(posted)
        BY <1>3, <2>2
    <3>2. inbox[i] = posted[Len(posted) - Len(inbox) + i]
        BY <2>2 DEF PktInv, InboxWaits
    <3>3. inbox'[i] = inbox[i]
        BY <1>2, <2>2
    <3>4. posted'[Len(posted) - Len(inbox) + i] = posted[Len(posted) - Len(inbox) + i]
        BY <1>2, <3>1
    <3> QED
        BY <3>2, <3>3, <3>4
  <2>3. i = Len(inbox) + 1 \/ i \in 1 .. Len(inbox)
      BY <1>3
  <2> QED
      BY <2>1, <2>2, <2>3
<1>6. CurrentNext'
    BY <1>2, <1>3 DEF PktInv, CurrentNext, Curr, ItemsIn
<1>7. Gone' = Gone /\ Gone <= Len(posted) /\ Gone \in Nat
    BY <1>2, <1>3 DEF PktInv, Gone, CurrentNext
<1>8. \A i \in 1 .. Gone : Passes(i)' = Passes(i) /\ (Passes(i)' <=> Passes(i)) /\ posted'[i] = posted[i]
    BY <1>2, <1>3, <1>7 DEF Passes, ItemsIn
<1>9. \A i \in 0 .. Gone : Passing(i)' = Passing(i)
  <2> SUFFICES ASSUME NEW i \in 0 .. Gone PROVE Passing(i)' = Passing(i)
      OBVIOUS
  <2>1. \A l \in 1 .. i : l \in 1 .. Gone
      BY <1>7
  <2>2. {l \in 1 .. i : Passes(l)'} = {l \in 1 .. i : Passes(l)}
      BY <1>8, <2>1
  <2> QED
      BY <2>2 DEF Passing
<1>10. Gone \in 0 .. Gone /\ \A i \in 1 .. Gone : i \in 0 .. Gone
    BY <1>7
<1>11. Indexed(K, idx, st)'
  <2>1. Passing(Gone)' = Passing(Gone)
      BY <1>7, <1>9, <1>10
  <2>2. \A r \in 1 .. K : idx[r] \in 1 .. Gone
      BY <1>1 DEF Packets, Indexed
  <2>3. \A r \in 1 .. K : /\ Passes(idx[r])' <=> Passes(idx[r])
                          /\ Passing(idx[r])' = Passing(idx[r])
                          /\ posted'[idx[r]] = posted[idx[r]]
      BY <1>8, <1>9, <1>10, <2>2
  <2> QED
      BY <1>1, <1>7, <2>1, <2>3 DEF Packets, Indexed, ItemsIn
<1>12. \A r \in 1 .. K : posted'[idx[r]] = posted[idx[r]]
    BY <1>1, <1>8 DEF Packets, Indexed
<1>13. InStream(K, idx, st)'
    BY <1>1, <1>12 DEF Packets, InStream, Piece, Bytes, ItemsIn
<1>14. \A r \in 1 .. K : TagsOf(idx, st, r)' = TagsOf(idx, st, r)
    BY <1>12 DEF TagsOf, PacketTags, Tag, ItemsIn
<1>15. \A r \in Len(published) + 1 .. K : r \in 1 .. K
    BY <1>1 DEF Packets, Indexed, PktInv, PktTypes
<1>16. Tagged(K, idx, st)'
    BY <1>1, <1>14, <1>15 DEF Packets, Tagged, IsLength
<1>17. DOMAIN published = 1 .. Len(published) /\ Len(published) \in Nat /\ K \in Nat
    BY <1>1 DEF PktInv, PktTypes, Packets, Indexed
<1>18. ReadUpTo(K, idx, st)'
  <2>1. \A n \in DOMAIN published : n \in 1 .. K
      BY <1>1, <1>17 DEF Packets, ReadUpTo
  <2>2. Len(published) < K => Len(published) + 1 \in 1 .. K
      BY <1>17
  <2> QED
      BY <1>1, <1>12, <2>1, <2>2 DEF Packets, ReadUpTo, Through, ItemsIn
<1> QED
    BY <1>4, <1>5, <1>6, <1>11, <1>13, <1>16, <1>18 DEF PktInv, Packets

\* The message that goes out in a call that has room for it, with an item or without.
LEMMA TheNext ==
    ASSUME PktInv, NEW n \in Nat \ {0}, ToStream(n), Fetched.len <= n
    PROVE  /\ Gone \in Nat /\ Gone + 1 \in 1 .. Len(posted) /\ Gone' = Gone + 1
           /\ Fetched = Curr(posted[Gone + 1])
           /\ inbox' \in Seq(Pdus) /\ Len(inbox') <= Len(posted) /\ InboxWaits' /\ CurrentNext'
           /\ current'.len = 0
<1>1. /\ posted \in Seq(Pdus) /\ inbox \in Seq(Pdus) /\ Len(posted) \in Nat /\ Len(inbox) \in Nat
      /\ Len(inbox) <= Len(posted) /\ current.len \in Nat /\ posted' = posted
    BY DEF PktInv, PktTypes, ToStream
<1>2. Fetched.len \in Nat /\ (Takes \/ Fetched.len > 0) /\ ~(n < Fetched.len)
  <2>1. CASE Takes
    <3>1. inbox[1] \in Pdus
        BY <1>1, <2>1 DEF Takes
    <3> QED
        BY <2>1, <3>1, ItemsNat DEF Fetched
  <2>2. CASE ~Takes
      BY <1>1, <2>2 DEF ToStream, Fetched
  <2> QED
      BY <2>1, <2>2
<1>3. current' = [Fetched EXCEPT !.len = 0] /\ inbox' = IF Takes THEN Tail(inbox) ELSE inbox
    BY <1>2 DEF ToStream
<1>4. CASE Takes
  <2>1. inbox # <<>> /\ current.len = 0 /\ Len(inbox) > 0
      BY <1>1, <1>4 DEF Takes, Fetches
  <2>2. inbox' \in Seq(Pdus) /\ Len(inbox') = Len(inbox) - 1 /\ \A i \in 1 .. Len(inbox') : inbox'[i] = inbox[i + 1]
      BY <1>1, <1>3, <1>4, <2>1, HeadTailProperties
  <2>3. Fetched = Curr(inbox[1]) /\ inbox[1] = posted[Len(posted) - Len(inbox) + 1]
      BY <1>1, <1>4, <2>1 DEF Fetched, Curr, PktInv, InboxWaits
  <2>4. current'.len = 0
      BY <1>3, <2>3 DEF Curr
  <2>5. Gone = Len(posted) - Len(inbox)
      BY <1>1, <2>1 DEF Gone
  <2>6. Gone' = Gone + 1
    <3>1. Gone' = Len(posted') - Len(inbox') - (IF current'.len > 0 THEN 1 ELSE 0)
        BY DEF Gone
    <3>2. (IF current'.len > 0 THEN 1 ELSE 0) = 0
        BY <2>4
    <3> QED
        BY <1>1, <2>2, <2>5, <3>1, <3>2
  <2>7. InboxWaits'
    <3> SUFFICES ASSUME NEW i \in 1 .. Len(inbox')
                 PROVE  inbox'[i] = posted[Len(posted) - Len(inbox') + i]
        BY <1>1 DEF InboxWaits
    <3>1. i + 1 \in 1 .. Len(inbox) /\ Len(posted) - Len(inbox') + i = Len(posted) - Len(inbox) + (i + 1)
        BY <1>1, <2>2
    <3> QED
        BY <2>2, <3>1 DEF PktInv, InboxWaits
  <2>8. CurrentNext'
      BY <2>4 DEF CurrentNext
  <2> QED
      BY <1>1, <2>1, <2>2, <2>3, <2>4, <2>5, <2>6, <2>7, <2>8
<1>5. CASE ~Takes
  <2>1. Fetched = current /\ current.len > 0
      BY <1>2, <1>5 DEF Fetched
  <2>2. Len(inbox) < Len(posted) /\ current = Curr(posted[Len(posted) - Len(inbox)])
      BY <2>1 DEF PktInv, CurrentNext
  <2>3. current'.len = 0
      BY <1>3, <2>1, <2>2 DEF Curr
  <2>4. Gone = Len(posted) - Len(inbox) - 1 /\ Gone' = Len(posted) - Len(inbox)
      BY <1>1, <1>3, <1>5, <2>1, <2>3 DEF Gone
  <2>5. InboxWaits' /\ CurrentNext' /\ inbox' = inbox
      BY <1>1, <1>3, <1>5, <2>3 DEF InboxWaits, CurrentNext, PktInv
  <2> QED
      BY <1>1, <2>1, <2>2, <2>3, <2>4, <2>5
<1> QED
    BY <1>4, <1>5

\* A message without room for it is kept, and waits for a call with more.
LEMMA WaitKeeps ==
    ASSUME PktInv, NEW n \in Nat \ {0}, ToStream(n), n < Fetched.len
    PROVE  PktInv'
<1>1. /\ posted \in Seq(Pdus) /\ inbox \in Seq(Pdus) /\ Len(posted) \in Nat /\ Len(inbox) \in Nat
      /\ Len(inbox) <= Len(posted) /\ current.len \in Nat /\ posted' = posted
    BY DEF PktInv, PktTypes, ToStream
<1>2. /\ current' = Fetched /\ inbox' = IF Takes THEN Tail(inbox) ELSE inbox
      /\ UNCHANGED <<stream, nitems_written, tags, posted, reqd, taken, published>>
    BY DEF ToStream
<1>3. PICK K, idx, st : Packets(K, idx, st)
    BY DEF PktInv
<1>4. /\ Gone' = Gone /\ InboxWaits' /\ CurrentNext' /\ current'.len \in Nat
      /\ inbox' \in Seq(Pdus) /\ Len(inbox') <= Len(posted)
  <2>1. CASE Takes
    <3>1. inbox # <<>> /\ current.len = 0 /\ Len(inbox) > 0
        BY <1>1, <2>1 DEF Takes, Fetches
    <3>2. inbox' \in Seq(Pdus) /\ Len(inbox') = Len(inbox) - 1 /\ \A i \in 1 .. Len(inbox') : inbox'[i] = inbox[i + 1]
        BY <1>1, <1>2, <2>1, <3>1, HeadTailProperties
    <3>3. Fetched = Curr(inbox[1]) /\ inbox[1] = posted[Len(posted) - Len(inbox) + 1] /\ inbox[1] \in Pdus
        BY <1>1, <2>1, <3>1 DEF Fetched, Curr, PktInv, InboxWaits
    <3>4. Fetched.len \in Nat /\ Fetched.len > 0
        BY <3>3, ItemsNat DEF Curr
    <3>5. Gone' = Gone
      <4>1. Gone' = Len(posted') - Len(inbox') - (IF current'.len > 0 THEN 1 ELSE 0)
          BY DEF Gone
      <4>2. (IF current'.len > 0 THEN 1 ELSE 0) = 1 /\ (IF current.len > 0 THEN 1 ELSE 0) = 0
          BY <1>2, <3>1, <3>4
      <4> QED
          BY <1>1, <3>2, <4>1, <4>2 DEF Gone
    <3>6. InboxWaits'
      <4> SUFFICES ASSUME NEW i \in 1 .. Len(inbox')
                   PROVE  inbox'[i] = posted[Len(posted) - Len(inbox') + i]
          BY <1>1 DEF InboxWaits
      <4>1. i + 1 \in 1 .. Len(inbox) /\ Len(posted) - Len(inbox') + i = Len(posted) - Len(inbox) + (i + 1)
          BY <1>1, <3>2
      <4> QED
          BY <3>2, <4>1 DEF PktInv, InboxWaits
    <3>7. Len(posted) - Len(inbox') = Len(posted) - Len(inbox) + 1
        BY <1>1, <3>2
    <3>8. CurrentNext'
        BY <1>1, <1>2, <3>1, <3>2, <3>3, <3>7 DEF CurrentNext, Curr, ItemsIn
    <3> QED
        BY <1>1, <1>2, <3>2, <3>4, <3>5, <3>6, <3>8
  <2>2. CASE ~Takes
    <3>1. current' = current /\ inbox' = inbox
        BY <1>2, <2>2 DEF Fetched
    <3> QED
        BY <1>1, <3>1 DEF Gone, PktInv, InboxWaits, CurrentNext, Curr, ItemsIn
  <2> QED
      BY <2>1, <2>2
<1>5. PktTypes'
    BY <1>1, <1>2, <1>4 DEF PktInv, PktTypes, Through, ItemsIn
<1>6. \A i : Passes(i)' = Passes(i) /\ Passing(i)' = Passing(i)
    BY <1>2 DEF Passes, Passing, ItemsIn
<1>7. Indexed(K, idx, st)'
    BY <1>2, <1>3, <1>4, <1>6 DEF Packets, Indexed, ItemsIn
<1>8. InStream(K, idx, st)'
    BY <1>2, <1>3 DEF Packets, InStream, Piece, Bytes, ItemsIn
<1>9. Tagged(K, idx, st)'
    BY <1>2, <1>3 DEF Packets, Tagged, TagsOf, PacketTags, Tag, IsLength, ItemsIn
<1>10. ReadUpTo(K, idx, st)'
    BY <1>2, <1>3 DEF Packets, ReadUpTo, Through, ItemsIn
<1> QED
    BY <1>4, <1>5, <1>7, <1>8, <1>9, <1>10 DEF PktInv, Packets

\* Pieces of a stream that grows.
LEMMA PieceKept ==
    ASSUME NEW s \in Seq(0 .. 255), NEW t \in Seq(0 .. 255), NEW first \in Nat, NEW n \in Nat \ {0},
           (first + n) * d_itemsize <= Len(s)
    PROVE  Piece(s \o t, first, n) = Piece(s, first, n)
<1> DEFINE d == d_itemsize
           lo == first * d
           hi == (first + n) * d
<1>1. d \in Nat \ {0}
    BY PduAssumption
<1>2. lo \in Nat /\ hi = lo + n * d /\ n * d \in Nat /\ n * d > 0
    BY <1>1
<1> HIDE DEF lo, hi, d
<1>3. lo + 1 \in 1 .. Len(s) /\ hi \in 1 .. Len(s)
    BY <1>2 DEF hi, d
<1> QED
    BY <1>3, SubSeqOfConcat1 DEF Piece, lo, hi, d

LEMMA PieceNew ==
    ASSUME NEW s \in Seq(0 .. 255), NEW t \in Seq(0 .. 255), NEW first \in Nat, NEW n \in Nat \ {0},
           Len(s) = first * d_itemsize, Len(t) = n * d_itemsize
    PROVE  Piece(s \o t, first, n) = t
<1> DEFINE d == d_itemsize
           lo == Len(s) + 1
           hi == (first + n) * d
<1>1. d \in Nat \ {0}
    BY PduAssumption
<1>2. Len(s) \in Nat /\ Len(t) \in Nat /\ hi = Len(s) + Len(t) /\ Len(t) > 0
    BY <1>1
<1> HIDE DEF hi, d
<1>3. lo \in Len(s) + 1 .. Len(s) + Len(t) /\ hi \in Len(s) + 1 .. Len(s) + Len(t)
    BY <1>2
<1>4. lo - Len(s) = 1 /\ hi - Len(s) = Len(t)
    BY <1>2
<1>5. Piece(s \o t, first, n) = SubSeq(s \o t, lo, hi)
    BY DEF Piece, hi, d
<1> HIDE DEF lo
<1>6. SubSeq(s \o t, lo, hi) = SubSeq(t, lo - Len(s), hi - Len(s))
    BY <1>3, SubSeqOfConcat2
<1>7. SubSeq(t, 1, Len(t)) = t
    BY SubSeqFull
<1> QED
    BY <1>4, <1>5, <1>6, <1>7

\* A message of less than an item goes no further.
LEMMA DropKeeps ==
    ASSUME PktInv, NEW n \in Nat \ {0}, ToStream(n), Fetched.len = 0
    PROVE  PktInv'
<1>1. /\ Gone \in Nat /\ Gone + 1 \in 1 .. Len(posted) /\ Gone' = Gone + 1
      /\ Fetched = Curr(posted[Gone + 1])
      /\ inbox' \in Seq(Pdus) /\ Len(inbox') <= Len(posted) /\ InboxWaits' /\ CurrentNext'
      /\ current'.len = 0
    BY TheNext
<1>2. UNCHANGED <<posted, reqd, taken, published>>
    BY DEF ToStream
<1>3. /\ nitems_written' = nitems_written + Fetched.len /\ tags' = tags
      /\ stream' = stream \o SubSeq(Fetched.vect, 1, Fetched.len * d_itemsize)
  <2>1. ~(n < Fetched.len)
      OBVIOUS
  <2> QED
      BY <2>1 DEF ToStream
<1>4. SubSeq(Fetched.vect, 1, Fetched.len * d_itemsize) = <<>>
  <2>1. Fetched.len * d_itemsize = 0
      BY PduAssumption
  <2> QED
      BY <2>1, SubSeqEmpty
<1>5. nitems_written' = nitems_written /\ stream' = stream
  <2>1. stream \in Seq(0 .. 255) /\ nitems_written \in Nat
      BY DEF PktInv, PktTypes
  <2>2. stream \o <<>> = stream
      BY <2>1, ConcatEmptySeq
  <2>3. stream' = stream
      BY <1>3, <1>4, <2>2
  <2>4. nitems_written' = nitems_written + Fetched.len
      BY <1>3
  <2>5. nitems_written' = nitems_written
      BY <2>1, <2>4
  <2> QED
      BY <2>3, <2>5
<1>6. PICK K, idx, st : Packets(K, idx, st)
    BY DEF PktInv
<1>7. PktTypes'
    BY <1>1, <1>2, <1>5 DEF PktInv, PktTypes, Through, ItemsIn
<1>8. \A i : (Passes(i)' <=> Passes(i)) /\ Passing(i)' = Passing(i)
    BY <1>2 DEF Passes, Passing, ItemsIn
<1>9. ~Passes(Gone + 1)
    BY <1>1 DEF Passes, Curr
<1>10. Passing(Gone + 1) = Passing(Gone)
    BY <1>1, <1>9, PassingNext
<1>11. idx \in [1 .. K -> 1 .. Gone + 1]
    BY <1>1, <1>6 DEF Packets, Indexed
<1>12. Indexed(K, idx, st)'
    BY <1>1, <1>2, <1>5, <1>6, <1>8, <1>10, <1>11 DEF Packets, Indexed, ItemsIn
<1>13. InStream(K, idx, st)'
    BY <1>2, <1>5, <1>6 DEF Packets, InStream, Piece, Bytes, ItemsIn
<1>14. Tagged(K, idx, st)'
    BY <1>2, <1>3, <1>6 DEF Packets, Tagged, TagsOf, PacketTags, Tag, IsLength, ItemsIn
<1>15. ReadUpTo(K, idx, st)'
    BY <1>2, <1>6 DEF Packets, ReadUpTo, Through, ItemsIn
<1> QED
    BY <1>1, <1>7, <1>12, <1>13, <1>14, <1>15 DEF PktInv, Packets

\* A message with room for it becomes the last packet of the stream.
LEMMA SendKeeps ==
    ASSUME PktInv, NEW n \in Nat \ {0}, ToStream(n), Fetched.len > 0, Fetched.len <= n
    PROVE  PktInv'
<1> DEFINE f == Gone + 1
           pdu == posted[f]
           k == ItemsIn(pdu)
           w == nitems_written
<1>1. /\ Gone \in Nat /\ f \in 1 .. Len(posted) /\ Gone' = Gone + 1
      /\ Fetched = Curr(pdu)
      /\ inbox' \in Seq(Pdus) /\ Len(inbox') <= Len(posted) /\ InboxWaits' /\ CurrentNext'
      /\ current'.len = 0
    BY TheNext
<1>2. Fetched.len = k /\ Fetched.meta = pdu.meta /\ Fetched.vect = pdu.vect
    BY <1>1 DEF Curr
<1>3. pdu \in Pdus
    BY <1>1, ElementOfSeq DEF PktInv, PktTypes
<1>4. k \in Nat /\ k > 0
    BY <1>2, <1>3, ItemsNat
<1>5. UNCHANGED <<posted, reqd, taken, published>>
    BY DEF ToStream
<1>6. /\ nitems_written' = w + k /\ tags' = tags \cup PacketTags(w, pdu.meta, k)
      /\ stream' = stream \o Bytes(pdu)
  <2>1. ~(n < Fetched.len) /\ Fetched.len # 0
      BY <1>2, <1>4
  <2> QED
      BY <1>2, <2>1 DEF ToStream, Bytes
<1>7. PICK K, idx, st : Packets(K, idx, st)
    BY DEF PktInv
<1>8. /\ w \in Nat /\ stream \in Seq(0 .. 255) /\ Len(stream) = w * d_itemsize /\ d_itemsize \in Nat \ {0}
      /\ Bytes(pdu) \in Seq(0 .. 255) /\ Len(Bytes(pdu)) = k * d_itemsize
    BY <1>3, ItemsNat, PduAssumption DEF PktInv, PktTypes
<1>9. stream' \in Seq(0 .. 255) /\ Len(stream') = (w + k) * d_itemsize
  <2>1. stream' \in Seq(0 .. 255) /\ Len(stream') = w * d_itemsize + k * d_itemsize
    <3>1. ASSUME NEW s \in Seq(0 .. 255), NEW t \in Seq(0 .. 255)
          PROVE  s \o t \in Seq(0 .. 255) /\ Len(s \o t) = Len(s) + Len(t)
        BY ConcatProperties
    <3>2. LET both == stream \o Bytes(pdu)
          IN  both \in Seq(0 .. 255) /\ Len(both) = Len(stream) + Len(Bytes(pdu))
        BY <1>8, <3>1
    <3> QED
        BY <1>6, <1>8, <3>2
  <2> QED
      BY <1>4, <1>8, <2>1
<1>10. PktTypes'
  <2>1. posted' \in Seq(Pdus) /\ reqd' \in Nat /\ taken' \in Nat
      BY <1>5 DEF PktInv, PktTypes
  <2>2. published' \in Seq({Through(p) : p \in Pdus})
      BY <1>5 DEF PktInv, PktTypes
  <2>3. current'.len \in Nat /\ nitems_written' \in Nat /\ Len(inbox') <= Len(posted')
      BY <1>1, <1>4, <1>5, <1>6, <1>8
  <2>4. Len(stream') = nitems_written' * d_itemsize
      BY <1>6, <1>9
  <2> QED
      BY <1>1, <1>9, <2>1, <2>2, <2>3, <2>4 DEF PktTypes, Through, ItemsIn
<1>11. \A i : (Passes(i)' <=> Passes(i)) /\ Passing(i)' = Passing(i)
    BY <1>5 DEF Passes, Passing, ItemsIn
<1>12. Passes(f) /\ Passing(f) = K + 1 /\ K \in Nat
    BY <1>1, <1>4, <1>7, PassingNext DEF Packets, Indexed, Passes
<1>13. /\ idx \in [1 .. K -> 1 .. Gone] /\ st \in [1 .. K + 1 -> Nat] /\ st[1] = 0 /\ st[K + 1] = w
       /\ \A r \in 1 .. K : /\ Passes(idx[r]) /\ Passing(idx[r]) = r
                            /\ st[r + 1] = st[r] + ItemsIn(posted[idx[r]])
       /\ \A i, l \in 1 .. K + 1 : i < l => st[i] < st[l]
    BY <1>7 DEF Packets, Indexed
<1>14a. PICK idx2 :
        idx2 \in [1 .. K + 1 -> 1 .. Gone + 1] /\ idx2[K + 1] = f /\ \A r \in 1 .. K : idx2[r] = idx[r]
  <2> DEFINE idx3 == [r \in 1 .. K + 1 |-> IF r = K + 1 THEN f ELSE idx[r]]
  <2>1. idx3 \in [1 .. K + 1 -> 1 .. Gone + 1]
      BY <1>1, <1>12, <1>13
  <2>2. idx3[K + 1] = f /\ \A r \in 1 .. K : idx3[r] = idx[r]
      BY <1>12
  <2> HIDE DEF idx3
  <2> QED
      BY <2>1, <2>2
<1>14b. PICK at2 :
        at2 \in [1 .. K + 2 -> Nat] /\ at2[K + 2] = w + k /\ \A r \in 1 .. K + 1 : at2[r] = st[r]
  <2> DEFINE at3 == [r \in 1 .. K + 2 |-> IF r = K + 2 THEN w + k ELSE st[r]]
  <2> HIDE DEF w, k
  <2>1. at3 \in [1 .. K + 2 -> Nat]
      BY <1>4, <1>8, <1>12, <1>13
  <2>2. at3[K + 2] = w + k /\ \A r \in 1 .. K + 1 : at3[r] = st[r]
      BY <1>12
  <2> HIDE DEF at3
  <2> QED
      BY <2>1, <2>2
<1> HIDE DEF k, pdu, w, f
<1>14. /\ idx2 \in [1 .. K + 1 -> 1 .. Gone + 1] /\ idx2[K + 1] = f /\ \A r \in 1 .. K : idx2[r] = idx[r]
       /\ at2 \in [1 .. K + 2 -> Nat] /\ at2[K + 2] = w + k /\ \A r \in 1 .. K + 1 : at2[r] = st[r]
    BY <1>14a, <1>14b
<1>15. Indexed(K + 1, idx2, at2)'
  <2>1. Passing(Gone + 1) = K + 1 /\ at2[1] = 0 /\ at2[(K + 1) + 1] = w + k /\ 1 .. K + 2 = 1 .. (K + 1) + 1
      BY <1>12, <1>13, <1>14 DEF f
  <2>2. ASSUME NEW r \in 1 .. K + 1
        PROVE  /\ Passes(idx2[r]) /\ Passing(idx2[r]) = r
               /\ at2[r + 1] = at2[r] + ItemsIn(posted[idx2[r]])
    <3>1. CASE r = K + 1
      <4>1. at2[r] = w /\ at2[r + 1] = w + k /\ idx2[r] = f
          BY <1>12, <1>13, <1>14, <3>1
      <4> QED
          BY <1>12, <3>1, <4>1 DEF k, pdu
    <3>2. CASE r \in 1 .. K
      <4>1. r \in 1 .. K + 1 /\ r + 1 \in 1 .. K + 1
          BY <1>12, <3>2
      <4> QED
          BY <1>13, <1>14, <3>2, <4>1
    <3> QED
        BY <1>12, <3>1, <3>2
  <2>3. ASSUME NEW i \in 1 .. K + 2, NEW l \in 1 .. K + 2, i < l PROVE at2[i] < at2[l]
    <3>1. i \in 1 .. K + 1 /\ at2[i] = st[i] /\ st[i] <= w /\ st[i] \in Nat
      <4>1. i \in 1 .. K + 1 /\ K + 1 \in 1 .. K + 1
          BY <1>12, <2>3
      <4>2. st[i] \in Nat /\ at2[i] = st[i]
          BY <1>13, <1>14, <4>1
      <4>3. i = K + 1 \/ i < K + 1
          BY <1>12, <4>1
      <4>4. i < K + 1 => st[i] < st[K + 1]
          BY <1>13, <4>1
      <4> QED
          BY <1>8, <1>13, <4>1, <4>2, <4>3, <4>4
    <3>2. CASE l = K + 2
        BY <1>4, <1>8, <1>14, <3>1, <3>2
    <3>3. CASE l \in 1 .. K + 1
        BY <1>13, <1>14, <2>3, <3>1, <3>3
    <3> QED
        BY <1>12, <3>2, <3>3
  <2>4. \A i : ItemsIn(posted[i])' = ItemsIn(posted[i])
      BY <1>5 DEF ItemsIn
  <2>5. Passing(Gone)' = K + 1
    <3>1. Passing(Gone)' = Cardinality({l \in 1 .. Gone' : Passes(l)'})
        BY DEF Passing
    <3>2. {l \in 1 .. Gone' : Passes(l)'} = {l \in 1 .. Gone + 1 : Passes(l)}
        BY <1>1, <1>11
    <3> QED
        BY <2>1, <3>1, <3>2 DEF Passing
  <2>6. /\ K + 1 \in Nat /\ idx2 \in [1 .. K + 1 -> 1 .. Gone'] /\ at2 \in [1 .. (K + 1) + 1 -> Nat]
        /\ at2[1] = 0 /\ at2[(K + 1) + 1] = nitems_written'
      BY <1>1, <1>6, <1>12, <1>14, <2>1
  <2>7. \A r \in 1 .. K + 1 : /\ Passes(idx2[r])' /\ Passing(idx2[r])' = r
                              /\ at2[r + 1] = at2[r] + ItemsIn(posted[idx2[r]])'
      BY <1>11, <2>2, <2>4
  <2>8. \A i, l \in 1 .. (K + 1) + 1 : i < l => at2[i] < at2[l]
      BY <2>1, <2>3
  <2> QED
      BY <2>5, <2>6, <2>7, <2>8 DEF Indexed
<1>16. InStream(K + 1, idx2, at2)'
  <2> SUFFICES ASSUME NEW r \in 1 .. K + 1
               PROVE  Piece(stream', at2[r], ItemsIn(posted[idx2[r]])) = Bytes(posted[idx2[r]])
    <3>1. \A i : ItemsIn(posted[i])' = ItemsIn(posted[i]) /\ Bytes(posted[i])' = Bytes(posted[i])
        BY <1>5 DEF Bytes, ItemsIn
    <3>2. \A i, m : Piece(stream, i, m)' = Piece(stream', i, m)
        BY DEF Piece
    <3> QED
        BY <3>1, <3>2 DEF InStream
  <2>1. CASE r = K + 1
    <3>1. at2[r] = w /\ idx2[r] = f
        BY <1>12, <1>13, <1>14, <2>1
    <3> QED
      <4>1. k \in Nat \ {0}
          BY <1>4
      <4>2. Piece(stream \o Bytes(pdu), w, k) = Bytes(pdu)
          BY <1>8, <4>1, PieceNew
      <4>3. ItemsIn(posted[idx2[r]]) = k /\ posted[idx2[r]] = pdu
          BY <3>1 DEF pdu, k
      <4> QED
          BY <1>6, <3>1, <4>2, <4>3
  <2>2. CASE r \in 1 .. K
    <3> DEFINE m == ItemsIn(posted[idx[r]])
               a == st[r]
    <3>1. at2[r] = a /\ idx2[r] = idx[r] /\ a \in Nat /\ st[r + 1] = a + m /\ r + 1 \in 1 .. K + 1
        BY <1>12, <1>13, <1>14, <2>2
    <3>2. m \in Nat \ {0}
      <4>1. idx[r] \in 1 .. Len(posted)
        <5>1. idx[r] \in 1 .. Gone
            BY <1>13, <2>2
        <5>2. Len(posted) \in Nat /\ Gone < Len(posted)
            BY <1>1 DEF f, PktInv, PktTypes
        <5> QED
            BY <1>1, <5>1, <5>2
      <4>2. posted[idx[r]] \in Pdus
          BY <4>1, ElementOfSeq DEF PktInv, PktTypes
      <4> QED
          BY <1>13, <2>2, <4>2, ItemsNat DEF Passes
    <3>3. a + m <= w
      <4>1. K + 1 \in 1 .. K + 1 /\ st[r + 1] \in Nat
          BY <1>12, <1>13, <3>1
      <4>2. r + 1 = K + 1 \/ r + 1 < K + 1
          BY <1>12, <3>1
      <4>3. r + 1 < K + 1 => st[r + 1] < st[K + 1]
          BY <1>13, <3>1, <4>1
      <4>4. st[r + 1] <= w
          BY <1>8, <1>13, <4>1, <4>2, <4>3
      <4> QED
          BY <3>1, <4>4
    <3>4. Piece(stream, a, m) = Bytes(posted[idx[r]])
        BY <1>7, <2>2 DEF Packets, InStream
    <3> HIDE DEF a, m
    <3>5. (a + m) * d_itemsize <= Len(stream)
      <4>1. PICK e \in Nat : w = (a + m) + e
        <5>1. w - (a + m) \in Nat /\ w = (a + m) + (w - (a + m))
            BY <1>8, <3>1, <3>2, <3>3
        <5> QED
            BY <5>1
      <4>2. w * d_itemsize = (a + m) * d_itemsize + e * d_itemsize /\ e * d_itemsize \in Nat
            /\ (a + m) * d_itemsize \in Nat
          BY <1>8, <3>1, <3>2, <4>1
      <4> QED
          BY <1>8, <4>2
    <3>6. Piece(stream \o Bytes(pdu), a, m) = Piece(stream, a, m)
        BY <1>8, <3>1, <3>2, <3>5, PieceKept
    <3> QED
        BY <1>6, <3>1, <3>4, <3>6 DEF m
  <2> QED
      BY <1>12, <2>1, <2>2
<1>17. Len(published) \in Nat /\ Len(published) <= K /\ taken = st[Len(published) + 1]
       /\ DOMAIN published = 1 .. Len(published)
    BY <1>7 DEF PktInv, PktTypes, Packets, ReadUpTo
<1>18. /\ TagsOf(idx2, at2, K + 1)' = PacketTags(w, pdu.meta, k)
       /\ \A r \in 1 .. K : TagsOf(idx2, at2, r)' = TagsOf(idx, st, r)
  <2>1. K + 1 \in 1 .. K + 1 /\ at2[K + 1] = w /\ \A r \in 1 .. K : r \in 1 .. K + 1 /\ at2[r] = st[r]
      BY <1>12, <1>13, <1>14
  <2>2. \A i : posted[i]' = posted[i]
      BY <1>5
  <2>3. ASSUME NEW r PROVE TagsOf(idx2, at2, r)' = PacketTags(at2[r], posted[idx2[r]].meta, ItemsIn(posted[idx2[r]]))
      BY <1>5 DEF TagsOf, PacketTags, Tag, ItemsIn
  <2>4. TagsOf(idx2, at2, K + 1)' = PacketTags(w, pdu.meta, k)
      BY <1>14, <2>1, <2>3 DEF k, pdu
  <2>5. \A r \in 1 .. K : TagsOf(idx2, at2, r)' = TagsOf(idx, st, r)
      BY <1>14, <2>1, <2>3 DEF TagsOf
  <2> QED
      BY <2>4, <2>5
<1>19. taken <= w /\ (reqd # 0 => taken < w)
  <2>1. Len(published) + 1 \in 1 .. K + 1 /\ K + 1 \in 1 .. K + 1
      BY <1>12, <1>17
  <2>2. reqd # 0 => Len(published) < K
      BY <1>7 DEF Packets, ReadUpTo
  <2>3. st[Len(published) + 1] \in Nat
      BY <1>13, <2>1
  <2>4. Len(published) + 1 = K + 1 \/ Len(published) + 1 < K + 1
      BY <1>12, <1>17
  <2>5. Len(published) + 1 < K + 1 => st[Len(published) + 1] < st[K + 1]
      BY <1>13, <2>1
  <2> QED
      BY <1>8, <1>12, <1>13, <1>17, <2>2, <2>3, <2>4, <2>5
<1>20. Tagged(K + 1, idx2, at2)'
  <2>1. \A t \in PacketTags(w, pdu.meta, k) : t.offset = w
      BY <1>8, TagsAt
  <2>2. \A t \in tags' : t.offset \in Nat
      BY <1>6, <1>7, <1>8, <2>1 DEF Packets, Tagged
  <2>3. \A t : IsLength(t)' <=> IsLength(t)
      BY <1>5 DEF IsLength
  <2>4. \A t : (t \in tags /\ t.offset >= taken) <=>
            \E r \in Len(published) + 1 .. K : t \in TagsOf(idx, st, r) /\ (reqd = 0 \/ ~IsLength(t))
      BY <1>7 DEF Packets, Tagged
  <2>5. ASSUME NEW t, t \in tags', t.offset >= taken
        PROVE  \E r \in Len(published) + 1 .. K + 1 : t \in TagsOf(idx2, at2, r)' /\ (reqd = 0 \/ ~IsLength(t))
    <3>1. CASE t \in tags
      <4>1. PICK r \in Len(published) + 1 .. K : t \in TagsOf(idx, st, r) /\ (reqd = 0 \/ ~IsLength(t))
          BY <2>4, <2>5, <3>1
      <4>2. r \in 1 .. K /\ r \in Len(published) + 1 .. K + 1
          BY <1>12, <1>17
      <4> QED
          BY <1>18, <4>1, <4>2
    <3>2. CASE t \in PacketTags(w, pdu.meta, k)
      <4>1. K + 1 \in Len(published) + 1 .. K + 1
          BY <1>12, <1>17
      <4>2. t \in TagsOf(idx2, at2, K + 1)'
          BY <1>18, <3>2
      <4>3. reqd = 0 \/ ~IsLength(t)
        <5>1. t.offset = w
            BY <2>1, <3>2
        <5>2. reqd # 0 => t.offset # taken
            BY <1>8, <1>17, <1>19, <5>1 DEF PktInv, PktTypes
        <5> QED
            BY <5>2 DEF IsLength
      <4> QED
          BY <4>1, <4>2, <4>3
    <3> QED
        BY <1>6, <2>5, <3>1, <3>2
  <2>6. ASSUME NEW t, NEW r \in Len(published) + 1 .. K + 1, t \in TagsOf(idx2, at2, r)', reqd = 0 \/ ~IsLength(t)
        PROVE  t \in tags' /\ t.offset >= taken
    <3>1. CASE r = K + 1
      <4>1. t \in PacketTags(w, pdu.meta, k)
          BY <1>18, <2>6, <3>1
      <4>2. t.offset = w
          BY <2>1, <4>1
      <4> QED
          BY <1>6, <1>19, <4>1, <4>2, <1>8 DEF PktInv, PktTypes
    <3>2. CASE r \in Len(published) + 1 .. K
      <4>1. r \in 1 .. K
          BY <1>17, <3>2, <1>12
      <4>2. t \in TagsOf(idx, st, r)
          BY <1>18, <2>6, <4>1
      <4> QED
          BY <1>6, <2>4, <2>6, <3>2, <4>2
    <3> QED
        BY <1>12, <1>17, <3>1, <3>2
  <2>7. \A t : (t \in tags' /\ t.offset >= taken) <=>
            \E r \in Len(published) + 1 .. K + 1 : t \in TagsOf(idx2, at2, r)' /\ (reqd = 0 \/ ~IsLength(t))
      BY <2>5, <2>6
  <2> QED
      BY <1>5, <2>2, <2>3, <2>7 DEF Tagged
<1>21. ReadUpTo(K + 1, idx2, at2)'
  <2>1. Len(published) <= K + 1 /\ Len(published) + 1 \in 1 .. K + 1 /\ taken = at2[Len(published) + 1]
      BY <1>12, <1>14, <1>17
  <2>2. ASSUME NEW i \in DOMAIN published PROVE published[i] = Through(posted[idx2[i]])
    <3>1. i \in 1 .. K
        BY <1>12, <1>17
    <3>2. idx2[i] = idx[i]
        BY <1>14, <3>1
    <3>3. published[i] = Through(posted[idx[i]])
        BY <1>7 DEF Packets, ReadUpTo
    <3> QED
        BY <3>2, <3>3
  <2>3. reqd # 0 => Len(published) < K + 1 /\ reqd = ItemsIn(posted[idx2[Len(published) + 1]])
    <3>1. reqd # 0 => Len(published) + 1 \in 1 .. K /\ reqd = ItemsIn(posted[idx[Len(published) + 1]])
        BY <1>7, <1>12, <1>17 DEF Packets, ReadUpTo
    <3> QED
        BY <1>12, <1>14, <1>17, <3>1
  <2>4. \A i : Through(posted[i])' = Through(posted[i]) /\ ItemsIn(posted[i])' = ItemsIn(posted[i])
      BY <1>5 DEF Through, ItemsIn
  <2> QED
      BY <1>5, <2>1, <2>2, <2>3, <2>4 DEF ReadUpTo
<1> QED
    BY <1>1, <1>10, <1>15, <1>16, <1>20, <1>21 DEF PktInv, Packets

LEMMA ToStreamKeeps == ASSUME PktInv, NEW n \in Nat \ {0}, ToStream(n) PROVE PktInv'
<1>1. Fetched.len \in Nat
  <2>1. CASE Takes
    <3>1. inbox[1] \in Pdus
        BY <2>1 DEF PktInv, PktTypes, Takes
    <3> QED
        BY <2>1, <3>1, ItemsNat DEF Fetched
  <2>2. CASE ~Takes
      BY <2>2 DEF PktInv, PktTypes, Fetched
  <2> QED
      BY <2>1, <2>2
<1>2. CASE n < Fetched.len
    BY <1>2, WaitKeeps
<1>3. CASE Fetched.len = 0
    BY <1>3, DropKeeps
<1>4. CASE Fetched.len > 0 /\ Fetched.len <= n
    BY <1>4, SendKeeps
<1> QED
    BY <1>1, <1>2, <1>3, <1>4

-----------------------------------------------------------------------------
(* What tagged_stream_to_pdu makes of the tags of a packet.                  *)

\* The stream's own length tag comes after what the metadata have of that key.
LEMMA LengthIs ==
    ASSUME NEW st \in Nat, NEW meta, NEW len \in Nat
    PROVE  LastTag({t \in PacketTags(st, meta, len) : t.key = LengthTag}).value = len
<1> DEFINE ts == {t \in PacketTags(st, meta, len) : t.key = LengthTag}
           own == Tag(st, 1, LengthTag, len)
<1>1. own \in ts /\ own.offset = st /\ own.n = 1 /\ own.value = len
    BY DEF PacketTags, Tag
<1>2. \A t \in ts : t.offset = st /\ (t = own \/ t.n = 0)
    BY DEF PacketTags, Tag
<1> HIDE DEF ts, own
<1>3. \A u \in ts : Later(own, u)
    BY <1>1, <1>2 DEF Later
<1>4. \A t \in ts : Later(t, own) => t = own
    BY <1>1, <1>2 DEF Later
<1>5. LastTag(ts) = own
    BY <1>1, <1>3, <1>4 DEF LastTag
<1> QED
    BY <1>1, <1>5 DEF ts

\* Without the length tags each key of the metadata has one tag, with its value.
MetaTags(st, meta, len) == {t \in PacketTags(st, meta, len) : t.key # LengthTag}
OwnMeta(meta) == [k \in DOMAIN meta \ {LengthTag} |-> meta[k]]

LEMMA DictIs ==
    ASSUME NEW st \in Nat, NEW meta, NEW len
    PROVE  DictOf(MetaTags(st, meta, len)) = OwnMeta(meta)
<1> DEFINE ts == {t \in PacketTags(st, meta, len) : t.key # LengthTag}
           Of(k) == Tag(st, 0, k, meta[k])
<1>1. ts = {Of(k) : k \in DOMAIN meta \ {LengthTag}}
    BY DEF PacketTags, Tag
<1>2. \A k : Of(k).key = k /\ Of(k).value = meta[k] /\ Of(k).offset = st /\ Of(k).n = 0
    BY DEF Tag
<1> HIDE DEF ts, Of
<1>3. {t.key : t \in ts} = DOMAIN meta \ {LengthTag}
    BY <1>1, <1>2
<1>4. ASSUME NEW k \in DOMAIN meta \ {LengthTag} PROVE LastTag({t \in ts : t.key = k}).value = meta[k]
  <2>1. {t \in ts : t.key = k} = {Of(k)}
      BY <1>1, <1>2
  <2>2. Later(Of(k), Of(k))
      BY <1>2 DEF Later
  <2>3. LastTag({Of(k)}) = Of(k)
      BY <2>2 DEF LastTag
  <2> QED
      BY <1>2, <2>1, <2>3
<1> QED
    BY <1>3, <1>4 DEF DictOf, MetaTags, OwnMeta, ts

\* A call of tagged_stream_to_pdu meets the next packet.
LEMMA ToPduKeeps ==
    ASSUME PktInv, NEW have \in 1 .. nitems_written - taken, ToPdu(have)
    PROVE  PktInv'
<1> DEFINE lengths == {t \in tags : IsLength(t)}
           need == IF reqd # 0 THEN reqd ELSE LastTag(lengths).value
           kept == IF reqd # 0 THEN tags ELSE tags \ lengths
           here == {t \in kept : taken <= t.offset /\ t.offset < taken + need}
           vect == SubSeq(stream, taken * d_itemsize + 1, (taken + need) * d_itemsize)
           r == Len(published) + 1
<1>1. PICK K, idx, st : Packets(K, idx, st)
    BY DEF PktInv
<1>2. /\ posted \in Seq(Pdus) /\ taken \in Nat /\ nitems_written \in Nat /\ reqd \in Nat
      /\ published \in Seq({Through(pdu) : pdu \in Pdus}) /\ Len(published) \in Nat
      /\ DOMAIN published = 1 .. Len(published)
    BY DEF PktInv, PktTypes
<1>3. /\ K \in Nat /\ idx \in [1 .. K -> 1 .. Gone] /\ st \in [1 .. K + 1 -> Nat] /\ st[K + 1] = nitems_written
      /\ \A i \in 1 .. K : Passes(idx[i]) /\ st[i + 1] = st[i] + ItemsIn(posted[idx[i]])
      /\ \A i, l \in 1 .. K + 1 : i < l => st[i] < st[l]
    BY <1>1 DEF Packets, Indexed
<1>4. /\ Len(published) <= K /\ taken = st[r]
      /\ \A n \in DOMAIN published : published[n] = Through(posted[idx[n]])
      /\ reqd # 0 => reqd = ItemsIn(posted[idx[r]])
    BY <1>1 DEF Packets, ReadUpTo
<1>5. r \in 1 .. K /\ r + 1 \in 1 .. K + 1
  <2>1. taken # nitems_written
      BY <1>2
  <2>2. r # K + 1
      BY <1>3, <1>4, <2>1
  <2>3. Len(published) # K
      BY <2>2
  <2>4. Len(published) \in Nat /\ K \in Nat /\ Len(published) <= K
      BY <1>2, <1>3, <1>4
  <2> QED
      BY <2>3, <2>4
<1> DEFINE pdu == posted[idx[r]]
           k == ItemsIn(pdu)
           T == TagsOf(idx, st, r)
<1>6. pdu \in Pdus
  <2>1. Gone <= Len(posted)
      BY DEF PktInv, PktTypes, Gone
  <2>2. idx[r] \in 1 .. Gone
      BY <1>3, <1>5
  <2>3. idx[r] \in 1 .. Len(posted)
      BY <1>2, <2>1, <2>2 DEF Gone, PktInv, PktTypes
  <2> QED
      BY <1>2, <2>3, ElementOfSeq
<1>7. k \in Nat /\ k > 0 /\ st[r + 1] = taken + k
    BY <1>3, <1>4, <1>5, <1>6, ItemsNat DEF Passes
<1>8. T = PacketTags(taken, pdu.meta, k) /\ \A t \in T : t.offset = taken
    BY <1>2, <1>4, TagsAt DEF TagsOf
<1>9. \A t \in tags : t.offset \in Nat
    BY <1>1 DEF Packets, Tagged
<1>10. \A t : (t \in tags /\ t.offset >= taken) <=>
           \E i \in r .. K : t \in TagsOf(idx, st, i) /\ (reqd = 0 \/ ~IsLength(t))
    BY <1>1 DEF Packets, Tagged
<1>11. \A i \in r .. K : i \in 1 .. K /\ st[i] \in Nat /\ (i = r \/ st[i] >= taken + k)
  <2> SUFFICES ASSUME NEW i \in r .. K PROVE i \in 1 .. K /\ st[i] \in Nat /\ (i = r \/ st[i] >= taken + k)
      OBVIOUS
  <2>1. i \in 1 .. K /\ i \in 1 .. K + 1 /\ (i = r \/ i = r + 1 \/ r + 1 < i)
    <3>1. Len(published) \in Nat /\ K \in Nat
        BY <1>2, <1>3
    <3>2. r \in Nat /\ r >= 1
        BY <3>1
    <3> HIDE DEF r
    <3> QED
        BY <3>1, <3>2
  <2>2. r + 1 < i => st[r + 1] < st[i]
      BY <1>3, <1>5, <2>1
  <2>3. st[i] \in Nat
      BY <1>3, <2>1
  <2> QED
      BY <1>2, <1>7, <2>1, <2>2, <2>3
<1>12. \A i \in r .. K : \A t \in TagsOf(idx, st, i) : t.offset = st[i]
    BY <1>11, TagsAt DEF TagsOf
<1> HIDE DEF T, k, pdu, r
<1>13. \A t \in tags : t.offset = taken => t \in T /\ (reqd = 0 \/ ~IsLength(t))
  <2> SUFFICES ASSUME NEW t \in tags, t.offset = taken PROVE t \in T /\ (reqd = 0 \/ ~IsLength(t))
      OBVIOUS
  <2>1. t.offset >= taken
      BY <1>2
  <2>2. PICK i \in r .. K : t \in TagsOf(idx, st, i) /\ (reqd = 0 \/ ~IsLength(t))
      BY <1>10, <2>1
  <2>3. i = r
      BY <1>2, <1>7, <1>11, <1>12, <2>2
  <2> QED
      BY <2>2, <2>3 DEF T
<1>14. \A t \in T : (reqd = 0 \/ ~IsLength(t)) => t \in tags
  <2>1. r \in r .. K
      BY <1>5
  <2> QED
      BY <1>10, <2>1 DEF T
<1>15. reqd = 0 => lengths = {t \in T : t.key = LengthTag}
    BY <1>8, <1>13, <1>14 DEF IsLength
<1>16. need = k
  <2>1. CASE reqd # 0
      BY <1>4, <2>1 DEF k, pdu
  <2>2. CASE reqd = 0
    <3>1. LastTag(lengths).value = k
        BY <1>2, <1>7, <1>8, <1>15, <2>2, LengthIs
    <3> QED
        BY <2>2, <3>1
  <2> QED
      BY <2>1, <2>2
<1>17. /\ tags' = kept /\ UNCHANGED <<posted, inbox, current, stream, nitems_written>>
       /\ IF need > have THEN reqd' = need /\ UNCHANGED <<taken, published>>
          ELSE /\ reqd' = 0 /\ taken' = taken + need
               /\ published' = Append(published, [meta |-> DictOf(here), vect |-> vect])
    BY DEF ToPdu
<1>18. \A t : t \in kept <=> t \in tags /\ ~IsLength(t)
  <2>1. CASE reqd # 0
      BY <1>13, <2>1 DEF IsLength
  <2>2. CASE reqd = 0
      BY <2>2
  <2> QED
      BY <2>1, <2>2
<1>19. here = {t \in T : t.key # LengthTag}
  <2>1. ASSUME NEW t, t \in here PROVE t \in T /\ t.key # LengthTag
    <3>1. t \in tags /\ ~IsLength(t) /\ taken <= t.offset /\ t.offset < taken + k /\ t.offset \in Nat
        BY <1>9, <1>16, <1>18, <2>1
    <3>2. PICK i \in r .. K : t \in TagsOf(idx, st, i)
        BY <1>2, <1>10, <3>1
    <3>3. i = r
        BY <1>2, <1>7, <1>11, <1>12, <3>1, <3>2
    <3> QED
        BY <1>8, <3>1, <3>2, <3>3 DEF T, IsLength
  <2>2. ASSUME NEW t \in T, t.key # LengthTag PROVE t \in here
    <3>1. ~IsLength(t) /\ t \in tags
        BY <1>14, <2>2 DEF IsLength
    <3>2. t.offset = taken
        BY <1>8
    <3> QED
        BY <1>2, <1>7, <1>16, <1>18, <3>1, <3>2
  <2> HIDE DEF here
  <2> QED
      BY <2>1, <2>2
<1>20. DictOf(here) = [key \in DOMAIN pdu.meta \ {LengthTag} |-> pdu.meta[key]]
  <2> HIDE DEF here
  <2>1. here = MetaTags(taken, pdu.meta, k)
      BY <1>8, <1>19 DEF MetaTags
  <2>2. DictOf(MetaTags(taken, pdu.meta, k)) = OwnMeta(pdu.meta)
      BY <1>2, DictIs
  <2> QED
      BY <2>1, <2>2 DEF OwnMeta
<1>21. vect = Bytes(pdu)
  <2>1. Piece(stream, st[r], k) = Bytes(pdu)
      BY <1>1, <1>5 DEF Packets, InStream, k, pdu
  <2> QED
      BY <1>4, <1>16, <2>1 DEF Piece
<1>22. [meta |-> DictOf(here), vect |-> vect] = Through(pdu)
    BY <1>20, <1>21 DEF Through, Bytes
<1> HIDE DEF need, kept, here, vect
<1>23. /\ InboxWaits' /\ CurrentNext' /\ Gone' = Gone
       /\ \A i : (Passes(i)' <=> Passes(i)) /\ Passing(i)' = Passing(i)
    BY <1>17 DEF PktInv, InboxWaits, CurrentNext, Gone, Passes, Passing, Curr, ItemsIn
<1>24. Indexed(K, idx, st)' /\ InStream(K, idx, st)'
  <2>1. Indexed(K, idx, st)'
      BY <1>1, <1>17, <1>23 DEF Packets, Indexed, ItemsIn
  <2>2. InStream(K, idx, st)'
      BY <1>1, <1>17 DEF Packets, InStream, Piece, Bytes, ItemsIn
  <2> QED
      BY <2>1, <2>2
<1>25. \A i : TagsOf(idx, st, i)' = TagsOf(idx, st, i)
    BY <1>17 DEF TagsOf, PacketTags, Tag, ItemsIn
<1>26. \A t \in tags' : t.offset \in Nat
    BY <1>9, <1>17, <1>18
<1>27. CASE need > have
  <2>1. reqd' = k /\ taken' = taken /\ published' = published
      BY <1>16, <1>17, <1>27
  <2>2. PktTypes'
      BY <1>7, <1>17, <2>1 DEF PktInv, PktTypes, Through, ItemsIn
  <2>3. \A t : IsLength(t)' <=> IsLength(t)
      BY <2>1 DEF IsLength
  <2>4. \A t : (t \in tags' /\ t.offset >= taken) <=>
            \E i \in r .. K : t \in TagsOf(idx, st, i) /\ ~IsLength(t)
      BY <1>10, <1>17, <1>18
  <2>5. Tagged(K, idx, st)'
      BY <1>7, <1>25, <1>26, <2>1, <2>3, <2>4 DEF Tagged, r
  <2>6. ReadUpTo(K, idx, st)'
    <3>1. \A i : Through(posted[i])' = Through(posted[i]) /\ ItemsIn(posted[i])' = ItemsIn(posted[i])
        BY <1>17 DEF Through, ItemsIn
    <3>2. Len(published) < K
      <4>1. Len(published) + 1 \in 1 .. K /\ K \in Nat /\ Len(published) \in Nat
          BY <1>2, <1>3, <1>5 DEF r
      <4> QED
          BY <4>1
    <3> QED
        BY <1>4, <2>1, <3>1, <3>2 DEF ReadUpTo, r, k, pdu
  <2> QED
      BY <1>23, <1>24, <2>2, <2>5, <2>6 DEF PktInv, Packets
<1>28. CASE ~(need > have)
  <2>1. reqd' = 0 /\ taken' = taken + k /\ published' = Append(published, Through(pdu))
      BY <1>16, <1>17, <1>22, <1>28
  <2>2. /\ published' \in Seq({Through(p) : p \in Pdus}) /\ Len(published') = r
        /\ DOMAIN published' = 1 .. r /\ published'[r] = Through(pdu)
        /\ \A n \in 1 .. Len(published) : published'[n] = published[n]
      BY <1>2, <1>6, <2>1 DEF r
  <2>3. PktTypes'
    <3>1. taken' \in Nat /\ reqd' \in Nat
        BY <1>2, <1>7, <2>1
    <3>2. published' \in Seq({Through(p) : p \in Pdus}')
        BY <2>2 DEF Through, ItemsIn
    <3>3. /\ posted' \in Seq(Pdus) /\ inbox' \in Seq(Pdus) /\ Len(inbox') <= Len(posted') /\ current'.len \in Nat
          /\ stream' \in Seq(0 .. 255) /\ nitems_written' \in Nat /\ Len(stream') = nitems_written' * d_itemsize
        BY <1>17 DEF PktInv, PktTypes
    <3> QED
        BY <3>1, <3>2, <3>3 DEF PktTypes
  <2>4. ASSUME NEW t, t \in tags', t.offset >= taken + k
        PROVE  \E i \in r + 1 .. K : t \in TagsOf(idx, st, i)
    <3>1. t \in tags /\ t.offset \in Nat /\ t.offset >= taken /\ t.offset # taken
        BY <1>2, <1>7, <1>9, <1>17, <1>18, <2>4
    <3>2. PICK i \in r .. K : t \in TagsOf(idx, st, i)
        BY <1>10, <3>1
    <3>3. i # r
        BY <1>8, <3>1, <3>2 DEF T
    <3> QED
        BY <1>5, <3>2, <3>3
  <2>5. ASSUME NEW t, NEW i \in r + 1 .. K, t \in TagsOf(idx, st, i)
        PROVE  t \in tags' /\ t.offset >= taken + k
    <3>1. i \in r .. K /\ i # r
        BY <1>5
    <3>2. t.offset = st[i] /\ st[i] \in Nat /\ st[i] >= taken + k
        BY <1>11, <1>12, <2>5, <3>1
    <3>3. ~IsLength(t)
        BY <1>2, <1>7, <3>2 DEF IsLength
    <3> QED
        BY <1>10, <1>17, <1>18, <2>5, <3>1, <3>2, <3>3
  <2>6. \A t : (t \in tags' /\ t.offset >= taken + k) <=> \E i \in r + 1 .. K : t \in TagsOf(idx, st, i)
      BY <2>4, <2>5
  <2>7. Tagged(K, idx, st)'
      BY <1>25, <1>26, <2>1, <2>2, <2>6 DEF Tagged
  <2>8. ReadUpTo(K, idx, st)'
    <3>1. \A i : Through(posted[i])' = Through(posted[i])
        BY <1>17 DEF Through, ItemsIn
    <3>2. r <= K /\ taken' = st[r + 1]
        BY <1>5, <1>7, <2>1
    <3>3. ASSUME NEW n \in 1 .. r PROVE published'[n] = Through(posted[idx[n]])
      <4>1. CASE n = r
          BY <2>2, <4>1 DEF pdu
      <4>2. CASE n \in 1 .. Len(published)
          BY <1>2, <1>4, <2>2, <4>2
      <4> QED
          BY <1>2, <4>1, <4>2 DEF r
    <3> QED
        BY <2>1, <2>2, <3>1, <3>2, <3>3 DEF ReadUpTo
  <2> QED
      BY <1>23, <1>24, <2>3, <2>7, <2>8 DEF PktInv, Packets
<1> QED
    BY <1>27, <1>28

LEMMA PktNext == PktInv /\ [DNext]_dvars => PktInv'
<1> SUFFICES ASSUME PktInv, [DNext]_dvars PROVE PktInv'
    OBVIOUS
<1>1. ASSUME NEW pdu \in Pdus, Post(pdu) PROVE PktInv'
    BY <1>1, PostKeeps
<1>2. ASSUME NEW n \in 1 .. MaxRoom, ToStream(n) PROVE PktInv'
    BY <1>2, ToStreamKeeps
<1>3. ASSUME NEW have \in 1 .. nitems_written - taken, ToPdu(have) PROVE PktInv'
    BY <1>3, ToPduKeeps
<1>4. CASE UNCHANGED dvars
  <2>1. PktTypes' /\ InboxWaits' /\ CurrentNext'
      BY <1>4 DEF dvars, PktInv, PktTypes, InboxWaits, CurrentNext, Through, Curr, ItemsIn
  <2>2. PICK K, idx, st : Packets(K, idx, st)
      BY DEF PktInv
  <2>3. Indexed(K, idx, st)'
    <3>1. Gone' = Gone /\ \A i : (Passes(i)' <=> Passes(i)) /\ Passing(i)' = Passing(i)
        BY <1>4 DEF dvars, Gone, Passes, Passing, ItemsIn
    <3> QED
        BY <1>4, <2>2, <3>1 DEF dvars, Packets, Indexed, ItemsIn
  <2>4. InStream(K, idx, st)'
      BY <1>4, <2>2 DEF dvars, Packets, InStream, Piece, Bytes, ItemsIn
  <2>5. Tagged(K, idx, st)'
      BY <1>4, <2>2 DEF dvars, Packets, Tagged, TagsOf, PacketTags, Tag, IsLength, ItemsIn
  <2>6. ReadUpTo(K, idx, st)'
      BY <1>4, <2>2 DEF dvars, Packets, ReadUpTo, Through, ItemsIn
  <2> QED
      BY <2>1, <2>3, <2>4, <2>5, <2>6 DEF PktInv, Packets
<1> QED
    BY <1>1, <1>2, <1>3, <1>4 DEF DNext

LEMMA PktImplies == PktInv => PdusThrough
<1> SUFFICES ASSUME PktInv PROVE PdusThrough
    OBVIOUS
<1>1. PICK K, idx, st : Packets(K, idx, st)
    BY DEF PktInv
<1>2. /\ K \in Nat /\ idx \in [1 .. K -> 1 .. Gone] /\ st \in [1 .. K + 1 -> Nat] /\ st[K + 1] = nitems_written
      /\ \A i \in 1 .. K : Passes(idx[i]) /\ Passing(idx[i]) = i
      /\ \A i, l \in 1 .. K + 1 : i < l => st[i] < st[l]
      /\ Passing(Gone) = K
    BY <1>1 DEF Packets, Indexed
<1>3. /\ Len(published) <= K /\ taken = st[Len(published) + 1]
      /\ \A n \in DOMAIN published : published[n] = Through(posted[idx[n]])
    BY <1>1 DEF Packets, ReadUpTo
<1>4. /\ Len(published) \in Nat /\ DOMAIN published = 1 .. Len(published)
      /\ Len(posted) \in Nat /\ DOMAIN posted = 1 .. Len(posted) /\ Len(inbox) \in Nat
    BY DEF PktInv, PktTypes
<1>5. Gone <= Len(posted)
    BY <1>4 DEF Gone
<1>6. ASSUME NEW n \in DOMAIN published
      PROVE  \E i \in DOMAIN posted : Passes(i) /\ Passing(i) = n /\ published[n] = Through(posted[i])
  <2>1. n \in 1 .. K /\ idx[n] \in 1 .. Gone
      BY <1>2, <1>3, <1>4
  <2>2. idx[n] \in DOMAIN posted
      BY <1>4, <1>5, <2>1 DEF Gone
  <2> QED
      BY <1>2, <1>3, <2>1, <2>2
<1>7. ASSUME inbox = <<>>, current.len = 0, taken = nitems_written
      PROVE  Len(published) = Passing(Len(posted))
  <2>1. Gone = Len(posted)
    <3>1. Len(inbox) = 0
        BY <1>7
    <3>2. (IF current.len > 0 THEN 1 ELSE 0) = 0
        BY <1>7
    <3> QED
      <4>1. Gone = Len(posted) - Len(inbox) - (IF current.len > 0 THEN 1 ELSE 0)
          BY DEF Gone
      <4>2. Gone = Len(posted) - 0 - 0
          BY <3>1, <3>2, <4>1
      <4> QED
          BY <1>4, <4>2
  <2>2. Len(published) + 1 \in 1 .. K + 1 /\ K + 1 \in 1 .. K + 1
      BY <1>2, <1>3, <1>4
  <2>3. ~(Len(published) + 1 < K + 1)
    <3>1. st[K + 1] \in Nat /\ st[Len(published) + 1] = st[K + 1]
        BY <1>2, <1>3, <1>7, <2>2
    <3> QED
        BY <1>2, <2>2, <3>1
  <2>4. Len(published) = K
    <3>1. Len(published) \in Nat /\ K \in Nat /\ Len(published) <= K
        BY <1>2, <1>3, <1>4
    <3> QED
        BY <2>3, <3>1
  <2> QED
      BY <1>2, <2>1, <2>4
<1> QED
    BY <1>6, <1>7 DEF PdusThrough

(* Packets and messages undo each other: whatever is posted, whatever room   *)
(* and however many items each call is given, the messages that make an item *)
(* come out once each, in their order, whole and with their own metadata.    *)
THEOREM PdusAlwaysThrough == DSpec => []PdusThrough
<1> QED
    BY PktInit, PktNext, PktImplies, PTL DEF DSpec

-----------------------------------------------------------------------------
(***************************************************************************)
(* The connections of socket_pdu.  For any number of clients, any messages   *)
(* and any coming and going, each client gets the bytes of the messages from *)
(* its first one on, and what it says is published.  The invariant says of   *)
(* an open client that what it has got and what is being written to it are   *)
(* all the bytes up to the message it was handed last, which is the one      *)
(* before the present one while tcp_server_send has yet to come to it.       *)
(***************************************************************************)

\* Bytes z to g of the messages, and those still in one of the writes ws.
BytesOf(z, g) == UNION {{<<m, b>> : b \in 1 .. PduSizes[m]} : m \in z .. g}
Writing(ws, x) == \E k \in DOMAIN ws : x[1] = ws[k][1] /\ x[2] \in ws[k][2] .. ws[k][3]

Pairs == Nat \X Nat
Triples == Nat \X Nat \X Nat

\* What has arrived is in order and without a gap.
Gapless(z, g, a) ==
    /\ ToSet(a) \subseteq BytesOf(z, g)
    /\ \A p, q \in DOMAIN a : p < q => Before(a[p], a[q])
    /\ \A x \in ToSet(a) : \A y \in BytesOf(z, g) : Before(y, x) => y \in ToSet(a)

\* What has arrived and what is being written are all that was handed over.
Exact(z, g, a, ws) ==
    /\ a \in Seq(Pairs) /\ ws \in Seq(Triples)
    /\ \A p \in DOMAIN a : a[p] \in BytesOf(z, g)
    /\ \A p, q \in DOMAIN a : p < q => Before(a[p], a[q])
    /\ \A k \in DOMAIN ws : /\ ws[k][1] \in z .. g /\ 1 <= ws[k][2] /\ ws[k][2] <= ws[k][3]
                            /\ ws[k][3] <= PduSizes[ws[k][1]]
    /\ \A k, l \in DOMAIN ws : k < l => ws[k][1] < ws[l][1] \/ (ws[k][1] = ws[l][1] /\ ws[k][3] < ws[l][2])
    /\ \A p \in DOMAIN a : \A k \in DOMAIN ws : Before(a[p], <<ws[k][1], ws[k][2]>>)
    /\ \A x \in BytesOf(z, g) : x \in ToSet(a) \/ Writing(ws, x)

LEMMA ByteIs ==
    ASSUME NEW z \in Nat \ {0}, NEW g \in 0 .. Len(PduSizes), NEW x
    PROVE  x \in BytesOf(z, g) <=>
               \E m \in z .. g : \E b \in 1 .. PduSizes[m] : x = <<m, b>>
    BY DEF BytesOf

LEMMA SizesNat ==
    /\ Len(PduSizes) \in Nat /\ \A m \in 1 .. Len(PduSizes) : PduSizes[m] \in Nat
    BY SocketAssumption, LenProperties, ElementOfSeq

LEMMA ByteType ==
    ASSUME NEW z \in Nat \ {0}, NEW g \in 0 .. Len(PduSizes), NEW x \in BytesOf(z, g)
    PROVE  /\ x \in Pairs /\ x = <<x[1], x[2]>> /\ x[1] \in Nat /\ x[2] \in Nat
           /\ x[1] \in z .. g /\ x[2] \in 1 .. PduSizes[x[1]]
<1>1. PICK m \in z .. g : \E b \in 1 .. PduSizes[m] : x = <<m, b>>
    BY ByteIs
<1>2. PICK b \in 1 .. PduSizes[m] : x = <<m, b>>
    BY <1>1
<1>3. m \in 1 .. Len(PduSizes) /\ PduSizes[m] \in Nat
    BY SizesNat
<1>4. m \in Nat /\ b \in Nat
    BY <1>3
<1> QED
    BY <1>2, <1>3, <1>4 DEF Pairs

\* A gap would be in a write that comes after what has arrived.
LEMMA ExactGapless ==
    ASSUME NEW z \in Nat \ {0}, NEW g \in 0 .. Len(PduSizes), NEW a, NEW ws, Exact(z, g, a, ws)
    PROVE  Gapless(z, g, a)
<1>1. ToSet(a) \subseteq BytesOf(z, g)
    BY DEF Exact, ToSet
<1>2. ASSUME NEW x \in ToSet(a), NEW y \in BytesOf(z, g), Before(y, x), y \notin ToSet(a) PROVE FALSE
  <2>1. PICK p \in DOMAIN a : x = a[p]
      BY DEF ToSet
  <2>2. PICK k \in DOMAIN ws : y[1] = ws[k][1] /\ y[2] \in ws[k][2] .. ws[k][3]
      BY <1>2 DEF Exact, Writing
  <2>3. Before(x, <<ws[k][1], ws[k][2]>>)
      BY <2>1 DEF Exact
  <2>4. x[1] \in Nat /\ x[2] \in Nat /\ y[1] \in Nat /\ y[2] \in Nat
      BY <1>1, ByteType
  <2>5. ws[k][1] \in Nat /\ ws[k][2] \in Nat /\ ws[k][3] \in Nat
      BY DEF Exact, Triples
  <2>6. x[1] < ws[k][1] \/ (x[1] = ws[k][1] /\ x[2] < ws[k][2])
      BY <2>3 DEF Before
  <2>7. y[1] < x[1] \/ (y[1] = x[1] /\ y[2] < x[2])
      BY <1>2 DEF Before
  <2> QED
      BY <2>2, <2>4, <2>5, <2>6, <2>7
<1> QED
    BY <1>1, <1>2 DEF Gapless, Exact

\* The next message comes behind all of it.
LEMMA GaplessLater ==
    ASSUME NEW z \in Nat \ {0}, NEW g \in Nat, g + 1 \in 1 .. Len(PduSizes), NEW a, Gapless(z, g, a)
    PROVE  Gapless(z, g + 1, a)
<1>0. g \in 0 .. Len(PduSizes) /\ g + 1 \in 0 .. Len(PduSizes)
    BY SizesNat
<1>1. BytesOf(z, g) \subseteq BytesOf(z, g + 1)
  <2>1. z .. g \subseteq z .. g + 1
      OBVIOUS
  <2> QED
      BY <2>1 DEF BytesOf
<1>2. ASSUME NEW x \in ToSet(a), NEW y \in BytesOf(z, g + 1), Before(y, x) PROVE y \in ToSet(a)
  <2>1. x \in BytesOf(z, g)
      BY DEF Gapless
  <2>2. x[1] \in z .. g /\ x[1] \in Nat
      BY <1>0, <2>1, ByteType
  <2>3. y[1] \in z .. g + 1 /\ y[1] \in Nat /\ y[2] \in 1 .. PduSizes[y[1]] /\ y = <<y[1], y[2]>>
      BY <1>0, ByteType
  <2>4. y[1] <= x[1]
      BY <1>2, <2>2, <2>3 DEF Before
  <2>5. y[1] \in z .. g
      BY <2>2, <2>3, <2>4
  <2>6. y \in BytesOf(z, g)
      BY <1>0, <2>3, <2>5, ByteIs
  <2> QED
      BY <1>2, <2>6 DEF Gapless
<1> QED
    BY <1>1, <1>2 DEF Gapless

LEMMA FcnIsSeq ==
    ASSUME NEW T, NEW n \in Nat, NEW f \in [1 .. n -> T]
    PROVE  f \in Seq(T) /\ Len(f) = n /\ DOMAIN f = 1 .. n
<1>1. f \in Seq(T)
    OBVIOUS
<1>2. DOMAIN f = 1 .. n /\ Len(f) \in Nat /\ DOMAIN f = 1 .. Len(f)
    BY <1>1, LenProperties
<1> QED
    BY <1>1, <1>2

LEMMA BothSeqs ==
    ASSUME NEW T, NEW s \in Seq(T), NEW t \in Seq(T)
    PROVE  /\ s \o t \in Seq(T) /\ Len(s \o t) = Len(s) + Len(t) /\ DOMAIN (s \o t) = 1 .. Len(s) + Len(t)
           /\ \A p \in 1 .. Len(s) : (s \o t)[p] = s[p]
           /\ \A q \in 1 .. Len(t) : (s \o t)[Len(s) + q] = t[q]
           /\ \A p \in 1 .. Len(s) + Len(t) : p \in 1 .. Len(s) \/ \E q \in 1 .. Len(t) : p = Len(s) + q
<1>1. Len(s) \in Nat /\ Len(t) \in Nat
    BY LenProperties
<1> DEFINE u == s \o t
<1>2. /\ u \in Seq(T) /\ Len(u) = Len(s) + Len(t)
      /\ \A i \in 1 .. Len(s) + Len(t) : u[i] = IF i <= Len(s) THEN s[i] ELSE t[i - Len(s)]
    BY ConcatProperties
<1> HIDE DEF u
<1>3. DOMAIN u = 1 .. Len(s) + Len(t)
    BY <1>2, LenProperties
<1>4. \A p \in 1 .. Len(s) : p \in 1 .. Len(s) + Len(t) /\ p <= Len(s)
    BY <1>1
<1>5. \A q \in 1 .. Len(t) : /\ Len(s) + q \in 1 .. Len(s) + Len(t) /\ ~(Len(s) + q <= Len(s))
                             /\ Len(s) + q - Len(s) = q
    BY <1>1
<1>6. ASSUME NEW p \in 1 .. Len(s) + Len(t), p \notin 1 .. Len(s) PROVE \E q \in 1 .. Len(t) : p = Len(s) + q
  <2>1. p - Len(s) \in 1 .. Len(t) /\ p = Len(s) + (p - Len(s))
      BY <1>1, <1>6
  <2> QED
      BY <2>1
<1> QED
    BY <1>2, <1>3, <1>4, <1>5, <1>6 DEF u

BytesIn(w) == [q \in 1 .. w[3] - w[2] + 1 |-> <<w[1], w[2] + q - 1>>]

\* A write is carried out.
LEMMA CarryExact ==
    ASSUME NEW z \in Nat \ {0}, NEW g \in 0 .. Len(PduSizes), NEW a, NEW ws, Exact(z, g, a, ws), ws # <<>>,
           NEW w, w = ws[1],
           NEW new, new = BytesIn(w)
    PROVE  Exact(z, g, a \o new, Tail(ws))
<1>1. a \in Seq(Pairs) /\ ws \in Seq(Triples) /\ Len(a) \in Nat /\ DOMAIN a = 1 .. Len(a)
      /\ Len(ws) \in Nat /\ DOMAIN ws = 1 .. Len(ws) /\ 1 \in DOMAIN ws
  <2>1. a \in Seq(Pairs) /\ ws \in Seq(Triples)
      BY DEF Exact
  <2>2. Len(ws) \in Nat \ {0}
      BY <2>1, EmptySeq
  <2> QED
      BY <2>1, <2>2, LenProperties
<1>2. /\ Tail(ws) \in Seq(Triples) /\ Len(Tail(ws)) = Len(ws) - 1 /\ DOMAIN Tail(ws) = 1 .. Len(ws) - 1
      /\ \A k \in 1 .. Len(ws) - 1 : Tail(ws)[k] = ws[k + 1]
    BY <1>1, HeadTailProperties, LenProperties
<1>3. w[1] \in Nat /\ w[2] \in Nat /\ w[3] \in Nat /\ w[1] \in z .. g /\ 1 <= w[2] /\ w[2] <= w[3]
      /\ w[3] <= PduSizes[w[1]] /\ PduSizes[w[1]] \in Nat
  <2>1. w \in Triples
      BY <1>1, ElementOfSeq
  <2>2. w[1] \in z .. g /\ 1 <= w[2] /\ w[2] <= w[3] /\ w[3] <= PduSizes[w[1]]
      BY <1>1 DEF Exact
  <2> QED
      BY <2>1, <2>2, SizesNat DEF Triples
<1> DEFINE m == w[1]
           lo == w[2]
           hi == w[3]
           n == hi - lo + 1
<1>3a. m \in Nat /\ lo \in Nat /\ hi \in Nat /\ m \in z .. g /\ 1 <= lo /\ lo <= hi /\ hi <= PduSizes[m] /\ PduSizes[m] \in Nat
    BY <1>3
<1>3b. new = [q \in 1 .. n |-> <<m, lo + q - 1>>] /\ m = ws[1][1] /\ lo = ws[1][2] /\ hi = ws[1][3]
    BY DEF BytesIn
<1> HIDE DEF m, lo, hi
<1>4. n \in Nat /\ new \in Seq(Pairs) /\ Len(new) = n /\ DOMAIN new = 1 .. n
  <2>1. n \in Nat
      BY <1>3a
  <2>2. \A q \in 1 .. n : <<m, lo + q - 1>> \in Pairs
      BY <1>3a DEF Pairs
  <2>3. new \in [1 .. n -> Pairs]
      BY <1>3b, <2>2
  <2> HIDE DEF n
  <2> QED
      BY <2>1, <2>3, FcnIsSeq
<1>5. \A q \in 1 .. n : new[q] = <<m, lo + q - 1>> /\ new[q][1] = m /\ new[q][2] = lo + q - 1
    BY <1>3b
<1>7. n = hi - lo + 1
    OBVIOUS
<1> HIDE DEF n
<1> DEFINE b == a \o new
<1>6. /\ b \in Seq(Pairs) /\ Len(b) = Len(a) + n /\ DOMAIN b = 1 .. Len(a) + n
      /\ \A p \in 1 .. Len(a) : b[p] = a[p]
      /\ \A q \in 1 .. n : b[Len(a) + q] = new[q]
      /\ \A p \in 1 .. Len(a) + n : p \in 1 .. Len(a) \/ \E q \in 1 .. n : p = Len(a) + q
  <2>1. a \in Seq(Pairs) /\ new \in Seq(Pairs)
      BY <1>1, <1>4
  <2>2. /\ b \in Seq(Pairs) /\ Len(b) = Len(a) + Len(new) /\ DOMAIN b = 1 .. Len(a) + Len(new)
        /\ \A p \in 1 .. Len(a) : b[p] = a[p]
        /\ \A q \in 1 .. Len(new) : b[Len(a) + q] = new[q]
        /\ \A p \in 1 .. Len(a) + Len(new) : p \in 1 .. Len(a) \/ \E q \in 1 .. Len(new) : p = Len(a) + q
      BY <2>1, BothSeqs, SMTT(30)
  <2> HIDE DEF b
  <2> QED
      BY <1>4, <2>2
<1> HIDE DEF b
<1>8. ASSUME NEW p \in DOMAIN b PROVE b[p] \in BytesOf(z, g)
  <2>1. CASE p \in 1 .. Len(a)
      BY <1>1, <1>6, <2>1 DEF Exact
  <2>2. ASSUME NEW q \in 1 .. n, p = Len(a) + q PROVE b[p] \in BytesOf(z, g)
    <3>1. lo + q - 1 \in Nat /\ lo + q - 1 >= 1 /\ lo + q - 1 <= hi
        BY <1>3a, <1>4, <1>7
    <3>2. lo + q - 1 \in 1 .. PduSizes[m]
        BY <1>3a, <3>1
    <3>3. b[p] = <<m, lo + q - 1>>
        BY <1>5, <1>6, <2>2
    <3> QED
        BY <1>3a, <3>2, <3>3, ByteIs
  <2> QED
      BY <1>6, <2>1, <2>2
<1>9. ASSUME NEW p \in 1 .. Len(a) PROVE a[p][1] \in Nat /\ a[p][2] \in Nat /\ Before(a[p], <<m, lo>>)
  <2>1. a[p] \in BytesOf(z, g)
      BY <1>1 DEF Exact
  <2> QED
      BY <1>1, <1>3b, <2>1, ByteType DEF Exact, Pairs
<1>10. ASSUME NEW p \in DOMAIN b, NEW q \in DOMAIN b, p < q PROVE Before(b[p], b[q])
  <2>1. CASE q \in 1 .. Len(a)
    <3>1. p \in 1 .. Len(a)
        BY <1>1, <1>6, <1>10, <2>1
    <3> QED
        BY <1>1, <1>6, <1>10, <2>1, <3>1 DEF Exact
  <2>2. ASSUME NEW r \in 1 .. n, q = Len(a) + r PROVE Before(b[p], b[q])
    <3>1. b[q][1] = m /\ b[q][2] = lo + r - 1
        BY <1>5, <1>6, <2>2
    <3>2. CASE p \in 1 .. Len(a)
      <4>1. a[p][1] < m \/ (a[p][1] = m /\ a[p][2] < lo)
          BY <1>9, <3>2 DEF Before
      <4>2. a[p][1] \in Nat /\ a[p][2] \in Nat /\ b[p] = a[p]
          BY <1>6, <1>9, <3>2
      <4>3. b[p][1] < b[q][1] \/ (b[p][1] = b[q][1] /\ b[p][2] < b[q][2])
          BY <1>3a, <3>1, <4>1, <4>2
      <4> QED
          BY <4>3 DEF Before
    <3>3. ASSUME NEW s \in 1 .. n, p = Len(a) + s PROVE Before(b[p], b[q])
      <4>1. b[p][1] = m /\ b[p][2] = lo + s - 1
          BY <1>5, <1>6, <3>3
      <4>2. s < r
          BY <1>1, <1>10, <2>2, <3>3
      <4> QED
          BY <1>3a, <3>1, <4>1, <4>2 DEF Before
    <3> QED
        BY <1>6, <3>2, <3>3
  <2> QED
      BY <1>6, <2>1, <2>2
<1>11. ASSUME NEW k \in DOMAIN Tail(ws)
       PROVE  k + 1 \in DOMAIN ws /\ Tail(ws)[k] = ws[k + 1] /\ 1 < k + 1 /\ k \in Nat
    BY <1>1, <1>2
<1>12. ASSUME NEW k \in DOMAIN ws PROVE ws[k][1] \in Nat /\ ws[k][2] \in Nat /\ ws[k][3] \in Nat
    BY <1>1, ElementOfSeq DEF Triples
<1>13. ASSUME NEW k \in DOMAIN Tail(ws)
       PROVE  /\ Tail(ws)[k][1] \in z .. g /\ 1 <= Tail(ws)[k][2] /\ Tail(ws)[k][2] <= Tail(ws)[k][3]
              /\ Tail(ws)[k][3] <= PduSizes[Tail(ws)[k][1]]
    BY <1>11 DEF Exact
<1>14. ASSUME NEW k \in DOMAIN Tail(ws), NEW l \in DOMAIN Tail(ws), k < l
       PROVE  \/ Tail(ws)[k][1] < Tail(ws)[l][1]
              \/ Tail(ws)[k][1] = Tail(ws)[l][1] /\ Tail(ws)[k][3] < Tail(ws)[l][2]
  <2>1. k + 1 < l + 1
      BY <1>11, <1>14
  <2> QED
      BY <1>11, <2>1 DEF Exact
<1>15. ASSUME NEW p \in DOMAIN b, NEW k \in DOMAIN Tail(ws)
       PROVE  Before(b[p], <<Tail(ws)[k][1], Tail(ws)[k][2]>>)
  <2>1. CASE p \in 1 .. Len(a)
      BY <1>1, <1>6, <1>11, <2>1 DEF Exact
  <2>2. ASSUME NEW q \in 1 .. n, p = Len(a) + q PROVE Before(b[p], <<Tail(ws)[k][1], Tail(ws)[k][2]>>)
    <3>1. b[p][1] = m /\ b[p][2] = lo + q - 1
        BY <1>5, <1>6, <2>2
    <3>2. b[p][2] <= hi /\ b[p][2] \in Int
        BY <1>3a, <1>4, <1>7, <3>1
    <3>3. m < ws[k + 1][1] \/ (m = ws[k + 1][1] /\ hi < ws[k + 1][2])
        BY <1>1, <1>3b, <1>11 DEF Exact
    <3>4. ws[k + 1][1] \in Nat /\ ws[k + 1][2] \in Nat
        BY <1>11, <1>12
    <3>5. b[p][1] < ws[k + 1][1] \/ (b[p][1] = ws[k + 1][1] /\ b[p][2] < ws[k + 1][2])
      <4>1. CASE m < ws[k + 1][1]
          BY <3>1, <4>1
      <4>2. CASE m = ws[k + 1][1] /\ hi < ws[k + 1][2]
          BY <1>3a, <3>1, <3>2, <3>4, <4>2
      <4> QED
          BY <3>3, <4>1, <4>2
    <3> QED
        BY <1>11, <3>5 DEF Before
  <2> QED
      BY <1>6, <2>1, <2>2
<1>16. ASSUME NEW x \in BytesOf(z, g) PROVE x \in ToSet(b) \/ Writing(Tail(ws), x)
  <2>1. CASE x \in ToSet(a)
    <3>1. PICK p \in 1 .. Len(a) : x = a[p]
        BY <1>1, <2>1 DEF ToSet
    <3>2. p \in DOMAIN b /\ b[p] = x
        BY <1>1, <1>4, <1>6, <3>1
    <3> QED
        BY <3>2 DEF ToSet
  <2>2. CASE Writing(ws, x)
    <3>1. PICK k \in DOMAIN ws : x[1] = ws[k][1] /\ x[2] \in ws[k][2] .. ws[k][3]
        BY <2>2 DEF Writing
    <3>2. x = <<x[1], x[2]>> /\ x[1] \in Nat /\ x[2] \in Nat
        BY ByteType
    <3>3. CASE k = 1
      <4> DEFINE q == x[2] - lo + 1
      <4>1. q \in 1 .. n /\ lo + q - 1 = x[2]
        <5>1. x[2] \in lo .. hi
            BY <1>3b, <3>1, <3>3
        <5> QED
            BY <1>3a, <1>7, <3>2, <5>1
      <4> HIDE DEF q
      <4>2. b[Len(a) + q] = x
          BY <1>3b, <1>5, <1>6, <3>1, <3>2, <3>3, <4>1
      <4>3. Len(a) + q \in DOMAIN b
          BY <1>1, <1>4, <1>6, <4>1
      <4> QED
          BY <4>2, <4>3 DEF ToSet
    <3>4. CASE k # 1
      <4>1. k - 1 \in DOMAIN Tail(ws) /\ Tail(ws)[k - 1] = ws[k]
        <5>1. k - 1 \in 1 .. Len(ws) - 1 /\ (k - 1) + 1 = k
            BY <1>1, <3>4
        <5> QED
            BY <1>2, <5>1
      <4> QED
          BY <3>1, <4>1 DEF Writing
    <3> QED
        BY <3>3, <3>4
  <2> QED
      BY <2>1, <2>2 DEF Exact
<1> QED
    BY <1>2, <1>6, <1>8, <1>10, <1>13, <1>14, <1>15, <1>16 DEF Exact, b

-----------------------------------------------------------------------------
(* The writes a message is cut into.                                         *)

CutWell(ch, len) ==
    /\ \A k \in DOMAIN ch : 1 <= ch[k][1] /\ ch[k][1] <= ch[k][2] /\ ch[k][2] <= len
    /\ \A k, l \in DOMAIN ch : k < l => ch[k][2] < ch[l][1]
    /\ \A b \in 1 .. len : \E k \in DOMAIN ch : ch[k][1] <= b /\ b <= ch[k][2]

LEMMA ChunksCut ==
    ASSUME NEW len \in Nat
    PROVE  /\ \E n \in Nat : DOMAIN Chunks(len) = 1 .. n
           /\ \A k \in DOMAIN Chunks(len) : Chunks(len)[k][1] \in Nat /\ Chunks(len)[k][2] \in Nat
           /\ CutWell(Chunks(len), len)
<1> DEFINE u == MTU
           n == (len + u - 1) \div u
           r == (len + u - 1) % u
           ch == Chunks(len)
<1>1. u \in Nat \ {0}
    BY SocketAssumption
<1> HIDE DEF u
<1>2. len + u - 1 \in Nat
    BY <1>1
<1>3. n \in Nat /\ r \in 0 .. u - 1 /\ len + u - 1 = n * u + r
    BY <1>1, <1>2, DivMod
<1>4. /\ DOMAIN ch = 1 .. n
      /\ \A k \in 1 .. n : /\ ch[k][1] = (k - 1) * u + 1
                           /\ ch[k][2] = IF k * u < len THEN k * u ELSE len
    BY DEF Chunks, u
<1> HIDE DEF n, r, ch
<1>5. ASSUME NEW k \in 1 .. n
      PROVE  (k - 1) * u \in Nat /\ k * u \in Nat /\ k * u = (k - 1) * u + u /\ (k - 1) * u + 1 <= len
  <2>1. PICK e \in Nat : n = k + e
    <3>1. n - k \in Nat /\ n = k + (n - k)
        BY <1>3
    <3> QED
        BY <3>1
  <2>2. /\ (k - 1) * u \in Nat /\ k * u \in Nat /\ k * u = (k - 1) * u + u
        /\ n * u = k * u + e * u /\ e * u \in Nat /\ n * u \in Nat
      BY <1>1, <1>3, <2>1
  <2>3. k * u <= len + u - 1
      BY <1>1, <1>3, <2>2
  <2> QED
      BY <1>1, <2>2, <2>3
<1>6. ASSUME NEW k \in 1 .. n
      PROVE  ch[k][1] \in Nat /\ ch[k][2] \in Nat /\ 1 <= ch[k][1] /\ ch[k][1] <= ch[k][2] /\ ch[k][2] <= len
             /\ ch[k][2] <= k * u
  <2> DEFINE x == (k - 1) * u
             y == k * u
  <2>1. ch[k][1] = x + 1 /\ ch[k][2] = IF y < len THEN y ELSE len
      BY <1>4
  <2>2. x \in Nat /\ y \in Nat /\ y = x + u /\ x + 1 <= len
      BY <1>5
  <2> HIDE DEF x, y
  <2>3. ch[k][1] \in Nat /\ ch[k][2] \in Nat /\ 1 <= ch[k][1] /\ ch[k][1] <= ch[k][2] /\ ch[k][2] <= len
        /\ ch[k][2] <= y
      BY <1>1, <2>1, <2>2
  <2> QED
      BY <2>3 DEF y
<1>7. ASSUME NEW k \in 1 .. n, NEW l \in 1 .. n, k < l PROVE ch[k][2] < ch[l][1]
  <2>1. PICK e \in Nat : l = k + 1 + e
    <3>1. l - k - 1 \in Nat /\ l = k + 1 + (l - k - 1)
        BY <1>3, <1>7
    <3> QED
        BY <3>1
  <2>2. (l - 1) * u = k * u + e * u /\ e * u \in Nat
      BY <1>1, <2>1
  <2> QED
      BY <1>4, <1>5, <1>6, <2>2, SMTT(30)
<1>8. ASSUME NEW b \in 1 .. len PROVE \E k \in 1 .. n : ch[k][1] <= b /\ b <= ch[k][2]
  <2> DEFINE q == (b - 1) \div u
             s == (b - 1) % u
             k == q + 1
  <2>1. b - 1 \in Nat
      OBVIOUS
  <2>2. q \in Nat /\ s \in 0 .. u - 1 /\ b - 1 = q * u + s
      BY <1>1, <2>1, DivMod
  <2> HIDE DEF q, s
  <2>3. q < n
    <3> SUFFICES ASSUME q >= n PROVE FALSE
        BY <1>3, <2>2
    <3>1. PICK e \in Nat : q = n + e
      <4>1. q - n \in Nat /\ q = n + (q - n)
          BY <1>3, <2>2
      <4> QED
          BY <4>1
    <3>2. q * u = n * u + e * u /\ e * u \in Nat /\ n * u \in Nat
        BY <1>1, <1>3, <3>1
    <3> QED
        BY <1>1, <1>3, <2>2, <3>2
  <2>4. k \in 1 .. n /\ (k - 1) * u = q * u
    <3>1. k \in 1 .. n /\ k - 1 = q
        BY <1>3, <2>2, <2>3
    <3> QED
        BY <3>1
  <2> HIDE DEF k
  <2>5. ch[k][1] <= b
      BY <1>1, <1>4, <1>5, <2>2, <2>4
  <2>6. b <= k * u
      BY <1>1, <1>5, <2>2, <2>4
  <2>7. b <= ch[k][2]
      BY <1>4, <2>4, <2>6
  <2> QED
      BY <2>4, <2>5, <2>7
<1> QED
    BY <1>3, <1>4, <1>6, <1>7, <1>8 DEF CutWell, ch

\* A message is handed over.
WritesOf(m) == [k \in DOMAIN Chunks(PduSizes[m]) |-> <<m, Chunks(PduSizes[m])[k][1], Chunks(PduSizes[m])[k][2]>>]

LEMMA HandExact ==
    ASSUME NEW z \in Nat \ {0}, NEW g \in Nat, g + 1 \in 1 .. Len(PduSizes), z <= g + 1,
           NEW a, NEW ws, Exact(z, g, a, ws), NEW new, new = WritesOf(g + 1)
    PROVE  Exact(z, g + 1, a, ws \o new)
<1> DEFINE h == g + 1
           len == PduSizes[h]
           ch == Chunks(len)
<1>1. g \in 0 .. Len(PduSizes) /\ h \in 0 .. Len(PduSizes) /\ h \in z .. h /\ len \in Nat /\ h \in Nat
    BY SizesNat
<1> HIDE DEF h, len
<1>2. PICK n \in Nat : DOMAIN ch = 1 .. n
    BY <1>1, ChunksCut
<1>3. CutWell(ch, len) /\ \A k \in 1 .. n : ch[k][1] \in Nat /\ ch[k][2] \in Nat
    BY <1>1, <1>2, ChunksCut
<1> HIDE DEF ch
<1>4. new = [k \in 1 .. n |-> <<h, ch[k][1], ch[k][2]>>]
    BY <1>2 DEF WritesOf, h, len, ch
<1>5. new \in Seq(Triples) /\ Len(new) = n /\ DOMAIN new = 1 .. n
  <2>1. \A k \in 1 .. n : <<h, ch[k][1], ch[k][2]>> \in Triples
      BY <1>1, <1>3 DEF Triples
  <2>2. new \in [1 .. n -> Triples]
      BY <1>4, <2>1
  <2> QED
      BY <2>2, FcnIsSeq
<1>6. \A k \in 1 .. n : new[k][1] = h /\ new[k][2] = ch[k][1] /\ new[k][3] = ch[k][2]
    BY <1>4
<1>7. a \in Seq(Pairs) /\ ws \in Seq(Triples) /\ Len(ws) \in Nat /\ DOMAIN ws = 1 .. Len(ws)
    BY LenProperties DEF Exact
<1> DEFINE v == ws \o new
<1>8. /\ v \in Seq(Triples) /\ DOMAIN v = 1 .. Len(ws) + n
      /\ \A p \in 1 .. Len(ws) : v[p] = ws[p]
      /\ \A q \in 1 .. n : v[Len(ws) + q] = new[q]
      /\ \A p \in 1 .. Len(ws) + n : p \in 1 .. Len(ws) \/ \E q \in 1 .. n : p = Len(ws) + q
  <2>0. ws \in Seq(Triples) /\ new \in Seq(Triples)
      BY <1>5, <1>7
  <2>1. /\ v \in Seq(Triples) /\ DOMAIN v = 1 .. Len(ws) + Len(new)
        /\ \A p \in 1 .. Len(ws) : v[p] = ws[p]
        /\ \A q \in 1 .. Len(new) : v[Len(ws) + q] = new[q]
        /\ \A p \in 1 .. Len(ws) + Len(new) : p \in 1 .. Len(ws) \/ \E q \in 1 .. Len(new) : p = Len(ws) + q
      BY <2>0, BothSeqs
  <2> HIDE DEF v
  <2> QED
      BY <1>5, <2>1
<1> HIDE DEF v
<1>9. BytesOf(z, g) \subseteq BytesOf(z, h)
  <2>1. z .. g \subseteq z .. h
      BY DEF h
  <2> QED
      BY <2>1 DEF BytesOf
<1>10. \A p \in DOMAIN a : a[p] \in BytesOf(z, h)
    BY <1>9 DEF Exact
<1>11. ASSUME NEW k \in 1 .. Len(ws)
       PROVE  /\ ws[k][1] \in z .. g /\ 1 <= ws[k][2] /\ ws[k][2] <= ws[k][3] /\ ws[k][3] <= PduSizes[ws[k][1]]
              /\ ws[k][1] \in Nat /\ ws[k][1] < h
  <2>1. ws[k][1] \in z .. g /\ 1 <= ws[k][2] /\ ws[k][2] <= ws[k][3] /\ ws[k][3] <= PduSizes[ws[k][1]]
      BY <1>7 DEF Exact
  <2> QED
      BY <2>1 DEF h
<1>12. ASSUME NEW p \in DOMAIN v
       PROVE  v[p][1] \in z .. h /\ 1 <= v[p][2] /\ v[p][2] <= v[p][3] /\ v[p][3] <= PduSizes[v[p][1]]
  <2>1. CASE p \in 1 .. Len(ws)
    <3>1. v[p] = ws[p] /\ ws[p][1] \in z .. h
        BY <1>8, <1>11, <2>1 DEF h
    <3> QED
        BY <1>11, <2>1, <3>1
  <2>2. ASSUME NEW q \in 1 .. n, p = Len(ws) + q
        PROVE  v[p][1] \in z .. h /\ 1 <= v[p][2] /\ v[p][2] <= v[p][3] /\ v[p][3] <= PduSizes[v[p][1]]
    <3>1. v[p][1] = h /\ v[p][2] = ch[q][1] /\ v[p][3] = ch[q][2]
        BY <1>6, <1>8, <2>2
    <3>2. 1 <= ch[q][1] /\ ch[q][1] <= ch[q][2] /\ ch[q][2] <= len
        BY <1>2, <1>3 DEF CutWell
    <3> QED
        BY <1>1, <3>1, <3>2 DEF len
  <2> QED
      BY <1>8, <2>1, <2>2
<1>13. ASSUME NEW p \in DOMAIN v, NEW q \in DOMAIN v, p < q
       PROVE  v[p][1] < v[q][1] \/ (v[p][1] = v[q][1] /\ v[p][3] < v[q][2])
  <2>1. CASE q \in 1 .. Len(ws)
    <3>1. p \in 1 .. Len(ws)
        BY <1>7, <1>8, <1>13, <2>1
    <3>2. ws[p][1] < ws[q][1] \/ (ws[p][1] = ws[q][1] /\ ws[p][3] < ws[q][2])
        BY <1>7, <1>13, <2>1, <3>1 DEF Exact
    <3> QED
        BY <1>8, <2>1, <3>1, <3>2
  <2>2. ASSUME NEW k \in 1 .. n, q = Len(ws) + k
        PROVE  v[p][1] < v[q][1] \/ (v[p][1] = v[q][1] /\ v[p][3] < v[q][2])
    <3>1. v[q][1] = h /\ v[q][2] = ch[k][1]
        BY <1>6, <1>8, <2>2
    <3>2. CASE p \in 1 .. Len(ws)
        BY <1>8, <1>11, <3>1, <3>2
    <3>3. ASSUME NEW l \in 1 .. n, p = Len(ws) + l PROVE v[p][1] = v[q][1] /\ v[p][3] < v[q][2]
      <4>1. v[p][1] = h /\ v[p][3] = ch[l][2]
          BY <1>6, <1>8, <3>3
      <4>2. l < k
          BY <1>7, <1>13, <2>2, <3>3
      <4> QED
          BY <1>2, <1>3, <3>1, <4>1, <4>2 DEF CutWell
    <3> QED
        BY <1>8, <3>2, <3>3
  <2> QED
      BY <1>8, <2>1, <2>2
<1>14. ASSUME NEW p \in DOMAIN a, NEW q \in DOMAIN v PROVE Before(a[p], <<v[q][1], v[q][2]>>)
  <2>1. CASE q \in 1 .. Len(ws)
      BY <1>7, <1>8, <2>1 DEF Exact
  <2>2. ASSUME NEW k \in 1 .. n, q = Len(ws) + k PROVE Before(a[p], <<v[q][1], v[q][2]>>)
    <3>1. v[q][1] = h
        BY <1>6, <1>8, <2>2
    <3>2. a[p] \in BytesOf(z, g)
        BY DEF Exact
    <3>3. a[p][1] < h
      <4>1. a[p][1] \in z .. g
          BY <1>1, <3>2, ByteType
      <4> QED
          BY <4>1 DEF h
    <3> QED
        BY <3>1, <3>3 DEF Before
  <2> QED
      BY <1>8, <2>1, <2>2
<1>15. ASSUME NEW x \in BytesOf(z, h) PROVE x \in ToSet(a) \/ Writing(v, x)
  <2>1. x[1] \in z .. h /\ x[2] \in 1 .. PduSizes[x[1]] /\ x = <<x[1], x[2]>> /\ x[1] \in Nat /\ x[2] \in Nat
      BY <1>1, ByteType
  <2>2. CASE x[1] \in z .. g
    <3>1. x \in BytesOf(z, g)
        BY <1>1, <2>1, <2>2, ByteIs
    <3>2. CASE Writing(ws, x)
      <4>1. PICK k \in 1 .. Len(ws) : x[1] = ws[k][1] /\ x[2] \in ws[k][2] .. ws[k][3]
          BY <1>7, <3>2 DEF Writing
      <4>2. k \in DOMAIN v /\ v[k] = ws[k]
          BY <1>7, <1>8
      <4> QED
          BY <4>1, <4>2 DEF Writing
    <3> QED
        BY <3>1, <3>2 DEF Exact
  <2>3. CASE x[1] = h
    <3>1. x[2] \in 1 .. len
        BY <2>1, <2>3 DEF len
    <3>2. PICK k \in 1 .. n : ch[k][1] <= x[2] /\ x[2] <= ch[k][2]
        BY <1>2, <1>3, <3>1 DEF CutWell
    <3>3. /\ Len(ws) + k \in DOMAIN v /\ v[Len(ws) + k][1] = h
          /\ v[Len(ws) + k][2] = ch[k][1] /\ v[Len(ws) + k][3] = ch[k][2]
      <4>1. v[Len(ws) + k] = new[k] /\ Len(ws) + k \in DOMAIN v
          BY <1>7, <1>8
      <4> QED
          BY <1>6, <4>1
    <3>4. x[2] \in ch[k][1] .. ch[k][2]
        BY <1>3, <2>1, <3>2
    <3> QED
        BY <2>3, <3>3, <3>4 DEF Writing
  <2> QED
      BY <1>1, <2>1, <2>2, <2>3 DEF h
<1>16. Exact(z, h, a, v)
    BY <1>7, <1>8, <1>10, <1>12, <1>13, <1>14, <1>15 DEF Exact
<1> QED
    BY <1>16 DEF h, v

\* The bytes of a write from its first to some byte of it.
LEMMA BytesTyped ==
    ASSUME NEW w \in Triples, NEW to \in w[2] .. w[3]
    PROVE  /\ BytesIn(<<w[1], w[2], to>>) \in Seq(Pairs) /\ <<w[1], to + 1, w[3]>> \in Triples
           /\ w[1] \in Nat /\ w[2] \in Nat /\ w[3] \in Nat /\ to \in Nat /\ w[2] <= to /\ to <= w[3]
           /\ (to = w[3] => <<w[1], w[2], to>> = w)
<1> DEFINE m == w[1]
           lo == w[2]
           n == to - lo + 1
<1>1. m \in Nat /\ lo \in Nat /\ w[3] \in Nat
    BY DEF Triples
<1>2. to \in Nat /\ lo <= to /\ to <= w[3]
    BY <1>1
<1>3. n \in Nat
    BY <1>1, <1>2
<1>4. \A q \in 1 .. n : <<m, lo + q - 1>> \in Pairs
    BY <1>1 DEF Pairs
<1>5. BytesIn(<<m, lo, to>>) = [q \in 1 .. n |-> <<m, lo + q - 1>>]
    BY DEF BytesIn
<1>6. BytesIn(<<m, lo, to>>) \in [1 .. n -> Pairs]
    BY <1>4, <1>5
<1>7. BytesIn(<<m, lo, to>>) \in Seq(Pairs)
    BY <1>3, <1>6, FcnIsSeq
<1>8. <<m, to + 1, w[3]>> \in Triples
    BY <1>1, <1>2 DEF Triples
<1>9. w = <<w[1], w[2], w[3]>>
    BY DEF Triples
<1> QED
    BY <1>1, <1>2, <1>7, <1>8, <1>9

\* A part of the only write under way is carried out: as if it had been two.
LEMMA PartExact ==
    ASSUME NEW z \in Nat \ {0}, NEW g \in 0 .. Len(PduSizes), NEW a, NEW ws, Exact(z, g, a, ws), Len(ws) = 1,
           NEW w, w = ws[1], NEW to \in w[2] .. w[3], to # w[3],
           NEW new, new = BytesIn(<<w[1], w[2], to>>),
           NEW rest, rest = <<w[1], to + 1, w[3]>>
    PROVE  Exact(z, g, a \o new, <<rest>>)
<1> DEFINE first == <<w[1], w[2], to>>
           two == <<first, rest>>
<1>1. ws \in Seq(Triples) /\ DOMAIN ws = 1 .. 1 /\ 1 \in DOMAIN ws /\ w \in Triples
  <2>1. ws \in Seq(Triples)
      BY DEF Exact
  <2>2. DOMAIN ws = 1 .. 1 /\ 1 \in 1 .. Len(ws)
      BY <2>1, LenProperties
  <2>3. ws[1] \in Triples
      BY <2>1, <2>2, ElementOfSeq
  <2> QED
      BY <2>1, <2>2, <2>3
<1>2. /\ w[1] \in Nat /\ w[2] \in Nat /\ w[3] \in Nat /\ to \in Nat /\ w[2] <= to /\ to < w[3]
      /\ rest \in Triples
  <2>1. /\ w[1] \in Nat /\ w[2] \in Nat /\ w[3] \in Nat /\ to \in Nat /\ w[2] <= to /\ to <= w[3]
        /\ rest \in Triples
      BY <1>1, BytesTyped
  <2> QED
      BY <2>1
<1>3. first \in Triples
    BY <1>2 DEF Triples
<1>4. /\ w[1] \in z .. g /\ 1 <= w[2] /\ w[3] <= PduSizes[w[1]] /\ PduSizes[w[1]] \in Nat
  <2>1. w[1] \in z .. g /\ 1 <= w[2] /\ w[3] <= PduSizes[w[1]]
      BY <1>1 DEF Exact
  <2> QED
      BY <2>1, SizesNat
<1>5. /\ two \in Seq(Triples) /\ Len(two) = 2 /\ DOMAIN two = 1 .. 2 /\ two[1] = first /\ two[2] = rest
      /\ two # <<>>
    BY <1>2, <1>3
<1>6. first[1] = w[1] /\ first[2] = w[2] /\ first[3] = to /\ rest[1] = w[1] /\ rest[2] = to + 1 /\ rest[3] = w[3]
    OBVIOUS
<1> HIDE DEF two, first
<1>7. ASSUME NEW k \in DOMAIN two
      PROVE  /\ two[k][1] \in z .. g /\ 1 <= two[k][2] /\ two[k][2] <= two[k][3] /\ two[k][3] <= PduSizes[two[k][1]]
  <2>1. k = 1 \/ k = 2
      BY <1>5
  <2>2. CASE k = 1
    <3>1. two[k] = first
        BY <1>5, <2>2
    <3>2. to <= PduSizes[w[1]]
        BY <1>2, <1>4
    <3> QED
        BY <1>2, <1>4, <1>6, <3>1, <3>2
  <2>3. CASE k = 2
    <3>1. two[k] = rest
        BY <1>5, <2>3
    <3>2. 1 <= to + 1 /\ to + 1 <= w[3]
        BY <1>2
    <3> QED
        BY <1>2, <1>4, <1>6, <3>1, <3>2
  <2> QED
      BY <2>1, <2>2, <2>3
<1>8. ASSUME NEW k \in DOMAIN two, NEW l \in DOMAIN two, k < l
      PROVE  two[k][1] < two[l][1] \/ (two[k][1] = two[l][1] /\ two[k][3] < two[l][2])
  <2>1. k = 1 /\ l = 2
      BY <1>5, <1>8
  <2>2. to < to + 1
      BY <1>2
  <2> QED
      BY <1>5, <1>6, <2>1, <2>2
<1>9. ASSUME NEW p \in DOMAIN a, NEW k \in DOMAIN two PROVE Before(a[p], <<two[k][1], two[k][2]>>)
  <2>1. Before(a[p], <<w[1], w[2]>>)
      BY <1>1 DEF Exact
  <2>2. k = 1 \/ k = 2
      BY <1>5
  <2>3. CASE k = 1
    <3>1. two[k][1] = w[1] /\ two[k][2] = w[2]
        BY <1>5, <1>6, <2>3
    <3> QED
        BY <2>1, <3>1
  <2>4. CASE k = 2
    <3>1. two[k][1] = w[1] /\ two[k][2] = to + 1
        BY <1>5, <1>6, <2>4
    <3>2. a[p] \in BytesOf(z, g)
        BY DEF Exact
    <3>3. a[p][2] \in Nat
        BY <3>2, ByteType DEF Pairs
    <3>4. a[p][1] < w[1] \/ (a[p][1] = w[1] /\ a[p][2] < w[2])
        BY <2>1 DEF Before
    <3>5. a[p][1] < w[1] \/ (a[p][1] = w[1] /\ a[p][2] < to + 1)
        BY <1>2, <3>3, <3>4
    <3> QED
        BY <3>1, <3>5 DEF Before
  <2> QED
      BY <2>2, <2>3, <2>4
<1>10. ASSUME NEW x \in BytesOf(z, g) PROVE x \in ToSet(a) \/ Writing(two, x)
  <2>1. CASE Writing(ws, x)
    <3>1. x[1] = w[1] /\ x[2] \in w[2] .. w[3]
        BY <1>1, <2>1 DEF Writing
    <3>2. x[2] \in w[2] .. to \/ x[2] \in to + 1 .. w[3]
        BY <1>2, <3>1
    <3>3. 1 \in DOMAIN two /\ 2 \in DOMAIN two
        BY <1>5
    <3>4. CASE x[2] \in w[2] .. to
        BY <1>5, <1>6, <3>1, <3>3, <3>4 DEF Writing
    <3>5. CASE x[2] \in to + 1 .. w[3]
        BY <1>5, <1>6, <3>1, <3>3, <3>5 DEF Writing
    <3> QED
        BY <3>2, <3>4, <3>5
  <2> QED
      BY <2>1 DEF Exact
<1>11. Exact(z, g, a, two)
  <2>1. a \in Seq(Pairs) /\ (\A p \in DOMAIN a : a[p] \in BytesOf(z, g))
        /\ (\A p, q \in DOMAIN a : p < q => Before(a[p], a[q]))
      BY DEF Exact
  <2> QED
      BY <1>5, <1>7, <1>8, <1>9, <1>10, <2>1 DEF Exact
<1>12. new = BytesIn(two[1])
    BY <1>5 DEF first
<1>13. Exact(z, g, a \o new, Tail(two))
    BY <1>5, <1>11, <1>12, CarryExact
<1>14. Tail(two) = <<rest>>
  <2>1. two = <<first, rest>>
      BY DEF two
  <2> QED
      BY <1>2, <1>3, <2>1
<1> QED
    BY <1>13, <1>14

\* A client's first message.
LEMMA NothingExact ==
    ASSUME NEW z \in Nat \ {0}
    PROVE  Exact(z, z - 1, <<>>, <<>>)
<1>1. BytesOf(z, z - 1) = {}
  <2>1. z .. z - 1 = {}
      OBVIOUS
  <2> QED
      BY <2>1 DEF BytesOf
<1> QED
    BY <1>1, EmptySeq DEF Exact

LEMMA NothingGapless == \A z, g : Gapless(z, g, <<>>)
    BY DEF Gapless, ToSet

-----------------------------------------------------------------------------
(* The connections that remain.                                              *)

\* If n is not in S, the map that moves the members of S up by one takes
\* 0 .. n into 1 .. n, which is smaller, and yet no two numbers to one.
LEMMA Induction ==
    ASSUME NEW S, 0 \in S, \A n \in Nat : n \in S => n + 1 \in S
    PROVE  \A n \in Nat : n \in S
<1> SUFFICES ASSUME NEW n \in Nat, n \notin S PROVE FALSE
    OBVIOUS
<1> DEFINE f == [x \in 0 .. n |-> IF x \in S THEN x + 1 ELSE x]
<1>1. f \in [0 .. n -> 1 .. n]
    <2>1. ASSUME NEW x \in 0 .. n PROVE (IF x \in S THEN x + 1 ELSE x) \in 1 .. n
        <3>1. x \in S => x # n
            OBVIOUS
        <3>2. x \notin S => x # 0
            OBVIOUS
        <3> QED
            BY <3>1, <3>2
    <2> QED
        BY <2>1
<1>2. ASSUME NEW x \in 0 .. n, NEW y \in 0 .. n, x # y PROVE f[x] # f[y]
    <2>1. x \in S => x + 1 \in S
        OBVIOUS
    <2>2. y \in S => y + 1 \in S
        OBVIOUS
    <2>3. f[x] = (IF x \in S THEN x + 1 ELSE x) /\ f[y] = IF y \in S THEN y + 1 ELSE y
        OBVIOUS
    <2> HIDE DEF f
    <2> QED
        BY <2>1, <2>2, <2>3, <1>2
<1> HIDE DEF f
<1>3. /\ Cardinality(1 .. n) < Cardinality(0 .. n)
      /\ IsFiniteSet(0 .. n) /\ IsFiniteSet(1 .. n)
    <2>1. 0 \in Int /\ 1 \in Int /\ n \in Int
        OBVIOUS
    <2>2. IsFiniteSet(0 .. n) /\ Cardinality(0 .. n) = IF 0 > n THEN 0 ELSE n - 0 + 1
        BY <2>1, FS_Interval
    <2>3. IsFiniteSet(1 .. n) /\ Cardinality(1 .. n) = IF 1 > n THEN 0 ELSE n - 1 + 1
        BY <2>1, FS_Interval
    <2> QED
        BY <2>2, <2>3
<1>4. \E x, y \in 0 .. n : x # y /\ f[x] = f[y]
    BY <1>1, <1>3, FS_PigeonHole, Zenon
<1> QED
    BY <1>2, <1>4

\* The recursion of OpenOnes, for some set of clients.
IsKept(S, conns, k, f) ==
    f = [n \in 0 .. k |-> IF n = 0 THEN <<>> ELSE IF conns[n] \in S THEN Append(f[n - 1], conns[n]) ELSE f[n - 1]]

KeptStep(S, conns, old, n) == IF conns[n] \in S THEN Append(old, conns[n]) ELSE old

LEMMA KeptExists ==
    ASSUME NEW S, NEW conns, NEW k \in Nat
    PROVE  \E f : IsKept(S, conns, k, f)
<1> DEFINE P == {n \in Nat : \E f : IsKept(S, conns, n, f)}
<1>1. 0 \in P
  <2> DEFINE f == [n \in 0 .. 0 |-> <<>>]
  <2>1. \A n \in 0 .. 0 : n = 0
      OBVIOUS
  <2>2. IsKept(S, conns, 0, f)
      BY <2>1 DEF IsKept
  <2> QED
      BY <2>2
<1>2. ASSUME NEW n \in Nat, n \in P PROVE n + 1 \in P
  <2>1. PICK f : IsKept(S, conns, n, f)
      BY <1>2
  <2> DEFINE g == [i \in 0 .. n + 1 |-> IF i <= n THEN f[i] ELSE KeptStep(S, conns, f[n], n + 1)]
  <2>2. \A i \in 0 .. n : g[i] = f[i]
      OBVIOUS
  <2>3. g[n + 1] = KeptStep(S, conns, f[n], n + 1)
      OBVIOUS
  <2>4. \A i \in 0 .. n : f[i] = IF i = 0 THEN <<>> ELSE KeptStep(S, conns, f[i - 1], i)
    <3> DEFINE h == [i \in 0 .. n |-> IF i = 0 THEN <<>> ELSE KeptStep(S, conns, f[i - 1], i)]
    <3>1. \A i \in 0 .. n : h[i] = IF i = 0 THEN <<>> ELSE KeptStep(S, conns, f[i - 1], i)
        OBVIOUS
    <3>2. f = h
        BY <2>1 DEF IsKept, KeptStep
    <3> HIDE DEF h
    <3> QED
        BY <3>1, <3>2
  <2>5. g = [i \in 0 .. n + 1 |-> g[i]]
      OBVIOUS
  <2> HIDE DEF g
  <2>6. ASSUME NEW i \in 0 .. n + 1
        PROVE  g[i] = IF i = 0 THEN <<>> ELSE KeptStep(S, conns, g[i - 1], i)
    <3>1. CASE i = 0
      <4>1. 0 \in 0 .. n
          OBVIOUS
      <4>2. g[0] = f[0]
          BY <2>2, <4>1
      <4>3. f[0] = IF 0 = 0 THEN <<>> ELSE KeptStep(S, conns, f[0 - 1], 0)
          BY <2>4, <4>1
      <4>4. f[0] = <<>>
          BY <4>3
      <4> QED
          BY <3>1, <4>2, <4>4
    <3>2. CASE i \in 1 .. n
      <4>1. i \in 0 .. n /\ i - 1 \in 0 .. n /\ i # 0
          BY <3>2
      <4>2. g[i] = f[i] /\ g[i - 1] = f[i - 1]
          BY <2>2, <4>1
      <4>3. f[i] = IF i = 0 THEN <<>> ELSE KeptStep(S, conns, f[i - 1], i)
          BY <2>4, <4>1
      <4> QED
          BY <4>2, <4>3
    <3>3. CASE i = n + 1
      <4>1. i - 1 = n /\ n \in 0 .. n /\ i # 0
          BY <3>3
      <4> QED
          BY <2>2, <2>3, <3>3, <4>1
    <3> QED
        BY <3>1, <3>2, <3>3
  <2>7. IsKept(S, conns, n + 1, g)
      BY <2>5, <2>6 DEF IsKept, KeptStep
  <2> QED
      BY <2>7
<1> HIDE DEF P
<1>3. k \in P
    BY <1>1, <1>2, Induction
<1> QED
    BY <1>3 DEF P

OnePlace(conns) == \A k, l \in DOMAIN conns : conns[k] = conns[l] => k = l

\* What is kept of the first n, each at no later place.
KeptOf(S, conns, n, s) ==
    /\ s \in Seq(Peers) /\ OnePlace(s) /\ Len(s) <= n
    /\ \A q \in DOMAIN s : \E p \in q .. n : conns[p] = s[q]
    /\ \A c : (\E p \in DOMAIN s : s[p] = c) <=> \E p \in 1 .. n : conns[p] = c /\ c \in S

LEMMA KeptSteps ==
    ASSUME NEW S, NEW conns \in Seq(Peers), OnePlace(conns), NEW k \in Nat, k <= Len(conns),
           NEW f, IsKept(S, conns, k, f)
    PROVE  KeptOf(S, conns, k, f[k])
<1>1. Len(conns) \in Nat /\ DOMAIN conns = 1 .. Len(conns)
    BY LenProperties
<1>2. \A i \in 0 .. k : f[i] = IF i = 0 THEN <<>> ELSE KeptStep(S, conns, f[i - 1], i)
  <2> DEFINE h == [i \in 0 .. k |-> IF i = 0 THEN <<>> ELSE KeptStep(S, conns, f[i - 1], i)]
  <2>1. \A i \in 0 .. k : h[i] = IF i = 0 THEN <<>> ELSE KeptStep(S, conns, f[i - 1], i)
      OBVIOUS
  <2>2. f = h
      BY DEF IsKept, KeptStep
  <2> HIDE DEF h
  <2> QED
      BY <2>1, <2>2
<1> DEFINE P == {n \in Nat : n <= k => KeptOf(S, conns, n, f[n])}
<1>3. 0 \in P
  <2>1. f[0] = <<>>
      BY <1>2
  <2>2. DOMAIN f[0] = {} /\ f[0] \in Seq(Peers) /\ 1 .. 0 = {} /\ Len(f[0]) = 0
      BY <2>1, EmptySeq
  <2> QED
      BY <2>2 DEF KeptOf, OnePlace
<1>4. ASSUME NEW n \in Nat, n \in P PROVE n + 1 \in P
  <2> SUFFICES ASSUME n + 1 <= k PROVE KeptOf(S, conns, n + 1, f[n + 1])
      OBVIOUS
  <2> DEFINE s == f[n]
             x == conns[n + 1]
             t == f[n + 1]
  <2>1. KeptOf(S, conns, n, s)
      BY <1>4
  <2>2. n + 1 \in 0 .. k /\ n + 1 # 0 /\ (n + 1) - 1 = n /\ n + 1 \in 1 .. Len(conns)
      BY <1>1
  <2>3. t = KeptStep(S, conns, s, n + 1)
      BY <1>2, <2>2
  <2>4. x \in Peers
      BY <2>2, ElementOfSeq
  <2> HIDE DEF s, x, t
  <2>5. CASE x \in S
    <3>1. t = Append(s, x)
        BY <2>3, <2>5 DEF KeptStep, x
    <3>2. s \in Seq(Peers) /\ Len(s) \in Nat /\ DOMAIN s = 1 .. Len(s)
        BY <2>1, LenProperties DEF KeptOf
    <3>3. /\ t \in Seq(Peers) /\ DOMAIN t = 1 .. Len(s) + 1 /\ t[Len(s) + 1] = x /\ Len(t) = Len(s) + 1
          /\ \A p \in 1 .. Len(s) : t[p] = s[p]
      <4>1. t \in Seq(Peers) /\ Len(t) = Len(s) + 1
          BY <2>4, <3>1, <3>2
      <4>2. DOMAIN t = 1 .. Len(s) + 1
          BY <4>1, LenProperties
      <4> QED
          BY <2>4, <3>1, <3>2, <4>1, <4>2
    <3>4. ASSUME NEW p \in DOMAIN s PROVE s[p] # x
      <4>1. PICK i \in 1 .. n : conns[i] = s[p]
          BY <2>1 DEF KeptOf
      <4>2. i \in 1 .. Len(conns) /\ i # n + 1
          BY <1>1, <2>2
      <4> QED
          BY <1>1, <2>2, <4>1, <4>2 DEF OnePlace, x
    <3>5. OnePlace(t)
      <4> SUFFICES ASSUME NEW p \in DOMAIN t, NEW q \in DOMAIN t, t[p] = t[q] PROVE p = q
          BY DEF OnePlace
      <4>1. (p \in 1 .. Len(s) \/ p = Len(s) + 1) /\ (q \in 1 .. Len(s) \/ q = Len(s) + 1)
          BY <3>2, <3>3
      <4>2. CASE p \in 1 .. Len(s) /\ q \in 1 .. Len(s)
          BY <2>1, <3>2, <3>3, <4>2 DEF KeptOf, OnePlace
      <4>3. CASE p = Len(s) + 1 /\ q \in 1 .. Len(s)
          BY <3>2, <3>3, <3>4, <4>3
      <4>4. CASE p \in 1 .. Len(s) /\ q = Len(s) + 1
          BY <3>2, <3>3, <3>4, <4>4
      <4> QED
          BY <4>1, <4>2, <4>3, <4>4
    <3>6. ASSUME NEW c PROVE (\E p \in DOMAIN t : t[p] = c) <=> \E p \in 1 .. n + 1 : conns[p] = c /\ c \in S
      <4>1. (\E p \in DOMAIN t : t[p] = c) <=> (\E p \in DOMAIN s : s[p] = c) \/ c = x
        <5>1. \A p \in DOMAIN t : p \in DOMAIN s \/ p = Len(s) + 1
            BY <3>2, <3>3
        <5>2. Len(s) + 1 \in DOMAIN t /\ \A p \in DOMAIN s : p \in DOMAIN t
            BY <3>2, <3>3
        <5> QED
            BY <3>2, <3>3, <5>1, <5>2
      <4>2. (\E p \in 1 .. n + 1 : conns[p] = c /\ c \in S) <=> (\E p \in 1 .. n : conns[p] = c /\ c \in S) \/ c = x
        <5>1. \A p \in 1 .. n + 1 : p \in 1 .. n \/ p = n + 1
            OBVIOUS
        <5>2. n + 1 \in 1 .. n + 1 /\ \A p \in 1 .. n : p \in 1 .. n + 1
            OBVIOUS
        <5> QED
            BY <2>5, <5>1, <5>2 DEF x
      <4> QED
          BY <2>1, <4>1, <4>2 DEF KeptOf
    <3>7. Len(s) <= n /\ Len(t) <= n + 1
        BY <2>1, <3>2, <3>3 DEF KeptOf
    <3>8. ASSUME NEW q \in DOMAIN t PROVE \E p \in q .. n + 1 : conns[p] = t[q]
      <4>1. CASE q \in 1 .. Len(s)
        <5>1. PICK p \in q .. n : conns[p] = s[q]
            BY <2>1, <3>2, <4>1 DEF KeptOf
        <5>2. p \in q .. n + 1 /\ t[q] = s[q]
            BY <3>2, <3>3, <4>1, <5>1
        <5> QED
            BY <5>1, <5>2
      <4>2. CASE q = Len(s) + 1
        <5>1. n + 1 \in q .. n + 1 /\ t[q] = conns[n + 1]
            BY <3>2, <3>3, <3>7, <4>2 DEF x
        <5> QED
            BY <5>1
      <4>3. q \in 1 .. Len(s) \/ q = Len(s) + 1
          BY <3>2, <3>3
      <4> QED
          BY <4>1, <4>2, <4>3
    <3> QED
        BY <3>3, <3>5, <3>6, <3>7, <3>8 DEF KeptOf, t
  <2>6. CASE x \notin S
    <3>1. t = s
        BY <2>3, <2>6 DEF KeptStep, x
    <3>2. ASSUME NEW c
          PROVE  (\E p \in 1 .. n + 1 : conns[p] = c /\ c \in S) <=> \E p \in 1 .. n : conns[p] = c /\ c \in S
      <4>1. \A p \in 1 .. n + 1 : p \in 1 .. n \/ p = n + 1
          OBVIOUS
      <4>2. \A p \in 1 .. n : p \in 1 .. n + 1
          OBVIOUS
      <4> QED
          BY <2>6, <4>1, <4>2 DEF x
    <3>3. Len(s) <= n + 1
      <4>1. Len(s) \in Nat /\ Len(s) <= n
          BY <2>1, LenProperties DEF KeptOf
      <4> QED
          BY <4>1
    <3>4. ASSUME NEW q \in DOMAIN s PROVE \E p \in q .. n + 1 : conns[p] = s[q]
      <4>1. PICK p \in q .. n : conns[p] = s[q]
          BY <2>1 DEF KeptOf
      <4>2. q \in Nat
          BY <2>1, LenProperties DEF KeptOf
      <4>3. p \in q .. n + 1
          BY <4>1, <4>2
      <4> QED
          BY <4>1, <4>3
    <3> QED
        BY <2>1, <3>1, <3>2, <3>3, <3>4 DEF KeptOf, t
  <2> QED
      BY <2>5, <2>6
<1> HIDE DEF P
<1>5. k \in P
    BY <1>3, <1>4, Induction
<1> QED
    BY <1>5 DEF P

LEMMA OpenKept ==
    ASSUME NEW conns \in Seq(Peers), OnePlace(conns)
    PROVE  /\ OpenOnes(conns) \in Seq(Peers) /\ OnePlace(OpenOnes(conns))
           /\ \A c \in Peers : (\E p \in DOMAIN OpenOnes(conns) : OpenOnes(conns)[p] = c) <=>
                                   (\E p \in DOMAIN conns : conns[p] = c) /\ IsOpen(c)
           /\ Len(OpenOnes(conns)) <= Len(conns)
           /\ \A q \in DOMAIN OpenOnes(conns) : \E p \in q .. Len(conns) : conns[p] = OpenOnes(conns)[q]
<1> DEFINE S == {c \in Peers : IsOpen(c)}
           k == Len(conns)
           f == CHOOSE f : IsKept(S, conns, k, f)
<1>1. k \in Nat /\ DOMAIN conns = 1 .. k /\ \A n \in 1 .. k : conns[n] \in S <=> IsOpen(conns[n])
  <2>1. \A n \in 1 .. Len(conns) : conns[n] \in Peers
      BY ElementOfSeq
  <2> QED
      BY <2>1, LenProperties
<1>2. OpenOnes(conns) = f[k]
  <2> DEFINE R(g) == [n \in 0 .. k |-> IF n = 0 THEN <<>>
                                       ELSE IF IsOpen(conns[n]) THEN Append(g[n - 1], conns[n]) ELSE g[n - 1]]
  <2>1. ASSUME NEW g PROVE (g = R(g)) = IsKept(S, conns, k, g)
    <3>1. \A n \in 0 .. k : n # 0 => n \in 1 .. k
        BY <1>1
    <3> HIDE DEF k, S
    <3>2. R(g) = [n \in 0 .. k |-> IF n = 0 THEN <<>>
                                   ELSE IF conns[n] \in S THEN Append(g[n - 1], conns[n]) ELSE g[n - 1]]
        BY <1>1, <3>1
    <3> QED
        BY <3>2 DEF IsKept
  <2>2. (CHOOSE g : g = R(g)) = f
      BY <2>1
  <2> QED
      BY <2>2 DEF OpenOnes
<1> HIDE DEF S, k
<1>3. IsKept(S, conns, k, f)
    BY <1>1, KeptExists
<1> HIDE DEF f
<1>4. KeptOf(S, conns, k, f[k])
    BY <1>1, <1>3, KeptSteps DEF k
<1>5. f[k] \in Seq(Peers) /\ OnePlace(f[k]) /\ Len(f[k]) <= k
    BY <1>4 DEF KeptOf
<1>6. \A q \in DOMAIN f[k] : \E p \in q .. k : conns[p] = f[k][q]
    BY <1>4 DEF KeptOf
<1>7. \A c \in Peers : (\E p \in DOMAIN f[k] : f[k][p] = c) <=> \E p \in 1 .. k : conns[p] = c /\ IsOpen(c)
    BY <1>4 DEF KeptOf, S
<1> QED
    BY <1>1, <1>2, <1>5, <1>6, <1>7 DEF k

-----------------------------------------------------------------------------
(* The states of the connections.                                            *)

SpTypes ==
    /\ peer \in [Peers -> {"away", "open", "eof", "closed"}] /\ d_tcp_connections \in Seq(Peers)
    /\ handed \in 0 .. Len(PduSizes) /\ next_i \in Nat
    /\ next_i # 0 => handed # 0
    /\ async_writes \in [Peers -> Seq(Triples)] /\ arrived \in [Peers -> Seq(Pairs)] /\ joined \in [Peers -> Nat]
    /\ said \in [Peers -> Nat] /\ pdus_of \in [Peers -> Seq(Pairs)]

Live(c) == peer[c] \in {"open", "eof"}

\* A client that is there has one place among the connections.
Connected ==
    /\ OnePlace(d_tcp_connections)
    /\ \A c \in Peers : Live(c) => \E k \in DOMAIN d_tcp_connections : d_tcp_connections[k] = c
    /\ \A k \in DOMAIN d_tcp_connections : peer[d_tcp_connections[k]] # "away"

\* The walk has yet to come to the client with the present message.
Awaits(c) == \E k \in DOMAIN d_tcp_connections : d_tcp_connections[k] = c /\ 0 < next_i /\ next_i <= k
LastGiven(c) == IF Awaits(c) THEN handed - 1 ELSE handed

Served(c) ==
    /\ joined[c] <= handed
    /\ joined[c] = 0 => arrived[c] = <<>> /\ async_writes[c] = <<>>
    /\ peer[c] = "away" => joined[c] = 0
    /\ c \notin disturbed /\ joined[c] # 0 /\ Live(c) => Exact(joined[c], LastGiven(c), arrived[c], async_writes[c])
    /\ c \notin disturbed /\ joined[c] # 0 /\ ~Live(c) => Gapless(joined[c], handed, arrived[c])

Listened(c) ==
    /\ \A k \in DOMAIN pdus_of[c] :
          /\ pdus_of[c][k][1] = (IF k = 1 THEN 1 ELSE pdus_of[c][k - 1][2] + 1)
          /\ pdus_of[c][k][2] \in pdus_of[c][k][1] .. pdus_of[c][k][1] + MTU - 1
    /\ Heard(c) \in Nat /\ Heard(c) <= said[c]
    /\ peer[c] = "closed" => Heard(c) = said[c]

SpInv == SpTypes /\ Connected /\ (\A c \in Peers : Served(c)) /\ (\A c \in Peers : Listened(c))

LEMMA SpInitInv == SpInit => SpInv
<1> SUFFICES ASSUME SpInit PROVE SpInv
    OBVIOUS
<1>1. SpTypes
    BY SizesNat, EmptySeq DEF SpInit, SpTypes
<1>2. Connected
    BY DEF SpInit, Connected, OnePlace, Live
<1>3. ASSUME NEW c \in Peers PROVE Served(c)
    BY DEF SpInit, Served
<1>4. ASSUME NEW c \in Peers PROVE Listened(c)
    BY DEF SpInit, Listened, Heard
<1> QED
    BY <1>1, <1>2, <1>3, <1>4 DEF SpInv

\* The last message given to a client.
LEMMA GivenIs ==
    ASSUME SpTypes, NEW c \in Peers
    PROVE  /\ LastGiven(c) \in 0 .. Len(PduSizes) /\ handed \in Nat
           /\ LastGiven(c) = handed \/ (handed \in 1 .. Len(PduSizes) /\ LastGiven(c) = handed - 1)
<1>1. Len(PduSizes) \in Nat /\ handed \in 0 .. Len(PduSizes) /\ (next_i # 0 => handed # 0) /\ next_i \in Nat
    BY SizesNat DEF SpTypes
<1>2. CASE Awaits(c)
  <2>1. LastGiven(c) = handed - 1
      BY <1>2 DEF LastGiven
  <2>2. 0 < next_i
      BY <1>2 DEF Awaits
  <2>3. handed # 0
      BY <1>1, <2>2
  <2>4. handed \in 1 .. Len(PduSizes) /\ handed - 1 \in 0 .. Len(PduSizes)
      BY <1>1, <2>3
  <2> QED
      BY <2>1, <2>4
<1>3. CASE ~Awaits(c)
  <2>1. LastGiven(c) = handed
      BY <1>3 DEF LastGiven
  <2> QED
      BY <1>1, <2>1
<1> QED
    BY <1>2, <1>3

\* What concerns a client and does not change.
SameFor(c) ==
    /\ peer'[c] = peer[c] /\ joined'[c] = joined[c] /\ arrived'[c] = arrived[c] /\ async_writes'[c] = async_writes[c]
    /\ handed' = handed /\ LastGiven(c)' = LastGiven(c) /\ (c \in disturbed => c \in disturbed')

LEMMA ExactNow ==
    ASSUME NEW c \in Peers, Exact(joined'[c], LastGiven(c)', arrived'[c], async_writes'[c])
    PROVE  Exact(joined[c], LastGiven(c), arrived[c], async_writes[c])'
    BY DEF Exact, BytesOf, Writing, Before

LEMMA GaplessNow ==
    ASSUME NEW c \in Peers, Gapless(joined'[c], handed', arrived'[c])
    PROVE  Gapless(joined[c], handed, arrived[c])'
    BY DEF Gapless, BytesOf, Before

LEMMA StaysServed == ASSUME NEW c \in Peers, Served(c), SameFor(c) PROVE Served(c)'
    BY DEF Served, SameFor, Live, Exact, Gapless, BytesOf, Writing, Before

LEMMA SameGiven ==
    ASSUME UNCHANGED <<d_tcp_connections, handed, next_i>>, NEW c
    PROVE  LastGiven(c)' = LastGiven(c)
    BY DEF LastGiven, Awaits

LEMMA StaysListened ==
    ASSUME NEW c \in Peers, Listened(c), peer'[c] = peer[c], pdus_of'[c] = pdus_of[c], said'[c] = said[c]
    PROVE  Listened(c)'
    BY DEF Listened, Heard

\* The clients.
LEMMA SayKeeps == ASSUME SpInv, NEW c \in Peers, Say(c) PROVE SpInv'
<1>0. /\ said \in [Peers -> Nat] /\ said' = [said EXCEPT ![c] = @ + 1] /\ said'[c] = said[c] + 1
      /\ UNCHANGED <<peer, d_tcp_connections, handed, next_i, async_writes, arrived, joined, pdus_of, disturbed>>
    BY DEF Say, SpInv, SpTypes
<1>1. SpTypes' /\ Connected'
  <2>1. said' \in [Peers -> Nat]
      BY <1>0
  <2>2. SpTypes'
      BY <1>0, <2>1 DEF SpInv, SpTypes
  <2>3. Connected'
      BY <1>0 DEF SpInv, Connected, OnePlace, Live
  <2> QED
      BY <2>2, <2>3
<1>2. ASSUME NEW d \in Peers PROVE Served(d)'
  <2>1. SameFor(d)
      BY SameGiven DEF Say, SameFor
  <2> QED
      BY <2>1, StaysServed DEF SpInv
<1>3. ASSUME NEW d \in Peers PROVE Listened(d)'
  <2>1. CASE d = c
    <3>1. peer'[d] = "open" /\ pdus_of' = pdus_of /\ said'[d] = said[d] + 1
        BY <2>1 DEF Say, SpInv, SpTypes
    <3>2. Heard(d)' = Heard(d)
        BY <3>1 DEF Heard
    <3>3. said[d] \in Nat
        BY DEF SpInv, SpTypes
    <3>4. Heard(d) \in Nat /\ Heard(d) <= said[d] + 1
        BY <3>3 DEF SpInv, Listened
    <3> QED
        BY <3>1, <3>2, <3>4 DEF SpInv, Listened
  <2>2. CASE d # c
    <3>1. peer'[d] = peer[d] /\ pdus_of'[d] = pdus_of[d] /\ said'[d] = said[d]
        BY <2>2 DEF Say, SpInv, SpTypes
    <3> QED
        BY <3>1, StaysListened DEF SpInv
  <2> QED
      BY <2>1, <2>2
<1> QED
    BY <1>1, <1>2, <1>3 DEF SpInv

LEMMA LeaveKeeps == ASSUME SpInv, NEW c \in Peers, Leave(c) PROVE SpInv'
<1>1. /\ peer \in [Peers -> {"away", "open", "eof", "closed"}] /\ peer[c] = "open" /\ peer' = [peer EXCEPT ![c] = "eof"]
      /\ UNCHANGED <<d_tcp_connections, handed, next_i, async_writes, arrived, joined, said, pdus_of, stopped, disturbed>>
    BY DEF Leave, SpInv, SpTypes
<1>2. peer'[c] = "eof" /\ \A d \in Peers : d # c => peer'[d] = peer[d]
    BY <1>1
<1>3. \A d \in Peers : (Live(d)' <=> Live(d)) /\ (peer'[d] = "away" <=> peer[d] = "away")
                       /\ (peer'[d] = "closed" <=> peer[d] = "closed")
    BY <1>1, <1>2 DEF Live
<1>4. SpTypes'
    BY <1>1 DEF SpInv, SpTypes
<1>5. Connected'
  <2>1. \A k \in DOMAIN d_tcp_connections : d_tcp_connections[k] \in Peers
      BY ElementOfSeq, LenProperties DEF SpInv, SpTypes
  <2> QED
      BY <1>1, <1>3, <2>1 DEF SpInv, Connected, OnePlace
<1>6. ASSUME NEW d \in Peers PROVE Served(d)'
  <2>1. LastGiven(d)' = LastGiven(d)
      BY <1>1, SameGiven
  <2>2. Served(d) /\ joined' = joined /\ arrived' = arrived /\ async_writes' = async_writes /\ handed' = handed
        /\ disturbed' = disturbed
      BY <1>1 DEF SpInv
  <2>3. Exact(joined[d], LastGiven(d), arrived[d], async_writes[d]) =>
            Exact(joined[d], LastGiven(d), arrived[d], async_writes[d])'
      BY <2>1, <2>2, ExactNow
  <2>4. Gapless(joined[d], handed, arrived[d]) => Gapless(joined[d], handed, arrived[d])'
      BY <2>2, GaplessNow
  <2> QED
      BY <1>3, <2>2, <2>3, <2>4 DEF Served
<1>7. ASSUME NEW d \in Peers PROVE Listened(d)'
    BY <1>1, <1>3 DEF SpInv, Listened, Heard
<1> QED
    BY <1>4, <1>5, <1>6, <1>7 DEF SpInv

\* The next message, before any connection has been come to.
LEMMA NextMessageKeeps == ASSUME SpInv, tcp_server_send PROVE SpInv'
<1>1. /\ next_i = 0 /\ handed < Len(PduSizes) /\ handed' = handed + 1 /\ next_i' = 1
      /\ UNCHANGED <<peer, d_tcp_connections, async_writes, arrived, joined, said, pdus_of, stopped, disturbed>>
    BY DEF tcp_server_send
<1>2. /\ handed \in Nat /\ Len(d_tcp_connections) \in Nat /\ Len(PduSizes) \in Nat /\ handed + 1 \in 1 .. Len(PduSizes)
      /\ DOMAIN d_tcp_connections = 1 .. Len(d_tcp_connections) /\ joined \in [Peers -> Nat]
    BY <1>1, SizesNat, LenProperties DEF SpInv, SpTypes
<1>3. SpTypes'
    BY <1>1, <1>2 DEF SpInv, SpTypes
<1>4. Connected'
    BY <1>1 DEF SpInv, Connected, OnePlace, Live
<1>5. ASSUME NEW c \in Peers PROVE Served(c)'
  <2>1. LastGiven(c) = handed
      BY <1>1 DEF LastGiven, Awaits
  <2>2. joined'[c] <= handed' /\ joined[c] \in Nat
      BY <1>1, <1>2 DEF SpInv, Served
  <2>3. ASSUME joined[c] # 0, Live(c) PROVE LastGiven(c)' = handed
    <3>1. PICK k \in DOMAIN d_tcp_connections : d_tcp_connections[k] = c
        BY <2>3 DEF SpInv, Connected
    <3>2. Awaits(c)'
        BY <1>1, <1>2, <3>1 DEF Awaits
    <3>3. LastGiven(c)' = handed' - 1
        BY <3>2 DEF LastGiven
    <3> QED
        BY <1>1, <1>2, <3>3
  <2>4. ASSUME c \notin disturbed, joined[c] # 0, ~Live(c) PROVE Gapless(joined[c], handed + 1, arrived[c])
      BY <1>2, <2>2, <2>4, GaplessLater DEF SpInv, Served
  <2>5. c \notin disturbed /\ joined[c] # 0 /\ Live(c) => Exact(joined[c], LastGiven(c)', arrived[c], async_writes[c])
      BY <2>1, <2>3 DEF SpInv, Served
  <2>6. joined[c] = 0 => arrived[c] = <<>> /\ async_writes[c] = <<>>
      BY DEF SpInv, Served
  <2>7. peer[c] = "away" => joined[c] = 0
      BY DEF SpInv, Served
  <2>8. /\ joined'[c] = joined[c] /\ arrived'[c] = arrived[c] /\ async_writes'[c] = async_writes[c]
        /\ peer'[c] = peer[c] /\ (Live(c)' <=> Live(c)) /\ disturbed' = disturbed
      BY <1>1 DEF Live
  <2>9. c \notin disturbed' /\ joined'[c] # 0 /\ Live(c)' => Exact(joined[c], LastGiven(c), arrived[c], async_writes[c])'
      BY <2>5, <2>8, ExactNow
  <2>10. c \notin disturbed' /\ joined'[c] # 0 /\ ~Live(c)' => Gapless(joined[c], handed, arrived[c])'
      BY <1>1, <2>4, <2>8, GaplessNow
  <2> QED
      BY <2>2, <2>6, <2>7, <2>8, <2>9, <2>10 DEF Served
<1>6. ASSUME NEW c \in Peers PROVE Listened(c)'
    BY <1>1, StaysListened DEF SpInv
<1> QED
    BY <1>3, <1>4, <1>5, <1>6 DEF SpInv

\* One connection is given the message.
LEMMA HandKeeps == ASSUME SpInv, send PROVE SpInv'
<1> SUFFICES ASSUME NEW i, i = next_i, NEW c, c = d_tcp_connections[next_i], NEW new, new = WritesOf(handed)
             PROVE  SpInv'
    OBVIOUS
<1>1. /\ i \in 1 .. Len(d_tcp_connections) /\ next_i' = i + 1
      /\ async_writes' = IF peer[c] = "closed" THEN async_writes ELSE [async_writes EXCEPT ![c] = @ \o new]
      /\ joined' = [joined EXCEPT ![c] = IF @ = 0 THEN handed ELSE @]
      /\ UNCHANGED <<peer, d_tcp_connections, handed, arrived, said, pdus_of, stopped, disturbed>>
    BY DEF send, WritesOf
<1>2. /\ d_tcp_connections \in Seq(Peers) /\ Len(d_tcp_connections) \in Nat
      /\ DOMAIN d_tcp_connections = 1 .. Len(d_tcp_connections)
      /\ handed \in 1 .. Len(PduSizes) /\ Len(PduSizes) \in Nat /\ joined \in [Peers -> Nat]
      /\ async_writes \in [Peers -> Seq(Triples)] /\ c \in Peers
  <2>1. d_tcp_connections \in Seq(Peers) /\ handed \in 1 .. Len(PduSizes) /\ joined \in [Peers -> Nat]
        /\ async_writes \in [Peers -> Seq(Triples)]
    <3>1. /\ d_tcp_connections \in Seq(Peers) /\ handed \in 0 .. Len(PduSizes) /\ joined \in [Peers -> Nat]
          /\ async_writes \in [Peers -> Seq(Triples)] /\ (i # 0 => handed # 0)
        BY DEF SpInv, SpTypes
    <3>2. Len(d_tcp_connections) \in Nat
        BY <3>1, LenProperties
    <3> QED
        BY <1>1, <3>1, <3>2, SizesNat
  <2>2. c \in Peers
      BY <1>1, <2>1, ElementOfSeq
  <2> QED
      BY <2>1, <2>2, SizesNat, LenProperties
<1>3. new \in Seq(Triples)
  <2> DEFINE ch == Chunks(PduSizes[handed])
  <2>1. PICK n \in Nat : DOMAIN ch = 1 .. n
      BY <1>2, SizesNat, ChunksCut
  <2>2. \A k \in 1 .. n : ch[k][1] \in Nat /\ ch[k][2] \in Nat
      BY <1>2, <2>1, SizesNat, ChunksCut
  <2> HIDE DEF ch
  <2>3. new = [k \in 1 .. n |-> <<handed, ch[k][1], ch[k][2]>>]
      BY <2>1 DEF WritesOf, ch
  <2>4. \A k \in 1 .. n : <<handed, ch[k][1], ch[k][2]>> \in Triples
      BY <1>2, <2>2 DEF Triples
  <2>5. new \in [1 .. n -> Triples]
      BY <2>3, <2>4
  <2> QED
      BY <2>5, FcnIsSeq
<1>4. async_writes' \in [Peers -> Seq(Triples)] /\ joined' \in [Peers -> Nat]
  <2>1. async_writes[c] \o new \in Seq(Triples)
    <3>1. async_writes[c] \in Seq(Triples)
        BY <1>2
    <3> QED
        BY <1>3, <3>1, BothSeqs
  <2>2. async_writes' \in [Peers -> Seq(Triples)]
      BY <1>1, <1>2, <2>1
  <2> QED
      BY <1>1, <1>2, <2>2
<1>5. SpTypes'
  <2>1. next_i' \in Nat
      BY <1>1, <1>2
  <2>2. /\ peer' = peer /\ d_tcp_connections' = d_tcp_connections /\ handed' = handed /\ arrived' = arrived
        /\ said' = said /\ pdus_of' = pdus_of /\ handed # 0
      BY <1>1, <1>2
  <2> QED
      BY <1>4, <2>1, <2>2 DEF SpInv, SpTypes
<1>6. Connected'
    BY <1>1 DEF SpInv, Connected, OnePlace, Live
<1>7. ASSUME NEW d \in Peers, d # c PROVE Served(d)'
  <2>1. Awaits(d)' <=> Awaits(d)
    <3>1. \A k \in DOMAIN d_tcp_connections : d_tcp_connections[k] = d => k # i
        BY <1>7
    <3>2. \A k \in DOMAIN d_tcp_connections : k # i => (i + 1 <= k <=> i <= k)
        BY <1>1, <1>2
    <3>3. 0 < i /\ 0 < i + 1
        BY <1>1, <1>2
    <3> QED
        BY <1>1, <3>1, <3>2, <3>3 DEF Awaits
  <2>2. LastGiven(d)' = LastGiven(d)
      BY <1>1, <2>1 DEF LastGiven
  <2>3. SameFor(d)
      BY <1>1, <1>2, <1>7, <2>2 DEF SameFor
  <2> QED
      BY <2>3, StaysServed DEF SpInv
<1>8. LastGiven(c) = handed - 1 /\ LastGiven(c)' = handed
  <2>1. Awaits(c)
    <3>1. i \in DOMAIN d_tcp_connections /\ d_tcp_connections[i] = c /\ 0 < i /\ i <= i
        BY <1>1, <1>2
    <3> QED
        BY <3>1 DEF Awaits
  <2>2. \A k \in DOMAIN d_tcp_connections : d_tcp_connections[k] = c => k = i
      BY <1>1, <1>2 DEF SpInv, Connected, OnePlace
  <2>3. \A k \in DOMAIN d_tcp_connections : k = i => ~(i + 1 <= k)
      BY <1>1, <1>2
  <2>4. ~Awaits(c)'
      BY <1>1, <2>2, <2>3 DEF Awaits
  <2> QED
      BY <1>1, <2>1, <2>4 DEF LastGiven
<1>9. Served(c)'
  <2>0. Served(c)
      BY <1>2 DEF SpInv
  <2>1. /\ joined'[c] = (IF joined[c] = 0 THEN handed ELSE joined[c]) /\ arrived' = arrived /\ handed' = handed
        /\ peer' = peer /\ disturbed' = disturbed /\ (Live(c)' <=> Live(c)) /\ joined[c] \in Nat
        /\ async_writes'[c] = (IF peer[c] = "closed" THEN async_writes[c] ELSE async_writes[c] \o new)
      BY <1>1, <1>2 DEF Live
  <2>2. joined'[c] # 0 /\ joined'[c] \in Nat /\ joined'[c] <= handed' /\ joined[c] <= handed
      BY <1>2, <2>1 DEF SpInv, Served
  <2>3. peer[c] # "away" /\ (Live(c) <=> peer[c] # "closed")
      BY <1>1, <1>2 DEF SpInv, SpTypes, Connected, Live
  <2>4. CASE c \notin disturbed /\ Live(c)
    <3>1. Exact(joined'[c], handed - 1, arrived[c], async_writes[c])
      <4>1. CASE joined[c] = 0
        <5>1. arrived[c] = <<>> /\ async_writes[c] = <<>> /\ handed \in Nat \ {0} /\ joined'[c] = handed
            BY <1>2, <2>1, <4>1 DEF SpInv, Served
        <5> QED
            BY <5>1, NothingExact
      <4>2. CASE joined[c] # 0
        <5>1. Exact(joined[c], LastGiven(c), arrived[c], async_writes[c])
            BY <2>0, <2>4, <4>2 DEF Served
        <5>2. joined'[c] = joined[c]
            BY <2>1, <4>2
        <5> QED
            BY <1>8, <5>1, <5>2
      <4> QED
          BY <4>1, <4>2
    <3>2. handed - 1 \in Nat /\ handed - 1 + 1 = handed /\ joined'[c] \in Nat \ {0} /\ joined'[c] <= handed
        BY <1>2, <2>1, <2>2
    <3>3. Exact(joined'[c], handed, arrived[c], async_writes[c] \o new)
        BY <1>2, <3>1, <3>2, HandExact
    <3>4. Exact(joined[c], LastGiven(c), arrived[c], async_writes[c])'
        BY <1>8, <2>1, <2>3, <2>4, <3>3, ExactNow
    <3> QED
        BY <2>1, <2>2, <2>3, <2>4, <3>4 DEF Served
  <2>5. CASE c \notin disturbed /\ ~Live(c)
    <3>1. Gapless(joined'[c], handed, arrived[c])
      <4>1. CASE joined[c] = 0
        <5>1. arrived[c] = <<>>
            BY <2>0, <4>1 DEF Served
        <5> QED
            BY <5>1, NothingGapless
      <4>2. CASE joined[c] # 0
        <5>1. Gapless(joined[c], handed, arrived[c])
            BY <2>0, <2>5, <4>2 DEF Served
        <5>2. joined'[c] = joined[c]
            BY <2>1, <4>2
        <5> QED
            BY <5>1, <5>2
      <4> QED
          BY <4>1, <4>2
    <3>2. Gapless(joined[c], handed, arrived[c])'
        BY <2>1, <3>1, GaplessNow
    <3> QED
        BY <2>1, <2>2, <2>3, <2>5, <3>2 DEF Served
  <2>6. CASE c \in disturbed
      BY <2>1, <2>2, <2>3, <2>6 DEF Served
  <2> QED
      BY <2>4, <2>5, <2>6
<1>10. ASSUME NEW d \in Peers PROVE Listened(d)'
    BY <1>1, StaysListened DEF SpInv
<1> QED
    BY <1>5, <1>6, <1>7, <1>9, <1>10 DEF SpInv

\* The walk ends: nobody is waiting, before it or after.
LEMMA SendEndsKeeps == ASSUME SpInv, SendEnds PROVE SpInv'
<1>1. /\ next_i > Len(d_tcp_connections) /\ next_i' = 0
      /\ UNCHANGED <<peer, d_tcp_connections, handed, async_writes, arrived, joined, said, pdus_of, disturbed>>
    BY DEF SendEnds
<1>2. Len(d_tcp_connections) \in Nat /\ DOMAIN d_tcp_connections = 1 .. Len(d_tcp_connections) /\ next_i \in Nat
    BY LenProperties DEF SpInv, SpTypes
<1>3. SpTypes'
    BY <1>1, <1>2 DEF SpInv, SpTypes
<1>4. Connected'
    BY <1>1 DEF SpInv, Connected, OnePlace, Live
<1>5. ASSUME NEW c \in Peers PROVE Served(c)'
  <2>1. ~Awaits(c) /\ ~Awaits(c)'
      BY <1>1, <1>2 DEF Awaits
  <2>2. SameFor(c)
      BY <1>1, <2>1 DEF SameFor, LastGiven
  <2> QED
      BY <2>2, StaysServed DEF SpInv
<1>6. ASSUME NEW c \in Peers PROVE Listened(c)'
    BY <1>1, StaysListened DEF SpInv
<1> QED
    BY <1>3, <1>4, <1>5, <1>6 DEF SpInv

\* A write or a part of it reaches its client.
LEMMA CarryKeeps == ASSUME SpInv, NEW c \in Peers, CarryOut(c) PROVE SpInv'
<1> SUFFICES ASSUME NEW w, w = async_writes[c][1], NEW to \in w[2] .. w[3],
                    arrived' = [arrived EXCEPT ![c] = @ \o [q \in 1 .. to - w[2] + 1 |-> <<w[1], w[2] + q - 1>>]],
                    async_writes' = [async_writes EXCEPT ![c] =
                        IF to = w[3] THEN Tail(@) ELSE Append(Tail(@), <<w[1], to + 1, w[3]>>)],
                    disturbed' = IF to # w[3] /\ Len(async_writes[c]) > 1 THEN disturbed \cup {c} ELSE disturbed
             PROVE  SpInv'
    BY DEF CarryOut
<1> SUFFICES ASSUME NEW new, new = BytesIn(<<w[1], w[2], to>>), NEW rest, rest = <<w[1], to + 1, w[3]>>,
                    NEW ws, ws = async_writes[c]
             PROVE  SpInv'
    OBVIOUS
<1>1. /\ ws # <<>> /\ peer[c] = "open"
      /\ arrived' = [arrived EXCEPT ![c] = @ \o new]
      /\ async_writes' = [async_writes EXCEPT ![c] = IF to = w[3] THEN Tail(@) ELSE Append(Tail(@), rest)]
      /\ UNCHANGED <<peer, d_tcp_connections, handed, next_i, joined, said, pdus_of>>
    BY DEF CarryOut, BytesIn
<1>2. /\ arrived \in [Peers -> Seq(Pairs)] /\ async_writes \in [Peers -> Seq(Triples)] /\ joined \in [Peers -> Nat]
      /\ LastGiven(c) \in 0 .. Len(PduSizes) /\ LastGiven(c)' = LastGiven(c) /\ Live(c)
    BY <1>1, GivenIs, SameGiven DEF SpInv, SpTypes, Live
<1>3. joined[c] \in Nat \ {0}
    BY <1>1, <1>2 DEF SpInv, Served
<1>4. /\ ws \in Seq(Triples) /\ Len(ws) \in Nat \ {0} /\ w \in Triples /\ Tail(ws) \in Seq(Triples)
      /\ Len(Tail(ws)) = Len(ws) - 1
  <2>1. ws \in Seq(Triples) /\ Len(ws) \in Nat
      BY <1>2, LenProperties
  <2>2. Len(ws) # 0
      BY <1>1, <2>1, EmptySeq
  <2>3. 1 \in 1 .. Len(ws)
      BY <2>1, <2>2
  <2>4. w \in Triples
      BY <2>1, <2>3, ElementOfSeq
  <2> QED
      BY <1>1, <2>1, <2>2, <2>4, HeadTailProperties
<1>5. new \in Seq(Pairs) /\ rest \in Triples /\ (to = w[3] => <<w[1], w[2], to>> = w)
    BY <1>4, BytesTyped
<1> DEFINE behind == IF to = w[3] THEN Tail(ws) ELSE Append(Tail(ws), rest)
           got == arrived[c] \o new
<1>6. got \in Seq(Pairs) /\ behind \in Seq(Triples)
  <2>1. got \in Seq(Pairs)
      BY <1>2, <1>5, BothSeqs
  <2>2. Append(Tail(ws), rest) \in Seq(Triples)
      BY <1>4, <1>5, AppendProperties
  <2> QED
      BY <1>4, <2>1, <2>2
<1>7. /\ arrived'[c] = got /\ async_writes'[c] = behind
      /\ \A d \in Peers : d # c => arrived'[d] = arrived[d] /\ async_writes'[d] = async_writes[d]
      /\ arrived' = [arrived EXCEPT ![c] = got] /\ async_writes' = [async_writes EXCEPT ![c] = behind]
    BY <1>1, <1>2
<1>8. c \notin disturbed' => Exact(joined[c], LastGiven(c), got, behind)
  <2> SUFFICES ASSUME c \notin disturbed' PROVE Exact(joined[c], LastGiven(c), got, behind)
      OBVIOUS
  <2>0. c \notin disturbed /\ (to = w[3] \/ ~(Len(ws) > 1))
      OBVIOUS
  <2>1. Exact(joined[c], LastGiven(c), arrived[c], ws)
      BY <1>2, <1>3, <2>0 DEF SpInv, Served
  <2>2. CASE to = w[3]
    <3>1. new = BytesIn(w)
        BY <1>5, <2>2
    <3>2. Exact(joined[c], LastGiven(c), arrived[c] \o new, Tail(ws))
        BY <1>1, <1>2, <1>3, <2>1, <3>1, CarryExact
    <3> QED
        BY <2>2, <3>2
  <2>3. CASE to # w[3]
    <3>1. Len(ws) = 1
      <4>1. Len(ws) \in Nat /\ Len(ws) # 0
          BY <1>4
      <4>2. ~(Len(ws) > 1)
          BY <2>0, <2>3
      <4> HIDE DEF got, behind
      <4>3. \A n \in Nat : n # 0 /\ ~(n > 1) => n = 1
          OBVIOUS
      <4> QED
          BY <4>1, <4>2, <4>3
    <3>2. Exact(joined[c], LastGiven(c), arrived[c] \o new, <<rest>>)
        BY <1>2, <1>3, <2>1, <2>3, <3>1, PartExact
    <3>3. Len(Tail(ws)) = 0
        BY <1>4, <3>1
    <3>4. Tail(ws) = <<>>
        BY <1>4, <3>3, EmptySeq
    <3>5. Append(Tail(ws), rest) = <<rest>>
      <4>1. Append(<<>>, rest) = <<rest>>
          OBVIOUS
      <4> QED
          BY <3>4, <4>1
    <3> QED
        BY <2>3, <3>2, <3>5
  <2> QED
      BY <2>2, <2>3
<1> HIDE DEF got, behind
<1>9. SpTypes'
  <2>1. arrived' \in [Peers -> Seq(Pairs)] /\ async_writes' \in [Peers -> Seq(Triples)]
      BY <1>2, <1>6, <1>7
  <2> QED
      BY <1>1, <2>1 DEF SpInv, SpTypes
<1>10. Connected'
    BY <1>1 DEF SpInv, Connected, OnePlace, Live
<1>11. ASSUME NEW d \in Peers, d # c PROVE Served(d)'
  <2>1. SameFor(d)
      BY <1>1, <1>7, <1>11, SameGiven DEF SameFor
  <2> QED
      BY <2>1, StaysServed DEF SpInv
<1>12. Served(c)'
  <2>1. joined' = joined /\ peer' = peer /\ handed' = handed /\ (Live(c)' <=> Live(c))
      BY <1>1, <1>2 DEF Live
  <2>2. c \notin disturbed' => Exact(joined[c], LastGiven(c), arrived[c], async_writes[c])'
      BY <1>2, <1>7, <1>8, <2>1, ExactNow
  <2> QED
      BY <1>1, <1>2, <1>3, <2>1, <2>2 DEF SpInv, Served
<1>13. ASSUME NEW d \in Peers PROVE Listened(d)'
    BY <1>1, StaysListened DEF SpInv
<1> QED
    BY <1>9, <1>10, <1>11, <1>12, <1>13 DEF SpInv

\* A client is added, in place of those that are closed.
LEMMA ConnectKeeps == ASSUME SpInv, NEW c \in Peers, handle_tcp_accept(c) PROVE SpInv'
<1> SUFFICES ASSUME NEW kept, kept = OpenOnes(d_tcp_connections) PROVE SpInv'
    OBVIOUS
<1>1. /\ peer[c] = "away" /\ d_tcp_connections' = Append(kept, c)
      /\ peer' = [peer EXCEPT ![c] = "open"] /\ disturbed' = disturbed \cup PassedOver(d_tcp_connections, kept)
      /\ UNCHANGED <<handed, next_i, async_writes, arrived, joined, said, pdus_of>>
    BY DEF handle_tcp_accept
<1>2. /\ d_tcp_connections \in Seq(Peers) /\ DOMAIN d_tcp_connections = 1 .. Len(d_tcp_connections)
      /\ Len(d_tcp_connections) \in Nat /\ peer \in [Peers -> {"away", "open", "eof", "closed"}]
      /\ OnePlace(d_tcp_connections)
    BY LenProperties DEF SpInv, SpTypes, Connected
<1>3. /\ kept \in Seq(Peers) /\ OnePlace(kept)
      /\ \A d \in Peers : (\E p \in DOMAIN kept : kept[p] = d) <=>
                              (\E p \in DOMAIN d_tcp_connections : d_tcp_connections[p] = d) /\ IsOpen(d)
      /\ \A q \in DOMAIN kept : \E p \in q .. Len(d_tcp_connections) : d_tcp_connections[p] = kept[q]
    BY <1>2, OpenKept
<1>4. /\ Len(kept) \in Nat /\ DOMAIN kept = 1 .. Len(kept)
      /\ d_tcp_connections' \in Seq(Peers) /\ DOMAIN d_tcp_connections' = 1 .. Len(kept) + 1
      /\ Len(d_tcp_connections') = Len(kept) + 1
      /\ \A p \in 1 .. Len(kept) : d_tcp_connections'[p] = kept[p] /\ d_tcp_connections'[Len(kept) + 1] = c
      /\ d_tcp_connections'[Len(kept) + 1] = c
  <2>1. Len(kept) \in Nat /\ DOMAIN kept = 1 .. Len(kept)
      BY <1>3, LenProperties
  <2> DEFINE grown == Append(kept, c)
  <2>2. /\ grown \in Seq(Peers) /\ Len(grown) = Len(kept) + 1 /\ grown[Len(kept) + 1] = c
        /\ \A p \in 1 .. Len(kept) : grown[p] = kept[p]
      BY <1>3, AppendProperties
  <2>3. DOMAIN grown = 1 .. Len(grown)
      BY <2>2, LenProperties
  <2> HIDE DEF grown
  <2>4. d_tcp_connections' = grown
      BY <1>1 DEF grown
  <2> QED
      BY <2>1, <2>2, <2>3, <2>4
<1>5. \A p \in 1 .. Len(kept) + 1 : p \in 1 .. Len(kept) \/ p = Len(kept) + 1
    BY <1>4
<1>6. peer'[c] = "open" /\ \A d \in Peers : d # c => peer'[d] = peer[d]
    BY <1>1, <1>2
<1>7. \A p \in DOMAIN kept : kept[p] \in Peers /\ kept[p] # c /\ peer[kept[p]] # "away"
  <2> SUFFICES ASSUME NEW p \in DOMAIN kept PROVE kept[p] \in Peers /\ kept[p] # c /\ peer[kept[p]] # "away"
      OBVIOUS
  <2>1. kept[p] \in Peers
      BY <1>3, <1>4, ElementOfSeq
  <2>2. PICK q \in DOMAIN d_tcp_connections : d_tcp_connections[q] = kept[p]
      BY <1>3, <2>1
  <2>3. peer[kept[p]] # "away"
      BY <2>2 DEF SpInv, Connected
  <2> QED
      BY <1>1, <2>1, <2>3
<1>8. SpTypes'
  <2>1. peer' \in [Peers -> {"away", "open", "eof", "closed"}]
      BY <1>1, <1>2
  <2> QED
      BY <1>1, <1>4, <2>1 DEF SpInv, SpTypes
<1>9. Connected'
  <2>1. OnePlace(d_tcp_connections')
    <3> SUFFICES ASSUME NEW k \in 1 .. Len(kept) + 1, NEW l \in 1 .. Len(kept) + 1,
                        d_tcp_connections'[k] = d_tcp_connections'[l]
                 PROVE  k = l
        BY <1>4 DEF OnePlace
    <3>1. CASE k \in 1 .. Len(kept) /\ l \in 1 .. Len(kept)
        BY <1>3, <1>4, <3>1 DEF OnePlace
    <3>2. CASE k \in 1 .. Len(kept) /\ l = Len(kept) + 1
        BY <1>4, <1>7, <3>2
    <3>3. CASE l \in 1 .. Len(kept) /\ k = Len(kept) + 1
        BY <1>4, <1>7, <3>3
    <3> QED
        BY <1>5, <3>1, <3>2, <3>3
  <2>2. ASSUME NEW d \in Peers, Live(d)' PROVE \E k \in DOMAIN d_tcp_connections' : d_tcp_connections'[k] = d
    <3>1. CASE d = c
      <4>1. Len(kept) + 1 \in DOMAIN d_tcp_connections'
          BY <1>4
      <4> QED
          BY <1>4, <3>1, <4>1
    <3>2. CASE d # c
      <4>1. Live(d) /\ IsOpen(d)
          BY <1>6, <2>2, <3>2 DEF Live, IsOpen
      <4>2. PICK p \in DOMAIN kept : kept[p] = d
          BY <1>3, <4>1 DEF SpInv, Connected
      <4>3. p \in DOMAIN d_tcp_connections' /\ d_tcp_connections'[p] = d
          BY <1>4, <4>2
      <4> QED
          BY <4>3
    <3> QED
        BY <3>1, <3>2
  <2>3. ASSUME NEW k \in 1 .. Len(kept) + 1 PROVE peer'[d_tcp_connections'[k]] # "away"
    <3>1. CASE k \in 1 .. Len(kept)
        BY <1>4, <1>6, <1>7, <3>1
    <3>2. CASE k = Len(kept) + 1
        BY <1>4, <1>6, <3>2
    <3> QED
        BY <1>5, <3>1, <3>2
  <2> QED
      BY <1>4, <2>1, <2>2, <2>3 DEF Connected
\* A client that stays is at the same side of the walk's index as before, or passed over.
<1>10. ASSUME NEW d \in Peers, d # c, IsOpen(d), d \notin disturbed' PROVE LastGiven(d)' = LastGiven(d)
  <2>0. next_i \in Nat
      BY DEF SpInv, SpTypes
  <2>1. ASSUME Awaits(d)' PROVE Awaits(d)
    <3>1. PICK k \in 1 .. Len(kept) + 1 : d_tcp_connections'[k] = d /\ 0 < next_i /\ next_i <= k
        BY <1>1, <1>4, <2>1 DEF Awaits
    <3>2. k \in 1 .. Len(kept) /\ kept[k] = d
        BY <1>4, <1>5, <1>10, <3>1
    <3>3. PICK p \in k .. Len(d_tcp_connections) : d_tcp_connections[p] = kept[k]
        BY <1>3, <1>4, <3>2
    <3>4. p \in DOMAIN d_tcp_connections /\ next_i <= p
        BY <1>2, <1>4, <2>0, <3>1, <3>2, <3>3
    <3> QED
        BY <3>1, <3>2, <3>3, <3>4 DEF Awaits
  <2>2. ASSUME Awaits(d) PROVE Awaits(d)'
    <3>1. PICK p \in DOMAIN d_tcp_connections : d_tcp_connections[p] = d /\ 0 < next_i /\ next_i <= p
        BY <2>2 DEF Awaits
    <3>2. PICK q \in DOMAIN kept : kept[q] = d
        BY <1>3, <1>10, <3>1
    <3>3. d \notin PassedOver(d_tcp_connections, kept)
        BY <1>1, <1>10
    <3>4. ~(q < next_i)
        BY <3>1, <3>2, <3>3 DEF PassedOver
    <3>5. q \in Nat /\ next_i <= q /\ q \in DOMAIN d_tcp_connections' /\ d_tcp_connections'[q] = d
        BY <1>4, <2>0, <3>2, <3>4
    <3> QED
        BY <1>1, <3>1, <3>5 DEF Awaits
  <2> QED
      BY <1>1, <2>1, <2>2 DEF LastGiven
<1>11. ASSUME NEW d \in Peers, d # c PROVE Served(d)'
  <2>0. /\ Served(d) /\ peer'[d] = peer[d] /\ joined' = joined /\ arrived' = arrived /\ async_writes' = async_writes
        /\ handed' = handed /\ (d \in disturbed => d \in disturbed')
      BY <1>1, <1>6, <1>11 DEF SpInv
  <2>1. CASE d \in disturbed'
      BY <2>0, <2>1 DEF Served
  <2>2. CASE d \notin disturbed' /\ IsOpen(d)
    <3>1. SameFor(d)
        BY <1>10, <1>11, <2>0, <2>2 DEF SameFor
    <3> QED
        BY <2>0, <3>1, StaysServed
  <2>3. CASE d \notin disturbed' /\ ~IsOpen(d)
    <3>1. ~Live(d) /\ ~Live(d)' /\ d \notin disturbed
        BY <2>0, <2>3 DEF Live, IsOpen
    <3>2. joined[d] # 0 => Gapless(joined[d], handed, arrived[d])'
        BY <2>0, <3>1, GaplessNow DEF Served
    <3> QED
        BY <2>0, <3>1, <3>2 DEF Served
  <2> QED
      BY <2>1, <2>2, <2>3
<1>12. Served(c)'
  <2>1. joined[c] = 0 /\ joined[c] <= handed /\ arrived[c] = <<>> /\ async_writes[c] = <<>>
      BY <1>1 DEF SpInv, Served
  <2> QED
      BY <1>1, <1>6, <2>1 DEF Served
<1>13. ASSUME NEW d \in Peers PROVE Listened(d)'
  <2>1. CASE d = c
      BY <1>1, <1>6, <2>1 DEF SpInv, Listened, Heard
  <2>2. CASE d # c
      BY <1>1, <1>6, <2>2, StaysListened DEF SpInv
  <2> QED
      BY <2>1, <2>2
<1> QED
    BY <1>8, <1>9, <1>11, <1>12, <1>13 DEF SpInv

\* What a client said is read.
LEMMA HearKeeps ==
    ASSUME SpInv, NEW c \in Peers, NEW n \in 1 .. MTU, Heard(c) + n <= said[c],
           pdus_of' = [pdus_of EXCEPT ![c] = Append(@, <<Heard(c) + 1, Heard(c) + n>>)], peer[c] # "closed",
           UNCHANGED <<peer, d_tcp_connections, handed, next_i, async_writes, arrived, joined, said, disturbed>>
    PROVE  SpInv'
<1> SUFFICES ASSUME NEW h, h = Heard(c), NEW old, old = pdus_of[c] PROVE SpInv'
    OBVIOUS
<1> DEFINE grown == Append(old, <<h + 1, h + n>>)
<1>1. /\ pdus_of \in [Peers -> Seq(Pairs)] /\ said[c] \in Nat /\ MTU \in Nat \ {0} /\ h \in Nat
      /\ h = (IF old = <<>> THEN 0 ELSE old[Len(old)][2]) /\ old \in Seq(Pairs)
    BY SocketAssumption DEF SpInv, SpTypes, Listened, Heard
<1>2. <<h + 1, h + n>> \in Pairs
    BY <1>1 DEF Pairs
<1>3. /\ grown \in Seq(Pairs) /\ Len(grown) = Len(old) + 1 /\ grown[Len(old) + 1] = <<h + 1, h + n>>
      /\ \A p \in 1 .. Len(old) : grown[p] = old[p]
    BY <1>1, <1>2, AppendProperties
<1>4. Len(old) \in Nat /\ DOMAIN old = 1 .. Len(old) /\ DOMAIN grown = 1 .. Len(old) + 1
    BY <1>1, <1>3, LenProperties
<1> HIDE DEF grown
<1>5. pdus_of'[c] = grown /\ \A d \in Peers : d # c => pdus_of'[d] = pdus_of[d]
    BY <1>1 DEF grown
<1>6. SpTypes'
  <2>1. pdus_of' \in [Peers -> Seq(Pairs)]
      BY <1>1, <1>3 DEF grown
  <2> QED
      BY <2>1 DEF SpInv, SpTypes
<1>7. Connected'
    BY DEF SpInv, Connected, OnePlace, Live
<1>8. ASSUME NEW d \in Peers PROVE Served(d)'
  <2>1. SameFor(d)
      BY SameGiven DEF SameFor
  <2> QED
      BY <2>1, StaysServed DEF SpInv
<1>9. Listened(c)'
  <2>1. \A k \in DOMAIN old : /\ old[k][1] = (IF k = 1 THEN 1 ELSE old[k - 1][2] + 1)
                             /\ old[k][2] \in old[k][1] .. old[k][1] + MTU - 1
      BY DEF SpInv, Listened
  <2>2. ASSUME NEW k \in 1 .. Len(old) + 1
        PROVE  /\ grown[k][1] = (IF k = 1 THEN 1 ELSE grown[k - 1][2] + 1)
               /\ grown[k][2] \in grown[k][1] .. grown[k][1] + MTU - 1
    <3>1. CASE k \in 1 .. Len(old)
      <4>1. k # 1 => k - 1 \in 1 .. Len(old)
          BY <1>4, <3>1
      <4>2. grown[k] = old[k] /\ (k # 1 => grown[k - 1] = old[k - 1])
          BY <1>3, <3>1, <4>1
      <4> QED
          BY <1>4, <2>1, <3>1, <4>2
    <3>2. CASE k = Len(old) + 1
      <4>1. grown[k][1] = h + 1 /\ grown[k][2] = h + n
          BY <1>3, <3>2
      <4>2. h + n \in h + 1 .. h + 1 + MTU - 1
          BY <1>1
      <4>3. h + 1 = (IF k = 1 THEN 1 ELSE grown[k - 1][2] + 1)
        <5>1. CASE k = 1
          <6>1. Len(old) = 0
              BY <1>4, <3>2, <5>1
          <6>2. old = <<>>
              BY <1>1, <6>1, EmptySeq
          <6> QED
              BY <1>1, <5>1, <6>2
        <5>2. CASE k # 1
          <6>1. Len(old) \in 1 .. Len(old) /\ k - 1 = Len(old)
              BY <1>4, <3>2, <5>2
          <6>2. grown[k - 1] = old[Len(old)]
              BY <1>3, <6>1
          <6>3. old # <<>>
              BY <1>4, <6>1
          <6> QED
              BY <1>1, <5>2, <6>2, <6>3
        <5> QED
            BY <5>1, <5>2
      <4> QED
          BY <4>1, <4>2, <4>3
    <3> QED
        BY <1>4, <3>1, <3>2
  <2>3. Heard(c)' = h + n
    <3>1. grown # <<>> /\ grown[Len(grown)][2] = h + n
        BY <1>3, <1>4
    <3> QED
        BY <1>5, <3>1 DEF Heard
  <2>4. h + n \in Nat /\ h + n <= said[c]
      BY <1>1
  <2> QED
      BY <1>4, <1>5, <2>2, <2>3, <2>4, SMTT(30) DEF Listened
<1>10. ASSUME NEW d \in Peers PROVE Listened(d)'
    BY <1>5, <1>9, StaysListened DEF SpInv
<1> QED
    BY <1>6, <1>7, <1>8, <1>10 DEF SpInv

\* A connection at its end is closed.
LEMMA CloseKeeps ==
    ASSUME SpInv, NEW c \in Peers, EofNow(c), peer' = [peer EXCEPT ![c] = "closed"],
           async_writes' = [async_writes EXCEPT ![c] = <<>>],
           UNCHANGED <<pdus_of, d_tcp_connections, handed, next_i, arrived, joined, said, disturbed>>
    PROVE  SpInv'
<1>1. /\ peer \in [Peers -> {"away", "open", "eof", "closed"}] /\ async_writes \in [Peers -> Seq(Triples)]
      /\ joined \in [Peers -> Nat] /\ Live(c) /\ Heard(c) = said[c]
    BY DEF SpInv, SpTypes, EofNow, Live
<1>2. /\ peer'[c] = "closed" /\ async_writes'[c] = <<>>
      /\ \A d \in Peers : d # c => peer'[d] = peer[d] /\ async_writes'[d] = async_writes[d]
    BY <1>1
<1>3. SpTypes'
  <2>1. peer' \in [Peers -> {"away", "open", "eof", "closed"}]
      BY <1>1
  <2>2. async_writes' \in [Peers -> Seq(Triples)]
      BY <1>1, EmptySeq
  <2> QED
      BY <2>1, <2>2 DEF SpInv, SpTypes
<1>4. Connected'
  <2>1. \A d \in Peers : (Live(d)' => Live(d)) /\ (peer'[d] = "away" => peer[d] = "away")
      BY <1>2 DEF Live
  <2>2. \A k \in DOMAIN d_tcp_connections : d_tcp_connections[k] \in Peers
      BY ElementOfSeq, LenProperties DEF SpInv, SpTypes
  <2> QED
      BY <2>1, <2>2 DEF SpInv, Connected, OnePlace
<1>5. ASSUME NEW d \in Peers, d # c PROVE Served(d)'
  <2>1. SameFor(d)
      BY <1>2, <1>5, SameGiven DEF SameFor
  <2> QED
      BY <2>1, StaysServed DEF SpInv
<1>6. Served(c)'
  <2>0. Served(c) /\ ~Live(c)'
      BY <1>2 DEF SpInv, Live
  <2>1. ASSUME c \notin disturbed, joined[c] # 0 PROVE Gapless(joined[c], handed, arrived[c])'
    <3>1. joined[c] \in Nat \ {0} /\ LastGiven(c) \in 0 .. Len(PduSizes)
        BY <1>1, <2>1, GivenIs DEF SpInv
    <3>2. Gapless(joined[c], LastGiven(c), arrived[c])
      <4>1. Exact(joined[c], LastGiven(c), arrived[c], async_writes[c])
          BY <1>1, <2>0, <2>1 DEF Served
      <4> QED
          BY <3>1, <4>1, ExactGapless
    <3>3. Gapless(joined[c], handed, arrived[c])
      <4>1. CASE LastGiven(c) = handed
          BY <3>2, <4>1
      <4>2. CASE handed \in 1 .. Len(PduSizes) /\ LastGiven(c) = handed - 1
        <5>1. handed - 1 \in Nat /\ handed - 1 + 1 = handed
            BY <4>2, SizesNat
        <5>2. Gapless(joined[c], handed - 1 + 1, arrived[c])
            BY <3>1, <3>2, <4>2, <5>1, GaplessLater
        <5> QED
            BY <5>1, <5>2
      <4> QED
          BY <4>1, <4>2, GivenIs DEF SpInv
    <3> QED
        BY <3>3, GaplessNow
  <2> QED
      BY <1>2, <2>0, <2>1 DEF Served
<1>7. ASSUME NEW d \in Peers PROVE Listened(d)'
  <2>1. CASE d = c
    <3>1. Heard(d)' = Heard(d) /\ Listened(d)
        BY DEF Heard, SpInv
    <3> QED
        BY <1>1, <2>1, <3>1 DEF Listened
  <2>2. CASE d # c
      BY <1>2, <2>2, StaysListened DEF SpInv
  <2> QED
      BY <2>1, <2>2
<1> QED
    BY <1>3, <1>4, <1>5, <1>6, <1>7 DEF SpInv

LEMMA NothingKeeps ==
    ASSUME SpInv,
           UNCHANGED <<peer, d_tcp_connections, handed, next_i, async_writes, arrived, joined, said, pdus_of, disturbed>>
    PROVE  SpInv'
<1>1. SpTypes' /\ Connected'
    BY DEF SpInv, SpTypes, Connected, OnePlace, Live
<1>2. ASSUME NEW c \in Peers PROVE Served(c)'
  <2>1. SameFor(c)
      BY SameGiven DEF SameFor
  <2> QED
      BY <2>1, StaysServed DEF SpInv
<1>3. ASSUME NEW c \in Peers PROVE Listened(c)'
    BY StaysListened DEF SpInv
<1> QED
    BY <1>1, <1>2, <1>3 DEF SpInv

LEMMA SpStepKeeps == ASSUME SpInv, [SpNext]_pduvars PROVE SpInv'
<1>1. ASSUME NEW c \in Peers, Say(c) \/ Leave(c) PROVE SpInv'
    BY <1>1, SayKeeps, LeaveKeeps
<1>2. CASE tcp_server_send
    BY <1>2, NextMessageKeeps
<1>3. CASE send
    BY <1>3, HandKeeps
<1>4. CASE SendEnds
    BY <1>4, SendEndsKeeps
<1>5. ASSUME NEW c \in Peers, CarryOut(c) PROVE SpInv'
    BY <1>5, CarryKeeps
<1>6. ASSUME NEW c \in Peers, handle_tcp_accept(c) PROVE SpInv'
    BY <1>6, ConnectKeeps
<1>7. ASSUME NEW c \in Peers, handle_read(c) PROVE SpInv'
  <2>1. UNCHANGED <<d_tcp_connections, handed, next_i, arrived, joined, said, disturbed>> /\ peer[c] # "closed"
      BY <1>7 DEF handle_read
  <2>2. CASE EofNow(c) /\ peer' = [peer EXCEPT ![c] = "closed"] /\ async_writes' = [async_writes EXCEPT ![c] = <<>>]
             /\ UNCHANGED pdus_of
      BY <2>1, <2>2, CloseKeeps
  <2>3. ASSUME NEW n \in 1 .. MTU, Heard(c) + n <= said[c],
               pdus_of' = [pdus_of EXCEPT ![c] = Append(@, <<Heard(c) + 1, Heard(c) + n>>)],
               UNCHANGED <<peer, async_writes>>
        PROVE  SpInv'
      BY <2>1, <2>3, HearKeeps
  <2> QED
      BY <1>7, <2>2, <2>3 DEF handle_read
<1>8. CASE stop
    BY <1>8, NothingKeeps DEF stop
<1>9. CASE UNCHANGED pduvars
    BY <1>9, NothingKeeps DEF pduvars
<1> QED
    BY <1>1, <1>2, <1>3, <1>4, <1>5, <1>6, <1>7, <1>8, <1>9 DEF SpNext

\* The invariant says what the clients are promised.
LEMMA SpPromises == ASSUME SpInv PROVE StreamUnbroken /\ StreamComplete /\ ReadBeforeClose
<1>1. \A c \in Peers : joined[c] \in Nat /\ BytesFor(c) = BytesOf(joined[c], handed)
    BY DEF SpInv, SpTypes, BytesFor, BytesOf
<1>2. ASSUME NEW c \in Peers \ disturbed, joined[c] # 0 PROVE Gapless(joined[c], handed, arrived[c])
  <2>0. Served(c) /\ joined[c] \in Nat \ {0} /\ LastGiven(c) \in 0 .. Len(PduSizes)
      BY <1>1, <1>2, GivenIs DEF SpInv
  <2>1. CASE Live(c)
    <3>1. Exact(joined[c], LastGiven(c), arrived[c], async_writes[c])
        BY <1>2, <2>0, <2>1 DEF Served
    <3>2. Gapless(joined[c], LastGiven(c), arrived[c])
        BY <2>0, <3>1, ExactGapless
    <3>3. CASE LastGiven(c) = handed
        BY <3>2, <3>3
    <3>4. CASE handed \in 1 .. Len(PduSizes) /\ LastGiven(c) = handed - 1
      <4>1. handed - 1 \in Nat /\ handed - 1 + 1 = handed
          BY <3>4, SizesNat
      <4>2. Gapless(joined[c], handed - 1 + 1, arrived[c])
          BY <2>0, <3>2, <3>4, <4>1, GaplessLater
      <4> QED
          BY <4>1, <4>2
    <3> QED
        BY <3>3, <3>4, GivenIs DEF SpInv
  <2>2. CASE ~Live(c)
      BY <1>2, <2>0, <2>2 DEF Served
  <2> QED
      BY <2>1, <2>2
<1>3. StreamUnbroken
    BY <1>1, <1>2 DEF StreamUnbroken, Gapless
<1>4. StreamComplete
  <2> SUFFICES ASSUME next_i = 0, NEW c \in Peers \ disturbed, joined[c] # 0, peer[c] = "open", NEW x \in BytesFor(c)
               PROVE  \/ x \in ToSet(arrived[c])
                      \/ \E w \in ToSet(async_writes[c]) : x[1] = w[1] /\ x[2] \in w[2] .. w[3]
      BY DEF StreamComplete
  <2>1. LastGiven(c) = handed
      BY DEF LastGiven, Awaits
  <2>2. Exact(joined[c], handed, arrived[c], async_writes[c])
      BY <2>1 DEF SpInv, Served, Live
  <2>3. x \in ToSet(arrived[c]) \/ Writing(async_writes[c], x)
      BY <1>1, <2>2 DEF Exact
  <2>4. \A k \in DOMAIN async_writes[c] : async_writes[c][k] \in ToSet(async_writes[c])
      BY DEF ToSet
  <2> QED
      BY <2>3, <2>4 DEF Writing
<1>5. ReadBeforeClose
    BY DEF SpInv, Listened, ReadBeforeClose
<1> QED
    BY <1>3, <1>4, <1>5

(* For any number of clients, messages of any sizes, any coming and going    *)
(* while a message is handed out and any cut of the writes: every client     *)
(* that the walk did not pass over, and that had no write cut with another   *)
(* behind it, gets the bytes of the messages from its first one on, unbroken *)
(* and, while it stays, complete; and what any client says is published      *)
(* before its connection is closed.                                          *)
THEOREM SocketAlwaysServes == SpSpec => [](StreamUnbroken /\ StreamComplete /\ ReadBeforeClose)
<1>1. SpInit => SpInv
    BY SpInitInv
<1>2. SpInv /\ [SpNext]_pduvars => SpInv'
    BY SpStepKeeps
<1>3. SpInv => StreamUnbroken /\ StreamComplete /\ ReadBeforeClose
    BY SpPromises
<1> QED
    BY <1>1, <1>2, <1>3, PTL DEF SpSpec

\* The packets and the connections, side by side.
PduSpec ==
    /\ DInit /\ SpInit
    /\ [][(DNext /\ UNCHANGED pduvars) \/ (SpNext /\ UNCHANGED dvars)]_<<dvars, pduvars>>

(* The packets, the connections and what they carry, all of PdusKept.        *)
THEOREM PdusAlwaysKept == PduSpec => []PdusKept
<1>1. [(DNext /\ UNCHANGED pduvars) \/ (SpNext /\ UNCHANGED dvars)]_<<dvars, pduvars>>
          => [DNext]_dvars /\ [SpNext]_pduvars
    OBVIOUS
<1>2. PduSpec => DSpec /\ SpSpec
    BY <1>1, PTL DEF PduSpec, DSpec, SpSpec
<1>3. PdusThrough /\ StreamUnbroken /\ StreamComplete /\ ReadBeforeClose => PdusKept
    BY DEF PdusKept
<1> QED
    BY <1>2, <1>3, PdusAlwaysThrough, SocketAlwaysServes, PTL
=============================================================================
