------------------------------ MODULE VmCircBuf ------------------------------
(***************************************************************************)
(* The memory behind a buffer: the same pages mapped twice, one copy after   *)
(* the other.  Three of its kinds, each a constructor that makes one system  *)
(* call after the other under s_vm_mutex and cleans up by hand where one     *)
(* fails: a temporary file, a POSIX shared memory object, SysV segments with *)
(* a guard page at both ends.  Meanwhile other code of the process takes and *)
(* gives back address space.  A cell stands for one copy of the buffer, and  *)
(* for a page of guard.                                                      *)
(***************************************************************************)
EXTENDS Naturals, FiniteSets, Sequences

CONSTANTS
    MaxCells, MaxSegs, MaxForeign  \* bounds: address space, segments made, cells of others

ASSUME BoundsAssumption == MaxCells \in Nat /\ MaxSegs \in Nat

VARIABLES
    kind,    \* of the process's buffers: "tmpfile", "shm" or "sysv"
    mem,     \* what each cell of the address space is mapped to
    held,    \* descriptors, names and segment ids held: <<segment, what>>
    segs,    \* s_seg_counter: the segments made so far
    ctor,    \* the constructor at work: the call it is at, where its copies are
    bufs,    \* the buffers handed out: segment and d_base
    mishaps  \* history: the calls that went wrong and left a trace, each with its segment

vmvars == <<kind, mem, held, segs, ctor, bufs, mishaps>>

CircKinds == {"tmpfile", "shm", "sysv"}
Cells == 1 .. MaxCells
Free    == <<0, "free">>
Foreign == <<0, "foreign">>
Idle == [pc |-> "idle", first |-> 0, second |-> 0, attempts |-> 0]
MAX_SYSV_SHM_ATTEMPTS == 3

VInit ==
    /\ kind \in CircKinds
    /\ mem = [c \in Cells |-> Free] /\ held = {} /\ segs = 0 /\ ctor = Idle /\ bufs = {}
    /\ mishaps = {}

Fit(n) == {c \in Cells : c + n - 1 \in Cells /\ \A d \in c .. c + n - 1 : mem[d] = Free}
At_(c, what) == [d \in {c} |-> <<segs, what>>]
Mapped(f)   == [c \in Cells |-> IF c \in DOMAIN f THEN f[c] ELSE mem[c]]
Unmapped(S) == [c \in Cells |-> IF c \in S THEN Free ELSE mem[c]]
Mine(whats) == {segs} \X whats

In(k, call) == kind = k /\ ctor.pc = call
To(call)    == ctor' = [ctor EXCEPT !.pc = call]

AnotherAttempt == kind = "sysv" /\ ctor.attempts > 0

\* What the handler of each call's failure forgets.
MayStay(call) ==
    CASE kind = "tmpfile" /\ call = "unlink" -> {"fd", "name"}
      [] kind = "tmpfile" /\ call = "munmap1" -> {"data", "rest"}
      [] kind = "shm" /\ call \in {"ftruncate1", "mmap1"} -> {"name"}
      [] kind = "shm" /\ call = "munmap1" -> {"name", "data", "rest"}
      [] kind = "shm" /\ call \in {"mmap2", "shm_unlink"} -> {"name", "data"}
      [] kind = "sysv" /\ call = "shmat4" -> {"guard"}
      [] OTHER -> {}

\* A call has failed, for whatever reason, a full address space included: what
\* is unmapped and let go, and the exception; with SysV another attempt while
\* any remains.
Failed(cells, whats) ==
    /\ mem' = Unmapped(cells) /\ held' = held \ Mine(whats)
    /\ ctor' = IF AnotherAttempt
               THEN [Idle EXCEPT !.pc = "shmget0", !.attempts = ctor.attempts - 1] ELSE Idle
    /\ mishaps' = mishaps \cup IF MayStay(ctor.pc) = {} THEN {} ELSE {<<segs, ctor.pc>>}
    /\ UNCHANGED <<kind, segs, bufs>>

MakeBuffer ==
    /\ ctor = Idle /\ segs < MaxSegs
    /\ ctor' = IF kind = "sysv" THEN [Idle EXCEPT !.pc = "shmget0", !.attempts = MAX_SYSV_SHM_ATTEMPTS - 1]
               ELSE [Idle EXCEPT !.pc = "open"]
    /\ UNCHANGED <<kind, mem, held, segs, bufs, mishaps>>

\* After the loop: attempts_remain is -1 if every attempt has failed.
\* Mutant: what the third attempt has made is taken for a failure.
Made_strict == kind = "sysv" => ctor.attempts > 0
Made == kind = "sysv" => ctor.attempts >= 0

HandedOut(base) ==
    /\ bufs' = IF Made THEN bufs \cup {[seg |-> segs, base |-> base]} ELSE bufs
    /\ ctor' = Idle

-----------------------------------------------------------------------------
(* A temporary file and a POSIX object: a mapping of twice the size, its     *)
(* second half unmapped and the first half mapped again in the hole.         *)
open_file ==
    /\ kind # "sysv" /\ ctor.pc = "open"
    /\ \/ /\ segs' = segs + 1 /\ held' = held \cup ({segs'} \X {"fd", "name"})
          /\ To(IF kind = "tmpfile" THEN "unlink" ELSE "ftruncate1")
          /\ UNCHANGED <<kind, mem, bufs, mishaps>>
       \/ Failed({}, {})

unlink ==
    /\ In("tmpfile", "unlink")
    /\ \/ held' = held \ Mine({"name"}) /\ To("ftruncate1") /\ UNCHANGED <<kind, mem, segs, bufs, mishaps>>
       \/ Failed({}, {})

ftruncate1 ==
    /\ ctor.pc = "ftruncate1"
    /\ \/ To("mmap1") /\ UNCHANGED <<kind, mem, held, segs, bufs, mishaps>>
       \/ Failed({}, {"fd"})

mmap1 ==
    /\ ctor.pc = "mmap1"
    /\ \/ \E c \in Fit(2) :
              /\ mem' = [Mapped(At_(c, "data")) EXCEPT ![c + 1] = <<segs, "rest">>]
              /\ ctor' = [ctor EXCEPT !.pc = "munmap1", !.first = c]
              /\ UNCHANGED <<kind, held, segs, bufs, mishaps>>
       \/ Failed({}, {"fd"})

munmap1 ==
    /\ ctor.pc = "munmap1"
    /\ \/ mem' = Unmapped({ctor.first + 1}) /\ To("mmap2") /\ UNCHANGED <<kind, held, segs, bufs, mishaps>>
       \/ Failed({}, {"fd"})

\* The hole where it is still free, any other place where it is not; with a POSIX
\* object that is not noticed.
mmap2 ==
    LET hole == ctor.first + 1
        places == IF mem[hole] = Free THEN {hole} ELSE Fit(1) IN
    /\ ctor.pc = "mmap2"
    /\ \/ \E c \in places :
              /\ mem' = Mapped(At_(c, "data"))
              /\ ctor' = [ctor EXCEPT !.pc = IF kind = "tmpfile" THEN "check" ELSE "shm_unlink",
                                      !.second = c]
              /\ held' = IF kind = "tmpfile" THEN held ELSE held \ Mine({"fd"})
              /\ mishaps' = IF kind = "shm" /\ c # hole
                            THEN mishaps \cup {<<segs, "elsewhere">>} ELSE mishaps
              /\ UNCHANGED <<kind, segs, bufs>>
       \/ Failed(IF kind = "tmpfile" THEN {ctor.first} ELSE {}, {"fd"})

\* Mutant: no check.
Contiguous_always == TRUE
Contiguous == ctor.second = ctor.first + 1

check ==
    /\ In("tmpfile", "check")
    /\ \/ Contiguous /\ To("ftruncate2") /\ UNCHANGED <<kind, mem, held, segs, bufs, mishaps>>
       \/ ~Contiguous /\ Failed({ctor.first, ctor.second}, {"fd"})

ftruncate2 ==
    /\ In("tmpfile", "ftruncate2")
    /\ \/ HandedOut(ctor.first) /\ held' = held \ Mine({"fd"}) /\ UNCHANGED <<kind, mem, segs, mishaps>>
       \/ Failed({ctor.first, ctor.second}, {"fd"})

shm_unlink ==
    /\ In("shm", "shm_unlink")
    /\ \/ HandedOut(ctor.first) /\ held' = held \ Mine({"name"}) /\ UNCHANGED <<kind, mem, segs, mishaps>>
       \/ Failed({}, {})

-----------------------------------------------------------------------------
(* SysV: a segment as large as everything is attached where there is room,   *)
(* detached, and the guard, the two copies and the guard again are attached  *)
(* in its place, one by one.                                                 *)
shmget0 ==
    /\ In("sysv", "shmget0") /\ segs < MaxSegs
    /\ \/ /\ segs' = segs + 1 /\ held' = held \cup {<<segs', "guard">>} /\ To("shmget1")
          /\ UNCHANGED <<kind, mem, bufs, mishaps>>
       \/ Failed({}, {})

shmget(call, what, next) ==
    /\ In("sysv", call)
    /\ \/ held' = held \cup {<<segs, what>>} /\ To(next) /\ UNCHANGED <<kind, mem, segs, bufs, mishaps>>
       \/ Failed({}, {"guard", "whole"})

shmat1 ==
    /\ In("sysv", "shmat1")
    /\ \/ \E c \in Fit(4) :
              /\ mem' = Mapped([d \in c .. c + 3 |-> <<segs, "whole">>])
              /\ ctor' = [ctor EXCEPT !.pc = "shmdt", !.first = c]
              /\ held' = held \ Mine({"whole"}) /\ UNCHANGED <<kind, segs, bufs, mishaps>>
       \/ Failed({}, {"guard", "whole", "data"})

shmdt ==
    /\ In("sysv", "shmdt")
    /\ mem' = Unmapped(ctor.first .. ctor.first + 3) /\ To("shmat2")
    /\ UNCHANGED <<kind, held, segs, bufs, mishaps>>

\* Mutant: the last attach cleans up as the one before it does.
Undone_lastcopy(i) == {ctor.first + j : j \in CASE i = 0 -> {} [] i = 1 -> {0} [] OTHER -> {1}}
Undone(i) == {ctor.first + j : j \in CASE i = 0 -> {} [] i = 1 -> {0} [] i = 2 -> {1} [] i = 3 -> 0 .. 2}

\* The attach at the i-th of the four places.
shmat(i, what, call, next) ==
    LET c == ctor.first + i IN
    /\ In("sysv", call)
    /\ \/ /\ mem[c] = Free /\ mem' = Mapped(At_(c, what))
          /\ IF next = "done" THEN HandedOut(ctor.first + 1) /\ held' = held \ Mine({"guard", "data"})
             ELSE To(next) /\ UNCHANGED <<held, bufs>>
          /\ UNCHANGED <<kind, segs, mishaps>>
       \/ Failed(Undone(i), {"guard", "data"})

sysv ==
    \/ shmget0 \/ shmget("shmget1", "whole", "shmget2") \/ shmget("shmget2", "data", "shmat1")
    \/ shmat1 \/ shmdt
    \/ shmat(0, "guard", "shmat2", "shmat3") \/ shmat(1, "data", "shmat3", "shmat4")
    \/ shmat(2, "data", "shmat4", "shmat5") \/ shmat(3, "guard", "shmat5", "done")

-----------------------------------------------------------------------------
\* Mutant: one copy is unmapped.
Extent_one(b) == {b.base}
Extent(b) == IF kind = "sysv" THEN b.base - 1 .. b.base + 2 ELSE {b.base, b.base + 1}

FreeBuffer(b) ==
    /\ ctor = Idle /\ b \in bufs
    /\ mem' = Unmapped(Extent(b)) /\ bufs' = bufs \ {b}
    /\ UNCHANGED <<kind, held, segs, ctor, mishaps>>

ForeignCells == {c \in Cells : mem[c] = Foreign}

ForeignMap ==
    /\ Cardinality(ForeignCells) < MaxForeign
    /\ \E c \in Fit(1) : mem' = [mem EXCEPT ![c] = Foreign]
    /\ UNCHANGED <<kind, held, segs, ctor, bufs, mishaps>>

ForeignUnmap ==
    /\ \E c \in ForeignCells : mem' = [mem EXCEPT ![c] = Free]
    /\ UNCHANGED <<kind, held, segs, ctor, bufs, mishaps>>

VNext ==
    \/ MakeBuffer \/ open_file \/ unlink \/ ftruncate1 \/ mmap1 \/ munmap1 \/ mmap2 \/ check \/ ftruncate2
    \/ shm_unlink \/ sysv \/ \E b \in bufs : FreeBuffer(b)
    \/ ForeignMap \/ ForeignUnmap

-----------------------------------------------------------------------------
\* Left behind by the failure of a call for that segment.
Forgotten(x) == \E m \in mishaps : m[1] = x[1] /\ x[2] \in MayStay(m[2])

\* A POSIX object's second copy is not behind the first, for which the code
\* has no check; the destructor will unmap what is there.
Misplaced == \E m \in mishaps : m[2] = "elsewhere"

(* The two copies of a buffer are the same memory, its own, for as long as   *)
(* it lives: whatever other code maps while a constructor works, whichever   *)
(* of its calls fail, and whichever other buffers come and go.  SysV has its *)
(* guard pages at both ends.                                                 *)
Mirrored ==
    \A b \in bufs :
        /\ mem[b.base] = <<b.seg, "data">> /\ mem[b.base + 1] = <<b.seg, "data">>
        /\ kind = "sysv" => mem[b.base - 1] = <<b.seg, "guard">> /\ mem[b.base + 2] = <<b.seg, "guard">>

(* Nothing is left of a buffer that is gone or that could not be made: no    *)
(* mapping, no descriptor, no name, no segment; and a buffer made keeps      *)
(* nothing but its mappings.  Only what the handler of a failed call forgets *)
(* stays, and only of the segment of which that call failed.  A buffer that  *)
(* its owner forgets to delete, as test_a_bunch does when a later one cannot *)
(* be made, is not gone.                                                     *)
NothingLeft ==
    ctor = Idle =>
        /\ \A x \in held : Forgotten(x)
        /\ \A c \in Cells :
               mem[c] \in {Free, Foreign} \/ Forgotten(mem[c]) \/ \E b \in bufs : c \in Extent(b)

-----------------------------------------------------------------------------
(* Which kind a process uses: vmcircbuf_sysconfig.  A file may name one; if  *)
(* it does not, the factories are tested in turn and the first to pass is    *)
(* written to the file, for this process and for later ones.  Processes      *)
(* share the file without a lock, and may end at any step.                   *)
CONSTANTS
    all_factories,  \* the factories in the order they are tried
    FactoryTests,   \* how each may fare in test_factory: passes "always", "sometimes" or "never"
    FoundPrefs,     \* what the file may hold at first, Missing if there is none
    Missing, NoFactory,
    Garbage,        \* what the array may hold that is not written if the file is missing
    VmProcesses, MaxLaunched

ASSUME FactoriesAssumption == all_factories \in Seq(STRING) \ {<<>>}

VARIABLES
    fares,      \* how each factory fares on this machine
    found,      \* history: what the file held at first
    pref_file,  \* what it holds
    procs,      \* each process: where it is, the factory it tests, s_default_factory
    launched

sysvars == <<fares, found, pref_file, procs, launched>>
NoProcess == [at |-> "out", i |-> 0, s_default_factory |-> NoFactory]

SysInit ==
    /\ fares \in FactoryTests /\ found \in FoundPrefs /\ pref_file = found
    /\ procs = [p \in VmProcesses |-> NoProcess] /\ launched = 0

Named(name) == \E i \in DOMAIN all_factories : all_factories[i] = name

Launch(p) ==
    /\ procs[p].at = "out" /\ launched < MaxLaunched /\ launched' = launched + 1
    /\ procs' = [procs EXCEPT ![p].at = "get"]
    /\ UNCHANGED <<fares, found, pref_file>>

\* vmcircbuf_prefs::get returns 0 where there is no file, and 0 is no error.
get_pref(p) ==
    /\ procs[p].at = "get"
    /\ \E name \in IF pref_file = Missing THEN Garbage ELSE {pref_file} :
           procs' = [procs EXCEPT ![p] = IF Named(name) THEN [at |-> "set", i |-> 0, s_default_factory |-> name]
                                         ELSE [@ EXCEPT !.at = "test", !.i = 1]]
    /\ UNCHANGED <<fares, found, pref_file, launched>>

\* Mutant: the first factory is taken without a test.
TestResult_untested(i) == {TRUE}
TestResult(i) ==
    CASE fares[all_factories[i]] = "always" -> {TRUE}
      [] fares[all_factories[i]] = "never" -> {FALSE}
      [] OTHER -> BOOLEAN

\* When none passes there is an exception, and the next buffer asks anew.
test_factory(p) ==
    LET i == procs[p].i IN
    /\ procs[p].at = "test"
    /\ \E ok \in TestResult(i) :
           procs' = [procs EXCEPT ![p] = IF ok THEN [@ EXCEPT !.at = "fopen"]
                                         ELSE IF i = Len(all_factories) THEN NoProcess
                                         ELSE [@ EXCEPT !.i = i + 1]]
    /\ UNCHANGED <<fares, found, pref_file, launched>>

\* set_default_factory: the directory is made, the file is emptied, if it can
\* be opened, and written, if that works; no directory is an exception, and
\* no factory is set.
set_pref(p) ==
    LET f == all_factories[procs[p].i] IN
    \/ /\ procs[p].at = "fopen"
       /\ \/ procs' = [procs EXCEPT ![p] = NoProcess] /\ UNCHANGED pref_file
          \/ pref_file' = "" /\ procs' = [procs EXCEPT ![p].at = "fwrite"]
          \/ procs' = [procs EXCEPT ![p].at = "set", ![p].s_default_factory = f] /\ UNCHANGED pref_file
       /\ UNCHANGED <<fares, found, launched>>
    \/ /\ procs[p].at = "fwrite"
       /\ pref_file' \in {f, ""} /\ procs' = [procs EXCEPT ![p].at = "set", ![p].s_default_factory = f]
       /\ UNCHANGED <<fares, found, launched>>

Die(p) ==
    /\ procs[p].at # "out" /\ procs' = [procs EXCEPT ![p] = NoProcess]
    /\ UNCHANGED <<fares, found, pref_file, launched>>

SysNext == \E p \in VmProcesses : Launch(p) \/ get_pref(p) \/ test_factory(p) \/ set_pref(p) \/ Die(p)

(* A process uses the factory the file named at first or one that has        *)
(* passed its tests, never passing over an earlier one that always does,     *)
(* whichever processes write the file meanwhile or die with it empty; and a  *)
(* file that names a factory is not written to.                              *)
DefaultServes ==
    /\ \A p \in VmProcesses : LET f == procs[p].s_default_factory IN
          f \notin {NoFactory, found} =>
              /\ fares[f] # "never"
              /\ \E i \in DOMAIN all_factories : all_factories[i] = f /\
                     \A j \in 1 .. i - 1 : fares[all_factories[j]] # "always"
    /\ Named(found) => pref_file = found

(* The constructors and destructors of vmcircbuf, and the choice of one: a   *)
(* buffer is its own mirror image or is not there, and then without a trace  *)
(* but those of a failed call, and its kind is one that works here.  All of  *)
(* this until a POSIX object's second copy is put elsewhere.                 *)
MemorySound == (Misplaced \/ (Mirrored /\ NothingLeft)) /\ DefaultServes
=============================================================================
