---------------------------- MODULE BufferProofs ----------------------------
(***************************************************************************)
(* The memory behind a buffer is its own mirror image whatever fails while *)
(* it is made, and the ring of Buffer is a correct set of queues, for every *)
(* number of readers, every size, every history and every interleaving.    *)
(***************************************************************************)
EXTENDS Buffer, VmCircBuf, SequenceTheorems, TLAPS

-----------------------------------------------------------------------------
(***************************************************************************)
(* The constructors, for any number of cells and buffers.  What is needed    *)
(* beyond Mirrored: each buffer has a segment of its own, which is not the   *)
(* one the constructor at work has made; what that one has mapped when it is *)
(* about to make each call.  All of it until a POSIX object's second copy is *)
(* put elsewhere (Misplaced), from where on nothing is claimed.              *)
(***************************************************************************)

CircSpec == VInit /\ [][VNext]_vmvars

FileSteps == {"open", "ftruncate1", "mmap1", "munmap1", "mmap2"}
SysvSteps == {"shmget0", "shmget1", "shmget2", "shmat1", "shmdt", "shmat2", "shmat3", "shmat4", "shmat5"}
CTOR == [pc : {"idle", "unlink", "check", "ftruncate2", "shm_unlink"} \cup FileSteps \cup SysvSteps,
         first : Nat, second : Nat, attempts : Nat]
InPlace ==
    /\ kind = "tmpfile" => ctor.pc \in FileSteps \cup {"idle", "unlink", "check", "ftruncate2"}
    /\ kind = "shm" => ctor.pc \in FileSteps \cup {"idle", "shm_unlink"}
    /\ kind = "sysv" => ctor.pc \in SysvSteps \cup {"idle"}
    /\ ctor.pc = "idle" => ctor = Idle

CellTags == {"free", "foreign", "data", "rest", "guard", "whole"}
VTypeOK ==
    /\ kind \in CircKinds /\ segs \in Nat
    /\ mem \in [Cells -> Nat \X CellTags]
    /\ ctor \in CTOR /\ InPlace
    /\ bufs \subseteq [seg : Nat, base : Nat]

\* The constructor at work has made its segment.
Started == ctor.pc \notin {"idle", "open", "shmget0"}

Segments ==
    /\ Started => segs > 0
    /\ \A b \in bufs : b.seg <= segs /\ (Started => b.seg < segs)
    /\ \A b, d \in bufs : b.seg = d.seg => b = d

Within == \A b \in bufs : \A c \in Extent(b) : c \in Cells

\* What the constructor has mapped so far: the cell at its first place and those after it.
Has(i, what) == ctor.first + i \in Cells /\ mem[ctor.first + i] = <<segs, what>>
Building ==
    /\ ctor.pc = "munmap1" => Has(0, "data") /\ Has(1, "rest")
    /\ ctor.pc = "mmap2" => Has(0, "data") /\ ctor.first + 1 \in Cells
    /\ ctor.pc = "check" => Has(0, "data") /\ ctor.second \in Cells /\ mem[ctor.second] = <<segs, "data">>
    /\ ctor.pc \in {"ftruncate2", "shm_unlink"} => Has(0, "data") /\ Has(1, "data") /\ Contiguous
    /\ ctor.pc = "shmdt" => \A i \in 0 .. 3 : Has(i, "whole")
    /\ ctor.pc \in {"shmat2", "shmat3", "shmat4", "shmat5"} => \A i \in 0 .. 3 : ctor.first + i \in Cells
    /\ ctor.pc \in {"shmat3", "shmat4", "shmat5"} => Has(0, "guard")
    /\ ctor.pc \in {"shmat4", "shmat5"} => Has(1, "data")
    /\ ctor.pc = "shmat5" => Has(2, "data")

VInv == VTypeOK /\ Segments /\ Within /\ Building /\ Mirrored

\* The cells that are the constructor's.
Own(c) ==
    \/ ctor.pc \in {"munmap1", "mmap2", "shmdt", "shmat3", "shmat4", "shmat5"} /\ c = ctor.first
    \/ ctor.pc \in {"munmap1", "shmdt", "shmat4", "shmat5"} /\ c = ctor.first + 1
    \/ ctor.pc \in {"shmdt", "shmat5"} /\ c = ctor.first + 2
    \/ ctor.pc = "shmdt" /\ c = ctor.first + 3
    \/ ctor.pc \in {"check", "ftruncate2", "shm_unlink"} /\ c \in {ctor.first, ctor.second}

LEMMA CtorTypes ==
    VTypeOK => /\ ctor.first \in Nat /\ ctor.second \in Nat /\ ctor.attempts \in Nat
               /\ segs \in Nat /\ \A b \in bufs : b.seg \in Nat /\ b.base \in Nat
  BY DEF VTypeOK, CTOR

Goes(p, f, s) ==
    /\ ctor' \in [pc : {p}, first : Nat, second : Nat, attempts : Nat]
    /\ ctor'.pc = p /\ ctor'.first = f /\ ctor'.second = s

\* The constructor goes on to another call.
LEMMA GoesOn ==
    ASSUME VTypeOK
    PROVE  /\ \A p : To(p) => Goes(p, ctor.first, ctor.second)
           /\ \A p : \A f \in Nat :
                 ctor' = [ctor EXCEPT !.pc = p, !.first = f] => Goes(p, f, ctor.second)
           /\ \A p : \A f \in Nat :
                 ctor' = [ctor EXCEPT !.pc = p, !.second = f] => Goes(p, ctor.first, f)
<1>1. ctor \in CTOR
    BY DEF VTypeOK
<1>2. ASSUME NEW p, To(p) PROVE Goes(p, ctor.first, ctor.second)
    BY <1>1, <1>2 DEF To, Goes, CTOR
<1>3. ASSUME NEW p, NEW f \in Nat, ctor' = [ctor EXCEPT !.pc = p, !.first = f] PROVE Goes(p, f, ctor.second)
    BY <1>1, <1>3 DEF Goes, CTOR
<1>4. ASSUME NEW p, NEW f \in Nat, ctor' = [ctor EXCEPT !.pc = p, !.second = f] PROVE Goes(p, ctor.first, f)
    BY <1>1, <1>4 DEF Goes, CTOR
<1> QED
    BY <1>2, <1>3, <1>4

LEMMA IdleFields ==
    /\ Idle \in CTOR /\ Idle.pc = "idle"
    /\ \A p, n : [Idle EXCEPT !.pc = p, !.attempts = n].pc = p
    /\ \A n \in Nat : [Idle EXCEPT !.pc = "shmget0", !.attempts = n] \in CTOR
    /\ [Idle EXCEPT !.pc = "open"] \in CTOR /\ [Idle EXCEPT !.pc = "open"].pc = "open"
<1>1. Idle \in CTOR /\ Idle.pc = "idle"
    BY DEF Idle, CTOR
<1>2. \A p, n : [Idle EXCEPT !.pc = p, !.attempts = n].pc = p
    BY DEF Idle
<1>3. \A r \in CTOR : \A n \in Nat : [r EXCEPT !.pc = "shmget0", !.attempts = n] \in CTOR
    BY DEF CTOR, SysvSteps
<1>4. \A r \in CTOR : [r EXCEPT !.pc = "open"] \in CTOR /\ [r EXCEPT !.pc = "open"].pc = "open"
    BY DEF CTOR, FileSteps
<1> QED
    BY <1>1, <1>2, <1>3, <1>4

\* Where a failed constructor is next.
LEMMA AfterFailure ==
    ASSUME VTypeOK, NEW cells, NEW whats, Failed(cells, whats)
    PROVE  /\ ctor' \in CTOR
           /\ \/ ctor' = Idle /\ ctor'.pc = "idle"
              \/ kind = "sysv" /\ ctor'.pc = "shmget0"
<1>1. CASE AnotherAttempt
    <2>1. kind = "sysv" /\ ctor.attempts - 1 \in Nat
        BY <1>1, CtorTypes DEF AnotherAttempt
    <2>2. ctor' = [Idle EXCEPT !.pc = "shmget0", !.attempts = ctor.attempts - 1]
        BY <1>1 DEF Failed
    <2> QED
        BY <2>1, <2>2, IdleFields
<1>2. CASE ~AnotherAttempt
    BY <1>2, IdleFields DEF Failed
<1> QED
    BY <1>1, <1>2

LEMMA CellTypes ==
    ASSUME VTypeOK
    PROVE  /\ \A S : Unmapped(S) \in [Cells -> Nat \X CellTags]
           /\ \A S : \A c \in Cells : Unmapped(S)[c] = IF c \in S THEN Free ELSE mem[c]
           /\ \A f : (\A c \in DOMAIN f : f[c] \in Nat \X CellTags) => Mapped(f) \in [Cells -> Nat \X CellTags]
           /\ \A f : \A c \in Cells : Mapped(f)[c] = IF c \in DOMAIN f THEN f[c] ELSE mem[c]
<1>1. Free \in Nat \X CellTags
    BY DEF Free, CellTags
<1> QED
    BY <1>1 DEF VTypeOK, Unmapped, Mapped

\* A buffer's cells are its own: neither free, nor another's, nor the constructor's.
LEMMA OfTheBuffer ==
    ASSUME VInv, NEW b \in bufs, NEW c \in Extent(b)
    PROVE  /\ c \in Cells /\ mem[c] # Free /\ mem[c] # Foreign /\ mem[c][1] = b.seg
           /\ ~Own(c)
           /\ \A d \in bufs : c \in Extent(d) => d = b
<1> USE DEF VInv
<1>1. /\ b.base \in Nat /\ b.seg \in Nat /\ segs \in Nat
    BY CtorTypes
<1>2. \A d \in bufs : \A e \in Extent(d) : mem[e] \in {<<d.seg, "data">>, <<d.seg, "guard">>} /\ e \in Cells
    <2> SUFFICES ASSUME NEW d \in bufs, NEW e \in Extent(d)
                 PROVE  mem[e] \in {<<d.seg, "data">>, <<d.seg, "guard">>} /\ e \in Cells
        OBVIOUS
    <2>1. d.base \in Nat
        BY CtorTypes
    <2>2. \/ e = d.base \/ e = d.base + 1
          \/ kind = "sysv" /\ (e = d.base - 1 \/ e = d.base + 2)
        BY <2>1 DEF Extent
    <2>3. e \in Cells
        BY DEF Within
    <2> QED
        BY <2>2, <2>3 DEF Mirrored
<1>3. mem[c] # Free /\ mem[c] # Foreign /\ mem[c][1] = b.seg /\ c \in Cells
    BY <1>2 DEF Free, Foreign
<1>4. ~Own(c)
    <2> SUFFICES ASSUME Own(c) PROVE FALSE
        OBVIOUS
    <2>1. mem[c] \in {<<segs, "data">>, <<segs, "rest">>, <<segs, "whole">>, <<segs, "guard">>}
        <3> USE CtorTypes DEF Building, Has, Contiguous
        <3>1. CASE c = ctor.first /\ ctor.pc # "shmdt"
            <4>1. ctor.pc \in {"munmap1", "mmap2", "shmat3", "shmat4", "shmat5", "check", "ftruncate2", "shm_unlink"}
                BY <3>1 DEF Own
            <4>2. Has(0, "data") \/ Has(0, "guard")
                BY <4>1
            <4>3. ctor.first + 0 = c
                BY <3>1
            <4> QED
                BY <4>2, <4>3
        <3>5. CASE c # ctor.first /\ ctor.pc # "shmdt"
            BY <3>5 DEF Own
        <3>2. ctor.pc = "shmdt" => \E i \in 0 .. 3 : c = ctor.first + i
            BY CtorTypes DEF Own
        <3>3. ctor.pc = "shmdt" => mem[c] = <<segs, "whole">>
            BY <3>2 DEF Building, Has
        <3> QED
            BY <3>1, <3>3, <3>5
    <2>3. mem[c][1] = segs
        BY <2>1
    <2>2. Started
        BY DEF Own, Started
    <2>4. b.seg < segs
        BY <2>2 DEF Segments
    <2> QED
        BY <1>1, <1>3, <2>3, <2>4
<1>5. ASSUME NEW d \in bufs, c \in Extent(d) PROVE d = b
    <2>2. mem[c] \in {<<d.seg, "data">>, <<d.seg, "guard">>}
        BY <1>5, <1>2
    <2>3. d.seg = b.seg
        BY <1>2, <2>2
    <2> QED
        BY <2>3 DEF Segments
<1> QED
    BY <1>3, <1>4, <1>5

\* What is left alone stays mirrored.
LEMMA MirrorKept ==
    ASSUME VInv, kind' = kind, bufs' \subseteq bufs,
           \A b \in bufs' : \A c \in Extent(b) : mem'[c] = mem[c]
    PROVE  Mirrored' /\ Within'
<1>1. \A b \in bufs' : b \in bufs /\ b.base \in Nat
    BY DEF VInv, VTypeOK
<1>2. \A b : Extent(b)' = Extent(b)
    BY DEF Extent
<1>3. Within'
    BY <1>1, <1>2 DEF VInv, Within
<1>4. ASSUME NEW b \in bufs'
      PROVE /\ mem'[b.base] = <<b.seg, "data">> /\ mem'[b.base + 1] = <<b.seg, "data">>
            /\ kind = "sysv" => mem'[b.base - 1] = <<b.seg, "guard">> /\ mem'[b.base + 2] = <<b.seg, "guard">>
    <2>1. b \in bufs /\ b.base \in Nat
        BY <1>1
    <2>2. b.base \in Extent(b) /\ b.base + 1 \in Extent(b)
        BY <2>1 DEF Extent
    <2>3. kind = "sysv" => b.base - 1 \in Extent(b) /\ b.base + 2 \in Extent(b)
        BY <2>1 DEF Extent
    <2> QED
        BY <2>1, <2>2, <2>3 DEF VInv, Mirrored
<1>5. Mirrored'
    BY <1>4 DEF Mirrored
<1> QED
    BY <1>3, <1>5

\* A constructor that gives up unmaps its own cells only.
LEMMA FailureKeeps ==
    ASSUME VInv, NEW cells, NEW whats, Failed(cells, whats), \A c \in cells : Own(c)
    PROVE  VInv'
<1>1. /\ mem' = Unmapped(cells) /\ UNCHANGED <<kind, segs, bufs>>
    BY DEF Failed
<1>2. /\ ctor' \in CTOR
      /\ \/ ctor' = Idle /\ ctor'.pc = "idle"
         \/ kind = "sysv" /\ ctor'.pc = "shmget0"
    BY AfterFailure DEF VInv
<1>3. ctor'.pc \in {"idle", "shmget0"}
    BY <1>2
<1>4. \A b \in bufs : \A c \in Extent(b) : mem'[c] = mem[c]
    BY <1>1, OfTheBuffer, CellTypes DEF VInv
<1>5. Mirrored' /\ Within'
    BY <1>1, <1>4, MirrorKept
<1>6. VTypeOK'
    <2>1. mem' \in [Cells -> Nat \X CellTags]
        BY <1>1, CellTypes DEF VInv
    <2>2. InPlace'
        BY <1>1, <1>2 DEF InPlace, SysvSteps, VInv, VTypeOK, CircKinds
    <2> QED
        BY <1>1, <1>2, <2>1, <2>2 DEF VInv, VTypeOK
<1>7. Segments' /\ Building'
    BY <1>1, <1>3 DEF VInv, Segments, Building, Started
<1> QED
    BY <1>5, <1>6, <1>7 DEF VInv

LEMMA InFields ==
    \A p, f, s : Goes(p, f, s) /\ p \in {"idle", "unlink", "check", "ftruncate2", "shm_unlink"} \cup FileSteps \cup SysvSteps
                     => ctor' \in CTOR
  BY DEF Goes, CTOR

\* A step that maps cells that were free, or nothing, and unmaps its own.
LEMMA StepKeeps ==
    ASSUME VInv, UNCHANGED <<kind, bufs>>, segs' \in Nat, ctor' \in CTOR,
           mem' \in [Cells -> Nat \X CellTags],
           \A c \in Cells : mem'[c] = mem[c] \/ mem[c] \in {Free, Foreign} \/ Own(c),
           InPlace', Segments', Building'
    PROVE  VInv'
<1>1. \A b \in bufs' : \A c \in Extent(b) : mem'[c] = mem[c]
    BY OfTheBuffer
<1>2. Mirrored' /\ Within'
    BY <1>1, MirrorKept
<1>3. VTypeOK'
    BY DEF VInv, VTypeOK
<1> QED
    BY <1>2, <1>3 DEF VInv

LEMMA FileBegins ==
    ASSUME VInv, MakeBuffer \/ open_file \/ unlink \/ ftruncate1 PROVE VInv'
<1> USE DEF VInv, VTypeOK
<1>0. \A c \in Cells : mem[c] \in Nat \X CellTags
    OBVIOUS
<1>1. CASE MakeBuffer
    <2>1. UNCHANGED <<kind, mem, bufs, segs>> /\ ctor = Idle
        BY <1>1 DEF MakeBuffer
    <2>2. ctor' \in CTOR /\ ctor'.pc = IF kind = "sysv" THEN "shmget0" ELSE "open"
        <3>1. MAX_SYSV_SHM_ATTEMPTS - 1 \in Nat
            BY DEF MAX_SYSV_SHM_ATTEMPTS
        <3>2. CASE kind = "sysv"
            <4>1. ctor' = [Idle EXCEPT !.pc = "shmget0", !.attempts = MAX_SYSV_SHM_ATTEMPTS - 1]
                BY <1>1, <3>2 DEF MakeBuffer
            <4> QED
                BY <3>1, <3>2, <4>1, IdleFields
        <3>3. CASE kind # "sysv"
            BY <1>1, <3>3, IdleFields DEF MakeBuffer
        <3> QED
            BY <3>2, <3>3
    <2>3. InPlace' /\ Segments' /\ Building'
        BY <2>1, <2>2, CtorTypes DEF InPlace, Segments, Building, Started, CircKinds, FileSteps, SysvSteps
    <2> QED
        BY <2>1, <2>2, <2>3, StepKeeps
<1>2. ASSUME NEW whats, Failed({}, whats) PROVE VInv'
    BY <1>2, FailureKeeps
<1>3. ASSUME UNCHANGED <<kind, mem, bufs>>, NEW p \in {"unlink", "ftruncate1", "mmap1"}, To(p), InPlace',
             Started => segs' = segs, ~Started => segs' = segs + 1
      PROVE  VInv'
    <2>1. Goes(p, ctor.first, ctor.second)
        BY <1>3, GoesOn
    <2>2. ctor' \in CTOR /\ ctor'.pc = p
        BY <2>1, InFields DEF FileSteps, Goes
    <2>3. Segments' /\ Building'
        BY <1>3, <2>2, CtorTypes DEF Segments, Building, Started
    <2>4. segs' \in Nat
        BY <1>3
    <2> QED
        BY <1>3, <2>2, <2>3, <2>4, StepKeeps
<1>4. CASE open_file
    <2>1. CASE Failed({}, {})
        BY <2>1, <1>2
    <2>2. CASE ~Failed({}, {})
        <3>1. /\ kind \in {"tmpfile", "shm"} /\ ctor.pc = "open" /\ segs' = segs + 1 /\ UNCHANGED <<kind, mem, bufs>>
              /\ To(IF kind = "tmpfile" THEN "unlink" ELSE "ftruncate1")
            BY <1>4, <2>2 DEF open_file, CircKinds
        <3>2. Goes(IF kind = "tmpfile" THEN "unlink" ELSE "ftruncate1", ctor.first, ctor.second)
            BY <3>1, GoesOn
        <3>3. InPlace'
            BY <3>1, <3>2 DEF InPlace, Goes, FileSteps
        <3> QED
            BY <1>3, <3>1, <3>3 DEF Started
    <2> QED
        BY <2>1, <2>2
<1>5. CASE unlink
    <2>1. CASE Failed({}, {})
        BY <2>1, <1>2
    <2>2. CASE ~Failed({}, {})
        <3>1. kind = "tmpfile" /\ ctor.pc = "unlink" /\ To("ftruncate1") /\ UNCHANGED <<kind, mem, bufs, segs>>
            BY <1>5, <2>2 DEF unlink, In
        <3>2. Goes("ftruncate1", ctor.first, ctor.second)
            BY <3>1, GoesOn
        <3>3. InPlace'
            BY <3>1, <3>2 DEF InPlace, Goes, FileSteps
        <3> QED
            BY <1>3, <3>1, <3>3 DEF Started
    <2> QED
        BY <2>1, <2>2
<1>6. CASE ftruncate1
    <2>1. CASE Failed({}, {"fd"})
        BY <2>1, <1>2
    <2>2. CASE ~Failed({}, {"fd"})
        <3>1. ctor.pc = "ftruncate1" /\ To("mmap1") /\ UNCHANGED <<kind, mem, bufs, segs>>
            BY <1>6, <2>2 DEF ftruncate1
        <3>2. Goes("mmap1", ctor.first, ctor.second)
            BY <3>1, GoesOn
        <3>3. InPlace'
            BY <3>1, <3>2 DEF InPlace, Goes, FileSteps, SysvSteps
        <3> QED
            BY <1>3, <3>1, <3>3 DEF Started
    <2> QED
        BY <2>1, <2>2
<1> QED
    BY <1>1, <1>4, <1>5, <1>6

LEMMA FileMaps ==
    ASSUME VInv, ~Misplaced', mmap1 \/ munmap1 \/ mmap2 PROVE VInv'
<1> USE DEF VInv, VTypeOK
<1>1. CASE mmap1
    <2>1. ASSUME Failed({}, {"fd"}) PROVE VInv'
        BY <2>1, FailureKeeps
    <2>2. ASSUME NEW c \in Fit(2), mem' = [Mapped(At_(c, "data")) EXCEPT ![c + 1] = <<segs, "rest">>],
                 ctor' = [ctor EXCEPT !.pc = "munmap1", !.first = c], UNCHANGED <<kind, segs, bufs>>
          PROVE  VInv'
        <3>1. c \in Cells /\ c + 1 \in Cells /\ mem[c] = Free /\ mem[c + 1] = Free
            BY BoundsAssumption DEF Fit, Cells
        <3>0. c \in Nat
            BY <3>1 DEF Cells
        <3>2. Goes("munmap1", c, ctor.second)
            BY <2>2, <3>0, GoesOn
        <3>3. mem' \in [Cells -> Nat \X CellTags] /\ \A d \in Cells :
                 mem'[d] = IF d = c THEN <<segs, "data">> ELSE IF d = c + 1 THEN <<segs, "rest">> ELSE mem[d]
            <4> DEFINE f == At_(c, "data")
            <4>1. DOMAIN f = {c} /\ f[c] = <<segs, "data">> /\ \A d \in DOMAIN f : f[d] \in Nat \X CellTags
                BY DEF At_, CellTags
            <4>2. Mapped(f) \in [Cells -> Nat \X CellTags] /\ \A d \in Cells : Mapped(f)[d] = IF d = c THEN <<segs, "data">> ELSE mem[d]
                BY <4>1, CellTypes
            <4> DEFINE g == Mapped(f)
            <4>3. mem' = [g EXCEPT ![c + 1] = <<segs, "rest">>] /\ <<segs, "rest">> \in Nat \X CellTags /\ c # c + 1
                BY <2>2, <3>1 DEF CellTags, Cells
            <4> HIDE DEF f, g
            <4> QED
                BY <3>1, <4>2, <4>3 DEF g
        <3>4. InPlace'
            BY <1>1, <2>2, <3>2 DEF InPlace, Goes, FileSteps, SysvSteps, mmap1
        <3>5. Segments'
            BY <1>1, <2>2, <3>2 DEF Segments, Goes, Started, mmap1
        <3>6. Building'
            <4>1. Has(0, "data")' /\ Has(1, "rest")'
                BY <2>2, <3>1, <3>2, <3>3, CtorTypes DEF Has, Goes, Cells
            <4> QED
                BY <4>1, <3>2 DEF Building, Goes
        <3>7. ctor' \in CTOR
            BY <3>2, InFields DEF FileSteps
        <3>8. \A d \in Cells : mem'[d] = mem[d] \/ mem[d] \in {Free, Foreign} \/ Own(d)
            BY <3>1, <3>3
        <3> QED
            BY <2>2, <3>3, <3>4, <3>5, <3>6, <3>7, <3>8, StepKeeps
    <2> QED
        BY <1>1, <2>1, <2>2 DEF mmap1
<1>2. CASE munmap1
    <2>1. ASSUME Failed({}, {"fd"}) PROVE VInv'
        BY <2>1, FailureKeeps
    <2>2. ASSUME mem' = Unmapped({ctor.first + 1}), To("mmap2"), UNCHANGED <<kind, segs, bufs>>
          PROVE  VInv'
        <3>1. /\ ctor.pc = "munmap1" /\ ctor.first \in Cells /\ mem[ctor.first] = <<segs, "data">>
              /\ ctor.first + 1 \in Cells /\ ctor.first + 1 # ctor.first
            BY <1>2, CtorTypes DEF munmap1, Building, Has
        <3>2. Goes("mmap2", ctor.first, ctor.second)
            BY <2>2, GoesOn
        <3>3. mem' \in [Cells -> Nat \X CellTags] /\ \A d \in Cells :
                 mem'[d] = IF d = ctor.first + 1 THEN Free ELSE mem[d]
            BY <2>2, CellTypes
        <3>4. InPlace'
            BY <3>1, <2>2, <3>2 DEF InPlace, Goes, FileSteps, SysvSteps
        <3>5. Segments'
            BY <3>1, <2>2, <3>2 DEF Segments, Goes, Started
        <3>6. Building'
            <4>0. ctor'.first = ctor.first /\ ctor.first + 0 = ctor.first /\ segs' = segs
                BY <2>2, <3>2, CtorTypes DEF Goes
            <4>1. Has(0, "data")' /\ ctor'.first + 1 \in Cells
                BY <3>1, <3>3, <4>0 DEF Has
            <4> QED
                BY <4>1, <3>2 DEF Building, Goes
        <3>7. ctor' \in CTOR
            BY <3>2, InFields DEF FileSteps
        <3>8. \A d \in Cells : mem'[d] = mem[d] \/ mem[d] \in {Free, Foreign} \/ Own(d)
            BY <3>1, <3>3 DEF Own
        <3> QED
            BY <2>2, <3>3, <3>4, <3>5, <3>6, <3>7, <3>8, StepKeeps
    <2> QED
        BY <1>2, <2>1, <2>2 DEF munmap1
<1>3. CASE mmap2
    <2>0. ctor.pc = "mmap2" /\ ctor.first \in Cells /\ mem[ctor.first] = <<segs, "data">> /\ ctor.first + 1 \in Cells
          /\ kind # "sysv"
        <3>1. ctor.pc = "mmap2"
            BY <1>3 DEF mmap2
        <3>2. Has(0, "data") /\ ctor.first + 1 \in Cells /\ ctor.first + 0 = ctor.first
            BY <3>1, CtorTypes DEF Building
        <3>3. kind # "sysv"
            BY <3>1 DEF InPlace, SysvSteps
        <3> QED
            BY <3>1, <3>2, <3>3 DEF Has
    <2>1. ASSUME NEW cells, NEW whats, Failed(cells, whats), cells \in {{}, {ctor.first}} PROVE VInv'
        <3>1. \A c \in cells : Own(c)
            BY <2>0, <2>1 DEF Own
        <3> QED
            BY <2>1, <3>1, FailureKeeps
    <2> DEFINE places == IF mem[ctor.first + 1] = Free THEN {ctor.first + 1} ELSE Fit(1)
    <2>2. ASSUME NEW c \in places, mem' = Mapped(At_(c, "data")), UNCHANGED <<kind, segs, bufs>>,
                 ctor' = [ctor EXCEPT !.pc = IF kind = "tmpfile" THEN "check" ELSE "shm_unlink", !.second = c],
                 kind = "shm" => c = ctor.first + 1
          PROVE  VInv'
        <3>1. c \in Cells /\ mem[c] = Free /\ c \in Nat
            BY <2>0, BoundsAssumption DEF Fit, Cells
        <3> DEFINE p == IF kind = "tmpfile" THEN "check" ELSE "shm_unlink"
        <3>2. Goes(p, ctor.first, c)
            BY <2>2, <3>1, GoesOn
        <3>3. mem' \in [Cells -> Nat \X CellTags] /\ \A d \in Cells :
                 mem'[d] = IF d = c THEN <<segs, "data">> ELSE mem[d]
            <4> DEFINE f == At_(c, "data")
            <4>1. DOMAIN f = {c} /\ f[c] = <<segs, "data">> /\ \A d \in DOMAIN f : f[d] \in Nat \X CellTags
                BY DEF At_, CellTags
            <4> QED
                BY <2>2, <4>1, CellTypes
        <3>4. InPlace'
            BY <2>0, <2>2, <3>2 DEF InPlace, Goes, CircKinds
        <3>5. Segments'
            BY <2>0, <2>2, <3>2 DEF Segments, Goes, Started
        <3>6. Building'
            <4>0. ctor'.first = ctor.first /\ ctor'.second = c /\ ctor'.pc = p /\ segs' = segs /\ mem'[c] = <<segs, "data">>
                  /\ mem'[ctor.first] = <<segs, "data">>
                BY <2>0, <2>2, <3>1, <3>2, <3>3 DEF Goes
            <4>1. Has(0, "data")'
                BY <2>0, <4>0, CtorTypes DEF Has
            <4>2. p = "shm_unlink" => Has(1, "data")' /\ Contiguous'
                BY <2>0, <2>2, <4>0, CtorTypes DEF Has, Contiguous, CircKinds
            <4> QED
                BY <4>0, <4>1, <4>2, <3>1 DEF Building
        <3>7. ctor' \in CTOR
            BY <3>2, InFields
        <3>8. \A d \in Cells : mem'[d] = mem[d] \/ mem[d] \in {Free, Foreign} \/ Own(d)
            BY <3>1, <3>3
        <3> QED
            BY <2>2, <3>3, <3>4, <3>5, <3>6, <3>7, <3>8, StepKeeps
    <2>3. ASSUME NEW c, mishaps' = IF kind = "shm" /\ c # ctor.first + 1
                                  THEN mishaps \cup {<<segs, "elsewhere">>} ELSE mishaps
          PROVE  kind = "shm" => c = ctor.first + 1
        <3> SUFFICES ASSUME kind = "shm", c # ctor.first + 1 PROVE FALSE
            OBVIOUS
        <3>1. <<segs, "elsewhere">> \in mishaps' /\ <<segs, "elsewhere">>[2] = "elsewhere"
            BY <2>3
        <3> QED
            BY <3>1 DEF Misplaced
    <2>4. CASE \E cells, whats : Failed(cells, whats) /\ cells \in {{}, {ctor.first}}
        BY <2>1, <2>4
    <2>5. CASE \E c \in places :
                   /\ mem' = Mapped(At_(c, "data")) /\ UNCHANGED <<kind, segs, bufs>>
                   /\ ctor' = [ctor EXCEPT !.pc = IF kind = "tmpfile" THEN "check" ELSE "shm_unlink", !.second = c]
                   /\ mishaps' = IF kind = "shm" /\ c # ctor.first + 1
                                 THEN mishaps \cup {<<segs, "elsewhere">>} ELSE mishaps
        BY <2>2, <2>3, <2>5
    <2> QED
        BY <1>3, <2>4, <2>5 DEF mmap2
<1> QED
    BY <1>1, <1>2, <1>3

\* A buffer is handed out: it is its own mirror image, and no other one has its segment.
LEMMA HandOver ==
    ASSUME VInv, Started, NEW base \in Nat, HandedOut(base), UNCHANGED <<kind, segs>>,
           mem' \in [Cells -> Nat \X CellTags],
           \A c \in Cells : mem'[c] = mem[c] \/ mem[c] \in {Free, Foreign},
           base \in Cells /\ base + 1 \in Cells,
           mem'[base] = <<segs, "data">> /\ mem'[base + 1] = <<segs, "data">>,
           kind = "sysv" => /\ base - 1 \in Cells /\ base + 2 \in Cells
                            /\ mem'[base - 1] = <<segs, "guard">> /\ mem'[base + 2] = <<segs, "guard">>
    PROVE  VInv'
<1> DEFINE new == [seg |-> segs, base |-> base]
<1>1. new.seg = segs /\ new.base = base /\ new \in [seg : Nat, base : Nat]
    BY CtorTypes DEF VInv
<1>2. bufs' = bufs \cup {new} /\ ctor' = Idle
    BY CtorTypes DEF HandedOut, Made, VInv
<1> HIDE DEF new
<1>3. ASSUME NEW b \in bufs, NEW c \in Extent(b) PROVE mem'[c] = mem[c] /\ c \in Cells
    <2>1. c \in Cells /\ mem[c] # Free /\ mem[c] # Foreign
        BY OfTheBuffer
    <2> QED
        BY <2>1
<1>4. \A b : Extent(b)' = Extent(b)
    BY DEF Extent
<1>5. \A b \in bufs : b.base \in Nat /\ b.seg \in Nat /\ b.seg < segs
    BY CtorTypes DEF VInv, Segments
<1>6. Mirrored'
    <2>1. ASSUME NEW b \in bufs
          PROVE /\ mem'[b.base] = <<b.seg, "data">> /\ mem'[b.base + 1] = <<b.seg, "data">>
                /\ kind = "sysv" => mem'[b.base - 1] = <<b.seg, "guard">> /\ mem'[b.base + 2] = <<b.seg, "guard">>
        <3>1. b.base \in Extent(b) /\ b.base + 1 \in Extent(b)
            BY <1>5 DEF Extent
        <3>2. kind = "sysv" => b.base - 1 \in Extent(b) /\ b.base + 2 \in Extent(b)
            BY <1>5 DEF Extent
        <3> QED
            BY <1>3, <3>1, <3>2 DEF VInv, Mirrored
    <2> QED
        BY <1>1, <1>2, <2>1 DEF Mirrored
<1>7. Within'
    <2>1. \A c \in Extent(new) : c \in Cells
        BY <1>1 DEF Extent
    <2> QED
        BY <1>2, <1>3, <1>4, <2>1 DEF Within
<1>8. ctor'.pc = "idle" /\ ctor' \in CTOR
    BY <1>2, IdleFields
<1>9. Segments'
    <2>1. ~Started'
        BY <1>8 DEF Started
    <2>2. segs \in Nat /\ segs' = segs
        BY CtorTypes DEF VInv
    <2>3. \A b \in bufs' : b.seg <= segs'
        BY <1>1, <1>2, <1>5, <2>2
    <2>4. \A b, d \in bufs' : b.seg = d.seg => b = d
        BY <1>1, <1>2, <1>5, <2>2 DEF VInv, Segments
    <2> QED
        BY <2>1, <2>3, <2>4 DEF Segments
<1>10. VTypeOK'
    BY <1>1, <1>2, <1>8, IdleFields DEF VInv, VTypeOK, InPlace
<1>11. Building'
    BY <1>8 DEF Building
<1> QED
    BY <1>6, <1>7, <1>9, <1>10, <1>11 DEF VInv

LEMMA FileEnds ==
    ASSUME VInv, check \/ ftruncate2 \/ shm_unlink PROVE VInv'
<1> USE DEF VInv, VTypeOK
<1>0. ctor.first + 0 = ctor.first /\ ctor.first \in Nat
    BY CtorTypes
<1>1. ASSUME NEW cells, NEW whats, Failed(cells, whats), ctor.pc \in {"check", "ftruncate2", "shm_unlink"},
             cells \in {{}, {ctor.first, ctor.second}}
      PROVE  VInv'
    <2>1. \A c \in cells : Own(c)
        BY <1>1 DEF Own
    <2> QED
        BY <1>1, <2>1, FailureKeeps
<1>2. ASSUME ctor.pc \in {"ftruncate2", "shm_unlink"}, HandedOut(ctor.first), UNCHANGED <<kind, mem, segs>>
      PROVE  VInv'
    <2>1. Has(0, "data") /\ Has(1, "data")
        BY <1>2 DEF Building
    <2>2. kind # "sysv"
        BY <1>2 DEF InPlace, SysvSteps
    <2>3. Started
        BY <1>2 DEF Started
    <2> QED
        BY <1>0, <1>2, <2>1, <2>2, <2>3, HandOver DEF Has
<1>3. CASE check
    <2>1. ASSUME Contiguous, To("ftruncate2"), UNCHANGED <<kind, mem, segs, bufs>> PROVE VInv'
        <3>1. Goes("ftruncate2", ctor.first, ctor.second)
            BY <2>1, GoesOn
        <3>2. ctor.pc = "check" /\ kind = "tmpfile"
            BY <1>3 DEF check, In
        <3>3. InPlace' /\ Segments'
            BY <2>1, <3>1, <3>2 DEF InPlace, Segments, Started, Goes
        <3>4. Has(0, "data")' /\ Has(1, "data")' /\ Contiguous'
            <4>1. Has(0, "data") /\ ctor.second \in Cells /\ mem[ctor.second] = <<segs, "data">>
                BY <3>2 DEF Building
            <4>2. ctor'.first = ctor.first /\ ctor'.second = ctor.second
                BY <3>1 DEF Goes
            <4> QED
                BY <2>1, <4>1, <4>2 DEF Has, Contiguous
        <3>5. Building'
            BY <3>1, <3>4 DEF Building, Goes
        <3>6. ctor' \in CTOR
            BY <3>1, InFields
        <3> QED
            BY <2>1, <3>3, <3>5, <3>6, StepKeeps
    <2> QED
        BY <1>1, <1>3, <2>1 DEF check, In
<1>4. CASE ftruncate2
    BY <1>1, <1>2, <1>4 DEF ftruncate2, In
<1>5. CASE shm_unlink
    BY <1>1, <1>2, <1>5 DEF shm_unlink, In
<1> QED
    BY <1>3, <1>4, <1>5

\* The places of a SysV buffer.
LEMMA FourPlaces ==
    ASSUME VInv, ctor.pc \in {"shmdt", "shmat2", "shmat3", "shmat4", "shmat5"}
    PROVE  /\ \A i \in 0 .. 3 : ctor.first + i \in Cells
           /\ kind = "sysv" /\ Started
           /\ \A i, j \in 0 .. 3 : ctor.first + i = ctor.first + j => i = j
<1>1. kind = "sysv"
    BY DEF VInv, VTypeOK, InPlace, FileSteps, CircKinds
<1>2. \A i \in 0 .. 3 : ctor.first + i \in Cells
    BY DEF VInv, Building, Has
<1> QED
    BY <1>1, <1>2, CtorTypes DEF Started, VInv

LEMMA SysvBegins ==
    ASSUME VInv, shmget0 \/ shmget("shmget1", "whole", "shmget2") \/ shmget("shmget2", "data", "shmat1")
    PROVE  VInv'
<1> USE DEF VInv, VTypeOK
<1>1. ASSUME NEW whats, Failed({}, whats) PROVE VInv'
    BY <1>1, FailureKeeps
<1>2. ASSUME UNCHANGED <<kind, mem, bufs>>, NEW p \in {"shmget1", "shmget2", "shmat1"}, To(p), kind = "sysv",
             Started => segs' = segs, ~Started => segs' = segs + 1
      PROVE  VInv'
    <2>1. Goes(p, ctor.first, ctor.second)
        BY <1>2, GoesOn
    <2>2. ctor' \in CTOR /\ ctor'.pc = p
        BY <2>1, InFields DEF SysvSteps, Goes
    <2>3. Segments' /\ Building'
        BY <1>2, <2>2, CtorTypes DEF Segments, Building, Started
    <2>4. segs' \in Nat /\ InPlace'
        BY <1>2, <2>2 DEF InPlace, SysvSteps
    <2> QED
        BY <1>2, <2>2, <2>3, <2>4, StepKeeps
<1>3. CASE shmget0
    BY <1>1, <1>2, <1>3 DEF shmget0, In, Started
<1>4. CASE shmget("shmget1", "whole", "shmget2")
    BY <1>1, <1>2, <1>4 DEF shmget, In, Started
<1>5. CASE shmget("shmget2", "data", "shmat1")
    BY <1>1, <1>2, <1>5 DEF shmget, In, Started
<1> QED
    BY <1>3, <1>4, <1>5

LEMMA SysvWhole ==
    ASSUME VInv, shmat1 \/ shmdt PROVE VInv'
<1> USE DEF VInv, VTypeOK
<1>1. CASE shmat1
    <2>0. ctor.pc = "shmat1" /\ kind = "sysv"
        BY <1>1 DEF shmat1, In
    <2>1. ASSUME NEW whats, Failed({}, whats) PROVE VInv'
        BY <2>1, FailureKeeps
    <2>2. ASSUME NEW c \in Fit(4), mem' = Mapped([d \in c .. c + 3 |-> <<segs, "whole">>]),
                 ctor' = [ctor EXCEPT !.pc = "shmdt", !.first = c], UNCHANGED <<kind, segs, bufs>>
          PROVE  VInv'
        <3>1. c \in Cells /\ c + 3 \in Cells /\ \A d \in c .. c + 3 : mem[d] = Free
            BY BoundsAssumption DEF Fit, Cells
        <3>0. c \in Nat /\ \A d \in c .. c + 3 : d \in Cells
            BY <3>1, BoundsAssumption DEF Cells
        <3>2. Goes("shmdt", c, ctor.second)
            BY <2>2, <3>0, GoesOn
        <3>3. mem' \in [Cells -> Nat \X CellTags] /\ \A d \in Cells :
                 mem'[d] = IF d \in c .. c + 3 THEN <<segs, "whole">> ELSE mem[d]
            <4> DEFINE f == [d \in c .. c + 3 |-> <<segs, "whole">>]
            <4>1. DOMAIN f = c .. c + 3 /\ (\A d \in c .. c + 3 : f[d] = <<segs, "whole">>)
                  /\ \A d \in DOMAIN f : f[d] \in Nat \X CellTags
                BY DEF CellTags
            <4> HIDE DEF f
            <4>2. mem' = Mapped(f)
                BY <2>2 DEF f
            <4>3. mem' \in [Cells -> Nat \X CellTags] /\ \A d \in Cells : mem'[d] = IF d \in DOMAIN f THEN f[d] ELSE mem[d]
                BY <4>1, <4>2, CellTypes
            <4> QED
                BY <4>1, <4>3
        <3>4. InPlace' /\ Segments'
            BY <2>0, <2>2, <3>2 DEF InPlace, Goes, SysvSteps, Segments, Started
        <3>6. Building'
            <4>1. ctor'.first = c /\ segs' = segs /\ \A i \in 0 .. 3 : c + i \in c .. c + 3
                BY <2>2, <3>0, <3>2 DEF Goes
            <4>2. \A i \in 0 .. 3 : Has(i, "whole")'
                BY <3>0, <3>3, <4>1 DEF Has
            <4> QED
                BY <3>2, <4>2 DEF Building, Goes
        <3>7. ctor' \in CTOR
            BY <3>2, InFields DEF SysvSteps
        <3>8. \A d \in Cells : mem'[d] = mem[d] \/ mem[d] \in {Free, Foreign} \/ Own(d)
            BY <3>1, <3>3
        <3> QED
            BY <2>2, <3>3, <3>4, <3>6, <3>7, <3>8, StepKeeps
    <2> QED
        BY <1>1, <2>1, <2>2 DEF shmat1
<1>2. CASE shmdt
    <2>1. ctor.pc = "shmdt" /\ mem' = Unmapped(ctor.first .. ctor.first + 3) /\ To("shmat2") /\ UNCHANGED <<kind, segs, bufs>>
        BY <1>2 DEF shmdt, In
    <2>2. kind = "sysv" /\ Started /\ \A i \in 0 .. 3 : ctor.first + i \in Cells
        BY <2>1, FourPlaces
    <2>3. Goes("shmat2", ctor.first, ctor.second)
        BY <2>1, GoesOn
    <2>4. mem' \in [Cells -> Nat \X CellTags] /\ \A d \in Cells :
             mem'[d] = IF d \in ctor.first .. ctor.first + 3 THEN Free ELSE mem[d]
        <3> DEFINE S == ctor.first .. ctor.first + 3
        <3> HIDE DEF S
        <3>1. mem' = Unmapped(S)
            BY <2>1 DEF S
        <3>2. mem' \in [Cells -> Nat \X CellTags] /\ \A d \in Cells : mem'[d] = IF d \in S THEN Free ELSE mem[d]
            BY <3>1, CellTypes
        <3> QED
            BY <3>2 DEF S
    <2>5. InPlace' /\ Segments'
        BY <2>1, <2>2, <2>3 DEF InPlace, Goes, SysvSteps, Segments, Started
    <2>9. Building'
        BY <2>2, <2>3 DEF Building, Goes
    <2>10. ctor' \in CTOR
        BY <2>3, InFields DEF SysvSteps
    <2>11. ASSUME NEW d \in ctor.first .. ctor.first + 3 PROVE Own(d)
        <3>1. d = ctor.first \/ d = ctor.first + 1 \/ d = ctor.first + 2 \/ d = ctor.first + 3
            BY CtorTypes
        <3> QED
            BY <2>1, <3>1 DEF Own
    <2> QED
        BY <2>1, <2>4, <2>5, <2>9, <2>10, <2>11, StepKeeps
<1> QED
    BY <1>1, <1>2

LEMMA AttachOne ==
    ASSUME VInv, NEW c \in Cells, NEW what \in {"data", "guard"}, mem' = Mapped(At_(c, what))
    PROVE  /\ mem' \in [Cells -> Nat \X CellTags]
           /\ \A d \in Cells : mem'[d] = IF d = c THEN <<segs, what>> ELSE mem[d]
<1> DEFINE f == At_(c, what)
<1>1. DOMAIN f = {c} /\ f[c] = <<segs, what>> /\ \A d \in DOMAIN f : f[d] \in Nat \X CellTags
    BY CtorTypes DEF At_, CellTags, VInv
<1> QED
    BY <1>1, CellTypes DEF VInv

\* One attach, at any of the four places.
LEMMA AttachGoesOn ==
    ASSUME VInv, NEW i \in 0 .. 2, NEW what \in {"data", "guard"},
           mem[ctor.first + i] = Free, mem' = Mapped(At_(ctor.first + i, what)),
           NEW next \in {"shmat3", "shmat4", "shmat5"}, To(next), UNCHANGED <<kind, segs, bufs>>,
           \/ i = 0 /\ ctor.pc = "shmat2" /\ what = "guard" /\ next = "shmat3"
           \/ i = 1 /\ ctor.pc = "shmat3" /\ what = "data" /\ next = "shmat4"
           \/ i = 2 /\ ctor.pc = "shmat4" /\ what = "data" /\ next = "shmat5"
    PROVE  VInv'
<1> DEFINE c == ctor.first + i
<1>0. ctor.first \in Nat /\ ctor.first + 0 = ctor.first
    BY CtorTypes DEF VInv
<1>1. /\ c \in Cells /\ kind = "sysv" /\ Started /\ (\A k \in 0 .. 3 : ctor.first + k \in Cells)
      /\ \A k \in 0 .. 3 : k # i => ctor.first + k # c
    BY FourPlaces
<1>2. mem' \in [Cells -> Nat \X CellTags] /\ \A d \in Cells : mem'[d] = IF d = c THEN <<segs, what>> ELSE mem[d]
    BY <1>1, AttachOne
<1>3. Goes(next, ctor.first, ctor.second)
    BY GoesOn DEF VInv
<1>4. ctor'.pc = next /\ ctor'.first = ctor.first
    BY <1>3 DEF Goes
<1>5. InPlace' /\ Segments'
    BY <1>1, <1>4 DEF InPlace, SysvSteps, Segments, Started, VInv, VTypeOK
<1>6. ctor' \in CTOR
    BY <1>3, InFields DEF SysvSteps
<1>7. \A k \in 0 .. 3 : mem'[ctor.first + k] = IF k = i THEN <<segs, what>> ELSE mem[ctor.first + k]
    BY <1>1, <1>2
<1> HIDE DEF c
<1>10. \A k \in 0 .. 3 : \A w : Has(k, w)' <=> IF k = i THEN w = what ELSE Has(k, w)
    <2>1. segs' = segs /\ segs \in Nat /\ \A k \in 0 .. 3 : ctor.first + k \in Cells
        BY <1>1, CtorTypes DEF VInv
    <2>2. \A w : <<segs, what>> = <<segs, w>> <=> w = what
        OBVIOUS
    <2> SUFFICES ASSUME NEW k \in 0 .. 3, NEW w PROVE Has(k, w)' <=> IF k = i THEN w = what ELSE Has(k, w)
        OBVIOUS
    <2>3. Has(k, w)' <=> mem'[ctor.first + k] = <<segs, w>>
        BY <1>4, <2>1 DEF Has
    <2>4. Has(k, w) <=> mem[ctor.first + k] = <<segs, w>>
        BY <2>1 DEF Has
    <2> QED
        BY <1>7, <2>2, <2>3, <2>4
<1>11. Building'
    BY <1>1, <1>4, <1>10 DEF Building, VInv
<1>12. \A d \in Cells : mem'[d] = mem[d] \/ mem[d] \in {Free, Foreign} \/ Own(d)
    BY <1>2 DEF c
<1> QED
    BY <1>2, <1>5, <1>6, <1>11, <1>12, CtorTypes, StepKeeps DEF VInv

LEMMA SysvAttaches ==
    ASSUME VInv,
           \/ shmat(0, "guard", "shmat2", "shmat3") \/ shmat(1, "data", "shmat3", "shmat4")
           \/ shmat(2, "data", "shmat4", "shmat5") \/ shmat(3, "guard", "shmat5", "done")
    PROVE  VInv'
<1>0. ctor.first \in Nat /\ ctor.first + 0 = ctor.first
    BY CtorTypes DEF VInv
<1>1. ASSUME NEW i \in 0 .. 3, ctor.pc = CASE i = 0 -> "shmat2" [] i = 1 -> "shmat3" [] i = 2 -> "shmat4" [] i = 3 -> "shmat5",
             Failed(Undone(i), {"guard", "data"})
      PROVE  VInv'
    <2>1. \A c \in Undone(i) : Own(c)
        <3>1. CASE i = 0
            BY <3>1 DEF Undone
        <3>2. CASE i = 1
            <4>1. \A c \in Undone(i) : c = ctor.first
                BY <1>0, <3>2 DEF Undone
            <4> QED
                BY <1>1, <3>2, <4>1 DEF Own
        <3>3. CASE i = 2
            <4>1. \A c \in Undone(i) : c = ctor.first + 1
                BY <3>3 DEF Undone
            <4> QED
                BY <1>1, <3>3, <4>1 DEF Own
        <3>4. CASE i = 3
            <4>1. \A c \in Undone(i) : c = ctor.first \/ c = ctor.first + 1 \/ c = ctor.first + 2
                <5> SUFFICES ASSUME NEW j \in 0 .. 2
                             PROVE  LET c == ctor.first + j IN c = ctor.first \/ c = ctor.first + 1 \/ c = ctor.first + 2
                    BY <3>4 DEF Undone
                <5> QED
                    BY <1>0
            <4> QED
                BY <1>1, <3>4, <4>1 DEF Own
        <3> QED
            BY <3>1, <3>2, <3>3, <3>4
    <2> QED
        BY <1>1, <2>1, FailureKeeps
<1>2. CASE shmat(0, "guard", "shmat2", "shmat3")
    BY <1>1, <1>2, AttachGoesOn DEF shmat, In
<1>3. CASE shmat(1, "data", "shmat3", "shmat4")
    BY <1>1, <1>3, AttachGoesOn DEF shmat, In
<1>4. CASE shmat(2, "data", "shmat4", "shmat5")
    BY <1>1, <1>4, AttachGoesOn DEF shmat, In
<1>5. CASE shmat(3, "guard", "shmat5", "done")
    <2>0. ctor.pc = "shmat5"
        BY <1>5 DEF shmat, In
    <2>1. ASSUME mem[ctor.first + 3] = Free, mem' = Mapped(At_(ctor.first + 3, "guard")),
                 HandedOut(ctor.first + 1), UNCHANGED <<kind, segs>>
          PROVE  VInv'
        <3>1. /\ kind = "sysv" /\ Started /\ (\A k \in 0 .. 3 : ctor.first + k \in Cells)
              /\ \A k \in 0 .. 2 : ctor.first + k # ctor.first + 3
            BY <2>0, FourPlaces
        <3>2. mem' \in [Cells -> Nat \X CellTags] /\ \A d \in Cells : mem'[d] = IF d = ctor.first + 3 THEN <<segs, "guard">> ELSE mem[d]
            BY <2>1, <3>1, AttachOne
        <3>3. Has(0, "guard") /\ Has(1, "data") /\ Has(2, "data")
            BY <2>0 DEF VInv, Building
        <3> DEFINE base == ctor.first + 1
        <3>4. base - 1 = ctor.first + 0 /\ base + 1 = ctor.first + 2 /\ base + 2 = ctor.first + 3 /\ base \in Nat
            BY <1>0
        <3>5. /\ mem'[base] = <<segs, "data">> /\ mem'[base + 1] = <<segs, "data">>
              /\ mem'[base - 1] = <<segs, "guard">> /\ mem'[base + 2] = <<segs, "guard">>
            BY <3>1, <3>2, <3>3, <3>4 DEF Has
        <3>6. base \in Cells /\ base + 1 \in Cells /\ base - 1 \in Cells /\ base + 2 \in Cells
            BY <3>1, <3>4
        <3>7. HandedOut(base) /\ \A d \in Cells : mem'[d] = mem[d] \/ mem[d] \in {Free, Foreign}
            BY <2>1, <3>2
        <3> HIDE DEF base
        <3> QED
            BY <2>1, <3>1, <3>2, <3>4, <3>5, <3>6, <3>7, HandOver
    <2> QED
        BY <1>1, <1>5, <2>1 DEF shmat, In
<1> QED
    BY <1>2, <1>3, <1>4, <1>5

LEMMA FreeKeeps ==
    ASSUME VInv, NEW b \in bufs, FreeBuffer(b) PROVE VInv'
<1>1. /\ ctor = Idle /\ UNCHANGED <<kind, held, segs, ctor>>
      /\ mem' = Unmapped(Extent(b)) /\ bufs' = bufs \ {b}
    BY DEF FreeBuffer
<1>2. mem' \in [Cells -> Nat \X CellTags] /\ \A c \in Cells : mem'[c] = IF c \in Extent(b) THEN Free ELSE mem[c]
    <2> DEFINE S == Extent(b)
    <2> HIDE DEF S
    <2>1. mem' = Unmapped(S)
        BY <1>1 DEF S
    <2> QED
        BY <2>1, CellTypes DEF VInv, S
<1>3. ASSUME NEW d \in bufs', NEW c \in Extent(d) PROVE mem'[c] = mem[c]
    <2>1. d \in bufs /\ d # b
        BY <1>1, <1>3
    <2>2. c \in Cells /\ c \notin Extent(b)
        BY <1>3, <2>1, OfTheBuffer
    <2> QED
        BY <1>2, <2>2
<1>4. Mirrored' /\ Within'
    BY <1>1, <1>3, MirrorKept
<1>5. ctor.pc = "idle" /\ ctor'.pc = "idle"
    BY <1>1, IdleFields
<1>6. VTypeOK' /\ Segments' /\ Building'
    BY <1>1, <1>2, <1>5 DEF VInv, VTypeOK, InPlace, Segments, Building, Started
<1> QED
    BY <1>4, <1>6 DEF VInv

LEMMA OthersKeep ==
    ASSUME VInv, ForeignMap \/ ForeignUnmap PROVE VInv'
<1>1. PICK c \in Cells, v \in {Free, Foreign} :
          /\ mem' = [mem EXCEPT ![c] = v] /\ mem[c] \in {Free, Foreign} /\ v # mem[c]
    <2>1. CASE ForeignMap
        <3>1. PICK c \in Fit(1) : mem' = [mem EXCEPT ![c] = Foreign]
            BY <2>1 DEF ForeignMap
        <3>2. c \in Cells /\ mem[c] = Free /\ Free # Foreign
            BY <3>1, BoundsAssumption DEF Fit, Cells, Free, Foreign
        <3> QED
            BY <3>1, <3>2
    <2>2. CASE ForeignUnmap
        <3>1. PICK c \in ForeignCells : mem' = [mem EXCEPT ![c] = Free]
            BY <2>2 DEF ForeignUnmap
        <3>2. c \in Cells /\ mem[c] = Foreign /\ Free # Foreign
            BY <3>1 DEF ForeignCells, Free, Foreign
        <3> QED
            BY <3>1, <3>2
    <2> QED
        BY <2>1, <2>2
<1>2. UNCHANGED <<kind, held, segs, ctor, bufs>>
    BY DEF ForeignMap, ForeignUnmap
<1>3. mem' \in [Cells -> Nat \X CellTags] /\ \A d \in Cells : mem'[d] = IF d = c THEN v ELSE mem[d]
    BY <1>1 DEF VInv, VTypeOK, Free, Foreign, CellTags
<1>4. \A d \in Cells : mem'[d] = mem[d] \/ mem[d] \in {Free, Foreign} \/ Own(d)
    BY <1>1, <1>3
<1>5. InPlace' /\ Segments'
    BY <1>2 DEF VInv, VTypeOK, InPlace, Segments, Started
<1>6. Building'
    <2>1. \A d \in Cells : mem[d] \notin {Free, Foreign} => mem'[d] = mem[d]
        BY <1>1, <1>3
    <2>2. ASSUME NEW i, NEW w \in {"data", "rest", "guard", "whole"}, Has(i, w) PROVE Has(i, w)'
        <3>1. ctor.first + i \in Cells /\ mem[ctor.first + i] = <<segs, w>> /\ <<segs, w>> \notin {Free, Foreign}
            BY <2>2 DEF Has, Free, Foreign
        <3> QED
            BY <1>2, <2>1, <3>1 DEF Has
    <2>3. \A i : /\ Has(i, "data") => Has(i, "data")'
                 /\ Has(i, "rest") => Has(i, "rest")'
                 /\ Has(i, "guard") => Has(i, "guard")'
                 /\ Has(i, "whole") => Has(i, "whole")'
        BY <2>2
    <2>4. ctor.pc = "check" => mem'[ctor.second] = <<segs, "data">>
        <3> SUFFICES ASSUME ctor.pc = "check" PROVE mem'[ctor.second] = <<segs, "data">>
            OBVIOUS
        <3>1. ctor.second \in Cells /\ mem[ctor.second] = <<segs, "data">> /\ <<segs, "data">> \notin {Free, Foreign}
            BY DEF VInv, Building, Free, Foreign
        <3> QED
            BY <2>1, <3>1
    <2>5. Contiguous' = Contiguous
        BY <1>2 DEF Contiguous
    <2> QED
        BY <1>2, <2>3, <2>4, <2>5 DEF VInv, Building
<1>8. ctor' \in CTOR /\ segs' \in Nat
    BY <1>2 DEF VInv, VTypeOK
<1> QED
    BY <1>2, <1>3, <1>4, <1>5, <1>6, <1>8, StepKeeps

LEMMA CircInit == VInit => VInv
<1> SUFFICES ASSUME VInit PROVE VInv
    OBVIOUS
<1>1. ctor = Idle /\ ctor.pc = "idle" /\ ctor \in CTOR /\ bufs = {} /\ segs = 0
    BY IdleFields DEF VInit
<1>2. mem \in [Cells -> Nat \X CellTags]
    BY DEF VInit, Free, CellTags
<1>3. VTypeOK
    BY <1>1, <1>2 DEF VTypeOK, InPlace, VInit
<1> QED
    BY <1>1, <1>3 DEF VInv, Segments, Within, Building, Mirrored, Started

LEMMA CircNext ==
    ASSUME VInv, ~Misplaced', [VNext]_vmvars PROVE VInv'
<1>1. CASE UNCHANGED vmvars
    <2>1. UNCHANGED <<kind, mem, held, segs, ctor, bufs>>
        BY <1>1 DEF vmvars
    <2>2. (\A b : Extent(b)' = Extent(b)) /\ (\A i, w : Has(i, w)' = Has(i, w))
        BY <2>1 DEF Extent, Has
    <2>3. VTypeOK' /\ Segments' /\ Within' /\ Mirrored'
        BY <2>1, <2>2 DEF VInv, VTypeOK, InPlace, Segments, Within, Mirrored, Started
    <2>4. Building'
        BY <2>1, <2>2 DEF VInv, Building, Contiguous
    <2> QED
        BY <2>3, <2>4 DEF VInv
<1>2. CASE VNext
    BY <1>2, FileBegins, FileMaps, FileEnds, SysvBegins, SysvWhole, SysvAttaches, FreeKeeps, OthersKeep
    DEF VNext, sysv
<1> QED
    BY <1>1, <1>2

\* What has gone wrong is not forgotten.
LEMMA MishapsStay ==
    ASSUME [VNext]_vmvars
    PROVE  mishaps \subseteq mishaps' /\ (Misplaced => Misplaced')
<1>1. mishaps \subseteq mishaps'
    <2>1. \A cells, whats : Failed(cells, whats) => mishaps \subseteq mishaps'
        BY DEF Failed
    <2>2. mmap2 => mishaps \subseteq mishaps'
        BY <2>1 DEF mmap2
    <2>3. \A i, what, call, next : shmat(i, what, call, next) => mishaps \subseteq mishaps'
        BY <2>1 DEF shmat
    <2>4. \A call, what, next : shmget(call, what, next) => mishaps \subseteq mishaps'
        BY <2>1 DEF shmget
    <2>5. sysv => mishaps \subseteq mishaps'
        BY <2>1, <2>3, <2>4 DEF sysv, shmget0, shmat1, shmdt
    <2>6. open_file \/ unlink \/ ftruncate1 \/ mmap1 \/ munmap1 => mishaps \subseteq mishaps'
        BY <2>1 DEF open_file, unlink, ftruncate1, mmap1, munmap1
    <2>7. check \/ ftruncate2 \/ shm_unlink => mishaps \subseteq mishaps'
        BY <2>1 DEF check, ftruncate2, shm_unlink
    <2>8. MakeBuffer \/ ForeignMap \/ ForeignUnmap \/ (\E b \in bufs : FreeBuffer(b)) => mishaps \subseteq mishaps'
        BY DEF MakeBuffer, ForeignMap, ForeignUnmap, FreeBuffer
    <2> QED
        BY <2>2, <2>5, <2>6, <2>7, <2>8 DEF VNext, vmvars
<1> QED
    BY <1>1 DEF Misplaced

-----------------------------------------------------------------------------
(***************************************************************************)
(* What is left behind.  Every cell is free, another's, a buffer's, the      *)
(* constructor's or forgotten by the handler of a failed call; and so is     *)
(* what is held, but for what the call the constructor is at needs.          *)
(***************************************************************************)

Accounted ==
    \A c \in Cells :
        mem[c] \in {Free, Foreign} \/ Forgotten(mem[c]) \/ Own(c) \/ \E b \in bufs : c \in Extent(b)

\* What the constructor holds besides, when it is about to make a call.
Keeps ==
    CASE ctor.pc = "unlink" -> {"fd", "name"}
      [] ctor.pc \in {"ftruncate1", "mmap1", "munmap1", "mmap2"} ->
             IF kind = "shm" THEN {"fd", "name"} ELSE {"fd"}
      [] ctor.pc \in {"check", "ftruncate2"} -> {"fd"}
      [] ctor.pc = "shm_unlink" -> {"name"}
      [] ctor.pc = "shmget1" -> {"guard"}
      [] ctor.pc = "shmget2" -> {"guard", "whole"}
      [] ctor.pc = "shmat1" -> {"guard", "whole", "data"}
      [] ctor.pc \in {"shmdt", "shmat2", "shmat3", "shmat4", "shmat5"} -> {"guard", "data"}
      [] OTHER -> {}
Holds == \A x \in held : Forgotten(x) \/ x \in Mine(Keeps)

VClean == Accounted /\ Holds

LEMMA Handlers ==
    /\ kind = "tmpfile" => MayStay("unlink") = {"fd", "name"} /\ MayStay("munmap1") = {"data", "rest"}
    /\ kind = "shm" =>
          /\ MayStay("ftruncate1") = {"name"} /\ MayStay("mmap1") = {"name"}
          /\ MayStay("munmap1") = {"name", "data", "rest"}
          /\ MayStay("mmap2") = {"name", "data"} /\ MayStay("shm_unlink") = {"name", "data"}
    /\ kind = "sysv" => MayStay("shmat4") = {"guard"}
  BY DEF MayStay

\* A step that maps or frees, keeps what the constructor has or hands it on, or leaves it to be forgotten.
LEMMA StepCleans ==
    ASSUME VClean, kind' = kind, mishaps \subseteq mishaps', bufs \subseteq bufs',
           \A c \in Cells : \/ mem'[c] = mem[c] \/ mem'[c] \in {Free, Foreign} \/ Own(c)'
                            \/ \E b \in bufs' : c \in Extent(b),
           \A c \in Cells : Own(c) => \/ Own(c)' \/ mem'[c] \in {Free, Foreign}
                                      \/ Forgotten(mem[c])' \/ \E b \in bufs' : c \in Extent(b),
           \A x \in held' : x \in held \/ x \in Mine(Keeps)',
           \A x \in held : x \in Mine(Keeps) => x \notin held' \/ Forgotten(x)' \/ x \in Mine(Keeps)'
    PROVE  VClean'
<1>1. \A x : Forgotten(x) => Forgotten(x)'
    <2>1. \A call : MayStay(call)' = MayStay(call)
        BY DEF MayStay
    <2> QED
        BY <2>1 DEF Forgotten
<1>2. Holds'
    BY <1>1 DEF VClean, Holds
<1>3. \A b : Extent(b)' = Extent(b)
    BY DEF Extent
<1>4. ASSUME NEW c \in Cells
      PROVE  mem'[c] \in {Free, Foreign} \/ Forgotten(mem[c])' \/ Own(c)' \/ \E b \in bufs' : c \in Extent(b)
    <2>1. CASE mem'[c] = mem[c]
        <3>1. Forgotten(mem[c]) => Forgotten(mem[c])'
            <4> SUFFICES ASSUME NEW x, x = mem[c], Forgotten(x) PROVE Forgotten(mem[c])'
                OBVIOUS
            <4>1. Forgotten(x)' /\ x = mem'[c]
                BY <1>1, <2>1
            <4> QED
                BY <4>1 DEF Forgotten
        <3> QED
            BY <2>1, <3>1 DEF VClean, Accounted
    <2> QED
        BY <2>1
<1>5. Accounted'
    BY <1>3, <1>4 DEF Accounted, Free, Foreign
<1> QED
    BY <1>2, <1>5 DEF VClean

\* A call fails: what its handler does not undo is what it is known to forget.
LEMMA FailureCleans ==
    ASSUME VInv, VClean, NEW cells, NEW whats, Failed(cells, whats),
           \A c \in Cells : Own(c) => c \in cells \/ mem[c] \in Mine(MayStay(ctor.pc)),
           Keeps \ whats \subseteq MayStay(ctor.pc)
    PROVE  VClean'
<1>1. /\ mem' = Unmapped(cells) /\ UNCHANGED <<kind, segs, bufs>> /\ held' = held \ Mine(whats)
      /\ mishaps' = mishaps \cup IF MayStay(ctor.pc) = {} THEN {} ELSE {<<segs, ctor.pc>>}
    BY DEF Failed
<1>2. \A c \in Cells : mem'[c] = IF c \in cells THEN Free ELSE mem[c]
    BY <1>1, CellTypes DEF VInv
<1>3. ASSUME NEW x \in Mine(MayStay(ctor.pc)) PROVE Forgotten(x)'
    <2>1. x[1] = segs /\ x[2] \in MayStay(ctor.pc)
        BY DEF Mine
    <2> DEFINE m == <<segs, ctor.pc>>
    <2>2. m \in mishaps' /\ m[1] = x[1] /\ m[2] = ctor.pc
        BY <1>1, <2>1
    <2>3. \A call : MayStay(call)' = MayStay(call)
        BY <1>1 DEF MayStay
    <2> HIDE DEF m
    <2>4. \E n \in mishaps' : n[1] = x[1] /\ x[2] \in MayStay(n[2])
        BY <2>1, <2>2
    <2> QED
        BY <2>3, <2>4 DEF Forgotten
<1>4. ASSUME NEW c \in Cells, Own(c) PROVE mem'[c] \in {Free, Foreign} \/ Forgotten(mem[c])'
    <2>1. CASE c \in cells
        BY <1>2, <2>1
    <2>2. CASE c \notin cells
        <3> SUFFICES ASSUME NEW x, x = mem[c] PROVE Forgotten(mem[c])'
            OBVIOUS
        <3>1. Forgotten(x)' /\ x = mem'[c]
            BY <1>2, <1>3, <1>4, <2>2
        <3> QED
            BY <3>1 DEF Forgotten
    <2> QED
        BY <2>1, <2>2
<1>5. ASSUME NEW x \in held, x \in Mine(Keeps) PROVE x \notin held' \/ Forgotten(x)'
    <2>1. CASE x \in Mine(whats)
        BY <1>1, <2>1
    <2>2. CASE x \notin Mine(whats)
        <3>1. x \in Mine(MayStay(ctor.pc))
            BY <1>5, <2>2 DEF Mine
        <3> QED
            BY <1>3, <3>1
    <2> QED
        BY <2>1, <2>2
<1>6. mishaps \subseteq mishaps' /\ bufs \subseteq bufs' /\ \A x \in held' : x \in held
    BY <1>1
<1> QED
    BY <1>1, <1>2, <1>4, <1>5, <1>6, StepCleans

\* A call succeeds before anything is mapped: the constructor lets go of some of what it holds and may take more.
LEMMA CallCleans ==
    ASSUME VClean, UNCHANGED <<kind, mem, segs, bufs, mishaps>>, \A c : ~Own(c),
           NEW more, held' \subseteq held \cup Mine(more), more \subseteq Keeps',
           \A w \in Keeps : w \in Keeps' \/ <<segs, w>> \notin held'
    PROVE  VClean'
<1>1. \A A : Mine(A)' = Mine(A)
    BY DEF Mine
<1>2. \A x \in held' : x \in held \/ x \in Mine(Keeps)'
    BY DEF Mine
<1>3. \A x \in held : x \in Mine(Keeps) => x \notin held' \/ x \in Mine(Keeps)'
    BY DEF Mine
<1> QED
    BY <1>2, <1>3, StepCleans

LEMMA FileCleans ==
    ASSUME VInv, VClean, MakeBuffer \/ open_file \/ unlink \/ ftruncate1
    PROVE  VClean'
<1> USE DEF VInv, VTypeOK
<1>0. ctor.pc \in {"idle", "open", "unlink", "ftruncate1"}
    BY DEF MakeBuffer, open_file, unlink, ftruncate1, In, Idle
<1>1. \A c : ~Own(c)
    BY <1>0 DEF Own
<1>2. CASE MakeBuffer
    <2>1. UNCHANGED <<kind, mem, held, bufs, segs, mishaps>> /\ ctor = Idle
        BY <1>2 DEF MakeBuffer
    <2>2. Keeps = {}
        BY <2>1, IdleFields DEF Keeps
    <2> QED
        BY <1>1, <2>1, <2>2, CallCleans
<1>3. ASSUME NEW whats, Failed({}, whats), Keeps \ whats \subseteq MayStay(ctor.pc) PROVE VClean'
    BY <1>1, <1>3, FailureCleans
<1>4. CASE open_file
    <2>1. Keeps = {} /\ kind # "sysv"
        BY <1>4 DEF open_file, Keeps
    <2>2. CASE Failed({}, {})
        BY <1>3, <2>1, <2>2
    <2>3. CASE ~Failed({}, {})
        <3>1. /\ segs' = segs + 1 /\ held' = held \cup ({segs'} \X {"fd", "name"}) /\ UNCHANGED <<kind, mem, bufs, mishaps>>
              /\ To(IF kind = "tmpfile" THEN "unlink" ELSE "ftruncate1")
            BY <1>4, <2>3 DEF open_file
        <3>2. ctor'.pc = IF kind = "tmpfile" THEN "unlink" ELSE "ftruncate1"
            BY <3>1, GoesOn DEF Goes
        <3>3. Keeps' = {"fd", "name"}
            BY <2>1, <3>1, <3>2 DEF Keeps, CircKinds
        <3>4. \A x \in held' : x \in held \/ x \in Mine(Keeps)'
            BY <3>1, <3>3 DEF Mine
        <3>5. \A x \in held : x \notin Mine(Keeps)
            BY <2>1 DEF Mine
        <3> QED
            BY <1>1, <3>1, <3>4, <3>5, StepCleans
    <2> QED
        BY <2>2, <2>3
<1>5. CASE unlink
    <2>1. kind = "tmpfile" /\ ctor.pc = "unlink" /\ Keeps = {"fd", "name"}
        BY <1>5 DEF unlink, In, Keeps
    <2>2. CASE Failed({}, {})
        BY <1>3, <2>1, <2>2, Handlers
    <2>3. CASE ~Failed({}, {})
        <3>1. held' = held \ Mine({"name"}) /\ To("ftruncate1") /\ UNCHANGED <<kind, mem, segs, bufs, mishaps>>
            BY <1>5, <2>3 DEF unlink
        <3>2. ctor'.pc = "ftruncate1"
            BY <3>1, GoesOn DEF Goes
        <3>3. Keeps' = {"fd"} /\ <<segs, "name">> \notin held'
            BY <2>1, <3>1, <3>2 DEF Keeps, Mine
        <3> QED
            BY <1>1, <2>1, <3>1, <3>3, CallCleans
    <2> QED
        BY <2>2, <2>3
<1>6. CASE ftruncate1
    <2>1. ctor.pc = "ftruncate1" /\ Keeps = IF kind = "shm" THEN {"fd", "name"} ELSE {"fd"}
        BY <1>6 DEF ftruncate1, Keeps
    <2>2. CASE Failed({}, {"fd"})
        BY <1>3, <2>1, <2>2, Handlers
    <2>3. CASE ~Failed({}, {"fd"})
        <3>1. To("mmap1") /\ UNCHANGED <<kind, mem, held, segs, bufs, mishaps>>
            BY <1>6, <2>3 DEF ftruncate1
        <3>2. ctor'.pc = "mmap1"
            BY <3>1, GoesOn DEF Goes
        <3>3. Keeps' = Keeps
            BY <2>1, <3>1, <3>2 DEF Keeps
        <3> QED
            BY <1>1, <3>1, <3>3, CallCleans
    <2> QED
        BY <2>2, <2>3
<1> QED
    BY <1>2, <1>4, <1>5, <1>6

\* A call succeeds in the midst of the mapping: the constructor's cells stay its own, are freed, or are handed on.
LEMMA MapStepCleans ==
    ASSUME VClean, UNCHANGED <<kind, segs>>, mishaps \subseteq mishaps', bufs \subseteq bufs', held' \subseteq held,
           \A c \in Cells : \/ mem'[c] = mem[c] \/ mem'[c] \in {Free, Foreign} \/ Own(c)'
                            \/ \E b \in bufs' : c \in Extent(b),
           \A c \in Cells : Own(c) => Own(c)' \/ mem'[c] \in {Free, Foreign} \/ \E b \in bufs' : c \in Extent(b),
           \A w \in Keeps : w \in Keeps' \/ <<segs, w>> \notin held'
    PROVE  VClean'
<1>1. \A x \in held : x \in Mine(Keeps) => x \notin held' \/ x \in Mine(Keeps)'
    BY DEF Mine
<1> QED
    BY <1>1, StepCleans

LEMMA MapCleans ==
    ASSUME VInv, VClean, mmap1 \/ munmap1 \/ mmap2
    PROVE  VClean'
<1> USE DEF VInv, VTypeOK
<1>0. kind # "sysv" /\ ctor.pc \in {"mmap1", "munmap1", "mmap2"}
    BY DEF mmap1, munmap1, mmap2, InPlace, SysvSteps
<1>1. Keeps = IF kind = "shm" THEN {"fd", "name"} ELSE {"fd"}
    BY <1>0 DEF Keeps
<1>2. kind \in {"tmpfile", "shm"} /\ ctor.first \in Nat /\ ctor.first + 0 = ctor.first
    BY <1>0, CtorTypes DEF CircKinds
<1>3. CASE mmap1
    <2>0. ctor.pc = "mmap1" /\ \A c : ~Own(c)
        BY <1>3 DEF Own, mmap1
    <2>1. CASE Failed({}, {"fd"})
        <3>1. Keeps \ {"fd"} \subseteq MayStay(ctor.pc)
            BY <1>1, <2>0, Handlers
        <3> QED
            BY <2>0, <2>1, <3>1, FailureCleans
    <2>2. ASSUME NEW c \in Fit(2), mem' = [Mapped(At_(c, "data")) EXCEPT ![c + 1] = <<segs, "rest">>],
                 ctor' = [ctor EXCEPT !.pc = "munmap1", !.first = c], UNCHANGED <<kind, held, segs, bufs, mishaps>>
          PROVE  VClean'
        <3>1. c \in Cells /\ c \in Nat
            BY DEF Fit, Cells
        <3>2. ctor'.pc = "munmap1" /\ ctor'.first = c
            BY <2>2, <3>1, GoesOn DEF Goes
        <3>3. \A d \in Cells : mem'[d] = mem[d] \/ d \in {c, c + 1}
            <4> DEFINE f == At_(c, "data")
            <4>1. DOMAIN f = {c}
                BY DEF At_
            <4> DEFINE g == Mapped(f)
            <4>2. \A d \in Cells : g[d] = IF d \in DOMAIN f THEN f[d] ELSE mem[d]
                BY CellTypes
            <4>3. DOMAIN g = Cells /\ mem' = [g EXCEPT ![c + 1] = <<segs, "rest">>]
                BY <2>2 DEF Mapped
            <4> HIDE DEF f, g
            <4> QED
                BY <4>1, <4>2, <4>3
        <3>4. \A d \in {c, c + 1} : Own(d)'
            BY <3>2 DEF Own
        <3>5. Keeps' = Keeps
            BY <1>1, <2>2, <3>2 DEF Keeps
        <3> QED
            BY <2>0, <2>2, <3>3, <3>4, <3>5, MapStepCleans
    <2> QED
        BY <1>3, <2>1, <2>2 DEF mmap1
<1>4. CASE munmap1
    <2>0. ctor.pc = "munmap1" /\ \A c : Own(c) <=> c \in {ctor.first, ctor.first + 1}
        BY <1>4 DEF munmap1, Own
    <2>1. CASE Failed({}, {"fd"})
        <3>1. Keeps \ {"fd"} \subseteq MayStay(ctor.pc) /\ {"data", "rest"} \subseteq MayStay(ctor.pc)
            BY <1>1, <1>2, <2>0, Handlers
        <3>2. mem[ctor.first] = <<segs, "data">> /\ mem[ctor.first + 1] = <<segs, "rest">>
            BY <1>2, <2>0 DEF Building, Has
        <3>3. \A c \in Cells : Own(c) => mem[c] \in Mine(MayStay(ctor.pc))
            BY <2>0, <3>1, <3>2 DEF Mine
        <3> QED
            BY <2>1, <3>1, <3>3, FailureCleans
    <2>2. CASE mem' = Unmapped({ctor.first + 1}) /\ To("mmap2") /\ UNCHANGED <<kind, held, segs, bufs, mishaps>>
        <3>1. ctor'.pc = "mmap2" /\ ctor'.first = ctor.first
            BY <2>2, GoesOn DEF Goes
        <3>2. \A d \in Cells : mem'[d] = IF d = ctor.first + 1 THEN Free ELSE mem[d]
            BY <2>2, CellTypes
        <3>3. \A d : Own(d) => d = ctor.first + 1 \/ Own(d)'
            BY <2>0, <3>1 DEF Own
        <3>4. Keeps' = Keeps
            BY <1>1, <2>2, <3>1 DEF Keeps
        <3> QED
            BY <2>2, <3>2, <3>3, <3>4, MapStepCleans
    <2> QED
        BY <1>4, <2>1, <2>2 DEF munmap1
<1>5. CASE mmap2
    <2>0. ctor.pc = "mmap2" /\ \A c : Own(c) <=> c = ctor.first
        BY <1>5 DEF mmap2, Own
    <2>1. CASE Failed(IF kind = "tmpfile" THEN {ctor.first} ELSE {}, {"fd"})
        <3>1. Keeps \ {"fd"} \subseteq MayStay(ctor.pc) /\ (kind = "shm" => "data" \in MayStay(ctor.pc))
            BY <1>1, <1>2, <2>0, Handlers
        <3>2. mem[ctor.first] = <<segs, "data">>
            BY <1>2, <2>0 DEF Building, Has
        <3>3. \A c \in Cells : Own(c) => c \in (IF kind = "tmpfile" THEN {ctor.first} ELSE {}) \/ mem[c] \in Mine(MayStay(ctor.pc))
            BY <1>2, <2>0, <3>1, <3>2 DEF Mine
        <3> DEFINE cells == IF kind = "tmpfile" THEN {ctor.first} ELSE {}
        <3>4. Failed(cells, {"fd"}) /\ \A c \in Cells : Own(c) => c \in cells \/ mem[c] \in Mine(MayStay(ctor.pc))
            BY <2>1, <3>3
        <3> HIDE DEF cells
        <3> QED
            BY <3>1, <3>4, FailureCleans
    <2> DEFINE places == IF mem[ctor.first + 1] = Free THEN {ctor.first + 1} ELSE Fit(1)
    <2>2. ASSUME NEW c \in places, mem' = Mapped(At_(c, "data")), UNCHANGED <<kind, segs, bufs>>, mishaps \subseteq mishaps',
                 ctor' = [ctor EXCEPT !.pc = IF kind = "tmpfile" THEN "check" ELSE "shm_unlink", !.second = c],
                 held' = IF kind = "tmpfile" THEN held ELSE held \ Mine({"fd"})
          PROVE  VClean'
        <3>1. c \in Nat
            BY <1>2 DEF Fit, Cells
        <3> DEFINE p == IF kind = "tmpfile" THEN "check" ELSE "shm_unlink"
        <3>2. ctor'.pc = p /\ ctor'.first = ctor.first /\ ctor'.second = c
            BY <2>2, <3>1, GoesOn DEF Goes
        <3>3. \A d \in Cells : mem'[d] = mem[d] \/ d = c
            <4> DEFINE f == At_(c, "data")
            <4>1. DOMAIN f = {c}
                BY DEF At_
            <4> QED
                BY <2>2, <4>1, CellTypes
        <3>4. \A d : Own(d)' <=> d \in {ctor.first, c}
            BY <3>2 DEF Own
        <3>5. Keeps' = IF kind = "tmpfile" THEN {"fd"} ELSE {"name"}
            BY <1>2, <2>2, <3>2 DEF Keeps
        <3>6. held' \subseteq held /\ (kind = "shm" => <<segs, "fd">> \notin held')
            BY <2>2 DEF Mine
        <3>7. \A w \in Keeps : w \in Keeps' \/ <<segs, w>> \notin held'
            BY <1>1, <1>2, <3>5, <3>6
        <3> QED
            BY <2>0, <2>2, <3>3, <3>4, <3>6, <3>7, MapStepCleans
    <2>3. \A c : (mishaps' = IF kind = "shm" /\ c # ctor.first + 1
                             THEN mishaps \cup {<<segs, "elsewhere">>} ELSE mishaps) => mishaps \subseteq mishaps'
        OBVIOUS
    <2> QED
        BY <1>5, <2>1, <2>2, <2>3 DEF mmap2
<1> QED
    BY <1>3, <1>4, <1>5

\* A buffer handed out has all that the constructor had.
LEMMA HandOverCleans ==
    ASSUME VInv, VClean, NEW base \in Nat, HandedOut(base), UNCHANGED <<kind, segs, mishaps>>, held' \subseteq held,
           \A w \in Keeps : <<segs, w>> \notin held',
           \A c \in Cells : mem'[c] = mem[c] \/ c \in Extent([seg |-> segs, base |-> base]),
           \A c \in Cells : Own(c) => c \in Extent([seg |-> segs, base |-> base])
    PROVE  VClean'
<1>1. bufs' = bufs \cup {[seg |-> segs, base |-> base]}
    BY CtorTypes DEF HandedOut, Made, VInv
<1> QED
    BY <1>1, MapStepCleans

LEMMA EndCleans ==
    ASSUME VInv, VClean, check \/ ftruncate2 \/ shm_unlink
    PROVE  VClean'
<1> USE DEF VInv, VTypeOK
<1>0. ctor.pc \in {"check", "ftruncate2", "shm_unlink"} /\ kind # "sysv" /\ ctor.first \in Nat /\ ctor.first + 0 = ctor.first
    BY CtorTypes DEF check, ftruncate2, shm_unlink, In
<1>1. \A c : Own(c) <=> c \in {ctor.first, ctor.second}
    BY <1>0 DEF Own
<1>2. ASSUME Failed({ctor.first, ctor.second}, {"fd"}), ctor.pc \in {"check", "ftruncate2"} PROVE VClean'
    <2>1. Keeps = {"fd"}
        BY <1>2 DEF Keeps
    <2> QED
        BY <1>1, <1>2, <2>1, FailureCleans
<1>3. ASSUME HandedOut(ctor.first), UNCHANGED <<kind, mem, segs, mishaps>>, ctor.pc \in {"ftruncate2", "shm_unlink"},
             held' \subseteq held, \A w \in Keeps : <<segs, w>> \notin held'
      PROVE  VClean'
    <2>1. ctor.second = ctor.first + 1
        BY <1>3 DEF Building, Contiguous
    <2>2. \A c : Own(c) => c \in Extent([seg |-> segs, base |-> ctor.first])
        BY <1>0, <1>1, <2>1 DEF Extent
    <2> QED
        BY <1>0, <1>3, <2>2, HandOverCleans
<1>4. CASE check
    <2>1. ctor.pc = "check"
        BY <1>4 DEF check, In
    <2>2. CASE To("ftruncate2") /\ UNCHANGED <<kind, mem, held, segs, bufs, mishaps>>
        <3>1. ctor'.pc = "ftruncate2" /\ ctor'.first = ctor.first /\ ctor'.second = ctor.second
            BY <2>2, GoesOn DEF Goes
        <3>2. \A c : Own(c)' <=> Own(c)
            BY <2>1, <3>1 DEF Own
        <3>3. Keeps' = Keeps
            BY <2>1, <3>1 DEF Keeps
        <3> QED
            BY <2>2, <3>2, <3>3, MapStepCleans
    <2> QED
        BY <1>2, <1>4, <2>1, <2>2 DEF check
<1>5. CASE ftruncate2
    <2>1. ctor.pc = "ftruncate2" /\ Keeps = {"fd"}
        BY <1>5 DEF ftruncate2, In, Keeps
    <2>2. held' = held \ Mine({"fd"}) => held' \subseteq held /\ \A w \in Keeps : <<segs, w>> \notin held'
        BY <2>1 DEF Mine
    <2> QED
        BY <1>2, <1>3, <1>5, <2>1, <2>2 DEF ftruncate2
<1>6. CASE shm_unlink
    <2>1. ctor.pc = "shm_unlink" /\ Keeps = {"name"} /\ kind = "shm"
        BY <1>6 DEF shm_unlink, In, Keeps
    <2>2. held' = held \ Mine({"name"}) => held' \subseteq held /\ \A w \in Keeps : <<segs, w>> \notin held'
        BY <2>1 DEF Mine
    <2>3. CASE Failed({}, {})
        <3>1. {"name", "data"} \subseteq MayStay(ctor.pc)
            BY <2>1, Handlers
        <3>2. mem[ctor.first] = <<segs, "data">> /\ mem[ctor.first + 1] = <<segs, "data">> /\ ctor.second = ctor.first + 1
            BY <1>0, <2>1 DEF Building, Has, Contiguous
        <3>3. \A c \in Cells : Own(c) => mem[c] \in Mine(MayStay(ctor.pc))
            BY <1>1, <3>1, <3>2 DEF Mine
        <3> QED
            BY <2>1, <2>3, <3>1, <3>3, FailureCleans
    <2> QED
        BY <1>3, <1>6, <2>1, <2>2, <2>3 DEF shm_unlink
<1> QED
    BY <1>4, <1>5, <1>6

LEMMA SysvBeginCleans ==
    ASSUME VInv, VClean,
           shmget0 \/ shmget("shmget1", "whole", "shmget2") \/ shmget("shmget2", "data", "shmat1")
    PROVE  VClean'
<1> USE DEF VInv, VTypeOK
<1>0. ctor.pc \in {"shmget0", "shmget1", "shmget2"} /\ kind = "sysv"
    BY DEF shmget0, shmget, In
<1>1. \A c : ~Own(c)
    BY <1>0 DEF Own
<1>2. ASSUME NEW whats, Failed({}, whats), Keeps \subseteq whats PROVE VClean'
    BY <1>1, <1>2, FailureCleans
<1>3. CASE shmget0
    <2>1. Keeps = {}
        BY <1>3 DEF shmget0, In, Keeps
    <2>2. CASE segs' = segs + 1 /\ held' = held \cup {<<segs', "guard">>} /\ To("shmget1") /\ UNCHANGED <<kind, mem, bufs, mishaps>>
        <3>1. ctor'.pc = "shmget1"
            BY <2>2, GoesOn DEF Goes
        <3>2. Keeps' = {"guard"}
            BY <3>1 DEF Keeps
        <3>3. \A x \in held' : x \in held \/ x \in Mine(Keeps)'
            BY <2>2, <3>2 DEF Mine
        <3>4. \A x \in held : x \notin Mine(Keeps)
            BY <2>1 DEF Mine
        <3> QED
            BY <1>1, <2>2, <3>3, <3>4, StepCleans
    <2> QED
        BY <1>2, <1>3, <2>1, <2>2 DEF shmget0
<1>4. ASSUME NEW w, NEW next, held' = held \cup {<<segs, w>>}, To(next), UNCHANGED <<kind, mem, segs, bufs, mishaps>>,
             \/ ctor.pc = "shmget1" /\ w = "whole" /\ next = "shmget2"
             \/ ctor.pc = "shmget2" /\ w = "data" /\ next = "shmat1"
      PROVE  VClean'
    <2>1. ctor'.pc = next
        BY <1>4, GoesOn DEF Goes
    <2>2. Keeps \subseteq Keeps' /\ w \in Keeps'
        BY <1>4, <2>1 DEF Keeps
    <2>3. held' \subseteq held \cup Mine({w})
        BY <1>4 DEF Mine
    <2> QED
        BY <1>1, <1>4, <2>2, <2>3, CallCleans
<1>5. CASE shmget("shmget1", "whole", "shmget2")
    <2>1. ctor.pc = "shmget1" /\ Keeps \subseteq {"guard", "whole"}
        BY <1>5 DEF shmget, In, Keeps
    <2> QED
        BY <1>2, <1>4, <1>5, <2>1 DEF shmget
<1>6. CASE shmget("shmget2", "data", "shmat1")
    <2>1. ctor.pc = "shmget2" /\ Keeps \subseteq {"guard", "whole"}
        BY <1>6 DEF shmget, In, Keeps
    <2> QED
        BY <1>2, <1>4, <1>6, <2>1 DEF shmget
<1> QED
    BY <1>3, <1>5, <1>6

LEMMA SysvWholeCleans ==
    ASSUME VInv, VClean, shmat1 \/ shmdt
    PROVE  VClean'
<1> USE DEF VInv, VTypeOK
<1>1. CASE shmat1
    <2>0. ctor.pc = "shmat1" /\ Keeps = {"guard", "whole", "data"} /\ (\A c : ~Own(c))
        BY <1>1 DEF shmat1, In, Keeps, Own
    <2>1. CASE Failed({}, {"guard", "whole", "data"})
        BY <2>0, <2>1, FailureCleans
    <2>2. ASSUME NEW c \in Fit(4), mem' = Mapped([d \in c .. c + 3 |-> <<segs, "whole">>]),
                 ctor' = [ctor EXCEPT !.pc = "shmdt", !.first = c], held' = held \ Mine({"whole"}),
                 UNCHANGED <<kind, segs, bufs, mishaps>>
          PROVE  VClean'
        <3>1. c \in Nat
            BY DEF Fit, Cells
        <3>2. ctor'.pc = "shmdt" /\ ctor'.first = c
            BY <2>2, <3>1, GoesOn DEF Goes
        <3>3. \A d \in Cells : mem'[d] = mem[d] \/ d \in c .. c + 3
            <4> DEFINE f == [d \in c .. c + 3 |-> <<segs, "whole">>]
            <4>1. DOMAIN f = c .. c + 3
                OBVIOUS
            <4> HIDE DEF f
            <4>2. mem' = Mapped(f)
                BY <2>2 DEF f
            <4> QED
                BY <4>1, <4>2, CellTypes
        <3>4. ASSUME NEW d \in c .. c + 3 PROVE Own(d)'
            <4>1. d = c \/ d = c + 1 \/ d = c + 2 \/ d = c + 3
                BY <3>1
            <4> QED
                BY <3>2, <4>1 DEF Own
        <3>5. Keeps' = {"guard", "data"} /\ held' \subseteq held /\ <<segs, "whole">> \notin held'
            BY <2>2, <3>2 DEF Keeps, Mine
        <3> QED
            BY <2>0, <2>2, <3>3, <3>4, <3>5, MapStepCleans
    <2> QED
        BY <1>1, <2>1, <2>2 DEF shmat1
<1>2. CASE shmdt
    <2>1. ctor.pc = "shmdt" /\ mem' = Unmapped(ctor.first .. ctor.first + 3) /\ To("shmat2") /\ UNCHANGED <<kind, held, segs, bufs, mishaps>>
        BY <1>2 DEF shmdt, In
    <2>2. ctor'.pc = "shmat2"
        BY <2>1, GoesOn DEF Goes
    <2>3. \A d \in Cells : mem'[d] = IF d \in ctor.first .. ctor.first + 3 THEN Free ELSE mem[d]
        <3> DEFINE S == ctor.first .. ctor.first + 3
        <3> HIDE DEF S
        <3>1. mem' = Unmapped(S)
            BY <2>1 DEF S
        <3>2. \A d \in Cells : mem'[d] = IF d \in S THEN Free ELSE mem[d]
            BY <3>1, CellTypes
        <3> QED
            BY <3>2 DEF S
    <2>4. \A d : Own(d) => d \in ctor.first .. ctor.first + 3
        BY <2>1, CtorTypes DEF Own
    <2>5. Keeps' = Keeps
        BY <2>1, <2>2 DEF Keeps
    <2> QED
        BY <2>1, <2>3, <2>4, <2>5, MapStepCleans
<1> QED
    BY <1>1, <1>2

LEMMA AttachCleans ==
    ASSUME VInv, VClean,
           \/ shmat(0, "guard", "shmat2", "shmat3") \/ shmat(1, "data", "shmat3", "shmat4")
           \/ shmat(2, "data", "shmat4", "shmat5") \/ shmat(3, "guard", "shmat5", "done")
    PROVE  VClean'
<1> USE DEF VInv, VTypeOK
<1>0. /\ ctor.first \in Nat /\ ctor.first + 0 = ctor.first /\ segs \in Nat
      /\ ctor.pc \in {"shmat2", "shmat3", "shmat4", "shmat5"}
      /\ Keeps = {"guard", "data"}
    BY CtorTypes DEF shmat, In, Keeps
<1>1. kind = "sysv" /\ Started /\ segs > 0 /\ (\A i \in 0 .. 3 : ctor.first + i \in Cells)
    BY <1>0, FourPlaces DEF Segments
<1>2. ASSUME NEW i \in 0 .. 2, NEW what \in {"data", "guard"}, mem' = Mapped(At_(ctor.first + i, what)),
             NEW next \in {"shmat3", "shmat4", "shmat5"}, To(next), UNCHANGED <<kind, held, segs, bufs, mishaps>>,
             \/ i = 0 /\ ctor.pc = "shmat2" /\ next = "shmat3"
             \/ i = 1 /\ ctor.pc = "shmat3" /\ next = "shmat4"
             \/ i = 2 /\ ctor.pc = "shmat4" /\ next = "shmat5"
      PROVE  VClean'
    <2>1. ctor'.pc = next /\ ctor'.first = ctor.first
        BY <1>2, GoesOn DEF Goes
    <2>2. \A d \in Cells : mem'[d] = mem[d] \/ d = ctor.first + i
        BY <1>1, <1>2, AttachOne
    <2>3. \A d : Own(d) \/ d = ctor.first + i => Own(d)'
        BY <1>0, <1>2, <2>1 DEF Own
    <2>4. Keeps' = Keeps
        BY <1>0, <1>2, <2>1 DEF Keeps
    <2>5. \A d \in Cells : mem'[d] = mem[d] \/ Own(d)'
        BY <2>2, <2>3
    <2>6. UNCHANGED <<kind, segs, mishaps>> /\ bufs \subseteq bufs' /\ held' \subseteq held
        BY <1>2
    <2> QED
        BY <2>3, <2>4, <2>5, <2>6, MapStepCleans
<1>3. ASSUME ctor.pc = "shmat2", Failed(Undone(0), {"guard", "data"}) PROVE VClean'
    <2>1. \A c : ~Own(c)
        BY <1>3 DEF Own
    <2> QED
        BY <1>0, <1>3, <2>1, FailureCleans
<1>4. ASSUME ctor.pc = "shmat3", Failed(Undone(1), {"guard", "data"}) PROVE VClean'
    <2>1. \A c : Own(c) => c = ctor.first + 0
        BY <1>0, <1>4 DEF Own
    <2>2. ctor.first + 0 \in Undone(1)
        BY DEF Undone
    <2> QED
        BY <1>0, <1>4, <2>1, <2>2, FailureCleans
<1>5. ASSUME ctor.pc = "shmat4", Failed(Undone(2), {"guard", "data"}) PROVE VClean'
    <2>1. \A c : Own(c) => c = ctor.first + 0 \/ c = ctor.first + 1
        BY <1>0, <1>5 DEF Own
    <2>2. ctor.first + 1 \in Undone(2)
        BY DEF Undone
    <2>3. mem[ctor.first + 0] = <<segs, "guard">>
        BY <1>0, <1>5 DEF Building, Has
    <2>4. mem[ctor.first + 0] \in Mine(MayStay(ctor.pc))
        BY <1>1, <1>5, <2>3, Handlers DEF Mine
    <2>5. \A c : Own(c) => c \in Undone(2) \/ mem[c] \in Mine(MayStay(ctor.pc))
        BY <2>1, <2>2, <2>4
    <2> QED
        BY <1>0, <1>5, <2>5, FailureCleans
<1>6. ASSUME ctor.pc = "shmat5", Failed(Undone(3), {"guard", "data"}) PROVE VClean'
    <2>1. \A c : Own(c) => c = ctor.first + 0 \/ c = ctor.first + 1 \/ c = ctor.first + 2
        BY <1>0, <1>6 DEF Own
    <2>2. ctor.first + 0 \in Undone(3) /\ ctor.first + 1 \in Undone(3) /\ ctor.first + 2 \in Undone(3)
        BY DEF Undone
    <2> QED
        BY <1>0, <1>6, <2>1, <2>2, FailureCleans
<1>7. CASE shmat(0, "guard", "shmat2", "shmat3")
    BY <1>2, <1>3, <1>7 DEF shmat, In
<1>8. CASE shmat(1, "data", "shmat3", "shmat4")
    BY <1>2, <1>4, <1>8 DEF shmat, In
<1>9. CASE shmat(2, "data", "shmat4", "shmat5")
    BY <1>2, <1>5, <1>9 DEF shmat, In
<1>10. CASE shmat(3, "guard", "shmat5", "done")
    <2>0. ctor.pc = "shmat5"
        BY <1>10 DEF shmat, In
    <2>1. ASSUME mem' = Mapped(At_(ctor.first + 3, "guard")),
                 HandedOut(ctor.first + 1), UNCHANGED <<kind, segs, mishaps>>, held' = held \ Mine({"guard", "data"})
          PROVE  VClean'
        <3> DEFINE base == ctor.first + 1
        <3>1. base \in Nat /\ base - 1 = ctor.first /\ base + 2 = ctor.first + 3 /\ base + 1 = ctor.first + 2
            BY <1>0
        <3>2. \A d \in Cells : mem'[d] = mem[d] \/ d = base + 2
            BY <1>1, <2>1, <3>1, AttachOne
        <3>3. \A d : Own(d) => d = base - 1 \/ d = base \/ d = base + 1
            BY <2>0, <3>1 DEF Own
        <3> DEFINE new == [seg |-> segs, base |-> base]
        <3>4. Extent(new) = base - 1 .. base + 2
            BY <1>1 DEF Extent
        <3>5. held' \subseteq held /\ (\A w \in Keeps : <<segs, w>> \notin held') /\ HandedOut(base)
            BY <1>0, <2>1 DEF Mine
        <3> HIDE DEF base
        <3>6. base - 1 \in Extent(new) /\ base \in Extent(new) /\ base + 1 \in Extent(new) /\ base + 2 \in Extent(new)
            BY <3>1, <3>4
        <3> QED
            BY <2>1, <3>1, <3>2, <3>3, <3>5, <3>6, HandOverCleans
    <2> QED
        BY <1>6, <1>10, <2>0, <2>1 DEF shmat, In
<1> QED
    BY <1>7, <1>8, <1>9, <1>10

LEMMA OtherCleans ==
    ASSUME VInv, VClean, (\E b \in bufs : FreeBuffer(b)) \/ ForeignMap \/ ForeignUnmap
    PROVE  VClean'
<1> USE DEF VInv
<1>1. CASE \E b \in bufs : FreeBuffer(b)
    <2> PICK b \in bufs : FreeBuffer(b)
        BY <1>1
    <2>1. /\ ctor = Idle /\ UNCHANGED <<kind, held, segs, ctor, mishaps>>
          /\ mem' = Unmapped(Extent(b)) /\ bufs' = bufs \ {b}
        BY DEF FreeBuffer
    <2>2. \A c \in Cells : mem'[c] = IF c \in Extent(b) THEN Free ELSE mem[c]
        <3> DEFINE S == Extent(b)
        <3> HIDE DEF S
        <3>1. mem' = Unmapped(S)
            BY <2>1 DEF S
        <3> QED
            BY <3>1, CellTypes DEF S
    <2>3. \A d : Extent(d)' = Extent(d) /\ ~Own(d)
        BY <2>1, IdleFields DEF Extent, Own
    <2>4. \A call : MayStay(call)' = MayStay(call)
        BY <2>1 DEF MayStay
    <2>5. ASSUME NEW c \in Cells
          PROVE  mem'[c] \in {Free, Foreign} \/ Forgotten(mem[c])' \/ \E d \in bufs' : c \in Extent(d)
        <3>1. CASE c \in Extent(b)
            BY <2>2, <3>1
        <3>2. CASE c \notin Extent(b)
            <4>1. mem'[c] = mem[c]
                BY <2>2, <3>2
            <4>2. Forgotten(mem[c]) => Forgotten(mem[c])'
                BY <2>1, <2>4, <4>1 DEF Forgotten
            <4> QED
                BY <2>1, <2>3, <3>2, <4>1, <4>2 DEF VClean, Accounted
        <3> QED
            BY <3>1, <3>2
    <2>6. Accounted'
        BY <2>3, <2>5 DEF Accounted, Free, Foreign
    <2>7. Holds'
        <3>1. Keeps' = Keeps /\ \A x : Forgotten(x)' = Forgotten(x)
            BY <2>1, <2>4 DEF Keeps, Forgotten
        <3>2. \A x : x \in Mine(Keeps)' <=> x \in Mine(Keeps)
            BY <2>1, <3>1 DEF Mine
        <3> QED
            BY <2>1, <3>1, <3>2 DEF VClean, Holds
    <2> QED
        BY <2>6, <2>7 DEF VClean
<1>2. CASE ForeignMap \/ ForeignUnmap
    <2>1. UNCHANGED <<kind, held, segs, ctor, bufs, mishaps>>
        BY <1>2 DEF ForeignMap, ForeignUnmap
    <2>2. \A c \in Cells : mem'[c] = mem[c] \/ mem'[c] \in {Free, Foreign}
        <3>1. CASE ForeignMap
            <4> PICK c \in Fit(1) : mem' = [mem EXCEPT ![c] = Foreign]
                BY <3>1 DEF ForeignMap
            <4> QED
                BY DEF VTypeOK
        <3>2. CASE ForeignUnmap
            <4> PICK c \in ForeignCells : mem' = [mem EXCEPT ![c] = Free]
                BY <3>2 DEF ForeignUnmap
            <4> QED
                BY DEF VTypeOK
        <3> QED
            BY <1>2, <3>1, <3>2
    <2>3. \A c : Own(c)' = Own(c)
        BY <2>1 DEF Own
    <2>4. Keeps' = Keeps
        BY <2>1 DEF Keeps
    <2> QED
        BY <2>1, <2>2, <2>3, <2>4, MapStepCleans
<1> QED
    BY <1>1, <1>2

LEMMA CleanNext ==
    ASSUME VInv, VClean, [VNext]_vmvars
    PROVE  VClean'
<1>1. CASE UNCHANGED vmvars
    <2>1. UNCHANGED <<kind, mem, held, segs, ctor, bufs, mishaps>>
        BY <1>1 DEF vmvars
    <2>2. (\A c : Own(c)' = Own(c)) /\ Keeps' = Keeps
        BY <2>1 DEF Own, Keeps
    <2> QED
        BY <2>1, <2>2, MapStepCleans
<1>2. CASE VNext
    BY <1>2, FileCleans, MapCleans, EndCleans, SysvBeginCleans, SysvWholeCleans, AttachCleans, OtherCleans
    DEF VNext, sysv
<1> QED
    BY <1>1, <1>2

LEMMA CleanInit == VInit => VClean
<1> SUFFICES ASSUME VInit PROVE VClean
    OBVIOUS
<1>1. held = {} /\ \A c \in Cells : mem[c] = Free
    BY DEF VInit
<1> QED
    BY <1>1 DEF VClean, Accounted, Holds

LEMMA CleanIdle ==
    ASSUME VInv, VClean PROVE Mirrored /\ NothingLeft
<1>1. Mirrored
    BY DEF VInv
<1>2. ASSUME ctor = Idle PROVE Keeps = {} /\ \A c : ~Own(c)
    BY <1>2, IdleFields DEF Keeps, Own
<1>3. \A x : x \notin Mine({})
    BY DEF Mine
<1>4. ctor = Idle => \A x \in held : Forgotten(x)
    BY <1>2, <1>3 DEF VClean, Holds
<1>5. ctor = Idle => \A c \in Cells : mem[c] \in {Free, Foreign} \/ Forgotten(mem[c]) \/ \E b \in bufs : c \in Extent(b)
    BY <1>2 DEF VClean, Accounted
<1> QED
    BY <1>1, <1>4, <1>5 DEF NothingLeft

(* For any number of cells and buffers, whichever calls of whichever kind     *)
(* fail, and whatever other code maps and unmaps while a constructor is at    *)
(* work: the two copies of a buffer handed out are the same memory, its own,  *)
(* until it is freed, and nothing is left of one that is gone or could not be *)
(* made but what the handler of the failed call forgets; until the second     *)
(* copy of a POSIX object is put elsewhere, for which the code has no check.  *)
THEOREM BuffersAlwaysSound == CircSpec => [](Misplaced \/ (Mirrored /\ NothingLeft))
<1> DEFINE I == Misplaced \/ (VInv /\ VClean)
<1>1. VInit => I
    BY CircInit, CleanInit
<1>2. I /\ [VNext]_vmvars => I'
    BY CircNext, CleanNext, MishapsStay
<1>3. I => Misplaced \/ (Mirrored /\ NothingLeft)
    BY CleanIdle
<1> QED
    BY <1>1, <1>2, <1>3, PTL DEF CircSpec

-----------------------------------------------------------------------------
(***************************************************************************)
(* The choice of a kind, for any number of processes that share the file and *)
(* die at any step.  A process that tests has passed over no factory that    *)
(* always works, one that writes has a factory that passed, and what the     *)
(* file holds is what it held at first, nothing, or such a factory.          *)
(***************************************************************************)

KindSpec == SysInit /\ [][SysNext]_sysvars

FactoryNames == {all_factories[i] : i \in DOMAIN all_factories}
PROC == [at : {"out", "get", "set", "test", "fopen", "fwrite"}, i : Nat, s_default_factory : FactoryNames \cup {NoFactory}]

Skips(i) == i \in DOMAIN all_factories /\ \A j \in 1 .. i - 1 : fares[all_factories[j]] # "always"
Serves(f) == /\ fares[f] # "never"
             /\ \E i \in DOMAIN all_factories : all_factories[i] = f /\ Skips(i)

Sound(r) ==
    /\ r.at \in {"test", "fopen", "fwrite"} => Skips(r.i) /\ ~Named(found)
    /\ r.at \in {"fopen", "fwrite"} => fares[all_factories[r.i]] # "never"
    /\ r.s_default_factory \notin {NoFactory, found} => Serves(r.s_default_factory)

PrefSound ==
    /\ pref_file \in {found, ""} \/ Serves(pref_file)
    /\ Named(found) => pref_file = found

KInv == procs \in [VmProcesses -> PROC] /\ PrefSound /\ \A p \in VmProcesses : Sound(procs[p])

\* What stands for no name is none: no file, an empty one, and what the array holds by chance.
NamesApart == \A name \in Garbage \cup {Missing, ""} : ~Named(name)

LEMMA ProcFields ==
    ASSUME NEW r \in PROC
    PROVE  /\ \A a \in {"out", "get", "set", "test", "fopen", "fwrite"} :
                 LET q == [r EXCEPT !.at = a] IN
                 q \in PROC /\ q.at = a /\ q.i = r.i /\ q.s_default_factory = r.s_default_factory
           /\ LET q == [r EXCEPT !.at = "test", !.i = 1] IN
                 q \in PROC /\ q.at = "test" /\ q.i = 1 /\ q.s_default_factory = r.s_default_factory
           /\ NoProcess \in PROC /\ NoProcess.at = "out" /\ NoProcess.s_default_factory = NoFactory
<1>1. \A a \in {"out", "get", "set", "test", "fopen", "fwrite"} :
                 LET q == [r EXCEPT !.at = a] IN
                 q \in PROC /\ q.at = a /\ q.i = r.i /\ q.s_default_factory = r.s_default_factory
    BY DEF PROC
<1>2. LET q == [r EXCEPT !.at = "test", !.i = 1] IN
                 q \in PROC /\ q.at = "test" /\ q.i = 1 /\ q.s_default_factory = r.s_default_factory
    BY DEF PROC
<1>5. NoProcess \in PROC /\ NoProcess.at = "out" /\ NoProcess.s_default_factory = NoFactory
    BY DEF PROC, NoProcess
<1> QED
    BY <1>1, <1>2, <1>5

LEMMA ProcKept ==
    ASSUME KInv, NEW p \in VmProcesses, NEW r \in PROC, procs' = [procs EXCEPT ![p] = r],
           UNCHANGED <<fares, found>>, PrefSound', Sound(r)
    PROVE  KInv'
<1>1. \A q : Sound(q)' <=> Sound(q)
    BY DEF Sound, Skips, Serves
<1>2. \A q \in VmProcesses : procs'[q] = IF q = p THEN r ELSE procs[q]
    BY DEF KInv
<1>3. procs' \in [VmProcesses -> PROC]
    BY DEF KInv
<1>4. ASSUME NEW q \in VmProcesses PROVE Sound(procs[q])'
    <2>1. PICK x : x = procs'[q]
        OBVIOUS
    <2>2. Sound(x)
        BY <1>2, <2>1 DEF KInv
    <2>3. Sound(x)'
        BY <1>1, <2>2
    <2> QED
        BY <2>1, <2>3 DEF Sound
<1> QED
    BY <1>3, <1>4 DEF KInv

LEMMA KindNext ==
    ASSUME NamesApart, KInv, [SysNext]_sysvars PROVE KInv'
<1>0. /\ DOMAIN all_factories = 1 .. Len(all_factories) /\ Len(all_factories) \in Nat \ {0}
      /\ \A i \in DOMAIN all_factories : all_factories[i] \in FactoryNames /\ Named(all_factories[i])
    BY FactoriesAssumption DEF FactoryNames, Named
<1>1. CASE UNCHANGED sysvars
    <2>1. UNCHANGED <<fares, found, pref_file, procs, launched>>
        BY <1>1 DEF sysvars
    <2> QED
        BY <2>1 DEF KInv, PrefSound, Sound, Skips, Serves
<1>2. ASSUME NEW p \in VmProcesses, Launch(p) \/ get_pref(p) \/ test_factory(p) \/ set_pref(p) \/ Die(p)
      PROVE  KInv'
    <2> DEFINE r == procs[p]
    <2>0. r \in PROC /\ Sound(r) /\ procs \in [VmProcesses -> PROC] /\ UNCHANGED <<fares, found>>
        BY <1>2 DEF KInv, Launch, get_pref, test_factory, set_pref, Die
    <2>1. ASSUME UNCHANGED pref_file PROVE PrefSound'
        BY <2>0, <2>1 DEF KInv, PrefSound, Serves, Skips
    <2> HIDE DEF r
    <2>2. CASE Launch(p)
        <3> DEFINE q == [r EXCEPT !.at = "get"]
        <3>1. q \in PROC /\ q.at = "get" /\ q.s_default_factory = r.s_default_factory
            BY <2>0, ProcFields
        <3>2. procs' = [procs EXCEPT ![p] = q] /\ UNCHANGED pref_file
            BY <2>2 DEF Launch, r
        <3> HIDE DEF q
        <3>3. Sound(q)
            BY <2>0, <3>1 DEF Sound
        <3> QED
            BY <2>0, <2>1, <3>1, <3>2, <3>3, ProcKept
    <2>3. CASE get_pref(p)
        <3>1. PICK name \in IF pref_file = Missing THEN Garbage ELSE {pref_file} :
                  procs' = [procs EXCEPT ![p] = IF Named(name) THEN [at |-> "set", i |-> 0, s_default_factory |-> name]
                                         ELSE [@ EXCEPT !.at = "test", !.i = 1]]
            BY <2>3 DEF get_pref
        <3>2. UNCHANGED pref_file
            BY <2>3 DEF get_pref
        <3>3. CASE Named(name)
            <4> DEFINE q == [at |-> "set", i |-> 0, s_default_factory |-> name]
            <4>1. name = pref_file /\ (name = found \/ Serves(name)) /\ name \in FactoryNames
                BY <3>1, <3>3 DEF NamesApart, KInv, PrefSound, Named, FactoryNames
            <4>2. q \in PROC /\ q.at = "set" /\ q.s_default_factory = name
                BY <4>1 DEF PROC
            <4>3. procs' = [procs EXCEPT ![p] = q]
                BY <3>1, <3>3
            <4> HIDE DEF q
            <4>4. Sound(q)
                BY <4>1, <4>2 DEF Sound
            <4> QED
                BY <2>0, <2>1, <3>2, <4>2, <4>3, <4>4, ProcKept
        <3>4. CASE ~Named(name)
            <4> DEFINE q == [r EXCEPT !.at = "test", !.i = 1]
            <4>1. q \in PROC /\ q.at = "test" /\ q.i = 1 /\ q.s_default_factory = r.s_default_factory
                BY <2>0, ProcFields
            <4>2. procs' = [procs EXCEPT ![p] = q]
                BY <3>1, <3>4 DEF r
            <4> HIDE DEF q
            <4>3. ~Named(found)
                <5> SUFFICES ASSUME Named(found) PROVE FALSE
                    OBVIOUS
                <5>1. pref_file = found /\ found # Missing
                    BY DEF KInv, PrefSound, NamesApart
                <5> QED
                    BY <3>1, <3>4, <5>1
            <4>4. Skips(1)
                BY <1>0 DEF Skips
            <4>5. Sound(q)
                BY <2>0, <4>1, <4>3, <4>4 DEF Sound
            <4> QED
                BY <2>0, <2>1, <3>2, <4>1, <4>2, <4>5, ProcKept
        <3> QED
            BY <3>3, <3>4
    <2>4. CASE test_factory(p)
        <3>1. PICK ok \in TestResult(r.i) :
                  procs' = [procs EXCEPT ![p] = IF ok THEN [@ EXCEPT !.at = "fopen"]
                                         ELSE IF r.i = Len(all_factories) THEN NoProcess
                                         ELSE [@ EXCEPT !.i = r.i + 1]]
            BY <2>4 DEF test_factory, r
        <3>2. UNCHANGED pref_file /\ r.at = "test"
            BY <2>4 DEF test_factory, r
        <3>3. Skips(r.i) /\ ~Named(found) /\ r.i \in Nat
            BY <2>0, <3>2 DEF Sound, PROC
        <3>4. (ok => fares[all_factories[r.i]] # "never") /\ (~ok => fares[all_factories[r.i]] # "always")
            BY <3>1 DEF TestResult
        <3>5. CASE ok
            <4> DEFINE q == [r EXCEPT !.at = "fopen"]
            <4>1. q \in PROC /\ q.at = "fopen" /\ q.i = r.i /\ q.s_default_factory = r.s_default_factory
                BY <2>0, ProcFields
            <4>2. procs' = [procs EXCEPT ![p] = q]
                BY <3>1, <3>5 DEF r
            <4> HIDE DEF q
            <4>3. Sound(q)
                BY <2>0, <3>3, <3>4, <3>5, <4>1 DEF Sound
            <4> QED
                BY <2>0, <2>1, <3>2, <4>1, <4>2, <4>3, ProcKept
        <3>6. CASE ~ok /\ r.i = Len(all_factories)
            <4>1. procs' = [procs EXCEPT ![p] = NoProcess]
                BY <3>1, <3>6 DEF r
            <4>2. NoProcess \in PROC /\ Sound(NoProcess)
                BY <2>0, ProcFields DEF Sound
            <4> QED
                BY <2>0, <2>1, <3>2, <4>1, <4>2, ProcKept
        <3>7. CASE ~ok /\ r.i # Len(all_factories)
            <4> DEFINE q == [r EXCEPT !.i = r.i + 1]
            <4>1. q \in PROC /\ q.at = "test" /\ q.i = r.i + 1 /\ q.s_default_factory = r.s_default_factory
                BY <2>0, <3>2 DEF PROC
            <4>2. procs' = [procs EXCEPT ![p] = q]
                <5>2. procs' = [procs EXCEPT ![p] = [procs[p] EXCEPT !.i = r.i + 1]]
                    BY <3>1, <3>7
                <5> QED
                    BY <5>2 DEF r
            <4> HIDE DEF q
            <4>3. Skips(r.i + 1)
                <5>1. r.i \in 1 .. Len(all_factories) /\ r.i + 1 \in 1 .. Len(all_factories)
                    BY <1>0, <3>3, <3>7 DEF Skips
                <5>2. \A j \in 1 .. (r.i + 1) - 1 : j \in 1 .. r.i - 1 \/ j = r.i
                    BY <5>1
                <5> QED
                    BY <1>0, <3>3, <3>4, <3>7, <5>1, <5>2 DEF Skips
            <4>4. Sound(q)
                BY <2>0, <3>3, <4>1, <4>3 DEF Sound
            <4> QED
                BY <2>0, <2>1, <3>2, <4>1, <4>2, <4>4, ProcKept
        <3> QED
            BY <3>5, <3>6, <3>7
    <2>5. CASE set_pref(p)
        <3> DEFINE f == all_factories[r.i]
        <3>1. r.at \in {"fopen", "fwrite"} /\ Skips(r.i) /\ ~Named(found) /\ Serves(f) /\ f \in FactoryNames
            <4>1. r.at \in {"fopen", "fwrite"}
                BY <2>5 DEF set_pref, r
            <4>2. Skips(r.i) /\ ~Named(found) /\ fares[f] # "never"
                BY <2>0, <4>1 DEF Sound
            <4>3. f \in FactoryNames /\ Serves(f)
                BY <1>0, <4>2 DEF Serves, Skips
            <4> QED
                BY <4>1, <4>2, <4>3
        <3> HIDE DEF f
        <3>2. CASE procs' = [procs EXCEPT ![p].at = "fwrite"] /\ pref_file' = ""
            <4> DEFINE q == [r EXCEPT !.at = "fwrite"]
            <4>1. q \in PROC /\ q.at = "fwrite" /\ q.i = r.i /\ q.s_default_factory = r.s_default_factory
                BY <2>0, ProcFields
            <4>2. procs' = [procs EXCEPT ![p] = q]
                BY <3>2 DEF r
            <4> HIDE DEF q
            <4>3. Sound(q)
                BY <2>0, <3>1, <4>1 DEF Sound
            <4>4. PrefSound'
                BY <2>0, <3>1, <3>2 DEF PrefSound, Named
            <4> QED
                BY <2>0, <4>1, <4>2, <4>3, <4>4, ProcKept
        <3>3. CASE /\ procs' = [procs EXCEPT ![p].at = "set", ![p].s_default_factory = f]
                   /\ pref_file' \in {pref_file, f, ""}
            <4> DEFINE q == [[r EXCEPT !.at = "set"] EXCEPT !.s_default_factory = f]
            <4>1. q \in PROC /\ q.at = "set" /\ q.s_default_factory = f
                BY <2>0, <3>1 DEF PROC
            <4>2. procs' = [procs EXCEPT ![p] = q]
                BY <2>0, <3>3 DEF r
            <4> HIDE DEF q
            <4>3. Sound(q)
                BY <3>1, <4>1 DEF Sound
            <4>4. PrefSound'
                BY <2>0, <3>1, <3>3 DEF KInv, PrefSound, Named, Serves, Skips
            <4> QED
                BY <2>0, <4>1, <4>2, <4>3, <4>4, ProcKept
        <3>4. CASE procs' = [procs EXCEPT ![p] = NoProcess] /\ UNCHANGED pref_file
            <4>1. NoProcess \in PROC /\ Sound(NoProcess)
                BY <2>0, ProcFields DEF Sound
            <4> QED
                BY <2>0, <2>1, <3>4, <4>1, ProcKept
        <3> QED
            BY <2>5, <3>2, <3>3, <3>4 DEF set_pref, f, r
    <2>6. CASE Die(p)
        <3>1. procs' = [procs EXCEPT ![p] = NoProcess] /\ UNCHANGED pref_file
            BY <2>6 DEF Die
        <3>2. NoProcess \in PROC /\ Sound(NoProcess)
            BY <2>0, ProcFields DEF Sound
        <3> QED
            BY <2>0, <2>1, <3>1, <3>2, ProcKept
    <2> QED
        BY <1>2, <2>2, <2>3, <2>4, <2>5, <2>6
<1> QED
    BY <1>1, <1>2 DEF SysNext

LEMMA KindServes == KInv => DefaultServes
<1> SUFFICES ASSUME KInv PROVE DefaultServes
    OBVIOUS
<1>1. DOMAIN all_factories \subseteq Nat
    BY FactoriesAssumption
<1>2. \A p \in VmProcesses : procs[p].s_default_factory \notin {NoFactory, found} => Serves(procs[p].s_default_factory)
    BY DEF KInv, Sound
<1> QED
    BY <1>1, <1>2 DEF KInv, PrefSound, Serves, Skips, DefaultServes

(* For any factories, any machine and any number of processes: the one a      *)
(* process uses was named by the file at first or has passed its tests, and   *)
(* it passes over none before it that always works.                           *)
THEOREM DefaultAlwaysServes ==
    ASSUME NamesApart PROVE KindSpec => []DefaultServes
<1>1. SysInit => KInv
    <2> SUFFICES ASSUME SysInit PROVE KInv
        OBVIOUS
    <2>1. NoProcess \in PROC /\ Sound(NoProcess)
        BY DEF NoProcess, PROC, Sound
    <2> QED
        BY <2>1 DEF SysInit, KInv, PrefSound
<1> QED
    BY <1>1, KindNext, KindServes, PTL DEF KindSpec

\* The memory of a process and the choice of its kind, side by side.
MemSpec ==
    /\ VInit /\ SysInit
    /\ [][(VNext /\ UNCHANGED sysvars) \/ (SysNext /\ UNCHANGED vmvars)]_<<vmvars, sysvars>>

(* For any number of cells, buffers and processes, whichever calls of         *)
(* whichever kind fail and whatever other code maps meanwhile: a buffer is    *)
(* mirrored or leaves only what the handler of the failed call forgets, until *)
(* a POSIX object's second copy is put elsewhere; and the kind chosen works   *)
(* here, if no array read from a missing file happens to spell a factory.     *)
THEOREM MemoryAlwaysSound ==
    ASSUME NamesApart
    PROVE  MemSpec => []MemorySound
<1>1. [(VNext /\ UNCHANGED sysvars) \/ (SysNext /\ UNCHANGED vmvars)]_<<vmvars, sysvars>>
          => [VNext]_vmvars /\ [SysNext]_sysvars
    OBVIOUS
<1>2. MemSpec => CircSpec /\ KindSpec
    BY <1>1, PTL DEF MemSpec, CircSpec, KindSpec
<1>3. (Misplaced \/ (Mirrored /\ NothingLeft)) /\ DefaultServes => MemorySound
    BY DEF MemorySound
<1> QED
    BY <1>2, <1>3, BuffersAlwaysSound, DefaultAlwaysServes, PTL
-----------------------------------------------------------------------------
(***************************************************************************)
(* The ring, for any number of readers.                                     *)
(***************************************************************************)
USE BufSizeAssumption, PreloadAssumption, DelayAssumption, BoundAssumption

Index == 0 .. BufSize - 1

-----------------------------------------------------------------------------
(* Index arithmetic of buffer.h: adding n slots to the write index adds n   *)
(* items to a reader that has room for them.                                *)
LEMMA WriteAdvance ==
    ASSUME NEW w \in Index, NEW r \in Index, NEW n \in Nat,
           n <= BufSize - 1 - index_sub(w, r)
    PROVE  /\ index_add(w, n) \in Index
           /\ index_sub(index_add(w, n), r) = index_sub(w, r) + n
  BY DEF Index, index_add, index_sub

(* Adding n slots to a read index takes n items from that reader.           *)
LEMMA ReadAdvance ==
    ASSUME NEW w \in Index, NEW r \in Index, NEW n \in Nat,
           n <= index_sub(w, r)
    PROVE  /\ index_add(r, n) \in Index
           /\ index_sub(w, index_add(r, n)) = index_sub(w, r) - n
           /\ \A k \in Nat : n + k < BufSize =>
                  index_add(index_add(r, n), k) = index_add(r, n + k)
  BY DEF Index, index_add, index_sub

(* The window behind the write index and the items before it are disjoint.  *)
LEMMA WindowDisjoint ==
    ASSUME NEW w \in Index, NEW r \in Index, NEW j \in Nat, NEW k \in Nat,
           k < index_sub(w, r), j < BufSize - 1 - index_sub(w, r)
    PROVE  index_add(w, j) # index_add(r, k)
  BY DEF Index, index_add, index_sub

(* The window begins where the reader's items end.                          *)
LEMMA WindowFollows ==
    ASSUME NEW w \in Index, NEW r \in Index, NEW j \in Nat,
           j < BufSize - index_sub(w, r)
    PROVE  index_add(r, index_sub(w, r) + j) = index_add(w, j)
  BY DEF Index, index_add, index_sub

LEMMA IndexType ==
    ASSUME NEW a \in Index, NEW b \in Index
    PROVE  /\ index_sub(a, b) \in Index
           /\ index_add(a, b) \in Index
  BY DEF Index, index_add, index_sub

-----------------------------------------------------------------------------
(* Type correctness.                                                        *)
LEMMA InitType == Init => TypeOK
<1>. SUFFICES ASSUME Init PROVE TypeOK
  OBVIOUS
<1>1. RingType
  BY DEF Init, RingType
<1>2. ReadersType
  BY DEF Init, ReadersType
<1>3. TagsType
  BY DEF Init, TagsType
<1>4. WorkType
  BY DEF Init, WorkType
<1>5. FlagsType
  BY DEF Init, FlagsType
<1>. QED BY <1>1, <1>2, <1>3, <1>4, <1>5 DEF TypeOK

LEMMA NextRingType == TypeOK /\ [Next]_vars => RingType'
<1>. SUFFICES ASSUME TypeOK, [Next]_vars PROVE RingType'
  OBVIOUS
<1>. USE DEF TypeOK, RingType
<1>1. ASSUME UNCHANGED <<slot, write_index, abs_write_offset>> PROVE RingType'
  BY <1>1
<1>2. CASE WriteItem
  <2>1. abs_write_offset + filled \in Int
    BY DEF WorkType
  <2>2. slot' \in [0 .. BufSize - 1 -> Int]
    BY <1>2, <2>1 DEF WriteItem
  <2>. QED BY <1>2, <2>2 DEF WriteItem
<1>3. ASSUME NEW n \in 0 .. BufSize, UpdateWritePointer(n) PROVE RingType'
  <2>1. n \in Index
    BY <1>3 DEF UpdateWritePointer, WorkType, Index
  <2>2. index_add(write_index, n) \in Index
    BY <2>1, IndexType DEF Index
  <2>. QED BY <1>3, <2>1, <2>2 DEF UpdateWritePointer, Index
<1>. QED
  BY <1>1, <1>2, <1>3 DEF Next, Write, Read, AddReader, MinAvailableSpace, Start,
     AddItemTag, Snapshot, UpdateReadPointer, RemoveItemTag, PropagateTags, SetDone,
     ring, vars

LEMMA NextReadersType == TypeOK /\ [Next]_vars => ReadersType'
<1>. SUFFICES ASSUME TypeOK, [Next]_vars PROVE ReadersType'
  OBVIOUS
<1>. USE DEF TypeOK, ReadersType
<1>1. ASSUME UNCHANGED rdvars PROVE ReadersType'
  BY <1>1 DEF rdvars
<1>2. ASSUME NEW r \in Readers, AddReader(r) PROVE ReadersType'
  <2>1. index_sub(write_index, Preload[r]) \in Index
    BY IndexType DEF RingType, Index
  <2>. QED BY <1>2, <2>1 DEF AddReader, Index
<1>3. ASSUME NEW r \in Readers, NEW n \in 1 .. BufSize, UpdateReadPointer(r, n)
      PROVE  ReadersType'
  <2>1. index_add(read_index[r], n) \in Index
    BY <1>3, IndexType DEF UpdateReadPointer, WorkType, Index
  <2>. QED BY <1>3, <2>1 DEF UpdateReadPointer, Index
<1>. QED
  BY <1>1, <1>2, <1>3 DEF Next, Write, Read, Start, MinAvailableSpace, WriteItem,
     AddItemTag, UpdateWritePointer, Snapshot, RemoveItemTag, PropagateTags, SetDone, vars

LEMMA NextTagsType == TypeOK /\ [Next]_vars => TagsType'
<1>. SUFFICES ASSUME TypeOK, [Next]_vars PROVE TagsType'
  OBVIOUS
<1>. USE DEF TypeOK, TagsType
<1>1. ASSUME UNCHANGED <<tagvars, added, delivered>> PROVE TagsType'
  BY <1>1 DEF tagvars
<1>2. ASSUME NEW r \in Readers, AddReader(r) PROVE TagsType'
  BY <1>2 DEF AddReader, reader
<1>3. ASSUME NEW n \in 0 .. BufSize, MinAvailableSpace(n) PROVE TagsType'
  <2>1. item_tags' \subseteq item_tags
    BY <1>3 DEF MinAvailableSpace, Pruned
  <2>2. last_min_items_read' \in Nat
    BY <1>3 DEF MinAvailableSpace, ReadersType
  <2>3. UNCHANGED <<max_reader_delay, added, delivered>>
    BY <1>3 DEF MinAvailableSpace, reader
  <2>. QED BY <2>1, <2>2, <2>3
<1>4. ASSUME NEW o \in 0 .. MaxItems, NEW k \in Keys, AddItemTag(o, k) PROVE TagsType'
  <2>1. [offset |-> o, key |-> k, marked_deleted |-> {}] \in Tag
    BY DEF Tag
  <2>2. <<o, k>> \in Nat \X Keys
    OBVIOUS
  <2>3. item_tags' \in SUBSET Tag
    BY <1>4, <2>1 DEF AddItemTag
  <2>4. added' \in SUBSET (Nat \X Keys)
    BY <1>4, <2>2 DEF AddItemTag
  <2>. QED BY <1>4, <2>3, <2>4 DEF AddItemTag, reader
<1>5. ASSUME NEW r \in Readers, NEW t \in item_tags, RemoveItemTag(r, t) PROVE TagsType'
  <2>1. t \in Tag
    OBVIOUS
  <2>2. [t EXCEPT !.marked_deleted = @ \cup {r}] \in Tag
    BY <2>1 DEF Tag
  <2>3. Name(t) \in Nat \X Keys
    BY <2>1 DEF Name, Tag
  <2>4. delivered' \in [Readers -> SUBSET (Nat \X Keys)]
    BY <1>5, <2>3 DEF RemoveItemTag
  <2>5. item_tags' \in SUBSET Tag
    BY <1>5, <2>2 DEF RemoveItemTag
  <2>. QED BY <1>5, <2>4, <2>5 DEF RemoveItemTag
<1>6. ASSUME NEW r \in Readers, PropagateTags(r) PROVE TagsType'
  <2>1. PICK got \in TagsReturned(r, start[r], abs_read_offset[r]) :
            delivered' = [delivered EXCEPT ![r] = @ \cup Names(got)]
    BY <1>6 DEF PropagateTags
  <2>2. got \subseteq item_tags
    BY <2>1 DEF TagsReturned, TagsInRange, TagsWalked
  <2>3. Names(got) \subseteq Nat \X Keys
    BY <2>2 DEF Names, Name, Tag
  <2>4. delivered' \in [Readers -> SUBSET (Nat \X Keys)]
    BY <2>1, <2>3
  <2>. QED BY <1>6, <2>4 DEF PropagateTags, tagvars
<1>. QED
  BY <1>1, <1>2, <1>3, <1>4, <1>5, <1>6 DEF Next, Write, Read, Start, WriteItem,
     UpdateWritePointer, Snapshot, UpdateReadPointer, SetDone, vars, reader

LEMMA NextWorkType == TypeOK /\ [Next]_vars => WorkType'
<1>. SUFFICES ASSUME TypeOK, [Next]_vars PROVE WorkType'
  OBVIOUS
<1>. USE DEF TypeOK, WorkType
<1>1. ASSUME UNCHANGED <<writer, avail, start>> PROVE WorkType'
  BY <1>1 DEF writer
<1>2. CASE WriteItem
  BY <1>2 DEF WriteItem, reader
<1>3. ASSUME NEW n \in 0 .. BufSize, MinAvailableSpace(n) PROVE WorkType'
  BY <1>3 DEF MinAvailableSpace, HasSpace, reader
<1>4. ASSUME NEW n \in 0 .. BufSize, UpdateWritePointer(n) PROVE WorkType'
  BY <1>4 DEF UpdateWritePointer, reader
<1>5. ASSUME NEW r \in Readers, Snapshot(r) PROVE WorkType'
  <2>1. items_available(r) \in Index
    BY IndexType DEF items_available, RingType, ReadersType, Index
  <2>. QED BY <1>5, <2>1 DEF Snapshot, writer, ReadersType, Index
<1>6. ASSUME NEW r \in Readers, NEW n \in 1 .. BufSize, UpdateReadPointer(r, n)
      PROVE  WorkType'
  BY <1>6 DEF UpdateReadPointer, writer
<1>7. ASSUME NEW r \in Readers, PropagateTags(r) PROVE WorkType'
  BY <1>7 DEF PropagateTags, writer, ReadersType
<1>. QED
  BY <1>1, <1>2, <1>3, <1>4, <1>5, <1>6, <1>7 DEF Next, Write, Read, AddReader, Start,
     AddItemTag, RemoveItemTag, SetDone, vars, reader

LEMMA NextFlagsType == TypeOK /\ [Next]_vars => FlagsType'
  BY DEF TypeOK, FlagsType, Next, Write, Read, AddReader, Start, MinAvailableSpace,
     WriteItem, AddItemTag, UpdateWritePointer, Snapshot, UpdateReadPointer,
     RemoveItemTag, PropagateTags, SetDone, vars, ring

LEMMA NextType == TypeOK /\ [Next]_vars => TypeOK'
  BY NextRingType, NextReadersType, NextTagsType, NextWorkType, NextFlagsType DEF TypeOK

(* Every variable keeps its type, whatever the readers and the sizes.       *)
THEOREM TypeCorrect == Spec => []TypeOK
  BY InitType, NextType, PTL DEF Spec

-----------------------------------------------------------------------------
(* The inductive invariant.  ReaderSeesStream alone is not inductive: that  *)
(* publishing n items is correct needs the window to hold the right items   *)
(* (WindowWritten) in slots no reader still needs (PromisesKept), and a     *)
(* reader that attaches finds its zeros only because the ring is untouched  *)
(* until the threads start (Untouched).                                     *)
WindowWritten ==
    \A j \in 0 .. filled - 1 : slot[index_add(write_index, j)] = abs_write_offset + j

Untouched ==
    /\ slot = [i \in 0 .. BufSize - 1 |-> i - BufSize]
    /\ write_index = 0
    /\ abs_write_offset = 0
    /\ window = 0
    /\ avail = [r \in Readers |-> -1]

IInv ==
    /\ TypeOK
    /\ running \/ Untouched
    /\ IndicesAgree
    /\ PromisesKept
    /\ WindowWritten
    /\ ReaderSeesStream

LEMMA InitInv == Init => IInv
<1>. SUFFICES ASSUME Init PROVE IInv
  OBVIOUS
<1>1. TypeOK
  BY InitType
<1>2. Untouched
  BY DEF Init, Untouched
<1>3. IndicesAgree /\ PromisesKept /\ ReaderSeesStream
  BY DEF Init, IndicesAgree, PromisesKept, ReaderSeesStream
<1>4. WindowWritten
  BY DEF Init, WindowWritten
<1>. QED BY <1>1, <1>2, <1>3, <1>4 DEF IInv

LEMMA NextUntouched == IInv /\ [Next]_vars => (running \/ Untouched)'
<1>. SUFFICES ASSUME IInv, [Next]_vars PROVE (running \/ Untouched)'
  OBVIOUS
<1>1. CASE running
  BY <1>1 DEF Next, Write, Read, AddReader, Start, MinAvailableSpace, WriteItem,
     AddItemTag, UpdateWritePointer, Snapshot, UpdateReadPointer, RemoveItemTag,
     PropagateTags, SetDone, vars
<1>2. CASE ~running /\ Untouched
  <2>. USE <1>2 DEF Untouched
  <2>1. ~WriteItem
    BY DEF WriteItem, IInv, TypeOK, WorkType
  <2>2. ASSUME NEW r \in Readers PROVE ~Read(r)
    BY DEF Read, Snapshot, UpdateReadPointer, RemoveItemTag, PropagateTags
  <2>3. CASE UNCHANGED <<slot, write_index, abs_write_offset, window, avail>>
    BY <2>3
  <2>. QED BY <2>1, <2>2, <2>3 DEF Next, Write, AddReader, Start, MinAvailableSpace,
         AddItemTag, UpdateWritePointer, SetDone, vars, ring, writer, reader
<1>. QED BY <1>1, <1>2 DEF IInv

(* Attaching a reader: it has exactly its zeros to read.                    *)
LEMMA AttachedReader ==
    ASSUME IInv, NEW r \in Readers, AddReader(r)
    PROVE  /\ Untouched
           /\ items_available(r)' = Preload[r]
           /\ \A k \in 0 .. Preload[r] - 1 :
                  slot[index_add(read_index'[r], k)] = k - Preload[r]
           /\ \A q \in readers : read_index'[q] = read_index[q]
                              /\ abs_read_offset'[q] = abs_read_offset[q]
           /\ abs_read_offset'[r] = 0
<1>1. Untouched
  BY DEF IInv, AddReader
<1>2. read_index'[r] = index_sub(0, Preload[r]) /\ abs_read_offset'[r] = 0
  BY <1>1 DEF IInv, TypeOK, ReadersType, AddReader, Untouched
<1>3. write_index' = 0
  BY <1>1 DEF Untouched, AddReader, ring
<1>4. items_available(r)' = Preload[r]
  BY <1>2, <1>3 DEF items_available, index_sub
<1>5. ASSUME NEW k \in 0 .. Preload[r] - 1
      PROVE  slot[index_add(read_index'[r], k)] = k - Preload[r]
  <2>1. index_add(read_index'[r], k) = BufSize - Preload[r] + k
    BY <1>2 DEF index_sub, index_add
  <2>. QED BY <1>1, <2>1 DEF Untouched
<1>6. \A q \in readers : read_index'[q] = read_index[q]
                      /\ abs_read_offset'[q] = abs_read_offset[q]
  BY DEF IInv, TypeOK, ReadersType, AddReader
<1>. QED BY <1>1, <1>2, <1>4, <1>5, <1>6

LEMMA ReaderIndices ==
    ASSUME IInv, NEW r \in readers
    PROVE  /\ r \in Readers
           /\ write_index \in Index
           /\ read_index[r] \in Index
           /\ items_available(r) \in Index
           /\ items_available(r) = index_sub(write_index, read_index[r])
           /\ abs_read_offset[r] \in Nat
           /\ abs_write_offset \in Nat
           /\ Preload[r] \in Index
           /\ items_available(r) = Unread(r)
           /\ avail[r] \in -1 .. BufSize - 1
           /\ avail[r] <= items_available(r)
           /\ window \in 0 .. BufSize - 1 - items_available(r)
           /\ filled \in 0 .. window
<1>1. r \in Readers /\ write_index \in Index /\ read_index[r] \in Index
  BY DEF IInv, TypeOK, RingType, ReadersType, Index
<1>2. items_available(r) \in Index
  BY <1>1, IndexType DEF items_available
<1>. QED BY <1>1, <1>2 DEF IInv, TypeOK, RingType, ReadersType, WorkType, Index,
       items_available, IndicesAgree, PromisesKept

(* One reader's step on its own position.                                   *)
LEMMA ReaderAdvances ==
    ASSUME IInv, NEW r \in Readers, NEW n \in 1 .. BufSize, UpdateReadPointer(r, n)
    PROVE  /\ r \in readers => /\ read_index'[r] = index_add(read_index[r], n)
                               /\ items_available(r)' = items_available(r) - n
                               /\ abs_read_offset'[r] = abs_read_offset[r] + n
           /\ \A q \in readers \ {r} : /\ read_index'[q] = read_index[q]
                                       /\ abs_read_offset'[q] = abs_read_offset[q]
                                       /\ items_available(q)' = items_available(q)
           /\ UNCHANGED <<slot, write_index, abs_write_offset, readers, window, filled>>
<1>1. UNCHANGED <<slot, write_index, abs_write_offset, readers, window, filled>>
  BY DEF UpdateReadPointer, ring, writer
<1>2. ASSUME r \in readers
      PROVE  /\ read_index'[r] = index_add(read_index[r], n)
             /\ items_available(r)' = items_available(r) - n
             /\ abs_read_offset'[r] = abs_read_offset[r] + n
  <2>1. n <= index_sub(write_index, read_index[r])
    BY <1>2, ReaderIndices DEF UpdateReadPointer, Index
  <2>2. read_index'[r] = index_add(read_index[r], n)
    BY DEF UpdateReadPointer, IInv, TypeOK, ReadersType
  <2>3. index_sub(write_index, index_add(read_index[r], n)) =
            index_sub(write_index, read_index[r]) - n
    BY <1>2, <2>1, ReaderIndices, ReadAdvance
  <2>4. abs_read_offset'[r] = abs_read_offset[r] + n
    BY DEF UpdateReadPointer, IInv, TypeOK, ReadersType
  <2>. QED BY <1>1, <2>2, <2>3, <2>4 DEF items_available
<1>3. \A q \in readers \ {r} : /\ read_index'[q] = read_index[q]
                               /\ abs_read_offset'[q] = abs_read_offset[q]
  BY DEF UpdateReadPointer, IInv, TypeOK, ReadersType
<1>. QED BY <1>1, <1>2, <1>3 DEF items_available

(* Publishing n items of the window.                                        *)
LEMMA WriterAdvances ==
    ASSUME IInv, NEW n \in 0 .. BufSize, UpdateWritePointer(n), NEW r \in readers
    PROVE  /\ items_available(r)' = items_available(r) + n
           /\ n <= filled
           /\ abs_write_offset' = abs_write_offset + n
           /\ window' = 0 /\ filled' = 0
           /\ UNCHANGED <<slot, read_index, abs_read_offset, readers, avail>>
<1>1. n \in 0 .. filled /\ write_index' = index_add(write_index, n)
      /\ UNCHANGED <<slot, read_index, abs_read_offset, readers, avail>>
  BY DEF UpdateWritePointer, rdvars, reader
<1>2. n <= BufSize - 1 - index_sub(write_index, read_index[r])
  BY <1>1, ReaderIndices DEF Index
<1>3. index_sub(index_add(write_index, n), read_index[r]) =
          index_sub(write_index, read_index[r]) + n
  BY <1>2, ReaderIndices, WriteAdvance
<1>. QED BY <1>1, <1>3 DEF items_available, UpdateWritePointer

LEMMA NextIndicesAgree == IInv /\ [Next]_vars => IndicesAgree'
<1>. SUFFICES ASSUME IInv, [Next]_vars PROVE IndicesAgree'
  OBVIOUS
<1>. USE DEF IndicesAgree, Unread
<1>1. CASE UNCHANGED <<write_index, abs_write_offset, readers, read_index, abs_read_offset>>
  BY <1>1 DEF IInv, items_available
<1>2. ASSUME NEW r \in Readers, AddReader(r) PROVE IndicesAgree'
  <2>1. readers' = readers \cup {r} /\ UNCHANGED <<write_index, abs_write_offset>>
    BY <1>2 DEF AddReader, ring
  <2>2. abs_write_offset = 0
    BY <1>2, AttachedReader DEF Untouched
  <2>3. items_available(r)' = Unread(r)'
    BY <1>2, <2>1, <2>2, AttachedReader
  <2>4. ASSUME NEW q \in readers PROVE items_available(q)' = Unread(q)'
    BY <1>2, <2>1, <2>4, AttachedReader DEF IInv, items_available
  <2>. QED BY <2>1, <2>3, <2>4
<1>3. ASSUME NEW n \in 0 .. BufSize, UpdateWritePointer(n) PROVE IndicesAgree'
  BY <1>3, WriterAdvances, ReaderIndices DEF UpdateWritePointer, rdvars
<1>4. ASSUME NEW r \in Readers, NEW n \in 1 .. BufSize, UpdateReadPointer(r, n)
      PROVE  IndicesAgree'
  BY <1>4, ReaderAdvances, ReaderIndices
<1>. QED
  BY <1>1, <1>2, <1>3, <1>4 DEF Next, Write, Read, Start, MinAvailableSpace, WriteItem,
     AddItemTag, Snapshot, RemoveItemTag, PropagateTags, SetDone, vars, ring, rdvars

LEMMA NextPromisesKept == IInv /\ [Next]_vars => PromisesKept'
<1>. SUFFICES ASSUME IInv, [Next]_vars PROVE PromisesKept'
  OBVIOUS
<1>. USE DEF PromisesKept
<1>1. CASE UNCHANGED <<write_index, readers, read_index, avail, window>>
  BY <1>1 DEF IInv, items_available
<1>2. ASSUME NEW r \in Readers, AddReader(r) PROVE PromisesKept'
  <2>1. /\ readers' = readers \cup {r}
        /\ UNCHANGED <<write_index, avail, window>>
        /\ window = 0
        /\ avail[r] = -1
    BY <1>2, AttachedReader DEF AddReader, ring, writer, reader, Untouched
  <2>2. ASSUME NEW q \in readers PROVE items_available(q)' = items_available(q)
    BY <1>2, <2>1, AttachedReader DEF items_available
  <2>3. items_available(r)' \in Index
    BY <1>2, AttachedReader DEF Index
  <2>. QED BY <2>1, <2>2, <2>3 DEF IInv, Index
<1>3. ASSUME NEW n \in 0 .. BufSize, MinAvailableSpace(n) PROVE PromisesKept'
  <2>1. /\ UNCHANGED <<write_index, readers, read_index, avail>>
        /\ window' = n
        /\ \A r \in readers : n <= BufSize - items_available(r) - 1
    BY <1>3 DEF MinAvailableSpace, HasSpace, ring, rdvars, reader
  <2>. QED BY <2>1, ReaderIndices DEF items_available, Index
<1>4. ASSUME NEW n \in 0 .. BufSize, UpdateWritePointer(n) PROVE PromisesKept'
  BY <1>4, WriterAdvances, ReaderIndices DEF UpdateWritePointer, rdvars, reader, Index
<1>5. ASSUME NEW r \in Readers, Snapshot(r) PROVE PromisesKept'
  <2>1. /\ UNCHANGED <<write_index, readers, read_index, window>>
        /\ r \in readers
        /\ avail'[r] = items_available(r)
        /\ \A q \in readers \ {r} : avail'[q] = avail[q]
    BY <1>5 DEF Snapshot, ring, rdvars, writer, IInv, TypeOK, WorkType, ReadersType
  <2>. QED BY <2>1, ReaderIndices DEF items_available, Index
<1>6. ASSUME NEW r \in Readers, NEW n \in 1 .. BufSize, UpdateReadPointer(r, n)
      PROVE  PromisesKept'
  <2>1. /\ \A q \in readers \ {r} : avail'[q] = avail[q]
        /\ r \in readers => avail'[r] = avail[r] - n
    BY <1>6 DEF UpdateReadPointer, IInv, TypeOK, WorkType, ReadersType
  <2>. QED BY <1>6, <2>1, ReaderAdvances, ReaderIndices DEF Index
<1>7. ASSUME NEW r \in Readers, PropagateTags(r) PROVE PromisesKept'
  <2>1. /\ UNCHANGED <<write_index, readers, read_index, window>>
        /\ \A q \in readers : avail'[q] = avail[q] \/ avail'[q] = -1
    BY <1>7 DEF PropagateTags, ring, rdvars, writer, IInv, TypeOK, WorkType, ReadersType
  <2>. QED BY <2>1, ReaderIndices DEF items_available, Index
<1>. QED
  BY <1>1, <1>2, <1>3, <1>4, <1>5, <1>6, <1>7 DEF Next, Write, Read, Start, WriteItem,
     AddItemTag, RemoveItemTag, SetDone, vars, ring, rdvars, writer, reader

LEMMA NextWindowWritten == IInv /\ [Next]_vars => WindowWritten'
<1>. SUFFICES ASSUME IInv, [Next]_vars PROVE WindowWritten'
  OBVIOUS
<1>. USE DEF WindowWritten
<1>1. CASE UNCHANGED <<slot, write_index, abs_write_offset, filled>>
  BY <1>1 DEF IInv
<1>2. CASE filled' = 0
  BY <1>2
<1>3. CASE WriteItem
  <2>1. /\ filled' = filled + 1
        /\ UNCHANGED <<write_index, abs_write_offset>>
        /\ slot' = [slot EXCEPT ![index_add(write_index, filled)] = abs_write_offset + filled]
        /\ filled \in Nat /\ filled < BufSize - 1
        /\ write_index \in Index
        /\ slot \in [Index -> Int]
    BY <1>3 DEF WriteItem, IInv, TypeOK, WorkType, RingType, Index
  <2>2. index_add(write_index, filled) \in Index
    <3>1. filled \in Index
      BY <2>1 DEF Index
    <3>. QED BY <2>1, <3>1, IndexType
  <2>3. ASSUME NEW j \in 0 .. filled - 1
        PROVE  index_add(write_index, j) # index_add(write_index, filled)
    BY <2>1 DEF index_add, Index
  <2>4. ASSUME NEW j \in 0 .. filled - 1
        PROVE  slot'[index_add(write_index, j)] = abs_write_offset + j
    <3>0. j \in Index
      BY <2>1 DEF Index
    <3>1. index_add(write_index, j) \in Index
      BY <2>1, <3>0, IndexType
    <3>2. slot[index_add(write_index, j)] = abs_write_offset + j
      BY DEF IInv
    <3>. QED BY <2>1, <2>3, <3>1, <3>2
  <2>5. slot'[index_add(write_index, filled)] = abs_write_offset + filled
    BY <2>1, <2>2
  <2>. QED BY <2>1, <2>4, <2>5
<1>. QED
  BY <1>1, <1>2, <1>3 DEF Next, Write, Read, AddReader, Start, MinAvailableSpace, AddItemTag,
     UpdateWritePointer, Snapshot, UpdateReadPointer, RemoveItemTag, PropagateTags,
     SetDone, vars, ring, writer

LEMMA NextReaderSeesStream == IInv /\ [Next]_vars => ReaderSeesStream'
<1>. SUFFICES ASSUME IInv, [Next]_vars PROVE ReaderSeesStream'
  OBVIOUS
<1>. USE DEF ReaderSeesStream
<1>1. CASE UNCHANGED <<slot, write_index, readers, read_index, abs_read_offset>>
  BY <1>1 DEF IInv, items_available
<1>2. ASSUME NEW r \in Readers, AddReader(r) PROVE ReaderSeesStream'
  <2>1. readers' = readers \cup {r} /\ UNCHANGED <<slot, write_index>>
    BY <1>2 DEF AddReader, ring
  <2>2. ASSUME NEW k \in 0 .. items_available(r)' - 1
        PROVE  slot'[index_add(read_index'[r], k)] = abs_read_offset'[r] - Preload[r] + k
    BY <1>2, <2>1, <2>2, AttachedReader
  <2>3. ASSUME NEW q \in readers, NEW k \in 0 .. items_available(q)' - 1
        PROVE  slot'[index_add(read_index'[q], k)] = abs_read_offset'[q] - Preload[q] + k
    BY <1>2, <2>1, AttachedReader DEF IInv, items_available
  <2>. QED BY <2>1, <2>2, <2>3
<1>3. CASE WriteItem
  <2>1. /\ UNCHANGED <<write_index, readers, read_index, abs_read_offset>>
        /\ slot' = [slot EXCEPT ![index_add(write_index, filled)] = abs_write_offset + filled]
        /\ filled < window
        /\ filled \in Nat
        /\ slot \in [Index -> Int]
    BY <1>3 DEF WriteItem, rdvars, IInv, TypeOK, WorkType, RingType, Index
  <2>2. ASSUME NEW r \in readers, NEW k \in 0 .. items_available(r) - 1
        PROVE  slot'[index_add(read_index[r], k)] = abs_read_offset[r] - Preload[r] + k
    <3>0. /\ k \in Nat /\ k \in Index
          /\ k < index_sub(write_index, read_index[r])
          /\ filled < BufSize - 1 - index_sub(write_index, read_index[r])
      <4>1. /\ items_available(r) \in Index
            /\ items_available(r) = index_sub(write_index, read_index[r])
            /\ window \in 0 .. BufSize - 1 - items_available(r)
        BY ReaderIndices
      <4>. HIDE DEF IInv
      <4>. QED BY <2>1, <4>1 DEF Index
    <3>1. index_add(write_index, filled) # index_add(read_index[r], k)
      BY <2>1, <3>0, ReaderIndices, WindowDisjoint
    <3>2. index_add(read_index[r], k) \in Index
      BY <3>0, ReaderIndices, IndexType
    <3>3. slot[index_add(read_index[r], k)] = abs_read_offset[r] - Preload[r] + k
      BY DEF IInv
    <3>. QED BY <2>1, <3>1, <3>2, <3>3
  <2>. QED BY <2>1, <2>2 DEF items_available
<1>4. ASSUME NEW n \in 0 .. BufSize, UpdateWritePointer(n) PROVE ReaderSeesStream'
  <2>1. ASSUME NEW r \in readers, NEW k \in 0 .. items_available(r) + n - 1
        PROVE  slot[index_add(read_index[r], k)] = abs_read_offset[r] - Preload[r] + k
    <3>1. CASE k < items_available(r)
      <4>1. k \in 0 .. items_available(r) - 1
        BY <3>1, ReaderIndices DEF Index
      <4>. QED BY <4>1 DEF IInv
    <3>2. CASE k >= items_available(r)
      <4>. DEFINE j == k - items_available(r)
      <4>1. j \in 0 .. filled - 1
        BY <1>4, <3>2, ReaderIndices, WriterAdvances DEF Index
      <4>2. j \in Nat /\ j < BufSize - items_available(r)
        BY <4>1, ReaderIndices DEF Index
      <4>3. index_add(read_index[r], items_available(r) + j) = index_add(write_index, j)
        <5>. HIDE DEF j
        <5>. QED BY <4>2, ReaderIndices, WindowFollows
      <4>4. items_available(r) + j = k
        BY ReaderIndices DEF Index
      <4>5. slot[index_add(write_index, j)] = abs_write_offset + j
        BY <4>1 DEF IInv, WindowWritten
      <4>. QED BY <4>3, <4>4, <4>5, ReaderIndices DEF Unread, Index
    <3>. QED BY <3>1, <3>2, ReaderIndices DEF Index
  <2>2. UNCHANGED <<slot, readers, read_index, abs_read_offset>>
    BY <1>4 DEF UpdateWritePointer, rdvars
  <2>3. ASSUME NEW r \in readers PROVE items_available(r)' = items_available(r) + n
    BY <1>4, WriterAdvances
  <2>4. ASSUME NEW r \in readers', NEW k \in 0 .. items_available(r)' - 1
        PROVE  slot'[index_add(read_index'[r], k)] = abs_read_offset'[r] - Preload[r] + k
    <3>0. r \in readers
      BY <2>2
    <3>1. k \in 0 .. items_available(r) + n - 1
      <4>1. items_available(r)' = items_available(r) + n
        BY <2>3, <3>0
      <4>. QED BY <3>0, <4>1, ReaderIndices DEF Index
    <3>2. slot[index_add(read_index[r], k)] = abs_read_offset[r] - Preload[r] + k
      BY <2>1, <3>0, <3>1
    <3>. QED BY <2>2, <3>2
  <2>. QED BY <2>4
<1>5. ASSUME NEW r \in Readers, NEW n \in 1 .. BufSize, UpdateReadPointer(r, n)
      PROVE  ReaderSeesStream'
  <2>1. ASSUME NEW q \in readers \ {r}, NEW k \in 0 .. items_available(q)' - 1
        PROVE  slot'[index_add(read_index'[q], k)] = abs_read_offset'[q] - Preload[q] + k
    BY <1>5, ReaderAdvances DEF IInv
  <2>2. ASSUME r \in readers, NEW k \in 0 .. items_available(r)' - 1
        PROVE  slot'[index_add(read_index'[r], k)] = abs_read_offset'[r] - Preload[r] + k
    <3>1. /\ items_available(r)' = items_available(r) - n
          /\ read_index'[r] = index_add(read_index[r], n)
          /\ abs_read_offset'[r] = abs_read_offset[r] + n
          /\ slot' = slot
      BY <1>5, <2>2, ReaderAdvances
    <3>2. n + k \in 0 .. items_available(r) - 1
      BY <2>2, <3>1, ReaderIndices DEF Index
    <3>3. index_add(index_add(read_index[r], n), k) = index_add(read_index[r], n + k)
      <4>1. n <= index_sub(write_index, read_index[r]) /\ n + k < BufSize
        BY <2>2, <3>2, ReaderIndices DEF Index
      <4>. QED BY <2>2, <4>1, ReaderIndices, ReadAdvance
    <3>4. slot[index_add(read_index[r], n + k)] = abs_read_offset[r] - Preload[r] + (n + k)
      BY <2>2, <3>2 DEF IInv
    <3>. QED BY <2>2, <3>1, <3>3, <3>4, ReaderIndices DEF Index
  <2>. QED BY <1>5, <2>1, <2>2, ReaderAdvances
<1>. QED
  BY <1>1, <1>2, <1>3, <1>4, <1>5 DEF Next, Write, Read, Start, MinAvailableSpace,
     AddItemTag, Snapshot, RemoveItemTag, PropagateTags, SetDone, vars, ring, rdvars

LEMMA NextInv == IInv /\ [Next]_vars => IInv'
  BY NextType, NextUntouched, NextIndicesAgree, NextPromisesKept, NextWindowWritten,
     NextReaderSeesStream DEF IInv

THEOREM Invariance == Spec => []IInv
  BY InitInv, NextInv, PTL DEF Spec

(* No interleaving of the writer and the readers makes the ring indices and *)
(* the item counters disagree.                                              *)
THEOREM IndicesAlwaysAgree == Spec => []IndicesAgree
<1>1. IInv => IndicesAgree
  BY DEF IInv
<1>. QED BY <1>1, Invariance, PTL

(* A work call never finds less input, or less output space, than the       *)
(* executor promised it.                                                    *)
THEOREM PromisesAlwaysKept == Spec => []PromisesKept
<1>1. IInv => PromisesKept
  BY DEF IInv
<1>. QED BY <1>1, Invariance, PTL

(* Each reader reads the stream: nothing unread is ever overwritten.        *)
THEOREM ReadersAlwaysSeeStream == Spec => []ReaderSeesStream
<1>1. IInv => ReaderSeesStream
  BY DEF IInv
<1>. QED BY <1>1, Invariance, PTL

(* The ring as a whole, for any number of readers and any size: each reader  *)
(* has the stream before it, and every promise of items or space is kept.    *)
THEOREM StreamAlwaysKept == Spec => []StreamKept
<1>1. TypeOK /\ IndicesAgree /\ ReaderSeesStream /\ PromisesKept => StreamKept
  BY DEF StreamKept
<1>. QED
  BY <1>1, TypeCorrect, IndicesAlwaysAgree, ReadersAlwaysSeeStream, PromisesAlwaysKept, PTL

-----------------------------------------------------------------------------
(* The ring implements BroadcastFifo.  By IndicesAgree and ReaderSeesStream  *)
(* what lies between a reader's index and the write index is a run of        *)
(* consecutive positions, so that a queue is known by where it begins and    *)
(* by how long it is.                                                        *)
Positions(from, n) == [k \in 1 .. n |-> from + k - 1]

LEMMA PositionsLen ==
    ASSUME NEW from \in Int, NEW n \in Nat
    PROVE  Positions(from, n) \in Seq(Int) /\ Len(Positions(from, n)) = n
  BY DEF Positions

(* Sending extends a run at its end, receiving shortens it at its front.     *)
LEMMA PositionsExtend ==
    ASSUME NEW from \in Int, NEW n \in Nat, NEW m \in Nat
    PROVE  [k \in 1 .. n + m |-> IF k <= n THEN Positions(from, n)[k]
                                 ELSE (from + n) + k - n - 1] = Positions(from, n + m)
  BY DEF Positions

LEMMA PositionsShorten ==
    ASSUME NEW from \in Int, NEW n \in Nat, NEW m \in 0 .. n
    PROVE  [k \in 1 .. n - m |-> Positions(from, n)[k + m]] = Positions(from + m, n - m)
  BY DEF Positions

Queues == [r \in Readers |-> Queue(r)]
First(r) == abs_read_offset[r] - Preload[r]

QueuesAreRuns ==
    /\ Queues = [r \in Readers |-> IF r \in readers THEN Positions(First(r), Unread(r))
                                   ELSE <<>>]
    /\ \A r \in readers : /\ r \in Readers
                          /\ First(r) \in Int
                          /\ Unread(r) \in 0 .. BufSize - 1
                          /\ First(r) + Unread(r) = abs_write_offset

LEMMA QueueIsRun == IInv => QueuesAreRuns
<1>. SUFFICES ASSUME IInv PROVE QueuesAreRuns
  OBVIOUS
<1>1. ASSUME NEW r \in readers
      PROVE  /\ r \in Readers
             /\ First(r) \in Int
             /\ Unread(r) \in 0 .. BufSize - 1
             /\ First(r) + Unread(r) = abs_write_offset
             /\ Queue(r) = Positions(First(r), Unread(r))
  <2>1. /\ items_available(r) = Unread(r) /\ items_available(r) \in Index
        /\ abs_read_offset[r] \in Nat /\ abs_write_offset \in Nat /\ Preload[r] \in Index
    BY ReaderIndices
  <2>2. /\ First(r) \in Int /\ Unread(r) \in 0 .. BufSize - 1
        /\ First(r) + Unread(r) = abs_write_offset
    BY <2>1 DEF First, Unread, Index
  <2>3. ASSUME NEW k \in 1 .. Unread(r)
        PROVE  slot[index_add(read_index[r], k - 1)] = First(r) + k - 1
    <3>1. k - 1 \in 0 .. items_available(r) - 1
      BY <2>1, <2>2
    <3>2. slot[index_add(read_index[r], k - 1)] = abs_read_offset[r] - Preload[r] + (k - 1)
      BY <3>1 DEF IInv, ReaderSeesStream
    <3>. QED BY <2>1, <3>2 DEF First, Index
  <2>. QED BY <2>1, <2>2, <2>3, ReaderIndices DEF Queue, Positions
<1>. QED BY <1>1 DEF Queues, Queue, QueuesAreRuns

LEMMA InitFifo == Init => Fifo!Init
<1>. SUFFICES ASSUME Init PROVE Fifo!Init
  OBVIOUS
<1>1. [r \in Readers |-> Queue(r)] = [r \in Readers |-> <<>>]
  BY DEF Init, Queue
<1>. QED BY <1>1 DEF Fifo!Init, Init

(* A step that moves no index moves no queue.                               *)
LEMMA StutterFifo ==
    ASSUME QueuesAreRuns, QueuesAreRuns',
           UNCHANGED <<readers, abs_write_offset>>,
           \A r \in readers : abs_read_offset'[r] = abs_read_offset[r]
    PROVE  UNCHANGED Fifo!vars
<1>1. \A r \in readers : First(r)' = First(r) /\ Unread(r)' = Unread(r)
  BY DEF First, Unread
<1>2. Queues' = Queues
  BY <1>1 DEF QueuesAreRuns
<1>. QED BY <1>2 DEF Fifo!vars, Queues

LEMMA AttachFifo ==
    ASSUME IInv, QueuesAreRuns, QueuesAreRuns', NEW r \in Readers, AddReader(r)
    PROVE  Fifo!Next
<1>1. /\ abs_write_offset = 0
      /\ abs_write_offset' = abs_write_offset
      /\ readers' = readers \cup {r}
      /\ r \notin readers
      /\ abs_read_offset'[r] = 0
      /\ \A q \in readers : abs_read_offset'[q] = abs_read_offset[q]
  BY AttachedReader DEF AddReader, Untouched, ring
<1>2. \A q \in readers : First(q)' = First(q) /\ Unread(q)' = Unread(q)
  BY <1>1 DEF First, Unread
<1>3. First(r)' = 0 - Preload[r] /\ Unread(r)' = Preload[r] /\ Preload[r] \in Nat
  BY <1>1 DEF First, Unread
<1>4. Positions(0 - Preload[r], Preload[r]) = [k \in 1 .. Preload[r] |-> k - 1 - Preload[r]]
  BY <1>3 DEF Positions
<1>5. Queues' = [Queues EXCEPT ![r] = [k \in 1 .. Preload[r] |-> k - 1 - Preload[r]]]
  BY <1>1, <1>2, <1>3, <1>4 DEF QueuesAreRuns
<1>6. Fifo!Attach(r)
  BY <1>1, <1>5 DEF Fifo!Attach, Queues
<1>. QED BY <1>6 DEF Fifo!Next

LEMMA SendFifo ==
    ASSUME IInv, QueuesAreRuns, QueuesAreRuns', NEW n \in 0 .. BufSize, UpdateWritePointer(n)
    PROVE  [Fifo!Next]_(Fifo!vars)
<1>1. /\ abs_write_offset' = abs_write_offset + n
      /\ readers' = readers
      /\ abs_read_offset' = abs_read_offset
      /\ abs_write_offset \in Nat
      /\ n \in 0 .. BufSize - 1
      /\ \A r \in readers : n <= BufSize - 1 - Unread(r)
  <2>1. n \in 0 .. filled /\ filled \in 0 .. window /\ window \in 0 .. BufSize - 1
    BY DEF IInv, TypeOK, WorkType, UpdateWritePointer
  <2>2. \A r \in readers : n <= BufSize - 1 - Unread(r)
    BY <2>1, ReaderIndices DEF Index
  <2>. QED BY <2>1, <2>2 DEF UpdateWritePointer, rdvars, IInv, TypeOK, RingType
<1>2. CASE n = 0
  BY <1>1, <1>2, StutterFifo
<1>3. CASE n # 0
  <2>1. ASSUME NEW r \in readers
        PROVE  /\ Len(Positions(First(r), Unread(r))) = Unread(r)
               /\ Fifo!Extended(Positions(First(r), Unread(r)), n)
                      = Positions(First(r)', Unread(r)')
    <3>1. First(r) \in Int /\ Unread(r) \in Nat /\ First(r) + Unread(r) = abs_write_offset
      BY DEF QueuesAreRuns
    <3>2. First(r)' = First(r) /\ Unread(r)' = Unread(r) + n
      <4>1. abs_read_offset[r] \in Nat /\ Preload[r] \in Int
        BY ReaderIndices DEF Index
      <4>. QED BY <1>1, <4>1 DEF First, Unread
    <3>3. Len(Positions(First(r), Unread(r))) = Unread(r)
      BY <3>1, PositionsLen
    <3>4. Fifo!Extended(Positions(First(r), Unread(r)), n) =
              [k \in 1 .. Unread(r) + n |->
                  IF k <= Unread(r) THEN Positions(First(r), Unread(r))[k]
                  ELSE (First(r) + Unread(r)) + k - Unread(r) - 1]
      BY <3>1, <3>3 DEF Fifo!Extended
    <3>. QED BY <3>1, <3>2, <3>3, <3>4, PositionsExtend
  <2>2. Queues' = [r \in Readers |-> IF r \in readers THEN Fifo!Extended(Queues[r], n)
                                     ELSE Queues[r]]
    BY <1>1, <2>1 DEF QueuesAreRuns
  <2>3. \A r \in readers : Len(Queues[r]) + n <= BufSize - 1
    BY <1>1, <2>1 DEF QueuesAreRuns
  <2>4. Fifo!Send(n)
    BY <1>1, <2>2, <2>3 DEF Fifo!Send, Queues
  <2>. QED BY <1>1, <1>3, <2>4 DEF Fifo!Next
<1>. QED BY <1>2, <1>3

LEMMA ReceiveFifo ==
    ASSUME IInv, QueuesAreRuns, QueuesAreRuns', NEW r \in Readers, NEW n \in 1 .. BufSize,
           UpdateReadPointer(r, n)
    PROVE  [Fifo!Next]_(Fifo!vars)
<1>1. /\ UNCHANGED <<abs_write_offset, readers>>
      /\ \A q \in readers \ {r} : abs_read_offset'[q] = abs_read_offset[q]
      /\ r \in readers => abs_read_offset'[r] = abs_read_offset[r] + n
  BY ReaderAdvances
<1>2. CASE r \notin readers
  BY <1>1, <1>2, StutterFifo
<1>3. CASE r \in readers
  <2>1. /\ First(r) \in Int /\ Unread(r) \in 0 .. BufSize - 1
        /\ n \in 1 .. Unread(r)
        /\ abs_read_offset[r] \in Nat /\ abs_write_offset \in Nat /\ Preload[r] \in Nat
    <3>1. /\ avail[r] \in -1 .. BufSize - 1 /\ avail[r] <= items_available(r)
          /\ items_available(r) = Unread(r)
          /\ abs_read_offset[r] \in Nat /\ abs_write_offset \in Nat /\ Preload[r] \in Index
      BY <1>3, ReaderIndices
    <3>2. First(r) \in Int /\ Unread(r) \in 0 .. BufSize - 1
      BY <1>3 DEF QueuesAreRuns
    <3>3. n \in 1 .. avail[r] - Preload[r]
      BY DEF UpdateReadPointer
    <3>. QED BY <3>1, <3>2, <3>3 DEF Index
  <2>2. First(r)' = First(r) + n /\ Unread(r)' = Unread(r) - n
    BY <1>1, <1>3, <2>1 DEF First, Unread
  <2>3. \A q \in readers \ {r} : First(q)' = First(q) /\ Unread(q)' = Unread(q)
    BY <1>1 DEF First, Unread
  <2>4. Queues[r] = Positions(First(r), Unread(r)) /\ Len(Queues[r]) = Unread(r)
    BY <1>3, <2>1, PositionsLen DEF QueuesAreRuns
  <2>5. [k \in 1 .. Len(Queues[r]) - n |-> Queues[r][k + n]]
            = Positions(First(r)', Unread(r)')
    <3>1. [k \in 1 .. Unread(r) - n |-> Positions(First(r), Unread(r))[k + n]]
              = Positions(First(r) + n, Unread(r) - n)
      <4>1. Unread(r) \in Nat /\ n \in 0 .. Unread(r)
        BY <2>1
      <4>. QED BY <2>1, <4>1, PositionsShorten
    <3>. QED BY <2>2, <2>4, <3>1
  <2>6. Queues' = [Queues EXCEPT ![r] = [k \in 1 .. Len(@) - n |-> @[k + n]]]
    <3>1. Queues \in [Readers -> {Queues[q] : q \in Readers}]
      BY DEF QueuesAreRuns
    <3>2. ASSUME NEW q \in Readers
          PROVE  Queues'[q] = IF q = r THEN Positions(First(r)', Unread(r)') ELSE Queues[q]
      BY <1>1, <1>3, <2>3 DEF QueuesAreRuns
    <3>. QED BY <2>5, <3>1, <3>2 DEF QueuesAreRuns
  <2>7. Fifo!Receive(r, n)
    BY <1>1, <1>3, <2>1, <2>4, <2>6 DEF Fifo!Receive, Queues
  <2>8. n \in 1 .. BufSize - 1
    BY <2>1
  <2>. QED BY <2>7, <2>8 DEF Fifo!Next
<1>. QED BY <1>2, <1>3

LEMMA StepFifo ==
    ASSUME IInv, IInv', [Next]_vars
    PROVE  [Fifo!Next]_(Fifo!vars)
<1>1. QueuesAreRuns
  BY QueueIsRun
<1>2. QueuesAreRuns'
  BY QueueIsRun, PTL
<1>3. CASE UNCHANGED <<readers, abs_write_offset, abs_read_offset>>
  BY <1>1, <1>2, <1>3, StutterFifo
<1>4. ASSUME NEW r \in Readers, AddReader(r) PROVE [Fifo!Next]_(Fifo!vars)
  BY <1>1, <1>2, <1>4, AttachFifo
<1>5. ASSUME NEW n \in 0 .. BufSize, UpdateWritePointer(n) PROVE [Fifo!Next]_(Fifo!vars)
  BY <1>1, <1>2, <1>5, SendFifo
<1>6. ASSUME NEW r \in Readers, NEW n \in 1 .. BufSize, UpdateReadPointer(r, n)
      PROVE  [Fifo!Next]_(Fifo!vars)
  BY <1>1, <1>2, <1>6, ReceiveFifo
<1>. QED
  BY <1>3, <1>4, <1>5, <1>6 DEF Next, Write, Read, Start, MinAvailableSpace, WriteItem,
     AddItemTag, Snapshot, RemoveItemTag, PropagateTags, SetDone, vars, ring, rdvars

(* Every behaviour of the ring is a behaviour of one bounded FIFO queue per  *)
(* reader, whatever the number of readers, the size and the histories: a     *)
(* block cannot tell the ring from queues of its own.                        *)
THEOREM RingIsBroadcastFifo == Spec => FifoSpec
<1>1. IInv /\ [Next]_vars => IInv'
  BY NextInv
<1>2. IInv /\ IInv' /\ [Next]_vars => [Fifo!Next]_(Fifo!vars)
  BY StepFifo
<1>. QED BY <1>2, InitFifo, Invariance, PTL DEF Spec, FifoSpec, Fifo!Spec

-----------------------------------------------------------------------------
(* Tags, for readers whose sample delay is at most one item.  A larger one   *)
(* breaks both halves: get_tags_in_range skips tags near the start of the    *)
(* stream, and the pruning follows the delay of the reader attached last.    *)
SmallDelays ==
    /\ \A r \in Readers : Delay[r] \in 0 .. 1
    /\ MaxItems < U64

\* A reader never steps into its own history.
HistoryKept == \A r \in readers : Preload[r] <= Unread(r)

\* A work call consumes less than one buffer between noting its start and
\* asking for its tags.
CallIsShort ==
    \A r \in readers :
        /\ avail[r] = -1 => abs_read_offset[r] = start[r]
        /\ avail[r] >= 0 => abs_read_offset[r] - start[r] \in 0 .. BufSize - 1 - avail[r]

MinimumIsOld == \A r \in readers : last_min_items_read <= abs_read_offset[r]

Bounded == abs_write_offset + window <= MaxItems

DeletionsSeen ==
    \A t \in item_tags : \A r \in t.marked_deleted : Name(t) \in delivered[r]

\* Before the threads run there is nothing to prune.
NoTagsYet ==
    /\ last_min_items_read = 0
    /\ added = {}
    /\ start = [r \in Readers |-> 0]

TagInv ==
    /\ IInv
    /\ running \/ NoTagsYet
    /\ HistoryKept
    /\ CallIsShort
    /\ MinimumIsOld
    /\ Bounded
    /\ DeletionsSeen
    /\ TagsSurvive
    /\ TagsDelivered

LEMMA InitTagInv == Init => TagInv
<1>. SUFFICES ASSUME Init PROVE TagInv
  OBVIOUS
<1>1. IInv
  BY InitInv
<1>2. NoTagsYet /\ Bounded /\ DeletionsSeen
  BY DEF Init, NoTagsYet, Bounded, DeletionsSeen
<1>3. HistoryKept /\ CallIsShort /\ MinimumIsOld /\ TagsSurvive /\ TagsDelivered
  BY DEF Init, HistoryKept, CallIsShort, MinimumIsOld, TagsSurvive, TagsDelivered
<1>. QED BY <1>1, <1>2, <1>3 DEF TagInv

LEMMA NextNoTagsYet == TagInv /\ [Next]_vars => (running \/ NoTagsYet)'
<1>. SUFFICES ASSUME TagInv, [Next]_vars PROVE (running \/ NoTagsYet)'
  OBVIOUS
<1>1. CASE running
  BY <1>1 DEF Next, Write, Read, AddReader, Start, MinAvailableSpace, WriteItem,
     AddItemTag, UpdateWritePointer, Snapshot, UpdateReadPointer, RemoveItemTag,
     PropagateTags, SetDone, vars
<1>2. CASE ~running /\ Untouched /\ NoTagsYet
  <2>. USE <1>2 DEF Untouched, NoTagsYet
  <2>1. ~WriteItem
    BY DEF WriteItem, TagInv, IInv, TypeOK, WorkType
  <2>2. ASSUME NEW r \in Readers PROVE ~Read(r)
    BY DEF Read, Snapshot, UpdateReadPointer, RemoveItemTag, PropagateTags
  <2>3. CASE UNCHANGED <<last_min_items_read, added, start>>
    BY <2>3
  <2>. QED BY <2>1, <2>2, <2>3 DEF Next, Write, AddReader, Start, MinAvailableSpace,
         AddItemTag, UpdateWritePointer, SetDone, vars, tagvars, reader
<1>. QED BY <1>1, <1>2 DEF TagInv, IInv

(* What a reader's counters are, in one place.                              *)
LEMMA ReaderCounters ==
    ASSUME TagInv, NEW r \in readers
    PROVE  /\ r \in Readers
           /\ Preload[r] \in Nat
           /\ start[r] \in Nat
           /\ abs_read_offset[r] \in Nat
           /\ abs_write_offset \in Nat
           /\ last_min_items_read \in Nat
           /\ avail[r] \in -1 .. BufSize - 1
           /\ avail[r] <= Unread(r)
           /\ start[r] <= abs_read_offset[r]
           /\ abs_read_offset[r] <= abs_write_offset
           /\ abs_read_offset[r] - start[r] < BufSize
           /\ last_min_items_read <= abs_read_offset[r]
           /\ abs_write_offset <= MaxItems
<1>1. /\ r \in Readers
      /\ abs_read_offset[r] \in Nat /\ abs_write_offset \in Nat /\ Preload[r] \in Nat
      /\ avail[r] \in -1 .. BufSize - 1 /\ avail[r] <= Unread(r)
  BY ReaderIndices DEF TagInv, Index
<1>2. start[r] \in Nat /\ last_min_items_read \in Nat /\ window \in Nat
  BY <1>1 DEF TagInv, IInv, TypeOK, WorkType, TagsType
<1>3. Preload[r] <= Unread(r)
  BY DEF TagInv, HistoryKept
<1>4. /\ avail[r] = -1 => abs_read_offset[r] = start[r]
      /\ avail[r] >= 0 => abs_read_offset[r] - start[r] \in 0 .. BufSize - 1 - avail[r]
  BY DEF TagInv, CallIsShort
<1>5. last_min_items_read <= abs_read_offset[r] /\ abs_write_offset + window <= MaxItems
  BY DEF TagInv, MinimumIsOld, Bounded
<1>6. start[r] <= abs_read_offset[r] /\ abs_read_offset[r] - start[r] < BufSize
  BY <1>1, <1>2, <1>4
<1>7. abs_read_offset[r] <= abs_write_offset
  BY <1>1, <1>3 DEF Unread
<1>. QED BY <1>1, <1>2, <1>5, <1>6, <1>7

LEMMA NextHistoryKept == TagInv /\ [Next]_vars => HistoryKept'
<1>. SUFFICES ASSUME TagInv, [Next]_vars PROVE HistoryKept'
  OBVIOUS
<1>. USE DEF HistoryKept
<1>1. CASE UNCHANGED <<abs_write_offset, readers, abs_read_offset>>
  BY <1>1 DEF TagInv, Unread
<1>2. ASSUME NEW r \in Readers, AddReader(r) PROVE HistoryKept'
  <2>1. /\ readers' = readers \cup {r}
        /\ abs_write_offset' = abs_write_offset
        /\ abs_write_offset = 0
        /\ \A q \in readers : abs_read_offset'[q] = abs_read_offset[q]
        /\ abs_read_offset'[r] = 0
        /\ Preload[r] \in Nat
    <3>1. IInv
      BY DEF TagInv
    <3>2. /\ Untouched
          /\ \A q \in readers : abs_read_offset'[q] = abs_read_offset[q]
          /\ abs_read_offset'[r] = 0
      BY <1>2, <3>1, AttachedReader
    <3>3. readers' = readers \cup {r} /\ abs_write_offset' = abs_write_offset
      BY <1>2 DEF AddReader, ring
    <3>. QED BY <3>2, <3>3 DEF Untouched
  <2>2. \A q \in readers : Unread(q)' = Unread(q)
    BY <2>1 DEF Unread
  <2>3. Unread(r)' = Preload[r]
    BY <2>1 DEF Unread
  <2>. QED BY <2>1, <2>2, <2>3 DEF TagInv
<1>3. ASSUME NEW n \in 0 .. BufSize, UpdateWritePointer(n) PROVE HistoryKept'
  <2>1. /\ UNCHANGED <<readers, abs_read_offset>>
        /\ abs_write_offset' = abs_write_offset + n
    BY <1>3 DEF UpdateWritePointer, rdvars
  <2>2. ASSUME NEW q \in readers PROVE Preload[q] <= Unread(q)'
    <3>1. Preload[q] <= Unread(q)
      BY DEF TagInv
    <3>. QED BY <2>1, <3>1, ReaderCounters DEF Unread
  <2>. QED BY <2>1, <2>2
<1>4. ASSUME NEW r \in Readers, NEW n \in 1 .. BufSize, UpdateReadPointer(r, n)
      PROVE  HistoryKept'
  <2>1. /\ UNCHANGED <<abs_write_offset, readers>>
        /\ \A q \in readers \ {r} : abs_read_offset'[q] = abs_read_offset[q]
        /\ r \in readers => abs_read_offset'[r] = abs_read_offset[r] + n
    BY <1>4, ReaderAdvances DEF TagInv
  <2>2. \A q \in readers \ {r} : Unread(q)' = Unread(q)
    BY <2>1 DEF Unread
  <2>3. ASSUME r \in readers PROVE Preload[r] <= Unread(r)'
    <3>1. n <= avail[r] - Preload[r]
      BY <1>4 DEF UpdateReadPointer
    <3>. QED BY <2>1, <2>3, <3>1, ReaderCounters DEF Unread
  <2>. QED BY <2>1, <2>2, <2>3 DEF TagInv
<1>. QED
  BY <1>1, <1>2, <1>3, <1>4 DEF Next, Write, Read, Start, MinAvailableSpace, WriteItem,
     AddItemTag, Snapshot, RemoveItemTag, PropagateTags, SetDone, vars, ring, rdvars

LEMMA NextCallIsShort == TagInv /\ [Next]_vars => CallIsShort'
<1>. SUFFICES ASSUME TagInv, [Next]_vars PROVE CallIsShort'
  OBVIOUS
<1>. USE DEF CallIsShort
<1>1. CASE UNCHANGED <<readers, abs_read_offset, avail, start>>
  BY <1>1 DEF TagInv
<1>2. ASSUME NEW r \in Readers, AddReader(r) PROVE CallIsShort'
  <2>1. /\ readers' = readers \cup {r}
        /\ UNCHANGED <<avail, start>>
        /\ \A q \in readers : abs_read_offset'[q] = abs_read_offset[q]
        /\ abs_read_offset'[r] = 0
        /\ avail[r] = -1
        /\ start[r] = 0
    BY <1>2, AttachedReader DEF AddReader, reader, Untouched, NoTagsYet, TagInv
  <2>. QED BY <2>1 DEF TagInv
<1>3. ASSUME NEW r \in Readers, Snapshot(r) PROVE CallIsShort'
  <2>1. /\ UNCHANGED <<readers, abs_read_offset>>
        /\ \A q \in readers \ {r} : avail'[q] = avail[q] /\ start'[q] = start[q]
        /\ avail'[r] = items_available(r)
        /\ start'[r] = abs_read_offset[r]
        /\ r \in readers
    BY <1>3 DEF Snapshot, rdvars, TagInv, IInv, TypeOK, WorkType, ReadersType
  <2>2. items_available(r) \in 0 .. BufSize - 1 /\ abs_read_offset[r] \in Nat
    BY <2>1, ReaderIndices DEF TagInv, Index
  <2>. QED BY <2>1, <2>2 DEF TagInv
<1>4. ASSUME NEW r \in Readers, NEW n \in 1 .. BufSize, UpdateReadPointer(r, n)
      PROVE  CallIsShort'
  <2>1. /\ UNCHANGED <<readers, start>>
        /\ \A q \in readers \ {r} : /\ abs_read_offset'[q] = abs_read_offset[q]
                                    /\ avail'[q] = avail[q]
        /\ r \in readers => /\ abs_read_offset'[r] = abs_read_offset[r] + n
                            /\ avail'[r] = avail[r] - n
    BY <1>4 DEF UpdateReadPointer, TagInv, IInv, TypeOK, WorkType, ReadersType
  <2>2. ASSUME r \in readers
        PROVE  avail[r] - n >= 0 /\ abs_read_offset'[r] - start[r] \in 0 .. BufSize - 1 - (avail[r] - n)
    <3>1. n <= avail[r] - Preload[r] /\ avail[r] >= 0
      BY <1>4 DEF UpdateReadPointer
    <3>2. abs_read_offset[r] - start[r] \in 0 .. BufSize - 1 - avail[r]
      BY <2>2, <3>1 DEF TagInv
    <3>. QED BY <2>1, <2>2, <3>1, <3>2, ReaderCounters
  <2>3. r \in readers => avail[r] \in Int
    BY ReaderCounters
  <2>. QED BY <2>1, <2>2, <2>3 DEF TagInv
<1>5. ASSUME NEW r \in Readers, PropagateTags(r) PROVE CallIsShort'
  <2>1. /\ UNCHANGED <<readers, abs_read_offset>>
        /\ \A q \in readers \ {r} : avail'[q] = avail[q] /\ start'[q] = start[q]
        /\ avail'[r] = -1
        /\ start'[r] = abs_read_offset[r]
    BY <1>5 DEF PropagateTags, rdvars, TagInv, IInv, TypeOK, WorkType, ReadersType
  <2>. QED BY <2>1 DEF TagInv
<1>. QED
  BY <1>1, <1>2, <1>3, <1>4, <1>5 DEF Next, Write, Read, Start, MinAvailableSpace, WriteItem,
     AddItemTag, UpdateWritePointer, RemoveItemTag, SetDone, vars, rdvars, reader

LEMMA NextMinimumIsOld == TagInv /\ [Next]_vars => MinimumIsOld'
<1>. SUFFICES ASSUME TagInv, [Next]_vars PROVE MinimumIsOld'
  OBVIOUS
<1>. USE DEF MinimumIsOld
<1>1. CASE UNCHANGED <<readers, abs_read_offset, last_min_items_read>>
  BY <1>1 DEF TagInv
<1>2. ASSUME NEW r \in Readers, AddReader(r) PROVE MinimumIsOld'
  <2>1. /\ readers' = readers \cup {r}
        /\ last_min_items_read' = 0
        /\ \A q \in readers : abs_read_offset'[q] = abs_read_offset[q]
        /\ abs_read_offset'[r] = 0
    BY <1>2, AttachedReader DEF AddReader, NoTagsYet, TagInv
  <2>. QED BY <2>1, ReaderCounters
<1>3. ASSUME NEW n \in 0 .. BufSize, MinAvailableSpace(n) PROVE MinimumIsOld'
  BY <1>3 DEF MinAvailableSpace, rdvars, IsMinItemsRead, TagInv
<1>4. ASSUME NEW r \in Readers, NEW n \in 1 .. BufSize, UpdateReadPointer(r, n)
      PROVE  MinimumIsOld'
  <2>1. /\ UNCHANGED <<readers, last_min_items_read>>
        /\ \A q \in readers \ {r} : abs_read_offset'[q] = abs_read_offset[q]
        /\ r \in readers => abs_read_offset'[r] = abs_read_offset[r] + n
    BY <1>4 DEF UpdateReadPointer, tagvars, TagInv, IInv, TypeOK, ReadersType
  <2>. QED BY <2>1, ReaderCounters DEF TagInv
<1>. QED
  BY <1>1, <1>2, <1>3, <1>4 DEF Next, Write, Read, Start, WriteItem, AddItemTag,
     UpdateWritePointer, Snapshot, RemoveItemTag, PropagateTags, SetDone, vars, rdvars,
     tagvars

LEMMA NextBounded == TagInv /\ [Next]_vars => Bounded'
<1>. SUFFICES ASSUME TagInv, [Next]_vars PROVE Bounded'
  OBVIOUS
<1>. USE DEF Bounded
<1>1. CASE UNCHANGED <<abs_write_offset, window>>
  BY <1>1 DEF TagInv
<1>2. ASSUME NEW n \in 0 .. BufSize, MinAvailableSpace(n) PROVE Bounded'
  BY <1>2 DEF MinAvailableSpace, ring
<1>3. ASSUME NEW n \in 0 .. BufSize, UpdateWritePointer(n) PROVE Bounded'
  BY <1>3 DEF UpdateWritePointer, TagInv, IInv, TypeOK, WorkType, RingType
<1>. QED
  BY <1>1, <1>2, <1>3 DEF Next, Write, Read, AddReader, Start, WriteItem, AddItemTag,
     Snapshot, UpdateReadPointer, RemoveItemTag, PropagateTags, SetDone, vars, ring, writer

LEMMA MarkOf ==
    ASSUME NEW t \in Tag, NEW r
    PROVE  [t EXCEPT !.marked_deleted = @ \cup {r}]
               = [offset |-> t.offset, key |-> t.key, marked_deleted |-> t.marked_deleted \cup {r}]
<1>1. \A S : [t EXCEPT !.marked_deleted = S] = [offset |-> t.offset, key |-> t.key, marked_deleted |-> S]
  BY DEF Tag
<1>. QED BY <1>1

LEMMA MarkedTag ==
    ASSUME TypeOK, NEW r \in Readers, NEW t \in item_tags, RemoveItemTag(r, t)
    PROVE  \E u \in Tag : /\ u.marked_deleted = t.marked_deleted \cup {r}
                          /\ Name(u) = Name(t)
                          /\ item_tags' = (item_tags \ {t}) \cup {u}
<1>1. t \in Tag
  BY DEF TypeOK, TagsType
<1>. DEFINE u == [offset |-> t.offset, key |-> t.key,
                  marked_deleted |-> t.marked_deleted \cup {r}]
<1>2. u \in Tag /\ u.marked_deleted = t.marked_deleted \cup {r} /\ Name(u) = Name(t)
  BY <1>1 DEF Tag, Name
<1>4. [t EXCEPT !.marked_deleted = @ \cup {r}] = u
  BY <1>1, MarkOf
<1>5. item_tags' = (item_tags \ {t}) \cup {u}
  BY <1>4 DEF RemoveItemTag
<1>. HIDE DEF u
<1>. QED BY <1>2, <1>5

LEMMA NextDeletionsSeen == TagInv /\ [Next]_vars => DeletionsSeen'
<1>. SUFFICES ASSUME TagInv, [Next]_vars PROVE DeletionsSeen'
  OBVIOUS
<1>. USE DEF DeletionsSeen
<1>1. CASE item_tags' \subseteq item_tags /\ delivered' = delivered
  BY <1>1 DEF TagInv
<1>2. ASSUME NEW n \in 0 .. BufSize, MinAvailableSpace(n)
      PROVE  item_tags' \subseteq item_tags /\ delivered' = delivered
  BY <1>2 DEF MinAvailableSpace, Pruned, reader
<1>3. ASSUME NEW o \in 0 .. MaxItems, NEW k \in Keys, AddItemTag(o, k) PROVE DeletionsSeen'
  <2>. DEFINE new == [offset |-> o, key |-> k, marked_deleted |-> {}]
  <2>1. item_tags' = item_tags \cup {new} /\ delivered' = delivered
    BY <1>3 DEF AddItemTag, reader
  <2>2. new.marked_deleted = {}
    OBVIOUS
  <2>. HIDE DEF new
  <2>. QED BY <2>1, <2>2 DEF TagInv
<1>4. ASSUME NEW r \in Readers, NEW t \in item_tags, RemoveItemTag(r, t)
      PROVE  DeletionsSeen'
  <2>1. PICK u \in Tag : /\ u.marked_deleted = t.marked_deleted \cup {r}
                         /\ Name(u) = Name(t)
                         /\ item_tags' = (item_tags \ {t}) \cup {u}
    BY <1>4, MarkedTag DEF TagInv, IInv
  <2>2. delivered' = [delivered EXCEPT ![r] = @ \cup {Name(t)}]
    BY <1>4 DEF RemoveItemTag
  <2>3. delivered \in [Readers -> SUBSET (Nat \X Keys)]
    BY DEF TagInv, IInv, TypeOK, TagsType
  <2>4. ASSUME NEW q \in Readers
        PROVE  delivered[q] \subseteq delivered'[q] /\ Name(t) \in delivered'[r]
    BY <2>2, <2>3
  <2>5. \A v \in item_tags : v \in Tag /\ v.marked_deleted \subseteq Readers
    BY DEF TagInv, IInv, TypeOK, TagsType, Tag
  <2>. QED BY <2>1, <2>4, <2>5 DEF TagInv
<1>5. ASSUME NEW r \in Readers, PropagateTags(r) PROVE DeletionsSeen'
  <2>1. PICK got : delivered' = [delivered EXCEPT ![r] = @ \cup Names(got)]
    BY <1>5 DEF PropagateTags
  <2>2. delivered \in [Readers -> SUBSET (Nat \X Keys)]
    BY DEF TagInv, IInv, TypeOK, TagsType
  <2>3. \A q \in Readers : delivered[q] \subseteq delivered'[q]
    BY <2>1, <2>2
  <2>4. \A v \in item_tags : v \in Tag /\ v.marked_deleted \subseteq Readers
    BY DEF TagInv, IInv, TypeOK, TagsType, Tag
  <2>5. item_tags' = item_tags
    BY <1>5 DEF PropagateTags, tagvars
  <2>. QED BY <2>3, <2>4, <2>5 DEF TagInv
<1>. QED
  BY <1>1, <1>2, <1>3, <1>4, <1>5 DEF Next, Write, Read, AddReader, Start, WriteItem,
     UpdateWritePointer, Snapshot, UpdateReadPointer, SetDone, vars, tagvars, reader

(* The tags one reader still waits for are within a buffer of where it reads. *)
LEMMA NextTagsSurvive ==
    ASSUME SmallDelays, TagInv, [Next]_vars
    PROVE  TagsSurvive'
<1>. USE DEF TagsSurvive
<1>1. ASSUME UNCHANGED <<readers, added, start>>, Names(item_tags) \subseteq Names(item_tags')
      PROVE  TagsSurvive'
  BY <1>1 DEF TagInv
<1>2. CASE UNCHANGED <<readers, added, start, item_tags>>
  BY <1>1, <1>2 DEF Names
<1>3. ASSUME NEW r \in Readers, AddReader(r) PROVE TagsSurvive'
  BY <1>3 DEF TagInv, AddReader, NoTagsYet
<1>4. ASSUME NEW n \in 0 .. BufSize, MinAvailableSpace(n) PROVE TagsSurvive'
  <2>1. UNCHANGED <<readers, added, start>>
    BY <1>4 DEF MinAvailableSpace, rdvars, reader
  <2>2. CASE item_tags' = item_tags
    BY <1>1, <2>1, <2>2 DEF Names
  <2>3. CASE item_tags' = Pruned(last_min_items_read)
    <3>1. ASSUME NEW r \in readers, NEW t \in item_tags, t.offset + Delay[r] >= start[r]
          PROVE  t \in item_tags'
      <4>1. /\ start[r] \in Nat /\ abs_read_offset[r] \in Nat /\ last_min_items_read \in Nat
            /\ abs_read_offset[r] - start[r] < BufSize
            /\ last_min_items_read <= abs_read_offset[r]
            /\ Delay[r] \in 0 .. 1
        BY ReaderCounters DEF SmallDelays
      <4>2. t.offset \in Nat /\ max_reader_delay \in Nat
        BY DEF TagInv, IInv, TypeOK, TagsType, Tag
      <4>3. t.offset + max_reader_delay + BufSize >= last_min_items_read
        BY <3>1, <4>1, <4>2
      <4>. QED BY <2>3, <4>3 DEF Pruned
    <3>2. ASSUME NEW r \in readers, NEW o \in 0 .. MaxItems, NEW k \in Keys,
                 <<o, k>> \in added, o + Delay[r] >= start[r]
          PROVE  <<o, k>> \in Names(item_tags')
      <4>1. <<o, k>> \in Names(item_tags)
        BY <3>2 DEF TagInv
      <4>2. PICK t \in item_tags : Name(t) = <<o, k>>
        BY <4>1 DEF Names
      <4>3. t.offset = o
        BY <4>2 DEF Name
      <4>. QED BY <3>1, <3>2, <4>2, <4>3 DEF Names
    <3>. QED BY <2>1, <3>2
  <2>. QED BY <1>4, <2>2, <2>3 DEF MinAvailableSpace
<1>5. ASSUME NEW o \in 0 .. MaxItems, NEW k \in Keys, AddItemTag(o, k) PROVE TagsSurvive'
  <2>. DEFINE new == [offset |-> o, key |-> k, marked_deleted |-> {}]
  <2>1. /\ item_tags' = item_tags \cup {new}
        /\ added' = added \cup {<<o, k>>}
        /\ UNCHANGED <<readers, start>>
    BY <1>5 DEF AddItemTag, rdvars, reader
  <2>2. Name(new) = <<o, k>>
    BY DEF Name
  <2>. HIDE DEF new
  <2>3. Names(item_tags') = Names(item_tags) \cup {<<o, k>>}
    BY <2>1, <2>2 DEF Names
  <2>. QED BY <2>1, <2>3 DEF TagInv
<1>6. ASSUME NEW r \in Readers, Snapshot(r) PROVE TagsSurvive'
  <2>1. r \in readers /\ avail[r] = -1
    BY <1>6 DEF Snapshot
  <2>2. start' = start
    <3>1. abs_read_offset[r] = start[r]
      BY <2>1 DEF TagInv, CallIsShort
    <3>. QED BY <1>6, <3>1 DEF Snapshot, TagInv, IInv, TypeOK, WorkType
  <2>. QED BY <1>2, <1>6, <2>2 DEF Snapshot, rdvars, tagvars
<1>7. ASSUME NEW r \in Readers, NEW t \in item_tags, RemoveItemTag(r, t) PROVE TagsSurvive'
  <2>1. PICK u \in Tag : /\ Name(u) = Name(t)
                         /\ item_tags' = (item_tags \ {t}) \cup {u}
    BY <1>7, MarkedTag DEF TagInv, IInv
  <2>2. Names(item_tags) \subseteq Names(item_tags')
    BY <2>1 DEF Names
  <2>. QED BY <1>1, <1>7, <2>2 DEF RemoveItemTag, rdvars
<1>8. ASSUME NEW r \in Readers, PropagateTags(r) PROVE TagsSurvive'
  <2>1. /\ UNCHANGED <<readers, added, item_tags>>
        /\ \A q \in readers \ {r} : start'[q] = start[q]
        /\ start'[r] = abs_read_offset[r]
    BY <1>8 DEF PropagateTags, rdvars, tagvars, TagInv, IInv, TypeOK, WorkType, ReadersType
  <2>2. ASSUME NEW q \in readers
        PROVE  start[q] <= start'[q] /\ start[q] \in Nat /\ start'[q] \in Nat /\ Delay[q] \in Nat
    BY <2>1, ReaderCounters
  <2>. QED BY <2>1, <2>2 DEF TagInv
<1>. QED
  BY <1>2, <1>3, <1>4, <1>5, <1>6, <1>7, <1>8 DEF Next, Write, Read, Start, WriteItem,
     UpdateWritePointer, UpdateReadPointer, SetDone, vars, rdvars, tagvars, reader

(* Near the start of the stream the difference wraps and is not taken.      *)
LEMMA ShiftedIs ==
    ASSUME SmallDelays, NEW r \in Readers, NEW x \in 0 .. MaxItems
    PROVE  Shifted(r, x) = IF x >= Delay[r] THEN x - Delay[r] ELSE x
<1>1. Delay[r] \in 0 .. 1 /\ MaxItems < 4096
  BY DEF SmallDelays, U64
<1>2. CASE x >= Delay[r]
  <2>1. (x - Delay[r]) % 4096 = x - Delay[r]
    BY <1>1, <1>2
  <2>. QED BY <1>1, <1>2, <2>1 DEF Shifted, Unsigned, U64
<1>3. CASE x < Delay[r]
  <2>1. x = 0 /\ Delay[r] = 1
    BY <1>1, <1>3
  <2>. DEFINE y == x - Delay[r]
  <2>2. y \in Int
    BY <2>1
  <2>3. y % 4096 \in Int /\ y % 4096 >= 0
    <3>. HIDE DEF y
    <3>. QED BY <2>2
  <2>4. ~(Unsigned(x - Delay[r]) < x)
    BY <2>1, <2>3 DEF Unsigned, U64
  <2>. QED BY <2>1, <2>4 DEF Shifted
<1>. QED BY <1>1, <1>2, <1>3

LEMMA WalkMeetsItsEnd ==
    ASSUME SmallDelays, TagInv
    PROVE  WalkEnds
<1>. SUFFICES ASSUME NEW r \in readers
              PROVE  ~WalkOverruns(r, start[r], abs_read_offset[r])
  BY DEF WalkEnds
<1>1. /\ r \in Readers
      /\ start[r] \in 0 .. MaxItems /\ abs_read_offset[r] \in 0 .. MaxItems
      /\ start[r] <= abs_read_offset[r]
      /\ Delay[r] \in 0 .. 1
  BY ReaderCounters DEF SmallDelays
<1>2. Shifted(r, start[r]) <= Shifted(r, abs_read_offset[r])
  BY <1>1, ShiftedIs
<1>3. \A t \in item_tags : t.offset \in Nat
  BY DEF TagInv, IInv, TypeOK, TagsType, Tag
<1>4. Shifted(r, start[r]) \in Int /\ Shifted(r, abs_read_offset[r]) \in Int
  BY <1>1, ShiftedIs
<1>. QED BY <1>2, <1>3, <1>4 DEF WalkOverruns

LEMMA NextTagsDelivered ==
    ASSUME SmallDelays, TagInv, [Next]_vars
    PROVE  TagsDelivered'
<1>. USE DEF TagsDelivered
<1>0. ASSUME UNCHANGED <<readers, added, start>>,
             \A q \in Readers : delivered[q] \subseteq delivered'[q]
      PROVE  TagsDelivered'
  BY <1>0, ReaderCounters DEF TagInv
<1>1. CASE UNCHANGED <<readers, added, start, delivered>>
  BY <1>0, <1>1
<1>2. ASSUME NEW r \in Readers, AddReader(r) PROVE TagsDelivered'
  BY <1>2 DEF TagInv, AddReader, NoTagsYet
<1>3. ASSUME NEW o \in 0 .. MaxItems, NEW k \in Keys, AddItemTag(o, k) PROVE TagsDelivered'
  <2>1. /\ added' = added \cup {<<o, k>>}
        /\ UNCHANGED <<readers, start, delivered>>
        /\ o >= abs_write_offset
    BY <1>3 DEF AddItemTag, rdvars, reader, TagInv, IInv, TypeOK, RingType, WorkType
  <2>2. ASSUME NEW r \in readers PROVE ~(o + Delay[r] < start[r])
    BY <2>1, <2>2, ReaderCounters
  <2>. QED BY <2>1, <2>2 DEF TagInv
<1>4. ASSUME NEW r \in Readers, Snapshot(r) PROVE TagsDelivered'
  <2>1. r \in readers /\ avail[r] = -1
    BY <1>4 DEF Snapshot
  <2>2. start' = start
    <3>1. abs_read_offset[r] = start[r]
      BY <2>1 DEF TagInv, CallIsShort
    <3>. QED BY <1>4, <3>1 DEF Snapshot, TagInv, IInv, TypeOK, WorkType
  <2>. QED BY <1>1, <1>4, <2>2 DEF Snapshot, rdvars
<1>5. ASSUME NEW r \in Readers, NEW t \in item_tags, RemoveItemTag(r, t)
      PROVE  TagsDelivered'
  <2>1. \A q \in Readers : delivered[q] \subseteq delivered'[q]
    BY <1>5 DEF RemoveItemTag, TagInv, IInv, TypeOK, TagsType
  <2>. QED BY <1>0, <1>5, <2>1 DEF RemoveItemTag, rdvars
<1>6. ASSUME NEW r \in Readers, PropagateTags(r) PROVE TagsDelivered'
  <2>1. /\ UNCHANGED <<readers, added>>
        /\ \A q \in readers \ {r} : start'[q] = start[q]
        /\ start'[r] = abs_read_offset[r]
        /\ avail[r] >= 0
    BY <1>6 DEF PropagateTags, rdvars, TagInv, IInv, TypeOK, WorkType, ReadersType
  <2>2. PICK got \in TagsReturned(r, start[r], abs_read_offset[r]) :
            delivered' = [delivered EXCEPT ![r] = @ \cup Names(got)]
    BY <1>6 DEF PropagateTags
  <2>3. /\ \A q \in readers \ {r} : delivered'[q] = delivered[q]
        /\ delivered'[r] = delivered[r] \cup Names(got)
    BY <2>2, ReaderCounters DEF TagInv, IInv, TypeOK, TagsType
  <2>4. ASSUME r \in readers, NEW o \in 0 .. MaxItems, NEW k \in Keys,
               <<o, k>> \in added, o + Delay[r] < abs_read_offset[r]
        PROVE  <<o, k>> \in delivered'[r]
    <3>1. /\ start[r] \in 0 .. MaxItems /\ abs_read_offset[r] \in 0 .. MaxItems
          /\ start[r] <= abs_read_offset[r]
          /\ Delay[r] \in 0 .. 1
      BY <2>4, ReaderCounters DEF SmallDelays
    <3>2. CASE o + Delay[r] < start[r]
      BY <2>3, <2>4, <3>2 DEF TagInv
    <3>3. CASE o + Delay[r] >= start[r]
      <4>1. <<o, k>> \in Names(item_tags)
        BY <2>4, <3>3 DEF TagInv, TagsSurvive
      <4>2. PICK t \in item_tags : Name(t) = <<o, k>>
        BY <4>1 DEF Names
      <4>3. t.offset = o
        BY <4>2 DEF Name
      <4>4. CASE r \in t.marked_deleted
        BY <2>3, <4>2, <4>4 DEF TagInv, DeletionsSeen
      <4>5. CASE r \notin t.marked_deleted
        <5>1. got = TagsInRange(r, start[r], abs_read_offset[r])
          BY <2>1, <2>2, <2>4, WalkMeetsItsEnd DEF WalkEnds, TagsReturned
        <5>2. /\ t.offset >= Shifted(r, start[r])
              /\ t.offset <= Shifted(r, abs_read_offset[r])
          BY <2>4, <3>1, <3>3, <4>3, ShiftedIs
        <5>3. t \in got
          BY <2>4, <3>3, <4>3, <4>5, <5>1, <5>2 DEF TagsInRange, TagsWalked
        <5>. QED BY <2>3, <4>2, <5>3 DEF Names
      <4>. QED BY <4>4, <4>5
    <3>. QED BY <3>1, <3>2, <3>3
  <2>. QED BY <2>1, <2>3, <2>4 DEF TagInv
<1>. QED
  BY <1>1, <1>2, <1>3, <1>4, <1>5, <1>6 DEF Next, Write, Read, Start, MinAvailableSpace,
     WriteItem, UpdateWritePointer, UpdateReadPointer, SetDone, vars, rdvars, reader

LEMMA NextTagInv == SmallDelays /\ TagInv /\ [Next]_vars => TagInv'
<1>. SUFFICES ASSUME SmallDelays, TagInv, [Next]_vars PROVE TagInv'
  OBVIOUS
<1>1. IInv'
  BY NextInv DEF TagInv
<1>. QED
  BY <1>1, NextNoTagsYet, NextHistoryKept, NextCallIsShort, NextMinimumIsOld, NextBounded,
     NextDeletionsSeen, NextTagsSurvive, NextTagsDelivered DEF TagInv

(* For any number of readers, any size and any interleaving of adding,       *)
(* removing, pruning and looking up tags: a tag that a reader is still to be *)
(* given is never pruned, each reader is given each tag of what it consumed, *)
(* and the walk over the tags ends.                                          *)
THEOREM TagsAlwaysKept == ASSUME SmallDelays PROVE Spec => []TagsKept
<1>1. Init => TagInv
  BY InitTagInv
<1>2. TagInv /\ [Next]_vars => TagInv'
  BY NextTagInv
<1>3. TagInv => TagsKept
  BY WalkMeetsItsEnd DEF TagInv, TagsKept
<1>. QED BY <1>1, <1>2, <1>3, PTL DEF Spec
=============================================================================
