------------------------------- MODULE ProbeGet -------------------------------
(***************************************************************************)
(* ctrlport_probe2: work fills a buffer of d_len samples and offers it to    *)
(* whoever waits in get(); other threads call get() and set_length().  The   *)
(* waiting is rpcbufferedget's: a flag, a mutex and a condition variable     *)
(* that get() waits on once.  The samples of the endless input are told      *)
(* apart by their number modulo Modulus.                                     *)
(***************************************************************************)
EXTENDS Naturals, Sequences

CONSTANTS
    Getters,
    Lengths,        \* what set_length may be called with
    Modulus, MaxCallItems, MaxSet,   \* bounds: samples told apart, of one call; set_length calls
    WakesAlone        \* whether a wait may end without a notification

ASSUME ProbeAssumption ==
    Lengths \subseteq Nat /\ Modulus \in Nat \ {0} /\ MaxCallItems \in Nat /\ WakesAlone \in BOOLEAN

VARIABLES
    sample,         \* the next sample of the input
    d_len, d_buffer, \* the probe's buffer, up to d_index
    offering,       \* work is between d_buffer_lock and notify_one
    needed,         \* d_data_needed
    offered,        \* rpcbufferedget's d_buffer, and d_len when it was filled
    getter,         \* each caller of get(): "idle", "waiting" or "woken"
    asked,          \* history: a buffer has been offered since it asked
    got,            \* history: what its last get() returned, and whether it was offered to it
    setcalls

pbvars == <<sample, d_len, d_buffer, offering, needed, offered, getter, asked, got, setcalls>>

d_index == Len(d_buffer)

PbInit ==
    /\ sample = 0 /\ d_len \in Lengths /\ d_buffer = <<>>
    /\ offering = FALSE /\ needed = FALSE /\ offered = [run |-> <<>>, len |-> 0]
    /\ getter = [g \in Getters |-> "idle"] /\ asked = [g \in Getters |-> FALSE]
    /\ got = [g \in Getters |-> [run |-> <<>>, len |-> 0, fresh |-> TRUE]] /\ setcalls = 0

-----------------------------------------------------------------------------
(* The block's thread, which holds d_setlock for the whole of work.          *)
Next_(n) == [j \in 1 .. n |-> (sample + j - 1) % Modulus]

Lesser(x, y) == IF x < y THEN x ELSE y

\* Mutant: the last samples of the call instead of its first.
Taken_last(room, n) == SubSeq(Next_(n), n - Lesser(room, n) + 1, n)
Taken(room, n) == SubSeq(Next_(n), 1, Lesser(room, n))

\* Samples beyond what the buffer has room for are passed over.
ProbeWork(n) ==
    /\ ~offering
    /\ LET filled == d_buffer \o Taken(d_len - d_index, n)
           full   == Len(filled) = d_len IN
       /\ d_buffer' = IF full THEN <<>> ELSE filled
       /\ IF full /\ needed
          THEN /\ offered' = [run |-> filled, len |-> d_len] /\ needed' = FALSE /\ offering' = TRUE
               /\ asked' = [g \in Getters |-> asked[g] \/ getter[g] = "waiting"]
          ELSE UNCHANGED <<offered, needed, offering, asked>>
    /\ sample' = (sample + n) % Modulus
    /\ UNCHANGED <<d_len, getter, got, setcalls>>

\* notify_one
Notify ==
    /\ offering /\ offering' = FALSE
    /\ IF \E g \in Getters : getter[g] = "waiting"
       THEN \E g \in Getters : getter[g] = "waiting" /\ getter' = [getter EXCEPT ![g] = "woken"]
       ELSE UNCHANGED getter
    /\ UNCHANGED <<sample, d_len, d_buffer, needed, offered, asked, got, setcalls>>

-----------------------------------------------------------------------------
\* Mutant: d_index stays where it is.
Begun_kept(len) == d_buffer
Begun(len) == <<>>

set_length(len) ==
    /\ ~offering /\ setcalls < MaxSet /\ setcalls' = setcalls + 1
    /\ d_len' = len /\ d_buffer' = Begun(len)
    /\ UNCHANGED <<sample, offering, needed, offered, getter, asked, got>>

get(g) ==
    /\ getter[g] = "idle"
    /\ needed' = TRUE /\ getter' = [getter EXCEPT ![g] = "waiting"] /\ asked' = [asked EXCEPT ![g] = FALSE]
    /\ UNCHANGED <<sample, d_len, d_buffer, offering, offered, got, setcalls>>

SpuriousWake(g) ==
    /\ WakesAlone /\ getter[g] = "waiting" /\ getter' = [getter EXCEPT ![g] = "woken"]
    /\ UNCHANGED <<sample, d_len, d_buffer, offering, needed, offered, asked, got, setcalls>>

Return(g) ==
    /\ getter[g] = "woken" /\ getter' = [getter EXCEPT ![g] = "idle"]
    /\ got' = [got EXCEPT ![g] = [run |-> offered.run, len |-> offered.len, fresh |-> asked[g]]]
    /\ UNCHANGED <<sample, d_len, d_buffer, offering, needed, offered, asked, setcalls>>

WorkStep == \E n \in 1 .. MaxCallItems : ProbeWork(n)

PbNext ==
    \/ WorkStep \/ Notify
    \/ \E len \in Lengths : set_length(len)
    \/ \E g \in Getters : get(g) \/ SpuriousWake(g) \/ Return(g)

PbSpec ==
    /\ PbInit /\ [][PbNext]_pbvars
    /\ WF_pbvars(WorkStep) /\ WF_pbvars(Notify) /\ \A g \in Getters : WF_pbvars(Return(g))

-----------------------------------------------------------------------------
(* What get() returns is a run of the stream without a gap, as long as the   *)
(* buffer was when it was filled, and offered after get() had been called:   *)
(* whatever the sizes of work's calls and whenever the length is changed.    *)
GotRun ==
    \A g \in Getters :
        /\ Len(got[g].run) = got[g].len /\ got[g].fresh
        /\ \A k \in 2 .. Len(got[g].run) : got[g].run[k] = (got[g].run[k - 1] + 1) % Modulus

(* Who waits in get() returns, as long as samples come and the length is not *)
(* changed again and again.                                                  *)
GetReturns == \A g \in Getters : getter[g] = "waiting" ~> getter[g] = "idle"
=============================================================================
