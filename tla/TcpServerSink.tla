----------------------------- MODULE TcpServerSink -----------------------------
(***************************************************************************)
(* tcp_server_sink: work copies its items into one buffer and starts a      *)
(* write of it to each client; the handlers of these writes, and of the     *)
(* accepts that add clients, run in the thread of the io_service.  The next *)
(* call of work waits until all writes are done with the buffer.            *)
(***************************************************************************)
EXTENDS Naturals, Sequences, FiniteSets

CONSTANTS
    Clients,
    MaxChunks    \* bound: calls of work

ASSUME ClientsAssumption == IsFiniteSet(Clients)

VARIABLES
    clients,    \* each client: whether it is out, waiting, in d_sockets or deleted
    heard,      \* what each has received: the calls of work the bytes are from
    since,      \* history: the calls of work there had been when it was accepted
    d_buf,      \* the call of work d_buf is filled from
    chunks,     \* calls of work that went through
    d_writing,
    writes,     \* the clients a write is under way to
    done,       \* the completed ones, with an error or not, whose handler is still to come
    handler,    \* what the io_service's thread is in the middle of
    ending      \* the destructor: "no", "waiting", "joining" or "gone"

nvars == <<clients, heard, since, d_buf, chunks, d_writing, writes, done, handler, ending>>

\* A constructor that waits has accepted its first client.
NInit ==
    /\ clients \in {[c \in Clients |-> IF c = first THEN "in" ELSE "out"] : first \in Clients \cup {"none"}}
    /\ heard = [c \in Clients |-> <<>>]
    /\ since = [c \in Clients |-> 0]
    /\ d_buf = 0 /\ chunks = 0 /\ d_writing = 0 /\ writes = {} /\ done = {}
    /\ handler = <<"none">> /\ ending = "no"

d_sockets == {c \in Clients : clients[c] = "in"}

\* d_writing_mut: every holder but the destructor lets it go in the same step.
Unlocked == ending \notin {"joining"}

Connect(c) ==
    /\ clients[c] = "out"
    /\ clients' = [clients EXCEPT ![c] = "waiting"]
    /\ UNCHANGED <<heard, since, d_buf, chunks, d_writing, writes, done, handler, ending>>

\* The thread of the io_service takes up a handler, and then wants the mutex.
BeginHandler ==
    /\ handler = <<"none">> /\ ending # "gone"
    /\ \/ \E c \in Clients : clients[c] = "waiting" /\ handler' = <<"accept", c>>
       \/ \E d \in done : handler' = <<"write", d>>
    /\ UNCHANGED <<clients, heard, since, d_buf, chunks, d_writing, writes, done, ending>>

do_accept ==
    /\ handler[1] = "accept" /\ Unlocked
    /\ clients' = [clients EXCEPT ![handler[2]] = "in"]
    /\ since' = [since EXCEPT ![handler[2]] = chunks]
    /\ handler' = <<"none">>
    /\ UNCHANGED <<heard, d_buf, chunks, d_writing, writes, done, ending>>

do_write ==
    /\ handler[1] = "write" /\ Unlocked
    /\ d_writing' = d_writing - 1
    /\ done' = done \ {handler[2]}
    /\ clients' = IF handler[2].error THEN [clients EXCEPT ![handler[2].client] = "deleted"] ELSE clients
    /\ handler' = <<"none">>
    /\ UNCHANGED <<heard, since, d_buf, chunks, writes, ending>>

\* The bytes go out of d_buf as it is then, or the connection is broken.
Sent(c) ==
    /\ c \in writes /\ ending # "gone"
    /\ writes' = writes \ {c}
    /\ \/ heard' = [heard EXCEPT ![c] = Append(@, d_buf)] /\ done' = done \cup {[client |-> c, error |-> FALSE]}
       \/ heard' = heard /\ done' = done \cup {[client |-> c, error |-> TRUE]}
    /\ UNCHANGED <<clients, since, d_buf, chunks, d_writing, handler, ending>>

\* Mutant: the buffer counts as free once one client has taken its bytes.
BufferFree_early == writes # d_sockets \/ d_sockets = {}
BufferFree == d_writing = 0

\* Mutant: one write is counted, however many are started.
Started_one(n) == IF n > 0 THEN 1 ELSE 0
Started(n) == n

work ==
    /\ ending = "no" /\ BufferFree /\ chunks < MaxChunks
    /\ chunks' = chunks + 1 /\ d_buf' = chunks + 1
    /\ writes' = d_sockets /\ d_writing' = Started(Cardinality(d_sockets))
    /\ UNCHANGED <<clients, heard, since, done, handler, ending>>

\* The destructor waits for the writes, deletes the sockets, stops the
\* io_service and joins its thread, all with the mutex locked.
Destroying ==
    /\ ending = "no" /\ ending' = "waiting"
    /\ UNCHANGED <<clients, heard, since, d_buf, chunks, d_writing, writes, done, handler>>

Delete ==
    /\ ending = "waiting" /\ BufferFree
    /\ ending' = "joining"
    /\ clients' = [c \in Clients |-> IF clients[c] = "in" THEN "deleted" ELSE clients[c]]
    /\ UNCHANGED <<heard, since, d_buf, chunks, d_writing, writes, done, handler>>

Join ==
    /\ ending = "joining" /\ handler = <<"none">>
    /\ ending' = "gone"
    /\ UNCHANGED <<clients, heard, since, d_buf, chunks, d_writing, writes, done, handler>>

NNext ==
    \/ BeginHandler \/ do_accept \/ do_write \/ work \/ Destroying \/ Delete \/ Join
    \/ \E c \in Clients : Connect(c) \/ Sent(c)

-----------------------------------------------------------------------------
(* Every client receives all that work was given since it was accepted, in   *)
(* its order and unmixed, up to what is still under way to it or until its   *)
(* connection broke: no buffer is filled again while a write reads it.       *)
FanOut ==
    \A c \in Clients :
        LET n == Len(heard[c]) IN
        /\ heard[c] = [k \in 1 .. n |-> since[c] + k]
        /\ (clients[c] = "in" /\ c \notin writes /\ [client |-> c, error |-> TRUE] \notin done) =>
              since[c] + n = chunks

(* No write is under way, nor is its handler to come, for a socket that has  *)
(* been deleted: neither an error nor the end takes one from under it.       *)
NoDeletedSocket == \A c \in writes \cup {d.client : d \in done} : clients[c] = "in"

(* The destructor, which joins the thread with the mutex locked, waits for   *)
(* no handler of a write; one that is about to accept a client wants the     *)
(* mutex, and where it has begun before the io_service is stopped the        *)
(* destructor does not return.                                               *)
JoinEnds == ending = "joining" => handler[1] # "write"

(* tcp_server_sink while clients come, fail and go: each one that stays      *)
(* hears the stream from where it joined, no socket is used after it was     *)
(* deleted, and only a client about to be accepted keeps the destructor.     *)
SentUnbroken == FanOut /\ NoDeletedSocket /\ JoinEnds
=============================================================================
