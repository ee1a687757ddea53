---------------------------- MODULE RequestQueue ----------------------------
(***************************************************************************)
(* What the shared request buffer of the concurrent web server promises to *)
(* its two kinds of callers, with no mutex, condition variable or array:   *)
(* a bounded queue into which the acceptor puts parsed requests and from   *)
(* which the workers take them one at a time, in the order fixed by the    *)
(* scheduling policy.  Module Buffer describes buffer.c itself and is      *)
(* shown to implement this module.                                         *)
(*                                                                         *)
(* A request is identified by its connection: it is the request_t of one   *)
(* accepted socket, and the same value may come back once the connection   *)
(* has been served and closed.                                             *)
(***************************************************************************)
EXTENDS Integers, Sequences, SequencesExt

CONSTANTS
  Request,     \* the requests clients can make
  NoRequest,   \* not a request
  FileSize,    \* request_t.filesize of each request: a C int, of any sign
  Worker,      \* the threads of the pool
  Capacity,    \* option -b
  Policy       \* option -s: "fifo" or "sff"

(* What every user of this module has to establish about the constants.     *)
QueueAssumption ==
  /\ NoRequest \notin Request
  /\ FileSize \in [Request -> Int]
  /\ Worker # {}
  /\ Capacity \in Nat \ {0}
  /\ Policy \in {"fifo", "sff"}

VARIABLES
  queue,       \* the pending requests, oldest first
  offered,     \* the request inside buffer_put, NoRequest when there is none
  taken        \* the request each worker is serving; NoRequest inside buffer_get

vars == <<queue, offered, taken>>

-----------------------------------------------------------------------------

TypeOK ==
  /\ queue \in Seq(Request)
  /\ Len(queue) <= Capacity
  /\ offered \in Request \cup {NoRequest}
  /\ taken \in [Worker -> Request \cup {NoRequest}]

Queued == {queue[k] : k \in DOMAIN queue}

(* The requests whose connection the server holds. *)
InFlight == (Queued \cup {offered} \cup {taken[w] : w \in Worker}) \ {NoRequest}

(***************************************************************************)
(* The pending request the policy serves next: the oldest one, or the      *)
(* oldest of those with the smallest file.                                 *)
(***************************************************************************)
IsNext(q, k) ==
  \/ Policy = "fifo" /\ k = 1
  \/ /\ Policy = "sff"
     /\ \A j \in DOMAIN q : FileSize[q[k]] <= FileSize[q[j]]
     /\ \A j \in 1 .. k - 1 : FileSize[q[k]] < FileSize[q[j]]

-----------------------------------------------------------------------------

Init ==
  /\ queue = <<>>
  /\ offered = NoRequest
  /\ taken = [w \in Worker |-> NoRequest]

(* The acceptor has parsed a request of a new connection: buffer_put(&req). *)
Offer(r) ==
  /\ offered = NoRequest
  /\ r \notin InFlight
  /\ offered' = r
  /\ UNCHANGED <<queue, taken>>

(* The put takes effect; it blocks while the queue is full. *)
Put ==
  /\ offered # NoRequest
  /\ Len(queue) < Capacity
  /\ queue' = Append(queue, offered)
  /\ offered' = NoRequest
  /\ UNCHANGED taken

(* A worker inside buffer_get takes the next request; it blocks while there *)
(* is none.                                                                 *)
Get(w) ==
  /\ taken[w] = NoRequest
  /\ \E k \in DOMAIN queue :
       /\ IsNext(queue, k)
       /\ taken' = [taken EXCEPT ![w] = queue[k]]
       /\ queue' = RemoveAt(queue, k)
  /\ UNCHANGED offered

(* The worker has served its request and calls buffer_get again. *)
Finish(w) ==
  /\ taken[w] # NoRequest
  /\ taken' = [taken EXCEPT ![w] = NoRequest]
  /\ UNCHANGED <<queue, offered>>

Next ==
  \/ \E r \in Request : Offer(r)
  \/ Put
  \/ \E w \in Worker : Get(w) \/ Finish(w)

Spec == Init /\ [][Next]_vars

-----------------------------------------------------------------------------

(* A request is in one place at a time: it is never both queued and held by *)
(* a thread, queued twice, or held by two threads.                          *)
HeldOnce ==
  /\ \A j, k \in DOMAIN queue : queue[j] = queue[k] => j = k
  /\ offered \notin Queued
  /\ \A w \in Worker : taken[w] # NoRequest =>
       /\ taken[w] \notin Queued \cup {offered}
       /\ \A v \in Worker : taken[v] = taken[w] => v = w

(* A request leaves the queue before one that was put earlier only under    *)
(* sff, and only if its file is strictly smaller: fifo preserves the order  *)
(* of arrival, and so does sff among files of one size.                     *)
NoOvertaking ==
  [][\A j, k \in DOMAIN queue :
       (j < k /\ queue[j] \in Queued' /\ queue[k] \notin Queued')
         => Policy = "sff" /\ FileSize[queue[k]] < FileSize[queue[j]]]_vars
=============================================================================
