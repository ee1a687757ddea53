------------------------------- MODULE Buffer -------------------------------
(***************************************************************************)
(* buffer.c: a circular array of request slots under one mutex and two     *)
(* condition variables, with the acceptor thread as the only producer      *)
(* (wserver.c, acceptor loop) and the worker threads as the consumers      *)
(* (wserver.c, worker_fn).                                                 *)
(*                                                                         *)
(* Shared data is touched only by the thread that holds mtx, so one action *)
(* stands for one stretch of code between two points where the order of    *)
(* threads can matter: a lock, a wait, an unlock, and each iteration of    *)
(* the two loops of the SFF branch.                                        *)
(***************************************************************************)
EXTENDS Integers, Sequences, FiniteSets

CONSTANTS
  Request,     \* the requests clients can make
  NoRequest,   \* a slot never written, or a request_t that is dead
  FileSize,    \* request_t.filesize of each request
  Worker,      \* the threads of the pool
  Main,        \* the acceptor thread
  NoThread,    \* the holder of a free mutex
  Capacity,    \* cap
  Policy       \* sched: "fifo" or "sff"

ASSUME BufferAssumption ==
  /\ NoRequest \notin Request
  /\ FileSize \in [Request -> Int]
  /\ Worker # {} /\ IsFiniteSet(Worker)
  /\ Main \notin Worker
  /\ NoThread \notin Worker \cup {Main}
  /\ Capacity \in Nat \ {0}
  /\ Policy \in {"fifo", "sff"}

Thread == Worker \cup {Main}

VARIABLES
  slots, count, head, tail,     \* the static variables of buffer.c
  mtx,                          \* the thread that holds the mutex, or NoThread
  not_empty, not_full,          \* the threads asleep on each condition variable
  pc,                           \* where each thread is
  req,                          \* the local request_t of each thread
  i, min_logical, min_size,     \* the locals of the SFF scan
  cur, next                     \* the locals of the SFF compaction

ring == <<slots, count, head, tail>>
sync == <<mtx, not_empty, not_full>>
scan == <<i, min_logical, min_size>>
shift == <<cur, next>>
vars == <<ring, sync, pc, req, scan, shift>>

-----------------------------------------------------------------------------
(***************************************************************************)
(* Program points.                                                         *)
(*   parse    the acceptor outside the buffer: accept, request_parse       *)
(*   serve    a worker outside the buffer: request_serve                   *)
(*   lock     before pthread_mutex_lock                                    *)
(*   test     holds mtx, before the condition of the waiting loop          *)
(*   sleep    inside pthread_cond_wait, on its condition variable          *)
(*   relock   inside pthread_cond_wait, woken, without the mutex           *)
(*   scan     before the condition of the for loop                         *)
(*   compact  before the condition of the while loop                       *)
(*   leave    before the signal and the unlock                             *)
(***************************************************************************)
Asking  == {"lock", "relock"}
Holding == {"test", "scan", "compact", "leave"}
Point   == {"parse", "serve", "sleep"} \cup Asking \cup Holding

Goto(t, point) == pc' = [pc EXCEPT ![t] = point]

(* The slot j places after slot k of the circular array. *)
Slot(k, j) == (k + j) % Capacity

(***************************************************************************)
(* The pending requests, oldest first, that the array stands for.  A       *)
(* worker past the point where it copied an entry into its req owns it:    *)
(* until it stores the new count that entry is counted but not pending,    *)
(* and while it compacts, slot cur is the gap that the entries after it    *)
(* have yet to fill.                                                       *)
(***************************************************************************)
Removing == \E w \in Worker : pc[w] \in {"compact", "leave"}

Gap(w) == (cur[w] - head + Capacity) % Capacity

Pending ==
  [k \in 1 .. count - (IF Removing THEN 1 ELSE 0) |->
     IF \E w \in Worker : pc[w] = "compact" /\ Gap(w) < k
     THEN slots[Slot(head, k)]
     ELSE slots[Slot(head, k - 1)]]

Held == {Pending[k] : k \in DOMAIN Pending} \cup {req[t] : t \in Thread}

-----------------------------------------------------------------------------

(* buffer_init, and the threads as main starts them. *)
Init ==
  /\ slots = [k \in 0 .. Capacity - 1 |-> NoRequest]
  /\ count = 0 /\ head = 0 /\ tail = 0
  /\ mtx = NoThread
  /\ not_empty = {} /\ not_full = {}
  /\ pc = [t \in Thread |-> IF t = Main THEN "parse" ELSE "lock"]
  /\ req = [t \in Thread |-> NoRequest]
  /\ i = [w \in Worker |-> 0]
  /\ min_logical = [w \in Worker |-> 0]
  /\ min_size = [w \in Worker |-> 0]
  /\ cur = [w \in Worker |-> 0]
  /\ next = [w \in Worker |-> 0]

-----------------------------------------------------------------------------

(* pthread_mutex_lock, and the reacquisition that ends pthread_cond_wait:   *)
(* either way the condition of the waiting loop is evaluated next.          *)
Acquire(t) ==
  /\ pc[t] \in Asking
  /\ mtx = NoThread
  /\ mtx' = t
  /\ Goto(t, "test")
  /\ UNCHANGED <<ring, not_empty, not_full, req, scan, shift>>

(* pthread_cond_wait may return although nobody signalled. *)
SpuriousWakeup(t) ==
  /\ pc[t] = "sleep"
  /\ not_empty' = not_empty \ {t}
  /\ not_full' = not_full \ {t}
  /\ Goto(t, "relock")
  /\ UNCHANGED <<ring, mtx, req, scan, shift>>

(* pthread_cond_signal with these threads asleep, then the unlock, by a     *)
(* thread that goes on to the given point.  A signal finding nobody asleep  *)
(* has no effect.                                                           *)
SignalAndUnlock(t, point, asleep, asleep_next) ==
  /\ mtx' = NoThread
  /\ \/ /\ asleep = {}
        /\ asleep_next = {}
        /\ Goto(t, point)
     \/ \E s \in asleep :
          /\ asleep_next = asleep \ {s}
          /\ pc' = [pc EXCEPT ![s] = "relock", ![t] = point]

-----------------------------------------------------------------------------
(* The acceptor: buffer_put.                                                *)

(* accept and a request_parse that returned 0; the descriptor of a new      *)
(* connection is not one the server still holds.                            *)
Offer(r) ==
  /\ pc[Main] = "parse"
  /\ r \notin Held
  /\ req' = [req EXCEPT ![Main] = r]
  /\ Goto(Main, "lock")
  /\ UNCHANGED <<ring, sync, scan, shift>>

PutWait ==
  /\ pc[Main] = "test"
  /\ count = Capacity
  /\ not_full' = not_full \cup {Main}
  /\ mtx' = NoThread
  /\ Goto(Main, "sleep")
  /\ UNCHANGED <<ring, not_empty, req, scan, shift>>

(* Mutant: a full array is not waited for. *)
PutStoreAlways ==
  /\ pc[Main] = "test"
  /\ slots' = [slots EXCEPT ![tail] = req[Main]]
  /\ tail' = Slot(tail, 1)
  /\ count' = IF count = Capacity THEN count ELSE count + 1
  /\ req' = [req EXCEPT ![Main] = NoRequest]
  /\ Goto(Main, "leave")
  /\ UNCHANGED <<head, sync, scan, shift>>

PutStore ==
  /\ pc[Main] = "test"
  /\ count # Capacity
  /\ slots' = [slots EXCEPT ![tail] = req[Main]]
  /\ tail' = Slot(tail, 1)
  /\ count' = count + 1
  /\ req' = [req EXCEPT ![Main] = NoRequest]
  /\ Goto(Main, "leave")
  /\ UNCHANGED <<head, sync, scan, shift>>

(* Mutant: a put never signals. *)
PutLeaveSilent ==
  /\ pc[Main] = "leave"
  /\ SignalAndUnlock(Main, "parse", {}, {})
  /\ UNCHANGED <<ring, not_empty, not_full, req, scan, shift>>

(* Mutant: a put signals only when the array was empty. *)
PutLeaveFirstOnly ==
  /\ pc[Main] = "leave"
  /\ IF count = 1
     THEN SignalAndUnlock(Main, "parse", not_empty, not_empty')
     ELSE SignalAndUnlock(Main, "parse", {}, {}) /\ UNCHANGED not_empty
  /\ UNCHANGED <<ring, not_full, req, scan, shift>>

PutLeave ==
  /\ pc[Main] = "leave"
  /\ SignalAndUnlock(Main, "parse", not_empty, not_empty')
  /\ UNCHANGED <<ring, not_full, req, scan, shift>>

-----------------------------------------------------------------------------
(* A worker: buffer_get, then request_serve.                                *)

GetWait(w) ==
  /\ pc[w] = "test"
  /\ count = 0
  /\ not_empty' = not_empty \cup {w}
  /\ mtx' = NoThread
  /\ Goto(w, "sleep")
  /\ UNCHANGED <<ring, not_full, req, scan, shift>>

(* Mutant: head stays, so the entry is handed out again. *)
GetOldestHeadStays(w) ==
  /\ pc[w] = "test"
  /\ count # 0
  /\ Policy = "fifo"
  /\ req' = [req EXCEPT ![w] = slots[head]]
  /\ Goto(w, "leave")
  /\ UNCHANGED <<slots, count, head, tail, sync, scan, shift>>

GetOldest(w) ==
  /\ pc[w] = "test"
  /\ count # 0
  /\ Policy = "fifo"
  /\ req' = [req EXCEPT ![w] = slots[head]]
  /\ head' = Slot(head, 1)
  /\ Goto(w, "leave")
  /\ UNCHANGED <<slots, count, tail, sync, scan, shift>>

ScanStart(w) ==
  /\ pc[w] = "test"
  /\ count # 0
  /\ Policy = "sff"
  /\ i' = [i EXCEPT ![w] = 1]
  /\ min_logical' = [min_logical EXCEPT ![w] = 0]
  /\ min_size' = [min_size EXCEPT ![w] = FileSize[slots[head]]]
  /\ Goto(w, "scan")
  /\ UNCHANGED <<ring, sync, req, shift>>

(* Mutant: <= for <, so ties go to the newest. *)
ScanStepNewest(w) ==
  LET size == FileSize[slots[Slot(head, i[w])]] IN
  /\ pc[w] = "scan"
  /\ i[w] < count
  /\ i' = [i EXCEPT ![w] = @ + 1]
  /\ IF size <= min_size[w]
     THEN /\ min_size' = [min_size EXCEPT ![w] = size]
          /\ min_logical' = [min_logical EXCEPT ![w] = i[w]]
     ELSE UNCHANGED <<min_size, min_logical>>
  /\ UNCHANGED <<ring, sync, pc, req, shift>>

ScanStep(w) ==
  LET size == FileSize[slots[Slot(head, i[w])]] IN
  /\ pc[w] = "scan"
  /\ i[w] < count
  /\ i' = [i EXCEPT ![w] = @ + 1]
  /\ \/ /\ size < min_size[w]
        /\ min_size' = [min_size EXCEPT ![w] = size]
        /\ min_logical' = [min_logical EXCEPT ![w] = i[w]]
     \/ /\ size >= min_size[w]
        /\ UNCHANGED <<min_size, min_logical>>
  /\ UNCHANGED <<ring, sync, pc, req, shift>>

(* The end of the scan: min_phys, the copy of the entry, cur and next.  The *)
(* locals of the scan are dead from here on.                                *)
ScanEnd(w) ==
  LET min_phys == Slot(head, min_logical[w]) IN
  /\ pc[w] = "scan"
  /\ i[w] >= count
  /\ req' = [req EXCEPT ![w] = slots[min_phys]]
  /\ cur' = [cur EXCEPT ![w] = min_phys]
  /\ next' = [next EXCEPT ![w] = Slot(min_phys, 1)]
  /\ i' = [i EXCEPT ![w] = 0]
  /\ min_logical' = [min_logical EXCEPT ![w] = 0]
  /\ min_size' = [min_size EXCEPT ![w] = 0]
  /\ Goto(w, "compact")
  /\ UNCHANGED <<ring, sync>>

(* Mutant: next advances before cur takes its value. *)
ShiftStepSwapped(w) ==
  /\ pc[w] = "compact"
  /\ next[w] # tail
  /\ slots' = [slots EXCEPT ![cur[w]] = slots[next[w]]]
  /\ next' = [next EXCEPT ![w] = Slot(next[w], 1)]
  /\ cur' = [cur EXCEPT ![w] = Slot(next[w], 1)]
  /\ UNCHANGED <<count, head, tail, sync, pc, req, scan>>

ShiftStep(w) ==
  /\ pc[w] = "compact"
  /\ next[w] # tail
  /\ slots' = [slots EXCEPT ![cur[w]] = slots[next[w]]]
  /\ cur' = [cur EXCEPT ![w] = next[w]]
  /\ next' = [next EXCEPT ![w] = Slot(next[w], 1)]
  /\ UNCHANGED <<count, head, tail, sync, pc, req, scan>>

(* Mutant: tail is not retracted. *)
ShiftEndTailStays(w) ==
  /\ pc[w] = "compact"
  /\ next[w] = tail
  /\ cur' = [cur EXCEPT ![w] = 0]
  /\ next' = [next EXCEPT ![w] = 0]
  /\ Goto(w, "leave")
  /\ UNCHANGED <<slots, count, head, tail, sync, req, scan>>

ShiftEnd(w) ==
  /\ pc[w] = "compact"
  /\ next[w] = tail
  /\ tail' = (tail - 1 + Capacity) % Capacity
  /\ cur' = [cur EXCEPT ![w] = 0]
  /\ next' = [next EXCEPT ![w] = 0]
  /\ Goto(w, "leave")
  /\ UNCHANGED <<slots, count, head, sync, req, scan>>

(* Mutant: a get never signals. *)
GetLeaveSilent(w) ==
  /\ pc[w] = "leave"
  /\ count' = count - 1
  /\ SignalAndUnlock(w, "serve", {}, {})
  /\ UNCHANGED <<slots, head, tail, not_empty, not_full, req, scan, shift>>

(* Mutant: a get signals the other condition variable. *)
GetLeaveWrongSignal(w) ==
  /\ pc[w] = "leave"
  /\ count' = count - 1
  /\ SignalAndUnlock(w, "serve", not_empty, not_empty')
  /\ UNCHANGED <<slots, head, tail, not_full, req, scan, shift>>

GetLeave(w) ==
  /\ pc[w] = "leave"
  /\ count' = count - 1
  /\ SignalAndUnlock(w, "serve", not_full, not_full')
  /\ UNCHANGED <<slots, head, tail, not_empty, req, scan, shift>>

(* request_serve returns; its request is dead and worker_fn loops. *)
Serve(w) ==
  /\ pc[w] = "serve"
  /\ req' = [req EXCEPT ![w] = NoRequest]
  /\ Goto(w, "lock")
  /\ UNCHANGED <<ring, sync, scan, shift>>

-----------------------------------------------------------------------------

MainStep == PutWait \/ PutStore \/ PutLeave

WorkerStep(w) ==
  \/ GetWait(w) \/ GetOldest(w)
  \/ ScanStart(w) \/ ScanStep(w) \/ ScanEnd(w)
  \/ ShiftStep(w) \/ ShiftEnd(w)
  \/ GetLeave(w) \/ Serve(w)

Next ==
  \/ \E t \in Thread : Acquire(t) \/ SpuriousWakeup(t)
  \/ \E r \in Request : Offer(r)
  \/ MainStep
  \/ \E w \in Worker : WorkerStep(w)

Spec == Init /\ [][Next]_vars

(* Every thread that can run does run, request_serve returns, and waits     *)
(* return early only finitely often.  The mutex need not be fair: a thread  *)
(* gets it for certain only if it stays free.  Nothing makes clients send   *)
(* requests (Offer).                                                        *)
Fairness ==
  /\ WF_vars(MainStep)
  /\ \A w \in Worker : WF_vars(WorkerStep(w))
  /\ \A t \in Thread : WF_vars(Acquire(t))
  /\ <>[][~ \E t \in Thread : SpuriousWakeup(t)]_vars

FairSpec == Spec /\ Fairness

-----------------------------------------------------------------------------

TypeOK ==
  /\ slots \in [0 .. Capacity - 1 -> Request \cup {NoRequest}]
  /\ count \in 0 .. Capacity
  /\ head \in 0 .. Capacity - 1
  /\ tail \in 0 .. Capacity - 1
  /\ mtx \in Thread \cup {NoThread}
  /\ not_empty \in SUBSET Worker
  /\ not_full \in SUBSET {Main}
  /\ pc \in [Thread -> Point]
  /\ req \in [Thread -> Request \cup {NoRequest}]
  /\ i \in [Worker -> 0 .. Capacity]
  /\ min_logical \in [Worker -> 0 .. Capacity - 1]
  /\ min_size \in [Worker -> Int]
  /\ cur \in [Worker -> 0 .. Capacity - 1]
  /\ next \in [Worker -> 0 .. Capacity - 1]

(* The mutex is held by the one thread between its lock and its unlock, and *)
(* the threads asleep are exactly those waiting on the condition variables. *)
SyncInv ==
  /\ \A t \in Thread : pc[t] \in Holding <=> mtx = t
  /\ not_empty = {w \in Worker : pc[w] = "sleep"}
  /\ not_full = {t \in {Main} : pc[t] = "sleep"}

(* Each thread stays at the points of its own function, and holds a request *)
(* exactly while the function has one.                                      *)
ThreadInv ==
  /\ pc[Main] \notin {"serve", "scan", "compact"}
  /\ req[Main] # NoRequest <=> pc[Main] \in Asking \cup {"test", "sleep"}
  /\ \A w \in Worker :
       /\ pc[w] # "parse"
       /\ pc[w] \in {"scan", "compact"} => Policy = "sff"
       /\ req[w] # NoRequest <=> pc[w] \in {"compact", "leave", "serve"}

(* The live entries are the count slots from head up to tail, where count   *)
(* is one too large from the update of head or tail until the unlock.       *)
RingInv ==
  /\ Removing => count > 0
  /\ tail = Slot(head, IF \E w \in Worker : pc[w] = "leave"
                       THEN count - 1 ELSE count)
  /\ \A k \in DOMAIN Pending : Pending[k] \in Request

(* The scan has found the oldest of the smallest of the entries before i.   *)
ScanInv ==
  \A w \in Worker : pc[w] = "scan" =>
    /\ i[w] \in 1 .. count
    /\ min_logical[w] < i[w]
    /\ min_size[w] = FileSize[slots[Slot(head, min_logical[w])]]
    /\ \A j \in 0 .. i[w] - 1 : min_size[w] <= FileSize[slots[Slot(head, j)]]
    /\ \A j \in 0 .. min_logical[w] - 1 :
         min_size[w] < FileSize[slots[Slot(head, j)]]

(* The compaction has moved the gap to a live slot, and next follows cur.   *)
ShiftInv ==
  \A w \in Worker : pc[w] = "compact" =>
    /\ \E g \in 0 .. count - 1 : cur[w] = Slot(head, g)
    /\ next[w] = Slot(cur[w], 1)

IInv == TypeOK /\ SyncInv /\ ThreadInv /\ RingInv /\ ScanInv /\ ShiftInv

(* The workers inside buffer_get that are not asleep and have yet to take   *)
(* an entry.                                                                *)
AwakeGetters == {w \in Worker : pc[w] \in Asking \cup {"test", "scan"}}

(* No wake-up is lost: a worker sleeps in buffer_get only while there are   *)
(* at least as many awake workers on their way to an entry as there are     *)
(* entries (the one whose signal the acceptor is about to send excepted),   *)
(* and the acceptor sleeps in buffer_put only while the array is full.      *)
NoLostWakeup ==
  /\ not_empty # {} =>
       Len(Pending) <= Cardinality(AwakeGetters)
                         + (IF pc[Main] = "leave" THEN 1 ELSE 0)
  /\ not_full # {} => count = Capacity

(* The buffer implements the bounded queue with the policy's order.         *)
Queue == INSTANCE RequestQueue
           WITH queue <- Pending,
                offered <- req[Main],
                taken <- [w \in Worker |-> req[w]]

ImplementsQueue == Queue!Spec

(* No request is stored twice, served by two workers, or left in the array  *)
(* by a compaction after a worker took it.                                  *)
HeldOnce == Queue!HeldOnce

(* "FIFO preserves arrival order", and sff does among files of one size.    *)
NoOvertaking == Queue!NoOvertaking

(* A request the acceptor hands to buffer_put gets a slot: the acceptor is  *)
(* not blocked for ever while workers keep serving.                         *)
PutReturns == pc[Main] # "parse" ~> pc[Main] = "parse"

(* Every request that enters the buffer reaches a worker.  It holds of fifo *)
(* and of an sff buffer with one slot; a larger sff buffer can leave a      *)
(* request waiting for as long as smaller ones arrive.                      *)
EveryRequestTaken ==
  \A r \in Request : r \in Held ~> \E w \in Worker : req[w] = r

(* Under either policy a request for a file of the least size does not wait *)
(* for ever: ties go to the oldest.                                         *)
SmallestRequestTaken ==
  \A r \in Request : (\A s \in Request : FileSize[r] <= FileSize[s]) =>
    (r \in Held ~> \E w \in Worker : req[w] = r)
=============================================================================
