---------------------------- MODULE BufferProofs ----------------------------
(* Proofs about Buffer, for every capacity, policy, pool and set of requests. *)
EXTENDS Buffer, FiniteSetTheorems, SequenceTheorems, TLAPS

-----------------------------------------------------------------------------
(* Arithmetic of the circular array.                                        *)

LEMMA SlotType ==
  ASSUME NEW k \in 0 .. Capacity - 1, NEW j \in Nat
  PROVE  Slot(k, j) \in 0 .. Capacity - 1
BY BufferAssumption DEF Slot

LEMMA SlotZero ==
  ASSUME NEW k \in 0 .. Capacity - 1
  PROVE  Slot(k, 0) = k /\ Slot(k, Capacity) = k
BY BufferAssumption DEF Slot

LEMMA SlotSlot ==
  ASSUME NEW k \in 0 .. Capacity - 1, NEW j \in 0 .. Capacity
  PROVE  /\ Slot(Slot(k, j), 1) = Slot(k, j + 1)
         /\ Slot(Slot(k, 1), j) = Slot(k, j + 1)
BY BufferAssumption DEF Slot

LEMMA SlotInjective ==
  ASSUME NEW k \in 0 .. Capacity - 1, NEW j \in 0 .. Capacity - 1,
         NEW l \in 0 .. Capacity - 1, Slot(k, j) = Slot(k, l)
  PROVE  j = l
BY BufferAssumption DEF Slot

LEMMA SlotGap ==
  ASSUME NEW k \in 0 .. Capacity - 1, NEW j \in 0 .. Capacity - 1
  PROVE  (Slot(k, j) - k + Capacity) % Capacity = j
BY BufferAssumption DEF Slot

LEMMA SlotBack ==
  ASSUME NEW k \in 0 .. Capacity - 1, NEW j \in 1 .. Capacity
  PROVE  (Slot(k, j) - 1 + Capacity) % Capacity = Slot(k, j - 1)
BY BufferAssumption DEF Slot

-----------------------------------------------------------------------------
(* The inductive invariant.                                                 *)

LEMMA InitIInv == Init => IInv
<1> SUFFICES ASSUME Init PROVE IInv
  OBVIOUS
<1>1. TypeOK
  BY BufferAssumption DEF Init, TypeOK, Thread, Point, Asking, Holding
<1>2. SyncInv /\ ThreadInv /\ ScanInv /\ ShiftInv
  BY BufferAssumption
  DEF Init, SyncInv, ThreadInv, ScanInv, ShiftInv, Thread, Asking, Holding
<1>3. RingInv
  <2>1. ~ Removing /\ ~ \E w \in Worker : pc[w] = "leave"
    BY BufferAssumption DEF Init, Removing, Thread
  <2>2. tail = Slot(head, count)
    BY BufferAssumption, SlotZero DEF Init
  <2>3. DOMAIN Pending = {}
    BY <2>1 DEF Init, Pending
  <2> QED
    BY <2>1, <2>2, <2>3 DEF RingInv
<1> QED
  BY <1>1, <1>2, <1>3 DEF IInv


(* Steps that leave the array and the shape of the removal alone.           *)
LEMMA FrameStep ==
  ASSUME IInv, TypeOK', UNCHANGED <<ring, scan, shift>>,
         \A w \in Worker : \A p \in {"scan", "compact", "leave"} :
           pc'[w] = p <=> pc[w] = p
  PROVE  /\ RingInv' /\ ScanInv' /\ ShiftInv'
         /\ Pending' = Pending
<1> USE DEF ring, scan, shift
<1>1. Removing' = Removing
  BY DEF Removing
<1>2. (\E w \in Worker : pc[w] = "leave")' = (\E w \in Worker : pc[w] = "leave")
  OBVIOUS
<1>3. \A k : (\E w \in Worker : pc[w] = "compact" /\ Gap(w) < k)'
               = (\E w \in Worker : pc[w] = "compact" /\ Gap(w) < k)
  BY DEF Gap
<1>4. Pending' = Pending
  BY <1>1, <1>3 DEF Pending, Slot
<1>5. RingInv'
  BY <1>1, <1>2, <1>4 DEF IInv, RingInv, Slot
<1>6. ScanInv'
  BY DEF IInv, ScanInv, Slot
<1>7. ShiftInv'
  BY DEF IInv, ShiftInv, Slot
<1> QED
  BY <1>4, <1>5, <1>6, <1>7

LEMMA AcquireStep ==
  ASSUME IInv, NEW t \in Thread, Acquire(t)
  PROVE  IInv' /\ Pending' = Pending
<1> USE BufferAssumption DEF Acquire, Goto, Asking, Holding, Thread
<1>1. TypeOK'
  BY DEF IInv, TypeOK, Point, ring, scan, shift
<1>2. SyncInv'
  BY DEF IInv, TypeOK, SyncInv
<1>3. ThreadInv'
  BY DEF IInv, TypeOK, ThreadInv
<1>4. RingInv' /\ ScanInv' /\ ShiftInv' /\ Pending' = Pending
  BY <1>1, FrameStep DEF IInv, TypeOK
<1> QED
  BY <1>1, <1>2, <1>3, <1>4 DEF IInv

LEMMA SpuriousWakeupStep ==
  ASSUME IInv, NEW t \in Thread, SpuriousWakeup(t)
  PROVE  IInv' /\ Pending' = Pending
<1> USE BufferAssumption DEF SpuriousWakeup, Goto, Asking, Holding, Thread
<1>1. TypeOK'
  BY DEF IInv, TypeOK, Point, ring, scan, shift
<1>2. SyncInv'
  BY DEF IInv, TypeOK, SyncInv
<1>3. ThreadInv'
  BY DEF IInv, TypeOK, ThreadInv
<1>4. RingInv' /\ ScanInv' /\ ShiftInv' /\ Pending' = Pending
  BY <1>1, FrameStep DEF IInv, TypeOK
<1> QED
  BY <1>1, <1>2, <1>3, <1>4 DEF IInv

LEMMA OfferStep ==
  ASSUME IInv, NEW r \in Request, Offer(r)
  PROVE  IInv' /\ Pending' = Pending
<1> USE BufferAssumption DEF Offer, Goto, Asking, Holding, Thread
<1>1. TypeOK'
  BY DEF IInv, TypeOK, Point, ring, sync, scan, shift
<1>2. SyncInv'
  BY DEF IInv, TypeOK, SyncInv, sync
<1>3. ThreadInv'
  BY DEF IInv, TypeOK, ThreadInv
<1>4. RingInv' /\ ScanInv' /\ ShiftInv' /\ Pending' = Pending
  BY <1>1, FrameStep DEF IInv, TypeOK
<1> QED
  BY <1>1, <1>2, <1>3, <1>4 DEF IInv

LEMMA PutWaitStep ==
  ASSUME IInv, PutWait
  PROVE  IInv' /\ Pending' = Pending
<1> USE BufferAssumption DEF PutWait, Goto, Asking, Holding, Thread
<1>1. TypeOK'
  BY DEF IInv, TypeOK, Point, ring, scan, shift
<1>2. SyncInv'
  BY DEF IInv, TypeOK, SyncInv
<1>3. ThreadInv'
  BY DEF IInv, TypeOK, ThreadInv
<1>4. RingInv' /\ ScanInv' /\ ShiftInv' /\ Pending' = Pending
  BY <1>1, FrameStep DEF IInv, TypeOK
<1> QED
  BY <1>1, <1>2, <1>3, <1>4 DEF IInv

LEMMA GetWaitStep ==
  ASSUME IInv, NEW w \in Worker, GetWait(w)
  PROVE  IInv' /\ Pending' = Pending
<1> USE BufferAssumption DEF GetWait, Goto, Asking, Holding, Thread
<1>1. TypeOK'
  BY DEF IInv, TypeOK, Point, ring, scan, shift
<1>2. SyncInv'
  BY DEF IInv, TypeOK, SyncInv
<1>3. ThreadInv'
  BY DEF IInv, TypeOK, ThreadInv
<1>4. RingInv' /\ ScanInv' /\ ShiftInv' /\ Pending' = Pending
  BY <1>1, FrameStep DEF IInv, TypeOK
<1> QED
  BY <1>1, <1>2, <1>3, <1>4 DEF IInv

LEMMA ServeStep ==
  ASSUME IInv, NEW w \in Worker, Serve(w)
  PROVE  IInv' /\ Pending' = Pending
<1> USE BufferAssumption DEF Serve, Goto, Asking, Holding, Thread
<1>1. TypeOK'
  BY DEF IInv, TypeOK, Point, ring, sync, scan, shift
<1>2. SyncInv'
  BY DEF IInv, TypeOK, SyncInv, sync
<1>3. ThreadInv'
  BY DEF IInv, TypeOK, ThreadInv
<1>4. RingInv' /\ ScanInv' /\ ShiftInv' /\ Pending' = Pending
  BY <1>1, FrameStep DEF IInv, TypeOK
<1> QED
  BY <1>1, <1>2, <1>3, <1>4 DEF IInv

LEMMA PutLeaveStep ==
  ASSUME IInv, PutLeave
  PROVE  IInv' /\ Pending' = Pending
<1> USE BufferAssumption DEF PutLeave, SignalAndUnlock, Goto, Asking, Holding, Thread
<1> DEFINE Woken(s) == /\ s \in not_empty
                       /\ not_empty' = not_empty \ {s}
                       /\ pc' = [pc EXCEPT ![s] = "relock", ![Main] = "parse"]
           Nobody == /\ not_empty = {} /\ not_empty' = {}
                     /\ pc' = [pc EXCEPT ![Main] = "parse"]
<1>0. Nobody \/ \E s \in Worker : Woken(s)
  BY DEF IInv, TypeOK
<1>1. TypeOK'
  BY DEF IInv, TypeOK, Point, ring, scan, shift
<1>2. SyncInv'
  <2>1. CASE Nobody
    BY <2>1 DEF IInv, TypeOK, SyncInv
  <2>2. ASSUME NEW s \in Worker, Woken(s) PROVE SyncInv'
    BY <2>2, SMTT(20) DEF IInv, TypeOK, SyncInv
  <2> QED
    BY <1>0, <2>1, <2>2
<1>3. ThreadInv'
  <2>1. CASE Nobody
    BY <2>1 DEF IInv, TypeOK, ThreadInv
  <2>2. ASSUME NEW s \in Worker, Woken(s) PROVE ThreadInv'
    BY <2>2 DEF IInv, TypeOK, SyncInv, ThreadInv
  <2> QED
    BY <1>0, <2>1, <2>2
<1>4. RingInv' /\ ScanInv' /\ ShiftInv' /\ Pending' = Pending
  BY <1>1, FrameStep, ZenonT(20) DEF IInv, TypeOK, SyncInv
<1> QED
  BY <1>1, <1>2, <1>3, <1>4 DEF IInv

-----------------------------------------------------------------------------
(* Steps of the thread that holds the mutex on the array.                   *)

LEMMA Exclusive ==
  ASSUME IInv, NEW t \in Thread, pc[t] \in Holding
  PROVE  mtx = t /\ \A u \in Thread : u # t => pc[u] \notin Holding
BY DEF IInv, SyncInv

(* What the array stands for while no worker compacts it ...                *)
LEMMA PendingPlain ==
  ASSUME \A w \in Worker : pc[w] # "compact"
  PROVE  Pending = [k \in 1 .. count - (IF Removing THEN 1 ELSE 0) |->
                      slots[Slot(head, k - 1)]]
BY DEF Pending

(* ... and while one does, having moved the gap g entries after the oldest. *)
LEMMA PendingGap ==
  ASSUME IInv, NEW w \in Worker, pc[w] = "compact",
         NEW g \in 0 .. count - 1, cur[w] = Slot(head, g)
  PROVE  /\ Removing
         /\ Pending = [k \in 1 .. count - 1 |->
                         slots[Slot(head, IF g < k THEN k ELSE k - 1)]]
<1>1. Removing
  BY DEF Removing
<1>2. g \in 0 .. Capacity - 1 /\ head \in 0 .. Capacity - 1
  BY BufferAssumption DEF IInv, TypeOK
<1>3. Gap(w) = g
  BY <1>2, SlotGap DEF Gap
<1>4. \A v \in Worker : pc[v] = "compact" => v = w
  BY Exclusive DEF Thread, Holding
<1>5. \A k : (\E v \in Worker : pc[v] = "compact" /\ Gap(v) < k) <=> g < k
  BY <1>3, <1>4
<1>6. Pending = [k \in 1 .. count - 1 |->
                   IF g < k THEN slots[Slot(head, k)]
                   ELSE slots[Slot(head, k - 1)]]
  BY <1>1, <1>5 DEF Pending
<1> QED
  BY <1>1, <1>6

(* The bounds of the live entries.                                          *)
LEMMA RingFacts ==
  ASSUME IInv
  PROVE  /\ count \in 0 .. Capacity
         /\ head \in 0 .. Capacity - 1
         /\ tail \in 0 .. Capacity - 1
         /\ (\A w \in Worker : pc[w] # "leave") => tail = Slot(head, count)
         /\ \A w \in Worker : pc[w] = "leave" => tail = Slot(head, count - 1)
         /\ \A w \in Worker : pc[w] \in {"compact", "leave"} => count \in 1 .. Capacity
<1>1. /\ count \in 0 .. Capacity
      /\ head \in 0 .. Capacity - 1
      /\ tail \in 0 .. Capacity - 1
  BY DEF IInv, TypeOK
<1>2. /\ (\A w \in Worker : pc[w] # "leave") => tail = Slot(head, count)
      /\ \A w \in Worker : pc[w] = "leave" => tail = Slot(head, count - 1)
  BY DEF IInv, RingInv
<1>3. \A w \in Worker : pc[w] \in {"compact", "leave"} => count > 0
  BY DEF IInv, RingInv, Removing
<1> QED
  BY <1>1, <1>2, <1>3, BufferAssumption

(* The array stands for a sequence of requests.                             *)
LEMMA PendingType ==
  ASSUME IInv
  PROVE  Pending \in Seq(Request)
<1>1. \A k \in DOMAIN Pending : Pending[k] \in Request
  BY DEF IInv, RingInv
<1> DEFINE n == count - (IF Removing THEN 1 ELSE 0)
<1>2. n \in Nat
  BY BufferAssumption DEF IInv, TypeOK, RingInv
<1>3. \E f : Pending = [k \in 1 .. n |-> f[k]]
  <2> DEFINE f == Pending
  <2>1. Pending = [k \in 1 .. n |-> f[k]]
    BY DEF Pending
  <2> QED
    BY <2>1
<1> HIDE DEF n
<1>4. Pending \in [1 .. n -> Request]
  BY <1>1, <1>3
<1> QED
  BY <1>2, <1>4

LEMMA PutStoreStep ==
  ASSUME IInv, PutStore
  PROVE  IInv' /\ Pending' = Append(Pending, req[Main])
<1> USE BufferAssumption DEF PutStore, Goto
<1>0. /\ Main \in Thread
      /\ \A w \in Worker : pc[w] \notin Holding /\ pc'[w] = pc[w]
      /\ pc' \in [Thread -> Point]
  BY Exclusive DEF Thread, Holding, Point, IInv, TypeOK
<1>1. /\ ~ Removing /\ ~ Removing'
      /\ \A w \in Worker : pc[w] \notin {"scan", "compact", "leave"}
      /\ \A w \in Worker : pc'[w] \notin {"scan", "compact", "leave"}
  BY <1>0 DEF Removing, Holding
<1>2. /\ count \in 0 .. Capacity - 1 /\ head \in 0 .. Capacity - 1
      /\ tail = Slot(head, count)
      /\ head' = head /\ count' = count + 1
  BY <1>1, RingFacts
<1>3. req[Main] \in Request
  BY DEF IInv, TypeOK, ThreadInv, Asking, Thread
<1>4. TypeOK'
  <2>1. tail' \in 0 .. Capacity - 1
    BY SlotType DEF IInv, TypeOK
  <2>2. slots' \in [0 .. Capacity - 1 -> Request \cup {NoRequest}]
    BY <1>3 DEF IInv, TypeOK
  <2>3. count' \in 0 .. Capacity
    BY <1>2
  <2>4. req' \in [Thread -> Request \cup {NoRequest}]
    BY DEF IInv, TypeOK
  <2> QED
    BY <1>0, <2>1, <2>2, <2>3, <2>4 DEF IInv, TypeOK, sync, scan, shift
<1>5. SyncInv'
  BY DEF IInv, TypeOK, SyncInv, Holding, Thread, sync
<1>6. ThreadInv'
  BY DEF IInv, TypeOK, ThreadInv, Asking, Thread
<1>7. Pending' = Append(Pending, req[Main])
  <2>1. Pending = [k \in 1 .. count |-> slots[Slot(head, k - 1)]]
    BY <1>1, PendingPlain, <1>2
  <2>2. Pending' = [k \in 1 .. count + 1 |-> slots'[Slot(head, k - 1)]]
    BY <1>1, <1>2 DEF Pending, Slot
  <2>3. \A k \in 1 .. count : Slot(head, k - 1) # tail
    <3> SUFFICES ASSUME NEW k \in 1 .. count, Slot(head, k - 1) = tail
                 PROVE  FALSE
      OBVIOUS
    <3> QED
      BY <1>2, SlotInjective
  <2>4. ASSUME NEW k \in 1 .. count
        PROVE  slots'[Slot(head, k - 1)] = slots[Slot(head, k - 1)]
    <3> k - 1 \in Nat
      BY <1>2
    <3>1. Slot(head, k - 1) \in 0 .. Capacity - 1 /\ Slot(head, k - 1) # tail
      BY <2>3, <1>2, SlotType
    <3> QED
      BY <3>1 DEF IInv, TypeOK
  <2>5. slots'[Slot(head, count)] = req[Main]
    BY <1>2 DEF IInv, TypeOK
  <2>6. Append(Pending, req[Main])
          = [k \in 1 .. count + 1 |-> IF k <= count THEN slots[Slot(head, k - 1)]
                                      ELSE req[Main]]
    BY <2>1, <1>2
  <2> QED
    BY <2>2, <2>4, <2>5, <2>6, <1>2
<1>8. RingInv'
  <2>1. tail' = Slot(head', count')
    BY <1>2, SlotSlot
  <2>2. \A k \in DOMAIN Pending' : Pending'[k] \in Request
    BY <1>3, <1>7, PendingType
  <2> QED
    BY <1>1, <2>1, <2>2 DEF RingInv
<1>9. ScanInv' /\ ShiftInv'
  BY <1>1 DEF ScanInv, ShiftInv
<1> QED
  BY <1>4, <1>5, <1>6, <1>7, <1>8, <1>9 DEF IInv

LEMMA GetOldestStep ==
  ASSUME IInv, NEW w \in Worker, GetOldest(w)
  PROVE  /\ IInv'
         /\ Pending # <<>>
         /\ req'[w] = Pending[1]
         /\ Pending' = Tail(Pending)
<1> USE BufferAssumption DEF GetOldest, Goto
<1>0. /\ w \in Thread
      /\ \A v \in Thread : v # w => pc[v] \notin Holding /\ pc'[v] = pc[v]
      /\ pc[w] = "test" /\ pc'[w] = "leave"
      /\ pc' \in [Thread -> Point]
  BY Exclusive DEF Thread, Holding, Point, IInv, TypeOK
<1>1. /\ ~ Removing /\ Removing'
      /\ pc'[w] = "leave"
      /\ \A v \in Worker : pc[v] \notin {"scan", "compact", "leave"}
      /\ \A v \in Worker : pc'[v] \notin {"scan", "compact"}
  BY <1>0 DEF Removing, Holding, Thread
<1>2. /\ count \in 1 .. Capacity /\ head \in 0 .. Capacity - 1
      /\ tail = Slot(head, count)
      /\ head' = Slot(head, 1) /\ count' = count /\ slots' = slots /\ tail' = tail
      /\ head' \in 0 .. Capacity - 1
  <2>1. count # 0 /\ count \in 0 .. Capacity /\ head \in 0 .. Capacity - 1
    BY RingFacts
  <2>2. tail = Slot(head, count)
    BY <1>1, RingFacts
  <2>3. Slot(head, 1) \in 0 .. Capacity - 1
    BY <2>1, SlotType
  <2> QED
    BY <2>1, <2>2, <2>3
<1>3. Pending = [k \in 1 .. count |-> slots[Slot(head, k - 1)]]
  BY <1>1, <1>2, PendingPlain
<1>4. slots[head] = Pending[1] /\ Pending[1] \in Request /\ Pending # <<>>
  <2>1. 1 \in DOMAIN Pending /\ Pending[1] = slots[Slot(head, 0)]
    BY <1>2, <1>3
  <2>2. Pending[1] \in Request
    BY <2>1 DEF IInv, RingInv
  <2> QED
    BY <1>2, <2>1, <2>2, SlotZero
<1>5. TypeOK'
  BY <1>0, <1>2, <1>4 DEF IInv, TypeOK, sync, scan, shift
<1>6. SyncInv'
  BY <1>0 DEF IInv, TypeOK, SyncInv, Holding, Thread, sync
<1>7. ThreadInv'
  <2>1. /\ pc'[Main] = pc[Main] /\ req'[Main] = req[Main]
        /\ req'[w] # NoRequest
        /\ \A v \in Worker \ {w} : pc'[v] = pc[v] /\ req'[v] = req[v]
    BY <1>0, <1>4 DEF IInv, TypeOK, Thread
  <2> QED
    BY <1>0, <2>1 DEF IInv, ThreadInv
<1>8. Pending' = Tail(Pending)
  <2>1. Pending' = [k \in 1 .. count - 1 |-> slots[Slot(head', k - 1)]]
    BY <1>1, <1>2 DEF Pending, Slot
  <2>2. \A k \in 1 .. count - 1 : Slot(head', k - 1) = Slot(head, k)
    BY <1>2, SlotSlot
  <2>3. Tail(Pending) = [k \in 1 .. count - 1 |-> slots[Slot(head, k)]]
    BY <1>2, <1>3
  <2> QED
    BY <2>1, <2>2, <2>3
<1>9. RingInv'
  <2>1. tail' = Slot(head', count' - 1)
    BY <1>2, SlotSlot
  <2>2. \A k \in DOMAIN Pending' : Pending'[k] \in Request
    BY <1>2, <1>3, <1>8 DEF IInv, RingInv
  <2> QED
    BY <1>1, <1>2, <2>1, <2>2 DEF RingInv
<1>10. ScanInv' /\ ShiftInv'
  BY <1>1 DEF ScanInv, ShiftInv
<1>11. req'[w] = Pending[1]
  BY <1>0, <1>4 DEF IInv, TypeOK
<1> QED
  BY <1>4, <1>5, <1>6, <1>7, <1>8, <1>9, <1>10, <1>11 DEF IInv

LEMMA ScanStartStep ==
  ASSUME IInv, NEW w \in Worker, ScanStart(w)
  PROVE  IInv' /\ Pending' = Pending
<1> USE BufferAssumption DEF ScanStart, Goto
<1>0. /\ w \in Thread
      /\ \A v \in Thread : v # w => pc[v] \notin Holding /\ pc'[v] = pc[v]
      /\ pc[w] = "test" /\ pc'[w] = "scan"
      /\ pc' \in [Thread -> Point]
  BY Exclusive DEF Thread, Holding, Point, IInv, TypeOK
<1>1. /\ ~ Removing /\ ~ Removing'
      /\ \A v \in Worker : pc[v] \notin {"scan", "compact", "leave"}
      /\ \A v \in Worker : pc'[v] \notin {"compact", "leave"}
      /\ \A v \in Worker : pc'[v] = "scan" => v = w
  BY <1>0 DEF Removing, Holding, Thread
<1>2. /\ count \in 1 .. Capacity /\ head \in 0 .. Capacity - 1
      /\ tail = Slot(head, count)
      /\ head' = head /\ count' = count /\ slots' = slots /\ tail' = tail
  BY <1>1, RingFacts DEF ring
<1>3. Pending = [k \in 1 .. count |-> slots[Slot(head, k - 1)]]
  BY <1>1, <1>2, PendingPlain
<1>4. slots[head] \in Request /\ Slot(head, 0) = head
  <2>1. 1 \in DOMAIN Pending /\ Pending[1] = slots[Slot(head, 0)]
    BY <1>2, <1>3
  <2>2. Pending[1] \in Request
    BY <2>1 DEF IInv, RingInv
  <2> QED
    BY <1>2, <2>1, <2>2, SlotZero
<1>5. TypeOK'
  <2>1. FileSize[slots[head]] \in Int
    BY <1>4
  <2>2. /\ i' \in [Worker -> 0 .. Capacity]
        /\ min_logical' \in [Worker -> 0 .. Capacity - 1]
        /\ min_size' \in [Worker -> Int]
    BY <2>1 DEF IInv, TypeOK
  <2> QED
    BY <1>0, <2>2 DEF IInv, TypeOK, ring, sync, shift
<1>6. SyncInv'
  BY <1>0 DEF IInv, TypeOK, SyncInv, Holding, Thread, sync
<1>7. ThreadInv'
  BY <1>0 DEF IInv, ThreadInv, Thread
<1>8. Pending' = Pending
  BY <1>1, <1>2, <1>3 DEF Pending, Slot
<1>9. RingInv'
  BY <1>1, <1>2, <1>8 DEF IInv, RingInv, Slot
<1>10. ScanInv'
  <2>1. /\ i'[w] = 1 /\ min_logical'[w] = 0
        /\ min_size'[w] = FileSize[slots[Slot(head, 0)]]
    BY <1>4 DEF IInv, TypeOK
  <2>2. 0 .. 1 - 1 = {0} /\ 0 .. 0 - 1 = {}
    OBVIOUS
  <2>3. FileSize[slots[Slot(head, 0)]] \in Int
    BY <1>4
  <2>4. \A k, j : Slot(k, j)' = Slot(k, j)
    BY DEF Slot
  <2> QED
    BY <1>1, <1>2, <2>1, <2>2, <2>3 DEF ScanInv, Slot
<1>11. ShiftInv'
  BY <1>1 DEF ShiftInv
<1> QED
  BY <1>5, <1>6, <1>7, <1>8, <1>9, <1>10, <1>11 DEF IInv

LEMMA ScanStepStep ==
  ASSUME IInv, NEW w \in Worker, ScanStep(w)
  PROVE  IInv' /\ Pending' = Pending
<1> DEFINE size == FileSize[slots[Slot(head, i[w])]]
<1> USE BufferAssumption
<1>0. /\ w \in Thread /\ pc[w] = "scan" /\ i[w] < count
      /\ \A v \in Worker : v # w => pc[v] \notin Holding
      /\ UNCHANGED <<slots, count, head, tail, mtx, not_empty, not_full, pc, req>>
      /\ UNCHANGED <<cur, next>>
      /\ i' = [i EXCEPT ![w] = @ + 1]
      /\ \/ /\ size < min_size[w]
            /\ min_size' = [min_size EXCEPT ![w] = size]
            /\ min_logical' = [min_logical EXCEPT ![w] = i[w]]
         \/ /\ size >= min_size[w]
            /\ UNCHANGED <<min_size, min_logical>>
  BY Exclusive DEF ScanStep, Thread, Holding, ring, sync, shift
<1>1. /\ ~ Removing
      /\ \A v \in Worker : pc[v] \notin {"compact", "leave"}
      /\ \A v \in Worker : pc[v] = "scan" => v = w
  BY <1>0 DEF Removing, Holding
<1>2. count \in 1 .. Capacity /\ head \in 0 .. Capacity - 1
  BY <1>0, RingFacts DEF IInv, TypeOK
<1>3. /\ i[w] \in 1 .. count - 1
      /\ min_logical[w] \in 0 .. i[w] - 1
      /\ min_size[w] = FileSize[slots[Slot(head, min_logical[w])]]
      /\ \A j \in 0 .. i[w] - 1 : min_size[w] <= FileSize[slots[Slot(head, j)]]
      /\ \A j \in 0 .. min_logical[w] - 1 :
           min_size[w] < FileSize[slots[Slot(head, j)]]
      /\ min_size[w] \in Int
  <2>1. /\ i[w] \in 1 .. count
        /\ min_logical[w] < i[w]
        /\ min_size[w] = FileSize[slots[Slot(head, min_logical[w])]]
        /\ \A j \in 0 .. i[w] - 1 : min_size[w] <= FileSize[slots[Slot(head, j)]]
        /\ \A j \in 0 .. min_logical[w] - 1 :
             min_size[w] < FileSize[slots[Slot(head, j)]]
    BY <1>0 DEF IInv, ScanInv
  <2>2. min_logical[w] \in Nat /\ min_size[w] \in Int
    BY DEF IInv, TypeOK
  <2>3. i[w] \in 1 .. count - 1 /\ min_logical[w] \in 0 .. i[w] - 1
    BY <1>0, <1>2, <2>1, <2>2
  <2> QED
    BY <2>1, <2>2, <2>3
<1>4. \A j \in 0 .. count - 1 : FileSize[slots[Slot(head, j)]] \in Int
  <2>1. Pending = [k \in 1 .. count |-> slots[Slot(head, k - 1)]]
    BY <1>1, <1>2, PendingPlain
  <2> SUFFICES ASSUME NEW j \in 0 .. count - 1
               PROVE  slots[Slot(head, j)] \in Request
    OBVIOUS
  <2>2. j + 1 \in 1 .. count /\ j + 1 - 1 = j
    BY <1>2
  <2>3. j + 1 \in DOMAIN Pending /\ Pending[j + 1] = slots[Slot(head, j)]
    BY <2>1, <2>2
  <2> QED
    BY <2>3 DEF IInv, RingInv
<1>5. size \in Int
  BY <1>3, <1>4, <1>2
<1> HIDE DEF size
<1>6. TypeOK'
  <2>1. i[w] + 1 \in 0 .. Capacity /\ i[w] \in 0 .. Capacity - 1
    BY <1>2, <1>3
  <2>2. i' \in [Worker -> 0 .. Capacity]
    BY <1>0, <2>1 DEF IInv, TypeOK
  <2>3. min_logical' \in [Worker -> 0 .. Capacity - 1]
    BY <1>0, <2>1 DEF IInv, TypeOK
  <2>4. min_size' \in [Worker -> Int]
    BY <1>0, <1>5 DEF IInv, TypeOK
  <2> QED
    BY <1>0, <2>2, <2>3, <2>4 DEF IInv, TypeOK
<1>7. SyncInv' /\ ThreadInv'
  BY <1>0 DEF IInv, SyncInv, ThreadInv
<1>8. Pending' = Pending /\ ~ Removing'
  BY <1>0, <1>1 DEF Pending, Removing, Slot, Gap
<1>9. RingInv'
  BY <1>0, <1>1, <1>8 DEF IInv, RingInv, Slot
<1>10. ScanInv'
  <2>0. /\ i'[w] = i[w] + 1
        /\ i[w] + 1 \in 1 .. count
    BY <1>0, <1>2, <1>3, SMTT(20) DEF IInv, TypeOK
  <2> DEFINE Found(ml, ms) ==
        /\ ml < i[w] + 1
        /\ ms = FileSize[slots[Slot(head, ml)]]
        /\ \A j \in 0 .. i[w] : ms <= FileSize[slots[Slot(head, j)]]
        /\ \A j \in 0 .. ml - 1 : ms < FileSize[slots[Slot(head, j)]]
  <2>1. Found(min_logical'[w], min_size'[w])
    <3>1. \A j \in 0 .. i[w] : j \in 0 .. i[w] - 1 \/ j = i[w]
      BY <1>3
    <3>2. \A j \in 0 .. i[w] - 1 : j \in 0 .. count - 1
      BY <1>2, <1>3
    <3>3. CASE size < min_size[w]
      <4>1. min_logical'[w] = i[w] /\ min_size'[w] = size
        <5>1. ~ size >= min_size[w]
          BY <1>3, <1>5, <3>3
        <5>2. /\ min_size' = [min_size EXCEPT ![w] = size]
              /\ min_logical' = [min_logical EXCEPT ![w] = i[w]]
          BY <1>0, <5>1
        <5> QED
          BY <5>2 DEF IInv, TypeOK
      <4>2. \A j \in 0 .. i[w] - 1 : size < FileSize[slots[Slot(head, j)]]
        BY <1>3, <1>4, <1>5, <3>2, <3>3
      <4>3. size <= FileSize[slots[Slot(head, i[w])]]
        BY <1>5 DEF size
      <4>4. \A j \in 0 .. i[w] - 1 : size <= FileSize[slots[Slot(head, j)]]
        BY <4>2, <1>4, <1>5, <3>2
      <4> QED
        BY <4>1, <4>2, <4>3, <4>4, <3>1, <1>3 DEF size
    <3>4. CASE size >= min_size[w]
      <4>1. min_logical'[w] = min_logical[w] /\ min_size'[w] = min_size[w]
        BY <1>0, <1>3, <1>5, <3>4
      <4>2. min_size[w] <= FileSize[slots[Slot(head, i[w])]]
        BY <3>4, <1>3, <1>5 DEF size
      <4> QED
        BY <4>1, <4>2, <3>1, <1>3
    <3> QED
      BY <1>0, <3>3, <3>4
  <2>2. i[w] + 1 - 1 = i[w]
    BY <1>3
  <2> SUFFICES ASSUME NEW v \in Worker, (pc[v] = "scan")'
               PROVE  ( /\ i[v] \in 1 .. count
                        /\ min_logical[v] < i[v]
                        /\ min_size[v] = FileSize[slots[Slot(head, min_logical[v])]]
                        /\ \A j \in 0 .. i[v] - 1 :
                             min_size[v] <= FileSize[slots[Slot(head, j)]]
                        /\ \A j \in 0 .. min_logical[v] - 1 :
                             min_size[v] < FileSize[slots[Slot(head, j)]] )'
    BY DEF ScanInv
  <2>3. v = w /\ slots' = slots /\ head' = head /\ count' = count
    BY <1>0, <1>1
  <2>4. i'[v] \in 1 .. count' /\ i'[v] - 1 = i[w]
    <3>1. i'[v] = i[w] + 1
      BY <2>0, <2>3
    <3> QED
      BY <1>3, <2>0, <2>3, <3>1
  <2>5. min_logical'[v] < i'[v] /\ \A j \in 0 .. i'[v] - 1 : j \in 0 .. i[w]
    BY <2>0, <2>1, <2>3, <2>4
  <2> QED
    BY <2>1, <2>3, <2>4, <2>5 DEF Slot
<1>11. ShiftInv'
  BY <1>0, <1>1 DEF ShiftInv
<1> QED
  BY <1>6, <1>7, <1>8, <1>9, <1>10, <1>11 DEF IInv

LEMMA ScanEndStep ==
  ASSUME IInv, NEW w \in Worker, ScanEnd(w)
  PROVE  /\ IInv'
         /\ min_logical[w] + 1 \in DOMAIN Pending
         /\ req'[w] = Pending[min_logical[w] + 1]
         /\ \A j \in DOMAIN Pending :
              FileSize[req'[w]] <= FileSize[Pending[j]]
         /\ \A j \in 1 .. min_logical[w] :
              FileSize[req'[w]] < FileSize[Pending[j]]
         /\ Pending' = [k \in 1 .. Len(Pending) - 1 |->
                          Pending[IF min_logical[w] < k THEN k + 1 ELSE k]]
<1> DEFINE g == min_logical[w]
<1> USE BufferAssumption
<1>0. /\ w \in Thread /\ pc[w] = "scan" /\ i[w] >= count
      /\ \A v \in Thread : v # w => pc[v] \notin Holding /\ pc'[v] = pc[v]
      /\ pc' \in [Thread -> Point] /\ pc'[w] = "compact"
      /\ UNCHANGED <<slots, count, head, tail, mtx, not_empty, not_full>>
      /\ req' = [req EXCEPT ![w] = slots[Slot(head, g)]]
      /\ cur' = [cur EXCEPT ![w] = Slot(head, g)]
      /\ next' = [next EXCEPT ![w] = Slot(Slot(head, g), 1)]
      /\ i' = [i EXCEPT ![w] = 0]
      /\ min_logical' = [min_logical EXCEPT ![w] = 0]
      /\ min_size' = [min_size EXCEPT ![w] = 0]
  BY Exclusive
  DEF ScanEnd, Goto, Thread, Holding, Point, ring, sync, IInv, TypeOK
<1>1. /\ ~ Removing /\ Removing'
      /\ \A v \in Worker : pc[v] \notin {"compact", "leave"}
      /\ \A v \in Worker : pc'[v] \notin {"scan", "leave"}
      /\ \A v \in Worker : pc'[v] = "compact" => v = w
  BY <1>0 DEF Removing, Holding, Thread
<1>2. /\ count \in 1 .. Capacity /\ head \in 0 .. Capacity - 1
      /\ i[w] = count /\ g \in 0 .. count - 1
      /\ min_size[w] = FileSize[slots[Slot(head, g)]]
      /\ \A j \in 0 .. count - 1 : min_size[w] <= FileSize[slots[Slot(head, j)]]
      /\ \A j \in 0 .. g - 1 : min_size[w] < FileSize[slots[Slot(head, j)]]
  <2>1. /\ i[w] \in 1 .. count /\ g < i[w]
        /\ min_size[w] = FileSize[slots[Slot(head, g)]]
        /\ \A j \in 0 .. i[w] - 1 : min_size[w] <= FileSize[slots[Slot(head, j)]]
        /\ \A j \in 0 .. g - 1 : min_size[w] < FileSize[slots[Slot(head, j)]]
    BY <1>0 DEF IInv, ScanInv
  <2>2. g \in Nat /\ count \in 0 .. Capacity /\ head \in 0 .. Capacity - 1
    BY DEF IInv, TypeOK
  <2>3. i[w] = count /\ count \in 1 .. Capacity /\ g \in 0 .. count - 1
    BY <1>0, <2>1, <2>2
  <2> QED
    BY <2>1, <2>2, <2>3
<1> HIDE DEF g
<1>3. Pending = [k \in 1 .. count |-> slots[Slot(head, k - 1)]]
  BY <1>1, <1>2, PendingPlain
<1>4. /\ g + 1 \in 1 .. count /\ slots[Slot(head, g)] = Pending[g + 1]
      /\ DOMAIN Pending = 1 .. count /\ Len(Pending) = count
  BY <1>2, <1>3
<1>5. slots[Slot(head, g)] \in Request
  BY <1>4 DEF IInv, RingInv
<1>6. req'[w] = Pending[g + 1]
  BY <1>0, <1>4 DEF IInv, TypeOK
<1>7. Slot(head, g) \in 0 .. Capacity - 1
  BY <1>2, SlotType
<1>8. TypeOK'
  <2>1. Slot(Slot(head, g), 1) \in 0 .. Capacity - 1
    BY <1>7, SlotType
  <2>2. /\ i' \in [Worker -> 0 .. Capacity]
        /\ min_logical' \in [Worker -> 0 .. Capacity - 1]
        /\ min_size' \in [Worker -> Int]
    BY <1>0 DEF IInv, TypeOK
  <2>3. /\ cur' \in [Worker -> 0 .. Capacity - 1]
        /\ next' \in [Worker -> 0 .. Capacity - 1]
        /\ req' \in [Thread -> Request \cup {NoRequest}]
    BY <1>0, <1>5, <1>7, <2>1 DEF IInv, TypeOK
  <2> QED
    BY <1>0, <2>2, <2>3 DEF IInv, TypeOK
<1>9. SyncInv'
  BY <1>0 DEF IInv, SyncInv, Holding, Thread
<1>10. ThreadInv'
  <2>1. /\ pc'[Main] = pc[Main] /\ req'[Main] = req[Main]
        /\ req'[w] # NoRequest
        /\ \A v \in Worker \ {w} : pc'[v] = pc[v] /\ req'[v] = req[v]
    BY <1>0, <1>5 DEF IInv, TypeOK, Thread
  <2> QED
    BY <1>0, <2>1 DEF IInv, ThreadInv
<1>11. cur'[w] = Slot(head', g) /\ next'[w] = Slot(cur'[w], 1)
  BY <1>0 DEF IInv, TypeOK
<1>12. Pending' = [k \in 1 .. count - 1 |->
                     slots[Slot(head, IF g < k THEN k ELSE k - 1)]]
  <2>1. Gap(w)' = g
    BY <1>0, <1>2, <1>11, SlotGap DEF Gap
  <2>2. \A k : (\E v \in Worker : pc[v] = "compact" /\ Gap(v) < k)' <=> g < k
    BY <1>0, <1>1, <2>1
  <2>3. Pending' = [k \in 1 .. count - 1 |->
                      IF g < k THEN slots[Slot(head, k)]
                      ELSE slots[Slot(head, k - 1)]]
    BY <1>0, <1>1, <2>2 DEF Pending, Slot
  <2> QED
    BY <2>3
<1>13. Pending' = [k \in 1 .. count - 1 |-> Pending[IF g < k THEN k + 1 ELSE k]]
  <2>1. \A k \in 1 .. count - 1 :
          Pending[IF g < k THEN k + 1 ELSE k]
            = slots[Slot(head, IF g < k THEN k ELSE k - 1)]
    BY <1>2, <1>3
  <2> QED
    BY <1>12, <2>1
<1>14. RingInv'
  <2>1. tail' = Slot(head', count')
    BY <1>0, <1>1, RingFacts DEF Slot
  <2>2. \A k \in DOMAIN Pending' : Pending'[k] \in Request
    <3> SUFFICES ASSUME NEW k \in 1 .. count - 1
                 PROVE  Pending[IF g < k THEN k + 1 ELSE k] \in Request
      BY <1>13
    <3>1. (IF g < k THEN k + 1 ELSE k) \in 1 .. count
      BY <1>2
    <3> QED
      BY <3>1, <1>4 DEF IInv, RingInv
  <2> QED
    BY <1>0, <1>1, <1>2, <2>1, <2>2 DEF RingInv
<1>15. ScanInv'
  BY <1>1 DEF ScanInv
<1>16. ShiftInv'
  BY <1>0, <1>1, <1>2, <1>11 DEF ShiftInv, Slot
<1>17. \A j \in 1 .. count : Pending[j] = slots[Slot(head, j - 1)] /\ j - 1 \in 0 .. count - 1
  BY <1>2, <1>3
<1>18. \A j \in DOMAIN Pending : FileSize[req'[w]] <= FileSize[Pending[j]]
  BY <1>2, <1>4, <1>6, <1>17
<1>19. \A j \in 1 .. g : FileSize[req'[w]] < FileSize[Pending[j]]
  <2> SUFFICES ASSUME NEW j \in 1 .. g
               PROVE  FileSize[req'[w]] < FileSize[Pending[j]]
    OBVIOUS
  <2>1. j \in 1 .. count /\ j - 1 \in 0 .. g - 1
    BY <1>2
  <2> QED
    BY <1>2, <1>4, <1>6, <1>17, <2>1, SMTT(20)
<1>20. IInv'
  BY <1>8, <1>9, <1>10, <1>14, <1>15, <1>16 DEF IInv
<1> QED
  BY <1>4, <1>6, <1>13, <1>18, <1>19, <1>20 DEF g

(* The gap the compaction moves is a live slot, and next follows it.        *)
LEMMA GapFacts ==
  ASSUME IInv, NEW w \in Worker, pc[w] = "compact"
  PROVE  \E g \in 0 .. count - 1 :
           /\ cur[w] = Slot(head, g)
           /\ next[w] = Slot(head, g + 1)
           /\ next[w] = tail <=> g = count - 1
<1> USE BufferAssumption
<1>1. PICK g \in 0 .. count - 1 : cur[w] = Slot(head, g) /\ next[w] = Slot(cur[w], 1)
  BY DEF IInv, ShiftInv
<1>2. /\ count \in 1 .. Capacity /\ head \in 0 .. Capacity - 1
      /\ g \in 0 .. Capacity - 1 /\ g + 1 \in 1 .. count
  BY RingFacts
<1>3. next[w] = Slot(head, g + 1)
  BY <1>1, <1>2, SlotSlot
<1>4. tail = Slot(head, count)
  BY Exclusive, RingFacts DEF Thread, Holding
<1>5. ASSUME Slot(head, g + 1) = Slot(head, count) PROVE g = count - 1
  <2>1. CASE count < Capacity
    BY <1>2, <1>5, <2>1, SlotInjective
  <2>2. CASE count = Capacity
    <3>1. Slot(head, g + 1) = Slot(head, 0)
      BY <1>2, <1>5, <2>2, SlotZero
    <3>2. CASE g + 1 < Capacity
      <4>1. g + 1 = 0
        BY <1>2, <3>1, <3>2, SlotInjective
      <4> QED
        BY <4>1, <1>2
    <3> QED
      BY <1>2, <2>2, <3>2
  <2> QED
    BY <1>2, <2>1, <2>2
<1>6. g = count - 1 => g + 1 = count
  BY <1>2
<1> QED
  BY <1>1, <1>3, <1>4, <1>5, <1>6

LEMMA ShiftStepStep ==
  ASSUME IInv, NEW w \in Worker, ShiftStep(w)
  PROVE  IInv' /\ Pending' = Pending
<1> USE BufferAssumption
<1>0. /\ w \in Thread /\ pc[w] = "compact" /\ next[w] # tail
      /\ UNCHANGED <<count, head, tail, mtx, not_empty, not_full, pc, req>>
      /\ UNCHANGED <<i, min_logical, min_size>>
      /\ slots' = [slots EXCEPT ![cur[w]] = slots[next[w]]]
      /\ cur' = [cur EXCEPT ![w] = next[w]]
      /\ next' = [next EXCEPT ![w] = Slot(next[w], 1)]
      /\ \A v \in Worker : v # w => pc[v] \notin Holding
  BY Exclusive DEF ShiftStep, sync, scan, Thread, Holding
<1>1. PICK g \in 0 .. count - 1 : /\ cur[w] = Slot(head, g)
                                  /\ next[w] = Slot(head, g + 1)
                                  /\ g # count - 1
  BY <1>0, GapFacts
<1>2. /\ count \in 1 .. Capacity /\ head \in 0 .. Capacity - 1
      /\ g \in 0 .. Capacity - 1 /\ g + 1 \in 0 .. count - 1
  BY <1>0, <1>1, RingFacts
<1>3. /\ Removing /\ Removing'
      /\ \A v \in Worker : pc[v] \in {"scan", "compact", "leave"} => v = w
  BY <1>0 DEF Removing, Holding
<1>4. /\ cur[w] \in 0 .. Capacity - 1
      /\ next[w] \in 0 .. Capacity - 1
      /\ Slot(next[w], 1) \in 0 .. Capacity - 1
  BY <1>1, <1>2, SlotType DEF IInv, TypeOK
<1>5. cur'[w] = Slot(head', g + 1) /\ next'[w] = Slot(cur'[w], 1)
  BY <1>0, <1>1 DEF IInv, TypeOK
<1>6. TypeOK'
  BY <1>0, <1>4 DEF IInv, TypeOK
<1>7. SyncInv' /\ ThreadInv'
  BY <1>0 DEF IInv, SyncInv, ThreadInv
<1>8. Pending' = Pending
  <2>1. Pending = [k \in 1 .. count - 1 |->
                     slots[Slot(head, IF g < k THEN k ELSE k - 1)]]
    BY <1>0, <1>1, PendingGap
  <2>2. Gap(w)' = g + 1
    BY <1>0, <1>2, <1>5, SlotGap DEF Gap
  <2>3. \A k : (\E v \in Worker : pc[v] = "compact" /\ Gap(v) < k)' <=> g + 1 < k
    BY <1>0, <1>3, <2>2
  <2>4. Pending' = [k \in 1 .. count - 1 |->
                      IF g + 1 < k THEN slots'[Slot(head, k)]
                      ELSE slots'[Slot(head, k - 1)]]
    BY <1>0, <1>3, <2>3 DEF Pending, Slot
  <2>5. ASSUME NEW k \in 1 .. count - 1
        PROVE  (IF g + 1 < k THEN slots'[Slot(head, k)]
                ELSE slots'[Slot(head, k - 1)])
               = slots[Slot(head, IF g < k THEN k ELSE k - 1)]
    <3>1. /\ k \in 0 .. Capacity - 1 /\ k - 1 \in 0 .. Capacity - 1
          /\ Slot(head, k) \in 0 .. Capacity - 1
          /\ Slot(head, k - 1) \in 0 .. Capacity - 1
      <4>1. /\ k \in 0 .. Capacity - 1 /\ k - 1 \in 0 .. Capacity - 1
            /\ k \in Nat /\ k - 1 \in Nat
        BY <1>2
      <4> QED
        BY <4>1, <1>2, SlotType
    <3>2. CASE g + 1 < k
      <4>1. Slot(head, k) # cur[w]
        BY <1>1, <1>2, <3>1, <3>2, SlotInjective
      <4>2. slots'[Slot(head, k)] = slots[Slot(head, k)]
        BY <1>0, <3>1, <4>1 DEF IInv, TypeOK
      <4> QED
        BY <1>2, <3>2, <4>2
    <3>3. CASE k = g + 1
      <4>1. k - 1 = g /\ ~ g + 1 < k /\ g < k
        BY <1>2, <3>3
      <4>2. slots'[cur[w]] = slots[next[w]]
        BY <1>0, <1>4 DEF IInv, TypeOK
      <4> QED
        BY <1>1, <3>3, <4>1, <4>2
    <3>4. CASE k < g + 1
      <4>1. k - 1 # g /\ ~ g + 1 < k /\ ~ g < k
        BY <1>2, <3>4
      <4>2. Slot(head, k - 1) # cur[w]
        BY <1>1, <1>2, <3>1, <4>1, SlotInjective
      <4>3. slots'[Slot(head, k - 1)] = slots[Slot(head, k - 1)]
        BY <1>0, <3>1, <4>2 DEF IInv, TypeOK
      <4> QED
        BY <4>1, <4>3
    <3> QED
      BY <1>2, <3>2, <3>3, <3>4
  <2> QED
    BY <2>1, <2>4, <2>5
<1>9. RingInv'
  BY <1>0, <1>3, <1>8 DEF IInv, RingInv, Slot
<1>10. ScanInv'
  <2>1. \A v \in Worker : pc'[v] # "scan"
    BY <1>0, <1>3
  <2> QED
    BY <2>1 DEF ScanInv
<1>11. ShiftInv'
  BY <1>0, <1>2, <1>3, <1>5 DEF ShiftInv, Slot
<1> QED
  BY <1>6, <1>7, <1>8, <1>9, <1>10, <1>11 DEF IInv

LEMMA ShiftEndStep ==
  ASSUME IInv, NEW w \in Worker, ShiftEnd(w)
  PROVE  IInv' /\ Pending' = Pending
<1> USE BufferAssumption
<1>0. /\ w \in Thread /\ pc[w] = "compact" /\ next[w] = tail
      /\ UNCHANGED <<slots, count, head, mtx, not_empty, not_full, req>>
      /\ UNCHANGED <<i, min_logical, min_size>>
      /\ tail' = (tail - 1 + Capacity) % Capacity
      /\ cur' = [cur EXCEPT ![w] = 0]
      /\ next' = [next EXCEPT ![w] = 0]
      /\ \A v \in Thread : v # w => pc[v] \notin Holding /\ pc'[v] = pc[v]
      /\ pc' \in [Thread -> Point] /\ pc'[w] = "leave"
  BY Exclusive
  DEF ShiftEnd, Goto, sync, scan, Thread, Holding, Point, IInv, TypeOK
<1>1. PICK g \in 0 .. count - 1 : cur[w] = Slot(head, g) /\ g = count - 1
  BY <1>0, GapFacts
<1>2. /\ count \in 1 .. Capacity /\ head \in 0 .. Capacity - 1
      /\ tail = Slot(head, count)
  BY <1>0, RingFacts DEF Thread, Holding
<1>3. /\ Removing /\ Removing'
      /\ \A v \in Worker : pc'[v] \notin {"scan", "compact"}
  BY <1>0 DEF Removing, Holding, Thread
<1>4. tail' = Slot(head, count - 1)
  BY <1>0, <1>2, SlotBack
<1>5. TypeOK'
  <2>1. tail' \in 0 .. Capacity - 1
    BY <1>2, <1>4, SlotType
  <2>2. /\ cur' \in [Worker -> 0 .. Capacity - 1]
        /\ next' \in [Worker -> 0 .. Capacity - 1]
    BY <1>0 DEF IInv, TypeOK
  <2> QED
    BY <1>0, <2>1, <2>2 DEF IInv, TypeOK
<1>6. SyncInv'
  BY <1>0 DEF IInv, SyncInv, Holding, Thread
<1>7. ThreadInv'
  BY <1>0 DEF IInv, ThreadInv, Thread
<1>8. Pending' = Pending
  <2>1. Pending = [k \in 1 .. count - 1 |->
                     slots[Slot(head, IF g < k THEN k ELSE k - 1)]]
    BY <1>0, <1>1, PendingGap
  <2>2. Pending' = [k \in 1 .. count - 1 |-> slots[Slot(head, k - 1)]]
    BY <1>0, <1>3 DEF Pending, Slot
  <2>3. \A k \in 1 .. count - 1 : ~ g < k
    BY <1>1, <1>2
  <2> QED
    BY <2>1, <2>2, <2>3
<1>9. RingInv'
  BY <1>0, <1>2, <1>3, <1>4, <1>8 DEF IInv, RingInv, Slot
<1>10. ScanInv' /\ ShiftInv'
  BY <1>3 DEF ScanInv, ShiftInv
<1> QED
  BY <1>5, <1>6, <1>7, <1>8, <1>9, <1>10 DEF IInv

LEMMA GetLeaveStep ==
  ASSUME IInv, NEW w \in Worker, GetLeave(w)
  PROVE  IInv' /\ Pending' = Pending
<1> USE BufferAssumption
<1> DEFINE Woken(s) == /\ s = Main /\ s \in not_full
                       /\ not_full' = not_full \ {s}
                       /\ pc' = [pc EXCEPT ![s] = "relock", ![w] = "serve"]
           Nobody == /\ not_full = {} /\ not_full' = {}
                     /\ pc' = [pc EXCEPT ![w] = "serve"]
<1>0. /\ w \in Thread /\ pc[w] = "leave"
      /\ UNCHANGED <<slots, head, tail, not_empty, req>>
      /\ UNCHANGED <<i, min_logical, min_size, cur, next>>
      /\ count' = count - 1 /\ mtx' = NoThread
      /\ \A v \in Thread : v # w => pc[v] \notin Holding
      /\ Nobody \/ Woken(Main)
  BY Exclusive
  DEF GetLeave, SignalAndUnlock, Goto, scan, shift, Thread, Holding, IInv, TypeOK
<1>1. /\ \A v \in Worker : v # w => pc'[v] = pc[v]
      /\ pc' \in [Thread -> Point] /\ pc'[w] = "serve"
      /\ pc'[Main] = pc[Main] \/ (pc[Main] = "sleep" /\ pc'[Main] = "relock")
  <2>1. CASE Nobody
    BY <1>0, <2>1 DEF Thread, IInv, TypeOK, Point
  <2>2. CASE Woken(Main)
    BY <1>0, <2>2 DEF Thread, IInv, TypeOK, SyncInv, Point, Asking
  <2> QED
    BY <1>0, <2>1, <2>2
<1>2. /\ count \in 1 .. Capacity /\ head \in 0 .. Capacity - 1
      /\ tail = Slot(head, count - 1)
  BY <1>0, RingFacts
<1>3. /\ Removing /\ ~ Removing'
      /\ \A v \in Worker : pc[v] # "compact"
      /\ \A v \in Worker : pc'[v] \notin {"scan", "compact", "leave"}
  BY <1>0, <1>1 DEF Removing, Holding, Thread
<1>4. TypeOK'
  <2>1. count' \in 0 .. Capacity /\ not_full' \in SUBSET {Main}
    BY <1>0, <1>2 DEF IInv, TypeOK
  <2> QED
    BY <1>0, <1>1, <2>1 DEF IInv, TypeOK
<1>5. SyncInv'
  <2>1. CASE Nobody
    BY <1>0, <1>1, <2>1 DEF IInv, TypeOK, SyncInv, Holding, Thread
  <2>2. CASE Woken(Main)
    BY <1>0, <1>1, <2>2 DEF IInv, TypeOK, SyncInv, Holding, Thread
  <2> QED
    BY <1>0, <2>1, <2>2
<1>6. ThreadInv'
  BY <1>0, <1>1 DEF IInv, ThreadInv, Asking, Thread
<1>7. Pending' = Pending
  <2>1. Pending = [k \in 1 .. count - 1 |-> slots[Slot(head, k - 1)]]
    BY <1>3, PendingPlain
  <2>2. Pending' = [k \in 1 .. count - 1 |-> slots[Slot(head, k - 1)]]
    BY <1>0, <1>2, <1>3 DEF Pending, Slot
  <2> QED
    BY <2>1, <2>2
<1>8. RingInv'
  BY <1>0, <1>2, <1>3, <1>7 DEF IInv, RingInv, Slot
<1>9. ScanInv' /\ ShiftInv'
  BY <1>3 DEF ScanInv, ShiftInv
<1> QED
  BY <1>4, <1>5, <1>6, <1>7, <1>8, <1>9 DEF IInv

-----------------------------------------------------------------------------
(* The theorems.                                                            *)

(* IInv is inductive: every step of every thread preserves it, including    *)
(* those of the compaction, for every capacity and pool size.               *)
LEMMA IInvStep == IInv /\ [Next]_vars => IInv'
<1> SUFFICES ASSUME IInv, [Next]_vars PROVE IInv'
  OBVIOUS
<1>1. ASSUME NEW t \in Thread, Acquire(t) PROVE IInv'
  BY <1>1, AcquireStep
<1>2. ASSUME NEW t \in Thread, SpuriousWakeup(t) PROVE IInv'
  BY <1>2, SpuriousWakeupStep
<1>3. ASSUME NEW r \in Request, Offer(r) PROVE IInv'
  BY <1>3, OfferStep
<1>4. CASE MainStep
  BY <1>4, PutWaitStep, PutStoreStep, PutLeaveStep DEF MainStep
<1>5. ASSUME NEW w \in Worker, WorkerStep(w) PROVE IInv'
  BY <1>5, GetWaitStep, GetOldestStep, ScanStartStep, ScanStepStep, ScanEndStep,
     ShiftStepStep, ShiftEndStep, GetLeaveStep, ServeStep DEF WorkerStep
<1>6. CASE UNCHANGED vars
  <2>1. TypeOK' /\ SyncInv' /\ ThreadInv'
    BY <1>6 DEF IInv, TypeOK, SyncInv, ThreadInv, vars, ring, sync, scan, shift
  <2> QED
    BY <1>6, <2>1, FrameStep DEF IInv, vars
<1> QED
  BY <1>1, <1>2, <1>3, <1>4, <1>5, <1>6 DEF Next

(* The mutual exclusion, the ring bookkeeping, the scan and the compaction  *)
(* of buffer.c are right in every reachable state.                          *)
THEOREM IInvHolds == Spec => []IInv
<1>1. Init => IInv
  BY InitIInv
<1>2. IInv /\ [Next]_vars => IInv'
  BY IInvStep
<1> QED
  BY <1>1, <1>2, PTL DEF Spec

(* Every variable keeps its type: in particular count stays within          *)
(* 0 .. cap and head and tail index a slot.                                 *)
THEOREM TypeCorrect == Spec => []TypeOK
<1>1. IInv => TypeOK
  BY DEF IInv
<1> QED
  BY <1>1, IInvHolds, PTL

-----------------------------------------------------------------------------
(* Wake-ups.                                                                *)

LEMMA GettersAreFinite ==
  IsFiniteSet(AwakeGetters) /\ Cardinality(AwakeGetters) \in Nat
<1>1. IsFiniteSet(Worker) /\ AwakeGetters \subseteq Worker
  BY BufferAssumption DEF AwakeGetters
<1> QED
  BY <1>1, FS_Subset, FS_CardinalityType

LEMMA PendingLength ==
  ASSUME IInv
  PROVE  /\ Len(Pending) \in Nat
         /\ Len(Pending) = count - (IF Removing THEN 1 ELSE 0)
<1>1. Pending \in Seq(Request)
  BY PendingType
<1>2. count - (IF Removing THEN 1 ELSE 0) \in Nat
  BY BufferAssumption DEF IInv, TypeOK, RingInv
<1>3. DOMAIN Pending = 1 .. count - (IF Removing THEN 1 ELSE 0)
  BY DEF Pending
<1> QED
  BY <1>1, <1>2, <1>3

(* A step after which the same requests are pending, and of those who were  *)
(* to take them or to signal nobody is missing.                             *)
LEMMA StillAwake ==
  ASSUME IInv, NoLostWakeup, Pending' = Pending,
         AwakeGetters \subseteq AwakeGetters', not_empty' \subseteq not_empty,
         pc[Main] = "leave" => pc'[Main] = "leave",
         not_full' # {} => count' = Capacity
  PROVE  NoLostWakeup'
<1>1. IsFiniteSet(AwakeGetters') /\ Cardinality(AwakeGetters') \in Nat
  <2>1. AwakeGetters' \subseteq Worker /\ IsFiniteSet(Worker)
    BY BufferAssumption DEF AwakeGetters
  <2> QED
    BY <2>1, FS_Subset, FS_CardinalityType
<1>2. Cardinality(AwakeGetters) <= Cardinality(AwakeGetters')
  BY <1>1, FS_Subset
<1>3. Cardinality(AwakeGetters) \in Nat /\ Len(Pending) \in Nat
  BY GettersAreFinite, PendingLength
<1> QED
  BY <1>1, <1>2, <1>3 DEF NoLostWakeup

(* A worker that takes an entry is no longer awake for another one, but     *)
(* there is one entry less.                                                 *)
LEMMA TakenAwake ==
  ASSUME IInv, NoLostWakeup, NEW w \in Worker, pc[w] \in {"test", "scan"},
         UNCHANGED <<count, not_empty, not_full>>,
         Pending # <<>>, Len(Pending') = Len(Pending) - 1,
         NEW point \in {"leave", "compact"}, pc' = [pc EXCEPT ![w] = point]
  PROVE  NoLostWakeup'
<1>1. /\ AwakeGetters' = AwakeGetters \ {w} /\ w \in AwakeGetters
      /\ pc'[Main] = pc[Main]
  BY BufferAssumption DEF AwakeGetters, Asking, IInv, TypeOK, Thread
<1>2. Cardinality(AwakeGetters') = Cardinality(AwakeGetters) - 1
  BY <1>1, GettersAreFinite, FS_RemoveElement
<1>3. Cardinality(AwakeGetters) \in Nat /\ Len(Pending) \in Nat
  BY GettersAreFinite, PendingLength
<1> QED
  BY <1>1, <1>2, <1>3 DEF NoLostWakeup

LEMMA PutAwake ==
  ASSUME IInv, NoLostWakeup, PutStore
  PROVE  NoLostWakeup'
<1>1. /\ pc[Main] = "test" /\ pc'[Main] = "leave"
      /\ AwakeGetters' = AwakeGetters
      /\ UNCHANGED <<not_empty, not_full>>
  BY BufferAssumption DEF PutStore, Goto, AwakeGetters, IInv, TypeOK, Thread, sync
<1>2. not_full = {}
  BY <1>1 DEF IInv, SyncInv
<1>3. Len(Pending') = Len(Pending) + 1
  <2>1. Pending' = Append(Pending, req[Main]) /\ Pending \in Seq(Request)
    BY PutStoreStep, PendingType
  <2> QED
    BY <2>1
<1>4. Cardinality(AwakeGetters) \in Nat /\ Len(Pending) \in Nat
  BY GettersAreFinite, PendingLength
<1> QED
  BY <1>1, <1>2, <1>3, <1>4 DEF NoLostWakeup

(* The signal: the acceptor is no longer about to send it, but a worker has *)
(* been woken by it.                                                        *)
LEMMA SignalAwake ==
  ASSUME IInv, NoLostWakeup, PutLeave
  PROVE  NoLostWakeup'
<1>1. /\ pc[Main] = "leave" /\ UNCHANGED <<count, not_full>>
      /\ \/ not_empty' = {}
         \/ \E s \in not_empty : /\ not_empty' = not_empty \ {s}
                                 /\ pc' = [pc EXCEPT ![s] = "relock", ![Main] = "parse"]
  BY DEF PutLeave, SignalAndUnlock, ring
<1>2. Pending' = Pending
  BY PutLeaveStep
<1>3. CASE not_empty' = {}
  BY <1>1, <1>3 DEF NoLostWakeup
<1>4. ASSUME NEW s \in not_empty, not_empty' = not_empty \ {s},
             pc' = [pc EXCEPT ![s] = "relock", ![Main] = "parse"]
      PROVE  NoLostWakeup'
  <2>1. s \in Worker /\ s # Main /\ pc[s] = "sleep"
    BY BufferAssumption DEF IInv, TypeOK, SyncInv
  <2>2. /\ AwakeGetters' = AwakeGetters \cup {s} /\ s \notin AwakeGetters
        /\ pc'[Main] = "parse"
    BY <1>4, <2>1, BufferAssumption, SMTT(20) DEF AwakeGetters, Asking, IInv, TypeOK, Thread
  <2>3. Cardinality(AwakeGetters') = Cardinality(AwakeGetters) + 1
    BY <2>2, GettersAreFinite, FS_AddElement
  <2>4. Cardinality(AwakeGetters) \in Nat /\ Len(Pending) \in Nat
    BY GettersAreFinite, PendingLength
  <2> QED
    BY <1>1, <1>2, <2>2, <2>3, <2>4 DEF NoLostWakeup
<1> QED
  BY <1>1, <1>3, <1>4

(* A worker goes to sleep only on an array with no entries.                 *)
LEMMA SleepAwake ==
  ASSUME IInv, NoLostWakeup, NEW w \in Worker, GetWait(w)
  PROVE  NoLostWakeup'
<1>1. count = 0 /\ UNCHANGED <<count, not_full>>
  BY DEF GetWait, ring
<1>2. Pending' = Pending
  BY GetWaitStep
<1>3. Len(Pending') = 0
  BY <1>1, <1>2, PendingLength
<1>4. Cardinality(AwakeGetters') \in Nat
  <2>1. AwakeGetters' \subseteq Worker /\ IsFiniteSet(Worker)
    BY BufferAssumption DEF AwakeGetters
  <2> QED
    BY <2>1, FS_Subset, FS_CardinalityType
<1> QED
  BY <1>1, <1>3, <1>4 DEF NoLostWakeup

(* The other steps.                                                         *)
LEMMA OtherAwake ==
  ASSUME IInv, NoLostWakeup,
         \/ \E t \in Thread : Acquire(t) \/ SpuriousWakeup(t)
         \/ \E r \in Request : Offer(r)
         \/ PutWait
         \/ \E w \in Worker : \/ ScanStart(w) \/ ScanStep(w) \/ ShiftStep(w) \/ ShiftEnd(w)
                              \/ GetLeave(w) \/ Serve(w)
  PROVE  NoLostWakeup'
<1> USE DEF IInv, TypeOK, Thread, Goto, AwakeGetters, Asking
<1>1. ASSUME NEW t \in Thread, Acquire(t)
      PROVE  NoLostWakeup'
  <2>1. Pending' = Pending
    BY <1>1, AcquireStep
  <2>2. /\ AwakeGetters \subseteq AwakeGetters' /\ UNCHANGED <<count, not_empty, not_full>>
        /\ pc[Main] = "leave" => pc'[Main] = "leave"
    BY <1>1 DEF Acquire, ring
  <2> QED
    BY <2>1, <2>2, StillAwake DEF NoLostWakeup
<1>2. ASSUME NEW t \in Thread, SpuriousWakeup(t)
      PROVE  NoLostWakeup'
  <2>1. Pending' = Pending
    BY <1>2, SpuriousWakeupStep
  <2>2. /\ AwakeGetters \subseteq AwakeGetters' /\ UNCHANGED count
        /\ not_empty' \subseteq not_empty /\ not_full' \subseteq not_full
        /\ pc[Main] = "leave" => pc'[Main] = "leave"
    BY <1>2 DEF SpuriousWakeup, ring
  <2> QED
    BY <2>1, <2>2, StillAwake DEF NoLostWakeup
<1>3. ASSUME NEW r \in Request, Offer(r)
      PROVE  NoLostWakeup'
  <2>1. Pending' = Pending
    BY <1>3, OfferStep
  <2>2. /\ AwakeGetters \subseteq AwakeGetters' /\ UNCHANGED <<count, not_empty, not_full>>
        /\ pc[Main] = "leave" => pc'[Main] = "leave"
    BY <1>3, BufferAssumption DEF Offer, ring, sync
  <2> QED
    BY <2>1, <2>2, StillAwake DEF NoLostWakeup
<1>4. CASE PutWait
  <2>1. Pending' = Pending
    BY <1>4, PutWaitStep
  <2>2. /\ AwakeGetters \subseteq AwakeGetters' /\ UNCHANGED <<count, not_empty>>
        /\ count = Capacity
        /\ pc[Main] = "leave" => pc'[Main] = "leave"
    BY <1>4, BufferAssumption DEF PutWait, ring
  <2> QED
    BY <2>1, <2>2, StillAwake
<1>5. ASSUME NEW w \in Worker, ScanStart(w) \/ ScanStep(w) \/ ShiftStep(w) \/ ShiftEnd(w)
      PROVE  NoLostWakeup'
  <2>1. Pending' = Pending
    BY <1>5, ScanStartStep, ScanStepStep, ShiftStepStep, ShiftEndStep
  <2>2. /\ AwakeGetters \subseteq AwakeGetters' /\ UNCHANGED <<count, not_empty, not_full>>
        /\ pc[Main] = "leave" => pc'[Main] = "leave"
    BY <1>5, BufferAssumption DEF ScanStart, ScanStep, ShiftStep, ShiftEnd, ring, sync
  <2> QED
    BY <2>1, <2>2, StillAwake DEF NoLostWakeup
<1>6. ASSUME NEW w \in Worker, GetLeave(w)
      PROVE  NoLostWakeup'
  <2>1. Pending' = Pending
    BY <1>6, GetLeaveStep
  <2>2. not_full' = {} /\ UNCHANGED not_empty
    BY <1>6 DEF GetLeave, SignalAndUnlock
  <2>3. \/ pc' = [pc EXCEPT ![w] = "serve"]
        \/ pc[Main] = "sleep" /\ pc' = [pc EXCEPT ![Main] = "relock", ![w] = "serve"]
    BY <1>6 DEF GetLeave, SignalAndUnlock, SyncInv
  <2>4. /\ AwakeGetters \subseteq AwakeGetters'
        /\ pc[Main] = "leave" => pc'[Main] = "leave"
    BY <1>6, <2>3, BufferAssumption DEF GetLeave
  <2> QED
    BY <2>1, <2>2, <2>4, StillAwake
<1>7. ASSUME NEW w \in Worker, Serve(w)
      PROVE  NoLostWakeup'
  <2>1. Pending' = Pending
    BY <1>7, ServeStep
  <2>2. /\ AwakeGetters \subseteq AwakeGetters' /\ UNCHANGED <<count, not_empty, not_full>>
        /\ pc[Main] = "leave" => pc'[Main] = "leave"
    BY <1>7, BufferAssumption DEF Serve, ring, sync
  <2> QED
    BY <2>1, <2>2, StillAwake DEF NoLostWakeup
<1> QED
  BY <1>1, <1>2, <1>3, <1>4, <1>5, <1>6, <1>7

LEMMA NoLostWakeupStep == IInv /\ NoLostWakeup /\ [Next]_vars => NoLostWakeup'
<1> SUFFICES ASSUME IInv, NoLostWakeup, [Next]_vars PROVE NoLostWakeup'
  OBVIOUS
<1>1. CASE PutStore \/ PutLeave \/ \E w \in Worker : GetWait(w)
  BY <1>1, PutAwake, SignalAwake, SleepAwake
<1>2. ASSUME NEW w \in Worker, GetOldest(w)
      PROVE  NoLostWakeup'
  <2>1. Pending # <<>> /\ Pending' = Tail(Pending) /\ Pending \in Seq(Request)
    BY <1>2, GetOldestStep, PendingType
  <2>2. Len(Pending') = Len(Pending) - 1
    BY <2>1
  <2>3. /\ pc[w] = "test" /\ pc' = [pc EXCEPT ![w] = "leave"]
        /\ UNCHANGED <<count, not_empty, not_full>>
    BY <1>2 DEF GetOldest, Goto, sync
  <2> QED
    BY <2>1, <2>2, <2>3, TakenAwake
<1>3. ASSUME NEW w \in Worker, ScanEnd(w)
      PROVE  NoLostWakeup'
  <2>1. /\ min_logical[w] + 1 \in DOMAIN Pending
        /\ Pending' = [j \in 1 .. Len(Pending) - 1 |->
                         Pending[IF min_logical[w] < j THEN j + 1 ELSE j]]
    BY <1>3, ScanEndStep
  <2>2. Pending \in Seq(Request) /\ Len(Pending) \in Nat /\ Pending # <<>>
    BY <2>1, PendingType
  <2>3. Len(Pending) - 1 \in Nat
    BY <2>1, <2>2
  <2>4. Len(Pending') = Len(Pending) - 1
    BY <2>1, <2>3
  <2>5. /\ pc[w] = "scan" /\ pc' = [pc EXCEPT ![w] = "compact"]
        /\ UNCHANGED <<count, not_empty, not_full>>
    BY <1>3 DEF ScanEnd, Goto, sync, ring
  <2> QED
    BY <2>2, <2>4, <2>5, TakenAwake
<1>4. CASE UNCHANGED vars
  <2>1. UNCHANGED <<Pending, AwakeGetters, not_empty, not_full, count, pc>>
    BY <1>4 DEF vars, ring, sync, scan, shift, Pending, Removing, Gap, Slot, AwakeGetters
  <2> QED
    BY <2>1, StillAwake DEF NoLostWakeup
<1> QED
  BY <1>1, <1>2, <1>3, <1>4, OtherAwake DEF Next, MainStep, WorkerStep

(* buffer.c:49-50, 56, 66-67, 117: one signal for each change is enough     *)
(* under every interleaving and with spurious wake-ups: no worker sleeps    *)
(* beside a request that nobody is going to take, nor the acceptor beside a *)
(* free slot.                                                               *)
THEOREM NoLostWakeupHolds == Spec => []NoLostWakeup
<1>1. Init => NoLostWakeup
  BY DEF Init, NoLostWakeup
<1> QED
  BY <1>1, NoLostWakeupStep, IInvHolds, PTL DEF Spec

-----------------------------------------------------------------------------
(* buffer.c implements RequestQueue: each step of the threads is one step   *)
(* of the queue, seen through Pending, or leaves the queue as it was.       *)

QueueFacts == INSTANCE RequestQueueProofs
                WITH queue <- Pending,
                     offered <- req[Main],
                     taken <- [w \in Worker |-> req[w]]

LEMMA RemoveIsDrop ==
  ASSUME NEW S, NEW s \in Seq(S), NEW t \in Seq(S), NEW k \in 1 .. Len(s),
         Len(t) = Len(s) - 1,
         \A j \in 1 .. Len(s) - 1 : t[j] = s[IF k <= j THEN j + 1 ELSE j]
  PROVE  t = Queue!RemoveAt(s, k)
<1>0. QueueFacts!QueueAssumption
  BY BufferAssumption DEF QueueFacts!QueueAssumption
<1>1. /\ QueueFacts!RemoveAt(s, k) \in Seq(S)
      /\ Len(QueueFacts!RemoveAt(s, k)) = Len(s) - 1
      /\ \A j \in 1 .. Len(s) - 1 :
           QueueFacts!RemoveAt(s, k)[j] = s[IF k <= j THEN j + 1 ELSE j]
  BY <1>0, QueueFacts!RemoveAtLemma
<1>2. Queue!RemoveAt(s, k) = QueueFacts!RemoveAt(s, k)
  BY DEF Queue!RemoveAt, QueueFacts!RemoveAt
<1> QED
  BY <1>1, <1>2, SeqEqual

-----------------------------------------------------------------------------
(* What each step is to the queue.                                          *)

LEMMA InitMaps == Init => Queue!Init
<1> SUFFICES ASSUME Init PROVE Queue!Init
  OBVIOUS
<1>1. ~ Removing
  BY BufferAssumption DEF Init, Removing, Thread
<1>2. Pending = <<>>
  BY <1>1 DEF Init, Pending
<1>3. req[Main] = NoRequest /\ \A w \in Worker : req[w] = NoRequest
  BY DEF Init, Thread
<1> QED
  BY <1>2, <1>3 DEF Queue!Init

LEMMA OfferMaps ==
  ASSUME IInv, NEW r \in Request, Offer(r)
  PROVE  Queue!Offer(r)
<1>1. Pending' = Pending
  BY OfferStep
<1>2. /\ req[Main] = NoRequest /\ req'[Main] = r
      /\ \A w \in Worker : req'[w] = req[w]
  BY BufferAssumption DEF Offer, IInv, TypeOK, ThreadInv, Asking, Thread
<1>3. r \notin Queue!InFlight
  BY DEF Offer, Held, Queue!InFlight, Queue!Queued, Thread
<1>4. [w \in Worker |-> req[w]]' = [w \in Worker |-> req[w]]
  BY <1>2
<1> QED
  BY <1>1, <1>2, <1>3, <1>4 DEF Queue!Offer

LEMMA PutStoreMaps ==
  ASSUME IInv, PutStore
  PROVE  Queue!Put
<1>1. Pending' = Append(Pending, req[Main])
  BY PutStoreStep
<1>2. /\ req[Main] # NoRequest /\ req'[Main] = NoRequest
      /\ \A w \in Worker : req'[w] = req[w]
  BY BufferAssumption DEF PutStore, IInv, TypeOK, ThreadInv, Asking, Thread
<1>3. Len(Pending) < Capacity
  <2>1. \A w \in Worker : pc[w] \notin Holding
    BY BufferAssumption, Exclusive DEF PutStore, Thread, Holding
  <2>2. ~ Removing /\ \A w \in Worker : pc[w] # "compact"
    BY <2>1 DEF Removing, Holding
  <2>3. Pending = [k \in 1 .. count |-> slots[Slot(head, k - 1)]]
    BY <2>2, PendingPlain, RingFacts
  <2>4. count \in 0 .. Capacity /\ count # Capacity
    BY RingFacts DEF PutStore
  <2>5. Len(Pending) = count
    BY <2>3, <2>4
  <2> QED
    BY <2>4, <2>5, BufferAssumption
<1>4. [w \in Worker |-> req[w]]' = [w \in Worker |-> req[w]]
  BY <1>2
<1> QED
  BY <1>1, <1>2, <1>3, <1>4 DEF Queue!Put

LEMMA PendingIsSeq == IInv => Pending \in Seq(Request)
BY PendingType

(* Both ways of taking an entry hand worker w the one the policy chooses.   *)
LEMMA TakeMaps ==
  ASSUME IInv, IInv', NEW w \in Worker, NEW k \in DOMAIN Pending,
         req[w] = NoRequest,
         req' = [req EXCEPT ![w] = Pending[k]],
         Queue!IsNext(Pending, k),
         Len(Pending') = Len(Pending) - 1,
         \A j \in 1 .. Len(Pending) - 1 :
           Pending'[j] = Pending[IF k <= j THEN j + 1 ELSE j]
  PROVE  Queue!Get(w)
<1>1. /\ req'[Main] = req[Main]
      /\ req'[w] = Pending[k]
      /\ \A v \in Worker \ {w} : req'[v] = req[v]
  BY BufferAssumption DEF IInv, TypeOK, Thread
<1>2. Pending \in Seq(Request) /\ k \in 1 .. Len(Pending)
  BY PendingType
<1>3. Pending' \in Seq(Request)
  <2>1. IInv' => (Pending \in Seq(Request))'
    BY PendingIsSeq, PTL
  <2> QED
    BY <2>1
<1>4. Pending' = Queue!RemoveAt(Pending, k)
  BY <1>2, <1>3, RemoveIsDrop
<1>5. [v \in Worker |-> req[v]]'
        = [[v \in Worker |-> req[v]] EXCEPT ![w] = Pending[k]]
  BY <1>1
<1> QED
  BY <1>1, <1>4, <1>5 DEF Queue!Get

LEMMA GetOldestMaps ==
  ASSUME IInv, NEW w \in Worker, GetOldest(w)
  PROVE  Queue!Get(w)
<1>1. /\ IInv' /\ Pending # <<>>
      /\ req'[w] = Pending[1]
      /\ Pending' = Tail(Pending)
  BY GetOldestStep
<1>2. /\ Pending \in Seq(Request)
      /\ 1 \in DOMAIN Pending
  <2>1. Pending \in Seq(Request)
    BY PendingType
  <2> QED
    BY <1>1, <2>1
<1>3. /\ Len(Pending') = Len(Pending) - 1
      /\ \A j \in 1 .. Len(Pending) - 1 :
           Pending'[j] = Pending[IF 1 <= j THEN j + 1 ELSE j]
  BY <1>1, <1>2
<1>4. /\ req[w] = NoRequest
      /\ req' = [req EXCEPT ![w] = Pending[1]]
  <2>1. req[w] = NoRequest
    BY DEF GetOldest, IInv, ThreadInv
  <2>2. req' = [req EXCEPT ![w] = slots[head]] /\ req'[w] = slots[head]
    BY DEF GetOldest, IInv, TypeOK, Thread
  <2> QED
    BY <1>1, <2>1, <2>2
<1>5. Queue!IsNext(Pending, 1)
  BY DEF GetOldest, Queue!IsNext
<1> QED
  BY <1>1, <1>2, <1>3, <1>4, <1>5, TakeMaps

LEMMA ScanEndMaps ==
  ASSUME IInv, NEW w \in Worker, ScanEnd(w)
  PROVE  Queue!Get(w)
<1> DEFINE g == min_logical[w]
           k == g + 1
<1>1. /\ IInv'
      /\ k \in DOMAIN Pending
      /\ req'[w] = Pending[k]
      /\ \A j \in DOMAIN Pending : FileSize[req'[w]] <= FileSize[Pending[j]]
      /\ \A j \in 1 .. g : FileSize[req'[w]] < FileSize[Pending[j]]
      /\ Pending' = [j \in 1 .. Len(Pending) - 1 |->
                       Pending[IF g < j THEN j + 1 ELSE j]]
  BY ScanEndStep
<1>2. Pending \in Seq(Request) /\ Len(Pending) \in Nat /\ g \in Nat
  <2>1. Pending \in Seq(Request)
    BY PendingType
  <2>2. g \in Nat
    BY BufferAssumption DEF IInv, TypeOK
  <2> QED
    BY <2>1, <2>2
<1> HIDE DEF g
<1>3. k - 1 = g /\ Len(Pending) - 1 \in Nat
  BY <1>1, <1>2
<1>4. /\ Len(Pending') = Len(Pending) - 1
      /\ \A j \in 1 .. Len(Pending) - 1 :
           Pending'[j] = Pending[IF k <= j THEN j + 1 ELSE j]
  <2>1. Len(Pending') = Len(Pending) - 1
    BY <1>1, <1>3
  <2>2. \A j \in 1 .. Len(Pending) - 1 : g < j <=> k <= j
    BY <1>2
  <2> QED
    BY <1>1, <2>1, <2>2
<1>5. /\ req[w] = NoRequest /\ Policy = "sff"
      /\ req' = [req EXCEPT ![w] = Pending[k]]
  <2>1. pc[w] = "scan"
    BY DEF ScanEnd
  <2>2. req[w] = NoRequest /\ Policy = "sff"
    BY <2>1 DEF IInv, ThreadInv
  <2>3. /\ req' = [req EXCEPT ![w] = slots[Slot(head, g)]]
        /\ req'[w] = slots[Slot(head, g)]
    BY DEF ScanEnd, IInv, TypeOK, Thread, g
  <2> QED
    BY <1>1, <2>2, <2>3
<1>6. Queue!IsNext(Pending, k)
  BY <1>1, <1>3, <1>5 DEF Queue!IsNext
<1> QED
  BY <1>1, <1>4, <1>5, <1>6, TakeMaps

LEMMA ServeMaps ==
  ASSUME IInv, NEW w \in Worker, Serve(w)
  PROVE  Queue!Finish(w)
<1>1. Pending' = Pending
  BY ServeStep
<1>2. /\ req'[Main] = req[Main]
      /\ req[w] # NoRequest /\ req'[w] = NoRequest
      /\ \A v \in Worker \ {w} : req'[v] = req[v]
  BY BufferAssumption DEF Serve, IInv, TypeOK, ThreadInv, Thread
<1>3. [v \in Worker |-> req[v]]'
        = [[v \in Worker |-> req[v]] EXCEPT ![w] = NoRequest]
  BY <1>2
<1> QED
  BY <1>1, <1>2, <1>3 DEF Queue!Finish

(* The steps inside a call that the queue does not see.                     *)
LEMMA StutterMaps ==
  ASSUME Pending' = Pending, req' = req
  PROVE  UNCHANGED Queue!vars
BY DEF Queue!vars

LEMMA NextMaps == IInv /\ [Next]_vars => [Queue!Next]_(Queue!vars)
<1> SUFFICES ASSUME IInv, [Next]_vars PROVE [Queue!Next]_(Queue!vars)
  OBVIOUS
<1>1. ASSUME NEW t \in Thread, Acquire(t) \/ SpuriousWakeup(t)
      PROVE  UNCHANGED Queue!vars
  <2>1. Pending' = Pending
    BY <1>1, AcquireStep, SpuriousWakeupStep
  <2>2. req' = req
    BY <1>1 DEF Acquire, SpuriousWakeup
  <2> QED
    BY <2>1, <2>2, StutterMaps
<1>2. ASSUME NEW r \in Request, Offer(r) PROVE Queue!Next
  BY <1>2, OfferMaps DEF Queue!Next
<1>3. CASE PutWait \/ PutLeave
  <2>1. Pending' = Pending
    BY <1>3, PutWaitStep, PutLeaveStep
  <2>2. req' = req
    BY <1>3 DEF PutWait, PutLeave
  <2> QED
    BY <2>1, <2>2, StutterMaps
<1>4. CASE PutStore
  BY <1>4, PutStoreMaps DEF Queue!Next
<1>5. ASSUME NEW w \in Worker, \/ GetWait(w) \/ ScanStart(w) \/ ScanStep(w)
                               \/ ShiftStep(w) \/ ShiftEnd(w) \/ GetLeave(w)
      PROVE  UNCHANGED Queue!vars
  <2>1. Pending' = Pending
    BY <1>5, GetWaitStep, ScanStartStep, ScanStepStep, ShiftStepStep,
       ShiftEndStep, GetLeaveStep
  <2>2. req' = req
    BY <1>5 DEF GetWait, ScanStart, ScanStep, ShiftStep, ShiftEnd, GetLeave
  <2> QED
    BY <2>1, <2>2, StutterMaps
<1>6. ASSUME NEW w \in Worker, GetOldest(w) \/ ScanEnd(w) \/ Serve(w)
      PROVE  Queue!Next
  BY <1>6, GetOldestMaps, ScanEndMaps, ServeMaps DEF Queue!Next
<1>7. CASE UNCHANGED vars
  <2>1. Pending' = Pending
    BY <1>7 DEF vars, ring, scan, shift, Pending, Removing, Gap, Slot
  <2> QED
    BY <1>7, <2>1, StutterMaps DEF vars
<1> QED
  BY <1>1, <1>2, <1>3, <1>4, <1>5, <1>6, <1>7
  DEF Next, MainStep, WorkerStep

-----------------------------------------------------------------------------

(* buffer_put and buffer_get implement the bounded queue of RequestQueue    *)
(* with the order of the policy: fifo hands out the oldest request, sff the *)
(* oldest of the smallest, and a compaction in progress is invisible.       *)
THEOREM BufferImplementsQueue == Spec => ImplementsQueue
<1>1. Init => Queue!Init
  BY InitMaps
<1>2. IInv /\ [Next]_vars => [Queue!Next]_(Queue!vars)
  BY NextMaps
<1> QED
  BY <1>1, <1>2, IInvHolds, PTL DEF Spec, ImplementsQueue, Queue!Spec

(* The constants of the buffer are those of a queue, and the two instances  *)
(* of the queue are one.                                                    *)
LEMMA QueueSpec ==
  /\ QueueFacts!QueueAssumption
  /\ Queue!Spec <=> QueueFacts!Spec
<1>1. QueueFacts!QueueAssumption
  BY BufferAssumption DEF QueueFacts!QueueAssumption
<1>2. Queue!Init <=> QueueFacts!Init
  BY DEF Queue!Init, QueueFacts!Init
<1>3. [Queue!Next]_(Queue!vars) <=> [QueueFacts!Next]_(QueueFacts!vars)
  BY DEF Queue!Next, Queue!Offer, Queue!Put, Queue!Get, Queue!Finish,
         Queue!InFlight, Queue!Queued, Queue!IsNext, Queue!RemoveAt, Queue!vars,
         QueueFacts!Next, QueueFacts!Offer, QueueFacts!Put, QueueFacts!Get,
         QueueFacts!Finish, QueueFacts!InFlight, QueueFacts!Queued,
         QueueFacts!IsNext, QueueFacts!RemoveAt, QueueFacts!vars
<1> QED
  BY <1>1, <1>2, <1>3, PTL DEF Queue!Spec, QueueFacts!Spec

(* No request is stored twice, left behind by a compaction, or taken by two *)
(* workers, because none is in the abstract queue.                          *)
THEOREM HeldOnceHolds == Spec => []HeldOnce
<1>1. QueueFacts!Spec => []QueueFacts!HeldOnce
  BY QueueSpec, QueueFacts!HeldOnceHolds
<1>2. HeldOnce <=> QueueFacts!HeldOnce
  BY DEF HeldOnce, Queue!HeldOnce, Queue!Queued,
         QueueFacts!HeldOnce, QueueFacts!Queued
<1> QED
  BY <1>1, <1>2, QueueSpec, BufferImplementsQueue, PTL DEF ImplementsQueue

(* buffer_get hands requests out in the order of the policy, whatever the   *)
(* compaction does to the array: none overtakes an older one but a strictly *)
(* smaller one under sff.                                                   *)
THEOREM NoOvertakingHolds == Spec => NoOvertaking
<1>1. QueueFacts!Spec => QueueFacts!NoOvertaking
  BY QueueSpec, QueueFacts!NoOvertakingHolds
<1> QED
  BY <1>1, QueueSpec, BufferImplementsQueue, PTL
  DEF ImplementsQueue, NoOvertaking,
      Queue!NoOvertaking, Queue!Queued, Queue!vars,
      QueueFacts!NoOvertaking, QueueFacts!Queued, QueueFacts!vars
=============================================================================
