------------------------- MODULE RequestQueueProofs -------------------------
(* Proofs about RequestQueue, for every capacity, policy and pool.          *)
EXTENDS RequestQueue, SequenceTheorems, TLAPS

(* Removing the k-th entry closes the gap and keeps the order of the rest.  *)
LEMMA RemoveAtLemma ==
  ASSUME NEW S, NEW s \in Seq(S), NEW k \in 1 .. Len(s)
  PROVE  /\ RemoveAt(s, k) \in Seq(S)
         /\ Len(RemoveAt(s, k)) = Len(s) - 1
         /\ \A j \in 1 .. Len(s) - 1 :
              RemoveAt(s, k)[j] = s[IF k <= j THEN j + 1 ELSE j]
<1> DEFINE a == SubSeq(s, 1, k - 1)
           b == SubSeq(s, k + 1, Len(s))
<1>1. /\ a \in Seq(S) /\ Len(a) = k - 1
      /\ \A j \in 1 .. k - 1 : a[j] = s[j]
  OBVIOUS
<1>2. /\ b \in Seq(S) /\ Len(b) = Len(s) - k
      /\ \A j \in 1 .. Len(s) - k : b[j] = s[k + j]
  OBVIOUS
<1> HIDE DEF a, b
<1>3. RemoveAt(s, k) = a \o b
  BY DEF RemoveAt, a, b
<1>4. a \o b \in Seq(S) /\ Len(a \o b) = Len(s) - 1
  <2>1. Len(a \o b) = Len(a) + Len(b) /\ a \o b \in Seq(S)
    BY <1>1, <1>2, ConcatProperties
  <2> QED
    BY <1>1, <1>2, <2>1
<1>5. ASSUME NEW j \in 1 .. Len(s) - 1
      PROVE  (a \o b)[j] = s[IF k <= j THEN j + 1 ELSE j]
  <2>0. j < k \/ k <= j
    OBVIOUS
  <2>1. CASE j < k
    <3>1. j \in 1 .. Len(a)
      BY <1>1, <2>1
    <3>2. (a \o b)[j] = a[j]
      BY <1>1, <1>2, <3>1, ConcatProperties
    <3> QED
      BY <1>1, <2>1, <3>1, <3>2
  <2>2. CASE k <= j
    <3>1. j - (k - 1) \in 1 .. Len(s) - k
      BY <2>2
    <3>2. (a \o b)[j] = b[j - (k - 1)]
      BY <1>1, <1>2, <2>2, <3>1, ConcatProperties
    <3>3. b[j - (k - 1)] = s[k + (j - (k - 1))]
      BY <1>2, <3>1
    <3>4. k + (j - (k - 1)) = j + 1
      OBVIOUS
    <3>5. (a \o b)[j] = s[j + 1]
      BY <3>2, <3>3, <3>4
    <3>6. (IF k <= j THEN j + 1 ELSE j) = j + 1
      BY <2>2
    <3> QED
      BY <3>5, <3>6
  <2> QED
    BY <2>0, <2>1, <2>2
<1> QED
  BY <1>3, <1>4, <1>5

-----------------------------------------------------------------------------

(* Between its calls a request is in the queue at most once.                *)
LEMMA TypeStep ==
  ASSUME QueueAssumption, TypeOK, [Next]_vars
  PROVE  TypeOK'
<1> USE DEF QueueAssumption, TypeOK
<1>1. ASSUME NEW r \in Request, Offer(r) PROVE TypeOK'
  BY <1>1 DEF Offer
<1>2. CASE Put
  <2>1. offered \in Request /\ Len(queue) \in Nat /\ Len(queue) < Capacity
    BY <1>2 DEF Put
  <2>2. Append(queue, offered) \in Seq(Request)
    BY <2>1
  <2>3. Len(Append(queue, offered)) = Len(queue) + 1
    BY <2>1
  <2> QED
    BY <1>2, <2>1, <2>2, <2>3 DEF Put
<1>3. ASSUME NEW w \in Worker, Get(w) PROVE TypeOK'
  <2>1. PICK k \in DOMAIN queue :
          /\ taken' = [taken EXCEPT ![w] = queue[k]]
          /\ queue' = RemoveAt(queue, k)
    BY <1>3 DEF Get
  <2>2. k \in 1 .. Len(queue) /\ queue[k] \in Request
    OBVIOUS
  <2>3. queue' \in Seq(Request) /\ Len(queue') = Len(queue) - 1
    BY <2>1, <2>2, RemoveAtLemma
  <2>4. taken' \in [Worker -> Request \cup {NoRequest}]
    BY <2>1, <2>2
  <2>5. Len(queue) \in Nat
    OBVIOUS
  <2>6. Len(queue') <= Capacity
    BY <2>3, <2>5
  <2> QED
    BY <1>3, <2>3, <2>4, <2>6 DEF Get
<1>4. ASSUME NEW w \in Worker, Finish(w) PROVE TypeOK'
  BY <1>4 DEF Finish
<1>5. CASE UNCHANGED vars
  BY <1>5 DEF vars
<1> QED
  BY <1>1, <1>2, <1>3, <1>4, <1>5 DEF Next

LEMMA HeldOnceStep ==
  ASSUME QueueAssumption, TypeOK, HeldOnce, [Next]_vars
  PROVE  HeldOnce'
<1> USE DEF QueueAssumption
<1>0. /\ \A j, k \in DOMAIN queue : queue[j] = queue[k] => j = k
      /\ offered \notin Queued
      /\ \A w \in Worker : taken[w] # NoRequest =>
           /\ taken[w] \notin Queued
           /\ taken[w] # offered
           /\ \A v \in Worker : taken[v] = taken[w] => v = w
      /\ DOMAIN queue = 1 .. Len(queue) /\ Len(queue) \in Nat
      /\ \A k \in DOMAIN queue : queue[k] \in Request
  BY DEF HeldOnce, TypeOK
<1>1. ASSUME NEW r \in Request, Offer(r) PROVE HeldOnce'
  <2>1. /\ offered' = r /\ queue' = queue /\ taken' = taken
        /\ r \notin Queued /\ r # NoRequest
        /\ \A w \in Worker : taken[w] # r
    BY <1>1 DEF Offer, InFlight
  <2>2. Queued' = Queued
    BY <2>1 DEF Queued
  <2> QED
    BY <1>0, <2>1, <2>2 DEF HeldOnce
<1>2. CASE Put
  <2>1. /\ offered \in Request /\ offered' = NoRequest /\ taken' = taken
        /\ queue' = Append(queue, offered)
    BY <1>2 DEF Put, TypeOK
  <2>2. /\ DOMAIN queue' = 1 .. Len(queue) + 1
        /\ \A k \in 1 .. Len(queue) : queue'[k] = queue[k]
        /\ queue'[Len(queue) + 1] = offered
    BY <2>1 DEF TypeOK
  <2>3. Queued' = Queued \cup {offered}
    BY <1>0, <2>2 DEF Queued
  <2>4. \A j, k \in DOMAIN queue' : queue'[j] = queue'[k] => j = k
    <3>1. \A k \in 1 .. Len(queue) : queue'[k] # offered
      BY <1>0, <2>2 DEF Queued
    <3>2. \A k \in DOMAIN queue' : k \in 1 .. Len(queue) \/ k = Len(queue) + 1
      BY <1>0, <2>2
    <3> QED
      BY <1>0, <2>2, <3>1, <3>2
  <2>5. NoRequest \notin Queued'
    BY <1>0, <2>1, <2>3 DEF Queued
  <2> QED
    BY <1>0, <2>1, <2>3, <2>4, <2>5 DEF HeldOnce
<1>3. ASSUME NEW w \in Worker, Get(w) PROVE HeldOnce'
  <2>1. PICK k \in DOMAIN queue :
          /\ taken' = [taken EXCEPT ![w] = queue[k]]
          /\ queue' = RemoveAt(queue, k)
    BY <1>3 DEF Get
  <2>2. offered' = offered /\ taken[w] = NoRequest
    BY <1>3 DEF Get
  <2> DEFINE old(j) == IF k <= j THEN j + 1 ELSE j
  <2>3. /\ DOMAIN queue' = 1 .. Len(queue) - 1
        /\ \A j \in 1 .. Len(queue) - 1 : queue'[j] = queue[old(j)]
    <3>1. queue \in Seq(Request) /\ k \in 1 .. Len(queue)
      BY <1>0 DEF TypeOK
    <3>2. queue' \in Seq(Request) /\ Len(queue') = Len(queue) - 1
      BY <2>1, <3>1, RemoveAtLemma
    <3>3. DOMAIN queue' = 1 .. Len(queue) - 1
      BY <3>2
    <3> QED
      BY <2>1, <3>1, <3>3, RemoveAtLemma
  <2>4. \A j \in 1 .. Len(queue) - 1 : old(j) \in DOMAIN queue /\ old(j) # k
    BY <1>0
  <2>5. \A j, l \in 1 .. Len(queue) - 1 : old(j) = old(l) => j = l
    BY <1>0
  <2> HIDE DEF old
  <2>6. \A j, l \in DOMAIN queue' : queue'[j] = queue'[l] => j = l
    BY <1>0, <2>3, <2>4, <2>5
  <2>7. Queued' \subseteq Queued /\ queue[k] \notin Queued'
    <3>1. \A j \in DOMAIN queue' : /\ queue'[j] \in Queued
                                   /\ queue'[j] # queue[k]
      BY <1>0, <2>3, <2>4 DEF Queued
    <3> QED
      BY <3>1 DEF Queued
  <2>8. queue[k] \in Queued /\ queue[k] # NoRequest
    BY <1>0 DEF Queued
  <2>9. taken'[w] = queue[k] /\ \A v \in Worker \ {w} : taken'[v] = taken[v]
    BY <2>1 DEF TypeOK
  <2>10. ASSUME NEW v \in Worker, taken'[v] # NoRequest
         PROVE  /\ taken'[v] \notin Queued' \cup {offered'}
                /\ \A u \in Worker : taken'[u] = taken'[v] => u = v
    <3>1. CASE v = w
      <4>1. \A u \in Worker : u # w => taken'[u] # queue[k]
        BY <1>0, <2>8, <2>9
      <4> QED
        BY <1>0, <2>2, <2>7, <2>8, <2>9, <3>1, <4>1
    <3>2. CASE v # w
      <4>1. taken'[v] = taken[v] /\ taken[v] # queue[k]
        BY <1>0, <2>8, <2>9, <2>10, <3>2
      <4> QED
        BY <1>0, <2>2, <2>7, <2>9, <2>10, <3>2, <4>1
    <3> QED
      BY <3>1, <3>2
  <2> QED
    BY <1>0, <2>2, <2>6, <2>7, <2>10 DEF HeldOnce
<1>4. ASSUME NEW w \in Worker, Finish(w) PROVE HeldOnce'
  <2>1. /\ queue' = queue /\ offered' = offered
        /\ taken'[w] = NoRequest
        /\ \A v \in Worker \ {w} : taken'[v] = taken[v]
    BY <1>4 DEF Finish, TypeOK
  <2>2. Queued' = Queued
    BY <2>1 DEF Queued
  <2> QED
    BY <1>0, <2>1, <2>2 DEF HeldOnce
<1>5. CASE UNCHANGED vars
  BY <1>5 DEF vars, HeldOnce, Queued
<1> QED
  BY <1>1, <1>2, <1>3, <1>4, <1>5 DEF Next

(* A step that lets a later request go first is a Get that IsNext allows.   *)
LEMMA OvertakingStep ==
  ASSUME QueueAssumption, TypeOK, [Next]_vars,
         NEW j \in DOMAIN queue, NEW k \in DOMAIN queue,
         j < k, queue[j] \in Queued', queue[k] \notin Queued'
  PROVE  Policy = "sff" /\ FileSize[queue[k]] < FileSize[queue[j]]
<1> USE DEF QueueAssumption, TypeOK
<1>1. queue' # queue
  BY DEF Queued
<1>2. ASSUME NEW r \in Request, Offer(r) PROVE FALSE
  BY <1>1, <1>2 DEF Offer
<1>3. CASE Put
  <2>1. queue' = Append(queue, offered) /\ offered \in Request
    BY <1>3 DEF Put
  <2>2. queue'[k] = queue[k] /\ k \in DOMAIN queue'
    BY <2>1
  <2> QED
    BY <2>2 DEF Queued
<1>4. ASSUME NEW w \in Worker, Get(w)
      PROVE  Policy = "sff" /\ FileSize[queue[k]] < FileSize[queue[j]]
  <2>1. PICK g \in DOMAIN queue : IsNext(queue, g) /\ queue' = RemoveAt(queue, g)
    BY <1>4 DEF Get
  <2>2. /\ queue' \in Seq(Request) /\ Len(queue') = Len(queue) - 1
        /\ \A l \in 1 .. Len(queue) - 1 :
             queue'[l] = queue[IF g <= l THEN l + 1 ELSE l]
    <3>1. queue \in Seq(Request) /\ g \in 1 .. Len(queue)
      OBVIOUS
    <3> QED
      BY <2>1, <3>1, RemoveAtLemma
  <2>3. DOMAIN queue' = 1 .. Len(queue) - 1
    BY <2>2
  <2>4. k = g
    <3>1. SUFFICES ASSUME k # g PROVE FALSE
      OBVIOUS
    <3>a. Len(queue) \in Nat /\ g \in 1 .. Len(queue) /\ k \in 1 .. Len(queue)
      OBVIOUS
    <3>2. CASE k < g
      <4>a. k \in 1 .. Len(queue) - 1 /\ ~ (g <= k)
        BY <3>a, <3>2
      <4>b. queue'[k] = queue[IF g <= k THEN k + 1 ELSE k]
        BY <2>2, <4>a
      <4>1. k \in DOMAIN queue' /\ queue'[k] = queue[k]
        BY <2>3, <4>a, <4>b
      <4> QED
        BY <4>1 DEF Queued
    <3>3. CASE g < k
      <4>a. k - 1 \in 1 .. Len(queue) - 1 /\ g <= k - 1 /\ (k - 1) + 1 = k
        BY <3>a, <3>3
      <4>b. queue'[k - 1] = queue[IF g <= k - 1 THEN (k - 1) + 1 ELSE k - 1]
        BY <2>2, <4>a
      <4>1. k - 1 \in DOMAIN queue' /\ queue'[k - 1] = queue[k]
        BY <2>3, <4>a, <4>b
      <4> QED
        BY <4>1 DEF Queued
    <3> QED
      BY <3>1, <3>2, <3>3
  <2> QED
    BY <2>1, <2>4, SMTT(20) DEF IsNext
<1>5. ASSUME NEW w \in Worker, Finish(w) PROVE FALSE
  BY <1>1, <1>5 DEF Finish
<1> QED
  BY <1>1, <1>2, <1>3, <1>4, <1>5 DEF Next, vars

-----------------------------------------------------------------------------

LEMMA InitHeldOnce == QueueAssumption /\ Init => TypeOK /\ HeldOnce
BY DEF QueueAssumption, Init, TypeOK, HeldOnce, Queued

(* The queue never holds more than Capacity requests.                       *)
THEOREM TypeCorrect ==
  ASSUME QueueAssumption
  PROVE  Spec => []TypeOK
<1>1. Init => TypeOK
  BY InitHeldOnce
<1>2. TypeOK /\ [Next]_vars => TypeOK'
  BY TypeStep
<1> QED
  BY <1>1, <1>2, PTL DEF Spec

(* No request is ever queued twice, or both queued and with a thread, or    *)
(* with two threads.                                                        *)
THEOREM HeldOnceHolds ==
  ASSUME QueueAssumption
  PROVE  Spec => []HeldOnce
<1>1. Init => TypeOK /\ HeldOnce
  BY InitHeldOnce
<1>2. TypeOK /\ HeldOnce /\ [Next]_vars => TypeOK' /\ HeldOnce'
  BY TypeStep, HeldOnceStep
<1> QED
  BY <1>1, <1>2, PTL DEF Spec

(* Requests are taken in the order of the policy: none overtakes an older   *)
(* one but a strictly smaller one under sff.                                *)
THEOREM NoOvertakingHolds ==
  ASSUME QueueAssumption
  PROVE  Spec => NoOvertaking
<1> DEFINE Overtaking(j, k) ==
      j < k /\ queue[j] \in Queued' /\ queue[k] \notin Queued'
    InOrder == \A j, k \in DOMAIN queue :
      Overtaking(j, k) => Policy = "sff" /\ FileSize[queue[k]] < FileSize[queue[j]]
<1>1. TypeOK /\ [Next]_vars => [InOrder]_vars
  BY OvertakingStep
<1>2. []TypeOK /\ [][Next]_vars => [][InOrder]_vars
  BY <1>1, PTL
<1> QED
  BY <1>2, TypeCorrect, PTL DEF Spec, NoOvertaking
=============================================================================
