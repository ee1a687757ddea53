-------------------------- MODULE LoadClientProofs ---------------------------
(***************************************************************************)
(* The load generator keeps its rate and reports every request, for every  *)
(* rate, duration and number of workers.                                   *)
(***************************************************************************)
EXTENDS LoadClient, FiniteSetTheorems, TLAPS

-----------------------------------------------------------------------------
(* The token bucket.                                                        *)

ClockType ==
  /\ {now, last_tick, tokens, level, dispatched} \subseteq Nat
  /\ last_tick <= now

(* What the leaking bucket has and the token bucket has left are together   *)
(* at most the cap; and tokens are never made but by time.                  *)
BucketInv ==
  /\ ClockType
  /\ level = 0 \/ tokens + level <= Rate
  /\ dispatched * Token + tokens <= Token + Refill * last_tick

LEMMA MaxMinOfTwo ==
  ASSUME NEW a \in Int, NEW b \in Int
  PROVE  /\ Max({a, b}) = IF a >= b THEN a ELSE b
         /\ Min({a, b}) = IF a <= b THEN a ELSE b
<1> DEFINE max == IF a >= b THEN a ELSE b
           min == IF a <= b THEN a ELSE b
<1>1. \A x \in {a, b} : (\A y \in {a, b} : x >= y) <=> x = max
  OBVIOUS
<1>2. \A x \in {a, b} : (\A y \in {a, b} : x =< y) <=> x = min
  OBVIOUS
<1>3. max \in {a, b} /\ min \in {a, b}
  OBVIOUS
<1> HIDE DEF max, min
<1>4. Max({a, b}) = max /\ Min({a, b}) = min
  BY <1>1, <1>2, <1>3 DEF Max, Min
<1> QED
  BY <1>4 DEF max, min

LEMMA ConstantsType ==
  /\ {Token, Refill, Second, Rate} \subseteq Nat
  /\ Token > 0
<1>1. {Token, Refill, Second} \subseteq Nat /\ Token > 0
  BY ClientAssumption
<1> QED
  BY <1>1 DEF Rate

LEMMA TurnBucket ==
  ASSUME BucketInv, Turn
  PROVE  BucketInv'
<1> DEFINE gain == (now - last_tick) * Refill
           refilled == Min({tokens + gain, Rate})
           leaked == Max({0, level - gain})
<1> USE ConstantsType
<1>1. /\ {now, last_tick, tokens, level, dispatched} \subseteq Nat
      /\ now - last_tick \in Nat
  BY DEF BucketInv, ClockType
<1>2. gain \in Nat /\ Refill * now = Refill * last_tick + gain
  BY <1>1
<1>3. /\ now' = now /\ last_tick' = now
      /\ \/ /\ refilled >= Token
            /\ tokens' = refilled - Token
            /\ level' = leaked + Token
            /\ dispatched' = dispatched + 1
         \/ tokens' = refilled /\ level' = leaked /\ dispatched' = dispatched
  BY DEF Turn, TurnWith, Refilled
<1> HIDE DEF gain
<1>4. /\ refilled \in Nat /\ refilled <= tokens + gain /\ refilled <= Rate
      /\ leaked \in Nat /\ (leaked = 0 \/ leaked = level - gain)
  <2>1. tokens + gain \in Int /\ level - gain \in Int /\ Rate \in Int /\ 0 \in Int
    BY <1>1, <1>2
  <2>2. refilled = IF tokens + gain <= Rate THEN tokens + gain ELSE Rate
    BY <2>1, MaxMinOfTwo
  <2>3. leaked = IF 0 >= level - gain THEN 0 ELSE level - gain
    BY <2>1, MaxMinOfTwo
  <2> QED
    BY <1>1, <1>2, <2>2, <2>3
<1> HIDE DEF refilled, leaked
<1>5. leaked = 0 \/ refilled + leaked <= Rate
  BY <1>1, <1>2, <1>4 DEF BucketInv
<1>6. dispatched * Token + refilled <= Token + Refill * now
  <2>1. /\ dispatched * Token \in Nat /\ Refill * last_tick \in Nat
        /\ Refill * now \in Nat
    BY <1>1
  <2>2. dispatched * Token + tokens <= Token + Refill * last_tick
    BY DEF BucketInv
  <2> QED
    BY <1>1, <1>2, <1>4, <2>1, <2>2
<1>7. (dispatched + 1) * Token = dispatched * Token + Token /\ dispatched * Token \in Nat
  BY <1>1
<1>8. refilled + leaked <= Rate
  BY <1>4, <1>5
<1>9. ClockType'
  BY <1>1, <1>3, <1>4 DEF ClockType
<1>10. dispatched' * Token + tokens' <= Token + Refill * last_tick'
  <2>1. Refill * now \in Nat
    BY <1>1
  <2>2. CASE tokens' = refilled - Token /\ dispatched' = dispatched + 1
    <3>1. dispatched' * Token = dispatched * Token + Token
      BY <1>7, <2>2
    <3> QED
      BY <1>3, <1>4, <1>6, <1>7, <2>1, <2>2, <3>1
  <2>3. CASE tokens' = refilled /\ dispatched' = dispatched
    BY <1>3, <1>6, <2>3
  <2> QED
    BY <1>3, <2>2, <2>3
<1>11. tokens' + level' <= Rate
  BY <1>3, <1>4, <1>8
<1> QED
  BY <1>9, <1>10, <1>11 DEF BucketInv, Rate

LEMMA BucketInvHolds == Spec => []BucketInv
<1>1. Init => BucketInv
  BY ConstantsType DEF Init, BucketInv, ClockType
<1>2. ASSUME BucketInv, [Next]_vars
      PROVE  BucketInv'
  <2>1. CASE Turn
    BY <1>2, <2>1, TurnBucket
  <2>2. CASE UNCHANGED <<now, bucket, dispatched>>
    BY <1>2, <2>2 DEF BucketInv, ClockType, bucket
  <2>3. CASE Tick
    BY <1>2, <2>3 DEF Tick, BucketInv, ClockType, bucket
  <2>4. CASE ChoiceRaises \/ Wake \/ Put \/ Stop \/ Join \/ Report
    BY <2>2, <2>4 DEF ChoiceRaises, Wake, Put, Stop, Join, Report
  <2>5. CASE \E w \in Worker : WorkerStep(w)
    BY <2>2, <2>5 DEF WorkerStep, Get, GetTimesOut, CheckStop, AppendRow, TaskDone
  <2>6. CASE UNCHANGED vars
    BY <2>2, <2>6 DEF vars
  <2> QED
    BY <1>2, <2>1, <2>3, <2>4, <2>5, <2>6 DEF Next, MainStep
<1> QED
  BY <1>1, <1>2, PTL DEF Spec

(* load_client.py:130-146: whatever put and the scheduler do, no stretch of *)
(* time has more requests than a second's and the rate's.                   *)
THEOREM RateKeptHolds == Spec => []RateKept
<1>1. ASSUME BucketInv
      PROVE  RateKept
  <2>1. /\ {last_tick, tokens, level, dispatched} \subseteq Nat
        /\ dispatched * Token + tokens <= Token + Refill * last_tick
    BY <1>1 DEF BucketInv, ClockType
  <2>2. dispatched * Token \in Int /\ Refill * last_tick \in Int
    BY <2>1, ConstantsType
  <2>3. dispatched * Token <= Token + Refill * last_tick
    BY <2>1, <2>2, ConstantsType
  <2>4. level <= Rate
    BY <1>1, <2>1, ConstantsType DEF BucketInv
  <2> QED
    BY <2>3, <2>4 DEF RateKept
<1> QED
  BY BucketInvHolds, <1>1, PTL

-----------------------------------------------------------------------------
(* The queue, the workers and the rows.                                     *)

Fetching == {w \in Worker : worker[w] = "http_get"}

(* Request r is being put, in the queue, with a worker that has not yet     *)
(* appended its row, or in the rows.                                        *)
Placed(r) ==
  \/ main = "put" /\ r = dispatched
  \/ \E k \in DOMAIN work_q : work_q[k] = r
  \/ \E w \in Fetching : item[w] = r
  \/ \E k \in DOMAIN thread_results : thread_results[k] = r

(* TasksCounted, in the words of this module. *)
CountInv ==
  /\ unfinished_tasks = Len(work_q) + Cardinality(Busy)
  /\ Len(work_q) + Cardinality(Fetching) + Len(thread_results)
       = dispatched - (IF main = "put" THEN 1 ELSE 0)

(* Join has counted no task left, and no step makes one after it.           *)
QueueInv ==
  /\ TypeOK
  /\ CountInv
  /\ main = "put" => dispatched > 0
  /\ main \in {"report", "done"} => unfinished_tasks = 0
  /\ \A w \in Worker : item[w] # Idle <=> worker[w] \in {"http_get", "task_done"}
  /\ \A r \in 1 .. dispatched : Placed(r)

LEMMA SetsOfWorkers ==
  /\ IsFiniteSet(Busy) /\ Cardinality(Busy) \in Nat
  /\ IsFiniteSet(Fetching) /\ Cardinality(Fetching) \in Nat
<1>1. IsFiniteSet(Worker) /\ Busy \subseteq Worker /\ Fetching \subseteq Worker
  BY ClientAssumption DEF Busy, Fetching
<1> QED
  BY <1>1, FS_Subset, FS_CardinalityType

LEMMA InitQueue ==
  Init => QueueInv
<1> SUFFICES ASSUME Init PROVE QueueInv
  OBVIOUS
<1>1. Busy = {} /\ Fetching = {}
  BY DEF Init, Busy, Fetching
<1>2. Cardinality({}) = 0
  BY FS_EmptySet
<1>3. TypeOK
  <2>1. /\ now \in 0 .. Duration /\ last_tick \in 0 .. now
        /\ {tokens, level, dispatched} \subseteq Nat
    BY ClientAssumption DEF Init
  <2>2. work_q \in Seq(1 .. dispatched) /\ thread_results \in Seq(1 .. dispatched)
    BY DEF Init
  <2> QED
    BY <2>1, <2>2 DEF Init, TypeOK
<1>4. CountInv
  BY <1>1, <1>2 DEF Init, CountInv
<1> QED
  BY <1>3, <1>4 DEF Init, QueueInv

(* A step that leaves the queue, the workers and the rows as they are, and  *)
(* neither begins nor ends a put.                                           *)
LEMMA QuietQueue ==
  ASSUME QueueInv, UNCHANGED <<dispatched, work, threads, thread_results>>,
         main' = "put" <=> main = "put",
         main' \in {"report", "done"} => unfinished_tasks = 0,
         main' \in {"dispatch", "sleep", "put", "join", "report", "done", "raised"},
         now' \in 0 .. Duration, last_tick' \in 0 .. now',
         {tokens', level'} \subseteq Nat, stop_event' \in BOOLEAN
  PROVE  QueueInv'
<1>1. Busy' = Busy /\ Fetching' = Fetching
  BY DEF threads, Busy, Fetching
<1>2. TypeOK'
  BY DEF QueueInv, TypeOK, work, threads
<1>3. CountInv'
  BY <1>1 DEF QueueInv, CountInv, work, threads
<1>4. \A r \in 1 .. dispatched' : Placed(r)'
  BY <1>1 DEF QueueInv, Placed, work, threads
<1> QED
  BY <1>2, <1>3, <1>4 DEF QueueInv, work, threads

(* A turn of the dispatcher adds at most one request, which it then puts.   *)
LEMMA TurnQueue ==
  ASSUME QueueInv, BucketInv, Turn
  PROVE  QueueInv'
<1>1. /\ UNCHANGED <<now, work, stop_event, threads, thread_results>>
      /\ last_tick' = now /\ main = "dispatch"
      /\ \/ main' = "put" /\ dispatched' = dispatched + 1
         \/ main' = "sleep" /\ dispatched' = dispatched
  BY DEF Turn, TurnWith
<1>2. {tokens', level'} \subseteq Nat
  BY TurnBucket DEF BucketInv, ClockType
<1>3. now \in 0 .. Duration /\ dispatched \in Nat
  BY DEF QueueInv, TypeOK
<1>4. CASE main' = "sleep" /\ dispatched' = dispatched
  BY <1>1, <1>2, <1>3, <1>4, QuietQueue, ClientAssumption DEF QueueInv, TypeOK
<1>5. CASE main' = "put" /\ dispatched' = dispatched + 1
  <2>1. Busy' = Busy /\ Fetching' = Fetching
    BY <1>1 DEF threads, Busy, Fetching
  <2>2. /\ work_q' \in Seq(1 .. dispatched') /\ thread_results' \in Seq(1 .. dispatched')
        /\ item' \in [Worker -> 1 .. dispatched' \cup {Idle}]
    <3>1. 1 .. dispatched \subseteq 1 .. dispatched'
      BY <1>3, <1>5
    <3> QED
      BY <1>1, <3>1 DEF QueueInv, TypeOK, work, threads
  <2>3. TypeOK'
    BY <1>1, <1>2, <1>3, <1>5, <2>2, ClientAssumption DEF QueueInv, TypeOK, work, threads
  <2>4. CountInv'
    BY <1>1, <1>3, <1>5, <2>1 DEF QueueInv, CountInv, work, threads
  <2>5. ASSUME NEW r \in 1 .. dispatched'
        PROVE  Placed(r)'
    <3>1. CASE r = dispatched'
      BY <1>5, <3>1 DEF Placed
    <3>2. CASE r \in 1 .. dispatched
      <4>1. Placed(r) /\ main # "put"
        BY <1>1, <3>2 DEF QueueInv
      <4> QED
        BY <1>1, <2>1, <4>1 DEF Placed, work, threads
    <3> QED
      BY <1>3, <1>5, <2>5, <3>1, <3>2
  <2> QED
    BY <1>1, <1>3, <1>5, <2>3, <2>4, <2>5 DEF QueueInv, work, threads
<1> QED
  BY <1>1, <1>4, <1>5

LEMMA PutQueue ==
  ASSUME QueueInv, Put
  PROVE  QueueInv'
<1>1. /\ work_q' = Append(work_q, dispatched)
      /\ unfinished_tasks' = unfinished_tasks + 1
      /\ main = "put" /\ main' = "dispatch"
      /\ UNCHANGED <<now, bucket, dispatched, stop_event, threads, thread_results>>
  BY DEF Put
<1>2. /\ dispatched \in Nat /\ dispatched > 0 /\ work_q \in Seq(1 .. dispatched)
      /\ unfinished_tasks \in Nat
  BY <1>1 DEF QueueInv, TypeOK
<1>3. Busy' = Busy /\ Fetching' = Fetching
  BY <1>1 DEF threads, Busy, Fetching
<1>4. /\ work_q' \in Seq(1 .. dispatched) /\ Len(work_q') = Len(work_q) + 1
      /\ \A k \in DOMAIN work_q : k \in DOMAIN work_q' /\ work_q'[k] = work_q[k]
      /\ Len(work_q') \in DOMAIN work_q' /\ work_q'[Len(work_q')] = dispatched
  BY <1>1, <1>2
<1>5. TypeOK'
  BY <1>1, <1>2, <1>4 DEF QueueInv, TypeOK, bucket, threads
<1>6. CountInv'
  <2>1. /\ unfinished_tasks = Len(work_q) + Cardinality(Busy)
        /\ Len(work_q) + Cardinality(Fetching) + Len(thread_results) = dispatched - 1
    BY <1>1 DEF QueueInv, CountInv
  <2>2. {Len(work_q), Cardinality(Busy), Cardinality(Fetching)} \subseteq Nat
    BY <1>2, SetsOfWorkers
  <2>3. Len(thread_results) \in Nat
    BY DEF QueueInv, TypeOK
  <2>4. unfinished_tasks' = Len(work_q') + Cardinality(Busy')
    BY <1>1, <1>3, <1>4, <2>1, <2>2
  <2>5. Len(work_q') + Cardinality(Fetching') + Len(thread_results) = dispatched
    BY <1>2, <1>3, <1>4, <2>1, <2>2, <2>3, SMTT(20)
  <2> QED
    BY <1>1, <1>2, <2>4, <2>5 DEF CountInv
<1>7. ASSUME NEW r \in 1 .. dispatched'
      PROVE  Placed(r)'
  <2>1. Placed(r)
    BY <1>1, <1>7 DEF QueueInv
  <2>2. CASE r = dispatched
    BY <1>4, <2>2 DEF Placed
  <2>3. CASE \E k \in DOMAIN work_q : work_q[k] = r
    BY <1>4, <2>3 DEF Placed
  <2>4. CASE \E w \in Fetching : item[w] = r
    BY <1>1, <1>3, <2>4 DEF Placed, threads
  <2>5. CASE \E k \in DOMAIN thread_results : thread_results[k] = r
    BY <1>1, <2>5 DEF Placed
  <2> QED
    BY <2>1, <2>2, <2>3, <2>4, <2>5 DEF Placed
<1> QED
  BY <1>1, <1>5, <1>6, <1>7 DEF QueueInv, threads

LEMMA GetQueue ==
  ASSUME QueueInv, NEW w \in Worker, Get(w)
  PROVE  QueueInv'
<1>1. /\ worker[w] = "get" /\ work_q # <<>>
      /\ item' = [item EXCEPT ![w] = Head(work_q)]
      /\ work_q' = Tail(work_q)
      /\ worker' = [worker EXCEPT ![w] = "http_get"]
      /\ UNCHANGED <<now, bucket, main, dispatched, unfinished_tasks, stop_event, thread_results>>
  BY DEF Get, Goto
<1>2. /\ work_q \in Seq(1 .. dispatched) /\ dispatched \in Nat /\ unfinished_tasks \in Nat
      /\ item \in [Worker -> 1 .. dispatched \cup {Idle}] /\ item[w] = Idle
      /\ worker \in [Worker -> {"get", "empty", "http_get", "task_done", "exited"}]
      /\ thread_results \in Seq(1 .. dispatched)
  BY <1>1 DEF QueueInv, TypeOK
<1>3. /\ Head(work_q) \in 1 .. dispatched /\ Head(work_q) = work_q[1]
      /\ work_q' \in Seq(1 .. dispatched) /\ Len(work_q') = Len(work_q) - 1
      /\ \A k \in DOMAIN work_q : k # 1 => k - 1 \in DOMAIN work_q' /\ work_q'[k - 1] = work_q[k]
      /\ Len(work_q) \in Nat
  BY <1>1, <1>2
<1>4. Head(work_q) # Idle
  BY <1>2, <1>3, ClientAssumption
<1>5. Busy' = Busy \cup {w} /\ w \notin Busy
  BY <1>1, <1>2, <1>4 DEF Busy
<1>6. Fetching' = Fetching \cup {w} /\ w \notin Fetching
  BY <1>1, <1>2 DEF Fetching
<1>7. Cardinality(Busy') = Cardinality(Busy) + 1 /\ Cardinality(Fetching') = Cardinality(Fetching) + 1
  BY <1>5, <1>6, SetsOfWorkers, FS_AddElement
<1>8. TypeOK'
  BY <1>1, <1>2, <1>3 DEF QueueInv, TypeOK, bucket
<1>9. CountInv'
  <2>1. /\ unfinished_tasks = Len(work_q) + Cardinality(Busy)
        /\ Len(work_q) + Cardinality(Fetching) + Len(thread_results)
             = dispatched - (IF main = "put" THEN 1 ELSE 0)
    BY DEF QueueInv, CountInv
  <2>2. Cardinality(Busy) \in Nat /\ Cardinality(Fetching) \in Nat /\ Len(thread_results) \in Nat
    BY <1>2, SetsOfWorkers
  <2>3. unfinished_tasks' = Len(work_q') + Cardinality(Busy')
    BY <1>1, <1>2, <1>3, <1>7, <2>1, <2>2
  <2>4. Len(work_q') + Cardinality(Fetching') + Len(thread_results)
          = dispatched - (IF main = "put" THEN 1 ELSE 0)
    BY <1>2, <1>3, <1>7, <2>1, <2>2
  <2> QED
    BY <1>1, <2>3, <2>4 DEF CountInv
<1>10. \A r \in 1 .. dispatched' : Placed(r)'
  <2> TAKE r \in 1 .. dispatched'
  <2>1. Placed(r)
    BY <1>1 DEF QueueInv
  <2>2. CASE \E k \in DOMAIN work_q : work_q[k] = r
    <3>1. PICK k \in DOMAIN work_q : work_q[k] = r
      BY <2>2
    <3>2. CASE k = 1
      BY <1>1, <1>2, <1>3, <1>6, <3>1, <3>2 DEF Placed
    <3>3. CASE k # 1
      BY <1>3, <3>1, <3>3 DEF Placed
    <3> QED
      BY <3>2, <3>3
  <2>3. CASE \E v \in Fetching : item[v] = r
    BY <1>1, <1>2, <1>6, <2>3 DEF Placed, Fetching
  <2> QED
    BY <1>1, <2>1, <2>2, <2>3 DEF Placed
<1> QED
  BY <1>1, <1>2, <1>4, <1>8, <1>9, <1>10 DEF QueueInv

(* get timed out, and the worker looks at stop_event.                       *)
LEMMA EmptyQueue ==
  ASSUME QueueInv, NEW w \in Worker, GetTimesOut(w) \/ CheckStop(w)
  PROVE  QueueInv'
<1>1. PICK point \in {"get", "empty", "exited"} :
        /\ worker[w] \in {"get", "empty"}
        /\ worker' = [worker EXCEPT ![w] = point]
        /\ UNCHANGED <<now, bucket, main, dispatched, work, stop_event, item, thread_results>>
  BY DEF GetTimesOut, CheckStop, Goto
<1>2. worker \in [Worker -> {"get", "empty", "http_get", "task_done", "exited"}]
  BY DEF QueueInv, TypeOK
<1>3. Busy' = Busy /\ Fetching' = Fetching
  BY <1>1, <1>2 DEF Busy, Fetching
<1>4. TypeOK'
  BY <1>1, <1>2 DEF QueueInv, TypeOK, work, bucket
<1>5. CountInv'
  BY <1>1, <1>3 DEF QueueInv, CountInv, work
<1>6. \A r \in 1 .. dispatched' : Placed(r)'
  BY <1>1, <1>3 DEF QueueInv, Placed, work
<1> QED
  BY <1>1, <1>2, <1>4, <1>5, <1>6 DEF QueueInv, work

LEMMA AppendRowQueue ==
  ASSUME QueueInv, NEW w \in Worker, AppendRow(w)
  PROVE  QueueInv'
<1>1. /\ worker[w] = "http_get"
      /\ thread_results' = Append(thread_results, item[w])
      /\ worker' = [worker EXCEPT ![w] = "task_done"]
      /\ UNCHANGED <<now, bucket, main, dispatched, work, stop_event, item>>
  BY DEF AppendRow, Goto
<1>2. /\ worker \in [Worker -> {"get", "empty", "http_get", "task_done", "exited"}]
      /\ thread_results \in Seq(1 .. dispatched) /\ dispatched \in Nat
      /\ item[w] \in 1 .. dispatched
      /\ work_q \in Seq(1 .. dispatched)
  BY <1>1 DEF QueueInv, TypeOK
<1>3. /\ thread_results' \in Seq(1 .. dispatched)
      /\ Len(thread_results') = Len(thread_results) + 1 /\ Len(thread_results) \in Nat
      /\ \A k \in DOMAIN thread_results :
           k \in DOMAIN thread_results' /\ thread_results'[k] = thread_results[k]
      /\ Len(thread_results') \in DOMAIN thread_results'
      /\ thread_results'[Len(thread_results')] = item[w]
  BY <1>1, <1>2
<1>4. Busy' = Busy /\ Fetching' = Fetching \ {w} /\ w \in Fetching
  BY <1>1, <1>2 DEF Busy, Fetching
<1>5. Cardinality(Fetching') = Cardinality(Fetching) - 1
  BY <1>4, SetsOfWorkers, FS_RemoveElement
<1>6. TypeOK'
  BY <1>1, <1>2, <1>3 DEF QueueInv, TypeOK, work, bucket
<1>7. CountInv'
  BY <1>1, <1>2, <1>3, <1>4, <1>5, SetsOfWorkers, SMTT(20) DEF QueueInv, CountInv, work
<1>8. ASSUME NEW r \in 1 .. dispatched'
      PROVE  Placed(r)'
  <2>1. Placed(r)
    BY <1>1, <1>8 DEF QueueInv
  <2>2. CASE r = item[w]
    BY <1>3, <2>2 DEF Placed
  <2>3. CASE \E v \in Fetching \ {w} : item[v] = r
    BY <1>1, <1>4, <2>3 DEF Placed
  <2>4. CASE \E k \in DOMAIN thread_results : thread_results[k] = r
    BY <1>3, <2>4 DEF Placed
  <2>5. CASE (main = "put" /\ r = dispatched) \/ \E k \in DOMAIN work_q : work_q[k] = r
    BY <1>1, <2>5 DEF Placed, work
  <2> QED
    BY <2>1, <2>2, <2>3, <2>4, <2>5 DEF Placed
<1> QED
  BY <1>1, <1>2, <1>6, <1>7, <1>8 DEF QueueInv, work

LEMMA TaskDoneQueue ==
  ASSUME QueueInv, NEW w \in Worker, TaskDone(w)
  PROVE  QueueInv'
<1>1. /\ worker[w] = "task_done"
      /\ unfinished_tasks' = unfinished_tasks - 1
      /\ item' = [item EXCEPT ![w] = Idle]
      /\ worker' = [worker EXCEPT ![w] = "get"]
      /\ UNCHANGED <<now, bucket, main, dispatched, work_q, stop_event, thread_results>>
  BY DEF TaskDone, Goto
<1>2. /\ worker \in [Worker -> {"get", "empty", "http_get", "task_done", "exited"}]
      /\ item \in [Worker -> 1 .. dispatched \cup {Idle}] /\ item[w] # Idle
      /\ work_q \in Seq(1 .. dispatched) /\ unfinished_tasks \in Nat
      /\ Len(work_q) \in Nat
  BY <1>1 DEF QueueInv, TypeOK
<1>3. Busy' = Busy \ {w} /\ w \in Busy
  BY <1>1, <1>2 DEF Busy
<1>4. Fetching' = Fetching
  BY <1>1, <1>2 DEF Fetching
<1>5. Cardinality(Busy') = Cardinality(Busy) - 1 /\ Cardinality(Busy') \in Nat
  <2>1. IsFiniteSet(Busy') /\ Cardinality(Busy') = Cardinality(Busy) - 1
    BY <1>3, SetsOfWorkers, FS_RemoveElement
  <2> QED
    BY <2>1, FS_CardinalityType
<1>6. unfinished_tasks = Len(work_q) + Cardinality(Busy)
  BY DEF QueueInv, CountInv
<1>7. /\ unfinished_tasks' = Len(work_q') + Cardinality(Busy')
      /\ unfinished_tasks' \in Nat /\ unfinished_tasks # 0
  BY <1>1, <1>2, <1>5, <1>6, SetsOfWorkers
<1>8. TypeOK'
  BY <1>1, <1>2, <1>7 DEF QueueInv, TypeOK, bucket
<1>9. CountInv'
  BY <1>1, <1>4, <1>7 DEF QueueInv, CountInv
<1>10. ASSUME NEW r \in 1 .. dispatched'
       PROVE  Placed(r)'
  <2>1. Placed(r)
    BY <1>1, <1>10 DEF QueueInv
  <2>2. \A v \in Fetching : item'[v] = item[v]
    BY <1>1, <1>2 DEF Fetching
  <2>3. CASE \E v \in Fetching : item[v] = r
    BY <1>4, <2>2, <2>3 DEF Placed
  <2> QED
    BY <1>1, <2>1, <2>3 DEF Placed
<1> QED
  BY <1>1, <1>2, <1>7, <1>8, <1>9, <1>10 DEF QueueInv

LEMMA QueueInvHolds == Spec => []QueueInv
<1>1. ASSUME QueueInv, BucketInv, [Next]_vars
      PROVE  QueueInv'
  <2>1. CASE Turn
    BY <1>1, <2>1, TurnQueue
  <2>2. CASE ChoiceRaises \/ Wake \/ Stop \/ Join \/ Report
    BY <1>1, <2>2, QuietQueue
      DEF ChoiceRaises, Wake, Stop, Join, Report, QueueInv, TypeOK, bucket, work, threads
  <2>3. CASE Put
    BY <1>1, <2>3, PutQueue
  <2>4. CASE Tick
    BY <1>1, <2>4, QuietQueue, ClientAssumption, SMTT(20) DEF Tick, QueueInv, TypeOK, bucket
  <2>5. CASE \E w \in Worker : WorkerStep(w)
    BY <1>1, <2>5, GetQueue, EmptyQueue, AppendRowQueue, TaskDoneQueue DEF WorkerStep
  <2>6. CASE UNCHANGED vars
    BY <1>1, <2>6, QuietQueue DEF vars, QueueInv, TypeOK, bucket, work, threads
  <2> QED
    BY <1>1, <2>1, <2>2, <2>3, <2>4, <2>5, <2>6 DEF Next, MainStep
<1> QED
  BY InitQueue, BucketInvHolds, <1>1, PTL DEF Spec

(* The variables of load_client.py keep their ranges.                       *)
THEOREM TypeCorrect == Spec => []TypeOK
<1>1. QueueInv => TypeOK
  BY DEF QueueInv
<1> QED
  BY QueueInvHolds, <1>1, PTL

(* A dispatched request is in one place, and join counts those that are not *)
(* done.                                                                    *)
THEOREM TasksCountedHolds == Spec => []TasksCounted
<1>1. QueueInv => TasksCounted
  BY DEF QueueInv, CountInv, TasksCounted, Fetching
<1> QED
  BY QueueInvHolds, <1>1, PTL

(* load_client.py:293-316: when the statistics are computed every request   *)
(* that was dispatched has its row, and there are no others.                *)
THEOREM ReportIsCompleteHolds == Spec => []ReportIsComplete
<1>1. ASSUME QueueInv, main = "done"
      PROVE  /\ Len(thread_results) = dispatched
             /\ \A r \in 1 .. dispatched :
                  \E k \in DOMAIN thread_results : thread_results[k] = r
  <2>1. /\ work_q \in Seq(1 .. dispatched) /\ Len(work_q) \in Nat
        /\ thread_results \in Seq(1 .. dispatched) /\ Len(thread_results) \in Nat
        /\ dispatched \in Nat
    BY <1>1 DEF QueueInv, TypeOK
  <2>2. Len(work_q) = 0 /\ Cardinality(Busy) = 0
    BY <1>1, <2>1, SetsOfWorkers DEF QueueInv, CountInv
  <2>3. Busy = {}
    BY <2>2, SetsOfWorkers, FS_EmptySet
  <2>4. Fetching = {}
    BY <1>1, <2>3 DEF QueueInv, Busy, Fetching
  <2>5. Len(thread_results) = dispatched
    BY <1>1, <2>1, <2>2, <2>4, FS_EmptySet DEF QueueInv, CountInv
  <2>6. work_q = <<>>
    BY <2>1, <2>2
  <2>7. \A r \in 1 .. dispatched : \E k \in DOMAIN thread_results : thread_results[k] = r
    BY <1>1, <2>4, <2>6 DEF QueueInv, Placed
  <2> QED
    BY <2>5, <2>7
<1>2. QueueInv => ReportIsComplete
  BY <1>1 DEF ReportIsComplete
<1> QED
  BY QueueInvHolds, <1>2, PTL
=============================================================================
