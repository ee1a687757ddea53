----------------------------- MODULE LoadClient -----------------------------
(***************************************************************************)
(* The threads of load_client.py: the main thread dispatches requests into *)
(* work_q for the duration of the run, sets stop_event, waits for work_q   *)
(* and then for the workers, and reports; each worker takes requests from  *)
(* work_q, sends them to the server and appends one row for each.          *)
(*                                                                         *)
(* A token bucket decides when a request is dispatched.  Time passes in    *)
(* ticks, at any point of any thread, and tokens are counted in parts of   *)
(* which a tick brings Refill; the clock stops at the deadline, for nothing *)
(* looks at it later.  Requests are numbered in the order of their dispatch. *)
(***************************************************************************)
EXTENDS Integers, Sequences, FiniteSetsExt

CONSTANTS
  Worker,       \* args.workers threads
  Token,        \* parts of one token
  Refill,       \* parts that a tick brings
  Second,       \* ticks
  Duration,     \* args.duration, in ticks
  EmptyChoice,  \* small_uris is empty and args.small_ratio above 0: main has
                \* a check for large_uris only
  Idle          \* no request

ASSUME ClientAssumption ==
  /\ IsFiniteSet(Worker)
  /\ {Token, Refill, Second} \subseteq Nat \ {0} /\ Duration \in Nat
  /\ EmptyChoice \in BOOLEAN
  /\ Idle \notin Nat

Rate == Refill * Second                \* args.rate, in parts per second
MaxSize == (3 * Rate) \div Token       \* of work_q, int(rate * 3): 0 is no limit

VARIABLES
  now,          \* time.perf_counter()
  tokens, last_tick,          \* the bucket
  level,        \* of a bucket that leaks at the rate and gets each dispatched
                \* request: no variable of the program, see RateKept
  main,         \* where the main thread is
  dispatched,   \* how many requests it has put, the one in put included
  work_q, unfinished_tasks,   \* the Queue
  stop_event,
  worker,       \* where each worker is
  item,         \* the request each worker has
  thread_results              \* the requests that have a row, in the rows' order

bucket == <<tokens, last_tick, level>>
work == <<work_q, unfinished_tasks>>
threads == <<worker, item>>
vars == <<now, bucket, main, dispatched, work, stop_event, threads, thread_results>>

Init ==
  /\ now = 0 /\ tokens = Token /\ last_tick = 0 /\ level = 0
  /\ main = "dispatch" /\ dispatched = 0
  /\ work_q = <<>> /\ unfinished_tasks = 0
  /\ stop_event = FALSE
  /\ worker = [w \in Worker |-> "get"]
  /\ item = [w \in Worker |-> Idle]
  /\ thread_results = <<>>

-----------------------------------------------------------------------------
(* The main thread.                                                         *)

(* One turn of the dispatcher's loop that is before the deadline and leaves *)
(* tokens between turns in the bucket.                                      *)
TurnWith(refilled) ==
  LET leaked == Max({0, level - (now - last_tick) * Refill})
      has == refilled >= Token IN
  /\ main = "dispatch" /\ now < Duration
  /\ last_tick' = now
  /\ tokens' = IF has THEN refilled - Token ELSE refilled
  /\ level' = IF has THEN leaked + Token ELSE leaked
  /\ dispatched' = IF has THEN dispatched + 1 ELSE dispatched
  /\ main' = IF has THEN "put" ELSE "sleep"
  /\ UNCHANGED <<now, work, stop_event, threads, thread_results>>

(* Mutant: the bucket has no cap. *)
TurnNoCap == TurnWith(tokens + (now - last_tick) * Refill)

Refilled == Min({tokens + (now - last_tick) * Refill, Rate})

Turn == TurnWith(Refilled)

(* random.choice of an empty small_uris raises an IndexError, which nothing *)
(* catches: it ends the process with its threads, and there is no report.   *)
ChoiceRaises ==
  /\ EmptyChoice
  /\ main = "dispatch" /\ now < Duration /\ Refilled >= Token
  /\ main' = "raised"
  /\ UNCHANGED <<now, bucket, dispatched, work, stop_event, threads, thread_results>>

(* time.sleep of half an interval, or longer. *)
Wake ==
  /\ main = "sleep"
  /\ 2 * Refill * (now - last_tick) >= Token \/ now = Duration
  /\ main' = "dispatch"
  /\ UNCHANGED <<now, bucket, dispatched, work, stop_event, threads, thread_results>>

(* work_q.put blocks, without a timeout, while the queue is full. *)
Put ==
  /\ main = "put"
  /\ MaxSize = 0 \/ Len(work_q) < MaxSize
  /\ work_q' = Append(work_q, dispatched)
  /\ unfinished_tasks' = unfinished_tasks + 1
  /\ main' = "dispatch"
  /\ UNCHANGED <<now, bucket, dispatched, stop_event, threads, thread_results>>

(* The deadline has passed: stop_event.set(). *)
Stop ==
  /\ main = "dispatch" /\ now >= Duration
  /\ stop_event' = TRUE
  /\ main' = "join"
  /\ UNCHANGED <<now, bucket, dispatched, work, threads, thread_results>>

(* Mutant: it waits until the queue is empty. *)
JoinEmpty ==
  /\ main = "join"
  /\ work_q = <<>>
  /\ main' = "report"
  /\ UNCHANGED <<now, bucket, dispatched, work, stop_event, threads, thread_results>>

(* work_q.join(). *)
Join ==
  /\ main = "join"
  /\ unfinished_tasks = 0
  /\ main' = "report"
  /\ UNCHANGED <<now, bucket, dispatched, work, stop_event, threads, thread_results>>

(* The joins of the threads, which give up after two seconds each; then the *)
(* statistics are computed from the rows there are.                         *)
Report ==
  /\ main = "report"
  /\ main' = "done"
  /\ UNCHANGED <<now, bucket, dispatched, work, stop_event, threads, thread_results>>

MainStep == Turn \/ ChoiceRaises \/ Wake \/ Put \/ Stop \/ Join \/ Report

-----------------------------------------------------------------------------
(* A worker: worker_safe.                                                   *)

Goto(w, point) == worker' = [worker EXCEPT ![w] = point]

Get(w) ==
  /\ worker[w] = "get"
  /\ work_q # <<>>
  /\ item' = [item EXCEPT ![w] = Head(work_q)]
  /\ work_q' = Tail(work_q)
  /\ Goto(w, "http_get")
  /\ UNCHANGED <<now, bucket, main, dispatched, unfinished_tasks, stop_event, thread_results>>

(* get finds the queue empty when its 0.3 seconds are over: queue.Empty.    *)
GetTimesOut(w) ==
  /\ worker[w] = "get"
  /\ work_q = <<>>
  /\ Goto(w, "empty")
  /\ UNCHANGED <<now, bucket, main, dispatched, work, stop_event, item, thread_results>>

(* Mutant: the worker does not look at stop_event. *)
CheckNothing(w) ==
  /\ worker[w] = "empty"
  /\ Goto(w, "exited")
  /\ UNCHANGED <<now, bucket, main, dispatched, work, stop_event, item, thread_results>>

(* The handler of queue.Empty runs without the queue's lock. *)
CheckStop(w) ==
  /\ worker[w] = "empty"
  /\ Goto(w, IF stop_event THEN "exited" ELSE "get")
  /\ UNCHANGED <<now, bucket, main, dispatched, work, stop_event, item, thread_results>>

(* Mutant: a request that failed has no row. *)
AppendSuccess(w) ==
  /\ worker[w] = "http_get"
  /\ \E ok \in BOOLEAN :
       thread_results' = IF ok THEN Append(thread_results, item[w]) ELSE thread_results
  /\ Goto(w, "task_done")
  /\ UNCHANGED <<now, bucket, main, dispatched, work, stop_event, item>>

(* http_get returns or raises, and either way the request gets a row. *)
AppendRow(w) ==
  /\ worker[w] = "http_get"
  /\ thread_results' = Append(thread_results, item[w])
  /\ Goto(w, "task_done")
  /\ UNCHANGED <<now, bucket, main, dispatched, work, stop_event, item>>

(* Mutant: task_done is called twice. *)
TaskDoneTwice(w) ==
  /\ worker[w] = "task_done"
  /\ unfinished_tasks' = unfinished_tasks - 2
  /\ item' = [item EXCEPT ![w] = Idle]
  /\ Goto(w, "get")
  /\ UNCHANGED <<now, bucket, main, dispatched, work_q, stop_event, thread_results>>

TaskDone(w) ==
  /\ worker[w] = "task_done"
  /\ unfinished_tasks' = unfinished_tasks - 1
  /\ item' = [item EXCEPT ![w] = Idle]
  /\ Goto(w, "get")
  /\ UNCHANGED <<now, bucket, main, dispatched, work_q, stop_event, thread_results>>

(* The threads are daemons: they end with the process. *)
WorkerStep(w) ==
  /\ main # "raised"
  /\ Get(w) \/ GetTimesOut(w) \/ CheckStop(w) \/ AppendRow(w) \/ TaskDone(w)

-----------------------------------------------------------------------------

Tick ==
  /\ now < Duration
  /\ now' = now + 1
  /\ UNCHANGED <<bucket, main, dispatched, work, stop_event, threads, thread_results>>

Next == Tick \/ MainStep \/ \E w \in Worker : WorkerStep(w)

Spec == Init /\ [][Next]_vars

(* Threads that can run do run: http_get has a timeout. *)
FairSpec == Spec /\ WF_vars(Tick) /\ WF_vars(MainStep) /\ \A w \in Worker : WF_vars(WorkerStep(w))

-----------------------------------------------------------------------------

Busy == {w \in Worker : item[w] # Idle}

TypeOK ==
  /\ now \in 0 .. Duration /\ last_tick \in 0 .. now
  /\ {tokens, level, dispatched} \subseteq Nat
  /\ main \in {"dispatch", "sleep", "put", "join", "report", "done", "raised"}
  /\ work_q \in Seq(1 .. dispatched)
  /\ unfinished_tasks \in Nat
  /\ stop_event \in BOOLEAN
  /\ worker \in [Worker -> {"get", "empty", "http_get", "task_done", "exited"}]
  /\ item \in [Worker -> 1 .. dispatched \cup {Idle}]
  /\ thread_results \in Seq(1 .. dispatched)

(* The report of a run counts every dispatched request exactly once: no     *)
(* request is missing from the rows because its worker was not finished,    *)
(* and none is there twice.                                                 *)
ReportIsComplete ==
  main = "done" =>
    /\ Len(thread_results) = dispatched
    /\ \A r \in 1 .. dispatched : \E k \in DOMAIN thread_results : thread_results[k] = r

(* A request is in the queue, with one worker, or in the rows, and join     *)
(* counts those that are in the first two places.                           *)
TasksCounted ==
  /\ unfinished_tasks = Len(work_q) + Cardinality(Busy)
  /\ Len(work_q) + Cardinality({w \in Worker : worker[w] = "http_get"})
       + Len(thread_results)
       = dispatched - (IF main = "put" THEN 1 ELSE 0)

(* "Generate requests at `rate` req/s", "cap burst at 1 second": in every   *)
(* stretch of time, also after a put that blocked or a dispatcher that was  *)
(* not scheduled, the requests are at most those of a full bucket and of    *)
(* the rate: the bucket they fill and the rate empties holds no more than a *)
(* second's.  Since the start they are at most one more than the rate.      *)
RateKept ==
  /\ level <= Rate
  /\ dispatched * Token <= Token + Refill * last_tick

(* The dispatcher reaches its deadline, unless it has no small file to ask  *)
(* for: no put blocks for ever, although put has no timeout, because no     *)
(* worker exits before stop_event is set.                                   *)
DispatcherStops == <>(stop_event \/ main = "raised")

(* "Wait for queue to drain (up to 30 extra seconds)": the wait for the     *)
(* queue ends.                                                              *)
JoinReturns == main = "join" ~> main = "report"
=============================================================================
