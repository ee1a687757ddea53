# Formal model of the concurrent web server

This directory describes, in TLA+, the web server of `src/Solution/WebServer`,
the sequential server and the client of `src/CodeBase`, and the load generator
and the experiment campaign that measure the server. TLC checks small instances; TLAPS
proves the results listed below for every value of the constants. Paths and
line numbers are those of the repository.

- [Inventory](#inventory)
- [Modules](#modules)
- [How the models correspond to the code](#how-the-models-correspond-to-the-code)
- [What the runs check](#what-the-runs-check)
- [Fairness](#fairness)
- [What is proved](#what-is-proved)
- [Disagreements between the code and its documents](#disagreements-between-the-code-and-its-documents)
- [What is not modelled](#what-is-not-modelled)
- [Plan](#plan)

## Inventory

| component | state | operations | what is hard | what makes it correct |
|---|---|---|---|---|
| Request buffer, `buffer.c` | `slots`, `count`, `head`, `tail`, a mutex, two condition variables | `buffer_put` (acceptor), `buffer_get` (workers), under `fifo` or `sff` | lost wake-ups, spurious wake-ups, one signal per change, compaction of a circular array that may be full or wrapped, ties, starvation under `sff` | it is a bounded queue with the order of the policy; no request is lost, repeated, or left waiting beside a sleeping worker |
| Acceptor and pool, `wserver.c` | the options, the connection being parsed, the workers | start-up; accept, `request_parse`, `buffer_put`; `buffer_get`, `request_serve` | the acceptor blocks on clients and on a full queue; descriptors pass between threads | each open descriptor has one owner; every client that behaves is answered |
| Parsing and serving, `request.c` | the connection, the file system, child processes | request line, URI, headers, `stat`, errors; mmap and write; fork, exec, wait | files change between `stat` and `mmap`, or are open to their owner and not to the server; writes are short; a failed assert or SIGPIPE ends all threads; `wait(NULL)` takes any child; scripts inherit descriptors | the answer is the right one, and whole but for known reasons; the process dies for known reasons only |
| Socket helpers, `io_helper.*` | none | `readline`, `open_listen_fd`, the `..._or_die` macros | end of file, the limit of a line, short writes | a line is returned whole, or cut where the limit says |
| Load generator, `load_client.py` | `work_q`, `stop_event`, the rows | refill, dispatch, put, stop, join; get, request, append, `task_done` | `stop_event` races with an empty queue; put and join have no timeout; time that passes in a blocked put | the rate is kept in every stretch of time, the report has one row for every dispatched request, and the program ends |
| Sequential server, `src/CodeBase` | one connection | accept, `request_handle`, close | everyone waits for the client or the script being served | the same answers as the concurrent server |
| Client and CGI example, `wclient.c`, `spin.c` | none | one request, two loops over its answer; sleep and print | `readline` returns the same for an end of file as for an empty line; `printf` stops at a NUL | the client prints the whole of an answer of printable lines, and ends on every answer |
| Campaign, `run_experiments.sh`, `setup_files.sh` | the server's process, `summary.csv` | start a server, sleep a second, run the load client, kill, wait | a server that is late, fails to start or crashes; a load client that fails or never ends; `set -e`; Ctrl-C, with no trap; other servers on the port | no row measures the server of another row; the script itself blocks nowhere, and a campaign that is complete leaves no server |
| Analysis, `analyze_results.py` | the tables | tests, verdicts, plots | which direction of a metric is better | the verdict agrees with the medians |

The parts meet in four places. Clients reach the acceptor through the backlog of
the listening socket. The acceptor hands a `request_t`, and with it the
descriptor, to the workers through the buffer. Workers hand the descriptor to a
CGI child through `fork`. The load generator is a client with threads of its
own. The campaign runs servers and load clients one after the other, and they
meet at a port that other processes may hold. The full list of hazards, with the line at which each bites and the
properties that cover it, is in `PROJECT.json`.

## Modules

| module | what it is |
|---|---|
| `RequestQueue` | what the buffer promises: a bounded queue, with no mutex, condition variable or array |
| `RequestQueueProofs` | its type, one place per request, and the order of service, proved |
| `Buffer` | `buffer.c` at the grain of its locks, waits, signals and loop iterations; refines `RequestQueue` |
| `BufferProofs` | the inductive invariant of `Buffer`, that no wake-up is lost, and that `Buffer` implements `RequestQueue` |
| `Uri` | `request_parse_uri` and `request_get_filetype` on URIs, and what a URI asks for, stated without them |
| `WebService` | what a web server over unchanging files promises to its clients: one whole answer, then the end of file |
| `Web` | clients, other programs, CGI children, and the steps of `request.c` for one connection, whichever thread takes them |
| `WebProofs` | what both servers need of `Web` and `Uri`: the invariants of one connection, that the answer to a URI is the one it asks for, and the steps of `WebService` that the steps of `Web` are |
| `WServer` | the acceptor and the workers, taking the steps of `Web` around `RequestQueue`; implements `WebService` |
| `WServerProofs` | its safety properties, and that it implements `WebService`, proved |
| `SequentialServer` | the one thread of `src/CodeBase`, taking the same steps; implements `WebService` |
| `SequentialServerProofs` | the same of the sequential server |
| `Readline` | `readline` over bytes under its callers `request_read_headers`, which `Web` makes one step, and `client_print` |
| `ReadlineProofs` | where `readline` and its two callers stop, proved |
| `LoadClient` | the threads of `load_client.py`, and its token bucket |
| `LoadClientProofs` | the rate, and the completeness of the report, proved |
| `Startup` | how the processes of both servers start, up to their loops |
| `Campaign` | `run_experiments.sh`, around processes of `Startup` |
| `CampaignProofs` | how a process starts, which server a row measures and whose rows the summary has, proved |
| `MCBuffer`, `MCWServer`, `MCSequentialServer`, `MCReadline`, `MCLoadClient`, `MCCampaign` | the values of the constants for TLC |

`WServer` takes the buffer as `RequestQueue`, which is sound because `Buffer`
is proved to implement it for every value of the constants. The two servers
extend `Web`, because their `request.c` differ in the place of `close` only.
Each proof module extends the module it is about, so that the modules TLC runs
hold no proofs. Operators introduced by "Mutant:" are plausible bugs of the
operator that follows them; no specification uses them, and each shows that
some property would notice the bug.

## How the models correspond to the code

### Buffer

`slots`, `count`, `head` and `tail` are the static variables of `buffer.c`;
`mtx` is the thread that holds the mutex, `not_empty` and `not_full` are the
threads asleep on each condition variable. `pc` is where each thread is, `req`
its local `request_t`, and `i`, `min_logical`, `min_size`, `cur` and `next` are
the locals of the SFF branch, set to 0 when they are dead.

| action | code |
|---|---|
| `Acquire`, `SpuriousWakeup` | `pthread_mutex_lock`, and the two halves of `pthread_cond_wait` |
| `Offer`, `PutWait`, `PutStore`, `PutLeave` | `wserver.c:144-151`; `buffer.c:49-50`, `52-54`, `56-57` |
| `GetWait`, `GetOldest` | `buffer.c:66-67`, `73-74` |
| `ScanStart`, `ScanStep`, `ScanEnd` | `buffer.c:83-84`, one iteration of `86-92`, `94-107` |
| `ShiftStep`, `ShiftEnd` | one iteration of `108-112`, `113` |
| `GetLeave`, `Serve` | `buffer.c:116-119`; `request_serve` |

A stretch of code between two of these points touches only locals and data that
the mutex protects, so its inner order cannot be seen by another thread. The
abstract queue is `Pending`: the entries from `head` on, without the one that a
worker has already copied into its `req` but not yet subtracted from `count`,
and, during a compaction, without the gap at `cur`.

A request is identified by its connection, as in `RequestQueue`: a new
connection has a descriptor the server does not hold, so `Offer` takes a
request that is not held.

### Web, WServer and SequentialServer

A connection, its descriptor in the server and its client are one value `c`.
`wants[c]` is what its request line says: a URI, or `NotGet`, another method,
or `NoUri`, a line of one word. `sent[c]` is how much of the request the client
has sent, `reply[c]` what the server has written: the status, the type, the
`Content-Length`, and the length of the body. A file is its name with a size,
which stands for its contents, the permissions of its owner (`mode`), which
`request_parse` tests, and what the server's user is allowed (`allowed`), which
`open` and `execve` ask. `req` records,
passed between the steps, are the `request_t` of the code. `data[c]` is the
mapping that serves `c` and how much of it the file still backs, `image[c]` the
script its child runs. `EndProcess` is what happens when an assert of an
`..._or_die` macro fails (`Die`) or a write raises SIGPIPE, which nobody ignores:
all the threads stop (`up`), the kernel closes every descriptor of the process,
and resets the backlog unless a CGI child still has the listening socket. The
children go on. `fatal` is the connection at whose step the process ended, and
`cut` the connections that its end closed, so that their clients may read an end
of file in the middle of an answer; both are variables of the specification only.

`Uri` models what the string functions do with a URI: the parts that `strstr`,
`index` and `strcpy` look for are told apart, and other characters are not.
`AsksForDocument`, `AsksForScript`, `MimeType` and `IsScript` say what a URI asks
for in its own terms, and `WebService` promises the answer to that.

A definition of `Web` is one step of `request.c`, and says nothing of who takes
it. `WServer` gives each to the acceptor (`main`, `conn_fd`) or to a worker
(`worker[w]`, `taken[w]`), `SequentialServer` all of them to its one thread.

| `Web` | code, `WebServer/request.c` |
|---|---|
| `Connect`, `Send`, `Leave`, `Truncate`, `Unlink` | the clients and the other programs |
| `AcceptConn`, `AcceptFails`, `CloseConn` | `accept_or_die`, `close_or_die` |
| `LineRead`, `ReadFails`, `MethodIsGet`, `UriRead` | `208-212`, with `read_or_die` |
| `StatOf`, `Permitted`, `RequestFor` | `226`, `233-247`, `249-256` |
| `HeadersRead` | `46-52` |
| `RequestError` | `13-40` |
| `MapFile`, `WriteHead`, `WriteBody` | `116-120`, `122-128`, `130-131` |
| `Write`, `Die`, `EndProcess` | `write_or_die`, the asserts of the macros, the end of the process |
| `WriteCgiHead`, `Fork`, `ChildWrite` and `ChildExit`, `Wait` | `96-99`, `101`, `102-105` with `spin.c`, `107` |

| `WServer` | code | `SequentialServer` | code, `CodeBase` |
|---|---|---|---|
| `Accept` | `wserver.c:144` | `Accept` | `wserver.c:36` |
| `ReadLine` | `request.c:208-214` | `ReadLine` | `request.c:151-158` |
| `ReadHeaders` | `request.c:220` | `ReadHeaders` | `request.c:159` |
| `Stat`, `Offer` | `request.c:223-258` | `Stat` | `request.c:161-179` |
| `Refused` | `request.c:215`, `229`, `237`, `244` | `Close` | `wserver.c:38` |
| `Put`, `Get` | `buffer_put`, `buffer_get`, by `RequestQueue` | | |
| `Serve` | `request.c:92-132` | `ServeStatic`, `ServeDynamic` | `request.c:96-142` |
| `Close` | `request.c:273` | `Close` | `wserver.c:38` |

Points where the model keeps what the C code leaves open:

- When a client leaves before a line, `sscanf` sets nothing and `method` holds
  what an earlier call left on the stack: `MethodIsGet` then has both values.
- The same holds of `uri` after a line of one word: `UrisLeft` are the URIs of
  other requests, what `request_parse_uri` left of a script's by writing a NUL
  over its `?`, the empty string, and a name that no file has.
- At the end of file `request_read_headers` goes round for ever; `HeadersRead`
  is then never true and the thread is stuck there.
- A client that is gone has closed, or its connection was reset: a read may
  find the end of file or fail, `accept` may fail, and a write may succeed, stop
  short or raise SIGPIPE. Whatever fails ends the process.
- The write of a body larger than `MaxWrite` may stop short, and nothing continues
  it (`request.c:130`). `MaxWrite` stands for what one `write` is sure to take: on
  a blocking socket of Linux 0x7ffff000 bytes, which is less than `INT_MAX`.
- `open` may refuse a file whose owner may read it; the assert then ends the
  process (`request.c:116`). In a child the same ends the child alone.
- A write from a mapping that is longer than its file fails, is short, or sends
  the zeros of the last page.
- `wait(NULL)` returns any child that has exited, not the worker's own.
- A child keeps a copy of every descriptor open at its `fork`: a client reads
  the end of file (`Ended`) only when the server and all such children have
  closed its connection.
- `(int) sbuf.st_size` is taken modulo the values of an `int`, up to `IntMax`.

### Readline

`sent`, `closed` and `pos` are the socket: what the client has sent, whether it
has closed, and how much has been read. `buf` is the array of
`request_read_headers`, with arbitrary contents before the first call
(`StaleBufs`), and `n` is `bufp - buf`, which equals the loop's `n` at the top
of the loop. `ReadByte`, `ReadEof` and `BufferFull` are the three ways through
`io_helper.c:7-20`, `Finish` is line 21. What the caller does next depends on `caller`:
`ReadHeadersTest` is the loop of `request.c:48-51`, `PrintHeader` and `PrintBody`
are the loops of `wclient.c:49-59` and `62-66`, with `printed` for the output.
`Returned` is the value of `readline`, which only `client_print` looks at: the
length of the line without its line feed. `Printf` prints `buf` up to its first
NUL, which may be one that the server sent. `ReadEof` keeps the comparison of `n` with 1 of line 14.

### LoadClient

`main` is where the main thread is, `work_q` and `unfinished_tasks` are the two
parts of `queue.Queue` that the program relies on, `worker`, `item` and
`thread_results` are the workers, their requests and the rows. `GetTimesOut`
and `CheckStop` are separate steps because the handler of `queue.Empty` runs
without the lock of the queue.

`now` is the clock, `tokens` and `last_tick` the bucket, in integers: a token is
`Token` parts and a tick brings `Refill` of them. `Turn` is one turn of the loop
of `load_client.py:139-160` up to the put or the sleep. Time passes at any
point, so that `put` blocks for as long as it likes and a thread may be
scheduled late. `ChoiceRaises` is `random.choice` of a list of small files that is
empty (`EmptyChoice`), which `main` does not check: the process ends, with its
daemon threads. `level` is a variable of the specification only: the level of a
bucket that leaks at the rate and gets `Token` parts for each request. It is the
reference that the token bucket is compared with: `level <= Rate` says that the
requests of every stretch of time are at most those of a second plus those of
the rate.

### Startup and Campaign

`process[p]` is the p-th process started, with the point of `main` it has
reached (`options`, `init`, `spawn`, `listen`, `serving`), its options, its
buffer and the workers created. A process that ended keeps nothing. Each step of
the start may fail, and ends the process then.

| action | code |
|---|---|
| `Configure` | `WebServer/wserver.c:61-106`, `CodeBase/wserver.c:15-29` |
| `BufferInit`, `Spawn`, `OpenListenFd` | `buffer.c:28-41`; `wserver.c:112-121`; `io_helper.c:49-81` |
| `Begin`, `Launch` | `run_experiments.sh:62-92`, `102-117` |
| `Request`, `LoadEnds` | `load_client.py:64-94` and the row of `362-372`, run by `run_experiments.sh:120-138` |
| `LoadFails` | `run_experiments.sh:139-142`: no row; the pipeline of line 141 may fail, and `set -euo pipefail` then ends the script |
| `Kill`, `Wait`, `Complete` | `run_experiments.sh:145`, `146`, `154-158` |
| `Dies`, `Crashes` | SIGTERM; what `Web` calls `Die` |
| `Interrupt`, `StartByHand` | the user |

The options of a process are their letters with the value that `atoi` or
`strcasecmp` makes of the argument: every one of them must be accepted, and the
last of a letter counts. `own` is the set of servers that the current
run of the script has started, and a row of `summary` says for which replica it
was written, which server was its own, and which servers answered.

## What the runs check

| run | instance | what it shows |
|---|---|---|
| `buffer_sff` | 3 slots, 2 workers, 5 requests of 3 sizes | the scan and the compaction are right, also in a full and in a wrapped array, with ties; the order of the policy; the inductive invariant; no wake-up is lost; every put returns; a request of the least size is taken |
| `buffer_fifo` | 2 slots, 3 workers, 3 requests | the same of fifo, with more workers than entries; every put returns and every request is taken |
| `server_calm` | 3 clients, 2 workers, 1 place; a document and a script | `WServer` implements `WebService`; `wait` has a child, the process stays up; every answer is completed; answers that are no scripts' also end |
| `server_disturbed` | 2 clients, one of which may leave or be reset; files that change, are larger than a write or than an int, or that the server may not read; lines of one word | descriptors still have one owner; the process dies, and an answer is short, for the known reasons only |
| `server_silent_client` | 2 clients, one silent | a counterexample, see below |
| `server_empty_file` | an empty file | a counterexample, see below |
| `sequential` | 2 clients, 13 requests: directories, queries, other methods, files that are missing or may not be read or run | `SequentialServer` implements `WebService`, also in what it makes of a URI; one connection and one child at a time; every client reads the end of file |
| `sequential_disturbed` | 2 clients, one of which may leave; a file that changes, an empty one, one that the server may not read; lines of one word | the process dies for the known reasons only, and `wait` never fails |
| `readline` | a buffer of 4 bytes, up to 6 bytes sent, NULs included, cut anywhere | `readline` returns a line, a full buffer or a tail; the headers end at the first blank line; `client_print` prints the whole of an answer of printable lines, and ends on every answer |
| `client_run` | 2 workers, rate 1, a queue of 3, 6 seconds of two ticks | the report is complete; the rate is kept; the dispatcher stops, also for want of a small file |
| `client_join` | the same for two seconds and a half | a counterexample, see below |
| `campaign` | 2 policies, one replica of each, two runs of the script, one of three servers by hand | workers find the buffer; a row measures no server of another row; the summary is of one run; the script blocks nowhere but in its load client, and a campaign that is complete leaves no server |

The bounds are the smallest at which the cases happen. Three slots let a
compaction move an entry from the middle and across slot 0; five requests fill
the array, the acceptor and a worker, with ties at two sizes. A queue of
one place blocks the acceptor while a worker still serves; three connections
put one client in each of the acceptor, the queue and a worker, and they are
needed for one worker to be overtaken in `wait` for ever, which two
connections do not show. An `IntMax` of 3 leaves sizes on both sides of
the limit, and a `MaxWrite` of 2 in the disturbed runs leaves a file that can be
mapped and not be written at once. A buffer of four bytes is the smallest with
room for the blank line and its NUL. Six bytes are two full buffers, or a line
that fills one and CR LF, which is then mistaken for a blank line; or a header,
the blank line and a body. In
`client_run` six seconds are long enough for the dispatcher to block on the
full queue with all the workers busy, and for more than a second of tokens to be
lost meanwhile. In `campaign` two jobs, one of each policy, show a server started
while another one ends, a second run shows what the first left behind, and the server by hand
takes the port as 75536, which is 10000 in 16 bits. Bounds
on counters are `MaxSent`, the length of an input, `Duration`, and `MaxRuns` and
`MaxByHand`, how often the user acts.

`CHECK_DEADLOCK FALSE` is set where the system really stops: when the server
has died (`server_disturbed`, `server_empty_file`, `sequential_disturbed`), when
the headers have been read or their client is silent (`readline`), and when the load generator
or the last campaign has finished or been interrupted.

Properties worth a word:

- `NoLostWakeup` relates sleeping workers to entries: while one sleeps there are
  as many awake workers on their way as entries. It is the reason why one
  signal per put is enough, and stronger than "no deadlock".
- `EveryRequestTaken` is claimed of fifo only. Under sff a large file can wait
  for ever; what remains true there is `SmallestRequestTaken`.
- `OneHolder` covers every error path at once: a leak, a double close and a
  descriptor used after its close all break the equation. It bounds the open
  connections by the capacity, plus the workers, plus one.
- `ChildForEachWait` is why stealing another worker's child is harmless to the
  process: every worker in `wait` forked one child and takes one.
- `ImplementsService` says that nothing of the threads, the queue or the children
  shows through to a client that behaves: what it reads is the head and then the
  body of the answer to its own request, and the end of file only after that,
  also when its worker was woken by the end of another client's script.
- `StaysUp` and `ShortOnlyIfTouched` list what can end the process, and what can cut
  an answer that its client reads to the end of file: an end of the process that
  another worker caused cuts all the open ones (`cut`), so that the second
  property is not excused when the server is down. They exclude everything else,
  above all that `wait` fails, that a request passes for another's file, or that
  a descriptor is closed under a worker.
- `EveryClientAnswered` is weaker than the `EveryClientServed` of the sequential
  server: a worker in `wait(NULL)` can lose every child to another worker which
  keeps serving scripts, and its connection then stays open.
- `ReturnsLine` and `StopsAtBlankLine` name their exceptions, because the code
  has them: a tail of one byte, and a line that does not fit `buf`. Without them
  TLC finds the stale byte that completes a string, and the rest of a long line
  that passes for the blank line.
- `PrintsWholeAnswer` names in `LinesPrintable` the answers that `client_print` can
  print. What follows a NUL in a line is lost, as in the body of a `.gif` or
  `.jpg` file; a line feed alone or a last line of one byte ends the loop; and a
  line longer than `buf` can leave such a rest: of a page with an empty line the
  client prints only what comes before it.
- `CampaignEnds` does not assume that a load client ends, because `client_join` shows
  one that does not, nor that a server ever listens. It says that `kill` and
  `wait` do not block, and that what is left running is left by an interrupt or
  by `set -e` alone.
- `RowsMeasureOwnServer` leaves out servers that were there before the script: it
  asks for a free port (`run_experiments.sh:22`). It matters because after a
  Ctrl-C the server goes on (bash makes background processes ignore SIGINT, and
  the script has no trap) and every server of the next run then fails to bind,
  unseen, so that rows of both policies measure the one left. In the model those
  rows are reachable, and only the words "of this run" exclude them.
- `ReportIsComplete` says that statistics are computed from exactly one row per
  dispatched request, although workers are still running.

## Fairness

Threads that can run do run: weak fairness of the acceptor and of each worker,
which is what a preemptive scheduler gives. The mutex is not assumed to be
fair: `Acquire` is weakly fair, so a thread gets the mutex for certain only if
it stays free. A condition variable may wake any sleeper, and spurious wake-ups
happen only finitely often. In the servers a script answers and ends, and a
client that is not in `Slow` sends the whole of its request; nothing makes a client connect.
In `LoadClient` a request ends because each call on its socket has a timeout and
the servers answer in a bounded number of writes, and the clock goes on. In
`Readline` only the thread is fair, not its peer. In `Campaign` what
the script does itself is fair, and a signal arrives; nothing makes a load client
end or a server start. No strong
fairness is assumed anywhere; in particular `wait` may be unfair to a worker.

## What is proved

The theorems hold for every value of the constants: every capacity, policy, pool
and assignment of sizes; every set of clients, URIs and files; every size of
`buf`, content of it before the first call and input; every rate and duration;
every number of scenarios, replicas and runs. They rest on the assumptions that
the modules name, and on nothing else:

- `BufferAssumption`, `QueueAssumption`, `ServerAssumption`: a finite pool with a
  worker, a capacity that is not 0, one of the two policies. `main` establishes
  them (`wserver.c:69-92`), which is itself `WorkersFindBufferHolds`.
- `WebAssumption`, `NameAssumption`, `StartupAssumption`, `CampaignAssumption`,
  `ClientAssumption`, `ReadlineAssumption`: the sets of the model are what their
  comments say. The last one asks for a `MaxBuf` above 3 (the code has 8192),
  room for the blank line and its NUL.
- `Calm`, for `ImplementsServiceHolds` alone, is a hypothesis of the theorem and
  not of the module: no client leaves early or is reset, no file changes, and
  each file that is asked for is not empty, is no larger than an `int` and than one
  write, and is open to the server's user as it is to its owner. Without it the
  service is not what clients get: the process may end, or the answer be short,
  and `StaysUp` and `ShortOnlyIfTouched` say when. `server_calm` and `sequential` are
  instances of it.

### Buffer

- `BufferProofs!IInvHolds`: `Spec => []IInv`, and `TypeCorrect` from it. That
  `count` stays within the capacity and indices within the array is not
  inductive alone: between `tail`'s retraction and `count--` the array is
  inconsistent on purpose, and that no other thread sees this follows from
  mutual exclusion. `IInv` therefore joins the ranges (`TypeOK`), the mutex and
  the sleepers (`SyncInv`), which request each thread holds at each point
  (`ThreadInv`), the position of the live entries, gap included (`RingInv`),
  and the loop invariants of the scan and of the compaction (`ScanInv`,
  `ShiftInv`). The proof has one lemma per action, on top of a few lemmas about
  arithmetic modulo the capacity and about `Pending` (`RingFacts`,
  `PendingType`, `PendingGap`, `GapFacts`).
- `NoLostWakeupHolds`: the property is inductive once `IInv` is known. Each step
  either leaves the awake workers and the entries as they were (`StillAwake`),
  or takes one of each (`TakenAwake`), or adds an entry while the acceptor is
  about to signal (`PutAwake`), or turns that signal into an awake worker
  (`SignalAwake`). The counting is of finite sets, for pools of every size.
- `BufferImplementsQueue`: every step of `Buffer` is a step of
  `RequestQueue` or leaves `Pending`, `req` unchanged. `PutStore` is the put;
  `GetOldest` and `ScanEnd` are the get, the second because the scan has found
  the entry that `IsNext` describes; the compaction stutters.
- `RequestQueueProofs`: the abstract queue keeps its type, each request in one
  place (`HeldOnceHolds`), and lets a later request pass an earlier one only
  under sff and only if it is strictly smaller (`NoOvertakingHolds`).
  `BufferProofs!HeldOnceHolds`, `NoOvertakingHolds` say the same of the array,
  through the refinement.

### Servers

`WebProofs` holds what does not depend on whose thread takes a step.
`WebInv` says that the backlog holds distinct connections that are not open, and
that no file has grown. `ServeInv(r, point)` is what a request `r` may rely on
at each point of `request_serve`: that the checks of `request_parse` let it
through, what has been written to its connection, and what its mapping backs.
The lemmas `ServeOnly` and `ServeEnvironment` carry it over the steps of other
threads and of the clients, so that each server proves only what its own
threads do.

- `AnswersParsed`: for every URI, what `request_parse_uri` and
  `request_get_filetype` compute is an answer to what the URI asks for, which
  `AsksForDocument` and `AsksForScript` state without searching or cutting.
- `WServerProofs!OneHolderHolds`, whatever clients and other programs do. `IInv`
  adds that the acceptor
  has a connection exactly while it is not in `accept` and offers a request
  exactly in `put`, and that what it offers is in
  `RequestT`. `ReadInv` is about the method that `sscanf` leaves alone at the
  end of file: a request that is not a GET may then pass for one, but it never
  comes out of the loop over the headers.
- `UsesQueue`: `Spec => Buffer!Spec`, where `Buffer` is the `RequestQueue` that
  the server contains. It is the other half of the composition: `buffer.c`
  implements the queue for callers that never offer a request which is held,
  and the server is such a caller. `TypeCorrect` follows from it.
- `PoolInvHolds`, and from it `StaysUpHolds`, `ChildForEachWaitHolds` and
  `ShortOnlyIfTouchedHolds`. That the process ends only for the known reasons
  depends on `wait` never failing, and that on there being as many children as
  workers in `wait`, whichever of them reaps which; so `PoolInv` proves both
  together, with `ServeInv` of the request of the acceptor, of every queued one
  and of every worker's while the server is up (`ServingInv`), and with what is
  short of every connection (`RepliesInv`).
- `ImplementsServiceHolds`: under `Calm`, each step is one of `WebService` or a
  stutter. The refinement needs that a connection is closed by the server only
  when its client has the whole of its answer or a running script still has it
  to write (`Whole`), and that a script keeps the connection open until it has
  written (`ScriptInv`): then a worker that `wait` has woken for the end of
  another client's script does no harm by closing. `CalmInv` and `ServedInv`
  say this of connections and of workers.
- `SequentialServerProofs`: `OneAtATimeHolds`, whose `IInv` adds where the thread
  is (a child exists exactly while it is in `wait`,
  and it is the child of `conn_fd`); `StaysUpHolds` from `RunInv`, which is
  `ServeInv` of the one request; and `ImplementsServiceHolds`, the same theorem
  as for the concurrent server, from the same lemmas.

The proof found two slips of the model that no run did, both in what a URI asks
for. It was stated with a `CASE` whose guards overlap, and nothing says which
branch of such a `CASE` is taken; and of a file with two extensions in its name
it asked for one type, without saying which: `AnswersTo` is now a set.

### Readline

- `TypeCorrect` and `ReturnsLineHolds` from `LineInv`: what has been read since
  the call is in `buf`, has no line feed but at its end, and is followed by a
  NUL once `readline` returns, but for the string that is left open after a
  single byte (`OpenString`).
- `StopsAtBlankLineHolds` from `HeadersInv`. The property speaks of all the lines
  up to `pos`, and a line that is too long spoils what follows; so the invariant
  says that either a line that started before this call is already known to be
  one that does not fit (`Broken`), or this call starts at the start of a line
  and no blank line came before. What `strcmp` takes for the blank line is one
  (`BlankLine`), unless the string is open: there stale bytes may decide.
- `PrintsWholeAnswerHolds` from `PrintInv`, in the same way: what has been printed
  is what was sent, without the first blank line, unless some line before was
  one that `client_print` does not print whole (`Unprintable`). The peer may
  still be sending, so the invariant also covers a last line that would become
  too long with its next byte (`TailOf`). In an answer without NUL `printf` stops
  at the NUL of this call and not at an earlier one (`PrintfType`).

### Load generator and campaign

- `LoadClientProofs`.
  `RateKeptHolds` follows from `BucketInv`: what the leaking bucket has and the
  token bucket has left are together at most the cap, unless the first is empty
  (at the start the token bucket may hold more than the cap of a rate below
  one). `TypeCorrect`, `TasksCountedHolds` and `ReportIsCompleteHolds` follow
  from `QueueInv`, which adds to the count where each request is (`Placed`),
  which workers have one, and that `join` has left none; without the place of
  each request the count alone would allow a lost one and a repeated one.
- `CampaignProofs`: `IInv` joins what each process has done by the point it is at
  (`StartupInv`), that of the servers of this run all but the last have ended
  and that only the last can answer (`OwnInv`), and that the rows are those of
  earlier replicas while the load client runs (`SummaryInv`). From it follow
  `WorkersFindBufferHolds`, `RowsMeasureOwnServerHolds`, `SummaryOfOneRunHolds`, and
  `NoServerLeft`: a campaign that is complete has ended all its servers.

### Only model-checked

Everything about liveness (`PutReturns`, `EveryRequestTaken`,
`SmallestRequestTaken`, `EveryClientAnswered`, `EveryClientServed`,
`BlankLineSuffices`, `ClientEnds`, `DispatcherStops`, `CampaignEnds`): TLAPS does not prove
liveness under fairness. Every invariant, action property and refinement that a
passing run checks is also a theorem.

## Disagreements between the code and its documents

- `README.md:41` says that the server accepts multiple clients concurrently.
  The acceptor reads each request itself (`request.c:208`, `220`) before it
  accepts again, so one silent client keeps all others out
  (`server_silent_client`). The pool serves concurrently; accepting is serial.
- `wserver.c:24-25` says that each worker loops forever. A request for an empty
  file aborts the process: `mmap` refuses length 0 (`request.c:119`,
  `server_empty_file`).
- `load_client.py:293` says that the wait for the queue takes up to 30 extra
  seconds. `work_q.join()` has no timeout, and it waits for ever when all the
  workers time out just before the last put and look at `stop_event` just after
  the stop (`client_join`).

## What is not modelled

- The text of answers, and characters of a URI that no function looks for.
- Failures that no client or file causes once the server runs: `fork`, `malloc`,
  `accept`, `open`, for want of processes, memory or descriptors. All of them end
  the process, and `StaysUp` leaves them out.
- URIs and methods close to the 8192 bytes of the arrays of `request.c`: the
  name of such a file overflows `filename` at `request.c:66` or `body` at
  `request.c:18`, which is undefined. `Requested` are shorter ones. Of the empty
  URI that may be left on the stack, `request.c:65` also looks at the byte before
  it, and the model takes it not to be a slash.
- The steps between the four writes of `request_error` (`request.c:31-39`), which are
  one action, and signals other than SIGPIPE, which would interrupt a write.
- Clients that connect to the listening socket which a child still has after the
  server has died: nobody accepts them.
- A rate below one (`load_client.py:146`): the bucket then never holds a whole
  token after its first turn, and nothing is dispatched. The model shows it
  with `Rate < Token`; no run has that rate, because a campaign without requests
  breaks no property.
- The buffers of the kernel: that closing a connection with unread input may
  reset it before the client has read the answer (the 501 leaves the headers
  unread), and that a write blocks on a slow reader.
- Files that change and change back, and files whose permissions change.
- A restart of the server: it keeps nothing. The campaign starts new ones.
- `buffer_destroy` and the end of `main`, which are not reachable.
- `setup_files.sh`, which only writes files.
- The percentiles of `load_client.py` and all of `analyze_results.py`: arithmetic on
  floats, tests of scipy, and plots, with no state. One observation from
  reading it: `analyze_results.py:183` treats a metric `latency_ms` as better when
  lower, but the metrics are called `mean_ms`, `p95_ms` and so on, so the line
  never applies.

## Plan

Every safety property is proved. What could still be added is the composition in
one module: `WServer` with `Buffer` in the place of `RequestQueue`, which
`UsesQueue` and `BufferImplementsQueue` now justify separately; and the abstract
promises of the load generator and of the campaign as specifications of their
own, which their modules would implement as the servers implement `WebService`.
