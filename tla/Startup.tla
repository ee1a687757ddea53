------------------------------- MODULE Startup -------------------------------
(***************************************************************************)
(* How a server process starts (main in wserver.c, up to its loop): the    *)
(* options, chdir, buffer_init, the worker threads, and last the socket on *)
(* its port.  Until then nobody can tell from outside how far it is, and   *)
(* whatever fails ends the process.  The sequential server of src/CodeBase *)
(* has two of the options and neither buffer nor threads.                  *)
(*                                                                         *)
(* An option is its letter with the value that atoi or strcasecmp makes of *)
(* its argument.                                                           *)
(***************************************************************************)
EXTENDS Integers, SequencesExt

CONSTANTS
  Paths,          \* what a server may be told to serve, and
  Directories     \* those of them that chdir can enter

ASSUME StartupAssumption == "." \in Paths /\ Directories \subseteq Paths

VARIABLE process         \* the server processes, in the order of their start

Pids == DOMAIN process

(* What getopt finds on a command line. *)
Option ==
  [letter : {"p", "t", "b"}, value : Int]
    \cup [letter : {"d"}, value : Paths]
    \cup [letter : {"s"}, value : {"fifo", "sff", "neither"}]

(* default_root, DEFAULT_PORT, ... *)
Defaults == [d |-> ".", p |-> 10000, t |-> 4, b |-> 16, s |-> "fifo"]

NoBuffer == [cap |-> 0, sched |-> "none"]

Started(program, args) ==
  [program |-> program, point |-> "options", args |-> args, options |-> Defaults,
   buffer |-> NoBuffer, workers |-> 0]

(* A process that exit, a failed assert or a signal has ended. *)
Ended == [Started("wserver", <<>>) EXCEPT !.point = "ended"]

Alive == {p \in Pids : process[p] # Ended}

(* The port a process binds: htons((unsigned short) port). *)
PortOf(p) == process[p].options.p % 2^16

(* The process that has the port; 0 makes the kernel choose another one.    *)
Listening(port) == {p \in Pids : process[p].point = "serving" /\ PortOf(p) = port /\ port # 0}

-----------------------------------------------------------------------------

(* Process p, which is at one point of main, becomes what new says. *)
Becomes(p, here, new) ==
  /\ process[p].point = here
  /\ process' = [process EXCEPT ![p] = new]

At(p, point) == [process[p] EXCEPT !.point = point]

(* The switch over the options; anything else prints the usage and exits.   *)
Accepts(program, option) ==
  \/ option.letter \in {"d", "p"}
  \/ /\ program = "wserver"
     /\ \/ option.letter \in {"t", "b"} /\ option.value >= 1
        \/ option.letter = "s" /\ option.value \in {"fifo", "sff"}

(* The getopt loop: the last option of a letter counts, and each of them    *)
(* must be accepted.                                                        *)
Refused == [Defaults EXCEPT !.t = 0]

LastValue(args, letter) ==
  LET those == {k \in DOMAIN args : args[k].letter = letter}
  IN IF those = {} THEN Defaults[letter] ELSE args[Max(those)].value

GetOpt(p) ==
  LET args == process[p].args IN
  IF \E k \in DOMAIN args : ~ Accepts(process[p].program, args[k])
  THEN Refused
  ELSE [letter \in DOMAIN Defaults |-> LastValue(args, letter)]

(* The process with these options, after chdir, at this point. *)
Goes(p, options, point) ==
  IF options = Refused \/ options.d \notin Directories THEN Ended
  ELSE [At(p, point) EXCEPT !.args = <<>>, !.options = options]

(* Mutant: the threads are created before the buffer. *)
ConfigureThenSpawn(p) == Becomes(p, "options", Goes(p, GetOpt(p), "spawn"))

(* The options, and chdir_or_die. *)
Configure(p) ==
  Becomes(p, "options",
    Goes(p, GetOpt(p), IF process[p].program = "wserver" THEN "init" ELSE "listen"))

(* buffer_init *)
BufferInit(p) ==
  LET options == process[p].options IN
  \/ Becomes(p, "init", [At(p, "spawn") EXCEPT !.buffer = [cap |-> options.b, sched |-> options.s]])
  \/ Becomes(p, "init", Ended)             \* assert(slots != NULL)

(* The loop over pthread_create: the whole pool, or the process ends. *)
Spawn(p) ==
  \/ Becomes(p, "spawn", [At(p, "listen") EXCEPT !.workers = process[p].options.t])
  \/ Becomes(p, "spawn", Ended)

(* open_listen_fd_or_die: SO_REUSEADDR does not let two sockets listen on   *)
(* one port; and socket, setsockopt, bind or listen may fail for any other  *)
(* reason, a port that some other program has or a privileged one.          *)
OpenListenFd(p) ==
  \/ Listening(PortOf(p)) = {} /\ Becomes(p, "listen", At(p, "serving"))
  \/ Becomes(p, "listen", Ended)

Start(p) == Configure(p) \/ BufferInit(p) \/ Spawn(p) \/ OpenListenFd(p)

-----------------------------------------------------------------------------

(* A worker calls buffer_get as soon as it runs: by then the buffer has its *)
(* array and its policy, as module Buffer assumes of its constants; and a   *)
(* server takes connections only with all its workers and that buffer.      *)
WorkersFindBuffer ==
  \A p \in Pids : LET this == process[p] IN
    /\ this.workers > 0 => this.buffer.cap \in Nat \ {0} /\ this.buffer.sched \in {"fifo", "sff"}
    /\ (this.point = "serving" /\ this.program = "wserver") =>
         /\ this.workers = this.options.t /\ this.workers > 0
         /\ this.buffer = [cap |-> this.options.b, sched |-> this.options.s]
=============================================================================
