------------------------------ MODULE Campaign -------------------------------
(***************************************************************************)
(* run_experiments.sh: for every scenario, policy and replica it starts a  *)
(* server in the background (module Startup), sleeps a second, runs the    *)
(* load client, which appends one row to summary.csv, kills the server and *)
(* waits for it.  When the client fails it shows the client's log, through *)
(* a pipeline whose own failure ends the script: set -euo pipefail.        *)
(*                                                                         *)
(* Around it, the user may start another server by hand, and may interrupt *)
(* the script and run it again: bash makes its background processes ignore *)
(* SIGINT, and the script has no trap, so the server of an interrupted     *)
(* campaign goes on.  A server may also crash.  The second of sleep is no  *)
(* time at all here: the client may come before the server listens.        *)
(***************************************************************************)
EXTENDS Startup

CONSTANTS
  Scenarios,      \* SCENARIOS: the threads of each, in order
  Policies,       \* POLICIES, in order
  Replicas,       \* REPLICAS
  ByHand,         \* what the user may start by hand: programs with their options
  MaxByHand,      \* bound: how many of them
  MaxRuns         \* bound: how many times the script is run

Port == 10000

ASSUME CampaignAssumption ==
  /\ Scenarios \in Seq(Nat) \ {<<>>} /\ Policies \in Seq({"fifo", "sff"}) \ {<<>>}
  /\ "www" \in Paths
  /\ ByHand \subseteq [program : {"wserver", "CodeBase"}, args : Seq(Option)]
  /\ {Replicas, MaxByHand, MaxRuns} \subseteq Nat

VARIABLES
  script,         \* where the script is
  runs,           \* how many times it has been run
  job,            \* JOBS_DONE
  own,            \* the servers this run of the script has started; the
                  \* last of them is SERVER_PID
  byHand,         \* how many servers the user has started by hand
  killed,         \* the processes that a signal is going to end
  answered,       \* the servers that have answered the load client
  summary         \* summary.csv

here == <<script, runs, job, own>>
load == <<answered, summary>>
vars == <<process, here, byHand, killed, load>>

(* The three loops, replicas innermost. *)
Jobs == Len(Scenarios) * Len(Policies) * Replicas
Scenario(j) == ((j - 1) \div (Len(Policies) * Replicas)) + 1
Policy(j) == Policies[(((j - 1) \div Replicas) % Len(Policies)) + 1]

ServerPid == Max(own)

Init ==
  /\ process = <<>>
  /\ script = "stopped" /\ runs = 0 /\ job = 0 /\ own = {}
  /\ byHand = 0 /\ killed = {}
  /\ answered = {} /\ summary = <<>>

-----------------------------------------------------------------------------
(* The script.                                                              *)

(* Mutant: the results of an earlier run stay. *)
BeginKeepsResults ==
  /\ script \in {"stopped", "complete"} /\ runs < MaxRuns
  /\ script' = "launch" /\ runs' = runs + 1 /\ job' = 0 /\ own' = {}
  /\ UNCHANGED <<process, byHand, killed, load>>

(* rm -rf results, and summary.csv with its header. *)
Begin ==
  /\ script \in {"stopped", "complete"} /\ runs < MaxRuns
  /\ script' = "launch" /\ runs' = runs + 1 /\ job' = 0 /\ own' = {}
  /\ summary' = <<>>
  /\ UNCHANGED <<process, byHand, killed, answered>>

Opt(letter, value) == [letter |-> letter, value |-> value]

(* The command line of the server of job j. *)
ServerArgs(j) ==
  << Opt("d", "www"), Opt("p", Port), Opt("t", Scenarios[Scenario(j)]),
     Opt("b", 16), Opt("s", Policy(j)) >>

Launch ==
  /\ script = "launch" /\ job < Jobs
  /\ job' = job + 1
  /\ process' = Append(process, Started("wserver", ServerArgs(job')))
  /\ own' = own \cup {Len(process')}
  /\ script' = "load" /\ answered' = {}
  /\ UNCHANGED <<runs, byHand, killed, summary>>

(* A request of the load client: the server that listens answers it, or it  *)
(* is refused.                                                              *)
Request ==
  /\ script = "load"
  /\ answered' = answered \cup Listening(Port)
  /\ answered' # answered
  /\ UNCHANGED <<process, here, byHand, killed, summary>>

(* The client ends, with its row, though every request may have failed.     *)
LoadEnds ==
  /\ script = "load"
  /\ summary' = Append(summary, [job |-> job, server |-> ServerPid, answered |-> answered])
  /\ script' = "kill" /\ answered' = {}
  /\ UNCHANGED <<process, runs, job, own, byHand, killed>>

(* It fails before it appends one.  cat "$log" | head -20 fails when cat    *)
(* gets SIGPIPE for a long log, or finds none; set -e then ends the script  *)
(* before the kill, and the server goes on.                                 *)
LoadFails ==
  /\ script = "load"
  /\ script' \in {"kill", "stopped"} /\ answered' = {}
  /\ UNCHANGED <<process, runs, job, own, byHand, killed, summary>>

(* Mutant: there is no kill. *)
KillNothing ==
  /\ script = "kill"
  /\ script' = "wait"
  /\ UNCHANGED <<process, runs, job, own, byHand, killed, load>>

Kill ==
  /\ script = "kill"
  /\ killed' = killed \cup ({ServerPid} \cap Alive)
  /\ script' = "wait"
  /\ UNCHANGED <<process, runs, job, own, byHand, load>>

(* Mutant: there is no wait. *)
WaitNot ==
  /\ script = "wait"
  /\ script' = "launch"
  /\ UNCHANGED <<process, runs, job, own, byHand, killed, load>>

Wait ==
  /\ script = "wait" /\ ServerPid \notin Alive
  /\ script' = "launch"
  /\ UNCHANGED <<process, runs, job, own, byHand, killed, load>>

Complete ==
  /\ script = "launch" /\ job = Jobs
  /\ script' = "complete"
  /\ UNCHANGED <<process, runs, job, own, byHand, killed, load>>

(* What the script does itself: it has no time limit for the load client.   *)
Script == Launch \/ Kill \/ Wait \/ Complete

Load == Request \/ LoadEnds \/ LoadFails

-----------------------------------------------------------------------------
(* The server processes and the user.                                       *)

ServerStarts(p) == Start(p) /\ UNCHANGED <<here, byHand, killed, load>>

Ends(p) ==
  /\ process' = [process EXCEPT ![p] = Ended]
  /\ killed' = killed \ {p}
  /\ UNCHANGED <<here, byHand, load>>

(* SIGTERM arrives. *)
Dies(p) == p \in killed /\ Ends(p)

(* An assert or SIGPIPE ends a server: see Die in module Web. *)
Crashes(p) == process[p].point = "serving" /\ Ends(p)

(* Ctrl-C ends the script and the load client. *)
Interrupt ==
  /\ script \notin {"stopped", "complete"}
  /\ script' = "stopped" /\ answered' = {}
  /\ UNCHANGED <<process, runs, job, own, byHand, killed, summary>>

StartByHand ==
  /\ byHand < MaxByHand
  /\ byHand' = byHand + 1
  /\ \E server \in ByHand : process' = Append(process, Started(server.program, server.args))
  /\ UNCHANGED <<here, killed, load>>

User == Begin \/ Interrupt \/ StartByHand

-----------------------------------------------------------------------------

Next == Script \/ Load \/ User \/ \E p \in Pids : ServerStarts(p) \/ Dies(p) \/ Crashes(p)

Spec == Init /\ [][Next]_vars

(* The script runs, and signals arrive.  The load client need not end:      *)
(* JoinReturns of module LoadClient says why.                               *)
FairSpec == Spec /\ WF_vars(Script) /\ WF_vars(\E p \in Pids : Dies(p))

-----------------------------------------------------------------------------

(* README.md: "compare both policies under the same workload conditions".   *)
(* No row of the summary measures a server that this run of the script has  *)
(* started for another row, perhaps with the other policy: whoever answers  *)
(* is the row's own server, or one that was there before or was started by  *)
(* hand.                                                                    *)
RowsMeasureOwnServer ==
  \A k \in DOMAIN summary : summary[k].answered \cap own \subseteq {summary[k].server}

(* The rows of the summary are of one run of the script, at most one for    *)
(* each replica and in their order, also after runs that were interrupted.  *)
SummaryOfOneRun ==
  \A k \in DOMAIN summary :
    /\ summary[k].job <= job
    /\ \A i \in 1 .. k - 1 : summary[i].job < summary[k].job

(* Whichever servers are late, crash, do not start or have the port, the    *)
(* campaign comes to its end and leaves no server running: kill and wait do *)
(* not block.  What can stop it is an interrupt or the log of a client that *)
(* failed, after which a server may go on; or a load client that never ends. *)
CampaignEnds ==
  script = "launch"
    ~> \/ script = "stopped"
       \/ script = "complete" /\ own \cap Alive = {}
       \/ [](script = "load")
=============================================================================
