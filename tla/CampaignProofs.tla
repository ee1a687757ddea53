--------------------------- MODULE CampaignProofs ----------------------------
(***************************************************************************)
(* Proofs about Campaign and the processes of Startup, for every list of   *)
(* scenarios and policies, every number of replicas and of runs, and       *)
(* whatever servers the user starts by hand.                               *)
(***************************************************************************)
EXTENDS Campaign, WellFoundedInduction, TLAPS

(* How far a process is says what it has: its options are read first, then  *)
(* the buffer is made for them, and the workers last.                       *)
Configured(options) ==
  /\ {options.t, options.b} \subseteq Nat \ {0}
  /\ options.s \in {"fifo", "sff"}

ProcessInv(this) ==
  /\ this.workers = 0 \/ this.point \in {"listen", "serving"}
  /\ this.point = "init" => this.program = "wserver" /\ Configured(this.options)
  /\ this.point \in {"spawn", "listen", "serving"} /\ this.program = "wserver" =>
       /\ Configured(this.options)
       /\ this.buffer = [cap |-> this.options.b, sched |-> this.options.s]
  /\ this.point \in {"listen", "serving"} =>
       this.workers = IF this.program = "wserver" THEN this.options.t ELSE 0
  /\ this.point = "spawn" => this.program = "wserver"

Schedulers == {"fifo", "sff", "neither", "none"}

Options == [d : Paths, p : Int, t : Int, b : Int, s : Schedulers]

Process ==
  [program : {"wserver", "CodeBase"},
   point : {"options", "init", "spawn", "listen", "serving", "ended"},
   args : Seq(Option), options : Options,
   buffer : [cap : Int, sched : Schedulers], workers : Int]

StartupInv == process \in Seq(Process) /\ \A p \in Pids : ProcessInv(process[p])

(* The servers of this run other than the last have ended, and the last one *)
(* too when the next is launched.  An answer comes from a process, and from *)
(* no server of this run but the last.                                      *)
OwnInv ==
  /\ own \subseteq Pids
  /\ \A p \in own : p # ServerPid => process[p] = Ended
  /\ script \in {"launch", "complete"} => own \cap Alive = {}
  /\ script \in {"load", "kill", "wait"} => own # {}
  /\ answered \subseteq Pids
  /\ script = "load" => answered \cap own \subseteq {ServerPid}

Row == [job : Nat, server : Nat, answered : SUBSET Nat]

(* The rows are those of earlier replicas while the load client runs.       *)
SummaryInv ==
  /\ script \in {"stopped", "launch", "load", "kill", "wait", "complete"}
  /\ job \in Nat
  /\ summary \in Seq(Row)
  /\ \A k \in DOMAIN summary : summary[k].answered \subseteq Pids
  /\ script = "load" => \A k \in DOMAIN summary : summary[k].job < job

IInv == StartupInv /\ OwnInv /\ SummaryInv /\ RowsMeasureOwnServer /\ SummaryOfOneRun

-----------------------------------------------------------------------------
(* The options.                                                             *)

LEMMA MaxExists ==
  ASSUME NEW n \in Nat, NEW T \in SUBSET (1 .. n), T # {}
  PROVE  Max(T) \in T
<1> DEFINE R == OpToRel(<, Nat)
           U == {m \in Nat : n - m \in T}
<1>1. IsWellFoundedOn(R, Nat)
  BY NatLessThanWellFounded
<1>2. U \subseteq Nat /\ U # {}
  <2>1. PICK x \in T : TRUE
    OBVIOUS
  <2>2. n - x \in U
    BY <2>1
  <2> QED
    BY <2>2
<1>3. PICK m \in U : \A k \in U : ~ (<<k, m>> \in R)
  <2> HIDE DEF R, U
  <2> QED
    BY <1>1, <1>2, WFMin
<1>4. \A k \in U : ~ (k < m)
  BY <1>3 DEF OpToRel
<1>5. ASSUME NEW y \in T
      PROVE  n - m >= y
  <2>1. y \in 1 .. n /\ n - y \in Nat /\ n - (n - y) = y
    OBVIOUS
  <2>2. n - y \in U
    BY <2>1
  <2>3. ~ (n - y < m) /\ m \in Nat
    BY <1>4, <2>2
  <2> QED
    BY <2>1, <2>3
<1> QED
  BY <1>5 DEF Max

LEMMA LastValueType ==
  ASSUME NEW args \in Seq(Option), NEW letter \in DOMAIN Defaults,
         LastValue(args, letter) # Defaults[letter]
  PROVE  \E k \in DOMAIN args : args[k].letter = letter /\ LastValue(args, letter) = args[k].value
<1> DEFINE those == {k \in DOMAIN args : args[k].letter = letter}
<1>1. those # {} /\ LastValue(args, letter) = args[Max(those)].value
  BY DEF LastValue
<1>2. those \in SUBSET (1 .. Len(args)) /\ Len(args) \in Nat
  OBVIOUS
<1>3. Max(those) \in those
  <2> HIDE DEF those
  <2> QED
    BY <1>1, <1>2, MaxExists
<1> QED
  BY <1>1, <1>3

LEMMA GetOptType ==
  ASSUME StartupInv, NEW p \in Pids, process[p].point = "options"
  PROVE  /\ GetOpt(p) \in Options
         /\ process[p].program = "wserver" /\ GetOpt(p) # Refused => Configured(GetOpt(p))
<1> DEFINE args == process[p].args
<1>1. args \in Seq(Option) /\ DOMAIN Defaults = {"d", "p", "t", "b", "s"}
  <2>1. process[p] \in Process
    BY DEF StartupInv, Pids
  <2>2. args \in Seq(Option)
    BY <2>1 DEF Process
  <2> QED
    BY <2>2 DEF Defaults
<1>2. Refused \in Options
  BY StartupAssumption DEF Refused, Defaults, Options, Schedulers
<1>3. CASE \E k \in DOMAIN args : ~ Accepts(process[p].program, args[k])
  BY <1>2, <1>3 DEF GetOpt
<1>4. CASE \A k \in DOMAIN args : Accepts(process[p].program, args[k])
  <2>1. GetOpt(p) = [letter \in DOMAIN Defaults |-> LastValue(args, letter)]
    BY <1>4 DEF GetOpt
  <2>2. \A k \in DOMAIN args : args[k] \in Option
    BY <1>1
  <2>3. /\ Defaults.d \in Paths /\ Defaults.s \in Schedulers
        /\ {Defaults.p, Defaults.t, Defaults.b} \subseteq Int
    BY StartupAssumption DEF Defaults, Schedulers
  <2>4. ASSUME NEW o \in Option
        PROVE  /\ o.letter = "d" => o.value \in Paths
               /\ o.letter = "s" => o.value \in Schedulers
               /\ o.letter \in {"p", "t", "b"} => o.value \in Int
    BY DEF Option, Schedulers
  <2>5. \A letter \in DOMAIN Defaults :
          \/ LastValue(args, letter) = Defaults[letter]
          \/ \E o \in Option : o.letter = letter /\ LastValue(args, letter) = o.value
    BY <1>1, <2>2, LastValueType
  <2>6. LastValue(args, "d") \in Paths
    BY <1>1, <2>3, <2>4, <2>5
  <2>7. LastValue(args, "s") \in Schedulers
    BY <1>1, <2>3, <2>4, <2>5
  <2>8. /\ LastValue(args, "p") \in Int /\ LastValue(args, "t") \in Int
        /\ LastValue(args, "b") \in Int
    BY <1>1, <2>3, <2>4, <2>5
  <2>9. ASSUME process[p].program = "wserver"
        PROVE  /\ LastValue(args, "t") >= 1 /\ LastValue(args, "b") >= 1
               /\ LastValue(args, "s") \in {"fifo", "sff"}
    <3>1. ASSUME NEW letter \in {"t", "b", "s"},
                 NEW k \in DOMAIN args, args[k].letter = letter
          PROVE  IF letter = "s" THEN args[k].value \in {"fifo", "sff"} ELSE args[k].value >= 1
      BY <1>4, <2>9, <3>1 DEF Accepts
    <3>2. \A letter \in {"t", "b", "s"} :
            \/ LastValue(args, letter) = Defaults[letter]
            \/ \E k \in DOMAIN args : args[k].letter = letter /\ LastValue(args, letter) = args[k].value
      BY <1>1, LastValueType
    <3>3. Defaults["t"] >= 1 /\ Defaults["b"] >= 1 /\ Defaults["s"] \in {"fifo", "sff"}
      BY DEF Defaults
    <3> QED
      BY <3>1, <3>2, <3>3
  <2>10. GetOpt(p) = [d |-> LastValue(args, "d"), p |-> LastValue(args, "p"),
                     t |-> LastValue(args, "t"), b |-> LastValue(args, "b"),
                     s |-> LastValue(args, "s")]
    BY <1>1, <2>1
  <2> HIDE DEF args
  <2> QED
    BY <2>6, <2>7, <2>8, <2>9, <2>10 DEF Options, Configured
<1> QED
  BY <1>3, <1>4

-----------------------------------------------------------------------------
(* Processes.                                                               *)

(* One more process.                                                        *)
LEMMA AppendProcess ==
  ASSUME StartupInv, NEW new \in Process, ProcessInv(new), process' = Append(process, new)
  PROVE  /\ StartupInv'
         /\ Len(process') = Len(process) + 1 /\ Len(process) \in Nat
         /\ Pids = 1 .. Len(process) /\ Pids' = Pids \cup {Len(process')}
         /\ \A p \in Pids : process'[p] = process[p]
         /\ process'[Len(process')] = new
<1>1. process \in Seq(Process)
  BY DEF StartupInv
<1>2. /\ process' \in Seq(Process) /\ Len(process') = Len(process) + 1
      /\ Len(process) \in Nat
      /\ Pids = 1 .. Len(process) /\ Pids' = 1 .. Len(process) + 1
      /\ \A p \in Pids : process'[p] = process[p]
      /\ process'[Len(process')] = new
  BY <1>1 DEF Pids
<1>3. Pids' = Pids \cup {Len(process')}
  BY <1>2
<1> QED
  BY <1>2, <1>3 DEF StartupInv

(* A process goes on.                                                       *)
LEMMA ExceptProcess ==
  ASSUME StartupInv, NEW p \in Pids, NEW new \in Process, ProcessInv(new),
         process' = [process EXCEPT ![p] = new]
  PROVE  /\ StartupInv'
         /\ Pids' = Pids /\ process'[p] = new
         /\ \A q \in Pids : q # p => process'[q] = process[q]
  BY DEF StartupInv, Pids

LEMMA EndedProcess == Ended \in Process /\ ProcessInv(Ended)
<1>1. Started("wserver", <<>>) \in Process
  BY StartupAssumption DEF Started, Process, Defaults, NoBuffer, Options, Schedulers
<1> QED
  BY <1>1 DEF Ended, Started, Process, ProcessInv

LEMMA NewProcess ==
  ASSUME NEW program \in {"wserver", "CodeBase"}, NEW args \in Seq(Option)
  PROVE  Started(program, args) \in Process /\ ProcessInv(Started(program, args))
  BY StartupAssumption
     DEF Started, Process, ProcessInv, Defaults, NoBuffer, Options, Schedulers

(* A step of main: a process that is alive goes on or ends.                 *)
LEMMA StartStep ==
  ASSUME StartupInv, NEW p \in Pids, Start(p)
  PROVE  \E new \in Process : /\ ProcessInv(new) /\ process[p] # Ended
                              /\ process' = [process EXCEPT ![p] = new]
<1>1. process[p] \in Process /\ ProcessInv(process[p])
  BY DEF StartupInv, Pids
<1>2. process[p].point \in {"options", "init", "spawn", "listen"} /\ Ended.point = "ended"
  BY DEF Start, Configure, BufferInit, Spawn, OpenListenFd, Becomes, Ended, Started
<1>3. CASE Configure(p)
  <2> DEFINE point == IF process[p].program = "wserver" THEN "init" ELSE "listen"
             new == Goes(p, GetOpt(p), point)
  <2>1. process[p].point = "options" /\ process' = [process EXCEPT ![p] = new]
    BY <1>3 DEF Configure, Becomes
  <2>2. /\ GetOpt(p) \in Options
        /\ process[p].program = "wserver" /\ GetOpt(p) # Refused => Configured(GetOpt(p))
    BY <2>1, GetOptType
  <2>3. CASE new = Ended
    BY <1>2, <2>1, <2>3, EndedProcess
  <2>4. CASE /\ new = [At(p, point) EXCEPT !.args = <<>>, !.options = GetOpt(p)]
             /\ GetOpt(p) # Refused
    <3>1. new \in Process
      <4>1. At(p, point) \in Process /\ <<>> \in Seq(Option)
        BY <1>1 DEF At, Process
      <4> HIDE DEF point
      <4> QED
        BY <2>2, <2>4, <4>1 DEF Process
    <3>2. ProcessInv(new)
      BY <1>1, <2>1, <2>2, <2>4 DEF At, Process, ProcessInv
    <3> QED
      BY <1>2, <2>1, <3>1, <3>2
  <2> QED
    BY <2>3, <2>4 DEF Goes
<1>4. CASE BufferInit(p)
  <2> DEFINE options == process[p].options
             new == [At(p, "spawn") EXCEPT !.buffer = [cap |-> options.b, sched |-> options.s]]
  <2>1. process[p].point = "init" /\ process' \in {[process EXCEPT ![p] = new], [process EXCEPT ![p] = Ended]}
    BY <1>4 DEF BufferInit, Becomes
  <2>2. new \in Process /\ ProcessInv(new)
    BY <1>1, <2>1 DEF At, Process, ProcessInv, Configured, Options
  <2> QED
    BY <1>2, <2>1, <2>2, EndedProcess
<1>5. CASE Spawn(p)
  <2> DEFINE new == [At(p, "listen") EXCEPT !.workers = process[p].options.t]
  <2>1. process[p].point = "spawn" /\ process' \in {[process EXCEPT ![p] = new], [process EXCEPT ![p] = Ended]}
    BY <1>5 DEF Spawn, Becomes
  <2>2. new \in Process /\ ProcessInv(new)
    BY <1>1, <2>1 DEF At, Process, ProcessInv, Configured, Options
  <2> QED
    BY <1>2, <2>1, <2>2, EndedProcess
<1>6. CASE OpenListenFd(p)
  <2>1. process[p].point = "listen" /\ process' \in {[process EXCEPT ![p] = At(p, "serving")], [process EXCEPT ![p] = Ended]}
    BY <1>6 DEF OpenListenFd, Becomes
  <2>2. At(p, "serving") \in Process /\ ProcessInv(At(p, "serving"))
    BY <1>1, <2>1 DEF At, Process, ProcessInv
  <2> QED
    BY <1>2, <2>1, <2>2, EndedProcess
<1> QED
  BY <1>3, <1>4, <1>5, <1>6 DEF Start

-----------------------------------------------------------------------------
(* The campaign.                                                            *)

LEMMA ServerPidIsOwn ==
  ASSUME IInv, own # {}
  PROVE  ServerPid \in own /\ ServerPid \in Nat
<1>1. own \in SUBSET (1 .. Len(process)) /\ Len(process) \in Nat
  BY DEF IInv, StartupInv, OwnInv, Pids
<1>2. Max(own) \in own
  BY <1>1, MaxExists
<1>3. ServerPid \in own
  BY <1>2 DEF ServerPid
<1>4. \A p \in 1 .. Len(process) : p \in Nat
  BY <1>1
<1> QED
  BY <1>1, <1>3, <1>4

(* A step of a process that the script does not notice.                     *)
LEMMA ProcessStep ==
  ASSUME IInv, NEW p \in Pids, NEW new \in Process, ProcessInv(new),
         process[p] # Ended \/ new = Ended,
         process' = [process EXCEPT ![p] = new], UNCHANGED <<here, load>>
  PROVE  IInv'
<1>1. /\ StartupInv' /\ Pids' = Pids /\ process'[p] = new
      /\ \A q \in Pids : q # p => process'[q] = process[q]
  BY ExceptProcess DEF IInv
<1>2. \A q \in Pids : process[q] = Ended => process'[q] = Ended
  BY <1>1
<1>3. Alive' \cap Pids \subseteq Alive
  BY <1>2 DEF Alive
<1>4. OwnInv'
  BY <1>1, <1>2, <1>3 DEF IInv, OwnInv, ServerPid, here, load
<1> QED
  BY <1>1, <1>4 DEF IInv, SummaryInv, RowsMeasureOwnServer, SummaryOfOneRun, here, load

LEMMA StartByHandStep ==
  ASSUME IInv, StartByHand
  PROVE  IInv'
<1>1. PICK server \in ByHand : process' = Append(process, Started(server.program, server.args))
  BY DEF StartByHand
<1>2. server.program \in {"wserver", "CodeBase"} /\ server.args \in Seq(Option)
  BY CampaignAssumption
<1>3. /\ StartupInv' /\ Len(process') = Len(process) + 1 /\ Len(process) \in Nat
      /\ Pids = 1 .. Len(process) /\ Pids' = Pids \cup {Len(process')}
      /\ \A p \in Pids : process'[p] = process[p]
  BY <1>1, <1>2, NewProcess, AppendProcess DEF IInv
<1>4. own \subseteq Pids /\ UNCHANGED <<here, load>>
  BY DEF IInv, OwnInv, StartByHand
<1>5. own \cap Alive' = own \cap Alive
  BY <1>3, <1>4 DEF Alive
<1>6. OwnInv'
  BY <1>3, <1>4, <1>5 DEF IInv, OwnInv, ServerPid, here, load
<1> QED
  BY <1>3, <1>4, <1>6 DEF IInv, SummaryInv, RowsMeasureOwnServer, SummaryOfOneRun, here, load

(* The j-th job has a scenario and a policy.                                *)
LEMMA JobIndices ==
  ASSUME NEW j \in 1 .. Jobs
  PROVE  Scenario(j) \in DOMAIN Scenarios /\ Policy(j) \in {"fifo", "sff"}
<1> DEFINE s == Len(Scenarios)
           q == Len(Policies)
           n == q * Replicas
<1>1. /\ Scenarios \in Seq(Nat) /\ Policies \in Seq({"fifo", "sff"})
      /\ s \in Nat /\ q \in Nat \ {0} /\ Replicas \in Nat
  BY CampaignAssumption
<1>2. j - 1 \in Nat /\ j - 1 < s * n /\ n \in Nat
  BY <1>1 DEF Jobs
<1>3. n > 0 /\ Replicas > 0
  BY <1>1, <1>2
<1>4. (j - 1) \div n \in 0 .. s - 1
  <2> HIDE DEF s, n
  <2> QED
    BY <1>1, <1>2, <1>3
<1>5. (((j - 1) \div Replicas) % q) + 1 \in 1 .. q
  <2> HIDE DEF q, n
  <2>1. (j - 1) \div Replicas \in Nat
    BY <1>1, <1>2, <1>3
  <2> QED
    BY <1>1, <2>1
<1> QED
  BY <1>1, <1>4, <1>5 DEF Scenario, Policy

LEMMA ServerArgsType ==
  ASSUME NEW j \in 1 .. Jobs
  PROVE  ServerArgs(j) \in Seq(Option)
<1>1. Scenarios[Scenario(j)] \in Nat /\ Policy(j) \in {"fifo", "sff"}
  BY JobIndices, CampaignAssumption
<1>2. /\ Opt("d", "www") \in Option /\ Opt("p", Port) \in Option
      /\ Opt("t", Scenarios[Scenario(j)]) \in Option
      /\ Opt("b", 16) \in Option /\ Opt("s", Policy(j)) \in Option
  BY <1>1, CampaignAssumption DEF Opt, Option, Port
<1> QED
  BY <1>2 DEF ServerArgs

LEMMA RowJobs ==
  ASSUME IInv
  PROVE  /\ job \in Nat
         /\ \A k \in DOMAIN summary : summary[k] \in Row /\ summary[k].job \in Nat /\ summary[k].job <= job
<1>1. \A k \in DOMAIN summary : summary[k] \in Row
  BY DEF IInv, SummaryInv
<1>2. \A k \in DOMAIN summary : summary[k].job \in Nat
  BY <1>1 DEF Row
<1> QED
  BY <1>1, <1>2 DEF IInv, SummaryInv, SummaryOfOneRun

LEMMA LaunchStep ==
  ASSUME IInv, Launch
  PROVE  IInv'
<1>1. /\ script = "launch" /\ script' = "load" /\ job' = job + 1 /\ job' \in 1 .. Jobs
      /\ process' = Append(process, Started("wserver", ServerArgs(job')))
      /\ own' = own \cup {Len(process')} /\ answered' = {} /\ UNCHANGED summary
  <2>1. Jobs \in Int /\ job \in Nat /\ job < Jobs
    BY CampaignAssumption DEF Jobs, Launch, IInv, SummaryInv
  <2> QED
    BY <2>1 DEF Launch
<1>2. ServerArgs(job') \in Seq(Option)
  BY <1>1, ServerArgsType
<1>3. /\ StartupInv' /\ Len(process') = Len(process) + 1 /\ Len(process) \in Nat
      /\ Pids = 1 .. Len(process) /\ Pids' = Pids \cup {Len(process')}
      /\ \A p \in Pids : process'[p] = process[p]
  BY <1>1, <1>2, NewProcess, AppendProcess DEF IInv
<1>4. own \subseteq Pids /\ \A p \in own : process[p] = Ended
  BY <1>1, <1>3 DEF IInv, OwnInv, Alive
<1>5. ServerPid' = Len(process')
  <2>1. own' = own \cup {Len(process')} /\ \A p \in own : p \in Nat /\ p < Len(process')
    BY <1>1, <1>3, <1>4
  <2> QED
    BY <1>3, <2>1 DEF ServerPid, Max
<1>6. OwnInv'
  BY <1>1, <1>3, <1>4, <1>5 DEF IInv, OwnInv
<1>7. SummaryInv' /\ SummaryOfOneRun'
  <2>1. \A k \in DOMAIN summary : summary[k].job < job'
    BY <1>1, RowJobs
  <2>2. SummaryInv'
    BY <1>1, <1>3, <2>1 DEF IInv, SummaryInv
  <2>3. SummaryOfOneRun'
    BY <1>1, <2>1, RowJobs DEF IInv, SummaryOfOneRun
  <2> QED
    BY <2>2, <2>3
<1>8. RowsMeasureOwnServer'
  <2>1. \A k \in DOMAIN summary : Len(process') \notin summary[k].answered
    BY <1>3 DEF IInv, SummaryInv
  <2> QED
    BY <1>1, <2>1 DEF IInv, RowsMeasureOwnServer
<1> QED
  BY <1>3, <1>6, <1>7, <1>8 DEF IInv

LEMMA RequestStep ==
  ASSUME IInv, Request
  PROVE  IInv'
<1>1. /\ script = "load" /\ UNCHANGED <<process, script, job, own, summary>>
      /\ answered' = answered \cup Listening(Port)
  BY DEF Request, here
<1>2. Listening(Port) \subseteq Pids /\ \A p \in Listening(Port) : process[p] # Ended
  BY DEF Listening, Ended, Started
<1>3. OwnInv'
  BY <1>1, <1>2 DEF IInv, OwnInv, ServerPid, Pids, Alive
<1> QED
  BY <1>1, <1>3 DEF IInv, StartupInv, SummaryInv, RowsMeasureOwnServer, SummaryOfOneRun, Pids

LEMMA LoadEndsStep ==
  ASSUME IInv, LoadEnds
  PROVE  IInv'
<1> DEFINE row == [job |-> job, server |-> ServerPid, answered |-> answered]
<1>1. /\ script = "load" /\ script' = "kill" /\ answered' = {}
      /\ summary' = Append(summary, row)
      /\ UNCHANGED <<process, job, own>>
  BY DEF LoadEnds
<1>2. StartupInv' /\ OwnInv'
  BY <1>1 DEF IInv, StartupInv, OwnInv, ServerPid, Pids, Alive
<1>3. SummaryInv' /\ RowsMeasureOwnServer' /\ SummaryOfOneRun'
  <2>1. summary \in Seq(Row) /\ job \in Nat
    BY DEF IInv, SummaryInv
  <2>2. row \in Row
    <3>1. answered \subseteq Nat
      BY DEF IInv, OwnInv, StartupInv, Pids
    <3>2. ServerPid \in Nat
      BY <1>1, ServerPidIsOwn DEF IInv, OwnInv
    <3> QED
      BY <2>1, <3>1, <3>2 DEF Row
  <2>3. /\ summary' \in Seq(Row)
        /\ DOMAIN summary = 1 .. Len(summary) /\ Len(summary) \in Nat
        /\ DOMAIN summary' = 1 .. Len(summary) + 1
        /\ \A k \in DOMAIN summary : summary'[k] = summary[k]
        /\ summary'[Len(summary) + 1] = row
    <3> HIDE DEF row
    <3> QED
      BY <1>1, <2>1, <2>2
  <2>4. row.job = job /\ row.server = ServerPid /\ row.answered = answered
    OBVIOUS
  <2>5. /\ \A k \in DOMAIN summary : summary[k].job < job
        /\ \A k \in DOMAIN summary : summary[k].job \in Nat
        /\ answered \subseteq Pids /\ answered \cap own \subseteq {ServerPid}
    BY <1>1, RowJobs DEF IInv, SummaryInv, OwnInv
  <2> HIDE DEF row
  <2>6. SummaryInv'
    BY <1>1, <2>1, <2>3, <2>4, <2>5 DEF IInv, SummaryInv, Pids
  <2>7. RowsMeasureOwnServer'
    BY <1>1, <2>3, <2>4, <2>5 DEF IInv, RowsMeasureOwnServer
  <2>8. SummaryOfOneRun'
    BY <1>1, <2>1, <2>3, <2>4, <2>5, SMTT(20) DEF IInv, SummaryOfOneRun
  <2> QED
    BY <2>6, <2>7, <2>8
<1> QED
  BY <1>2, <1>3 DEF IInv

(* The other steps of the script and of its user.                           *)
LEMMA ScriptStep ==
  ASSUME IInv, LoadFails \/ Kill \/ Wait \/ Complete \/ Interrupt
  PROVE  IInv'
<1>1. /\ UNCHANGED <<process, job, own, summary>>
      /\ answered' \in {answered, {}}
      /\ script \in {"kill", "wait"} \/ script = "launch" \/ LoadFails \/ Interrupt
      /\ script' \in {"kill", "wait", "launch", "complete", "stopped"}
  BY DEF LoadFails, Kill, Wait, Complete, Interrupt, load
<1>2. script' \in {"kill", "wait"} => own # {}
  BY DEF LoadFails, Kill, Wait, Complete, Interrupt, IInv, OwnInv
<1>3. script' \in {"launch", "complete"} => own \cap Alive = {}
  <2>1. CASE Wait
    <3>1. ServerPid \in own /\ ServerPid \notin Alive
      BY <2>1, ServerPidIsOwn DEF Wait, IInv, OwnInv
    <3> QED
      BY <3>1 DEF IInv, OwnInv, Alive
  <2> QED
    BY <2>1 DEF LoadFails, Kill, Complete, Interrupt, IInv, OwnInv
<1>4. OwnInv'
  BY <1>1, <1>2, <1>3 DEF IInv, OwnInv, ServerPid, Pids, Alive
<1> QED
  BY <1>1, <1>4 DEF IInv, StartupInv, SummaryInv, RowsMeasureOwnServer, SummaryOfOneRun, Pids

LEMMA BeginStep ==
  ASSUME IInv, Begin
  PROVE  IInv'
<1>1. /\ script' = "launch" /\ job' = 0 /\ own' = {} /\ summary' = <<>>
      /\ UNCHANGED <<process, answered>>
  BY DEF Begin
<1> QED
  BY <1>1 DEF IInv, StartupInv, OwnInv, SummaryInv, RowsMeasureOwnServer, SummaryOfOneRun, Pids, Alive

LEMMA IInvStep == IInv /\ [Next]_vars => IInv'
<1> SUFFICES ASSUME IInv, [Next]_vars PROVE IInv'
  OBVIOUS
<1>1. CASE Script \/ Load \/ User
  BY <1>1, LaunchStep, LoadEndsStep, ScriptStep, RequestStep, BeginStep, StartByHandStep
     DEF Script, Load, User
<1>2. ASSUME NEW p \in Pids, ServerStarts(p)
      PROVE  IInv'
  BY <1>2, StartStep, ProcessStep DEF ServerStarts, IInv
<1>3. ASSUME NEW p \in Pids, Dies(p) \/ Crashes(p)
      PROVE  IInv'
  BY <1>3, EndedProcess, ProcessStep DEF Dies, Crashes, Ends
<1>4. CASE UNCHANGED vars
  BY <1>4 DEF vars, here, load, IInv, StartupInv, OwnInv, SummaryInv, RowsMeasureOwnServer,
              SummaryOfOneRun, Pids, Alive, ServerPid
<1> QED
  BY <1>1, <1>2, <1>3, <1>4 DEF Next

(* The strengthened invariant holds of every behaviour. *)
THEOREM IInvHolds == Spec => []IInv
<1>1. Init => IInv
  BY DEF Init, IInv, StartupInv, OwnInv, SummaryInv, RowsMeasureOwnServer, SummaryOfOneRun, Pids
<1> QED
  BY <1>1, IInvStep, PTL DEF Spec

(* wserver.c:108-121: whatever the command line and whatever fails, a       *)
(* worker finds the buffer made for the options, and a server listens only  *)
(* with its whole pool.                                                     *)
THEOREM WorkersFindBufferHolds == Spec => []WorkersFindBuffer
<1>1. ASSUME IInv, NEW p \in Pids
      PROVE  process[p] \in Process /\ ProcessInv(process[p])
  BY <1>1 DEF IInv, StartupInv, Pids
<1>2. ASSUME NEW this \in Process, ProcessInv(this)
      PROVE  /\ this.workers > 0 => this.buffer.cap \in Nat \ {0} /\ this.buffer.sched \in {"fifo", "sff"}
             /\ (this.point = "serving" /\ this.program = "wserver") =>
                  /\ this.workers = this.options.t /\ this.workers > 0
                  /\ this.buffer = [cap |-> this.options.b, sched |-> this.options.s]
  BY <1>2 DEF ProcessInv, Configured, Process
<1>3. IInv => WorkersFindBuffer
  BY <1>1, <1>2 DEF WorkersFindBuffer
<1> QED
  BY <1>3, IInvHolds, PTL

(* run_experiments.sh:145-146: the kill and the wait are enough for no row  *)
(* of the summary to measure the server of another row, with servers that   *)
(* are late, crash or never start, and Ctrl-C at any point.                 *)
THEOREM RowsMeasureOwnServerHolds == Spec => []RowsMeasureOwnServer
<1>1. IInv => RowsMeasureOwnServer
  BY DEF IInv
<1> QED
  BY <1>1, IInvHolds, PTL

(* run_experiments.sh:62: the summary has rows of one run of the script, at *)
(* most one for each job, in their order.                                   *)
THEOREM SummaryOfOneRunHolds == Spec => []SummaryOfOneRun
<1>1. IInv => SummaryOfOneRun
  BY DEF IInv
<1> QED
  BY <1>1, IInvHolds, PTL

(* run_experiments.sh:154-158: when the script says that the campaign is    *)
(* complete, no server that it started is still running.                    *)
THEOREM NoServerLeft == Spec => [](script = "complete" => own \cap Alive = {})
<1>1. IInv => (script = "complete" => own \cap Alive = {})
  BY DEF IInv, OwnInv
<1> QED
  BY <1>1, IInvHolds, PTL
=============================================================================
