----------------------- MODULE SequentialServerProofs -----------------------
(***************************************************************************)
(* The sequential server has one connection and one child at a time, and   *)
(* stays up, for every set of clients and files.                           *)
(***************************************************************************)
EXTENDS SequentialServer, WebProofs

(* The thread has a connection except at accept, it is the only one open,   *)
(* the request being served is that connection's, and a child exists        *)
(* exactly while the thread is in wait.                                     *)
Serving == {"map", "head", "body", "cgi", "fork"}

IInv ==
  /\ child \in [Conn -> {"none", "running", "written", "exited"}]
  /\ conn_fd \in Conn \cup {NoConn}
  /\ open = IF up THEN {conn_fd} \ {NoConn} ELSE {}
  /\ main = "accept" <=> conn_fd = NoConn
  /\ main \in Serving => req.conn_fd = conn_fd
  /\ \A c \in Conn : child[c] # "none" <=> main = "wait" /\ c = conn_fd

(* What a server's step and an environment's step leave of IInv alone.      *)
serverside == <<child, conn_fd, up, open, main, req>>

LEMMA InitIInv ==
  Init => IInv
BY DEF Init, WebInit, IInv, Serving

(* Clients and other programs change nothing of it, and a CGI child that    *)
(* writes or exits is still one.                                            *)
LEMMA EnvironmentIInv ==
  ASSUME IInv, Environment, UNCHANGED <<main, conn_fd, req>>
  PROVE  IInv'
<1>1. CASE UNCHANGED serverside
  BY <1>1 DEF serverside, IInv
<1>2. ASSUME NEW c \in Conn, ChildWrite(c) \/ ChildExit(c)
      PROVE  IInv'
  BY <1>2 DEF ChildWrite, ChildExit, process, IInv
<1>3. ASSUME NEW c \in Conn, Connect(c) \/ Send(c) \/ Leave(c)
      PROVE  UNCHANGED serverside
  BY <1>3 DEF Connect, Send, Leave, serverside, process, scripts
<1>4. ASSUME NEW f \in File, Truncate(f) \/ Unlink(f)
      PROVE  UNCHANGED serverside
  BY <1>4 DEF Truncate, Unlink, serverside, process, scripts
<1> QED
  BY <1>1, <1>2, <1>3, <1>4 DEF Environment

(* A step for the connection goes on, or ends the process, which closes it. *)
Goes == \/ UNCHANGED <<up, open, child>>
        \/ up' = FALSE /\ open' = {} /\ UNCHANGED child

LEMMA WriteGoes ==
  ASSUME NEW c, \/ EndProcess(c)
                \/ Die(c)
                \/ \E answer : Write(c, answer)
                \/ \E status : RequestError(c, status)
                \/ \E n : SendBody(c, n)
  PROVE  Goes
BY DEF RequestError, SendBody, Write, Die, EndProcess, Goes, process, scripts

LEMMA AcceptIInv ==
  ASSUME IInv, Accept
  PROVE  IInv'
<1>1. CASE \E c \in Conn : AcceptConn(c) /\ conn_fd' = c
  <2>1. PICK c \in Conn : AcceptConn(c) /\ conn_fd' = c
    BY <1>1
  <2>2. /\ up /\ up' /\ main = "accept" /\ main' = "line"
        /\ open' = open \cup {c}
        /\ child' = child
    BY <2>1 DEF Accept, From, AcceptConn, process, scripts
  <2> QED
    BY <2>1, <2>2, WebAssumption DEF IInv, Serving
<1>2. CASE AcceptFails /\ UNCHANGED conn_fd
  <2>1. up' = FALSE /\ open' = {} /\ UNCHANGED child
    BY <1>2 DEF AcceptFails, Die, EndProcess, scripts
  <2>2. main = "accept" /\ main' = "accept"
    BY <2>1 DEF Accept, From
  <2> QED
    BY <1>2, <2>1, <2>2 DEF IInv, Serving
<1> QED
  BY <1>1, <1>2 DEF Accept

(* The steps between accept and close which neither fork nor wait.          *)
LEMMA Elsewhere ==
  ASSUME IInv, Goes, UNCHANGED conn_fd,
         main \notin {"accept", "wait"}, main' \notin {"accept", "wait"},
         main' \in Serving => req'.conn_fd = conn_fd
  PROVE  IInv'
BY DEF IInv, Goes

(* A refusal, for a lack of the method, the file or its permission.         *)
LEMMA RefuseIInv ==
  ASSUME IInv, NEW here, NEW status, Refuse(here, status), UNCHANGED <<conn_fd, req>>,
         here \notin {"accept", "wait"}
  PROVE  IInv'
<1>1. Goes
  BY WriteGoes DEF Refuse
<1>2. main = here /\ main' \in {here, "close"}
  BY DEF Refuse, From
<1> QED
  BY <1>1, <1>2, Elsewhere DEF IInv, Serving

LEMMA ReadIInv ==
  ASSUME IInv, ReadLine \/ ReadHeaders
  PROVE  IInv'
<1>1. CASE Refuse("line", "501") /\ UNCHANGED <<conn_fd, req>>
  BY <1>1, RefuseIInv
<1>2. CASE /\ UNCHANGED web \/ ReadFails(conn_fd)
           /\ UNCHANGED <<conn_fd, req>>
           /\ From("line", "headers") \/ From("headers", "stat")
  <2>1. Goes
    BY <1>2, WriteGoes DEF web, process, scripts, ReadFails, Goes
  <2>2. main \in {"line", "headers"} /\ main' \in {"line", "headers", "stat"}
    BY <1>2 DEF From
  <2> QED
    BY <1>2, <2>1, <2>2, Elsewhere DEF Serving
<1> QED
  BY <1>1, <1>2 DEF ReadLine, ReadHeaders

LEMMA StatIInv ==
  ASSUME IInv, Stat
  PROVE  IInv'
<1>1. PICK uri \in UriRead(conn_fd) :
        \/ Refuse("stat", "404") /\ UNCHANGED req
        \/ Refuse("stat", "403") /\ UNCHANGED req
        \/ Found(uri)
  BY DEF Stat
<1>2. UNCHANGED conn_fd
  BY DEF Stat
<1>3. ASSUME Found(uri) PROVE IInv'
  <2>1. Goes
    BY <1>3 DEF Found, web, process, scripts, Goes
  <2>2. main = "stat" /\ main' \in {"stat", "map", "cgi"}
    BY <1>3 DEF Found, From
  <2>3. req'.conn_fd = conn_fd
    BY <1>3 DEF Found, RequestFor
  <2> QED
    BY <1>2, <2>1, <2>2, <2>3, Elsewhere
<1> QED
  BY <1>1, <1>2, <1>3, RefuseIInv

LEMMA ServeStaticIInv ==
  ASSUME IInv, ServeStatic, UNCHANGED <<conn_fd, req>>
  PROVE  IInv'
<1>1. MapFile(req) => Goes
  BY WriteGoes DEF MapFile, process, scripts, Goes
<1>2. WriteHead(req) \/ WriteBody(req) => Goes
  BY WriteGoes DEF WriteHead, WriteBody
<1>3. main \in {"map", "head", "body"} /\ main' \in {"map", "head", "body", "close"}
  BY DEF ServeStatic, From
<1> QED
  BY <1>1, <1>2, <1>3, Elsewhere DEF ServeStatic, IInv, Serving

LEMMA ServeDynamicIInv ==
  ASSUME IInv, ServeDynamic, UNCHANGED <<conn_fd, req>>
  PROVE  IInv'
<1>1. CASE main = "cgi" /\ WriteCgiHead(req) /\ From("cgi", "fork")
  <2>1. Goes
    BY <1>1, WriteGoes DEF WriteCgiHead
  <2> QED
    BY <1>1, <2>1, Elsewhere DEF From, IInv, Serving
<1>2. CASE main = "fork" /\ Fork(req) /\ From("fork", "wait")
  <2>1. conn_fd \in Conn
    BY <1>2 DEF IInv
  <2>2. main' = "wait" /\ UNCHANGED <<up, open>>
    BY <1>2 DEF From, Fork, process
  <2>3. child' = [child EXCEPT ![conn_fd] = "running"]
    BY <1>2 DEF Fork, IInv, Serving
  <2> QED
    BY <1>2, <2>1, <2>2, <2>3 DEF IInv, Serving
(* The parent's child exists, so that wait does not fail; it is the only    *)
(* one, so that wait returns that child.                                    *)
<1>3. CASE main = "wait" /\ Wait(conn_fd) /\ From("wait", "close")
  <2>1. conn_fd \in Conn /\ child[conn_fd] # "none"
    BY <1>3 DEF IInv
  <2>2. PICK c \in Conn : /\ child[c] = "exited"
                          /\ child' = [child EXCEPT ![c] = "none"]
    BY <1>3, <2>1 DEF Wait
  <2>3. c = conn_fd
    BY <2>2 DEF IInv
  <2>4. main' = "close" /\ UNCHANGED <<up, open>>
    BY <1>3, <2>1 DEF Wait, From, process
  <2> QED
    BY <1>3, <2>1, <2>2, <2>3, <2>4 DEF IInv, Serving
<1> QED
  BY <1>1, <1>2, <1>3 DEF ServeDynamic

LEMMA CloseIInv ==
  ASSUME IInv, Close
  PROVE  IInv'
<1>1. /\ up' = up /\ main = "close" /\ main' = "accept"
      /\ open' = open \ {conn_fd} /\ conn_fd' = NoConn
      /\ child' = child
  BY DEF Close, From, CloseConn, process, scripts
<1> QED
  BY <1>1, WebAssumption DEF IInv, Serving

(* The strengthened invariant holds of every behaviour. *)
THEOREM IInvHolds == Spec => []IInv
<1>1. ASSUME IInv, [Next]_vars
      PROVE  IInv'
  <2>1. CASE Environment /\ UNCHANGED <<main, conn_fd, req>>
    BY <1>1, <2>1, EnvironmentIInv
  <2>2. CASE Accept
    BY <1>1, <2>2, AcceptIInv
  <2>3. CASE ReadLine \/ ReadHeaders \/ Stat
    BY <1>1, <2>3, ReadIInv, StatIInv
  <2>4. CASE Serve
    BY <1>1, <2>4, ServeStaticIInv, ServeDynamicIInv DEF Serve
  <2>5. CASE Close
    BY <1>1, <2>5, CloseIInv
  <2>6. CASE UNCHANGED vars
    BY <1>1, <2>6 DEF vars, web, process, scripts, IInv
  <2> QED
    BY <1>1, <2>1, <2>2, <2>3, <2>4, <2>5, <2>6 DEF Next, Server
<1> QED
  BY InitIInv, <1>1, PTL DEF Spec

(* While it serves a client the server serves no other: one connection is   *)
(* open at a time, and a script runs only for the client being served.      *)
THEOREM OneAtATimeHolds == Spec => []OneAtATime
<1>1. IInv => OneAtATime
  BY DEF IInv, OneAtATime
<1> QED
  BY IInvHolds, <1>1, PTL
-----------------------------------------------------------------------------
(* The request that is being served, from the accept to the close.          *)

RunInv ==
  /\ WebInv /\ PerConn /\ TypesInv /\ StaysUp
  /\ up => /\ main = "headers" => \/ wants[conn_fd] # NotGet
                                  \/ sent[conn_fd] = "none" /\ conn_fd \in gone
           /\ main = "stat" => wants[conn_fd] # NotGet
           /\ \A c \in Waiting : Fresh(c)
           /\ main \in {"line", "headers", "stat"} => Fresh(conn_fd)
           /\ main \in Serving \cup {"wait"} => req.conn_fd = conn_fd /\ ServeInv(req, main)

LEMMA InitRunInv == Init => RunInv
<1> SUFFICES ASSUME Init PROVE RunInv
  OBVIOUS
<1>1. WebInv /\ PerConn /\ TypesInv
  BY InitWebInv, InitTypes DEF Init
<1> QED
  BY <1>1 DEF Init, WebInit, RunInv, StaysUp, Waiting, Serving

LEMMA EnvironmentRun ==
  ASSUME IInv, RunInv, Environment, UNCHANGED <<main, conn_fd, req>>
  PROVE  RunInv'
<1>1. /\ WebInv /\ PerConn /\ TypesInv /\ UNCHANGED up
      /\ WebInv' /\ PerConn' /\ TypesInv' /\ StaysUp'
  BY EnvironmentProcess, EnvironmentWeb, PerConnStep, EnvironmentTypes, EnvironmentStaysUp DEF RunInv
<1>2. up /\ main # "accept" => conn_fd \in open
  BY WebAssumption DEF IInv
<1>3. up => /\ main = "headers" => \/ wants'[conn_fd] # NotGet
                                   \/ sent'[conn_fd] = "none" /\ conn_fd \in gone'
            /\ main = "stat" => wants'[conn_fd] # NotGet
  BY <1>1, <1>2, OpenKeepsClient DEF RunInv
<1>4. ASSUME up
      PROVE  /\ (\A c \in Waiting : Fresh(c))'
             /\ main \in {"line", "headers", "stat"} => Fresh(conn_fd)'
  BY <1>1, <1>2, <1>4, FreshEnvironment DEF RunInv
<1>5. ASSUME up, main \in Serving \cup {"wait"}
      PROVE  ServeInv(req, main)'
  <2>1. ServeInv(req, main) /\ req.conn_fd \in open
    BY <1>2, <1>5 DEF RunInv, Serving
  <2> QED
    BY <1>1, <2>1, ServeEnvironment
<1> QED
  BY <1>1, <1>3, <1>4, <1>5 DEF RunInv

(* When the process ends all that remains is the reason.                    *)
LEMMA EndsRun ==
  ASSUME RunInv, NEW c \in Conn, ServerStep(c), Ends(c)
  PROVE  RunInv'
<1>1. up' = FALSE /\ WebInv' /\ StaysUp'
  BY EndStep, EndWeb, EndsForReason DEF Ends, RunInv
<1>2. PerConn' /\ TypesInv'
  BY PerConnStep, ServerTypes DEF RunInv
<1> QED
  BY <1>1, <1>2 DEF RunInv

(* The steps of the server are steps of request.c for its connection.       *)
LEMMA ReadStep ==
  ASSUME IInv, RunInv, ReadLine \/ ReadHeaders
  PROVE  /\ up /\ main \in {"line", "headers"} /\ conn_fd \in Conn
         /\ UNCHANGED <<conn_fd, req>>
         /\ \/ conn_fd \in gone /\ Die(conn_fd)
            \/ /\ main = "line" /\ RequestError(conn_fd, "501")
               /\ main' = IF up' THEN "close" ELSE main
               /\ \/ wants[conn_fd] = NotGet
                  \/ sent[conn_fd] = "none" /\ conn_fd \in gone
            \/ /\ UNCHANGED web /\ main' \in {"headers", "stat"}
               /\ main' = "headers" => \/ wants[conn_fd] # NotGet
                                       \/ sent[conn_fd] = "none" /\ conn_fd \in gone
               /\ main' = "stat" => wants[conn_fd] # NotGet
<1>1. UNCHANGED web => up' = up
  BY DEF web, process
<1>2. up /\ conn_fd \in Conn /\ UNCHANGED <<conn_fd, req>>
  BY DEF IInv, ReadLine, ReadHeaders, Refuse, From
<1>3. CASE ReadFails(conn_fd)
  BY <1>2, <1>3 DEF ReadFails, ReadLine, ReadHeaders
<1>4. CASE LineRead(conn_fd) /\ FALSE \in MethodIsGet(conn_fd) /\ Refuse("line", "501")
  BY <1>2, <1>4 DEF LineRead, MethodIsGet, Refuse, From
<1>5. CASE /\ LineRead(conn_fd) /\ TRUE \in MethodIsGet(conn_fd)
           /\ UNCHANGED web /\ From("line", "headers")
  BY <1>1, <1>2, <1>5 DEF LineRead, MethodIsGet, From
<1>6. CASE HeadersRead(conn_fd) /\ UNCHANGED web /\ From("headers", "stat")
  BY <1>1, <1>2, <1>6 DEF HeadersRead, From, RunInv
<1> QED
  BY <1>3, <1>4, <1>5, <1>6 DEF ReadLine, ReadHeaders

LEMMA StatStep ==
  ASSUME IInv, RunInv, Stat
  PROVE  /\ up /\ main = "stat" /\ conn_fd \in Conn /\ UNCHANGED conn_fd
         /\ \/ /\ \E uri \in UriRead(conn_fd) :
                    \/ RequestError(conn_fd, "404") /\ StatOf(uri) = Absent
                    \/ /\ RequestError(conn_fd, "403")
                       /\ StatOf(uri) # Absent /\ ~ Permitted(uri)
               /\ main' = (IF up' THEN "close" ELSE main) /\ UNCHANGED req
            \/ /\ UNCHANGED web
               /\ RequestInv(req') /\ req'.conn_fd = conn_fd
               /\ main' = IF req'.is_static THEN "map" ELSE "cgi"
<1>1. main = "stat" /\ conn_fd \in Conn /\ wants[conn_fd] # NotGet /\ WebInv /\ UNCHANGED conn_fd
  BY DEF IInv, RunInv, Stat, Found, Refuse, From
<1>2. PICK uri \in UriRead(conn_fd) :
        \/ StatOf(uri) = Absent /\ Refuse("stat", "404") /\ UNCHANGED req
        \/ /\ StatOf(uri) # Absent
           /\ IF Permitted(uri) THEN Found(uri) ELSE Refuse("stat", "403") /\ UNCHANGED req
  BY DEF Stat
<1>3. CASE /\ UNCHANGED req
           /\ \/ StatOf(uri) = Absent /\ Refuse("stat", "404")
              \/ StatOf(uri) # Absent /\ ~ Permitted(uri) /\ Refuse("stat", "403")
  BY <1>1, <1>3 DEF Refuse, From
<1>4. CASE StatOf(uri) # Absent /\ Permitted(uri) /\ Found(uri)
  <2> DEFINE r == RequestFor(conn_fd, uri, StatOf(uri).size)
  <2>1. RequestInv(r)
    BY <1>1, <1>4, OfferedRequest
  <2>2. r.conn_fd = conn_fd
    BY DEF RequestFor
  <2>3. req' = r /\ UNCHANGED web /\ From("stat", IF req'.is_static THEN "map" ELSE "cgi")
    BY <1>4 DEF Found
  <2> HIDE DEF r
  <2>4. up' = up
    BY <2>3 DEF web, process
  <2> QED
    BY <1>1, <2>1, <2>2, <2>3, <2>4 DEF From
<1> QED
  BY <1>2, <1>3, <1>4

LEMMA ServeStep ==
  ASSUME IInv, RunInv, Serve
  PROVE  /\ up /\ main \in Serving \cup {"wait"} /\ conn_fd \in Conn
         /\ ServerStep(conn_fd) /\ UNCHANGED <<conn_fd, req>>
         /\ \/ /\ GoesOn
               /\ \E point \in {"head", "body", "fork", "wait", "close"} :
                    main' = point /\ ServeInv(req, point)'
            \/ Ends(conn_fd)
<1>0. PICK r : r = req
  OBVIOUS
<1>1. /\ up /\ main \in Serving \cup {"wait"} /\ UNCHANGED <<conn_fd, req>>
  BY DEF Serve, ServeStatic, ServeDynamic, From, Serving
<1>2. /\ r.conn_fd = conn_fd /\ conn_fd \in Conn /\ r = req'
      /\ ServeInv(r, main) /\ RequestInv(r) /\ WebInv /\ PerConn /\ TypesInv
      /\ main \in {"cgi", "fork"} => ~ r.is_static
  BY <1>0, <1>1 DEF RunInv, IInv, ServeInv, Serving
<1>3. CASE MapFile(r) /\ From("map", "head")
  <2>1. ServerStep(conn_fd)
    BY <1>2, <1>3 DEF ServerStep
  <2>2. \/ GoesOn /\ ServeInv(r, "head")'
        \/ Ends(r.conn_fd)
    BY <1>2, <1>3, MapStep DEF From
  <2> QED
    BY <1>0, <1>1, <1>2, <1>3, <2>1, <2>2 DEF From, GoesOn
<1>4. CASE WriteHead(r) /\ From("head", "body")
  <2>1. ServerStep(conn_fd)
    BY <1>2, <1>4 DEF ServerStep
  <2>2. \/ GoesOn /\ ServeInv(r, "body")'
        \/ Ends(r.conn_fd)
    BY <1>2, <1>4, HeadStep DEF From
  <2> QED
    BY <1>0, <1>1, <1>2, <1>4, <2>1, <2>2 DEF From, GoesOn
<1>5. CASE WriteBody(r) /\ From("body", "close")
  <2>1. ServerStep(conn_fd)
    BY <1>2, <1>5 DEF ServerStep
  <2>2. \/ GoesOn /\ ServeInv(r, "close")'
        \/ Ends(r.conn_fd)
    BY <1>2, <1>5, BodyStep DEF From
  <2> QED
    BY <1>0, <1>1, <1>2, <1>5, <2>1, <2>2 DEF From, GoesOn
<1>6. CASE WriteCgiHead(r) /\ From("cgi", "fork")
  <2>1. ServerStep(conn_fd)
    BY <1>2, <1>6 DEF ServerStep
  <2>2. \/ GoesOn /\ ServeInv(r, "fork")'
        \/ Ends(r.conn_fd)
    BY <1>2, <1>6, CgiHeadStep DEF From
  <2> QED
    BY <1>0, <1>1, <1>2, <1>6, <2>1, <2>2 DEF From, GoesOn
<1>7. CASE Fork(r) /\ From("fork", "wait")
  <2>1. ServerStep(conn_fd)
    BY <1>2, <1>7 DEF ServerStep, From
  <2>2. \/ GoesOn /\ ServeInv(r, "wait")'
        \/ Ends(r.conn_fd)
    BY <1>2, <1>7, ForkStep DEF From
  <2> QED
    BY <1>0, <1>1, <1>2, <1>7, <2>1, <2>2 DEF From, GoesOn
<1>8. CASE Wait(r.conn_fd) /\ From("wait", "close")
  <2>1. ServerStep(conn_fd)
    BY <1>2, <1>8 DEF ServerStep
  <2>2. child[conn_fd] # "none"
    BY <1>2, <1>8 DEF IInv, From
  <2>3. GoesOn /\ ServeInv(r, "close")'
    BY <1>2, <1>8, <2>2, WaitStep DEF From
  <2> QED
    BY <1>0, <1>1, <1>2, <1>8, <2>1, <2>3 DEF From, GoesOn
<1> QED
  BY <1>0, <1>2, <1>3, <1>4, <1>5, <1>6, <1>7, <1>8 DEF Serve, ServeStatic, ServeDynamic

LEMMA WaitingApart ==
  ASSUME IInv, RunInv
  PROVE  /\ Waiting \subseteq Conn /\ \A c \in Waiting : c \notin open
         /\ up /\ conn_fd \in Conn => conn_fd \in open
BY WebAssumption DEF Waiting, RunInv, WebInv, IInv

(* A step for the server's connection is not one for those that wait.       *)
LEMMA StillFresh ==
  ASSUME IInv, RunInv, up, conn_fd \in Conn, Only(conn_fd), UNCHANGED backlog
  PROVE  (\A c \in Waiting : Fresh(c))'
<1>1. Waiting' = Waiting /\ conn_fd \notin Waiting /\ Waiting \subseteq Conn
  BY WaitingApart DEF Waiting
<1> QED
  BY <1>1 DEF RunInv, Fresh, Only

(* A refusal. *)
LEMMA RefuseRun ==
  ASSUME IInv, RunInv, up, conn_fd \in Conn, UNCHANGED <<conn_fd, req>>,
         NEW status \in {"501", "404", "403"}, RequestError(conn_fd, status),
         main' = IF up' THEN "close" ELSE main
  PROVE  RunInv'
<1>1. PICK c : c = conn_fd
  OBVIOUS
<1>2. ServerStep(c) /\ WebInv /\ PerConn /\ TypesInv
  BY <1>1 DEF ServerStep, RunInv
<1>3. PerConn' /\ TypesInv' /\ Only(c)
  BY <1>1, <1>2, PerConnStep, ServerTypes, ServerStepOnly
<1>4. UNCHANGED <<files, wants, sent, gone>> /\ (GoesOn \/ Ends(c))
  BY <1>1, <1>2, WriteStep DEF RequestError
<1>5. CASE GoesOn
  <2>1. WebInv' /\ StaysUp'
    BY <1>2, <1>4, <1>5 DEF WebInv, FilesInv, GoesOn, StaysUp
  <2>2. (\A d \in Waiting : Fresh(d))'
    BY <1>1, <1>3, <1>5, StillFresh DEF GoesOn
  <2> QED
    BY <1>1, <1>3, <1>5, <2>1, <2>2 DEF RunInv, Serving, GoesOn
<1>6. CASE Ends(c)
  BY <1>1, <1>2, <1>6, EndsRun
<1> QED
  BY <1>4, <1>5, <1>6

LEMMA AcceptRun ==
  ASSUME IInv, RunInv, Accept, NEW c \in Conn, AcceptConn(c), conn_fd' = c
  PROVE  RunInv'
<1>1. AcceptConn(c) /\ conn_fd' = c
  OBVIOUS
<1>2. /\ up /\ up' /\ main' = "line" /\ UNCHANGED <<files, wants, sent, gone, reply, child>>
      /\ backlog # <<>> /\ c = Head(backlog) /\ backlog' = Tail(backlog)
      /\ open' = open \cup {c}
  BY <1>1 DEF Accept, From, AcceptConn, client, process, scripts
<1>3. /\ backlog \in Seq(Conn) /\ c = backlog[1] /\ 1 \in DOMAIN backlog
      /\ backlog' \in Seq(Conn)
      /\ \A k \in DOMAIN backlog' : k + 1 \in DOMAIN backlog /\ backlog'[k] = backlog[k + 1]
      /\ \A k \in DOMAIN backlog' : k \in Nat /\ k + 1 # 1
  BY <1>2 DEF RunInv, WebInv
<1>4. WebInv'
  <2>1. \A j, k \in DOMAIN backlog' : backlog'[j] = backlog'[k] => j = k
    BY <1>3 DEF RunInv, WebInv
  <2>2. \A k \in DOMAIN backlog' : backlog'[k] \notin open'
    BY <1>2, <1>3 DEF RunInv, WebInv
  <2> QED
    BY <1>2, <1>3, <2>1, <2>2 DEF RunInv, WebInv, FilesInv
<1>5. PerConn' /\ TypesInv'
  BY <1>1, PerConnStep, ServerTypes DEF RunInv, ServerStep
<1>6. (\A d \in Waiting : Fresh(d))' /\ Fresh(c)'
  <2>1. c \in Waiting /\ Waiting' \subseteq Waiting
    BY <1>3 DEF Waiting
  <2> QED
    BY <1>2, <2>1 DEF RunInv, Fresh
<1>7. StaysUp'
  BY <1>2 DEF StaysUp
<1> QED
  BY <1>1, <1>2, <1>4, <1>5, <1>6, <1>7 DEF RunInv, Serving

(* accept fails for a client that is gone. *)
LEMMA AcceptFailsRun ==
  ASSUME RunInv, AcceptFails
  PROVE  RunInv'
<1>1. PICK c : c = Head(backlog)
  OBVIOUS
<1>2. c \in Conn /\ c \in gone /\ Die(c)
  BY <1>1 DEF AcceptFails, RunInv, WebInv
<1>3. Ends(c) /\ ServerStep(c)
  BY <1>2 DEF Ends, MayEnd, Die, ServerStep
<1> QED
  BY <1>2, <1>3, EndsRun

(* A step that changes nothing outside the thread.                          *)
LEMMA InsideRun ==
  ASSUME RunInv, UNCHANGED web
  PROVE  /\ WebInv' /\ PerConn' /\ TypesInv' /\ StaysUp'
         /\ up => (\A c \in Waiting : Fresh(c))'
<1>1. /\ UNCHANGED <<up, fatal, cut, files, wants, sent, gone, backlog, open, reply, data>>
      /\ UNCHANGED <<child, image, inherited>>
  BY DEF web, process, client, scripts
<1>2. ASSUME NEW c \in Conn
      PROVE  ImageInv(c)'
  BY <1>1, ImageStable DEF RunInv, TypesInv, ImageInv, Touched
<1>3. PerConn' /\ TypesInv' /\ WebInv'
  BY <1>1, <1>2 DEF RunInv, PerConn, TypesInv, WebInv, FilesInv
<1>4. StaysUp'
  <2>1. PICK c : c = fatal
    OBVIOUS
  <2>2. ~ up => MayEnd(c)
    BY <2>1 DEF RunInv, StaysUp, MayEnd
  <2>3. ~ up => MayEnd(c)'
    BY <1>1, <2>2, MayEndSame
  <2> QED
    BY <1>1, <2>1, <2>3 DEF StaysUp, MayEnd
<1> QED
  BY <1>1, <1>3, <1>4 DEF RunInv, Waiting, Fresh

LEMMA ReadRun ==
  ASSUME IInv, RunInv, ReadLine \/ ReadHeaders
  PROVE  RunInv'
<1>0. PICK c : c = conn_fd
  OBVIOUS
<1>1. CASE RequestError(conn_fd, "501") /\ main' = IF up' THEN "close" ELSE main
  BY <1>1, ReadStep, RefuseRun
<1>2. CASE UNCHANGED web /\ main' \in {"headers", "stat"}
  <2>1. UNCHANGED <<up, wants, sent, gone, reply, child, conn_fd>>
    BY <1>2, ReadStep DEF web, process, client, scripts
  <2>2. Fresh(conn_fd)'
    BY <2>1, ReadStep DEF RunInv, Fresh
  <2>3. /\ main' = "headers" => \/ wants[conn_fd] # NotGet
                                \/ sent[conn_fd] = "none" /\ conn_fd \in gone
        /\ main' = "stat" => wants[conn_fd] # NotGet
    <3>1. ~ Die(conn_fd)
      BY <1>2, <2>1, ReadStep DEF Die, EndProcess
    <3> QED
      BY <1>2, <2>1, <3>1, ReadStep
  <2> QED
    BY <1>2, <2>1, <2>2, <2>3, InsideRun DEF RunInv, Serving
<1>3. CASE conn_fd \in gone /\ Die(conn_fd)
  <2>1. c \in Conn /\ Ends(c) /\ ServerStep(c)
    BY <1>0, <1>3, ReadStep DEF Ends, MayEnd, Die, ServerStep
  <2> QED
    BY <2>1, EndsRun
<1> QED
  BY <1>1, <1>2, <1>3, ReadStep

LEMMA StatRun ==
  ASSUME IInv, RunInv, Stat
  PROVE  RunInv'
<1>1. CASE /\ \E status \in {"404", "403"} : RequestError(conn_fd, status)
           /\ main' = (IF up' THEN "close" ELSE main) /\ UNCHANGED req
  BY <1>1, StatStep, RefuseRun
<1>2. CASE /\ UNCHANGED web /\ RequestInv(req') /\ req'.conn_fd = conn_fd
           /\ main' = IF req'.is_static THEN "map" ELSE "cgi"
  <2>1. PICK r : r = req'
    OBVIOUS
  <2>2. PICK point : point = main'
    OBVIOUS
  <2>3. UNCHANGED <<up, files, wants, reply, data, child, conn_fd>> /\ Fresh(conn_fd)
    BY <1>2, StatStep DEF web, process, client, scripts, RunInv
  <2>4. ServeInv(r, point)
    BY <1>2, <2>1, <2>2, <2>3 DEF ServeInv, Fresh
  <2>5. ServeInv(r, point)'
    BY <2>3, <2>4, ServeSame
  <2>6. ServeInv(req, main)'
    BY <2>1, <2>2, <2>5
  <2>7. main' \in {"map", "cgi"}
    BY <1>2
  <2> QED
    BY <1>2, <2>3, <2>6, <2>7, InsideRun DEF RunInv, Serving
<1> QED
  BY <1>1, <1>2, StatStep

LEMMA ServeRun ==
  ASSUME IInv, RunInv, Serve
  PROVE  RunInv'
<1>1. PICK c : c = conn_fd
  OBVIOUS
<1>2. /\ up /\ main \in Serving \cup {"wait"} /\ c \in Conn
      /\ ServerStep(c) /\ UNCHANGED <<conn_fd, req>>
  BY <1>1, ServeStep
<1>3. PerConn' /\ TypesInv' /\ Only(c)
  BY <1>2, PerConnStep, ServerTypes, ServerStepOnly DEF RunInv
<1>4. CASE /\ GoesOn
           /\ \E point \in {"head", "body", "fork", "wait", "close"} :
                main' = point /\ ServeInv(req, point)'
  <2>1. main' \in {"head", "body", "fork", "wait", "close"} /\ ServeInv(req, main)'
    BY <1>4
  <2>2. req'.conn_fd = conn_fd'
    BY <1>2 DEF RunInv
  <2>3. WebInv' /\ StaysUp' /\ up'
    BY <1>2, <1>3, <1>4 DEF Only, RunInv, WebInv, FilesInv, GoesOn, StaysUp
  <2>4. (\A d \in Waiting : Fresh(d))'
    BY <1>1, <1>2, <1>3, <1>4, StillFresh DEF GoesOn
  <2> QED
    BY <1>3, <2>1, <2>2, <2>3, <2>4 DEF RunInv
<1>5. CASE Ends(conn_fd)
  BY <1>1, <1>2, <1>5, EndsRun
<1> QED
  BY <1>4, <1>5, ServeStep

LEMMA CloseRun ==
  ASSUME IInv, RunInv, Close
  PROVE  RunInv'
<1>1. PICK c : c = conn_fd
  OBVIOUS
<1>2. /\ c \in Conn /\ ServerStep(c)
  BY <1>1 DEF Close, IInv, ServerStep
<1>3. /\ up /\ up' /\ main' = "accept" /\ open' = open \ {c}
      /\ UNCHANGED <<files, wants, sent, gone, backlog, reply, child>>
  BY <1>1 DEF Close, CloseConn, From, process, client, scripts
<1>4. PerConn' /\ TypesInv'
  BY <1>2, PerConnStep, ServerTypes DEF RunInv
<1>5. WebInv'
  BY <1>3 DEF RunInv, WebInv, FilesInv
<1>6. (\A d \in Waiting : Fresh(d))'
  BY <1>3 DEF RunInv, Waiting, Fresh
<1>7. StaysUp'
  BY <1>3 DEF StaysUp
<1> QED
  BY <1>3, <1>4, <1>5, <1>6, <1>7 DEF RunInv, Serving

THEOREM RunInvHolds == Spec => []RunInv
<1>1. ASSUME IInv, RunInv, [Next]_vars
      PROVE  RunInv'
  <2>1. CASE UNCHANGED vars
    <3>1. UNCHANGED web /\ UNCHANGED <<up, wants, sent, gone, reply, child, main, conn_fd, req>>
          /\ UNCHANGED <<files, data>>
      BY <2>1 DEF vars, web, process, client, scripts
    <3>2. up /\ main \in Serving \cup {"wait"} => ServeInv(req, main)'
      BY <1>1, <3>1, ServeSame DEF RunInv
    <3> QED
      BY <1>1, <3>1, <3>2, InsideRun DEF RunInv, Fresh
  <2>2. CASE Accept
    BY <1>1, <2>2, AcceptRun, AcceptFailsRun DEF Accept
  <2> QED
    BY <1>1, <2>1, <2>2, EnvironmentRun, ReadRun, StatRun, ServeRun, CloseRun
       DEF Next, Server
<1> QED
  BY InitRunInv, IInvHolds, <1>1, PTL DEF Spec

(* The server ends only at a step for a connection whose client closed      *)
(* early, or asks for a static file that changed, that the server's user    *)
(* may not read, that is empty, or whose size does not fit an int: the wait *)
(* for the child never fails.                                               *)
THEOREM StaysUpHolds == Spec => []StaysUp
<1>1. RunInv => StaysUp
  BY DEF RunInv
<1> QED
  BY RunInvHolds, <1>1, PTL

-----------------------------------------------------------------------------
(* While no client leaves and no file changes, the server implements the    *)
(* service of one whole answer per request.                                 *)

(* A connection that is about to be closed has its answer, or a script that *)
(* is going to write it.                                                    *)
ServedInv ==
  /\ CalmInv
  /\ main \in {"wait", "close"} => Whole(conn_fd)

LEMMA EnvironmentServed ==
  ASSUME Calm, IInv, RunInv, ServedInv, Environment, UNCHANGED <<main, conn_fd, req>>
  PROVE  ServedInv' /\ Service!Next
<1>1. PICK c : c = conn_fd
  OBVIOUS
<1>2. /\ CalmInv' /\ Service!Next
      /\ \A d \in open : Whole(d) => Whole(d)'
  BY EnvironmentCalm DEF RunInv, ServedInv
<1>3. main # "accept" => c \in open
  BY <1>1, WebAssumption DEF IInv, ServedInv, CalmInv
<1> QED
  BY <1>1, <1>2, <1>3 DEF ServedInv

LEMMA AcceptServed ==
  ASSUME IInv, RunInv, ServedInv, Accept
  PROVE  ServedInv' /\ Service!Next
<1>1. PICK c \in Conn : AcceptConn(c)
  BY DEF Accept, AcceptFails, ServedInv, CalmInv
<1>2. CalmInv' /\ Service!Next /\ main' \in {"accept", "line"}
  BY <1>1, AcceptCalm DEF RunInv, ServedInv, Accept, From
<1> QED
  BY <1>2 DEF ServedInv

LEMMA RefuseServed ==
  ASSUME IInv, RunInv, ServedInv, conn_fd \in Conn, Fresh(conn_fd), UNCHANGED conn_fd,
         NEW status, Status(status) \in Answers[wants[conn_fd]], RequestError(conn_fd, status)
  PROVE  ServedInv' /\ Service!Next
<1>1. PICK c : c = conn_fd
  OBVIOUS
<1>2. c \in open
  BY <1>1, WebAssumption DEF IInv, ServedInv, CalmInv
<1>3. CalmInv' /\ Service!Next /\ Whole(c)'
  BY <1>1, <1>2, RefuseCalm DEF RunInv, ServedInv
<1> QED
  BY <1>1, <1>3 DEF ServedInv

LEMMA ReadServed ==
  ASSUME IInv, RunInv, ServedInv, ReadLine \/ ReadHeaders
  PROVE  ServedInv' /\ Service!Next
<1>1. /\ up /\ main \in {"line", "headers"} /\ conn_fd \in Conn /\ UNCHANGED conn_fd
      /\ Fresh(conn_fd) /\ WebInv /\ CalmInv /\ files = InitialFiles /\ gone = {}
  BY ReadStep DEF RunInv, ServedInv, CalmInv
<1>2. CASE UNCHANGED web /\ main' \in {"headers", "stat"}
  <2>1. CalmInv' /\ Service!Next
    BY <1>1, <1>2, InsideCalm DEF RunInv, web, process
  <2> QED
    BY <1>2, <2>1 DEF ServedInv
<1>3. CASE RequestError(conn_fd, "501") /\ wants[conn_fd] = NotGet
  <2>1. Status("501") \in Answers[wants[conn_fd]]
    BY <1>1, <1>3, RefusalAnswered
  <2> QED
    BY <1>1, <1>3, <2>1, RefuseServed
<1> QED
  BY <1>1, <1>2, <1>3, ReadStep

LEMMA StatServed ==
  ASSUME IInv, RunInv, ServedInv, Stat
  PROVE  ServedInv' /\ Service!Next
<1>1. /\ up /\ main = "stat" /\ conn_fd \in Conn /\ UNCHANGED conn_fd
      /\ Fresh(conn_fd) /\ WebInv /\ CalmInv /\ files = InitialFiles
      /\ wants[conn_fd] # NotGet
  BY StatStep DEF RunInv, ServedInv, CalmInv
<1>2. CASE UNCHANGED web /\ main' \in {"map", "cgi"}
  <2>1. CalmInv' /\ Service!Next
    BY <1>1, <1>2, InsideCalm DEF RunInv, web, process
  <2> QED
    BY <1>2, <2>1 DEF ServedInv
<1>3. ASSUME NEW uri \in UriRead(conn_fd),
             \/ RequestError(conn_fd, "404") /\ StatOf(uri) = Absent
             \/ RequestError(conn_fd, "403") /\ StatOf(uri) # Absent /\ ~ Permitted(uri)
      PROVE  ServedInv' /\ Service!Next
  <2>1. /\ StatOf(uri) = Absent => Status("404") \in Answers[wants[conn_fd]]
        /\ StatOf(uri) # Absent /\ ~ Permitted(uri) => Status("403") \in Answers[wants[conn_fd]]
    BY <1>1, RefusalAnswered
  <2> QED
    BY <1>1, <1>3, <2>1, RefuseServed
<1> QED
  BY <1>2, <1>3, StatStep

LEMMA ServeServed ==
  ASSUME Calm, IInv, RunInv, ServedInv, Serve
  PROVE  ServedInv' /\ Service!Next
<1>1. PICK r : r = req
  OBVIOUS
<1>2. PICK point : point = main
  OBVIOUS
<1>3. PICK c : c = conn_fd
  OBVIOUS
<1>4. /\ up /\ main \in Serving \cup {"wait"} /\ UNCHANGED conn_fd /\ c \in Conn /\ c \in open
  BY <1>3, ServeStep, WaitingApart
<1>5. ServeInv(r, point) /\ r.conn_fd = c /\ WebInv /\ PerConn /\ TypesInv /\ CalmInv
  BY <1>1, <1>2, <1>3, <1>4 DEF RunInv, ServedInv
<1>6. up'
  <2>1. ~ Ends(c)
    BY <1>4, <1>5, CalmGoesOn DEF Ends, CalmInv
  <2> QED
    BY <1>3, <1>4, <2>1, ServeStep DEF GoesOn
<1>7. /\ \/ point = "map" /\ MapFile(r)
         \/ point = "head" /\ WriteHead(r)
         \/ point = "body" /\ WriteBody(r)
         \/ point = "cgi" /\ WriteCgiHead(r)
         \/ point = "fork" /\ Fork(r)
         \/ point = "wait" /\ Wait(r.conn_fd)
      /\ main' \in {"wait", "close"} => point \in {"body", "fork", "wait"}
  BY <1>1, <1>2, <1>3, <1>5, <1>6 DEF Serve, ServeStatic, ServeDynamic, From
<1>8. /\ CalmInv' /\ Service!Next
      /\ \A d \in Conn : d # c \/ point = "wait" => (Whole(d) => Whole(d)')
      /\ point \in {"body", "fork"} => Whole(c)'
  BY <1>4, <1>5, <1>7, <1>6, ServeCalm
<1>9. point = "wait" => Whole(c)
  BY <1>2, <1>3, <1>4 DEF ServedInv
<1>10. main' \in {"wait", "close"} => Whole(c)'
  BY <1>4, <1>7, <1>8, <1>9
<1> QED
  BY <1>3, <1>4, <1>8, <1>10 DEF ServedInv

LEMMA CloseServed ==
  ASSUME IInv, RunInv, ServedInv, Close
  PROVE  ServedInv' /\ Service!Next
<1>1. up /\ conn_fd \in Conn /\ Whole(conn_fd) /\ CloseConn(conn_fd) /\ CalmInv
      /\ main' \in {"accept", "close"}
  BY DEF Close, From, IInv, ServedInv, CalmInv
<1>2. CalmInv' /\ Service!Next
  BY <1>1, CloseCalm
<1>3. main' = "accept"
  BY <1>2 DEF Close, From, CalmInv
<1> QED
  BY <1>2, <1>3 DEF ServedInv

(* Every client reads one answer, the one to its own request, whole, before *)
(* the end of file, and nothing after it.                                   *)
THEOREM ImplementsServiceHolds ==
  ASSUME Calm
  PROVE  Spec => ImplementsService
<1>1. Init => ServedInv /\ Service!Init
  BY InitCalm DEF Init, ServedInv
<1>2. ASSUME IInv, RunInv, ServedInv, [Next]_vars
      PROVE  ServedInv' /\ Service!Next
  <2>1. CASE UNCHANGED vars
    <3>1. UNCHANGED web /\ UNCHANGED <<up, wants, reply, child, main, conn_fd>>
      BY <2>1 DEF vars, web, process, client, scripts
    <3>2. CalmInv' /\ Service!Next
      BY <1>2, <3>1, InsideCalm DEF RunInv, ServedInv, CalmInv
    <3> QED
      BY <1>2, <3>1, <3>2 DEF ServedInv, Whole, Answered
  <2> QED
    BY <1>2, <2>1, EnvironmentServed, AcceptServed, ReadServed, StatServed, ServeServed,
       CloseServed DEF Next, Server
<1>3. Spec => []ServedInv
  BY <1>1, <1>2, IInvHolds, RunInvHolds, PTL DEF Spec
<1>4. Spec => Service!Spec
  BY <1>1, <1>2, <1>3, IInvHolds, RunInvHolds, PTL DEF Spec, Service!Spec
<1> QED
  BY <1>4 DEF ImplementsService
=============================================================================
