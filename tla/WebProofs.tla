------------------------------ MODULE WebProofs ------------------------------
(***************************************************************************)
(* What both servers rely on of their clients, of the files, and of what   *)
(* request.c makes of a URI, for every set of clients, requests and files. *)
(***************************************************************************)
EXTENDS Web, SequenceTheorems, WellFoundedInduction, TLAPS

(* Nobody makes a file longer, and who may read or execute it stays.        *)
Remains(f) ==
  [size : 0 .. InitialFiles[f].size, mode : {InitialFiles[f].mode},
   allowed : {InitialFiles[f].allowed}]

FilesInv ==
  /\ DOMAIN files = File
  /\ \A f \in File : files[f] \in Remains(f) \cup {Absent}

(* The connections that wait for accept differ from each other and from     *)
(* those that the server has open.                                          *)
WebInv ==
  /\ backlog \in Seq(Conn) /\ open \subseteq Conn
  /\ \A j, k \in DOMAIN backlog : backlog[j] = backlog[k] => j = k
  /\ \A k \in DOMAIN backlog : backlog[k] \notin open
  /\ wants \in [Conn -> Requested]
  /\ sent \in [Conn -> {"none", "line", "all"}]
  /\ FilesInv

Touched(f) == files[f] # InitialFiles[f]

(* A request that passed the tests of request_parse: it is that of a URI    *)
(* which its client may have meant, for a file that had the size, and the   *)
(* permission, when stat saw it.                                            *)
RequestInv(r) ==
  /\ r.conn_fd \in Conn /\ wants[r.conn_fd] # NotGet
  /\ \E uri \in UriRead(r.conn_fd), n \in Nat :
       /\ r = RequestFor(r.conn_fd, uri, n)
       /\ r.filename \in File
       /\ (IF r.is_static THEN "r" ELSE "x") \in InitialFiles[r.filename].mode
       /\ n = InitialFiles[r.filename].size \/ Touched(r.filename)

PerConn ==
  /\ DOMAIN reply = Conn /\ DOMAIN data = Conn
  /\ DOMAIN child = Conn /\ DOMAIN image = Conn /\ DOMAIN inherited = Conn

(* Nothing has been written to a connection, and it has no child.           *)
Fresh(c) == reply[c] = Unanswered /\ child[c] = "none"

HeadFor(r) ==
  [status |-> "200", type |-> FileType(r.filename), length |-> r.filesize, body |-> 0]

(* The mapping backs the whole body, or someone touched the file.           *)
Mapped(r) ==
  /\ data[r.conn_fd] \in [filename : {r.filename}, bytes : Nat]
  /\ data[r.conn_fd].bytes = r.filesize \/ Touched(r.filename)

(* The connection of a request at the points of request_serve, and before   *)
(* them, while the request is offered or queued.                            *)
ServeInv(r, point) ==
  /\ RequestInv(r)
  /\ point \in {"map", "head", "body"} => r.is_static
  /\ point \in {"cgi", "fork", "wait"} => ~ r.is_static
  /\ point \notin {"wait", "close"} => child[r.conn_fd] = "none"
  /\ point \in {"queue", "map", "head", "cgi"} => reply[r.conn_fd] = Unanswered
  /\ point = "body" => reply[r.conn_fd] = HeadFor(r)
  /\ point = "fork" => reply[r.conn_fd] = Status("200")
  /\ point \in {"head", "body"} => Mapped(r)

(* A script runs for a request of the connection, which may be closed.      *)
ImageInv(c) ==
  IF child[c] = "running"
  THEN \E r : /\ RequestInv(r) /\ r.conn_fd = c /\ ~ r.is_static
              /\ image[c] = [filename |-> r.filename, cgiargs |-> r.cgiargs]
  ELSE image[c] = NoImage

Answer == [status : {"none", "501", "404", "403", "200"},
           type : {"none", "text/plain"} \cup Range(MimeType), length : Int, body : Int]

TypesInv ==
  /\ up \in BOOLEAN /\ fatal \in Conn \cup {NoConn} /\ cut \subseteq Conn
  /\ gone \subseteq Impatient
  /\ \A c \in Conn : reply[c] \in Answer
  /\ \A c \in Conn : data[c] = NoData \/ data[c] \in [filename : File, bytes : Nat]
  /\ child \in [Conn -> {"none", "running", "written", "exited"}]
  /\ inherited \in [Conn -> SUBSET Conn]
  /\ \A c \in Conn : ImageInv(c)

(* A connection with less than the whole of a static answer is about to     *)
(* receive the body, or its client is gone, or someone touched the file, or *)
(* the file is larger than a write is sure to take.                         *)
Large(f) == InitialFiles[f].size > MaxWrite

ShortInv(c, receiving) ==
  /\ child[c] = "running" => reply[c].length = 0
  /\ reply[c].body < reply[c].length =>
       c \in receiving \cup gone \/ \E f \in Documents(c) : Touched(f) \/ Large(f)

-----------------------------------------------------------------------------
(* The state that clients and other programs change.                        *)

LEMMA InitialFilesType ==
  ASSUME NEW f \in File
  PROVE  /\ InitialFiles[f].size \in Nat /\ InitialFiles[f].mode \subseteq {"r", "x"}
         /\ InitialFiles[f].allowed \subseteq {"r", "x"}
         /\ InitialFiles[f] # Absent /\ InitialFiles[f] \in Remains(f)
BY WebAssumption DEF File, Remains

LEMMA InitWebInv == WebInit => WebInv
<1> SUFFICES ASSUME WebInit PROVE WebInv
  OBVIOUS
<1>1. wants \in [Conn -> Requested]
  BY WebAssumption DEF WebInit
<1>2. FilesInv
  BY InitialFilesType DEF WebInit, FilesInv, File
<1> QED
  BY <1>1, <1>2 DEF WebInit, WebInv

(* Connecting is the only way into the backlog.                             *)
LEMMA ConnectWeb ==
  ASSUME WebInv, NEW c \in Conn, Connect(c)
  PROVE  WebInv' /\ UNCHANGED <<open, files>>
<1>1. /\ backlog' = Append(backlog, c)
      /\ c \notin open /\ \A k \in DOMAIN backlog : backlog[k] # c
      /\ UNCHANGED <<open, files>>
      /\ \E want \in Requested : wants' = [wants EXCEPT ![c] = want]
      /\ sent' = [sent EXCEPT ![c] = "none"]
  BY DEF Connect, Ended, Waiting
<1>2. backlog \in Seq(Conn)
  BY DEF WebInv
<1>3. /\ backlog' \in Seq(Conn)
      /\ \A k \in DOMAIN backlog' :
           \/ k \in DOMAIN backlog /\ backlog'[k] = backlog[k]
           \/ k = Len(backlog) + 1 /\ backlog'[k] = c
  BY <1>1, <1>2
<1>4. wants' \in [Conn -> Requested] /\ sent' \in [Conn -> {"none", "line", "all"}]
  BY <1>1 DEF WebInv
<1> QED
  BY <1>1, <1>3, <1>4 DEF WebInv, FilesInv

(* A file that changes is not again what it was.                            *)
LEMMA FileWeb ==
  ASSUME FilesInv, NEW f \in File, Truncate(f) \/ Unlink(f)
  PROVE  /\ FilesInv' /\ Touched(f)'
         /\ \A g \in File : g # f => files'[g] = files[g]
         /\ UNCHANGED <<process, client, backlog, open, reply, scripts>>
<1>1. UNCHANGED <<process, client, backlog, open, reply, scripts>> /\ files[f] # Absent
  BY DEF Truncate, Unlink
<1>2. CASE Unlink(f)
  BY <1>1, <1>2, InitialFilesType DEF Unlink, FilesInv, Touched
<1>3. CASE Truncate(f)
  <2>1. PICK n \in 0 .. files[f].size - 1 : files' = [files EXCEPT ![f].size = n]
    BY <1>3 DEF Truncate
  <2>2. files[f] \in Remains(f)
    BY <1>1 DEF FilesInv
  <2>3. files'[f] = [files[f] EXCEPT !.size = n] /\ \A g \in File : g # f => files'[g] = files[g]
    BY <2>1 DEF FilesInv
  <2>4. n \in 0 .. InitialFiles[f].size /\ n # InitialFiles[f].size
    BY <2>1, <2>2, InitialFilesType DEF Remains
  <2>5. files'[f] \in Remains(f) /\ files'[f].size = n
    BY <2>2, <2>3, <2>4 DEF Remains
  <2> QED
    BY <1>1, <2>1, <2>3, <2>4, <2>5 DEF FilesInv, Touched, Remains
<1> QED
  BY <1>2, <1>3

(* The other steps of the environment leave the connections alone.          *)
LEMMA ClientWeb ==
  ASSUME WebInv, NEW c \in Conn, Send(c) \/ Leave(c) \/ ChildWrite(c) \/ ChildExit(c)
  PROVE  /\ WebInv' /\ UNCHANGED <<open, wants, files>>
         /\ backlog' = backlog \/ (backlog' = <<>> /\ ~ up)
<1>1. UNCHANGED <<open, wants, files>> /\ (backlog' = backlog \/ (backlog' = <<>> /\ ~ up))
  <2>1. CASE ChildExit(c)
    BY <2>1 DEF ChildExit, client, ResetUnlessListening, Listening, process
  <2>2. CASE Send(c) \/ Leave(c) \/ ChildWrite(c)
    BY <2>2 DEF Send, Leave, ChildWrite, client
  <2> QED
    BY <2>1, <2>2
<1>2. sent' \in [Conn -> {"none", "line", "all"}]
  BY DEF Send, Leave, ChildWrite, ChildExit, client, WebInv
<1>3. CASE backlog' = backlog
  BY <1>1, <1>2, <1>3 DEF WebInv, FilesInv
<1>4. CASE backlog' = <<>>
  <2>1. <<>> \in Seq(Conn) /\ DOMAIN <<>> = {}
    OBVIOUS
  <2> QED
    BY <1>1, <1>2, <1>4, <2>1 DEF WebInv, FilesInv
<1> QED
  BY <1>1, <1>3, <1>4

LEMMA EnvironmentWeb ==
  ASSUME WebInv, Environment
  PROVE  /\ WebInv' /\ UNCHANGED open
         /\ \A f \in File : Touched(f) => Touched(f)'
<1>1. ASSUME NEW c \in Conn, Connect(c)
      PROVE  WebInv' /\ UNCHANGED <<open, files>>
  BY <1>1, ConnectWeb
<1>2. ASSUME NEW c \in Conn, Send(c) \/ Leave(c) \/ ChildWrite(c) \/ ChildExit(c)
      PROVE  WebInv' /\ UNCHANGED <<open, files>>
  BY <1>2, ClientWeb
<1>3. ASSUME NEW f \in File, Truncate(f) \/ Unlink(f)
      PROVE  /\ WebInv' /\ UNCHANGED open
             /\ \A g \in File : Touched(g) => Touched(g)'
  <2>1. /\ FilesInv' /\ Touched(f)' /\ UNCHANGED <<client, backlog, open>>
        /\ \A g \in File : g # f => files'[g] = files[g]
    BY <1>3, FileWeb DEF WebInv
  <2> QED
    BY <2>1 DEF WebInv, client, Touched
<1> QED
  BY <1>1, <1>2, <1>3 DEF Environment, Touched

(* Only the server's own steps end its process, or close its connections.   *)
LEMMA EnvironmentProcess ==
  ASSUME Environment
  PROVE  UNCHANGED <<up, fatal, cut, open>>
BY DEF Environment, Connect, Send, Leave, ChildWrite, ChildExit, Truncate, Unlink, process

(* While the server has a connection open its client does not ask again,    *)
(* and has not sent anything if it left before.                             *)
LEMMA OpenKeepsClient ==
  ASSUME WebInv, Environment, NEW c \in open
  PROVE  /\ wants'[c] = wants[c]
         /\ c \in gone => c \in gone' /\ sent'[c] = sent[c]
         /\ sent[c] # "none" => sent'[c] # "none"
<1>1. c \in Conn
  BY DEF WebInv
<1>2. ASSUME NEW d \in Conn, Connect(d)
      PROVE  d # c /\ wants'[c] = wants[c] /\ sent'[c] = sent[c] /\ (c \in gone => c \in gone')
  BY <1>1, <1>2 DEF Connect, Ended, WebInv
<1>3. ASSUME NEW d \in Conn, Send(d)
      PROVE  /\ UNCHANGED <<wants, gone>> /\ d \notin gone
             /\ d # c => sent'[c] = sent[c]
             /\ sent'[d] # "none"
  BY <1>1, <1>3 DEF Send, WebInv
<1>4. ASSUME NEW d \in Conn, Leave(d)
      PROVE  UNCHANGED <<wants, sent>> /\ gone \subseteq gone'
  BY <1>4 DEF Leave
<1>5. ASSUME NEW d \in Conn, ChildWrite(d) \/ ChildExit(d)
      PROVE  UNCHANGED <<wants, sent, gone>>
  BY <1>5 DEF ChildWrite, ChildExit, client
<1>6. ASSUME NEW f \in File, Truncate(f) \/ Unlink(f)
      PROVE  UNCHANGED <<wants, sent, gone>>
  BY <1>6 DEF Truncate, Unlink, client
<1> QED
  BY <1>2, <1>3, <1>4, <1>5, <1>6 DEF Environment

-----------------------------------------------------------------------------
(* What one step can do to the connections that it is not about.            *)

(* A step of request.c for connection d, which may also reap another child. *)
Only(d) ==
  /\ UNCHANGED <<files, wants, sent, gone>>
  /\ \A c \in Conn : /\ c # d => reply'[c] = reply[c] /\ data'[c] = data[c]
                     /\ c # d => child'[c] \in {child[c], "none"}

ServerStep(d) ==
  \/ AcceptConn(d) \/ CloseConn(d) \/ Die(d) \/ Wait(d)
  \/ \E status \in {"501", "404", "403"} : RequestError(d, status)
  \/ \E r : /\ r.conn_fd = d /\ RequestInv(r)
            /\ \/ MapFile(r) \/ WriteHead(r) \/ WriteBody(r)
               \/ WriteCgiHead(r)
               \/ ~ r.is_static /\ Fork(r)

LEMMA PerConnStep ==
  ASSUME PerConn, Environment \/ \E d \in Conn : ServerStep(d)
  PROVE  PerConn'
<1>1. ASSUME NEW c \in Conn, \/ Connect(c) \/ Send(c) \/ Leave(c)
                             \/ ChildWrite(c) \/ ChildExit(c)
      PROVE  PerConn'
  BY <1>1 DEF PerConn, Connect, Send, Leave, ChildWrite, ChildExit, scripts
<1>2. ASSUME NEW f \in File, Truncate(f) \/ Unlink(f)
      PROVE  PerConn'
  BY <1>2 DEF PerConn, Truncate, Unlink, scripts
<1>3. ASSUME NEW d \in Conn, ServerStep(d)
      PROVE  PerConn'
  <2>1. CASE AcceptConn(d) \/ CloseConn(d) \/ Die(d)
    BY <2>1 DEF PerConn, AcceptConn, CloseConn, Die, EndProcess, scripts
  <2>2. CASE Wait(d)
    BY <2>2 DEF PerConn, Wait, Die, EndProcess, scripts
  <2>3. ASSUME NEW status, RequestError(d, status)
        PROVE  PerConn'
    BY <2>3 DEF PerConn, RequestError, Write, EndProcess, scripts
  <2>4. ASSUME NEW r, MapFile(r) \/ Fork(r)
        PROVE  PerConn'
    BY <2>4 DEF PerConn, MapFile, Die, EndProcess, Fork, scripts
  <2>5. ASSUME NEW r, WriteHead(r) \/ WriteCgiHead(r)
        PROVE  PerConn'
    BY <2>5 DEF PerConn, WriteHead, WriteCgiHead, Write, EndProcess, scripts
  <2>6. ASSUME NEW r, WriteBody(r)
        PROVE  PerConn'
    BY <2>6 DEF PerConn, WriteBody, SendBody, Die, EndProcess, Write, scripts
  <2> QED
    BY <1>3, <2>1, <2>2, <2>3, <2>4, <2>5, <2>6 DEF ServerStep
<1> QED
  BY <1>1, <1>2, <1>3 DEF Environment

LEMMA ServerStepOnly ==
  ASSUME PerConn, NEW d \in Conn, ServerStep(d)
  PROVE  Only(d)
<1>1. CASE AcceptConn(d) \/ CloseConn(d) \/ Die(d)
  BY <1>1 DEF AcceptConn, CloseConn, Die, EndProcess, client, scripts, Only
<1>2. CASE Wait(d)
  BY <1>2 DEF Wait, Die, EndProcess, client, scripts, Only, PerConn
<1>3. ASSUME NEW status, RequestError(d, status)
      PROVE  Only(d)
  BY <1>3 DEF RequestError, Write, EndProcess, client, scripts, Only, PerConn
<1>4. ASSUME NEW r, r.conn_fd = d, MapFile(r) \/ Fork(r)
      PROVE  Only(d)
  BY <1>4 DEF MapFile, Die, EndProcess, Fork, client, scripts, Only, PerConn
<1>5. ASSUME NEW r, r.conn_fd = d, WriteHead(r) \/ WriteCgiHead(r)
      PROVE  Only(d)
  BY <1>5 DEF WriteHead, WriteCgiHead, Write, EndProcess, client, scripts, Only, PerConn
<1>6. ASSUME NEW r, r.conn_fd = d, WriteBody(r)
      PROVE  Only(d)
  BY <1>6 DEF WriteBody, SendBody, Die, EndProcess, Write, client, scripts, Only, PerConn
<1> QED
  BY <1>1, <1>2, <1>3, <1>4, <1>5, <1>6 DEF ServerStep

LEMMA RequestStable ==
  ASSUME NEW r, RequestInv(r), wants'[r.conn_fd] = wants[r.conn_fd],
         \A f \in File : Touched(f) => Touched(f)'
  PROVE  RequestInv(r)'
<1>1. PICK uri \in UriRead(r.conn_fd), n \in Nat :
        /\ r = RequestFor(r.conn_fd, uri, n)
        /\ r.filename \in File
        /\ (IF r.is_static THEN "r" ELSE "x") \in InitialFiles[r.filename].mode
        /\ n = InitialFiles[r.filename].size \/ Touched(r.filename)
  BY DEF RequestInv
<1>2. uri \in UriRead(r.conn_fd)'
  BY DEF UriRead
<1>3. n = InitialFiles[r.filename].size \/ Touched(r.filename)'
  BY <1>1
<1> QED
  BY <1>1, <1>2, <1>3 DEF RequestInv, RequestFor

(* A step for another connection leaves a request where it is.              *)
LEMMA ServeOnly ==
  ASSUME NEW d \in Conn, Only(d),
         NEW r, NEW point, ServeInv(r, point), r.conn_fd # d
  PROVE  ServeInv(r, point)'
<1> DEFINE c == r.conn_fd
<1>1. c \in Conn
  BY DEF ServeInv, RequestInv
<1>2. /\ UNCHANGED files /\ wants'[c] = wants[c]
      /\ reply'[c] = reply[c] /\ data'[c] = data[c] /\ child'[c] \in {child[c], "none"}
  BY <1>1 DEF Only
<1>3. RequestInv(r)'
  BY <1>2, RequestStable DEF ServeInv, Touched
<1>4. Mapped(r) => Mapped(r)'
  BY <1>2 DEF Mapped, Touched
<1> QED
  BY <1>2, <1>3, <1>4 DEF ServeInv, HeadFor, FileType, Contains

(* So does a step of the environment.                                       *)
LEMMA ServeEnvironment ==
  ASSUME WebInv, PerConn, Environment,
         NEW r, NEW point, ServeInv(r, point), r.conn_fd \in open
  PROVE  ServeInv(r, point)'
<1> DEFINE c == r.conn_fd
<1>1. c \in Conn
  BY DEF ServeInv, RequestInv
<1>2. RequestInv(r)'
  BY RequestStable, EnvironmentWeb, OpenKeepsClient DEF ServeInv
<1>3. ASSUME NEW d \in Conn, Connect(d)
      PROVE  reply'[c] = reply[c] /\ UNCHANGED <<data, child, files>>
  BY <1>1, <1>3 DEF Connect, Ended, scripts, PerConn
<1>4. ASSUME NEW d \in Conn, Send(d) \/ Leave(d)
      PROVE  UNCHANGED <<reply, data, child, files>>
  BY <1>4 DEF Send, Leave, scripts
<1>5. ASSUME NEW d \in Conn, ChildWrite(d) \/ ChildExit(d)
      PROVE  /\ UNCHANGED <<data, files>>
             /\ d = c => child[c] # "none"
             /\ d # c => reply'[c] = reply[c] /\ child'[c] = child[c]
  BY <1>1, <1>5 DEF ChildWrite, ChildExit, PerConn
<1>6. ASSUME NEW f \in File, Truncate(f) \/ Unlink(f)
      PROVE  /\ UNCHANGED <<reply, child>>
             /\ Mapped(r) => Mapped(r)'
  <2>1. /\ UNCHANGED scripts /\ UNCHANGED reply /\ FilesInv' /\ Touched(f)'
        /\ \A g \in File : g # f => files'[g] = files[g]
    BY <1>6, FileWeb DEF WebInv
  <2>2. r.filename \in File
    BY DEF ServeInv, RequestInv
  <2>3. CASE Unlink(f)
    BY <2>1, <2>2, <2>3 DEF Unlink, Mapped, Touched, scripts
  <2>4. CASE Truncate(f)
    <3>1. PICK n \in 0 .. files[f].size - 1 :
            data' = [e \in Conn |-> IF data[e].filename = f /\ data[e].bytes > n
                                   THEN [data[e] EXCEPT !.bytes = n]
                                   ELSE data[e]]
      BY <2>4 DEF Truncate
    <3>2. n \in Nat
      OBVIOUS
    <3>3. SUFFICES ASSUME Mapped(r) PROVE Mapped(r)'
      BY <2>1 DEF scripts
    <3>4. \/ data'[c] = data[c]
          \/ data[c].filename = f /\ data'[c] = [data[c] EXCEPT !.bytes = n]
      BY <1>1, <3>1
    <3>5. CASE data'[c] = data[c]
      BY <2>1, <2>2, <3>3, <3>5 DEF Mapped, Touched
    <3>6. CASE data[c].filename = f /\ data'[c] = [data[c] EXCEPT !.bytes = n]
      <4>1. data'[c].filename = f /\ data'[c].bytes = n
        BY <3>6
      <4> QED
        BY <2>1, <3>2, <3>3, <3>6, <4>1 DEF Mapped
    <3> QED
      BY <3>4, <3>5, <3>6
  <2> QED
    BY <1>6, <2>1, <2>3, <2>4 DEF scripts
<1>7. ASSUME reply'[c] = reply[c], child'[c] = child[c], Mapped(r) => Mapped(r)'
      PROVE  ServeInv(r, point)'
  BY <1>2, <1>7 DEF ServeInv, HeadFor, FileType, Contains
<1>8. ASSUME UNCHANGED <<data, files>>
      PROVE  Mapped(r) => Mapped(r)'
  BY <1>8 DEF Mapped, Touched
<1>9. ASSUME NEW d \in Conn, ChildWrite(d) \/ ChildExit(d)
      PROVE  ServeInv(r, point)'
  <2>1. CASE d = c
    <3>1. point \in {"wait", "close"}
      BY <1>5, <1>9, <2>1 DEF ServeInv
    <3> QED
      BY <1>2, <3>1 DEF ServeInv
  <2>2. CASE d # c
    BY <1>5, <1>7, <1>8, <1>9, <2>2
  <2> QED
    BY <2>1, <2>2
<1> QED
  BY <1>3, <1>4, <1>6, <1>7, <1>8, <1>9 DEF Environment

-----------------------------------------------------------------------------
(* The steps of request_serve for the connection of r.                      *)

LEMMA ToIntBound ==
  ASSUME NEW n \in Nat
  PROVE  ToInt(n) \in Int /\ ToInt(n) <= n /\ (n <= IntMax => ToInt(n) = n)
<1> DEFINE m == 2 * IntMax + 2
           a == n + IntMax + 1
<1>1. IntMax \in Nat
  BY WebAssumption
<1>2. m \in Nat \ {0} /\ a \in Nat
  BY <1>1
<1> HIDE DEF m, a
<1>3. a % m \in 0 .. m - 1 /\ a % m <= a /\ (a < m => a % m = a)
  BY <1>2
<1> QED
  BY <1>1, <1>3 DEF ToInt, a, m

LEMMA MinExists ==
  ASSUME NEW T \in SUBSET Nat, T # {}
  PROVE  Min(T) \in T /\ \A n \in T : Min(T) <= n
<1> DEFINE R == OpToRel(<, Nat)
<1>1. IsWellFoundedOn(R, Nat)
  BY NatLessThanWellFounded
<1>2. PICK m \in T : \A k \in T : ~ (<<k, m>> \in R)
  <2> HIDE DEF R
  <2> QED
    BY <1>1, WFMin
<1>3. \A k \in T : ~ (k < m)
  BY <1>2 DEF OpToRel
<1>4. \A k \in T : m <= k
  BY <1>3
<1> QED
  BY <1>4 DEF Min

(* What is left of a URI is a sequence of tokens too.                       *)
LEMMA ElementsOf ==
  ASSUME NEW S, NEW s \in Seq(S)
  PROVE  s \in Seq({s[k] : k \in DOMAIN s})
OBVIOUS

LEMMA NameOfUri ==
  ASSUME NEW uri, uri \in Seq({uri[k] : k \in DOMAIN uri}), IsScript(uri),
         NEW name, name = ParseUri(uri).filename
  PROVE  name \in Seq({name[k] : k \in DOMAIN name})
<1> DEFINE marks == {k \in DOMAIN uri : uri[k] = "?"}
<1>1. PICK T : T = {uri[k] : k \in DOMAIN uri}
  OBVIOUS
<1>2. Contains(uri, "cgi")
  BY DEF Contains, IsScript
<1>3. name = IF marks = {} THEN uri ELSE SubSeq(uri, 1, Min(marks) - 1)
  BY <1>2 DEF ParseUri
<1>4. marks # {} => Min(marks) \in 1 .. Len(uri)
  <2>1. marks \subseteq 1 .. Len(uri) /\ marks \in SUBSET Nat
    OBVIOUS
  <2> HIDE DEF marks
  <2> QED
    BY <2>1, MinExists
<1> HIDE DEF marks
<1>5. name \in Seq(T)
  BY <1>1, <1>3, <1>4
<1> QED
  BY <1>5, ElementsOf

LEMMA UriReadType ==
  ASSUME WebInv, NEW c \in Conn, wants[c] # NotGet, NEW uri \in UriRead(c)
  PROVE  uri \in UrisLeft /\ uri \in Seq({uri[k] : k \in DOMAIN uri})
<1>1. uri \in UrisLeft
  BY DEF UriRead, UrisLeft, Uris, WebInv
<1>2. \A u \in Uris : u \in Seq({u[k] : k \in DOMAIN u})
  BY WebAssumption DEF Uris
<1>3. ASSUME uri \in {<<>>, <<NoUri>>}
      PROVE  uri \in Seq({uri[k] : k \in DOMAIN uri})
  <2>1. PICK S : S = {NoUri}
    OBVIOUS
  <2>2. <<>> \in Seq(S) /\ <<NoUri>> \in Seq(S)
    BY <2>1
  <2>3. uri \in Seq(S)
    BY <1>3, <2>2
  <2> QED
    BY <2>3, ElementsOf
<1>4. ASSUME NEW u \in Uris, IsScript(u), uri = ParseUri(u).filename
      PROVE  uri \in Seq({uri[k] : k \in DOMAIN uri})
  BY <1>2, <1>4, NameOfUri
<1> QED
  BY <1>1, <1>2, <1>3, <1>4 DEF UrisLeft

(* The server's search for "cgi" finds the scripts.                         *)
LEMMA StaticUri ==
  ASSUME NEW uri, uri \in Seq({uri[k] : k \in DOMAIN uri})
  PROVE  ParseUri(uri).is_static <=> ~ IsScript(uri)
<1>1. Contains(uri, "cgi") <=> IsScript(uri)
  BY DEF Contains, IsScript
<1> QED
  BY <1>1 DEF ParseUri

LEMMA RequestParts ==
  ASSUME WebInv, NEW r, RequestInv(r)
  PROVE  \E uri \in UrisLeft \cap UriRead(r.conn_fd), n \in Nat :
           /\ r = RequestFor(r.conn_fd, uri, n)
           /\ r.is_static <=> ~ IsScript(uri)
           /\ r.filename = ParseUri(uri).filename /\ r.filename \in File
           /\ r.cgiargs = ParseUri(uri).cgiargs
           /\ r.filesize = ToInt(n) /\ r.filesize \in Int
           /\ (IF r.is_static THEN "r" ELSE "x") \in InitialFiles[r.filename].mode
           /\ n = InitialFiles[r.filename].size \/ Touched(r.filename)
<1>1. PICK uri \in UriRead(r.conn_fd), n \in Nat :
        /\ r = RequestFor(r.conn_fd, uri, n)
        /\ r.filename \in File
        /\ (IF r.is_static THEN "r" ELSE "x") \in InitialFiles[r.filename].mode
        /\ n = InitialFiles[r.filename].size \/ Touched(r.filename)
  BY DEF RequestInv
<1>2. uri \in UrisLeft /\ (ParseUri(uri).is_static <=> ~ IsScript(uri))
  BY UriReadType, StaticUri DEF RequestInv
<1>3. /\ r.is_static = ParseUri(uri).is_static /\ r.filename = ParseUri(uri).filename
      /\ r.cgiargs = ParseUri(uri).cgiargs /\ r.filesize = ToInt(n)
  BY <1>1 DEF RequestFor
<1>4. ToInt(n) \in Int
  BY ToIntBound
<1> QED
  BY <1>1, <1>2, <1>3, <1>4

(* A document that is served is one that the client may have asked for.     *)
LEMMA DocumentServed ==
  ASSUME WebInv, NEW r, RequestInv(r), r.is_static
  PROVE  r.filename \in Documents(r.conn_fd) /\ wants[r.conn_fd] # NotGet
BY RequestParts DEF Documents, RequestInv

(* What StaysUp allows the process to end for.                              *)
MayEnd(c) ==
  \/ c \in gone
  \/ wants[c] # NotGet
     /\ \E f \in Documents(c) : files[f] # InitialFiles[f] \/ Unservable(f)

(* A step of the server goes on, or ends the process for such a reason.     *)
GoesOn == UNCHANGED <<up, fatal, cut, backlog, open>>
Ends(c) == EndProcess(c) /\ MayEnd(c)

LEMMA EndStep ==
  ASSUME NEW c, EndProcess(c)
  PROVE  /\ up' = FALSE /\ fatal' = c /\ cut' = open /\ open' = {}
         /\ backlog' \in {backlog, <<>>}
         /\ UNCHANGED <<files, wants, sent, gone, reply, child, image, inherited>>
BY DEF EndProcess, ResetUnlessListening, client, scripts

LEMMA EndWeb ==
  ASSUME WebInv, NEW c, EndProcess(c)
  PROVE  WebInv'
<1>1. /\ open' = {} /\ backlog' \in {backlog, <<>>} /\ UNCHANGED <<files, wants, sent>>
  BY EndStep
<1>2. <<>> \in Seq(Conn) /\ DOMAIN <<>> = {}
  OBVIOUS
<1>3. CASE backlog' = backlog
  BY <1>1, <1>3 DEF WebInv, FilesInv
<1>4. CASE backlog' = <<>>
  BY <1>1, <1>2, <1>4 DEF WebInv, FilesInv
<1> QED
  BY <1>1, <1>3, <1>4

LEMMA MapStep ==
  ASSUME WebInv, PerConn, NEW r, ServeInv(r, "map"), MapFile(r)
  PROVE  (GoesOn /\ ServeInv(r, "head")') \/ Ends(r.conn_fd)
<1> DEFINE c == r.conn_fd
           file == files[r.filename]
<1>1. /\ r.is_static /\ r.filename \in File /\ r.filesize \in Int
      /\ "r" \in InitialFiles[r.filename].mode
      /\ r.filename \in Documents(c) /\ wants[c] # NotGet
      /\ c \in Conn
  BY RequestParts, DocumentServed DEF ServeInv, RequestInv
<1>2. file = Absent \/ /\ file.size \in 0 .. InitialFiles[r.filename].size
                       /\ file.allowed = InitialFiles[r.filename].allowed
  BY <1>1 DEF WebInv, FilesInv, Remains
<1>3. \/ r.filesize = ToInt(InitialFiles[r.filename].size)
         /\ r.filesize <= InitialFiles[r.filename].size
      \/ Touched(r.filename)
  BY <1>1, RequestParts, ToIntBound, InitialFilesType DEF ServeInv
<1>4. CASE file # Absent /\ "r" \in file.allowed /\ r.filesize > 0
  <2>1. /\ data' = [data EXCEPT ![c] = [filename |-> r.filename,
                                       bytes |-> Min({file.size, r.filesize})]]
        /\ UNCHANGED <<files, wants, reply, child>> /\ GoesOn
    BY <1>4 DEF MapFile, client, scripts, process, GoesOn
  <2>2. file.size \in Nat /\ r.filesize \in Nat
    BY <1>1, <1>2, <1>4, InitialFilesType
  <2>3. Min({file.size, r.filesize}) = IF file.size <= r.filesize THEN file.size ELSE r.filesize
    BY <2>2 DEF Min
  <2>4. Min({file.size, r.filesize}) \in Nat
    BY <2>2, <2>3
  <2>5. ~ Touched(r.filename) => Min({file.size, r.filesize}) = r.filesize
    BY <1>2, <1>3, <1>4, <2>2, <2>3 DEF Touched
  <2>6. Mapped(r)'
    BY <1>1, <2>1, <2>4, <2>5 DEF Mapped, Touched, PerConn
  <2>7. RequestInv(r)'
    BY <2>1, RequestStable DEF ServeInv, Touched
  <2> QED
    BY <1>1, <2>1, <2>6, <2>7 DEF ServeInv
<1>5. CASE ~ (file # Absent /\ "r" \in file.allowed /\ r.filesize > 0)
  <2>1. EndProcess(c)
    BY <1>5 DEF MapFile, Die
  <2>2. Touched(r.filename) \/ Unservable(r.filename)
    BY <1>1, <1>2, <1>3, <1>5, InitialFilesType DEF Touched, Unservable
  <2> QED
    BY <1>1, <2>1, <2>2 DEF MayEnd, Ends, Touched
<1> QED
  BY <1>4, <1>5

LEMMA WriteStep ==
  ASSUME PerConn, NEW c \in Conn, NEW answer, Write(c, answer)
  PROVE  /\ UNCHANGED <<files, wants, sent, gone, child, image, inherited>>
         /\ \A d \in Conn \ {c} : reply'[d] = reply[d]
         /\ \/ GoesOn /\ reply'[c] = answer
            \/ Ends(c) /\ c \in gone /\ UNCHANGED reply
BY DEF Write, GoesOn, Ends, MayEnd, EndProcess, process, client, scripts, PerConn

LEMMA HeadStep ==
  ASSUME PerConn, NEW r, ServeInv(r, "head"), WriteHead(r)
  PROVE  (GoesOn /\ ServeInv(r, "body")') \/ Ends(r.conn_fd)
<1>1. r.conn_fd \in Conn
  BY DEF ServeInv, RequestInv
<1>2. /\ UNCHANGED <<files, wants, gone, child, data>>
      /\ \/ GoesOn /\ reply'[r.conn_fd] = HeadFor(r)
         \/ Ends(r.conn_fd)
  <2>1. Write(r.conn_fd, HeadFor(r)) /\ UNCHANGED data
    BY DEF WriteHead, HeadFor
  <2> QED
    BY <1>1, <2>1, WriteStep
<1>3. RequestInv(r)'
  BY <1>2, RequestStable DEF ServeInv, Touched
<1>4. HeadFor(r)' = HeadFor(r)
  BY DEF HeadFor, FileType, Contains
<1> QED
  BY <1>2, <1>3, <1>4 DEF ServeInv, Mapped, Touched

LEMMA CgiHeadStep ==
  ASSUME PerConn, NEW r, ServeInv(r, "cgi"), WriteCgiHead(r)
  PROVE  (GoesOn /\ ServeInv(r, "fork")') \/ Ends(r.conn_fd)
<1>1. r.conn_fd \in Conn
  BY DEF ServeInv, RequestInv
<1>2. /\ UNCHANGED <<files, wants, gone, child, data>>
      /\ \/ GoesOn /\ reply'[r.conn_fd] = Status("200")
         \/ Ends(r.conn_fd)
  BY <1>1, WriteStep DEF WriteCgiHead
<1>3. RequestInv(r)'
  BY <1>2, RequestStable DEF ServeInv, Touched
<1> QED
  BY <1>2, <1>3 DEF ServeInv

(* A body is cut for one of the reasons that ShortInv names.                *)
LEMMA BodyStep ==
  ASSUME WebInv, PerConn, TypesInv, NEW r, ServeInv(r, "body"), WriteBody(r)
  PROVE  \/ /\ GoesOn /\ ServeInv(r, "close")'
            /\ \E n \in Int : /\ reply'[r.conn_fd] = [HeadFor(r) EXCEPT !.body = n]
                              /\ \/ n = r.filesize
                                 \/ Touched(r.filename) \/ Large(r.filename)
                                 \/ r.conn_fd \in gone
         \/ Ends(r.conn_fd)
<1> DEFINE c == r.conn_fd
           backed == data[c].bytes
<1>1. /\ c \in Conn /\ r.is_static /\ reply[c] = HeadFor(r)
      /\ backed \in Nat
      /\ backed = r.filesize \/ Touched(r.filename)
  BY DEF ServeInv, RequestInv, Mapped
<1>2. r.filename \in Documents(c) /\ wants[c] # NotGet /\ r.filesize \in Int
  BY <1>1, DocumentServed, RequestParts DEF ServeInv
<1>3. CASE backed < r.filesize /\ Die(c)
  BY <1>1, <1>2, <1>3 DEF Die, MayEnd, Ends, Touched
<1>4. ASSUME NEW n, SendBody(c, n)
      PROVE  \/ /\ GoesOn /\ ServeInv(r, "close")'
                /\ reply'[c] = [HeadFor(r) EXCEPT !.body = n]
             \/ Ends(c)
  <2>1. /\ UNCHANGED <<files, wants, gone>>
        /\ \/ GoesOn /\ reply'[c] = [HeadFor(r) EXCEPT !.body = n]
           \/ Ends(c)
    BY <1>1, <1>4, WriteStep DEF SendBody
  <2>2. RequestInv(r)'
    BY <2>1, RequestStable DEF ServeInv, Touched
  <2> QED
    BY <2>1, <2>2 DEF ServeInv
<1>5. r.filesize > MaxWrite => Large(r.filename) \/ Touched(r.filename)
  <2>1. PICK n \in Nat : /\ r.filesize = ToInt(n) /\ r.filename \in File
                         /\ n = InitialFiles[r.filename].size \/ Touched(r.filename)
    BY RequestParts DEF ServeInv
  <2>2. ToInt(n) \in Int /\ ToInt(n) <= n /\ MaxWrite \in Nat
    BY ToIntBound, WebAssumption
  <2> QED
    BY <2>1, <2>2 DEF Large
<1>6. \/ \E n \in 1 .. r.filesize :
           /\ \/ n = r.filesize
              \/ backed < r.filesize \/ r.filesize > MaxWrite \/ c \in gone
           /\ SendBody(c, n)
      \/ backed < r.filesize /\ Die(c)
  BY DEF WriteBody
<1>7. ASSUME NEW n \in 1 .. r.filesize,
             \/ n = r.filesize
             \/ backed < r.filesize \/ r.filesize > MaxWrite \/ c \in gone
      PROVE  /\ n \in Int
             /\ \/ n = r.filesize
                \/ Touched(r.filename) \/ Large(r.filename)
                \/ c \in gone
  BY <1>1, <1>2, <1>5, <1>7
<1> QED
  BY <1>3, <1>4, <1>6, <1>7

LEMMA ForkStep ==
  ASSUME PerConn, NEW r, ServeInv(r, "fork"), Fork(r)
  PROVE  GoesOn /\ ServeInv(r, "wait")'
<1>1. UNCHANGED <<files, wants>> /\ GoesOn
  BY DEF Fork, client, process, GoesOn
<1>2. RequestInv(r)'
  BY <1>1, RequestStable DEF ServeInv, Touched
<1> QED
  BY <1>1, <1>2 DEF ServeInv

LEMMA WaitStep ==
  ASSUME PerConn, NEW r, ServeInv(r, "wait"), Wait(r.conn_fd), \E c \in Conn : child[c] # "none"
  PROVE  GoesOn /\ ServeInv(r, "close")'
<1>1. UNCHANGED <<files, wants>> /\ GoesOn
  BY DEF Wait, client, process, GoesOn
<1>2. RequestInv(r)'
  BY <1>1, RequestStable DEF ServeInv, Touched
<1> QED
  BY <1>1, <1>2 DEF ServeInv

-----------------------------------------------------------------------------
(* Types, of the parts of the state that the steps above change.            *)

LEMMA InitTypes == WebInit => PerConn /\ TypesInv
<1> SUFFICES ASSUME WebInit PROVE PerConn /\ TypesInv
  OBVIOUS
<1>1. \A c \in Conn : reply[c] \in Answer
  BY DEF WebInit, Unanswered, Answer
<1>2. \A c \in Conn : ImageInv(c)
  BY DEF WebInit, ImageInv
<1> QED
  BY <1>1, <1>2 DEF WebInit, PerConn, TypesInv

LEMMA FileTypeType ==
  ASSUME NEW filename
  PROVE  FileType(filename) \in {"text/plain"} \cup Range(MimeType)
<1>1. /\ MimeType[".html"] = "text/html" /\ MimeType[".gif"] = "image/gif"
      /\ MimeType[".jpg"] = "image/jpeg"
  BY DEF MimeType
<1>2. {".html", ".gif", ".jpg"} \subseteq DOMAIN MimeType
  BY DEF MimeType
<1>3. {"text/html", "image/gif", "image/jpeg"} \subseteq Range(MimeType)
  BY <1>1, <1>2 DEF Range
<1> QED
  BY <1>3 DEF FileType

(* The arguments of a script are a part of its URI.                         *)
LEMMA CgiArgs ==
  ASSUME WebInv, NEW r, RequestInv(r)
  PROVE  Len(r.cgiargs) \in Nat
<1>1. PICK uri \in UrisLeft \cap UriRead(r.conn_fd) : r.cgiargs = ParseUri(uri).cgiargs
  BY RequestParts
<1> DEFINE marks == {k \in DOMAIN uri : uri[k] = "?"}
<1>2. uri \in Seq({uri[k] : k \in DOMAIN uri})
  BY UriReadType DEF RequestInv
<1>7. marks \subseteq 1 .. Len(uri) /\ marks \in SUBSET Nat
  BY <1>2
<1>3. r.cgiargs = IF ~ Contains(uri, "cgi") \/ marks = {} THEN <<>>
                  ELSE SubSeq(uri, Min(marks) + 1, Len(uri))
  BY <1>1 DEF ParseUri
<1>4. marks # {} => Min(marks) \in 1 .. Len(uri)
  <2> HIDE DEF marks
  <2> QED
    BY <1>7, MinExists
<1> HIDE DEF marks
<1>5. marks # {} => Len(SubSeq(uri, Min(marks) + 1, Len(uri))) \in Nat
  BY <1>2, <1>4
<1>6. Len(<<>>) \in Nat
  OBVIOUS
<1> QED
  BY <1>3, <1>5, <1>6

LEMMA ImageStable ==
  ASSUME NEW c \in Conn, ImageInv(c),
         wants'[c] = wants[c] \/ child[c] # "running",
         \A f \in File : Touched(f) => Touched(f)',
         child'[c] = "running" => child[c] = "running" /\ image'[c] = image[c],
         child'[c] # "running" =>
           image'[c] = NoImage \/ (child[c] # "running" /\ image'[c] = image[c])
  PROVE  ImageInv(c)'
<1>1. CASE child'[c] = "running"
  <2>1. PICK r : /\ RequestInv(r) /\ r.conn_fd = c /\ ~ r.is_static
                 /\ image[c] = [filename |-> r.filename, cgiargs |-> r.cgiargs]
    BY <1>1 DEF ImageInv
  <2>2. RequestInv(r)'
    BY <1>1, <2>1, RequestStable
  <2> QED
    BY <1>1, <2>1, <2>2 DEF ImageInv
<1>2. CASE child'[c] # "running"
  BY <1>2 DEF ImageInv, NoImage
<1> QED
  BY <1>1, <1>2

LEMMA EnvironmentTypes ==
  ASSUME WebInv, PerConn, TypesInv, Environment
  PROVE  TypesInv'
<1>0. \A f \in File : Touched(f) => Touched(f)'
  BY EnvironmentWeb
<1>1. ASSUME NEW c \in Conn, Connect(c)
      PROVE  TypesInv'
  <2>1. /\ UNCHANGED <<up, fatal, cut, data, child, image, inherited>> /\ gone' \subseteq gone
        /\ child[c] = "none"
        /\ reply' = [reply EXCEPT ![c] = Unanswered]
        /\ \A d \in Conn : d # c => wants'[d] = wants[d]
    BY <1>1 DEF Connect, scripts, process, WebInv
  <2>2. Unanswered \in Answer
    BY DEF Unanswered, Answer
  <2>3. \A d \in Conn : reply'[d] \in Answer
    BY <2>1, <2>2 DEF TypesInv, PerConn
  <2>4. ASSUME NEW d \in Conn
        PROVE  ImageInv(d)'
    BY <1>0, <2>1, ImageStable DEF TypesInv, ImageInv
  <2> QED
    BY <2>1, <2>3, <2>4 DEF TypesInv
<1>2. ASSUME NEW c \in Conn, Send(c) \/ Leave(c)
      PROVE  TypesInv'
  <2>1. /\ UNCHANGED <<up, fatal, cut, data, reply, child, image, inherited, wants>>
        /\ gone' \subseteq gone \cup Impatient
    BY <1>2 DEF Send, Leave, scripts, process
  <2>2. ASSUME NEW d \in Conn
        PROVE  ImageInv(d)'
    BY <1>0, <2>1, ImageStable DEF TypesInv, ImageInv
  <2> QED
    BY <2>1, <2>2 DEF TypesInv
<1>3. ASSUME NEW c \in Conn, ChildWrite(c)
      PROVE  TypesInv'
  <2>1. /\ UNCHANGED <<up, fatal, cut, data, inherited, wants, gone>>
        /\ child[c] = "running" /\ child' = [child EXCEPT ![c] = "written"]
        /\ image' = [image EXCEPT ![c] = NoImage]
        /\ \E n \in {0, Output(image[c].cgiargs)} : reply' = [reply EXCEPT ![c].body = n]
    BY <1>3 DEF ChildWrite, client, process
  <2>2. Output(image[c].cgiargs) \in Int
    BY <2>1, CgiArgs DEF Output, TypesInv, ImageInv
  <2>3. \A d \in Conn : reply'[d] \in Answer
    BY <2>1, <2>2, SMTT(20) DEF TypesInv, PerConn, Answer
  <2>4. ASSUME NEW d \in Conn
        PROVE  ImageInv(d)'
    <3>1. d # c => child'[d] = child[d] /\ image'[d] = image[d]
      BY <2>1 DEF PerConn
    <3>2. child'[c] = "written" /\ image'[c] = NoImage
      BY <2>1 DEF PerConn
    <3> QED
      BY <1>0, <2>1, <3>1, <3>2, ImageStable DEF TypesInv, ImageInv
  <2> QED
    BY <2>1, <2>3, <2>4 DEF TypesInv
<1>4. ASSUME NEW c \in Conn, ChildExit(c)
      PROVE  TypesInv'
  <2>1. /\ UNCHANGED <<up, fatal, cut, data, reply, wants, gone, image>>
        /\ child[c] = "written" /\ child' = [child EXCEPT ![c] = "exited"]
        /\ inherited' = [inherited EXCEPT ![c] = {}]
    BY <1>4 DEF ChildExit, client, process
  <2>2. ASSUME NEW d \in Conn
        PROVE  ImageInv(d)'
    <3>1. d # c => child'[d] = child[d]
      BY <2>1 DEF PerConn
    <3>2. child'[c] = "exited"
      BY <2>1 DEF PerConn
    <3> QED
      BY <1>0, <2>1, <3>1, <3>2, ImageStable DEF TypesInv, ImageInv
  <2> QED
    BY <2>1, <2>2 DEF TypesInv
<1>5. ASSUME NEW f \in File, Truncate(f) \/ Unlink(f)
      PROVE  TypesInv'
  <2>1. UNCHANGED <<up, fatal, cut, wants, sent, gone, reply, child, image, inherited>>
    BY <1>5, FileWeb DEF WebInv, client, scripts, process
  <2>2. ASSUME NEW d \in Conn
        PROVE  ImageInv(d)'
    BY <1>0, <2>1, ImageStable DEF TypesInv, ImageInv
  <2>3. ASSUME NEW d \in Conn
        PROVE  data'[d] = NoData \/ data'[d] \in [filename : File, bytes : Nat]
    <3>1. CASE Unlink(f)
      BY <3>1 DEF Unlink, TypesInv
    <3>2. CASE Truncate(f)
      <4>1. PICK n \in 0 .. files[f].size - 1 :
              data' = [e \in Conn |-> IF data[e].filename = f /\ data[e].bytes > n
                                     THEN [data[e] EXCEPT !.bytes = n]
                                     ELSE data[e]]
        BY <3>2 DEF Truncate
      <4>2. n \in Nat
        OBVIOUS
      <4>3. \/ data'[d] = data[d]
            \/ data[d].bytes > n /\ data'[d] = [data[d] EXCEPT !.bytes = n]
        BY <4>1
      <4>4. data[d] = NoData => ~ (data[d].bytes > n)
        BY <4>2 DEF NoData
      <4> QED
        BY <4>2, <4>3, <4>4 DEF TypesInv
    <3> QED
      BY <1>5, <3>1, <3>2
  <2> QED
    BY <2>1, <2>2, <2>3 DEF TypesInv
<1> QED
  BY <1>1, <1>2, <1>3, <1>4, <1>5 DEF Environment

LEMMA ServerTypes ==
  ASSUME WebInv, PerConn, TypesInv, NEW d \in Conn, ServerStep(d)
  PROVE  TypesInv'
<1>1. Only(d)
  BY ServerStepOnly
<1>2. \A f \in File : Touched(f) => Touched(f)'
  BY <1>1 DEF Only, Touched
<1> DEFINE ProcessType == /\ up' \in BOOLEAN /\ fatal' \in Conn \cup {NoConn}
                          /\ cut' \subseteq Conn
<1>0. /\ UNCHANGED process => ProcessType
      /\ EndProcess(d) => ProcessType /\ UNCHANGED <<reply, child, image, inherited>>
  <2>1. UNCHANGED process => ProcessType
    BY DEF process, TypesInv
  <2>2. ASSUME EndProcess(d)
        PROVE  ProcessType /\ UNCHANGED <<reply, child, image, inherited>>
    <3>1. open \subseteq Conn
      BY DEF WebInv
    <3>2. /\ up' = FALSE /\ fatal' = d /\ cut' = open
          /\ UNCHANGED <<reply, child, image, inherited>>
      BY <2>2, EndStep
    <3> QED
      BY <3>1, <3>2
  <2> QED
    BY <2>1, <2>2
<1>3. ASSUME UNCHANGED <<reply, data, child, image, inherited>>, ProcessType
      PROVE  TypesInv'
  <2>1. ASSUME NEW c \in Conn
        PROVE  ImageInv(c)'
    BY <1>1, <1>2, <1>3, ImageStable DEF TypesInv, ImageInv, Only
  <2> QED
    BY <1>1, <1>3, <2>1 DEF TypesInv, Only
<1>4. ASSUME NEW answer \in Answer, Write(d, answer),
             \/ UNCHANGED data
             \/ data' = [data EXCEPT ![d] = NoData]
      PROVE  TypesInv'
  <2>1. UNCHANGED process \/ EndProcess(d)
    BY <1>4 DEF Write
  <2>4. /\ UNCHANGED <<child, image, inherited>> /\ ProcessType
        /\ \A c \in Conn : reply'[c] \in {reply[c], answer}
    BY <1>0, <1>4, <2>1, WriteStep
  <2>2. ASSUME NEW c \in Conn
        PROVE  ImageInv(c)'
    BY <1>1, <1>2, <2>4, ImageStable DEF TypesInv, ImageInv, Only
  <2>3. \A c \in Conn : data'[c] \in {data[c], NoData}
    BY <1>4 DEF PerConn
  <2> QED
    BY <1>1, <1>4, <2>2, <2>3, <2>4 DEF TypesInv, Only
<1>5. CASE AcceptConn(d) \/ CloseConn(d) \/ Die(d)
  BY <1>0, <1>3, <1>5 DEF AcceptConn, CloseConn, Die, scripts
<1>6. CASE Wait(d)
  <2>1. CASE Die(d)
    BY <1>5, <2>1
  <2>2. CASE /\ \E c \in Conn : child[c] = "exited" /\ child' = [child EXCEPT ![c] = "none"]
             /\ UNCHANGED <<process, reply, data, image, inherited>>
    <3>1. PICK e \in Conn : child[e] = "exited" /\ child' = [child EXCEPT ![e] = "none"]
      BY <2>2
    <3>2. /\ \A c \in Conn : c # e => child'[c] = child[c]
          /\ child'[e] = "none"
      BY <3>1 DEF PerConn
    <3>3. ASSUME NEW c \in Conn
          PROVE  ImageInv(c)'
      BY <1>1, <1>2, <2>2, <3>1, <3>2, ImageStable DEF TypesInv, ImageInv, Only
    <3> QED
      BY <1>0, <1>1, <2>2, <3>1, <3>3 DEF TypesInv, Only
  <2> QED
    BY <1>6, <2>1, <2>2 DEF Wait
<1>7. ASSUME NEW status \in {"501", "404", "403"}, RequestError(d, status)
      PROVE  TypesInv'
  <2>1. Status(status) \in Answer
    BY DEF Status, Unanswered, Answer
  <2> QED
    BY <1>4, <1>7, <2>1 DEF RequestError
<1>8. ASSUME NEW r, r.conn_fd = d, RequestInv(r), MapFile(r)
      PROVE  TypesInv'
  <2>1. CASE Die(d)
    BY <1>5, <2>1
  <2>2. CASE /\ files[r.filename] # Absent /\ r.filesize > 0
             /\ data' = [data EXCEPT ![d] =
                  [filename |-> r.filename, bytes |-> Min({files[r.filename].size, r.filesize})]]
             /\ UNCHANGED <<process, reply, child, image, inherited>>
    <3>1. r.filename \in File /\ r.filesize \in Nat
      BY <1>8, <2>2, RequestParts
    <3>2. files[r.filename].size \in Nat
      BY <2>2, <3>1, InitialFilesType DEF WebInv, FilesInv, Remains
    <3>3. Min({files[r.filename].size, r.filesize}) \in Nat
      BY <3>1, <3>2, MinExists
    <3>4. \A c \in Conn : data'[c] = NoData \/ data'[c] \in [filename : File, bytes : Nat]
      BY <2>2, <3>1, <3>3 DEF TypesInv, PerConn
    <3>5. ASSUME NEW c \in Conn
          PROVE  ImageInv(c)'
      BY <1>1, <1>2, <2>2, ImageStable DEF TypesInv, ImageInv, Only
    <3> QED
      BY <1>0, <1>1, <2>2, <3>4, <3>5 DEF TypesInv, Only
  <2> QED
    BY <1>8, <2>1, <2>2 DEF MapFile, scripts
<1>9. ASSUME NEW r, r.conn_fd = d, RequestInv(r), WriteHead(r)
      PROVE  TypesInv'
  <2>1. HeadFor(r) \in Answer
    BY <1>9, FileTypeType, RequestParts DEF HeadFor, Answer
  <2> QED
    BY <1>4, <1>9, <2>1 DEF WriteHead, HeadFor
<1>10. ASSUME NEW r, r.conn_fd = d, RequestInv(r), WriteBody(r)
       PROVE  TypesInv'
  <2>1. ASSUME NEW n \in Int, SendBody(d, n)
        PROVE  TypesInv'
    <3>1. [reply[d] EXCEPT !.body = n] \in Answer
      BY DEF TypesInv, Answer
    <3> QED
      BY <1>4, <2>1, <3>1 DEF SendBody
  <2>2. r.filesize \in Int
    BY <1>10, RequestParts
  <2>3. CASE Die(d)
    BY <1>5, <2>3
  <2> QED
    BY <1>10, <2>1, <2>2, <2>3 DEF WriteBody
<1>11. ASSUME NEW r, r.conn_fd = d, WriteCgiHead(r)
       PROVE  TypesInv'
  <2>1. Status("200") \in Answer
    BY DEF Status, Unanswered, Answer
  <2> QED
    BY <1>4, <1>11, <2>1 DEF WriteCgiHead
<1>12. ASSUME NEW r, r.conn_fd = d, RequestInv(r), ~ r.is_static, Fork(r)
       PROVE  TypesInv'
  <2>1. /\ UNCHANGED <<process, reply, data>>
        /\ child' = [child EXCEPT ![d] = "running"]
        /\ image' = [image EXCEPT ![d] = [filename |-> r.filename, cgiargs |-> r.cgiargs]]
        /\ inherited' = [inherited EXCEPT ![d] = open]
    BY <1>12 DEF Fork
  <2>2. ImageInv(d)'
    <3>1. RequestInv(r)'
      BY <1>1, <1>2, <1>12, RequestStable DEF Only
    <3> QED
      BY <1>12, <2>1, <3>1 DEF ImageInv, PerConn
  <2>3. ASSUME NEW c \in Conn, c # d
        PROVE  ImageInv(c)'
    <3>1. child'[c] = child[c] /\ image'[c] = image[c]
      BY <2>1, <2>3 DEF PerConn
    <3> QED
      BY <1>1, <1>2, <3>1, ImageStable DEF TypesInv, ImageInv, Only
  <2>4. inherited' \in [Conn -> SUBSET Conn]
    BY <2>1 DEF TypesInv, WebInv
  <2> QED
    BY <1>0, <1>1, <2>1, <2>2, <2>3, <2>4 DEF TypesInv, Only
<1> QED
  BY <1>5, <1>6, <1>7, <1>8, <1>9, <1>10, <1>11, <1>12 DEF ServerStep

LEMMA WebTypes ==
  ASSUME WebInv, TypesInv
  PROVE  WebTypeOK
<1>1. \A f \in File : \/ files[f] = Absent
                      \/ files[f] \in [size : Nat, mode : {InitialFiles[f].mode},
                                       allowed : {InitialFiles[f].allowed}]
  BY InitialFilesType DEF WebInv, FilesInv, Remains
<1>2. ASSUME NEW c \in Conn, image[c] # NoImage
      PROVE  child[c] = "running" /\ image[c].filename \in File
  <2>1. ImageInv(c)
    BY DEF TypesInv
  <2>2. PICK r : /\ RequestInv(r)
                 /\ image[c] = [filename |-> r.filename, cgiargs |-> r.cgiargs]
    BY <1>2, <2>1 DEF ImageInv
  <2>3. r.filename \in File
    BY <2>2, RequestParts
  <2> QED
    BY <1>2, <2>1, <2>2, <2>3 DEF ImageInv
<1> QED
  BY <1>1, <1>2 DEF WebInv, TypesInv, Answer, WebTypeOK

-----------------------------------------------------------------------------
(* Short answers, and the end of the process.                               *)

LEMMA ShortSame ==
  ASSUME NEW c \in Conn, NEW R, NEW S, ShortInv(c, R), c \in R => c \in S,
         reply'[c] = reply[c], child'[c] = "running" => child[c] = "running",
         wants'[c] = wants[c], c \in gone => c \in gone',
         \A f \in File : Touched(f) => Touched(f)'
  PROVE  ShortInv(c, S)'
<1>1. Documents(c)' = Documents(c) /\ Documents(c) \subseteq File
  BY DEF Documents, UriRead
<1> QED
  BY <1>1 DEF ShortInv, Large

LEMMA ShortEnvironment ==
  ASSUME WebInv, PerConn, TypesInv, Environment,
         NEW c \in Conn, NEW R, NEW S, ShortInv(c, R), c \in R => c \in S
  PROVE  ShortInv(c, S)'
<1>0. \A f \in File : Touched(f) => Touched(f)'
  BY EnvironmentWeb
<1>1. CASE Connect(c)
  <2>1. reply'[c] = Unanswered
    BY <1>1 DEF Connect, PerConn
  <2> QED
    BY <2>1 DEF ShortInv, Unanswered
<1>2. ASSUME NEW d \in Conn, Connect(d), d # c
      PROVE  /\ reply'[c] = reply[c] /\ child'[c] = child[c] /\ wants'[c] = wants[c]
             /\ c \in gone => c \in gone'
  BY <1>2 DEF Connect, PerConn, scripts, WebInv
<1>3. ASSUME NEW d \in Conn, Send(d) \/ Leave(d)
      PROVE  /\ reply'[c] = reply[c] /\ child'[c] = child[c] /\ wants'[c] = wants[c]
             /\ c \in gone => c \in gone'
  BY <1>3 DEF Send, Leave, scripts
<1>4. ASSUME NEW d \in Conn, ChildWrite(d), d # c
      PROVE  /\ reply'[c] = reply[c] /\ child'[c] = child[c] /\ wants'[c] = wants[c]
             /\ c \in gone => c \in gone'
  BY <1>4 DEF ChildWrite, client, PerConn
<1>5. ASSUME NEW d \in Conn, ChildExit(d)
      PROVE  /\ reply'[c] = reply[c] /\ wants'[c] = wants[c]
             /\ c \in gone => c \in gone'
             /\ child'[c] = "running" => child[c] = "running"
  BY <1>5 DEF ChildExit, client, PerConn
<1>6. ASSUME NEW f \in File, Truncate(f) \/ Unlink(f)
      PROVE  /\ reply'[c] = reply[c] /\ child'[c] = child[c] /\ wants'[c] = wants[c]
             /\ c \in gone => c \in gone'
  BY <1>6 DEF Truncate, Unlink, client, scripts
(* The script of c writes: there is no Content-Length. *)
<1>7. CASE ChildWrite(c)
  <2>1. reply[c].length = 0
    BY <1>7 DEF ChildWrite, ShortInv
  <2>2. Output(image[c].cgiargs) \in Nat
    BY <1>7, CgiArgs DEF ChildWrite, Output, TypesInv, ImageInv
  <2>3. PICK n \in {0, Output(image[c].cgiargs)} : reply'[c] = [reply[c] EXCEPT !.body = n]
    BY <1>7 DEF ChildWrite, PerConn
  <2>4. reply'[c].length = 0 /\ reply'[c].body = n
    BY <2>1, <2>3 DEF TypesInv, Answer
  <2> QED
    BY <2>2, <2>4 DEF ShortInv
<1> QED
  BY <1>0, <1>1, <1>2, <1>3, <1>4, <1>5, <1>6, <1>7, ShortSame DEF Environment

LEMMA ShortOnly ==
  ASSUME NEW d \in Conn, Only(d), NEW c \in Conn, c # d,
         NEW R, NEW S, ShortInv(c, R), c \in R => c \in S
  PROVE  ShortInv(c, S)'
<1>1. \A f \in File : Touched(f) => Touched(f)'
  BY DEF Only, Touched
<1> QED
  BY <1>1, ShortSame DEF Only

(* An answer with no Content-Length is not short. *)
LEMMA ShortStatus ==
  ASSUME NEW c \in Conn, NEW S, NEW s, reply'[c] = Status(s)
  PROVE  ShortInv(c, S)'
BY DEF ShortInv, Status, Unanswered

LEMMA ShortBody ==
  ASSUME WebInv, PerConn, TypesInv, NEW r, NEW S, ServeInv(r, "body"), WriteBody(r), up'
  PROVE  ShortInv(r.conn_fd, S)'
<1> DEFINE c == r.conn_fd
<1>1. PICK n \in Int : /\ reply'[c] = [HeadFor(r) EXCEPT !.body = n]
                       /\ \/ n = r.filesize
                          \/ Touched(r.filename) \/ Large(r.filename) \/ c \in gone
  BY BodyStep DEF Ends, EndProcess
<1>2. reply'[c].body = n /\ reply'[c].length = r.filesize
  BY <1>1 DEF HeadFor
<1>3. UNCHANGED <<files, wants, gone, child>>
  BY DEF WriteBody, SendBody, Write, Die, EndProcess, client, scripts
<1>4. child'[c] = "none"
  BY <1>3 DEF ServeInv
<1>5. r.filename \in Documents(c) /\ r.filesize \in Int
  BY DocumentServed, RequestParts DEF ServeInv
<1>6. Documents(c)' = Documents(c)
  BY <1>3 DEF Documents, UriRead
<1> QED
  BY <1>1, <1>2, <1>3, <1>4, <1>5, <1>6 DEF ShortInv, Touched, Large

(* Once the process has ended nobody connects: a client that gave it a      *)
(* reason to end goes on giving it.                                         *)
LEMMA MayEndStays ==
  ASSUME WebInv, Environment, ~ up, NEW c, MayEnd(c)
  PROVE  MayEnd(c)'
<1>1. /\ UNCHANGED wants /\ gone \subseteq gone'
      /\ \A f \in File : Touched(f) => Touched(f)'
  <2>1. UNCHANGED wants /\ gone \subseteq gone'
    BY DEF Environment, Connect, Send, Leave, ChildWrite, ChildExit, Truncate, Unlink, client
  <2> QED
    BY <2>1, EnvironmentWeb
<1>2. Documents(c)' = Documents(c) /\ Documents(c) \subseteq File
  BY <1>1 DEF Documents, UriRead
<1>3. \A f \in Documents(c) : Unservable(f)' <=> Unservable(f)
  BY DEF Unservable, ToInt
<1> QED
  BY <1>1, <1>2, <1>3 DEF MayEnd, Touched

LEMMA MayEndSame ==
  ASSUME UNCHANGED <<files, wants, gone>>, NEW c, MayEnd(c)
  PROVE  MayEnd(c)'
<1>1. Documents(c)' = Documents(c)
  BY DEF Documents, UriRead
<1>2. \A f \in Documents(c) : Unservable(f)' <=> Unservable(f)
  BY DEF Unservable, ToInt
<1> QED
  BY <1>1, <1>2 DEF MayEnd

(* StaysUp, at the steps that do not end the process and the ones that do.  *)
LEMMA EndsForReason ==
  ASSUME NEW c, Ends(c)
  PROVE  StaysUp'
<1>1. MayEnd(c)' /\ fatal' = c
  BY EndStep, MayEndSame DEF Ends
<1> QED
  BY <1>1 DEF StaysUp, MayEnd

LEMMA EnvironmentStaysUp ==
  ASSUME WebInv, StaysUp, Environment
  PROVE  StaysUp'
<1>1. UNCHANGED <<up, fatal>>
  BY EnvironmentProcess
<1>2. CASE ~ up
  <2>1. MayEnd(fatal)
    BY <1>2 DEF StaysUp, MayEnd
  <2>2. PICK c : c = fatal
    OBVIOUS
  <2>3. MayEnd(c)'
    BY <1>2, <2>1, <2>2, MayEndStays
  <2> QED
    BY <1>1, <2>2, <2>3 DEF StaysUp, MayEnd
<1> QED
  BY <1>1, <1>2 DEF StaysUp

-----------------------------------------------------------------------------
(* A connection before its request is served.                               *)

LEMMA ServeSame ==
  ASSUME UNCHANGED <<files, wants, reply, data, child>>, NEW r, NEW point, ServeInv(r, point)
  PROVE  ServeInv(r, point)'
<1>1. RequestInv(r)'
  BY RequestStable DEF ServeInv, Touched
<1> QED
  BY <1>1 DEF ServeInv, Mapped, Touched, HeadFor, FileType, Contains

(* A client that connects has a connection with nothing on it, and no step  *)
(* of the environment answers or starts a script before the server does.    *)
LEMMA FreshEnvironment ==
  ASSUME WebInv, PerConn, Environment, up
  PROVE  /\ \A c \in Conn : child[c] = "none" => child'[c] = "none"
         /\ \A c \in open : Fresh(c) => Fresh(c)'
         /\ (\A c \in Waiting : Fresh(c)) => (\A c \in Waiting : Fresh(c))'
<1>1. ASSUME NEW d \in Conn, Connect(d)
      PROVE  /\ UNCHANGED child /\ d \notin open /\ child[d] = "none"
             /\ reply'[d] = Unanswered
             /\ \A c \in Conn : c # d => reply'[c] = reply[c]
             /\ Waiting' \subseteq Waiting \cup {d} /\ Waiting' \subseteq Conn
  <2>1. /\ UNCHANGED child /\ d \notin open /\ child[d] = "none"
        /\ reply' = [reply EXCEPT ![d] = Unanswered]
        /\ backlog' = Append(backlog, d) /\ backlog \in Seq(Conn)
    BY <1>1 DEF Connect, Ended, scripts, WebInv
  <2>2. Waiting' \subseteq Waiting \cup {d} /\ Waiting \subseteq Conn
    BY <2>1 DEF Waiting
  <2> QED
    BY <2>1, <2>2 DEF PerConn
<1>2. ASSUME NEW d \in Conn, Send(d) \/ Leave(d)
      PROVE  UNCHANGED <<reply, child, backlog>>
  BY <1>2 DEF Send, Leave, scripts
<1>3. ASSUME NEW d \in Conn, ChildWrite(d) \/ ChildExit(d)
      PROVE  /\ child[d] # "none" /\ UNCHANGED backlog
             /\ \A c \in Conn : c # d => reply'[c] = reply[c] /\ child'[c] = child[c]
  BY <1>3 DEF ChildWrite, ChildExit, PerConn, ResetUnlessListening, Listening, process
<1>4. ASSUME NEW f \in File, Truncate(f) \/ Unlink(f)
      PROVE  UNCHANGED <<reply, child, backlog>>
  BY <1>4 DEF Truncate, Unlink, scripts
<1>5. Waiting \subseteq Conn /\ open \subseteq Conn
  BY DEF WebInv, Waiting
<1>6. CASE \E d \in Conn : Connect(d)
  BY <1>1, <1>5, <1>6 DEF Fresh
<1>7. CASE UNCHANGED <<reply, child, backlog>>
  BY <1>7 DEF Fresh, Waiting
<1>8. ASSUME NEW d \in Conn, ChildWrite(d) \/ ChildExit(d)
      PROVE  /\ \A c \in Conn : child[c] = "none" => child'[c] = "none"
             /\ \A c \in Conn : Fresh(c) => Fresh(c)'
             /\ Waiting' = Waiting
  BY <1>3, <1>8 DEF Fresh, Waiting
<1> QED
  BY <1>2, <1>4, <1>5, <1>6, <1>7, <1>8 DEF Environment

(* What request_parse accepts is such a request.                            *)
LEMMA OfferedRequest ==
  ASSUME WebInv, NEW c \in Conn, wants[c] # NotGet, NEW uri \in UriRead(c),
         StatOf(uri) # Absent, Permitted(uri)
  PROVE  RequestInv(RequestFor(c, uri, StatOf(uri).size))
<1> DEFINE r == RequestFor(c, uri, StatOf(uri).size)
<1>1. /\ r.conn_fd = c /\ r.filename = ParseUri(uri).filename
      /\ r.is_static = ParseUri(uri).is_static
  BY DEF RequestFor
<1>2. r.filename \in File /\ StatOf(uri) = files[r.filename]
  BY <1>1 DEF StatOf
<1>3. /\ StatOf(uri).size \in 0 .. InitialFiles[r.filename].size
      /\ StatOf(uri).mode = InitialFiles[r.filename].mode
      /\ InitialFiles[r.filename].size \in Nat
  BY <1>2, InitialFilesType DEF WebInv, FilesInv, Remains
<1>4. (IF r.is_static THEN "r" ELSE "x") \in InitialFiles[r.filename].mode
  BY <1>1, <1>3 DEF Permitted
<1>5. \/ StatOf(uri).size = InitialFiles[r.filename].size
      \/ Touched(r.filename)
  BY <1>2 DEF Touched
<1>6. StatOf(uri).size \in Nat
  BY <1>3
<1> HIDE DEF r
<1>7. r = RequestFor(c, uri, StatOf(uri).size)
  BY DEF r
<1>8. RequestInv(r)
  BY <1>1, <1>2, <1>4, <1>5, <1>6, <1>7 DEF RequestInv
<1> QED
  BY <1>7, <1>8
-----------------------------------------------------------------------------
(* The answers, as AnswersTo says them of the whole URI, and what           *)
(* request_parse_uri, stat and request_get_filetype make of it.             *)

Tails(uri) == {SubSeq(uri, k, Len(uri)) : k \in 1 .. Len(uri) + 1}

Marks(uri) == {k \in DOMAIN uri : uri[k] = "?"}

LEMMA FirstMark ==
  ASSUME NEW S, NEW uri \in Seq(S), NEW m \in Marks(uri)
  PROVE  /\ Min(Marks(uri)) \in 1 .. Len(uri) /\ uri[Min(Marks(uri))] = "?"
         /\ \A j \in 1 .. Min(Marks(uri)) - 1 : uri[j] # "?"
         /\ (\A j \in 1 .. m - 1 : uri[j] # "?") => Min(Marks(uri)) = m
<1>1. Marks(uri) \in SUBSET Nat /\ Marks(uri) # {}
  BY DEF Marks
<1>2. PICK n : n = Min(Marks(uri))
  OBVIOUS
<1>3. n \in Marks(uri) /\ \A j \in Marks(uri) : n <= j
  BY <1>1, <1>2, MinExists
<1>4. n \in 1 .. Len(uri) /\ uri[n] = "?"
  BY <1>3 DEF Marks
<1>5. ASSUME NEW j \in 1 .. n - 1
      PROVE  uri[j] # "?"
  <2>1. j \in DOMAIN uri /\ ~ (n <= j)
    BY <1>4
  <2> QED
    BY <1>3, <2>1 DEF Marks
<1>6. (\A j \in 1 .. m - 1 : uri[j] # "?") => n = m
  <2>1. m \in 1 .. Len(uri) /\ n <= m
    BY <1>3 DEF Marks
  <2> QED
    BY <1>4, <2>1
<1> QED
  BY <1>2, <1>4, <1>5, <1>6

LEMMA CutAt ==
  ASSUME NEW S, NEW s \in Seq(S), NEW m \in 1 .. Len(s)
  PROVE  s = SubSeq(s, 1, m - 1) \o <<s[m]>> \o SubSeq(s, m + 1, Len(s))
<1> DEFINE a == SubSeq(s, 1, m - 1)
           b == <<s[m]>>
           c == SubSeq(s, m + 1, Len(s))
<1>1. a \in Seq(S) /\ Len(a) = m - 1 /\ \A j \in 1 .. m - 1 : a[j] = s[j]
  OBVIOUS
<1>2. b \in Seq(S) /\ Len(b) = 1 /\ b[1] = s[m]
  OBVIOUS
<1>3. c \in Seq(S) /\ Len(c) = Len(s) - m /\ \A j \in 1 .. Len(s) - m : c[j] = s[m + j]
  OBVIOUS
<1> HIDE DEF a, b, c
<1>4. PICK ab : ab = a \o b
  OBVIOUS
<1>5. ab \in Seq(S) /\ Len(ab) = m /\ \A j \in 1 .. m : ab[j] = s[j]
  <2>1. m \in Nat /\ Len(a) + Len(b) = m
    BY <1>1, <1>2
  <2>2. /\ ab \in Seq(S) /\ Len(ab) = Len(a) + Len(b)
        /\ \A j \in 1 .. Len(a) + Len(b) : ab[j] = IF j <= Len(a) THEN a[j] ELSE b[j - Len(a)]
    BY <1>1, <1>2, <1>4, ConcatProperties, Zenon
  <2>3. ASSUME NEW j \in 1 .. m PROVE ab[j] = s[j]
    <3>1. CASE j = m
      BY <1>1, <1>2, <2>1, <2>2, <3>1
    <3>2. CASE j # m
      BY <1>1, <1>2, <2>1, <2>2, <3>2
    <3> QED
      BY <3>1, <3>2
  <2>4. ab \in Seq(S) /\ Len(ab) = m
    BY <2>1, <2>2
  <2> QED
    BY <2>3, <2>4
<1>6. ab \o c \in Seq(S) /\ Len(ab \o c) = Len(s)
  BY <1>3, <1>5
<1>7. \A j \in 1 .. Len(s) : (ab \o c)[j] = s[j]
  <2>1. ASSUME NEW j \in 1 .. m PROVE (ab \o c)[j] = s[j]
    BY <1>3, <1>5, <2>1
  <2>2. ASSUME NEW j \in 1 .. Len(s), j > m PROVE (ab \o c)[j] = s[j]
    <3>1. (ab \o c)[j] = c[j - m]
      BY <1>3, <1>5, <2>2
    <3>2. j - m \in 1 .. Len(s) - m /\ m + (j - m) = j
      BY <2>2
    <3> QED
      BY <1>3, <3>1, <3>2
  <2>3. m \in Nat /\ Len(s) \in Nat
    OBVIOUS
  <2>4. ASSUME NEW j \in 1 .. Len(s) PROVE j \in 1 .. m \/ j > m
    BY <2>3
  <2> QED
    BY <2>1, <2>2, <2>4
<1>8. s = ab \o c
  BY <1>6, <1>7, SeqEqual
<1> QED
  BY <1>4, <1>8 DEF a, b, c

(* The parts of a sequence that is cut there. *)
LEMMA CutParts ==
  ASSUME NEW S, NEW f \in Seq(S), NEW x \in S, NEW a \in Seq(S), NEW s, s = f \o <<x>> \o a
  PROVE  /\ s \in Seq(S) /\ Len(s) = Len(f) + 1 + Len(a) /\ s[Len(f) + 1] = x
         /\ \A j \in 1 .. Len(f) : s[j] = f[j]
         /\ SubSeq(s, 1, Len(f)) = f /\ SubSeq(s, Len(f) + 2, Len(s)) = a
<1>1. PICK fx : fx = f \o <<x>>
  OBVIOUS
<1>2. /\ fx \in Seq(S) /\ Len(fx) = Len(f) + 1 /\ fx[Len(f) + 1] = x
      /\ \A j \in 1 .. Len(f) : fx[j] = f[j]
  BY <1>1
<1>3. /\ s \in Seq(S) /\ Len(s) = Len(fx) + Len(a)
      /\ \A j \in 1 .. Len(fx) : s[j] = fx[j]
      /\ \A j \in 1 .. Len(a) : s[Len(fx) + j] = a[j]
  BY <1>1, <1>2
<1>4. Len(f) \in Nat /\ Len(a) \in Nat
  OBVIOUS
<1>5. SubSeq(s, 1, Len(f)) = f
  <2>1. PICK g : g = SubSeq(s, 1, Len(f))
    OBVIOUS
  <2>2. g \in Seq(S) /\ Len(g) = Len(f) /\ \A j \in 1 .. Len(f) : g[j] = s[j]
    BY <1>2, <1>3, <1>4, <2>1
  <2>3. \A j \in 1 .. Len(f) : g[j] = f[j]
    BY <1>2, <1>3, <1>4, <2>2
  <2> QED
    BY <2>1, <2>2, <2>3, SeqEqual
<1>6. SubSeq(s, Len(f) + 2, Len(s)) = a
  <2>1. PICK g : g = SubSeq(s, Len(f) + 2, Len(s))
    OBVIOUS
  <2>2. g \in Seq(S) /\ Len(g) = Len(a) /\ \A j \in 1 .. Len(a) : g[j] = s[Len(f) + 1 + j]
    BY <1>2, <1>3, <1>4, <2>1
  <2>3. \A j \in 1 .. Len(a) : g[j] = a[j]
    BY <1>2, <1>3, <1>4, <2>2
  <2> QED
    BY <2>1, <2>2, <2>3, SeqEqual
<1> QED
  BY <1>2, <1>3, <1>4, <1>5, <1>6

LEMMA ScriptParts ==
  ASSUME NEW uri, uri \in Seq({uri[k] : k \in DOMAIN uri}), IsScript(uri)
  PROVE  /\ ParseUri(uri).filename = IF Marks(uri) = {} THEN uri
                                     ELSE SubSeq(uri, 1, Min(Marks(uri)) - 1)
         /\ ParseUri(uri).cgiargs = IF Marks(uri) = {} THEN <<>>
                                    ELSE SubSeq(uri, Min(Marks(uri)) + 1, Len(uri))
<1>1. ~ ParseUri(uri).is_static
  BY StaticUri
<1>2. Contains(uri, "cgi")
  BY <1>1 DEF ParseUri
<1> QED
  BY <1>2 DEF ParseUri, Marks

(* The name that a client asks for is the one before the first "?", and     *)
(* what follows are the arguments.                                          *)
LEMMA ScriptName ==
  ASSUME NEW uri, uri \in Seq({uri[k] : k \in DOMAIN uri}), IsScript(uri),
         NEW f, f \in Seq({f[k] : k \in DOMAIN f}), NEW a \in Tails(uri),
         AsksForScript(uri, f, a)
  PROVE  f = ParseUri(uri).filename /\ a = ParseUri(uri).cgiargs
<1>1. CASE uri = f /\ a = <<>>
  <2>1. Marks(uri) = {}
    BY <1>1 DEF AsksForScript, Marks
  <2> QED
    BY <1>1, <2>1, ScriptParts
<1>2. CASE uri = f \o <<"?">> \o a
  <2>1. PICK T : T = {uri[k] : k \in DOMAIN uri} \cup {f[k] : k \in DOMAIN f} \cup {"?"}
    OBVIOUS
  <2>2. uri \in Seq(T) /\ f \in Seq(T) /\ "?" \in T
    BY <2>1
  <2>3. PICK k \in 1 .. Len(uri) + 1 : a = SubSeq(uri, k, Len(uri))
    BY DEF Tails
  <2>4. a \in Seq(T)
    BY <2>2, <2>3
  <2>5. PICK m : m = Len(f) + 1
    OBVIOUS
  <2>6. /\ Len(uri) = m + Len(a) /\ uri[m] = "?"
        /\ \A j \in 1 .. Len(f) : uri[j] = f[j]
        /\ SubSeq(uri, 1, Len(f)) = f /\ SubSeq(uri, m + 1, Len(uri)) = a
    <3>1. Len(f) + 1 + 1 = Len(f) + 2
      BY <2>2
    <3> QED
      BY <1>2, <2>2, <2>4, <2>5, <3>1, CutParts
  <2>7. Len(f) \in Nat /\ Len(a) \in Nat /\ m - 1 = Len(f) /\ DOMAIN f = 1 .. Len(f)
    BY <2>2, <2>4, <2>5
  <2>8. m \in Marks(uri)
    <3>1. DOMAIN uri = 1 .. Len(uri)
      BY <2>2
    <3>2. m \in 1 .. Len(uri)
      BY <2>5, <2>6, <2>7
    <3> QED
      BY <2>6, <3>1, <3>2 DEF Marks
  <2>9. \A j \in 1 .. m - 1 : uri[j] # "?"
    BY <2>6, <2>7 DEF AsksForScript
  <2>10. Min(Marks(uri)) = m
    BY <2>2, <2>8, <2>9, FirstMark
  <2> QED
    BY <2>6, <2>7, <2>8, <2>10, ScriptParts
<1> QED
  BY <1>1, <1>2 DEF AsksForScript

LEMMA ScriptParsed ==
  ASSUME NEW uri, uri \in Seq({uri[k] : k \in DOMAIN uri}), IsScript(uri)
  PROVE  /\ ParseUri(uri).cgiargs \in Tails(uri)
         /\ AsksForScript(uri, ParseUri(uri).filename, ParseUri(uri).cgiargs)
<1>0. PICK T : T = {uri[k] : k \in DOMAIN uri}
  OBVIOUS
<1>1. CASE Marks(uri) = {}
  <2>1. ParseUri(uri).filename = uri /\ ParseUri(uri).cgiargs = <<>>
    BY <1>1, ScriptParts
  <2>2. SubSeq(uri, Len(uri) + 1, Len(uri)) = <<>> /\ Len(uri) + 1 \in 1 .. Len(uri) + 1
    OBVIOUS
  <2>3. <<>> \in Tails(uri)
    BY <2>2 DEF Tails
  <2> QED
    BY <1>1, <2>1, <2>3 DEF AsksForScript, Marks
<1>2. CASE Marks(uri) # {}
  <2>1. PICK m : m = Min(Marks(uri))
    OBVIOUS
  <2>2. uri \in Seq(T)
    BY <1>0
  <2>3. m \in 1 .. Len(uri) /\ uri[m] = "?" /\ \A j \in 1 .. m - 1 : uri[j] # "?"
    BY <1>2, <2>1, <2>2, FirstMark
  <2>4. PICK f, a : f = SubSeq(uri, 1, m - 1) /\ a = SubSeq(uri, m + 1, Len(uri))
    OBVIOUS
  <2>5. f = ParseUri(uri).filename /\ a = ParseUri(uri).cgiargs
    BY <1>2, <2>1, <2>4, ScriptParts
  <2>6. m + 1 \in 1 .. Len(uri) + 1
    BY <2>2, <2>3
  <2>7. a \in Tails(uri)
    BY <2>4, <2>6 DEF Tails
  <2>8. uri = f \o <<"?">> \o a
    BY <2>2, <2>3, <2>4, CutAt
  <2>9. \A j \in DOMAIN f : f[j] # "?"
    BY <2>2, <2>3, <2>4
  <2> QED
    BY <2>5, <2>7, <2>8, <2>9 DEF AsksForScript
<1> QED
  BY <1>1, <1>2

LEMMA DocumentName ==
  ASSUME NEW uri, uri \in Seq({uri[k] : k \in DOMAIN uri}), ~ IsScript(uri), NEW f
  PROVE  AsksForDocument(uri, f) <=> f = ParseUri(uri).filename
<1>1. ParseUri(uri).is_static
  BY StaticUri
<1>2. ~ Contains(uri, "cgi")
  BY <1>1 DEF ParseUri
<1> QED
  BY <1>2 DEF ParseUri, AsksForDocument, Last

(* The file that the client of a URI may have asked for.                    *)
Named(uri) ==
  {f \in File : IF IsScript(uri)
               THEN \E k \in 1 .. Len(uri) + 1 : AsksForScript(uri, f, SubSeq(uri, k, Len(uri)))
               ELSE AsksForDocument(uri, f)}

LEMMA NamedIsParsed ==
  ASSUME NEW uri, uri \in Seq({uri[k] : k \in DOMAIN uri})
  PROVE  Named(uri) = {ParseUri(uri).filename} \cap File
<1>1. CASE ~ IsScript(uri)
  <2>1. ASSUME NEW f \in File
        PROVE  f \in Named(uri) <=> f = ParseUri(uri).filename
    BY <1>1, DocumentName DEF Named
  <2> QED
    BY <2>1 DEF Named
<1>2. CASE IsScript(uri)
  <2>1. ASSUME NEW f \in File, f \in Named(uri)
        PROVE  f = ParseUri(uri).filename
    <3>1. f \in Seq({f[k] : k \in DOMAIN f})
      BY NameAssumption DEF File
    <3>2. PICK k \in 1 .. Len(uri) + 1 : AsksForScript(uri, f, SubSeq(uri, k, Len(uri)))
      BY <1>2, <2>1 DEF Named
    <3>3. SubSeq(uri, k, Len(uri)) \in Tails(uri)
      BY <3>2 DEF Tails
    <3> QED
      BY <1>2, <3>1, <3>2, <3>3, ScriptName
  <2>2. ASSUME ParseUri(uri).filename \in File
        PROVE  ParseUri(uri).filename \in Named(uri)
    BY <1>2, <2>2, ScriptParsed DEF Named, Tails
  <2> QED
    BY <2>1, <2>2 DEF Named
<1> QED
  BY <1>1, <1>2

LEMMA ArgsAreParsed ==
  ASSUME NEW uri, uri \in Seq({uri[k] : k \in DOMAIN uri}), IsScript(uri),
         ParseUri(uri).filename \in File
  PROVE  (CHOOSE a \in Tails(uri) : AsksForScript(uri, ParseUri(uri).filename, a))
           = ParseUri(uri).cgiargs
<1>1. PICK f : f = ParseUri(uri).filename
  OBVIOUS
<1>2. f \in Seq({f[k] : k \in DOMAIN f})
  BY <1>1, NameAssumption DEF File
<1>3. \A a \in Tails(uri) : AsksForScript(uri, f, a) => a = ParseUri(uri).cgiargs
  BY <1>2, ScriptName
<1>4. ParseUri(uri).cgiargs \in Tails(uri) /\ AsksForScript(uri, f, ParseUri(uri).cgiargs)
  BY <1>1, ScriptParsed
<1> QED
  BY <1>1, <1>3, <1>4

(* request_parse_uri and request_get_filetype, for every URI: the name, the  *)
(* arguments and the type that they find are those of an answer that the    *)
(* client must get.                                                         *)
THEOREM AnswersParsed ==
  ASSUME NEW uri, uri \in Seq({uri[k] : k \in DOMAIN uri}),
         NEW name, name = ParseUri(uri).filename
  PROVE  /\ name \notin File => AnswersTo(uri) = {Status("404")}
         /\ name \in File =>
              LET mode == InitialFiles[name].mode
                  size == InitialFiles[name].size
              IN  IF IsScript(uri)
                  THEN AnswersTo(uri) = IF "x" \in mode
                                        THEN {[Status("200") EXCEPT !.body =
                                                 Output(ParseUri(uri).cgiargs)]}
                                        ELSE {Status("403")}
                  ELSE IF "r" \in mode
                       THEN [status |-> "200", type |-> FileType(name),
                             length |-> size, body |-> size] \in AnswersTo(uri)
                       ELSE AnswersTo(uri) = {Status("403")}
<1> DEFINE extension(f) == {e \in DOMAIN MimeType : Contains(f, e)}
           types(f) == IF extension(f) = {} THEN {"text/plain"} ELSE {MimeType[e] : e \in extension(f)}
           size(f) == InitialFiles[f].size
           page(f) == {[status |-> "200", length |-> size(f), body |-> size(f), type |-> t] :
                         t \in types(f)}
           args(f) == CHOOSE a \in Tails(uri) : AsksForScript(uri, f, a)
           output(f) == {[Status("200") EXCEPT !.body = Output(args(f))]}
           bit == IF IsScript(uri) THEN "x" ELSE "r"
           told(f) == IF bit \notin InitialFiles[f].mode THEN {Status("403")}
                      ELSE IF IsScript(uri) THEN output(f) ELSE page(f)
<1>1. Named(uri) = {name} \cap File
  BY NamedIsParsed
<1>2. AnswersTo(uri) = IF Named(uri) = {} THEN {Status("404")}
                       ELSE told(CHOOSE f \in File : f \in Named(uri))
  BY DEF AnswersTo, Named, Tails
<1> HIDE DEF told, page, output, types
<1>3. CASE name \notin File
  BY <1>1, <1>2, <1>3
<1>4. CASE name \in File
  <2>1. (CHOOSE f \in File : f \in Named(uri)) = name /\ Named(uri) # {}
    BY <1>1, <1>4
  <2>2. AnswersTo(uri) = told(name)
    BY <1>2, <2>1
  <2>3. CASE IsScript(uri)
    <3>1. args(name) = ParseUri(uri).cgiargs
      BY <1>4, <2>3, ArgsAreParsed
    <3>2. output(name) = {[Status("200") EXCEPT !.body = Output(ParseUri(uri).cgiargs)]}
      BY <3>1 DEF output
    <3>3. told(name) = IF "x" \in InitialFiles[name].mode THEN output(name) ELSE {Status("403")}
      BY <2>3 DEF told
    <3> QED
      BY <1>4, <2>2, <2>3, <3>2, <3>3
  <2>4. CASE ~ IsScript(uri)
    <3>1. told(name) = IF "r" \in InitialFiles[name].mode THEN page(name) ELSE {Status("403")}
      BY <2>4 DEF told
    <3>2. FileType(name) \in types(name)
      BY DEF FileType, MimeType, types
    <3>3. [status |-> "200", type |-> FileType(name), length |-> size(name), body |-> size(name)]
            \in page(name)
      BY <3>2 DEF page
    <3> QED
      BY <1>4, <2>2, <2>4, <3>1, <3>3
  <2> QED
    BY <2>3, <2>4
<1> QED
  BY <1>3, <1>4

LEMMA AnswersOf ==
  ASSUME WebInv, NEW c \in Conn
  PROVE  /\ wants[c] = NotGet => Answers[wants[c]] = {Status("501")}
         /\ wants[c] # NotGet => \A uri \in UriRead(c) : AnswersTo(uri) \subseteq Answers[wants[c]]
<1>1. wants[c] \in Requested
  BY DEF WebInv
<1>2. CASE wants[c] = NotGet
  <2>1. wants[c] # NoUri
    BY <1>2, WebAssumption
  <2>2. Answers[wants[c]] = {Status("501")}
    BY <1>1, <1>2, <2>1 DEF Answers
  <2> QED
    BY <1>2, <2>2
<1>3. CASE wants[c] = NoUri
  <2>1. wants[c] # NotGet /\ UriRead(c) = UrisLeft
    BY <1>3, WebAssumption DEF UriRead
  <2>2. Answers[wants[c]] = UNION {AnswersTo(uri) : uri \in UrisLeft}
    BY <1>1, <1>3, <2>1 DEF Answers
  <2> QED
    BY <2>1, <2>2
<1>4. CASE wants[c] # NotGet /\ wants[c] # NoUri
  <2>1. UriRead(c) = {wants[c]}
    BY <1>4 DEF UriRead
  <2>2. Answers[wants[c]] = AnswersTo(wants[c])
    BY <1>1, <1>4 DEF Answers
  <2> QED
    BY <1>4, <2>1, <2>2
<1> QED
  BY <1>2, <1>3, <1>4

(* Nobody leaves and no file changes; a file that somebody may ask for is   *)
(* not empty and no larger than an int, and than what a write is sure to    *)
(* take, and the server may do with it what its owner may.                  *)
Calm ==
  /\ Impatient = {} /\ Volatile = {}
  /\ \A uri \in UrisLeft : ParseUri(uri).filename \in File =>
       LET file == InitialFiles[ParseUri(uri).filename] IN
       /\ "r" \in file.mode => file.size \in 1 .. IntMax /\ file.size <= MaxWrite
       /\ file.mode \subseteq file.allowed

DocumentFor(r) == [HeadFor(r) EXCEPT !.body = r.filesize]
OutputFor(r) == [Status("200") EXCEPT !.body = Output(r.cgiargs)]

(* What is written for a request, and for one that is refused, is an answer *)
(* to it.                                                                   *)
LEMMA CalmFile ==
  ASSUME Calm, WebInv, files = InitialFiles, NEW r, RequestInv(r)
  PROVE  /\ r.is_static => /\ r.filesize = InitialFiles[r.filename].size
                           /\ r.filesize <= MaxWrite /\ r.filesize \in Int
                           /\ ~ Large(r.filename)
         /\ ~ r.is_static => Executable(r.filename)
<1>1. PICK uri \in UrisLeft, n \in Nat :
        /\ r.filename = ParseUri(uri).filename /\ r.filename \in File
        /\ r.filesize = ToInt(n) /\ r.filesize \in Int
        /\ (IF r.is_static THEN "r" ELSE "x") \in InitialFiles[r.filename].mode
        /\ n = InitialFiles[r.filename].size \/ Touched(r.filename)
  BY RequestParts
<1>2. PICK file : file = InitialFiles[r.filename]
  OBVIOUS
<1>3. /\ "r" \in file.mode => file.size \in 1 .. IntMax /\ file.size <= MaxWrite
      /\ file.mode \subseteq file.allowed /\ file # Absent /\ file.size \in Nat
  BY <1>1, <1>2, InitialFilesType DEF Calm
<1>4. n = file.size
  BY <1>1, <1>2 DEF Touched
<1>5. CASE r.is_static
  <2>1. file.size <= IntMax /\ file.size <= MaxWrite
    BY <1>1, <1>2, <1>3, <1>5
  <2>2. r.filesize = file.size
    BY <1>1, <1>4, <2>1, ToIntBound
  <2>3. MaxWrite \in Nat
    BY WebAssumption
  <2> QED
    BY <1>1, <1>2, <1>3, <1>5, <2>1, <2>2, <2>3 DEF Large
<1>6. CASE ~ r.is_static
  BY <1>1, <1>2, <1>3, <1>6 DEF Executable
<1> QED
  BY <1>5, <1>6

LEMMA RequestAnswered ==
  ASSUME Calm, WebInv, files = InitialFiles, NEW r, RequestInv(r)
  PROVE  (IF r.is_static THEN DocumentFor(r) ELSE OutputFor(r)) \in Answers[wants[r.conn_fd]]
<1>1. PICK uri \in UrisLeft \cap UriRead(r.conn_fd), n \in Nat :
           /\ r.is_static <=> ~ IsScript(uri)
           /\ r.filename = ParseUri(uri).filename /\ r.filename \in File
           /\ r.cgiargs = ParseUri(uri).cgiargs
           /\ r.filesize = ToInt(n)
           /\ (IF r.is_static THEN "r" ELSE "x") \in InitialFiles[r.filename].mode
           /\ n = InitialFiles[r.filename].size \/ Touched(r.filename)
  BY RequestParts
<1>2. r.conn_fd \in Conn /\ wants[r.conn_fd] # NotGet
  BY DEF RequestInv
<1>3. uri \in Seq({uri[k] : k \in DOMAIN uri}) /\ AnswersTo(uri) \subseteq Answers[wants[r.conn_fd]]
  BY <1>1, <1>2, UriReadType, AnswersOf
<1>4. ASSUME r.is_static
      PROVE  r.filesize = InitialFiles[r.filename].size
  BY <1>4, CalmFile
<1>5. CASE r.is_static
  <2>1. [status |-> "200", type |-> FileType(r.filename),
         length |-> r.filesize, body |-> r.filesize] \in AnswersTo(uri)
    BY <1>1, <1>3, <1>4, <1>5, AnswersParsed
  <2>2. DocumentFor(r) = [status |-> "200", type |-> FileType(r.filename),
                          length |-> r.filesize, body |-> r.filesize]
    BY DEF DocumentFor, HeadFor
  <2> QED
    BY <1>3, <1>5, <2>1, <2>2
<1>6. CASE ~ r.is_static
  <2>1. OutputFor(r) \in AnswersTo(uri)
    BY <1>1, <1>3, <1>6, AnswersParsed DEF OutputFor
  <2> QED
    BY <1>3, <1>6, <2>1
<1> QED
  BY <1>5, <1>6

LEMMA RefusalAnswered ==
  ASSUME WebInv, files = InitialFiles, NEW c \in Conn
  PROVE  /\ wants[c] = NotGet => Status("501") \in Answers[wants[c]]
         /\ wants[c] # NotGet =>
              \A uri \in UriRead(c) :
                /\ StatOf(uri) = Absent => Status("404") \in Answers[wants[c]]
                /\ StatOf(uri) # Absent /\ ~ Permitted(uri) => Status("403") \in Answers[wants[c]]
<1>1. CASE wants[c] = NotGet
  BY <1>1, AnswersOf
<1>2. CASE wants[c] # NotGet
  <2> SUFFICES ASSUME NEW uri \in UriRead(c)
               PROVE  /\ StatOf(uri) = Absent => Status("404") \in Answers[wants[c]]
                      /\ StatOf(uri) # Absent /\ ~ Permitted(uri) => Status("403") \in Answers[wants[c]]
    BY <1>2
  <2>1. uri \in Seq({uri[k] : k \in DOMAIN uri}) /\ AnswersTo(uri) \subseteq Answers[wants[c]]
    BY <1>2, UriReadType, AnswersOf
  <2>2. PICK name : name = ParseUri(uri).filename
    OBVIOUS
  <2>3. ASSUME StatOf(uri) = Absent
        PROVE  Status("404") \in AnswersTo(uri)
    <3>1. name \notin File
      BY <2>2, <2>3, InitialFilesType DEF StatOf
    <3> QED
      BY <2>1, <2>2, <3>1, AnswersParsed
  <2>4. ASSUME StatOf(uri) # Absent, ~ Permitted(uri)
        PROVE  Status("403") \in AnswersTo(uri)
    <3>1. name \in File /\ StatOf(uri) = InitialFiles[name]
      BY <2>2, <2>4 DEF StatOf
    <3>2. (IF IsScript(uri) THEN "x" ELSE "r") \notin InitialFiles[name].mode
      BY <2>1, <2>4, <3>1, StaticUri DEF Permitted
    <3> QED
      BY <2>1, <2>2, <3>1, <3>2, AnswersParsed
  <2> QED
    BY <2>1, <2>3, <2>4
<1> QED
  BY <1>1, <1>2

-----------------------------------------------------------------------------
(* The service of one whole answer per request.                             *)

Asking == {c \in Conn : ~ Ended(c)}

Answered(c) == reply[c] \in Answers[wants[c]]

(* The client of c has its answer, or the script is about to write it.      *)
Whole(c) == child[c] = "running" \/ Answered(c)

(* A script holds the connection until it has written the answer.           *)
ScriptInv(c) ==
  /\ child[c] = "running" => c \in inherited[c] /\ reply[c] = Status("200")
  /\ child[c] \in {"written", "exited"} => Answered(c)
  /\ child[c] \in {"none", "exited"} => inherited[c] = {}

(* The server closes a connection only when what its client still has to    *)
(* receive is a script's to write.                                          *)
CalmInv ==
  /\ up /\ gone = {} /\ files = InitialFiles
  /\ \A c \in Conn : /\ ScriptInv(c)
                     /\ c \in Asking /\ c \notin open \cup Waiting => Whole(c)

(* Then nothing gives the process a reason to end.                          *)
LEMMA CalmGoesOn ==
  ASSUME Calm, WebInv, gone = {}, files = InitialFiles, NEW c \in Conn
  PROVE  ~ MayEnd(c)
<1> SUFFICES ASSUME wants[c] # NotGet, NEW f \in Documents(c), Unservable(f)
             PROVE  FALSE
  BY DEF MayEnd
<1>1. PICK uri \in UriRead(c) : f = ParseUri(uri).filename /\ f \in File
  BY DEF Documents
<1>2. uri \in UrisLeft
  BY UriReadType
<1>3. /\ "r" \in InitialFiles[f].mode
      /\ InitialFiles[f].size \in 1 .. IntMax /\ "r" \in InitialFiles[f].allowed
  BY <1>1, <1>2 DEF Calm, Unservable
<1>4. InitialFiles[f].size \in Nat /\ InitialFiles[f].size <= IntMax /\ InitialFiles[f].size > 0
  BY <1>3, WebAssumption
<1>5. ToInt(InitialFiles[f].size) = InitialFiles[f].size
  BY <1>4, ToIntBound
<1> QED
  BY <1>3, <1>4, <1>5 DEF Unservable

LEMMA HeadsOfAnswers ==
  /\ \A s, n : [[Status(s) EXCEPT !.body = n] EXCEPT !.body = 0] = Status(s)
  /\ \A s : [Status(s) EXCEPT !.body = 0] = Status(s)
  /\ \A r : [DocumentFor(r) EXCEPT !.body = 0] = HeadFor(r)
<1>1. \A s : Status(s) = [status |-> s, type |-> "none", length |-> 0, body |-> 0]
  BY DEF Status, Unanswered
<1>2. \A s, n : [Status(s) EXCEPT !.body = n]
                 = [status |-> s, type |-> "none", length |-> 0, body |-> n]
  BY <1>1
<1>3. \A r : DocumentFor(r) = [status |-> "200", type |-> FileType(r.filename),
                              length |-> r.filesize, body |-> r.filesize]
  BY DEF DocumentFor, HeadFor
<1>4. \A r : [DocumentFor(r) EXCEPT !.body = 0] = HeadFor(r)
  BY <1>3 DEF HeadFor
<1> QED
  BY <1>1, <1>2, <1>4

LEMMA InitCalm == WebInit => CalmInv /\ Service!Init
<1> SUFFICES ASSUME WebInit PROVE CalmInv /\ Service!Init
  OBVIOUS
<1>1. \A c \in Conn : Ended(c) /\ ScriptInv(c)
  BY DEF WebInit, Ended, Waiting, ScriptInv
<1>2. CalmInv
  BY <1>1 DEF WebInit, CalmInv, Asking
<1>3. wants \in [Conn -> DOMAIN Answers]
  BY WebAssumption DEF WebInit, Answers
<1>4. reply = [c \in Conn |-> Service!Unanswered]
  BY DEF WebInit, Unanswered, Service!Unanswered
<1> QED
  BY <1>1, <1>2, <1>3, <1>4 DEF Service!Init

LEMMA ServiceAsks ==
  ASSUME NEW c \in Conn, c \notin Asking, Asking' = Asking \cup {c},
         \E want \in Requested : wants' = [wants EXCEPT ![c] = want],
         reply' = [reply EXCEPT ![c] = Unanswered]
  PROVE  Service!Next
<1>1. DOMAIN Answers = Requested /\ Unanswered = Service!Unanswered
  BY DEF Answers, Unanswered, Service!Unanswered
<1>2. Service!Ask(c)
  BY <1>1 DEF Service!Ask, Asking
<1> QED
  BY <1>2 DEF Service!Next

LEMMA ServiceReceives ==
  ASSUME NEW c \in Asking, Asking' = Asking, UNCHANGED wants,
         NEW answer \in Answers[wants[c]],
         \/ reply[c] = Unanswered /\ reply' = [reply EXCEPT ![c] = [answer EXCEPT !.body = 0]]
         \/ reply[c] = [answer EXCEPT !.body = 0] /\ reply' = [reply EXCEPT ![c] = answer]
  PROVE  Service!Next
<1>1. Unanswered = Service!Unanswered /\ Service!HeadOf(answer) = [answer EXCEPT !.body = 0]
  BY DEF Unanswered, Service!Unanswered, Service!HeadOf
<1>2. Service!Receive(c)
  BY <1>1 DEF Service!Receive, Asking
<1> QED
  BY <1>2 DEF Service!Next, Asking

LEMMA ServiceEnds ==
  ASSUME Asking' \subseteq Asking, \A c \in Asking \ Asking' : Answered(c),
         UNCHANGED <<wants, reply>>
  PROVE  Service!Next
<1> DEFINE clients == Asking \ Asking'
<1>1. PICK ended : ended = Asking \ Asking'
  OBVIOUS
<1>2. ended \in SUBSET Asking /\ Asking' = Asking \ ended
  BY <1>1
<1>3. Service!End(ended)
  BY <1>1, <1>2 DEF Service!End, Asking, Answered
<1> QED
  BY <1>2, <1>3 DEF Service!Next, Asking

(* A step that writes nothing, and forks nothing.                           *)
LEMMA QuietCalm ==
  ASSUME CalmInv, UNCHANGED <<up, files, gone, wants, reply, inherited>>,
         \A d \in Conn : child'[d] = child[d] \/ (child[d] = "exited" /\ child'[d] = "none"),
         (open \cup Waiting)' \subseteq open \cup Waiting,
         \A d \in Conn : d \in open \cup Waiting /\ d \notin (open \cup Waiting)' => Whole(d)
  PROVE  /\ CalmInv' /\ Service!Next
         /\ \A d \in Conn : Whole(d) => Whole(d)'
<1>1. ASSUME NEW d \in Conn
      PROVE  ScriptInv(d)' /\ (Whole(d) => Whole(d)')
  BY <1>1 DEF CalmInv, ScriptInv, Whole, Answered
<1>2. Asking' \subseteq Asking
  BY DEF Asking, Ended
<1>3. ASSUME NEW d \in Conn, d \in Asking', d \notin (open \cup Waiting)'
      PROVE  Whole(d)'
  BY <1>1, <1>2, <1>3 DEF CalmInv
<1>4. ASSUME NEW d \in Asking \ Asking'
      PROVE  Answered(d)
  <2>1. d \in Conn /\ d \in open \cup Waiting /\ d \notin (open \cup Waiting)' /\ d \notin inherited[d]
    BY <1>4 DEF Asking, Ended
  <2> QED
    BY <2>1 DEF CalmInv, ScriptInv, Whole
<1> QED
  BY <1>1, <1>2, <1>3, <1>4, ServiceEnds DEF CalmInv

(* A step that writes the head of an answer, or the rest of it.             *)
LEMMA WriteCalm ==
  ASSUME PerConn, CalmInv, NEW c \in Conn, c \in open, child[c] = "none",
         NEW answer \in Answers[wants[c]], NEW text, Write(c, text),
         \/ reply[c] = Unanswered /\ text = [answer EXCEPT !.body = 0]
         \/ reply[c] = [answer EXCEPT !.body = 0] /\ text = answer
  PROVE  /\ CalmInv' /\ Service!Next /\ UNCHANGED <<up, backlog, open>>
         /\ \A d \in Conn : Whole(d) /\ d # c => Whole(d)'
         /\ text = answer => Whole(c)'
<1>1. /\ UNCHANGED <<up, files, wants, gone, backlog, open, child, inherited>>
      /\ reply' = [reply EXCEPT ![c] = text] /\ DOMAIN reply = Conn
  BY DEF Write, CalmInv, client, process, scripts, PerConn
<1>2. Asking' = Asking /\ Waiting' = Waiting /\ c \in Asking
  BY <1>1 DEF Asking, Ended, Waiting
<1>3. Service!Next
  BY <1>1, <1>2, ServiceReceives
<1>4. ASSUME NEW d \in Conn, d # c
      PROVE  ScriptInv(d)' /\ (Whole(d) => Whole(d)')
  <2>1. reply'[d] = reply[d]
    BY <1>1, <1>4
  <2> QED
    BY <1>1, <2>1 DEF CalmInv, ScriptInv, Whole, Answered
<1>5. ScriptInv(c)'
  BY <1>1 DEF CalmInv, ScriptInv
<1>6. text = answer => Whole(c)'
  BY <1>1 DEF Whole, Answered
<1>7. CalmInv'
  BY <1>1, <1>2, <1>4, <1>5 DEF CalmInv
<1> QED
  BY <1>1, <1>3, <1>4, <1>6, <1>7

LEMMA ForkCalm ==
  ASSUME PerConn, CalmInv, NEW r, r.conn_fd \in Conn, r.conn_fd \in open,
         child[r.conn_fd] = "none", reply[r.conn_fd] = Status("200"), Fork(r)
  PROVE  /\ CalmInv' /\ Service!Next /\ UNCHANGED <<up, backlog, open>>
         /\ \A d \in Conn : Whole(d) => Whole(d)'
         /\ Whole(r.conn_fd)'
<1>1. PICK c : c = r.conn_fd
  OBVIOUS
<1>2. /\ UNCHANGED <<up, files, wants, gone, backlog, open, reply>> /\ c \in Conn
      /\ child' = [child EXCEPT ![c] = "running"] /\ inherited' = [inherited EXCEPT ![c] = open]
      /\ DOMAIN child = Conn /\ DOMAIN inherited = Conn
  BY <1>1 DEF Fork, client, process, PerConn
<1>3. inherited[c] = {}
  BY <1>1, <1>2 DEF CalmInv, ScriptInv
<1>4. Asking' = Asking /\ Waiting' = Waiting
  <2>1. Waiting' = Waiting
    BY <1>2 DEF Waiting
  <2>2. ASSUME NEW d \in Conn
        PROVE  Ended(d)' <=> Ended(d)
    BY <1>2, <1>3, <2>1 DEF Ended
  <2> QED
    BY <2>1, <2>2 DEF Asking
<1>5. Service!Next
  BY <1>2, <1>4, ServiceEnds
<1>6. ASSUME NEW d \in Conn
      PROVE  ScriptInv(d)' /\ (Whole(d) => Whole(d)')
  <2>1. CASE d = c
    BY <1>1, <1>2, <2>1 DEF ScriptInv, Whole
  <2>2. CASE d # c
    <3>1. child'[d] = child[d] /\ inherited'[d] = inherited[d]
      BY <1>2, <2>2
    <3> QED
      BY <1>2, <3>1 DEF CalmInv, ScriptInv, Whole, Answered
  <2> QED
    BY <2>1, <2>2
<1>7. Whole(c)'
  BY <1>2 DEF Whole
<1> QED
  BY <1>1, <1>2, <1>4, <1>5, <1>6, <1>7 DEF CalmInv

LEMMA ConnectCalm ==
  ASSUME PerConn, WebInv, CalmInv, NEW c \in Conn, Connect(c)
  PROVE  /\ CalmInv' /\ Service!Next
         /\ \A d \in open : Whole(d) => Whole(d)'
<1>1. /\ UNCHANGED <<up, files, open, child, inherited>> /\ gone' = gone \ {c}
      /\ Ended(c) /\ child[c] = "none" /\ backlog' = Append(backlog, c)
      /\ \E want \in Requested : wants' = [wants EXCEPT ![c] = want]
      /\ reply' = [reply EXCEPT ![c] = Unanswered]
      /\ DOMAIN reply = Conn /\ DOMAIN wants = Conn
  BY DEF Connect, process, scripts, PerConn, WebInv
<1>2. Waiting' = Waiting \cup {c}
  <2>1. backlog \in Seq(Conn)
    BY DEF WebInv
  <2>2. /\ \A k \in DOMAIN backlog : k \in DOMAIN backlog' /\ backlog'[k] = backlog[k]
        /\ Len(backlog) + 1 \in DOMAIN backlog' /\ backlog'[Len(backlog) + 1] = c
        /\ \A k \in DOMAIN backlog' : k \in DOMAIN backlog \/ k = Len(backlog) + 1
    BY <1>1, <2>1
  <2> QED
    BY <2>2 DEF Waiting
<1>3. Asking' = Asking \cup {c} /\ c \notin Asking
  BY <1>1, <1>2 DEF Asking, Ended
<1>4. Service!Next
  BY <1>1, <1>3, ServiceAsks
<1>5. ASSUME NEW d \in Conn, d # c
      PROVE  ScriptInv(d)' /\ (Whole(d) => Whole(d)')
  <2>1. reply'[d] = reply[d] /\ wants'[d] = wants[d]
    BY <1>1, <1>5
  <2> QED
    BY <1>1, <2>1 DEF CalmInv, ScriptInv, Whole, Answered
<1>6. ScriptInv(c)'
  BY <1>1 DEF CalmInv, ScriptInv
<1>7. CalmInv'
  BY <1>1, <1>2, <1>3, <1>5, <1>6 DEF CalmInv
<1>8. open \subseteq Conn /\ c \notin open
  BY <1>1 DEF Ended, WebInv
<1> QED
  BY <1>4, <1>5, <1>7, <1>8

LEMMA ChildWriteCalm ==
  ASSUME Calm, WebInv, PerConn, TypesInv, CalmInv, NEW c \in Conn, ChildWrite(c)
  PROVE  /\ CalmInv' /\ Service!Next
         /\ \A d \in open : Whole(d) => Whole(d)'
<1>1. PICK r : /\ RequestInv(r) /\ r.conn_fd = c /\ ~ r.is_static
               /\ image[c] = [filename |-> r.filename, cgiargs |-> r.cgiargs]
  BY DEF ChildWrite, TypesInv, ImageInv
<1>2. OutputFor(r) \in Answers[wants[c]]
  BY <1>1, RequestAnswered DEF CalmInv
<1>3. Executable(image[c].filename)
  BY <1>1, CalmFile DEF CalmInv
<1>4. child[c] = "running" /\ reply[c] = Status("200") /\ c \in inherited[c]
  BY DEF ChildWrite, CalmInv, ScriptInv
<1>5. /\ UNCHANGED <<up, files, wants, gone, backlog, open, inherited>>
      /\ child' = [child EXCEPT ![c] = "written"]
      /\ reply' = [reply EXCEPT ![c] = OutputFor(r)]
      /\ DOMAIN reply = Conn /\ DOMAIN child = Conn
  <2>1. reply' = [reply EXCEPT ![c].body = Output(r.cgiargs)]
    BY <1>1, <1>3 DEF ChildWrite
  <2> QED
    BY <1>4, <2>1 DEF ChildWrite, client, process, OutputFor, PerConn
<1>6. Asking' = Asking /\ Waiting' = Waiting /\ c \in Asking
  BY <1>4, <1>5 DEF Asking, Ended, Waiting
<1>7. Service!Next
  <2>1. [OutputFor(r) EXCEPT !.body = 0] = Status("200")
    BY HeadsOfAnswers DEF OutputFor
  <2> QED
    BY <1>2, <1>4, <1>5, <1>6, <2>1, ServiceReceives
<1>8. ASSUME NEW d \in Conn
      PROVE  ScriptInv(d)' /\ (Whole(d) => Whole(d)')
  <2>1. CASE d = c
    BY <1>2, <1>5, <2>1 DEF ScriptInv, Whole, Answered
  <2>2. CASE d # c
    <3>1. child'[d] = child[d] /\ reply'[d] = reply[d]
      BY <1>5, <2>2
    <3> QED
      BY <1>5, <3>1 DEF CalmInv, ScriptInv, Whole, Answered
  <2> QED
    BY <2>1, <2>2
<1> QED
  BY <1>5, <1>6, <1>7, <1>8 DEF CalmInv, WebInv

(* When a script ends, the clients whose connections only it still held     *)
(* read the end of file.                                                    *)
LEMMA ChildExitCalm ==
  ASSUME PerConn, WebInv, CalmInv, NEW c \in Conn, ChildExit(c)
  PROVE  /\ CalmInv' /\ Service!Next
         /\ \A d \in open : Whole(d) => Whole(d)'
<1>1. /\ UNCHANGED <<up, files, wants, gone, backlog, open, reply>>
      /\ child[c] = "written" /\ child' = [child EXCEPT ![c] = "exited"]
      /\ inherited' = [inherited EXCEPT ![c] = {}]
      /\ DOMAIN inherited = Conn /\ DOMAIN child = Conn
  BY DEF ChildExit, ResetUnlessListening, Listening, CalmInv, client, process, PerConn
<1>2. ASSUME NEW d \in Conn
      PROVE  ScriptInv(d)' /\ (Whole(d) => Whole(d)')
  <2>1. CASE d = c
    BY <1>1, <2>1 DEF CalmInv, ScriptInv, Whole, Answered
  <2>2. CASE d # c
    <3>1. child'[d] = child[d] /\ inherited'[d] = inherited[d]
      BY <1>1, <2>2
    <3> QED
      BY <1>1, <3>1 DEF CalmInv, ScriptInv, Whole, Answered
  <2> QED
    BY <2>1, <2>2
<1>3. Waiting' = Waiting /\ Asking' \subseteq Asking
  <2>1. Waiting' = Waiting
    BY <1>1 DEF Waiting
  <2>2. \A d \in Conn : inherited'[d] \subseteq inherited[d]
    BY <1>1
  <2> QED
    BY <1>1, <2>1, <2>2 DEF Asking, Ended
<1>4. ASSUME NEW d \in Asking \ Asking'
      PROVE  Answered(d)
  <2>1. d \in Conn /\ d \notin open \cup Waiting /\ d \notin inherited'[d]
    BY <1>1, <1>3, <1>4 DEF Asking, Ended
  <2>2. Whole(d)
    BY <1>4, <2>1 DEF CalmInv, Asking
  <2>3. CASE d = c
    BY <1>1, <2>2, <2>3 DEF Whole
  <2>4. CASE d # c
    <3>1. d \notin inherited[d]
      BY <1>1, <2>1, <2>4
    <3> QED
      BY <2>1, <2>2, <3>1 DEF CalmInv, ScriptInv, Whole
  <2> QED
    BY <2>3, <2>4
<1>5. Service!Next
  BY <1>1, <1>3, <1>4, ServiceEnds
<1> QED
  BY <1>1, <1>2, <1>3, <1>5 DEF CalmInv, WebInv

LEMMA EnvironmentCalm ==
  ASSUME Calm, WebInv, PerConn, TypesInv, CalmInv, Environment
  PROVE  /\ CalmInv' /\ Service!Next
         /\ \A d \in open : Whole(d) => Whole(d)'
<1>1. PICK c \in Conn : Connect(c) \/ Send(c) \/ ChildWrite(c) \/ ChildExit(c)
  BY DEF Environment, Calm, Leave, Truncate, Unlink
<1>2. CASE Send(c)
  <2>1. UNCHANGED <<up, files, gone, wants, reply, inherited, child, open, backlog>>
    BY <1>2 DEF Send, process, scripts
  <2>2. Waiting' = Waiting /\ open \subseteq Conn
    BY <2>1 DEF Waiting, WebInv
  <2> QED
    BY <2>1, <2>2, QuietCalm
<1> QED
  BY <1>1, <1>2, ConnectCalm, ChildWriteCalm, ChildExitCalm

-----------------------------------------------------------------------------
(* The steps of the server for connection c, which has been accepted.       *)

LEMMA AcceptCalm ==
  ASSUME WebInv, CalmInv, NEW c \in Conn, AcceptConn(c)
  PROVE  /\ CalmInv' /\ Service!Next
         /\ \A d \in Conn : Whole(d) => Whole(d)'
<1>1. /\ UNCHANGED <<up, files, gone, wants, reply, inherited, child>>
      /\ backlog # <<>> /\ c = Head(backlog) /\ backlog' = Tail(backlog)
      /\ open' = open \cup {c}
  BY DEF AcceptConn, client, process, scripts
<1>2. backlog \in Seq(Conn)
  BY DEF WebInv
<1>3. /\ 1 \in DOMAIN backlog /\ c = backlog[1]
      /\ \A k \in DOMAIN backlog' : k + 1 \in DOMAIN backlog /\ backlog'[k] = backlog[k + 1]
      /\ \A k \in DOMAIN backlog : k = 1 \/ (k - 1 \in DOMAIN backlog' /\ backlog'[k - 1] = backlog[k])
  BY <1>1, <1>2
<1>4. Waiting' \subseteq Waiting /\ c \in Waiting /\ Waiting \subseteq Waiting' \cup {c}
  BY <1>3 DEF Waiting
<1> QED
  BY <1>1, <1>4, QuietCalm

LEMMA CloseCalm ==
  ASSUME CalmInv, NEW c \in Conn, Whole(c), CloseConn(c)
  PROVE  /\ CalmInv' /\ Service!Next
         /\ \A d \in Conn : Whole(d) => Whole(d)'
<1>1. /\ UNCHANGED <<up, files, gone, wants, reply, inherited, child, backlog>>
      /\ open' = open \ {c}
  BY DEF CloseConn, client, process, scripts
<1>2. Waiting' = Waiting
  BY <1>1 DEF Waiting
<1> QED
  BY <1>1, <1>2, QuietCalm

LEMMA InsideCalm ==
  ASSUME PerConn, CalmInv, up', UNCHANGED web \/ (\E c : Wait(c)) \/ (\E r : MapFile(r))
  PROVE  /\ CalmInv' /\ Service!Next
         /\ \A d \in Conn : Whole(d) => Whole(d)'
<1>1. UNCHANGED <<up, files, gone, wants, reply, inherited, open, backlog>>
  BY DEF web, Die, EndProcess, Wait, MapFile, client, process, scripts, CalmInv
<1>2. \A d \in Conn : child'[d] = child[d] \/ (child[d] = "exited" /\ child'[d] = "none")
  BY DEF web, Die, EndProcess, Wait, MapFile, scripts, PerConn
<1>3. Waiting' = Waiting
  BY <1>1 DEF Waiting
<1> QED
  BY <1>1, <1>2, <1>3, QuietCalm

LEMMA RefuseCalm ==
  ASSUME PerConn, CalmInv, NEW c \in Conn, c \in open, Fresh(c),
         NEW status, Status(status) \in Answers[wants[c]], RequestError(c, status)
  PROVE  /\ CalmInv' /\ Service!Next
         /\ \A d \in Conn : Whole(d) => Whole(d)'
         /\ Whole(c)'
<1>1. [Status(status) EXCEPT !.body = 0] = Status(status)
  BY HeadsOfAnswers
<1>2. Write(c, Status(status))
  BY DEF RequestError
<1>3. child[c] = "none" /\ reply[c] = Unanswered
  BY DEF Fresh
<1>4. /\ CalmInv' /\ Service!Next /\ Whole(c)'
      /\ \A d \in Conn : Whole(d) /\ d # c => Whole(d)'
  BY <1>1, <1>2, <1>3, WriteCalm
<1> QED
  BY <1>4

(* The steps of request_serve. *)
LEMMA ServeCalm ==
  ASSUME Calm, WebInv, PerConn, TypesInv, CalmInv, up',
         NEW r, NEW point, ServeInv(r, point), r.conn_fd \in open,
         \/ point = "map" /\ MapFile(r)
         \/ point = "head" /\ WriteHead(r)
         \/ point = "body" /\ WriteBody(r)
         \/ point = "cgi" /\ WriteCgiHead(r)
         \/ point = "fork" /\ Fork(r)
         \/ point = "wait" /\ Wait(r.conn_fd)
  PROVE  /\ CalmInv' /\ Service!Next
         /\ \A d \in Conn : d # r.conn_fd \/ point = "wait" => (Whole(d) => Whole(d)')
         /\ point \in {"body", "fork"} => Whole(r.conn_fd)'
<1>1. PICK c : c = r.conn_fd
  OBVIOUS
<1>2. c \in Conn /\ c \in open /\ RequestInv(r)
  BY <1>1 DEF ServeInv, RequestInv
<1>3. /\ r.is_static => DocumentFor(r) \in Answers[wants[c]]
      /\ ~ r.is_static => OutputFor(r) \in Answers[wants[c]]
  BY <1>1, <1>2, RequestAnswered DEF CalmInv
<1>4. CASE \/ point = "map" /\ MapFile(r)
           \/ point = "wait" /\ Wait(r.conn_fd)
  BY <1>4, InsideCalm
<1>5. CASE point = "head" /\ WriteHead(r)
  <2>1. [DocumentFor(r) EXCEPT !.body = 0] = HeadFor(r)
    BY HeadsOfAnswers
  <2>2. Write(c, HeadFor(r)) /\ r.is_static /\ child[c] = "none" /\ reply[c] = Unanswered
    BY <1>1, <1>5 DEF WriteHead, HeadFor, ServeInv
  <2>3. /\ CalmInv' /\ Service!Next
        /\ \A d \in Conn : Whole(d) /\ d # c => Whole(d)'
    BY <1>2, <1>3, <2>1, <2>2, WriteCalm
  <2> QED
    BY <1>1, <1>5, <2>3
<1>6. CASE point = "body" /\ WriteBody(r)
  <2>1. [DocumentFor(r) EXCEPT !.body = 0] = HeadFor(r)
    BY HeadsOfAnswers
  <2>2. /\ r.is_static /\ child[c] = "none" /\ reply[c] = HeadFor(r)
        /\ data[c].bytes = r.filesize
    BY <1>1, <1>2, <1>6 DEF ServeInv, Mapped, Touched, CalmInv, RequestInv
  <2>3. r.filesize \in Int /\ r.filesize <= MaxWrite /\ c \notin gone /\ MaxWrite \in Nat
    BY <1>2, <2>2, CalmFile, WebAssumption DEF CalmInv
  <2>4. SendBody(c, r.filesize)
    BY <1>1, <1>6, <2>2, <2>3 DEF WriteBody
  <2>5. Write(c, DocumentFor(r))
    BY <2>2, <2>4 DEF SendBody, DocumentFor
  <2>6. /\ CalmInv' /\ Service!Next /\ Whole(c)'
        /\ \A d \in Conn : Whole(d) /\ d # c => Whole(d)'
    BY <1>2, <1>3, <2>1, <2>2, <2>5, WriteCalm
  <2> QED
    BY <1>1, <1>6, <2>6
<1>7. CASE point = "cgi" /\ WriteCgiHead(r)
  <2>1. [OutputFor(r) EXCEPT !.body = 0] = Status("200")
    BY HeadsOfAnswers DEF OutputFor
  <2>2. Write(c, Status("200")) /\ ~ r.is_static /\ child[c] = "none" /\ reply[c] = Unanswered
    BY <1>1, <1>7 DEF WriteCgiHead, ServeInv
  <2>3. /\ CalmInv' /\ Service!Next
        /\ \A d \in Conn : Whole(d) /\ d # c => Whole(d)'
    BY <1>2, <1>3, <2>1, <2>2, WriteCalm
  <2> QED
    BY <1>1, <1>7, <2>3
<1>8. CASE point = "fork" /\ Fork(r)
  <2>1. child[c] = "none" /\ reply[c] = Status("200")
    BY <1>1, <1>8 DEF ServeInv
  <2>2. /\ CalmInv' /\ Service!Next /\ Whole(c)'
        /\ \A d \in Conn : Whole(d) => Whole(d)'
    BY <1>1, <1>2, <1>8, <2>1, ForkCalm
  <2> QED
    BY <1>1, <1>8, <2>2
<1> QED
  BY <1>4, <1>5, <1>6, <1>7, <1>8

=============================================================================
