-------------------------------- MODULE Web ---------------------------------
(***************************************************************************)
(* What surrounds a server process: its clients, the files and the CGI     *)
(* children; and what request.c does for one connection, whichever thread  *)
(* runs it.  Those functions are the same in the sequential server of      *)
(* src/CodeBase and in the concurrent one: modules SequentialServer and    *)
(* WServer say which thread takes which of these steps when.               *)
(*                                                                         *)
(* A connection, its descriptor in the server and its client are one value,*)
(* and clients connect again and again.  The size of a file stands for its *)
(* contents.  A failed assert of an ..._or_die macro, and SIGPIPE, which   *)
(* nobody ignores, end the process with all its threads: up becomes FALSE, *)
(* and the kernel closes what the process has open.                        *)
(***************************************************************************)
EXTENDS Uri, FiniteSets

CONSTANTS
  Conn,         \* connections
  NoConn,
  Slow,         \* the clients that may never send the whole of a request
  Impatient,    \* the clients that may close, or whose connection may be reset,
                \* before they have the answer
  Requested,    \* the URIs of requests, short enough for the arrays into which
                \* request.c copies them; and with them, perhaps,
  NotGet,       \* a request with another method, and
  NoUri,        \* a request line that ends after the method GET
  Absent,       \* instead of a file: stat fails
  InitialFiles, \* the files of the server's directory when it starts: the size
                \* of each, which of its owner's bits "r" and "x" it has, none
                \* of them unless it is a regular file, and what the server's
                \* user, who may be another, is allowed
  Volatile,     \* the files that others truncate or remove meanwhile
  IntMax,       \* INT_MAX
  MaxWrite      \* the most bytes that one write to a socket is sure to take

ASSUME WebAssumption ==
  /\ NoConn \notin Conn /\ IsFiniteSet(Conn)
  /\ Slow \subseteq Conn /\ Impatient \subseteq Conn
  /\ Requested # {}
  /\ \A uri \in Requested \ {NotGet, NoUri} :
       uri # <<>> /\ uri \in Seq({uri[k] : k \in DOMAIN uri})
  /\ NotGet # NoUri
  /\ Volatile \subseteq DOMAIN InitialFiles
  /\ \A f \in DOMAIN InitialFiles :
       InitialFiles[f] \in [size : Nat, mode : SUBSET {"r", "x"}, allowed : SUBSET {"r", "x"}]
  /\ Absent \notin [size : Nat, mode : SUBSET {"r", "x"}, allowed : SUBSET {"r", "x"}]
  /\ IntMax \in Nat /\ MaxWrite \in Nat

(* The names of files are sequences of tokens, as URIs are; <<>> is the     *)
(* server's directory itself.                                               *)
ASSUME NameAssumption ==
  \A f \in DOMAIN InitialFiles : f \in Seq({f[k] : k \in DOMAIN f})

VARIABLES
  up,            \* the server process is running
  fatal,         \* the connection at whose step it ended, or NoConn
  cut,           \* the connections that its end closed
  files,         \* the file system: InitialFiles, or Absent
  wants,         \* what each client asks for
  sent,          \* how much of its request the client has sent
  gone,          \* the clients that have closed their end
  backlog,       \* the connections listen_fd has for accept
  open,          \* the connections whose descriptor the server has open
  reply,         \* what has been written to each connection
  data,          \* the mapping of a file that is served to each connection, and
                 \* how many of its bytes the file still backs
  child,         \* the CGI process that serves each connection
  image,         \* what it is going to execute
  inherited      \* the connections each CGI process has open

client == <<wants, sent, gone>>
scripts == <<child, image, inherited>>
process == <<up, fatal, cut>>
web == <<process, files, client, backlog, open, reply, data, scripts>>

File == DOMAIN InitialFiles
Uris == Requested \ {NotGet, NoUri}

NoData == [filename |-> <<>>, bytes |-> 0]
NoImage == [filename |-> <<>>, cgiargs |-> <<>>]

(* (int) sbuf.st_size, modulo the 2^32 values of an int. *)
ToInt(n) == ((n + IntMax + 1) % (2 * IntMax + 2)) - (IntMax + 1)

Unanswered == [status |-> "none", type |-> "none", length |-> 0, body |-> 0]
Status(s) == [Unanswered EXCEPT !.status = s]

WebInit ==
  /\ up = TRUE /\ fatal = NoConn /\ cut = {}
  /\ files = InitialFiles
  /\ wants = [c \in Conn |-> CHOOSE want \in Requested : TRUE]
  /\ sent = [c \in Conn |-> "none"]
  /\ gone = {}
  /\ backlog = <<>>
  /\ open = {}
  /\ reply = [c \in Conn |-> Unanswered]
  /\ data = [c \in Conn |-> NoData]
  /\ child = [c \in Conn |-> "none"] /\ image = [c \in Conn |-> NoImage]
  /\ inherited = [c \in Conn |-> {}]

-----------------------------------------------------------------------------
(* Clients, other programs and CGI children.                                *)

Waiting == {backlog[k] : k \in DOMAIN backlog}

(* The client's next read returns the end of file: the server has closed    *)
(* the connection, and no CGI process still has a copy of its descriptor.   *)
Ended(c) ==
  /\ c \notin Waiting \cup open
  /\ \A d \in Conn : c \notin inherited[d]

(* listen_fd is open in the server, or in a CGI process that has a copy.    *)
Listening == up \/ \E d \in Conn : child[d] \in {"running", "written"}

(* The last close of listen_fd resets the connections that wait for accept. *)
ResetUnlessListening == backlog' = IF Listening' THEN backlog ELSE <<>>

(* A client connects, the first time or after its last connection ended.    *)
Connect(c) ==
  /\ up
  /\ Ended(c) /\ child[c] = "none"
  /\ \E want \in Requested : wants' = [wants EXCEPT ![c] = want]
  /\ sent' = [sent EXCEPT ![c] = "none"]
  /\ gone' = gone \ {c}
  /\ backlog' = Append(backlog, c)
  /\ reply' = [reply EXCEPT ![c] = Unanswered]
  /\ UNCHANGED <<process, files, open, data, scripts>>

(* It sends the request line, and then the headers and the blank line.      *)
Send(c) ==
  /\ c \in Waiting \cup open /\ c \notin gone
  /\ \/ sent[c] = "none" /\ sent' = [sent EXCEPT ![c] = "line"]
     \/ sent[c] = "line" /\ sent' = [sent EXCEPT ![c] = "all"]
  /\ UNCHANGED <<process, files, wants, gone, backlog, open, reply, data, scripts>>

(* It closes, or its connection is reset: as the server sees it, the same.  *)
Leave(c) ==
  /\ c \in Impatient
  /\ c \in Waiting \cup open
  /\ gone' = gone \cup {c}
  /\ UNCHANGED <<process, files, wants, sent, backlog, open, reply, data, scripts>>

(* Someone truncates a file in place: mappings of it lose the bytes too.    *)
Truncate(f) ==
  /\ f \in Volatile /\ files[f] # Absent
  /\ \E n \in 0 .. files[f].size - 1 :
       /\ files' = [files EXCEPT ![f].size = n]
       /\ data' = [c \in Conn |-> IF data[c].filename = f /\ data[c].bytes > n
                                 THEN [data[c] EXCEPT !.bytes = n]
                                 ELSE data[c]]
  /\ UNCHANGED <<process, client, backlog, open, reply, scripts>>

(* Someone removes a file: mappings of it stay. *)
Unlink(f) ==
  /\ f \in Volatile /\ files[f] # Absent
  /\ files' = [files EXCEPT ![f] = Absent]
  /\ UNCHANGED <<process, client, backlog, open, reply, data, scripts>>

(* What a script writes; its length stands for the answer to its arguments. *)
Output(cgiargs) == 1 + Len(cgiargs)

(* A CGI child: execve and the script's answer; if the script is gone by    *)
(* now, or the server's user may not execute it, an assert ends the child   *)
(* alone.                                                                   *)
Executable(f) == files[f] # Absent /\ "x" \in files[f].allowed

ChildWrite(c) ==
  /\ child[c] = "running"
  /\ child' = [child EXCEPT ![c] = "written"] /\ image' = [image EXCEPT ![c] = NoImage]
  /\ reply' = [reply EXCEPT ![c].body =
                 IF Executable(image[c].filename) THEN Output(image[c].cgiargs) ELSE 0]
  /\ UNCHANGED <<process, files, client, backlog, open, data, inherited>>

ChildExit(c) ==
  /\ child[c] = "written"
  /\ child' = [child EXCEPT ![c] = "exited"]
  /\ inherited' = [inherited EXCEPT ![c] = {}]
  /\ UNCHANGED <<process, files, client, open, reply, data, image>>
  /\ ResetUnlessListening

Environment ==
  \/ \E c \in Conn : \/ Connect(c) \/ Send(c) \/ Leave(c)
                     \/ ChildWrite(c) \/ ChildExit(c)
  \/ \E f \in File : Truncate(f) \/ Unlink(f)

-----------------------------------------------------------------------------
(* The steps of request.c for connection c.  After each of them the thread  *)
(* goes on, if the process is still up.                                     *)

(* The process ends at a step for connection c.  Its threads stop where     *)
(* they are, and nothing reads its mappings any more; its children go on.   *)
EndProcess(c) ==
  /\ up' = FALSE /\ fatal' = c /\ cut' = open
  /\ open' = {}
  /\ UNCHANGED <<files, client, reply, scripts>>
  /\ ResetUnlessListening

(* An assert fails. *)
Die(c) == EndProcess(c) /\ UNCHANGED data

(* write_or_die: after the client has closed its end a write may still      *)
(* succeed, or fail, or raise SIGPIPE.                                      *)
Write(c, answer) ==
  \/ /\ reply' = [reply EXCEPT ![c] = answer]
     /\ UNCHANGED <<process, files, client, backlog, open, scripts>>
  \/ c \in gone /\ EndProcess(c)

(* accept_or_die *)
AcceptConn(c) ==
  /\ backlog # <<>> /\ c = Head(backlog)
  /\ backlog' = Tail(backlog)
  /\ open' = open \cup {c}
  /\ UNCHANGED <<process, files, client, reply, data, scripts>>

(* accept may pass on what happened to the connection meanwhile.            *)
AcceptFails ==
  /\ backlog # <<>> /\ Head(backlog) \in gone
  /\ Die(Head(backlog))

(* close_or_die; that the descriptor is open is a property of the servers.  *)
CloseConn(c) ==
  /\ open' = open \ {c}
  /\ UNCHANGED <<process, files, client, backlog, reply, data, scripts>>

RequestError(c, status) ==
  /\ Write(c, Status(status))
  /\ UNCHANGED data

(* readline has the request line, or the end of file: then sscanf sets none *)
(* of its variables, and method holds whatever was there, perhaps the GET   *)
(* of the request before.                                                   *)
LineRead(c) == sent[c] # "none" \/ c \in gone

(* read_or_die: the read of a connection that was reset fails.              *)
ReadFails(c) == c \in gone /\ Die(c)

MethodIsGet(c) == IF sent[c] = "none" THEN {TRUE, FALSE} ELSE {wants[c] # NotGet}

(* What uri holds after sscanf when the line has none: what an earlier      *)
(* request left there, cut at its first "?" if it was a script's, or what   *)
(* was on the stack: nothing, or a name that is not a file's (<<NoUri>>).   *)
UrisLeft ==
  Uris \cup {ParseUri(uri).filename : uri \in {u \in Uris : IsScript(u)}}
       \cup {<<>>, <<NoUri>>}

UriRead(c) == IF wants[c] = NoUri THEN UrisLeft ELSE {wants[c]}

(* request_read_headers returns after the blank line, and only then: at the *)
(* end of file its loop goes round for ever.                                *)
HeadersRead(c) == sent[c] = "all"

(* stat *)
StatOf(uri) ==
  LET name == ParseUri(uri).filename IN IF name \in File THEN files[name] ELSE Absent

(* A regular file that its owner may read, or execute if it is a script.    *)
Permitted(uri) == (IF ParseUri(uri).is_static THEN "r" ELSE "x") \in StatOf(uri).mode

(* What request_parse finds out: the request_t. *)
RequestFor(c, uri, st_size) ==
  LET parsed == ParseUri(uri) IN
  [conn_fd |-> c, is_static |-> parsed.is_static, filesize |-> ToInt(st_size),
   filename |-> parsed.filename, cgiargs |-> parsed.cgiargs]

(* The size of a file as stat may have seen it. *)
Sizes == UNION {0 .. InitialFiles[f].size : f \in File}

RequestT == {RequestFor(c, uri, n) : c \in Conn, uri \in UrisLeft, n \in Sizes}

(* open, mmap of filesize bytes, close.  stat found that the owner may read *)
(* the file, and open asks whether the server may.  mmap refuses a length   *)
(* that is zero or, as a size_t, enormous.                                  *)
MapFile(req) ==
  LET file == files[req.filename] IN
  IF file # Absent /\ "r" \in file.allowed /\ req.filesize > 0
  THEN /\ data' = [data EXCEPT ![req.conn_fd] =
                     [filename |-> req.filename, bytes |-> Min({file.size, req.filesize})]]
       /\ UNCHANGED <<process, files, client, backlog, open, reply, scripts>>
  ELSE Die(req.conn_fd)

WriteHead(req) ==
  /\ Write(req.conn_fd, [status |-> "200", type |-> FileType(req.filename),
                         length |-> req.filesize, body |-> 0])
  /\ UNCHANGED data

(* The body of n bytes and munmap. *)
SendBody(c, n) ==
  /\ Write(c, [reply[c] EXCEPT !.body = n])
  /\ data' = [data EXCEPT ![c] = NoData]

(* Mutant: the body is written like a string, without its last byte. *)
WriteBodyLessOne(req) == SendBody(req.conn_fd, req.filesize - 1)

(* The body is the mapping, in one write, and whether all of it was written *)
(* is not looked at: the write may stop short if the body is large or the   *)
(* client is gone.  Past the end of the file the mapping cannot be read:    *)
(* then the write fails or stops short, unless the last page ends later     *)
(* than the file and sends zeros.                                           *)
WriteBody(req) ==
  LET c == req.conn_fd
      backed == data[c].bytes
  IN
  \/ /\ backed > 0
     /\ \E n \in 1 .. req.filesize :
          /\ \/ n = req.filesize
             \/ backed < req.filesize \/ req.filesize > MaxWrite \/ c \in gone
          /\ SendBody(c, n)
  \/ backed < req.filesize /\ Die(c)

WriteCgiHead(req) ==
  /\ Write(req.conn_fd, Status("200"))
  /\ UNCHANGED data

(* The child has a copy of every descriptor of the server: none is set to   *)
(* close on exec.                                                           *)
Fork(req) ==
  /\ child' = [child EXCEPT ![req.conn_fd] = "running"]
  /\ image' = [image EXCEPT ![req.conn_fd] =
                 [filename |-> req.filename, cgiargs |-> req.cgiargs]]
  /\ inherited' = [inherited EXCEPT ![req.conn_fd] = open]
  /\ UNCHANGED <<process, files, client, backlog, open, reply, data>>

(* Mutant: all the children that have exited are reaped. *)
WaitReapsAll(fd) ==
  IF \E c \in Conn : child[c] # "none"
  THEN /\ \E c \in Conn : child[c] = "exited"
       /\ child' = [c \in Conn |-> IF child[c] = "exited" THEN "none" ELSE child[c]]
       /\ UNCHANGED <<process, files, client, backlog, open, reply, data, image, inherited>>
  ELSE Die(fd)

(* wait(NULL) returns any child that has exited, whichever thread forked    *)
(* it, and fails when there is no child; fd is the connection of the thread *)
(* that waits.                                                              *)
Wait(fd) ==
  IF \E c \in Conn : child[c] # "none"
  THEN /\ \E c \in Conn : /\ child[c] = "exited"
                          /\ child' = [child EXCEPT ![c] = "none"]
       /\ UNCHANGED <<process, files, client, backlog, open, reply, data, image, inherited>>
  ELSE Die(fd)

-----------------------------------------------------------------------------

WebTypeOK ==
  /\ up \in BOOLEAN /\ fatal \in Conn \cup {NoConn} /\ cut \subseteq Conn
  /\ \A f \in File :
       files[f] = Absent \/ files[f] \in [size : Nat, mode : {InitialFiles[f].mode},
                                         allowed : {InitialFiles[f].allowed}]
  /\ wants \in [Conn -> Requested]
  /\ sent \in [Conn -> {"none", "line", "all"}]
  /\ gone \subseteq Impatient
  /\ backlog \in Seq(Conn)
  /\ open \subseteq Conn
  /\ \A c \in Conn : reply[c] \in [status : {"none", "501", "404", "403", "200"},
                                   type : {"none", "text/plain"} \cup Range(MimeType),
                                   length : Int, body : Int]
  /\ \A c \in Conn : data[c] = NoData \/ data[c] \in [filename : File, bytes : Nat]
  /\ child \in [Conn -> {"none", "running", "written", "exited"}]
  /\ \A c \in Conn : image[c] # NoImage => child[c] = "running" /\ image[c].filename \in File
  /\ inherited \in [Conn -> SUBSET Conn]

(* What the client of a URI may be told; of two extensions in the name of a *)
(* file, either may decide its type.                                        *)
AnswersTo(uri) ==
  LET named == {f \in File : IF IsScript(uri)
                             THEN \E k \in 1 .. Len(uri) + 1 :
                                    AsksForScript(uri, f, SubSeq(uri, k, Len(uri)))
                             ELSE AsksForDocument(uri, f)}
      bit == IF IsScript(uri) THEN "x" ELSE "r"
  IN
  IF named = {} THEN {Status("404")} ELSE
  LET name == CHOOSE f \in File : f \in named
      size == InitialFiles[name].size
      extension == {e \in DOMAIN MimeType : Contains(name, e)}
  IN
  IF bit \notin InitialFiles[name].mode THEN {Status("403")}
  ELSE IF IsScript(uri)
  THEN LET args == CHOOSE a \in {SubSeq(uri, k, Len(uri)) : k \in 1 .. Len(uri) + 1} :
                     AsksForScript(uri, name, a)
       IN  {[Status("200") EXCEPT !.body = Output(args)]}
  ELSE {[status |-> "200", length |-> size, body |-> size, type |-> t] :
          t \in IF extension = {} THEN {"text/plain"} ELSE {MimeType[e] : e \in extension}}

(* What each client may be told: one that names no URI gets any answer.     *)
Answers ==
  [want \in Requested |->
    CASE want = NotGet -> {Status("501")}
      [] want = NoUri -> UNION {AnswersTo(uri) : uri \in UrisLeft}
      [] OTHER -> AnswersTo(want)]

(* The server implements the service of one whole answer per request: what  *)
(* a client reads is the answer to its own request, in order, it is whole   *)
(* when the client reads the end of file, and nothing is written after      *)
(* that, also when the worker of a script was woken by another's end.  This *)
(* holds while no client leaves, no file changes, and the files asked for   *)
(* can be opened, mapped and written at once: Calm in module WebProofs.     *)
Service == INSTANCE WebService
             WITH asking <- {c \in Conn : ~ Ended(c)}

ImplementsService == Service!Spec

(* The static files that the client of c may be served.                     *)
Documents(c) == {ParseUri(uri).filename : uri \in {u \in UriRead(c) : ~ IsScript(u)}} \cap File

(* A client that waits until the end of file gets less of a static answer   *)
(* than its Content-Length only if somebody touched the file, or if it is   *)
(* larger than a write is sure to take, or if the process ended while the   *)
(* connection was open.                                                     *)
ShortOnlyIfTouched ==
  \A c \in Conn :
    (c \notin gone /\ Ended(c) /\ reply[c].body < reply[c].length)
      => \/ c \in cut
         \/ \E f \in Documents(c) :
              files[f] # InitialFiles[f] \/ InitialFiles[f].size > MaxWrite

(* A file that passes the tests of stat, and that open refuses to the       *)
(* server's user, or mmap to everybody.                                     *)
Unservable(f) ==
  /\ "r" \in InitialFiles[f].mode
  /\ "r" \notin InitialFiles[f].allowed \/ ToInt(InitialFiles[f].size) <= 0

(* While descriptors, memory and processes last, the process ends only at a *)
(* step for a connection whose client closed early or was reset, or asks    *)
(* for a static file that changed, that the server's user may not read,     *)
(* that is empty, or whose size does not fit an int.                        *)
StaysUp ==
  ~ up => \/ fatal \in gone
          \/ /\ wants[fatal] # NotGet
             /\ \E f \in Documents(fatal) : files[f] # InitialFiles[f] \/ Unservable(f)

(* Every client that connects and sends its request reads the whole of its  *)
(* answer and then the end of file.                                         *)
EveryClientServed ==
  \A c \in Conn : c \in Waiting ~> Ended(c) /\ reply[c] \in Answers[wants[c]]

(* The same, but that a client of a script may not read the end of file:    *)
(* the worker that has to close its connection may stay in wait, while      *)
(* another one keeps reaping the children in its place.                     *)
EveryClientAnswered ==
  \A c \in Conn :
    c \in Waiting ~> /\ reply[c] \in Answers[wants[c]]
                     /\ \/ Ended(c)
                        \/ \E uri \in UriRead(c) : IsScript(uri)

(* README.md: "The server accepts multiple clients concurrently".  A client *)
(* that sends its request is accepted, whatever the others do.              *)
EveryClientAccepted == \A c \in Conn \ Slow : c \in Waiting ~> c \notin Waiting
=============================================================================
