------------------------------ MODULE WServer -------------------------------
(***************************************************************************)
(* The concurrent server: the acceptor loop of main and worker_fn          *)
(* (wserver.c), request_parse and request_serve (request.c), around the    *)
(* request queue, which buffer.c implements (module Buffer).  The steps    *)
(* for one connection, its client, the files and the CGI children are      *)
(* those of module Web.                                                    *)
(***************************************************************************)
EXTENDS Web

CONSTANTS Worker, Capacity, Policy, NoRequest

ASSUME ServerAssumption ==
  /\ NoRequest \notin RequestT
  /\ Worker # {} /\ IsFiniteSet(Worker)
  /\ Capacity \in Nat \ {0}
  /\ Policy \in {"fifo", "sff"}

VARIABLES
  main, conn_fd,           \* where the acceptor is, and its connection
  queue, offered, taken,   \* module RequestQueue
  worker                   \* where each worker is

buffer == <<queue, offered, taken>>
vars == <<web, main, conn_fd, buffer, worker>>

Buffer == INSTANCE RequestQueue
            WITH Request <- RequestT, FileSize <- [req \in RequestT |-> req.filesize]

Init ==
  /\ WebInit
  /\ main = "accept" /\ conn_fd = NoConn
  /\ Buffer!Init
  /\ worker = [w \in Worker |-> "get"]

-----------------------------------------------------------------------------
(* The acceptor: main's loop, request_parse, buffer_put.                    *)

(* The acceptor goes on, unless the step before ended the process.          *)
GoesTo(point) == main' = IF up' THEN point ELSE main

Accept ==
  /\ up /\ main = "accept"
  /\ \/ \E c \in Conn : AcceptConn(c) /\ conn_fd' = c
     \/ AcceptFails /\ UNCHANGED conn_fd
  /\ GoesTo("line")
  /\ UNCHANGED <<buffer, worker>>

(* request_error, with the close and the return -1 in Refused.              *)
Refuse(status) ==
  /\ RequestError(conn_fd, status)
  /\ GoesTo("refused")
  /\ UNCHANGED <<conn_fd, buffer, worker>>

Refused ==
  /\ up /\ main = "refused"
  /\ CloseConn(conn_fd)
  /\ main' = "accept" /\ conn_fd' = NoConn
  /\ UNCHANGED <<buffer, worker>>

(* Mutant: the return after the 501 is missing. *)
ReadLineNoReturn ==
  /\ up /\ main = "line"
  /\ LineRead(conn_fd)
  /\ main' = "headers"
  /\ \/ FALSE \in MethodIsGet(conn_fd) /\ CloseConn(conn_fd)
     \/ TRUE \in MethodIsGet(conn_fd) /\ UNCHANGED web
  /\ UNCHANGED <<conn_fd, buffer, worker>>

ReadLine ==
  /\ up /\ main = "line"
  /\ \/ ReadFails(conn_fd) /\ UNCHANGED <<main, conn_fd, buffer, worker>>
     \/ LineRead(conn_fd) /\ FALSE \in MethodIsGet(conn_fd) /\ Refuse("501")
     \/ /\ LineRead(conn_fd) /\ TRUE \in MethodIsGet(conn_fd)
        /\ main' = "headers"
        /\ UNCHANGED <<web, conn_fd, buffer, worker>>

ReadHeaders ==
  /\ up /\ main = "headers"
  /\ \/ ReadFails(conn_fd)
     \/ HeadersRead(conn_fd) /\ UNCHANGED web
  /\ GoesTo("stat")
  /\ UNCHANGED <<conn_fd, buffer, worker>>

(* The request_t of the acceptor's connection, and buffer_put is called.    *)
Offer(uri) ==
  /\ Buffer!Offer(RequestFor(conn_fd, uri, StatOf(uri).size))
  /\ main' = "put"
  /\ UNCHANGED <<web, conn_fd, worker>>

(* Mutant: whether the file may be read or executed is not tested. *)
StatNoOwnerTest ==
  /\ up /\ main = "stat"
  /\ \E uri \in UriRead(conn_fd) :
       \/ StatOf(uri) = Absent /\ Refuse("404")
       \/ StatOf(uri) # Absent /\ Offer(uri)

(* request_parse_uri, stat and the tests of the mode. *)
Stat ==
  /\ up /\ main = "stat"
  /\ \E uri \in UriRead(conn_fd) :
       \/ StatOf(uri) = Absent /\ Refuse("404")
       \/ /\ StatOf(uri) # Absent
          /\ IF Permitted(uri) THEN Offer(uri) ELSE Refuse("403")

(* Mutant: a request that finds the queue full is dropped. *)
PutDrops ==
  /\ up /\ main = "put"
  /\ queue' = IF Len(queue) < Capacity THEN Append(queue, offered) ELSE queue
  /\ offered' = NoRequest
  /\ main' = "accept" /\ conn_fd' = NoConn
  /\ UNCHANGED <<web, taken, worker>>

(* Mutant: the put does not wait for a place. *)
PutAlways ==
  /\ up /\ main = "put"
  /\ queue' = Append(queue, offered) /\ offered' = NoRequest
  /\ main' = "accept" /\ conn_fd' = NoConn
  /\ UNCHANGED <<web, taken, worker>>

Put ==
  /\ up /\ main = "put"
  /\ Buffer!Put
  /\ main' = "accept" /\ conn_fd' = NoConn
  /\ UNCHANGED <<web, worker>>

Acceptor == Accept \/ ReadLine \/ ReadHeaders \/ Stat \/ Refused \/ Put

-----------------------------------------------------------------------------
(* A worker: buffer_get, request_serve.                                     *)

(* Worker w, which is up at one point, goes on to another, unless the step  *)
(* itself ends the process.                                                 *)
From(w, here, there) ==
  /\ up /\ worker[w] = here
  /\ worker' = IF up' THEN [worker EXCEPT ![w] = there] ELSE worker
  /\ UNCHANGED <<main, conn_fd>>

Get(w) ==
  /\ Buffer!Get(w)
  /\ UNCHANGED web
  /\ From(w, "get", IF taken'[w].is_static THEN "map" ELSE "cgi")

Close(w) ==
  /\ taken[w] # NoRequest /\ CloseConn(taken[w].conn_fd)
  /\ Buffer!Finish(w)
  /\ From(w, "close", "get")

(* request_serve_static and request_serve_dynamic *)
Serve(w) ==
  /\ taken[w] # NoRequest
  /\ \/ MapFile(taken[w]) /\ From(w, "map", "head")
     \/ WriteHead(taken[w]) /\ From(w, "head", "body")
     \/ WriteBody(taken[w]) /\ From(w, "body", "close")
     \/ WriteCgiHead(taken[w]) /\ From(w, "cgi", "fork")
     \/ Fork(taken[w]) /\ From(w, "fork", "wait")
     \/ Wait(taken[w].conn_fd) /\ From(w, "wait", "close")
  /\ UNCHANGED buffer

WorkerStep(w) == Get(w) \/ Serve(w) \/ Close(w)

-----------------------------------------------------------------------------

Next ==
  \/ Environment /\ UNCHANGED <<main, conn_fd, buffer, worker>>
  \/ Acceptor
  \/ \E w \in Worker : WorkerStep(w)

Spec == Init /\ [][Next]_vars

(* Threads that can run do run; a script answers and ends; a client that is *)
(* not slow sends what it has to say.                                       *)
Fairness ==
  /\ WF_vars(Acceptor)
  /\ \A w \in Worker : WF_vars(WorkerStep(w))
  /\ \A c \in Conn : WF_vars((ChildWrite(c) \/ ChildExit(c))
                             /\ UNCHANGED <<main, conn_fd, buffer, worker>>)
  /\ \A c \in Conn \ Slow : WF_vars(Send(c) /\ UNCHANGED <<main, conn_fd, buffer, worker>>)

FairSpec == Spec /\ Fairness

-----------------------------------------------------------------------------

TypeOK ==
  /\ WebTypeOK
  /\ main \in {"accept", "line", "headers", "stat", "refused", "put"}
  /\ conn_fd \in Conn \cup {NoConn}
  /\ Buffer!TypeOK
  /\ worker \in [Worker -> {"get", "map", "head", "body", "cgi", "fork", "wait", "close"}]

Serving == {w \in Worker : taken[w] # NoRequest}

(* The open descriptors are those of the acceptor's connection, of the      *)
(* queued requests and of the requests being served, each in one of these   *)
(* places: none leaks on an error path, and none is closed twice or while   *)
(* a thread or the queue still has it.  There are then never more than      *)
(* bufsize + threads + 1 of them.  The end of the process closes them all.  *)
OneHolder ==
  /\ open = IF ~ up THEN {}
            ELSE ({conn_fd} \ {NoConn})
                   \cup {queue[k].conn_fd : k \in DOMAIN queue}
                   \cup {taken[w].conn_fd : w \in Serving}
  /\ \A j, k \in DOMAIN queue : queue[j].conn_fd = queue[k].conn_fd => j = k
  /\ \A w \in Serving :
       /\ taken[w].conn_fd # conn_fd
       /\ \A k \in DOMAIN queue : queue[k].conn_fd # taken[w].conn_fd
       /\ \A v \in Serving : taken[v].conn_fd = taken[w].conn_fd => v = w

(* wait_or_die has a child to wait for: every worker in it forked one that  *)
(* nobody has reaped in its place without leaving another.                  *)
ChildForEachWait ==
  Cardinality({w \in Worker : worker[w] = "wait"})
    <= Cardinality({c \in Conn : child[c] # "none"})

(* wserver.c: "Each worker loops forever".                                  *)
WorkersLoopForever == up
=============================================================================
