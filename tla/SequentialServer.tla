-------------------------- MODULE SequentialServer --------------------------
(***************************************************************************)
(* The server that the concurrent one started from (src/CodeBase): one     *)
(* thread accepts a connection, reads, serves and closes it, and accepts   *)
(* the next.  Its steps for a connection, with its clients, files and CGI  *)
(* children, are those of module Web.                                      *)
(***************************************************************************)
EXTENDS Web

CONSTANT NoRequest

VARIABLES
  main,          \* where the thread is
  conn_fd,       \* its connection
  req            \* what request_handle found out about the request

vars == <<web, main, conn_fd, req>>

Init ==
  /\ WebInit
  /\ main = "accept" /\ conn_fd = NoConn
  /\ req = NoRequest

-----------------------------------------------------------------------------

(* The thread goes from one point of its loop to another, unless the step   *)
(* itself ends the process.                                                 *)
From(here, there) ==
  /\ up /\ main = here
  /\ main' = IF up' THEN there ELSE main

Accept ==
  /\ \/ \E c \in Conn : AcceptConn(c) /\ conn_fd' = c
     \/ AcceptFails /\ UNCHANGED conn_fd
  /\ From("accept", "line")
  /\ UNCHANGED req

(* request_error and the return from request_handle. *)
Refuse(here, status) ==
  /\ RequestError(conn_fd, status)
  /\ From(here, "close")

ReadLine ==
  /\ main = "line"
  /\ \/ ReadFails(conn_fd) /\ From("line", "headers")
     \/ LineRead(conn_fd) /\ FALSE \in MethodIsGet(conn_fd) /\ Refuse("line", "501")
     \/ /\ LineRead(conn_fd) /\ TRUE \in MethodIsGet(conn_fd)
        /\ UNCHANGED web /\ From("line", "headers")
  /\ UNCHANGED <<conn_fd, req>>

ReadHeaders ==
  /\ main = "headers"
  /\ \/ ReadFails(conn_fd)
     \/ HeadersRead(conn_fd) /\ UNCHANGED web
  /\ From("headers", "stat")
  /\ UNCHANGED <<conn_fd, req>>

Found(uri) ==
  /\ req' = RequestFor(conn_fd, uri, StatOf(uri).size)
  /\ UNCHANGED web
  /\ From("stat", IF req'.is_static THEN "map" ELSE "cgi")

(* Mutant: whether the file may be read or executed is not tested. *)
StatNoOwnerTest ==
  /\ main = "stat"
  /\ \E uri \in UriRead(conn_fd) :
       \/ StatOf(uri) = Absent /\ Refuse("stat", "404") /\ UNCHANGED req
       \/ StatOf(uri) # Absent /\ Found(uri)
  /\ UNCHANGED conn_fd

(* request_parse_uri, stat and the tests of the mode. *)
Stat ==
  /\ main = "stat"
  /\ \E uri \in UriRead(conn_fd) :
       \/ StatOf(uri) = Absent /\ Refuse("stat", "404") /\ UNCHANGED req
       \/ /\ StatOf(uri) # Absent
          /\ IF Permitted(uri) THEN Found(uri) ELSE Refuse("stat", "403") /\ UNCHANGED req
  /\ UNCHANGED conn_fd

(* request_serve_static *)
ServeStatic ==
  \/ main = "map" /\ MapFile(req) /\ From("map", "head")
  \/ main = "head" /\ WriteHead(req) /\ From("head", "body")
  \/ main = "body" /\ WriteBody(req) /\ From("body", "close")

(* Mutant: the parent does not wait for the child. *)
ServeDynamicNoWait ==
  \/ main = "cgi" /\ WriteCgiHead(req) /\ From("cgi", "fork")
  \/ main = "fork" /\ Fork(req) /\ From("fork", "close")

(* request_serve_dynamic *)
ServeDynamic ==
  \/ main = "cgi" /\ WriteCgiHead(req) /\ From("cgi", "fork")
  \/ main = "fork" /\ Fork(req) /\ From("fork", "wait")
  \/ main = "wait" /\ Wait(conn_fd) /\ From("wait", "close")

Serve == (ServeStatic \/ ServeDynamic) /\ UNCHANGED <<conn_fd, req>>

(* Mutant: the connection stays open. *)
CloseForgotten ==
  /\ main = "close"
  /\ UNCHANGED web
  /\ From("close", "accept")
  /\ conn_fd' = NoConn /\ req' = NoRequest

Close ==
  /\ main = "close"
  /\ CloseConn(conn_fd)
  /\ From("close", "accept")
  /\ conn_fd' = NoConn /\ req' = NoRequest

Server == Accept \/ ReadLine \/ ReadHeaders \/ Stat \/ Serve \/ Close

-----------------------------------------------------------------------------

Next ==
  \/ Environment /\ UNCHANGED <<main, conn_fd, req>>
  \/ Server

Spec == Init /\ [][Next]_vars

(* The thread runs, scripts answer and end, and clients that are not slow   *)
(* send what they have to say.                                              *)
Fairness ==
  /\ WF_vars(Server)
  /\ \A c \in Conn : WF_vars((ChildWrite(c) \/ ChildExit(c))
                             /\ UNCHANGED <<main, conn_fd, req>>)
  /\ \A c \in Conn \ Slow : WF_vars(Send(c) /\ UNCHANGED <<main, conn_fd, req>>)

FairSpec == Spec /\ Fairness

-----------------------------------------------------------------------------

(* CodeBase/README.md: while it serves a client it can serve no other.  One *)
(* connection is open at a time, a script runs only while its own client is *)
(* the one being served, and every child has been reaped before the next    *)
(* connection is accepted.                                                  *)
OneAtATime ==
  /\ open = IF up THEN {conn_fd} \ {NoConn} ELSE {}
  /\ \A c \in Conn : child[c] # "none" => c = conn_fd
  /\ main = "accept" => \A c \in Conn : child[c] = "none"
=============================================================================
