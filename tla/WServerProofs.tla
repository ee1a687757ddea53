---------------------------- MODULE WServerProofs ----------------------------
(***************************************************************************)
(* For every set of clients, requests and files, every pool and every      *)
(* capacity of the queue: each descriptor of the concurrent server has one *)
(* owner, every wait has a child, the process ends and an answer stays     *)
(* short only for the stated reasons, and the server implements its        *)
(* service.                                                                *)
(***************************************************************************)
EXTENDS WServer, WebProofs, FiniteSetTheorems

QueueFacts == INSTANCE RequestQueueProofs
                WITH Request <- RequestT, FileSize <- [req \in RequestT |-> req.filesize]

(* The acceptor has a connection except at accept, and the request that it  *)
(* offers is that connection's.                                             *)
HoldersInv ==
  /\ conn_fd \in Conn \cup {NoConn}
  /\ main = "accept" <=> conn_fd = NoConn
  /\ offered \in RequestT \cup {NoRequest}
  /\ main = "put" <=> offered # NoRequest
  /\ main = "put" => offered.conn_fd = conn_fd
  /\ queue \in Seq(RequestT)
  /\ taken \in [Worker -> RequestT \cup {NoRequest}]
  /\ \A k \in DOMAIN queue : queue[k].conn_fd # conn_fd
  /\ OneHolder

(* After the headers the request has a URI: when it was not a GET, and the  *)
(* method was read at the end of file, the headers never end.               *)
ReadInv ==
  up => /\ main = "headers" => \/ wants[conn_fd] # NotGet
                               \/ sent[conn_fd] = "none" /\ conn_fd \in gone
        /\ main = "stat" => wants[conn_fd] # NotGet

IInv == WebInv /\ HoldersInv /\ ReadInv

(* Each connection from the backlog to the close, while the server is up.   *)
ServingInv ==
  /\ \A c \in Waiting : Fresh(c)
  /\ main \in {"line", "headers", "stat"} => Fresh(conn_fd)
  /\ main = "refused" => child[conn_fd] = "none"
  /\ main = "put" => ServeInv(offered, "queue")
  /\ \A k \in DOMAIN queue : ServeInv(queue[k], "queue")
  /\ \A w \in Worker : IF taken[w] = NoRequest THEN worker[w] = "get"
                         ELSE worker[w] # "get" /\ ServeInv(taken[w], worker[w])

Receiving == {taken[w].conn_fd : w \in {v \in Serving : worker[v] = "body"}}

RepliesInv == \A c \in Conn : ShortInv(c, Receiving)

PointsInv ==
  /\ main \in {"accept", "line", "headers", "stat", "refused", "put"}
  /\ worker \in [Worker -> {"get", "map", "head", "body", "cgi", "fork", "wait", "close"}]

PoolInv ==
  /\ PointsInv /\ PerConn /\ TypesInv
  /\ ChildForEachWait
  /\ StaysUp
  /\ IF up THEN ServingInv /\ RepliesInv ELSE \A c \in Conn : ShortInv(c, cut)

-----------------------------------------------------------------------------
(* Requests.                                                                *)

LEMMA RequestFields ==
  ASSUME NEW r \in RequestT
  PROVE  r.conn_fd \in Conn /\ r # NoRequest
<1>1. PICK c \in Conn, uri \in UrisLeft, n \in Sizes : r = RequestFor(c, uri, n)
  BY DEF RequestT
<1>2. r.conn_fd = c
  BY <1>1 DEF RequestFor
<1> QED
  BY <1>2, ServerAssumption

(* What the acceptor finds out is a request, since no file grows.           *)
LEMMA RequestForType ==
  ASSUME WebInv, NEW c \in Conn, wants[c] # NotGet,
         NEW uri \in UriRead(c), StatOf(uri) # Absent
  PROVE  /\ RequestFor(c, uri, StatOf(uri).size) \in RequestT
         /\ RequestFor(c, uri, StatOf(uri).size).conn_fd = c
<1> DEFINE name == ParseUri(uri).filename
<1>1. name \in File /\ StatOf(uri) = files[name]
  BY DEF StatOf
<1> HIDE DEF name
<1>2. StatOf(uri) \in Remains(name)
  BY <1>1 DEF WebInv, FilesInv
<1>3. StatOf(uri).size \in Sizes
  BY <1>1, <1>2 DEF Sizes, Remains
<1>4. uri \in UrisLeft
  BY UriReadType
<1>5. RequestFor(c, uri, StatOf(uri).size) \in RequestT
  BY <1>3, <1>4 DEF RequestT
<1> QED
  BY <1>5 DEF RequestFor

-----------------------------------------------------------------------------
(* The environment.                                                         *)

LEMMA InitIInv ==
  Init => IInv
<1> SUFFICES ASSUME Init PROVE IInv
  OBVIOUS
<1>1. WebInv
  BY InitWebInv DEF Init
<1>2. OneHolder
  BY DEF Init, WebInit, Buffer!Init, OneHolder, Serving
<1>3. HoldersInv
  BY <1>2 DEF Init, Buffer!Init, HoldersInv
<1>4. ReadInv
  BY DEF Init, ReadInv
<1> QED
  BY <1>1, <1>3, <1>4 DEF IInv

(* Only a client that is not gone sends, and no client whose connection is  *)
(* open connects.                                                           *)
LEMMA EnvironmentRead ==
  ASSUME IInv, Environment, UNCHANGED <<main, conn_fd>>
  PROVE  ReadInv'
<1>1. SUFFICES ASSUME up, main \in {"headers", "stat"}
               PROVE  ReadInv'
  BY EnvironmentProcess DEF ReadInv
<1>2. conn_fd \in open
  <2>1. conn_fd # NoConn
    BY <1>1 DEF IInv, HoldersInv
  <2> QED
    BY <1>1, <2>1 DEF IInv, HoldersInv, OneHolder
<1>3. /\ wants'[conn_fd] = wants[conn_fd]
      /\ conn_fd \in gone => conn_fd \in gone' /\ sent'[conn_fd] = sent[conn_fd]
  BY <1>2, OpenKeepsClient DEF IInv
<1> QED
  BY <1>1, <1>3 DEF IInv, ReadInv

(* When the process ends nothing is open, and its threads stop.             *)
LEMMA EndIInv ==
  ASSUME IInv, NEW c, EndProcess(c), UNCHANGED <<main, conn_fd, buffer>>
  PROVE  IInv'
<1>1. /\ WebInv' /\ up' = FALSE /\ open' = {}
      /\ UNCHANGED <<main, conn_fd, queue, offered, taken>>
  BY EndWeb, EndStep DEF IInv, buffer
<1>2. OneHolder'
  BY <1>1 DEF IInv, HoldersInv, OneHolder, Serving
<1>3. ReadInv'
  BY <1>1 DEF ReadInv
<1> QED
  BY <1>1, <1>2, <1>3 DEF IInv, HoldersInv

-----------------------------------------------------------------------------
(* The acceptor.                                                            *)

LEMMA AcceptFailsIInv ==
  ASSUME IInv, Accept, AcceptFails, UNCHANGED conn_fd
  PROVE  IInv'
<1>1. EndProcess(Head(backlog))
  BY DEF AcceptFails, Die
<1>2. main' = main /\ UNCHANGED buffer
  BY <1>1, EndStep DEF Accept, GoesTo
<1> QED
  BY <1>1, <1>2, EndIInv

LEMMA AcceptIInv ==
  ASSUME IInv, Accept, \E c \in Conn : AcceptConn(c) /\ conn_fd' = c
  PROVE  IInv'
<1>1. PICK c \in Conn : AcceptConn(c) /\ conn_fd' = c
  OBVIOUS
<1>2. /\ up /\ up' /\ main = "accept" /\ main' = "line"
      /\ UNCHANGED <<queue, offered, taken>>
      /\ backlog # <<>> /\ c = Head(backlog) /\ backlog' = Tail(backlog)
      /\ open' = open \cup {c} /\ UNCHANGED <<files, wants, sent>>
  BY <1>1 DEF Accept, GoesTo, AcceptConn, buffer, client, process
<1>3. /\ backlog \in Seq(Conn) /\ c = backlog[1] /\ 1 \in DOMAIN backlog
      /\ backlog' \in Seq(Conn)
      /\ \A k \in DOMAIN backlog' : k + 1 \in DOMAIN backlog /\ backlog'[k] = backlog[k + 1]
      /\ \A k \in DOMAIN backlog' : k \in Nat /\ k + 1 # 1
  BY <1>2 DEF IInv, WebInv, FilesInv
<1>4. c \notin open
  BY <1>3 DEF IInv, WebInv, FilesInv
<1>5. WebInv'
  <2>1. \A j, k \in DOMAIN backlog' : backlog'[j] = backlog'[k] => j = k
    BY <1>3 DEF IInv, WebInv, FilesInv
  <2>2. \A k \in DOMAIN backlog' : backlog'[k] \notin open'
    BY <1>2, <1>3 DEF IInv, WebInv, FilesInv
  <2> QED
    BY <1>2, <1>3, <2>1, <2>2 DEF IInv, WebInv, FilesInv
<1>6. conn_fd = NoConn /\ offered = NoRequest
  BY <1>2 DEF IInv, HoldersInv
<1>7. OneHolder'
  <2>1. c # NoConn
    BY WebAssumption
  <2>2. open = {queue[k].conn_fd : k \in DOMAIN queue} \cup {taken[w].conn_fd : w \in Serving}
    BY <1>2, <1>6 DEF IInv, HoldersInv, OneHolder
  <2>3. Serving' = Serving
    BY <1>2 DEF Serving
  <2>4. open' = ({conn_fd'} \ {NoConn})
                  \cup {queue'[k].conn_fd : k \in DOMAIN queue'}
                  \cup {taken'[w].conn_fd : w \in Serving'}
    BY <1>1, <1>2, <2>1, <2>2, <2>3
  <2>5. \A w \in Serving : taken[w].conn_fd # c
    BY <1>4, <2>2
  <2> QED
    BY <1>1, <1>2, <2>3, <2>4, <2>5 DEF IInv, HoldersInv, OneHolder
<1>8. \A k \in DOMAIN queue : queue[k].conn_fd # c
  BY <1>2, <1>4 DEF IInv, HoldersInv, OneHolder
<1>9. ReadInv'
  BY <1>2 DEF ReadInv
<1> QED
  BY <1>1, <1>2, <1>5, <1>6, <1>7, <1>8, <1>9, WebAssumption DEF IInv, HoldersInv

(* A step that neither accepts nor closes, with the same requests in the    *)
(* same places.                                                             *)
LEMMA SameHolders ==
  ASSUME IInv, UNCHANGED <<up, backlog, open, wants, sent, files, conn_fd, buffer>>,
         main' = "accept" <=> main = "accept", main' = "put" <=> main = "put", ReadInv'
  PROVE  IInv'
<1>1. WebInv'
  BY DEF IInv, WebInv, FilesInv
<1>2. OneHolder'
  BY DEF IInv, HoldersInv, OneHolder, Serving, buffer
<1> QED
  BY <1>1, <1>2 DEF IInv, HoldersInv, buffer

LEMMA RefuseIInv ==
  ASSUME IInv, NEW status, Refuse(status), main \in {"line", "stat"}
  PROVE  IInv'
<1>1. CASE EndProcess(conn_fd)
  <2>1. UNCHANGED <<main, conn_fd, buffer>>
    BY <1>1, EndStep DEF Refuse, GoesTo
  <2> QED
    BY <1>1, <2>1, EndIInv
<1>2. CASE UNCHANGED <<process, files, client, backlog, open, scripts>>
  <2>1. UNCHANGED <<up, backlog, open, wants, sent, gone, files, conn_fd, buffer>>
    BY <1>2 DEF Refuse, client, process
  <2>2. main' \in {main, "refused"}
    BY DEF Refuse, GoesTo
  <2>3. ReadInv'
    BY <2>1, <2>2 DEF IInv, ReadInv
  <2> QED
    BY <2>1, <2>2, <2>3, SameHolders
<1> QED
  BY <1>1, <1>2 DEF Refuse, RequestError, Write

LEMMA ReadIInv ==
  ASSUME IInv, ReadLine \/ ReadHeaders
  PROVE  IInv'
<1>1. CASE main = "line" /\ Refuse("501")
  BY <1>1, RefuseIInv
<1>2. CASE /\ \/ /\ main = "line" /\ main' = "headers"
                 /\ LineRead(conn_fd) /\ TRUE \in MethodIsGet(conn_fd)
              \/ main = "headers" /\ main' = "stat" /\ HeadersRead(conn_fd)
           /\ up /\ UNCHANGED <<web, conn_fd, buffer, worker>>
  <2>1. UNCHANGED <<up, backlog, open, wants, sent, gone, files, conn_fd, buffer>>
    BY <1>2 DEF web, client, process
  <2>2. ReadInv'
    BY <1>2, <2>1 DEF IInv, ReadInv, LineRead, MethodIsGet, HeadersRead
  <2> QED
    BY <1>2, <2>1, <2>2, SameHolders
<1>3. CASE EndProcess(conn_fd) /\ UNCHANGED <<main, conn_fd, buffer>>
  BY <1>3, EndIInv
<1>4. ReadFails(conn_fd) => EndProcess(conn_fd) /\ up' = FALSE
  BY EndStep DEF ReadFails, Die
<1>5. UNCHANGED web => up' = up
  BY DEF web, process
<1>6. CASE ReadLine
  BY <1>1, <1>2, <1>3, <1>4, <1>6 DEF ReadLine
<1>7. CASE ReadHeaders
  BY <1>2, <1>3, <1>4, <1>5, <1>7 DEF ReadHeaders, GoesTo
<1> QED
  BY <1>6, <1>7

LEMMA OfferIInv ==
  ASSUME IInv, up, main = "stat",
         NEW uri \in UriRead(conn_fd), StatOf(uri) # Absent, Offer(uri)
  PROVE  IInv'
<1> DEFINE r == RequestFor(conn_fd, uri, StatOf(uri).size)
<1>1. conn_fd \in Conn /\ wants[conn_fd] # NotGet
  BY DEF IInv, HoldersInv, ReadInv
<1>2. r \in RequestT /\ r.conn_fd = conn_fd
  BY <1>1, RequestForType DEF IInv
<1>3. /\ offered' = r /\ main' = "put"
      /\ UNCHANGED <<up, queue, taken, backlog, open, wants, sent, files, conn_fd>>
  BY DEF Offer, Buffer!Offer, web, client, process
<1> HIDE DEF r
<1>4. WebInv'
  BY <1>3 DEF IInv, WebInv, FilesInv
<1>5. OneHolder'
  BY <1>3 DEF IInv, HoldersInv, OneHolder, Serving
<1>6. r # NoRequest
  BY <1>2, RequestFields
<1>7. ReadInv'
  BY <1>3 DEF ReadInv
<1> QED
  BY <1>1, <1>2, <1>3, <1>4, <1>5, <1>6, <1>7, WebAssumption DEF IInv, HoldersInv

LEMMA StatIInv ==
  ASSUME IInv, Stat
  PROVE  IInv'
<1>1. up /\ main = "stat"
  BY DEF Stat
<1>2. PICK uri \in UriRead(conn_fd) :
        \/ Refuse("404") \/ Refuse("403")
        \/ StatOf(uri) # Absent /\ Offer(uri)
  BY DEF Stat
<1> QED
  BY <1>1, <1>2, RefuseIInv, OfferIInv

LEMMA RefusedIInv ==
  ASSUME IInv, Refused
  PROVE  IInv'
<1>1. /\ up /\ main = "refused" /\ main' = "accept" /\ conn_fd' = NoConn
      /\ open' = open \ {conn_fd}
      /\ UNCHANGED <<up, backlog, wants, sent, files, queue, offered, taken>>
  BY DEF Refused, CloseConn, buffer, client, process
<1>2. conn_fd \in Conn /\ offered = NoRequest
  BY <1>1 DEF IInv, HoldersInv
<1>3. WebInv'
  BY <1>1 DEF IInv, WebInv, FilesInv
<1>4. \A k \in DOMAIN queue : queue[k].conn_fd \in Conn
  BY RequestFields DEF IInv, HoldersInv
<1>5. \A w \in Serving : taken[w].conn_fd \in Conn
  BY RequestFields DEF IInv, HoldersInv, Serving
<1>6. open' = {queue[k].conn_fd : k \in DOMAIN queue} \cup {taken[w].conn_fd : w \in Serving}
  BY <1>1, <1>2 DEF IInv, HoldersInv, OneHolder
<1>7. OneHolder'
  <2>1. Serving' = Serving
    BY <1>1 DEF Serving
  <2>2. NoConn \notin Conn
    BY WebAssumption
  <2> QED
    BY <1>1, <1>5, <1>6, <2>1, <2>2 DEF IInv, HoldersInv, OneHolder
<1>8. ReadInv'
  BY <1>1 DEF ReadInv
<1> QED
  BY <1>1, <1>2, <1>3, <1>4, <1>7, <1>8, WebAssumption DEF IInv, HoldersInv

LEMMA PutIInv ==
  ASSUME IInv, Put
  PROVE  IInv'
<1>1. /\ up /\ main = "put" /\ main' = "accept" /\ conn_fd' = NoConn
      /\ queue' = Append(queue, offered) /\ offered' = NoRequest
      /\ UNCHANGED <<up, backlog, open, wants, sent, files, taken>>
  BY DEF Put, Buffer!Put, web, client, process
<1>2. /\ queue \in Seq(RequestT) /\ offered \in RequestT /\ offered.conn_fd = conn_fd
      /\ conn_fd \in Conn
  BY <1>1 DEF IInv, HoldersInv
<1>3. /\ queue' \in Seq(RequestT)
      /\ DOMAIN queue' = DOMAIN queue \cup {Len(queue) + 1}
      /\ Len(queue) + 1 \notin DOMAIN queue
      /\ \A k \in DOMAIN queue : queue'[k] = queue[k]
      /\ queue'[Len(queue) + 1] = offered
  BY <1>1, <1>2
<1>4. WebInv'
  BY <1>1 DEF IInv, WebInv, FilesInv
<1>5. Serving' = Serving /\ \A w \in Serving : taken[w].conn_fd \in Conn
  BY <1>1, RequestFields DEF Serving, IInv, HoldersInv
<1>6. \A k \in DOMAIN queue' : queue'[k].conn_fd # NoConn
  <2>1. \A k \in DOMAIN queue' : queue'[k].conn_fd \in Conn
    BY <1>3, RequestFields
  <2>2. NoConn \notin Conn
    BY WebAssumption
  <2> QED
    BY <2>1, <2>2
<1>7. {queue'[k].conn_fd : k \in DOMAIN queue'}
        = {conn_fd} \cup {queue[k].conn_fd : k \in DOMAIN queue}
  BY <1>2, <1>3
<1>8. OneHolder'
  <2>1. open' = ({conn_fd'} \ {NoConn})
                  \cup {queue'[k].conn_fd : k \in DOMAIN queue'}
                  \cup {taken'[w].conn_fd : w \in Serving'}
    <3>1. NoConn # conn_fd
      BY <1>2, WebAssumption
    <3> QED
      BY <1>1, <1>5, <1>7, <3>1 DEF IInv, HoldersInv, OneHolder
  <2>2. \A j, k \in DOMAIN queue' : queue'[j].conn_fd = queue'[k].conn_fd => j = k
    BY <1>2, <1>3 DEF IInv, HoldersInv, OneHolder
  <2>3. \A w \in Serving' :
          /\ taken'[w].conn_fd # conn_fd'
          /\ \A k \in DOMAIN queue' : queue'[k].conn_fd # taken'[w].conn_fd
          /\ \A v \in Serving' : taken'[v].conn_fd = taken'[w].conn_fd => v = w
    BY <1>1, <1>2, <1>3, <1>5, WebAssumption DEF IInv, HoldersInv, OneHolder
  <2> QED
    BY <1>1, <2>1, <2>2, <2>3 DEF OneHolder
<1>9. ReadInv'
  BY <1>1 DEF ReadInv
<1> QED
  BY <1>1, <1>3, <1>4, <1>6, <1>8, <1>9, ServerAssumption DEF IInv, HoldersInv

-----------------------------------------------------------------------------
(* The workers.                                                             *)

LEMMA GetIInv ==
  ASSUME IInv, NEW w \in Worker, Get(w)
  PROVE  IInv'
<1>0. Buffer!Get(w)
  BY DEF Get
<1>1. PICK k \in DOMAIN queue : /\ Buffer!IsNext(queue, k)
                                /\ taken' = [taken EXCEPT ![w] = queue[k]]
                                /\ queue' = RemoveAt(queue, k)
  BY <1>0 DEF Buffer!Get, Buffer!RemoveAt, RemoveAt
<1>2. /\ up /\ taken[w] = NoRequest
      /\ UNCHANGED <<up, backlog, open, wants, sent, gone, files, main, conn_fd, offered>>
  BY <1>0 DEF Get, Buffer!Get, From, web, client, process
<1>3. /\ queue \in Seq(RequestT) /\ k \in 1 .. Len(queue) /\ DOMAIN queue = 1 .. Len(queue)
      /\ taken \in [Worker -> RequestT \cup {NoRequest}]
      /\ queue[k] \in RequestT
  BY DEF IInv, HoldersInv
<1> DEFINE old(j) == IF k <= j THEN j + 1 ELSE j
<1>4. /\ queue' \in Seq(RequestT) /\ DOMAIN queue' = 1 .. Len(queue) - 1
      /\ \A j \in DOMAIN queue' : queue'[j] = queue[old(j)]
  <2>1. /\ RemoveAt(queue, k) \in Seq(RequestT)
        /\ Len(RemoveAt(queue, k)) = Len(queue) - 1
        /\ \A j \in 1 .. Len(queue) - 1 : RemoveAt(queue, k)[j] = queue[old(j)]
    BY <1>3, QueueFacts!RemoveAtLemma DEF RemoveAt, QueueFacts!RemoveAt
  <2> HIDE DEF old
  <2> QED
    BY <1>1, <2>1
<1>5. /\ \A j \in DOMAIN queue' : old(j) \in DOMAIN queue \ {k}
      /\ \A i, j \in DOMAIN queue' : old(i) = old(j) => i = j
      /\ \A i \in DOMAIN queue \ {k} : \E j \in DOMAIN queue' : old(j) = i
  <2>1. Len(queue) \in Nat /\ k \in Nat
    BY <1>3
  <2>2. ASSUME NEW i \in DOMAIN queue \ {k}
        PROVE  \E j \in DOMAIN queue' : old(j) = i
    <3>1. CASE i < k
      <4>1. i \in DOMAIN queue' /\ old(i) = i
        BY <1>3, <1>4, <2>1, <2>2, <3>1
      <4> QED
        BY <4>1
    <3>2. CASE i > k
      <4>1. i - 1 \in DOMAIN queue' /\ old(i - 1) = i
        BY <1>3, <1>4, <2>1, <2>2, <3>2
      <4> QED
        BY <4>1
    <3> QED
      BY <1>3, <2>1, <2>2, <3>1, <3>2
  <2>3. \A j \in DOMAIN queue' : old(j) \in DOMAIN queue \ {k}
    BY <1>3, <1>4, <2>1
  <2>4. \A i, j \in DOMAIN queue' : old(i) = old(j) => i = j
    BY <1>3, <1>4, <2>1
  <2> QED
    BY <2>2, <2>3, <2>4
<1> HIDE DEF old
<1>6. {queue[i].conn_fd : i \in DOMAIN queue}
        = {queue[k].conn_fd} \cup {queue'[j].conn_fd : j \in DOMAIN queue'}
  BY <1>3, <1>4, <1>5
<1>7. /\ taken' \in [Worker -> RequestT \cup {NoRequest}]
      /\ taken'[w] = queue[k] /\ \A v \in Worker \ {w} : taken'[v] = taken[v]
  BY <1>1, <1>3
<1>8. Serving' = Serving \cup {w} /\ w \notin Serving
  BY <1>2, <1>3, <1>7, RequestFields DEF Serving
<1>9. WebInv'
  BY <1>2 DEF IInv, WebInv, FilesInv
<1>10. OneHolder'
  <2>1. {taken'[v].conn_fd : v \in Serving'}
          = {queue[k].conn_fd} \cup {taken[v].conn_fd : v \in Serving}
    BY <1>7, <1>8 DEF Serving
  <2>2. open' = ({conn_fd'} \ {NoConn})
                  \cup {queue'[j].conn_fd : j \in DOMAIN queue'}
                  \cup {taken'[v].conn_fd : v \in Serving'}
    BY <1>2, <1>6, <2>1 DEF IInv, HoldersInv, OneHolder
  <2>3. \A i, j \in DOMAIN queue' : queue'[i].conn_fd = queue'[j].conn_fd => i = j
    BY <1>4, <1>5 DEF IInv, HoldersInv, OneHolder
  <2>4. ASSUME NEW v \in Serving'
        PROVE  /\ taken'[v].conn_fd # conn_fd'
               /\ \A j \in DOMAIN queue' : queue'[j].conn_fd # taken'[v].conn_fd
               /\ \A u \in Serving' : taken'[u].conn_fd = taken'[v].conn_fd => u = v
    <3>0. /\ Serving \subseteq Worker
          /\ \A u \in Serving : taken'[u] = taken[u] /\ taken[u].conn_fd # queue[k].conn_fd
          /\ \A i \in DOMAIN queue : i # k => queue[i].conn_fd # queue[k].conn_fd
          /\ queue[k].conn_fd # conn_fd
      BY <1>3, <1>7, <1>8 DEF IInv, HoldersInv, OneHolder, Serving
    <3>1. CASE v = w
      <4>1. \A j \in DOMAIN queue' : queue'[j].conn_fd # queue[k].conn_fd
        BY <1>4, <1>5, <3>0
      <4>2. \A u \in Serving' : taken'[u].conn_fd = queue[k].conn_fd => u = w
        BY <1>8, <3>0
      <4> QED
        BY <1>2, <1>7, <3>0, <3>1, <4>1, <4>2
    <3>2. CASE v \in Serving
      <4>1. /\ taken[v].conn_fd # conn_fd
            /\ \A i \in DOMAIN queue : queue[i].conn_fd # taken[v].conn_fd
            /\ \A u \in Serving : taken[u].conn_fd = taken[v].conn_fd => u = v
        BY <3>2 DEF IInv, HoldersInv, OneHolder
      <4>2. \A j \in DOMAIN queue' : queue'[j].conn_fd # taken[v].conn_fd
        BY <1>4, <1>5, <4>1
      <4>3. \A u \in Serving' : taken'[u].conn_fd = taken[v].conn_fd => u = v
        BY <1>7, <1>8, <3>0, <3>2, <4>1
      <4> QED
        BY <1>2, <3>0, <3>2, <4>1, <4>2, <4>3
    <3> QED
      BY <1>8, <2>4, <3>1, <3>2
  <2> QED
    BY <1>2, <2>2, <2>3, <2>4 DEF OneHolder
<1>11. \A j \in DOMAIN queue' : queue'[j].conn_fd # conn_fd'
  BY <1>2, <1>4, <1>5 DEF IInv, HoldersInv
<1>12. ReadInv'
  BY <1>2 DEF IInv, ReadInv
<1> QED
  BY <1>2, <1>4, <1>7, <1>9, <1>10, <1>11, <1>12 DEF IInv, HoldersInv

LEMMA ServeIInv ==
  ASSUME IInv, NEW w \in Worker, Serve(w)
  PROVE  IInv'
<1>1. UNCHANGED <<main, conn_fd, buffer>>
  BY DEF Serve, From
<1>2. \/ UNCHANGED <<process, files, client, backlog, open>>
      \/ \E c : EndProcess(c)
  BY DEF Serve, MapFile, WriteHead, WriteBody, SendBody, WriteCgiHead, Fork, Wait, Write, Die
<1>3. CASE UNCHANGED <<process, files, client, backlog, open>>
  <2>1. UNCHANGED <<up, backlog, open, wants, sent, gone, files>>
    BY <1>3 DEF process, client
  <2>2. ReadInv'
    BY <1>1, <2>1 DEF IInv, ReadInv
  <2> QED
    BY <1>1, <2>1, <2>2, SameHolders
<1> QED
  BY <1>1, <1>2, <1>3, EndIInv

LEMMA CloseIInv ==
  ASSUME IInv, NEW w \in Worker, Close(w)
  PROVE  IInv'
<1>1. /\ taken[w] # NoRequest /\ taken' = [taken EXCEPT ![w] = NoRequest]
      /\ up /\ open' = open \ {taken[w].conn_fd}
      /\ UNCHANGED <<up, backlog, wants, sent, gone, files, main, conn_fd, queue, offered>>
  BY DEF Close, CloseConn, Buffer!Finish, From, client, process
<1>2. taken \in [Worker -> RequestT \cup {NoRequest}]
  BY DEF IInv, HoldersInv
<1>3. /\ taken' \in [Worker -> RequestT \cup {NoRequest}]
      /\ Serving' = Serving \ {w} /\ w \in Serving
      /\ \A v \in Serving' : taken'[v] = taken[v]
  BY <1>1, <1>2 DEF Serving
<1>4. WebInv'
  BY <1>1 DEF IInv, WebInv, FilesInv
<1>5. OneHolder'
  <2>1. open' = ({conn_fd'} \ {NoConn})
                  \cup {queue'[k].conn_fd : k \in DOMAIN queue'}
                  \cup {taken'[v].conn_fd : v \in Serving'}
    BY <1>1, <1>3 DEF IInv, HoldersInv, OneHolder
  <2> QED
    BY <1>1, <1>3, <2>1 DEF IInv, HoldersInv, OneHolder
<1>6. ReadInv'
  BY <1>1 DEF IInv, ReadInv
<1> QED
  BY <1>1, <1>3, <1>4, <1>5, <1>6 DEF IInv, HoldersInv

-----------------------------------------------------------------------------

(* The strengthened invariant holds of every behaviour. *)
THEOREM IInvHolds == Spec => []IInv
<1>1. ASSUME IInv, [Next]_vars
      PROVE  IInv'
  <2>1. CASE Environment /\ UNCHANGED <<main, conn_fd, buffer, worker>>
    <3>1. WebInv' /\ UNCHANGED <<up, open>>
      BY <1>1, <2>1, EnvironmentWeb, EnvironmentProcess DEF IInv
    <3>2. OneHolder'
      BY <1>1, <2>1, <3>1 DEF IInv, HoldersInv, OneHolder, Serving, buffer
    <3>3. ReadInv'
      BY <1>1, <2>1, EnvironmentRead
    <3> QED
      BY <1>1, <2>1, <3>1, <3>2, <3>3 DEF IInv, HoldersInv, buffer
  <2>2. CASE Acceptor
    <3>1. CASE Accept
      BY <1>1, <3>1, AcceptIInv, AcceptFailsIInv DEF Accept
    <3> QED
      BY <1>1, <2>2, <3>1, ReadIInv, StatIInv, RefusedIInv, PutIInv DEF Acceptor
  <2>3. CASE \E w \in Worker : WorkerStep(w)
    BY <1>1, <2>3, GetIInv, ServeIInv, CloseIInv DEF WorkerStep
  <2>4. CASE UNCHANGED vars
    <3>1. UNCHANGED <<up, backlog, open, wants, sent, gone, files, main, conn_fd, buffer>>
      BY <2>4 DEF vars, web, client, process
    <3>2. ReadInv'
      BY <1>1, <3>1 DEF IInv, ReadInv
    <3> QED
      BY <1>1, <3>1, <3>2, SameHolders
  <2> QED
    BY <1>1, <2>1, <2>2, <2>3, <2>4 DEF Next
<1> QED
  BY InitIInv, <1>1, PTL DEF Spec

(* No error path of request_parse leaks a descriptor, and none is closed    *)
(* twice or while a thread or the queue still has it.                       *)
THEOREM OneHolderHolds == Spec => []OneHolder
<1>1. IInv => OneHolder
  BY DEF IInv, HoldersInv
<1> QED
  BY IInvHolds, <1>1, PTL

-----------------------------------------------------------------------------
(* What the server holds keeps its connection while others are served.      *)

(* The steps of the server are steps of request.c for a connection that it  *)
(* has open, or accepts, or they end it for a client that is gone.          *)
LEMMA AcceptorStep ==
  ASSUME IInv, ServingInv, up, Acceptor
  PROVE  \/ /\ main \in {"accept", "line", "headers"}
            /\ UNCHANGED <<main, conn_fd, buffer, worker>>
            /\ \E c \in Conn : c \in gone /\ Die(c)
         \/ /\ main = "accept" /\ main' = "line" /\ conn_fd' \in Conn
            /\ AcceptConn(conn_fd') /\ UNCHANGED <<buffer, worker>>
         \/ /\ main \in {"line", "stat"} /\ conn_fd \in Conn
            /\ UNCHANGED <<conn_fd, buffer, worker>>
            /\ \E status \in {"501", "404", "403"} : RequestError(conn_fd, status)
            /\ main' = IF up' THEN "refused" ELSE main
         \/ /\ main \in {"line", "headers"} /\ main' \in {"headers", "stat"}
            /\ UNCHANGED <<web, conn_fd, buffer, worker>>
         \/ /\ main = "stat" /\ main' = "put" /\ conn_fd \in Conn
            /\ UNCHANGED <<web, conn_fd, queue, taken, worker>>
            /\ RequestInv(offered') /\ offered'.conn_fd = conn_fd
         \/ /\ main = "refused" /\ main' = "accept" /\ conn_fd \in Conn
            /\ CloseConn(conn_fd) /\ UNCHANGED <<buffer, worker>>
         \/ /\ main = "put" /\ main' = "accept" /\ queue' = Append(queue, offered)
            /\ UNCHANGED <<web, taken, worker>>
<1>1. main # "accept" => conn_fd \in Conn
  BY DEF IInv, HoldersInv
<1>2. CASE Accept
  <2>1. ASSUME AcceptFails
        PROVE  Head(backlog) \in Conn /\ Die(Head(backlog)) /\ up' = FALSE
    BY <2>1 DEF AcceptFails, Die, EndProcess, IInv, WebInv
  <2>2. \A c : AcceptConn(c) => up' = up
    BY DEF AcceptConn, process
  <2> QED
    BY <1>2, <2>1, <2>2 DEF Accept, AcceptFails, GoesTo
<1>3. CASE ReadLine
  BY <1>1, <1>3 DEF ReadLine, ReadFails, Refuse, GoesTo
<1>4. CASE ReadHeaders
  <2>1. ReadFails(conn_fd) => up' = FALSE
    BY EndStep DEF ReadFails, Die
  <2>2. UNCHANGED web => up' = up
    BY DEF web, process
  <2> QED
    BY <1>1, <1>4, <2>1, <2>2 DEF ReadHeaders, ReadFails, GoesTo
<1>5. CASE Stat
  <2>1. main = "stat" /\ conn_fd \in Conn /\ wants[conn_fd] # NotGet
    BY <1>1, <1>5 DEF Stat, IInv, ReadInv
  <2>2. PICK uri \in UriRead(conn_fd) :
          \/ Refuse("404") \/ Refuse("403")
          \/ StatOf(uri) # Absent /\ Permitted(uri) /\ Offer(uri)
    BY <1>5 DEF Stat
  <2>3. CASE Refuse("404") \/ Refuse("403")
    BY <2>1, <2>3 DEF Refuse, GoesTo
  <2>4. CASE StatOf(uri) # Absent /\ Permitted(uri) /\ Offer(uri)
    <3> DEFINE r == RequestFor(conn_fd, uri, StatOf(uri).size)
    <3>1. RequestInv(r)
      BY <2>1, <2>4, OfferedRequest DEF IInv
    <3>2. r.conn_fd = conn_fd
      BY DEF RequestFor
    <3>3. /\ offered' = r /\ main' = "put"
          /\ UNCHANGED <<web, conn_fd, queue, taken, worker>>
      BY <2>4 DEF Offer, Buffer!Offer
    <3> HIDE DEF r
    <3> QED
      BY <2>1, <3>1, <3>2, <3>3
  <2> QED
    BY <2>2, <2>3, <2>4
<1>6. CASE Refused
  BY <1>1, <1>6 DEF Refused
<1>7. CASE Put
  BY <1>7 DEF Put, Buffer!Put
<1> QED
  BY <1>2, <1>3, <1>4, <1>5, <1>6, <1>7 DEF Acceptor

(* Where the connections are: a step for connection d is not one for the    *)
(* others.                                                                  *)
LEMMA Apart ==
  ASSUME IInv, up
  PROVE  /\ Waiting \subseteq Conn
         /\ \A c \in Waiting : c \notin open
         /\ conn_fd \in Conn => conn_fd \in open
         /\ \A k \in DOMAIN queue : /\ queue[k].conn_fd \in open
                                    /\ queue[k].conn_fd # conn_fd
         /\ \A w \in Worker : taken[w] # NoRequest =>
              /\ taken[w].conn_fd \in open /\ taken[w].conn_fd # conn_fd
              /\ \A k \in DOMAIN queue : queue[k].conn_fd # taken[w].conn_fd
              /\ \A v \in Worker : taken[v] # NoRequest /\ v # w
                                    => taken[v].conn_fd # taken[w].conn_fd
<1>1. Waiting \subseteq Conn /\ \A c \in Waiting : c \notin open
  BY DEF Waiting, IInv, WebInv
<1>2. conn_fd \in Conn => conn_fd \in open
  BY WebAssumption DEF IInv, HoldersInv, OneHolder
<1> QED
  BY <1>1, <1>2 DEF IInv, HoldersInv, OneHolder, Serving

LEMMA EnvironmentServing ==
  ASSUME IInv, PerConn, TypesInv, up, ServingInv, RepliesInv, Environment,
         UNCHANGED <<main, conn_fd, buffer, worker>>
  PROVE  ServingInv' /\ RepliesInv'
<1>1. WebInv
  BY DEF IInv
<1>2. UNCHANGED <<queue, offered, taken>>
  BY DEF buffer
<1>3. (\A c \in Waiting : Fresh(c))'
  BY <1>1, FreshEnvironment DEF ServingInv
<1>4. main \in {"line", "headers", "stat"} => Fresh(conn_fd)'
  BY <1>1, Apart, FreshEnvironment DEF ServingInv, IInv, HoldersInv
<1>5. main = "refused" => child'[conn_fd] = "none"
  BY <1>1, FreshEnvironment DEF ServingInv, IInv, HoldersInv
<1>6. main = "put" => ServeInv(offered, "queue")'
  BY <1>1, <1>2, Apart, ServeEnvironment DEF ServingInv, IInv, HoldersInv
<1>7. \A k \in DOMAIN queue : ServeInv(queue[k], "queue")'
  BY <1>1, <1>2, Apart, ServeEnvironment DEF ServingInv
<1>8. \A w \in Worker : IF taken[w] = NoRequest THEN worker[w] = "get"
                        ELSE worker[w] # "get" /\ ServeInv(taken[w], worker[w])'
  BY <1>1, <1>2, Apart, ServeEnvironment DEF ServingInv
<1>9. ServingInv'
  BY <1>2, <1>3, <1>4, <1>5, <1>6, <1>7, <1>8 DEF ServingInv
<1>10. Receiving' = Receiving
  BY <1>2 DEF Receiving, Serving
<1>11. ASSUME NEW c \in Conn
       PROVE  ShortInv(c, Receiving)'
  <2>1. ShortInv(c, Receiving)
    BY DEF RepliesInv
  <2> QED
    BY <1>1, <1>10, <2>1, ShortEnvironment
<1> QED
  BY <1>9, <1>11 DEF RepliesInv

(* The acceptor takes a connection to the queue or refuses it.              *)
LEMMA AcceptorServing ==
  ASSUME IInv, PerConn, ServingInv, RepliesInv, up, Acceptor, up'
  PROVE  ServingInv' /\ RepliesInv'
<1>1. ASSUME UNCHANGED <<files, wants, gone, reply, data, child, worker, taken>>
      PROVE  /\ \A w \in Worker : IF taken[w] = NoRequest THEN worker[w] = "get"
                                  ELSE worker[w] # "get" /\ ServeInv(taken[w], worker[w])'
             /\ UNCHANGED queue => \A k \in DOMAIN queue : ServeInv(queue[k], "queue")'
             /\ RepliesInv'
  <2>1. \A w \in Worker : IF taken[w] = NoRequest THEN worker[w] = "get"
                          ELSE worker[w] # "get" /\ ServeInv(taken[w], worker[w])'
    BY <1>1, ServeSame DEF ServingInv
  <2>4. UNCHANGED queue => \A k \in DOMAIN queue : ServeInv(queue[k], "queue")'
    BY <1>1, ServeSame DEF ServingInv
  <2>2. Receiving' = Receiving
    BY <1>1 DEF Receiving, Serving
  <2>3. ASSUME NEW c \in Conn
        PROVE  ShortInv(c, Receiving)'
    <3>1. ShortInv(c, Receiving)
      BY DEF RepliesInv
    <3> QED
      BY <1>1, <2>2, <3>1, ShortSame DEF Touched
  <2> QED
    BY <2>1, <2>3, <2>4 DEF RepliesInv
<1>2. CASE /\ main = "accept" /\ main' = "line" /\ conn_fd' \in Conn
           /\ AcceptConn(conn_fd') /\ UNCHANGED <<buffer, worker>>
  <2>1. /\ backlog # <<>> /\ conn_fd' = Head(backlog) /\ backlog' = Tail(backlog)
        /\ UNCHANGED <<files, wants, gone, reply, data, child, worker, queue, offered, taken>>
    BY <1>2 DEF AcceptConn, client, scripts, buffer
  <2>2. /\ conn_fd' = backlog[1] /\ 1 \in DOMAIN backlog
        /\ \A k \in DOMAIN backlog' : k + 1 \in DOMAIN backlog /\ backlog'[k] = backlog[k + 1]
    BY <2>1 DEF IInv, WebInv
  <2>3. conn_fd' \in Waiting /\ Waiting' \subseteq Waiting
    BY <2>2 DEF Waiting
  <2>4. (\A c \in Waiting : Fresh(c))' /\ Fresh(conn_fd)'
    BY <2>1, <2>3 DEF ServingInv, Fresh
  <2> QED
    BY <1>1, <1>2, <2>1, <2>4 DEF ServingInv
<1>3. CASE /\ main \in {"line", "stat"} /\ conn_fd \in Conn
           /\ UNCHANGED <<conn_fd, buffer, worker>>
           /\ \E status \in {"501", "404", "403"} : RequestError(conn_fd, status)
           /\ main' = IF up' THEN "refused" ELSE main
  <2>1. PICK status \in {"501", "404", "403"} : RequestError(conn_fd, status)
    BY <1>3
  <2>2. Only(conn_fd)
    BY <1>3, ServerStepOnly DEF ServerStep
  <2>3. /\ UNCHANGED <<backlog, child, data>>
        /\ reply'[conn_fd] = Status(status) \/ UNCHANGED reply
    BY <1>3, <2>1, WriteStep DEF RequestError, GoesOn, Ends, EndProcess
  <2>4. Waiting' = Waiting /\ Receiving' = Receiving /\ UNCHANGED <<queue, taken>>
    BY <1>3, <2>3 DEF Waiting, Receiving, Serving, buffer
  <2>5. conn_fd \notin Waiting
    BY <1>3, Apart
  <2>6. (\A c \in Waiting : Fresh(c))'
    BY <2>2, <2>3, <2>4, <2>5, Apart DEF ServingInv, Fresh, Only
  <2>7. child'[conn_fd] = "none"
    BY <1>3, <2>3 DEF ServingInv, Fresh
  <2>8. \A k \in DOMAIN queue : ServeInv(queue[k], "queue")'
    BY <1>3, <2>2, <2>4, Apart, ServeOnly DEF ServingInv
  <2>9. \A w \in Worker : IF taken[w] = NoRequest THEN worker[w] = "get"
                          ELSE worker[w] # "get" /\ ServeInv(taken[w], worker[w])'
    BY <1>3, <2>2, <2>4, Apart, ServeOnly DEF ServingInv
  <2>10. ASSUME NEW c \in Conn
         PROVE  ShortInv(c, Receiving)'
    <3>1. ShortInv(c, Receiving)
      BY DEF RepliesInv
    <3>2. CASE c # conn_fd
      BY <1>3, <2>2, <2>4, <3>1, <3>2, ShortOnly
    <3>3. CASE c = conn_fd /\ reply'[conn_fd] = Status(status)
      BY <3>3, ShortStatus
    <3>4. CASE UNCHANGED reply
      BY <2>2, <2>3, <2>4, <3>1, <3>4, ShortSame DEF Only, Touched
    <3> QED
      BY <2>3, <3>2, <3>3, <3>4
  <2> QED
    BY <1>3, <2>4, <2>6, <2>7, <2>8, <2>9, <2>10 DEF ServingInv, RepliesInv
<1>4. CASE /\ main \in {"line", "headers"} /\ main' \in {"headers", "stat"}
           /\ UNCHANGED <<web, conn_fd, buffer, worker>>
  <2>1. /\ UNCHANGED <<files, wants, gone, reply, data, child, worker, queue, offered, taken>>
        /\ UNCHANGED <<backlog, conn_fd>>
    BY <1>4 DEF web, client, scripts, buffer
  <2>2. (\A c \in Waiting : Fresh(c))' /\ Fresh(conn_fd)'
    BY <1>4, <2>1 DEF ServingInv, Fresh, Waiting
  <2> QED
    BY <1>1, <1>4, <2>1, <2>2 DEF ServingInv
<1>5. CASE /\ main = "stat" /\ main' = "put" /\ conn_fd \in Conn
           /\ UNCHANGED <<web, conn_fd, queue, taken, worker>>
           /\ RequestInv(offered') /\ offered'.conn_fd = conn_fd
  <2>1. /\ UNCHANGED <<files, wants, gone, reply, data, child, worker, queue, taken, backlog>>
    BY <1>5 DEF web, client, scripts
  <2>2. (\A c \in Waiting : Fresh(c))'
    BY <2>1 DEF ServingInv, Fresh, Waiting
  <2>3. PICK r : r = offered'
    OBVIOUS
  <2>4. ServeInv(r, "queue")
    BY <1>5, <2>3 DEF ServeInv, ServingInv, Fresh
  <2>5. ServeInv(offered, "queue")'
    BY <2>1, <2>3, <2>4, ServeSame
  <2> QED
    BY <1>1, <1>5, <2>1, <2>2, <2>5 DEF ServingInv
<1>6. CASE /\ main = "refused" /\ main' = "accept" /\ conn_fd \in Conn
           /\ CloseConn(conn_fd) /\ UNCHANGED <<buffer, worker>>
  <2>1. /\ UNCHANGED <<files, wants, gone, reply, data, child, worker, queue, taken, backlog>>
    BY <1>6 DEF CloseConn, client, scripts, buffer
  <2>2. (\A c \in Waiting : Fresh(c))'
    BY <2>1 DEF ServingInv, Fresh, Waiting
  <2> QED
    BY <1>1, <1>6, <2>1, <2>2 DEF ServingInv
<1>7. CASE /\ main = "put" /\ main' = "accept" /\ queue' = Append(queue, offered)
           /\ UNCHANGED <<web, taken, worker>>
  <2>1. /\ UNCHANGED <<files, wants, gone, reply, data, child, worker, taken, backlog>>
    BY <1>7 DEF web, client, scripts
  <2>2. (\A c \in Waiting : Fresh(c))'
    BY <2>1 DEF ServingInv, Fresh, Waiting
  <2>3. ServeInv(offered, "queue")
    BY <1>7 DEF ServingInv
  <2>4. \A k \in DOMAIN queue' :
          queue'[k] = offered \/ (k \in DOMAIN queue /\ queue'[k] = queue[k])
    BY <1>7 DEF IInv, HoldersInv
  <2>5. \A k \in DOMAIN queue' : ServeInv(queue'[k], "queue")
    BY <2>3, <2>4 DEF ServingInv
  <2>6. (\A k \in DOMAIN queue : ServeInv(queue[k], "queue"))'
    BY <2>1, <2>5, ServeSame
  <2> QED
    BY <1>1, <1>7, <2>1, <2>2, <2>6 DEF ServingInv
<1>8. ~ \E c \in Conn : Die(c)
  BY DEF Die, EndProcess
<1> QED
  BY <1>2, <1>3, <1>4, <1>5, <1>6, <1>7, <1>8, AcceptorStep

(* A worker's step for its request leaves the others where they are.        *)
LEMMA WorkerServing ==
  ASSUME IInv, PointsInv, PerConn, up, ServingInv, NEW w \in Worker, taken[w] # NoRequest,
         Only(taken[w].conn_fd), UNCHANGED <<main, conn_fd, buffer, backlog>>,
         NEW point, point # "get", worker' = [worker EXCEPT ![w] = point],
         ServeInv(taken[w], point)'
  PROVE  ServingInv'
<1> DEFINE d == taken[w].conn_fd
<1>1. /\ UNCHANGED <<queue, offered, taken>> /\ Waiting' = Waiting
      /\ d \in open /\ d \in Conn /\ d \notin Waiting /\ d # conn_fd
      /\ \A k \in DOMAIN queue : queue[k].conn_fd # d
      /\ \A v \in Worker : taken[v] # NoRequest /\ v # w => taken[v].conn_fd # d
  BY Apart DEF buffer, Waiting, IInv, WebInv
<1>2. (\A c \in Waiting : Fresh(c))'
  BY <1>1, Apart DEF ServingInv, Fresh, Only
<1>3. /\ main \in {"line", "headers", "stat"} => Fresh(conn_fd)'
      /\ main = "refused" => child'[conn_fd] = "none"
  BY <1>1 DEF ServingInv, Fresh, Only, IInv, HoldersInv
<1>4. main = "put" => ServeInv(offered, "queue")'
  BY <1>1, ServeOnly DEF ServingInv, IInv, HoldersInv
<1>5. \A k \in DOMAIN queue : ServeInv(queue[k], "queue")'
  BY <1>1, ServeOnly DEF ServingInv
<1>6. ASSUME NEW v \in Worker
      PROVE  IF taken[v] = NoRequest THEN worker'[v] = "get"
             ELSE worker'[v] # "get" /\ ServeInv(taken[v], worker[v])'
  <2>1. CASE v = w
    <3>1. worker'[w] = point
      BY DEF PointsInv
    <3> QED
      BY <1>1, <2>1, <3>1
  <2>2. CASE v # w
    <3>1. worker'[v] = worker[v]
      BY <2>2 DEF PointsInv
    <3> QED
      BY <1>1, <2>2, <3>1, ServeOnly DEF ServingInv
  <2> QED
    BY <2>1, <2>2
<1> QED
  BY <1>1, <1>2, <1>3, <1>4, <1>5, <1>6 DEF ServingInv

(* A worker in wait has a child to wait for: nobody can take the last one   *)
(* from it.                                                                 *)
Waiters == {w \in Worker : worker[w] = "wait"}
Children == {c \in Conn : child[c] # "none"}

LEMMA ChildToWaitFor ==
  ASSUME ChildForEachWait, NEW w \in Worker, worker[w] = "wait"
  PROVE  \E c \in Conn : child[c] # "none"
<1>1. IsFiniteSet(Waiters) /\ w \in Waiters
  BY ServerAssumption, FS_Subset DEF Waiters
<1>2. Cardinality(Waiters) \in Nat /\ Cardinality(Waiters) # 0
  BY <1>1, FS_CardinalityType, FS_EmptySet
<1>3. SUFFICES ASSUME Children = {} PROVE FALSE
  BY DEF Children
<1>4. Cardinality(Children) = 0
  BY <1>3, FS_EmptySet
<1> QED
  BY <1>2, <1>4 DEF ChildForEachWait, Waiters, Children

(* Each step of request_serve but the last writes leaves a request where    *)
(* its next step finds it, or ends the process for a reason.                *)
LEMMA ServeStep ==
  ASSUME IInv, PoolInv, up, NEW w \in Worker, Serve(w)
  PROVE  /\ taken[w] # NoRequest /\ taken[w].conn_fd \in Conn
         /\ ServerStep(taken[w].conn_fd)
         /\ UNCHANGED <<main, conn_fd, buffer>>
         /\ \/ /\ GoesOn
               /\ \E point \in {"head", "body", "close", "fork", "wait"} :
                    /\ worker' = [worker EXCEPT ![w] = point]
                    /\ ServeInv(taken[w], point)'
                    /\ point = "body" <=> worker[w] = "head"
                    /\ point = "wait" <=> worker[w] = "fork"
            \/ Ends(taken[w].conn_fd) /\ UNCHANGED worker
<1>0. PICK r : r = taken[w]
  OBVIOUS
<1>1. /\ r # NoRequest /\ ServeInv(r, worker[w]) /\ RequestInv(r) /\ r.conn_fd \in Conn
      /\ worker[w] \in {"cgi", "fork", "wait"} => ~ r.is_static
  BY <1>0 DEF Serve, PoolInv, ServingInv, ServeInv, RequestInv
<1>2. /\ WebInv /\ PerConn /\ TypesInv
  BY DEF IInv, PoolInv
<1>3. UNCHANGED <<main, conn_fd, buffer>> /\ r = taken'[w]
  BY <1>0 DEF Serve, From, buffer
<1>4. CASE MapFile(r) /\ From(w, "map", "head")
  <2>1. ServerStep(r.conn_fd)
    BY <1>1, <1>4 DEF ServerStep
  <2>2. (GoesOn /\ ServeInv(r, "head")') \/ Ends(r.conn_fd)
    BY <1>1, <1>2, <1>4, MapStep DEF From
  <2> QED
    BY <1>0, <1>1, <1>3, <1>4, <2>1, <2>2 DEF From, GoesOn, Ends, EndProcess
<1>5. CASE WriteHead(r) /\ From(w, "head", "body")
  <2>1. ServerStep(r.conn_fd)
    BY <1>1, <1>5 DEF ServerStep
  <2>2. (GoesOn /\ ServeInv(r, "body")') \/ Ends(r.conn_fd)
    BY <1>1, <1>2, <1>5, HeadStep DEF From
  <2> QED
    BY <1>0, <1>1, <1>3, <1>5, <2>1, <2>2 DEF From, GoesOn, Ends, EndProcess
<1>6. CASE WriteBody(r) /\ From(w, "body", "close")
  <2>1. ServerStep(r.conn_fd)
    BY <1>1, <1>6 DEF ServerStep
  <2>2. (GoesOn /\ ServeInv(r, "close")') \/ Ends(r.conn_fd)
    BY <1>1, <1>2, <1>6, BodyStep DEF From
  <2> QED
    BY <1>0, <1>1, <1>3, <1>6, <2>1, <2>2 DEF From, GoesOn, Ends, EndProcess
<1>7. CASE WriteCgiHead(r) /\ From(w, "cgi", "fork")
  <2>1. ServerStep(r.conn_fd)
    BY <1>1, <1>7 DEF ServerStep
  <2>2. (GoesOn /\ ServeInv(r, "fork")') \/ Ends(r.conn_fd)
    BY <1>1, <1>2, <1>7, CgiHeadStep DEF From
  <2> QED
    BY <1>0, <1>1, <1>3, <1>7, <2>1, <2>2 DEF From, GoesOn, Ends, EndProcess
<1>8. CASE Fork(r) /\ From(w, "fork", "wait")
  <2>1. ServerStep(r.conn_fd)
    BY <1>1, <1>8 DEF ServerStep, From
  <2>2. (GoesOn /\ ServeInv(r, "wait")') \/ Ends(r.conn_fd)
    BY <1>1, <1>2, <1>8, ForkStep DEF From
  <2> QED
    BY <1>0, <1>1, <1>3, <1>8, <2>1, <2>2 DEF From, GoesOn, Ends, EndProcess
<1>9. CASE Wait(r.conn_fd) /\ From(w, "wait", "close")
  <2>1. ServerStep(r.conn_fd)
    BY <1>1, <1>9 DEF ServerStep
  <2>2. GoesOn /\ ServeInv(r, "close")'
    BY <1>1, <1>2, <1>9, WaitStep, ChildToWaitFor DEF From, PoolInv
  <2> QED
    BY <1>0, <1>1, <1>3, <1>9, <2>1, <2>2 DEF From, GoesOn
<1> QED
  BY <1>0, <1>4, <1>5, <1>6, <1>7, <1>8, <1>9 DEF Serve

LEMMA ServeServing ==
  ASSUME IInv, PoolInv, up, NEW w \in Worker, Serve(w), up'
  PROVE  ServingInv' /\ RepliesInv'
<1>0. PICK r : r = taken[w]
  OBVIOUS
<1> DEFINE d == r.conn_fd
<1>1. PICK point \in {"head", "body", "close", "fork", "wait"} :
        /\ GoesOn
        /\ worker' = [worker EXCEPT ![w] = point]
        /\ ServeInv(r, point)'
        /\ point = "body" <=> worker[w] = "head"
  <2>1. UNCHANGED buffer
    BY DEF Serve
  <2>2. r = taken'[w]
    BY <1>0, <2>1 DEF buffer
  <2>3. ~ Ends(taken[w].conn_fd)
    BY DEF Ends, EndProcess
  <2> QED
    BY <1>0, <2>2, <2>3, ServeStep
<1>2. /\ PointsInv /\ PerConn /\ ServingInv /\ RepliesInv /\ WebInv /\ TypesInv
      /\ r # NoRequest /\ d \in Conn /\ Only(d)
      /\ UNCHANGED <<main, conn_fd, buffer, backlog>>
  BY <1>0, <1>1, ServeStep, ServerStepOnly DEF PoolInv, IInv, GoesOn
<1>3. ServingInv'
  <2>1. r = taken'[w]
    BY <1>0, <1>2 DEF buffer
  <2> QED
    BY <1>0, <1>1, <1>2, <2>1, WorkerServing
<1>4. UNCHANGED taken /\ Serving' = Serving /\ w \in Serving
  BY <1>0, <1>2 DEF buffer, Serving
<1>5. \A v \in Worker : worker'[v] = IF v = w THEN point ELSE worker[v]
  BY <1>1, <1>2 DEF PointsInv
<1>6. ASSUME NEW c \in Conn, c # d, c \in Receiving
      PROVE  c \in Receiving'
  <2>1. PICK v \in Serving : worker[v] = "body" /\ taken[v].conn_fd = c
    BY <1>6 DEF Receiving
  <2>2. v # w /\ v \in Worker
    BY <1>0, <1>6, <2>1 DEF Serving
  <2> QED
    BY <1>4, <1>5, <2>1, <2>2 DEF Receiving
<1>7. ASSUME NEW c \in Conn, c # d
      PROVE  ShortInv(c, Receiving)'
  <2>1. ShortInv(c, Receiving)
    BY <1>2 DEF RepliesInv
  <2> QED
    BY <1>2, <1>6, <1>7, <2>1, ShortOnly
<1>8. ShortInv(d, Receiving)'
  <2>0. ServeInv(r, worker[w]) /\ ShortInv(d, Receiving)
    BY <1>0, <1>2 DEF ServingInv, RepliesInv
  <2>1. CASE worker[w] = "head"
    <3>1. d \in Receiving'
      BY <1>0, <1>1, <1>4, <1>5, <2>1 DEF Receiving
    <3>2. child'[d] = "none"
      BY <1>1, <2>1 DEF ServeInv
    <3> QED
      BY <3>1, <3>2 DEF ShortInv
  <2>2. CASE worker[w] = "body"
    <3>1. WriteBody(r)
      BY <1>0, <2>2 DEF Serve, From
    <3> QED
      BY <1>2, <2>0, <2>2, <3>1, ShortBody
  <2>3. CASE worker[w] \in {"map", "cgi", "fork"}
    <3>1. /\ UNCHANGED <<files, wants>>
          /\ reply'[d] \in {Unanswered, Status("200")}
      <4>1. UNCHANGED <<files, wants>>
        BY <1>2 DEF Only
      <4>2. CASE MapFile(r) /\ worker[w] = "map"
        BY <2>0, <4>1, <4>2 DEF ServeInv, MapFile, Die, EndProcess
      <4>3. CASE WriteCgiHead(r)
        BY <1>2, <4>3, WriteStep DEF WriteCgiHead, Ends, EndProcess
      <4>4. CASE Fork(r) /\ worker[w] = "fork"
        BY <2>0, <4>1, <4>4 DEF ServeInv, Fork
      <4> QED
        BY <1>0, <2>3, <4>1, <4>2, <4>3, <4>4 DEF Serve, From
    <3> QED
      BY <3>1 DEF ShortInv, Status, Unanswered
  <2>4. CASE worker[w] = "wait"
    <3>1. Wait(d)
      BY <1>0, <2>4 DEF Serve, From
    <3>2. reply'[d] = reply[d] /\ (child'[d] = "running" => child[d] = "running")
      BY <1>2, <3>1 DEF Wait, Die, EndProcess, scripts, PerConn
    <3>3. d \in Receiving => d \in Receiving'
      <4>1. SUFFICES ASSUME NEW v \in Serving, worker[v] = "body", taken[v].conn_fd = d
                     PROVE  FALSE
        BY DEF Receiving
      <4>2. v \in Worker /\ taken[v] # NoRequest
        BY DEF Serving
      <4> QED
        BY <1>0, <1>2, <2>4, <4>1, <4>2, Apart
    <3> QED
      BY <1>2, <2>0, <3>2, <3>3, ShortSame DEF Only, Touched
  <2>5. worker[w] \in {"map", "head", "body", "cgi", "fork", "wait"}
    BY DEF Serve, From
  <2> QED
    BY <2>1, <2>2, <2>3, <2>4, <2>5
<1> QED
  BY <1>3, <1>7, <1>8 DEF RepliesInv

LEMMA GetServing ==
  ASSUME IInv, PointsInv, PerConn, ServingInv, RepliesInv, NEW w \in Worker, Get(w)
  PROVE  /\ ServingInv' /\ RepliesInv' /\ PointsInv'
         /\ UNCHANGED web /\ worker[w] = "get" /\ worker'[w] # "wait"
         /\ \A v \in Worker : v # w => worker'[v] = worker[v]
<1>1. PICK k \in DOMAIN queue : /\ taken' = [taken EXCEPT ![w] = queue[k]]
                                /\ queue' = RemoveAt(queue, k)
  BY DEF Get, Buffer!Get, Buffer!RemoveAt, RemoveAt
<1>2. /\ UNCHANGED <<web, main, conn_fd, offered>> /\ taken[w] = NoRequest
      /\ worker[w] = "get" /\ up
  BY DEF Get, Buffer!Get, From
<1>3. /\ UNCHANGED <<files, wants, gone, reply, data, child, backlog>> /\ up'
  BY <1>2 DEF web, client, process, scripts
<1>4. PICK r : r = queue[k]
  OBVIOUS
<1>5. /\ taken'[w] = r /\ \A v \in Worker : v # w => taken'[v] = taken[v]
      /\ ServeInv(r, "queue") /\ r # NoRequest
  BY <1>1, <1>4, ServerAssumption DEF IInv, HoldersInv, ServingInv
<1> DEFINE point == IF r.is_static THEN "map" ELSE "cgi"
<1>6. /\ worker'[w] = point /\ \A v \in Worker : v # w => worker'[v] = worker[v]
      /\ PointsInv'
  BY <1>2, <1>3, <1>5 DEF Get, From, PointsInv
<1>7. ServeInv(r, point)
  BY <1>5 DEF ServeInv
<1>8. ASSUME NEW v \in Worker
      PROVE  IF taken'[v] = NoRequest THEN worker'[v] = "get"
             ELSE worker'[v] # "get" /\ ServeInv(taken[v], worker[v])'
  <2>1. CASE v = w
    <3>1. ServeInv(r, point)'
      BY <1>3, <1>7, ServeSame
    <3> QED
      BY <1>5, <1>6, <2>1, <3>1
  <2>2. CASE v # w
    BY <1>3, <1>5, <1>6, <2>2, ServeSame DEF ServingInv
  <2> QED
    BY <2>1, <2>2
<1>9. ASSUME NEW j \in DOMAIN queue'
      PROVE  ServeInv(queue[j], "queue")'
  <2>1. queue \in Seq(RequestT) /\ k \in 1 .. Len(queue)
    BY DEF IInv, HoldersInv
  <2>2. /\ RemoveAt(queue, k) \in Seq(RequestT)
        /\ Len(RemoveAt(queue, k)) = Len(queue) - 1
        /\ \A i \in 1 .. Len(queue) - 1 :
             RemoveAt(queue, k)[i] = queue[IF k <= i THEN i + 1 ELSE i]
    BY <2>1, QueueFacts!RemoveAtLemma DEF RemoveAt, QueueFacts!RemoveAt
  <2>3. j \in 1 .. Len(queue) - 1 /\ queue'[j] = queue[IF k <= j THEN j + 1 ELSE j]
    BY <1>1, <2>2
  <2>4. PICK i \in DOMAIN queue : queue'[j] = queue[i]
    BY <2>1, <2>3
  <2>5. ServeInv(queue[i], "queue")
    BY DEF ServingInv
  <2> QED
    BY <1>3, <2>4, <2>5, ServeSame
<1>10. ServingInv'
  BY <1>2, <1>3, <1>8, <1>9, ServeSame DEF ServingInv, Fresh, Waiting
<1>11. ASSUME NEW c \in Receiving
       PROVE  c \in Receiving'
  <2>1. PICK v \in Serving : worker[v] = "body" /\ taken[v].conn_fd = c
    BY DEF Receiving
  <2>2. v # w /\ v \in Worker /\ taken[v] # NoRequest
    BY <1>2, <2>1 DEF Serving
  <2> QED
    BY <1>5, <1>6, <2>1, <2>2 DEF Receiving, Serving
<1>12. ASSUME NEW c \in Conn
       PROVE  ShortInv(c, Receiving)'
  <2>1. ShortInv(c, Receiving)
    BY DEF RepliesInv
  <2> QED
    BY <1>3, <1>11, <2>1, ShortSame DEF Touched
<1> QED
  BY <1>2, <1>6, <1>10, <1>12 DEF RepliesInv

LEMMA CloseServing ==
  ASSUME IInv, PointsInv, PerConn, ServingInv, RepliesInv, NEW w \in Worker, Close(w)
  PROVE  /\ ServingInv' /\ RepliesInv' /\ PointsInv' /\ taken[w].conn_fd \in Conn
         /\ UNCHANGED <<up, child>> /\ worker[w] = "close" /\ worker'[w] = "get"
         /\ \A v \in Worker : v # w => worker'[v] = worker[v]
<1>1. /\ taken[w] # NoRequest /\ taken' = [taken EXCEPT ![w] = NoRequest]
      /\ UNCHANGED <<queue, offered, main, conn_fd, up, files, wants, gone, reply, data>>
      /\ UNCHANGED <<child, backlog>>
      /\ worker[w] = "close" /\ up
  BY DEF Close, CloseConn, Buffer!Finish, From, client, process, scripts
<1>2. /\ taken'[w] = NoRequest /\ \A v \in Worker : v # w => taken'[v] = taken[v]
  BY <1>1 DEF IInv, HoldersInv
<1>3. /\ worker'[w] = "get" /\ \A v \in Worker : v # w => worker'[v] = worker[v]
      /\ PointsInv'
  BY <1>1 DEF Close, From, PointsInv
<1>4. ASSUME NEW v \in Worker
      PROVE  IF taken'[v] = NoRequest THEN worker'[v] = "get"
             ELSE worker'[v] # "get" /\ ServeInv(taken[v], worker[v])'
  BY <1>1, <1>2, <1>3, ServeSame DEF ServingInv
<1>5. ServingInv'
  BY <1>1, <1>4, ServeSame DEF ServingInv, Fresh, Waiting
<1>6. ASSUME NEW c \in Receiving
      PROVE  c \in Receiving'
  <2>1. PICK v \in Serving : worker[v] = "body" /\ taken[v].conn_fd = c
    BY DEF Receiving
  <2>2. v # w /\ v \in Worker /\ taken[v] # NoRequest
    BY <1>1, <2>1 DEF Serving
  <2> QED
    BY <1>2, <1>3, <2>1, <2>2 DEF Receiving, Serving
<1>7. ASSUME NEW c \in Conn
      PROVE  ShortInv(c, Receiving)'
  <2>1. ShortInv(c, Receiving)
    BY DEF RepliesInv
  <2> QED
    BY <1>1, <1>6, <2>1, ShortSame DEF Touched
<1>8. taken[w].conn_fd \in Conn
  BY <1>1 DEF ServingInv, ServeInv, RequestInv
<1> QED
  BY <1>1, <1>3, <1>5, <1>7, <1>8 DEF RepliesInv

-----------------------------------------------------------------------------
(* Children and the workers that wait for them.                             *)

LEMMA CountSame ==
  ASSUME ChildForEachWait,
         \A w \in Worker : worker'[w] = "wait" => worker[w] = "wait",
         \A c \in Conn : child[c] # "none" => child'[c] # "none"
  PROVE  ChildForEachWait'
<1>1. Waiters' \subseteq Waiters /\ Children \subseteq Children'
  BY DEF Waiters, Children
<1>2. IsFiniteSet(Waiters) /\ IsFiniteSet(Children')
  BY ServerAssumption, WebAssumption, FS_Subset DEF Waiters, Children
<1>3. /\ Cardinality(Waiters') <= Cardinality(Waiters)
      /\ Cardinality(Children) <= Cardinality(Children')
      /\ IsFiniteSet(Waiters') /\ IsFiniteSet(Children)
  BY <1>1, <1>2, FS_Subset
<1>4. /\ Cardinality(Waiters) \in Nat /\ Cardinality(Children) \in Nat
      /\ Cardinality(Waiters') \in Nat /\ Cardinality(Children') \in Nat
  BY <1>2, <1>3, FS_CardinalityType
<1>5. Cardinality(Waiters) <= Cardinality(Children)
  BY DEF ChildForEachWait, Waiters, Children
<1>6. Cardinality(Waiters') <= Cardinality(Children')
  BY <1>3, <1>4, <1>5
<1> QED
  BY <1>6 DEF ChildForEachWait, Waiters, Children

LEMMA CountFork ==
  ASSUME ChildForEachWait, PerConn, NEW w \in Worker, NEW c \in Conn,
         worker[w] # "wait", worker'[w] = "wait",
         \A v \in Worker : v # w => worker'[v] = worker[v],
         child[c] = "none", child' = [child EXCEPT ![c] = "running"]
  PROVE  ChildForEachWait'
<1>1. Waiters' = Waiters \cup {w} /\ w \notin Waiters
  BY DEF Waiters
<1>2. Children' = Children \cup {c} /\ c \notin Children
  BY DEF Children, PerConn
<1>3. IsFiniteSet(Waiters) /\ IsFiniteSet(Children)
  BY ServerAssumption, WebAssumption, FS_Subset DEF Waiters, Children
<1>4. /\ Cardinality(Waiters') = Cardinality(Waiters) + 1
      /\ Cardinality(Children') = Cardinality(Children) + 1
      /\ Cardinality(Waiters) \in Nat /\ Cardinality(Children) \in Nat
  BY <1>1, <1>2, <1>3, FS_AddElement, FS_CardinalityType
<1>5. Cardinality(Waiters) <= Cardinality(Children)
  BY DEF ChildForEachWait, Waiters, Children
<1>6. Cardinality(Waiters') <= Cardinality(Children')
  BY <1>4, <1>5
<1> QED
  BY <1>6 DEF ChildForEachWait, Waiters, Children

LEMMA CountWait ==
  ASSUME ChildForEachWait, PerConn, NEW w \in Worker, NEW c \in Conn,
         worker[w] = "wait", worker'[w] # "wait",
         \A v \in Worker : v # w => worker'[v] = worker[v],
         child[c] # "none", child' = [child EXCEPT ![c] = "none"]
  PROVE  ChildForEachWait'
<1>1. Waiters' = Waiters \ {w} /\ w \in Waiters
  BY DEF Waiters
<1>2. Children' = Children \ {c} /\ c \in Children
  BY DEF Children, PerConn
<1>3. IsFiniteSet(Waiters) /\ IsFiniteSet(Children)
  BY ServerAssumption, WebAssumption, FS_Subset DEF Waiters, Children
<1>4. /\ Cardinality(Waiters') = Cardinality(Waiters) - 1
      /\ Cardinality(Children') = Cardinality(Children) - 1
      /\ Cardinality(Waiters) \in Nat /\ Cardinality(Children) \in Nat
  BY <1>1, <1>2, <1>3, FS_RemoveElement, FS_CardinalityType
<1>5. Cardinality(Waiters) <= Cardinality(Children)
  BY DEF ChildForEachWait, Waiters, Children
<1>6. Cardinality(Waiters') <= Cardinality(Children')
  BY <1>4, <1>5
<1> QED
  BY <1>6 DEF ChildForEachWait, Waiters, Children

(* A fork adds a child for the worker that goes to wait, and a wait takes   *)
(* one for the worker that leaves it, whoever's child it is.                *)
LEMMA ServeCount ==
  ASSUME IInv, PoolInv, up, NEW w \in Worker, Serve(w)
  PROVE  ChildForEachWait'
<1>0. PICK r : r = taken[w]
  OBVIOUS
<1>1. /\ PerConn /\ ChildForEachWait /\ r.conn_fd \in Conn /\ ServeInv(r, worker[w])
      /\ worker \in [Worker -> {"get", "map", "head", "body", "cgi", "fork", "wait", "close"}]
  BY <1>0, ServeStep DEF PoolInv, ServingInv, PointsInv
<1>2. CASE \/ MapFile(r) /\ From(w, "map", "head")
           \/ WriteHead(r) /\ From(w, "head", "body")
           \/ WriteBody(r) /\ From(w, "body", "close")
           \/ WriteCgiHead(r) /\ From(w, "cgi", "fork")
  <2>1. UNCHANGED child
    BY <1>2 DEF MapFile, WriteHead, WriteBody, SendBody, WriteCgiHead, Write, Die, EndProcess,
               scripts
  <2>2. \A v \in Worker : worker'[v] = "wait" => worker[v] = "wait"
    BY <1>1, <1>2 DEF From
  <2> QED
    BY <1>1, <2>1, <2>2, CountSame
<1>3. CASE Fork(r) /\ From(w, "fork", "wait")
  <2>1. /\ child[r.conn_fd] = "none" /\ up'
        /\ child' = [child EXCEPT ![r.conn_fd] = "running"]
    BY <1>1, <1>3 DEF ServeInv, Fork, From, process
  <2>2. /\ worker[w] # "wait" /\ worker'[w] = "wait"
        /\ \A v \in Worker : v # w => worker'[v] = worker[v]
    BY <1>1, <1>3, <2>1 DEF From
  <2> QED
    BY <1>1, <2>1, <2>2, CountFork
<1>4. CASE Wait(r.conn_fd) /\ From(w, "wait", "close")
  <2>1. worker[w] = "wait"
    BY <1>4 DEF From
  <2>2. \E c \in Conn : child[c] # "none"
    BY <1>1, <2>1, ChildToWaitFor
  <2>3. PICK c \in Conn : child[c] = "exited" /\ child' = [child EXCEPT ![c] = "none"]
    BY <1>4, <2>2 DEF Wait
  <2>4. up'
    BY <1>4, <2>2 DEF Wait, From, process
  <2>5. /\ worker'[w] # "wait"
        /\ \A v \in Worker : v # w => worker'[v] = worker[v]
    BY <1>1, <1>4, <2>4 DEF From
  <2>6. child[c] # "none"
    BY <2>3
  <2> QED
    BY <1>1, <2>1, <2>3, <2>5, <2>6, CountWait
<1> QED
  BY <1>0, <1>2, <1>3, <1>4 DEF Serve

-----------------------------------------------------------------------------
(* The whole pool.                                                          *)

LEMMA InitPoolInv == Init => PoolInv
<1> SUFFICES ASSUME Init PROVE PoolInv
  OBVIOUS
<1>1. WebInit /\ main = "accept" /\ worker = [w \in Worker |-> "get"]
  BY DEF Init
<1>2. PointsInv /\ PerConn /\ TypesInv /\ up
  BY <1>1, InitTypes DEF PointsInv, WebInit
<1>3. Waiters = {} /\ Children = {}
  BY <1>1 DEF Waiters, Children, WebInit
<1>4. ChildForEachWait
  <2>1. Cardinality(Waiters) = 0 /\ Cardinality(Children) = 0
    BY <1>3, FS_EmptySet
  <2> QED
    BY <2>1 DEF ChildForEachWait, Waiters, Children
<1>5. queue = <<>> /\ taken = [w \in Worker |-> NoRequest] /\ Waiting = {}
  BY <1>1 DEF Init, Buffer!Init, Waiting, WebInit
<1>6. ServingInv
  BY <1>1, <1>5 DEF ServingInv
<1>7. RepliesInv
  BY <1>1 DEF RepliesInv, ShortInv, WebInit, Unanswered
<1> QED
  BY <1>2, <1>4, <1>6, <1>7 DEF PoolInv, StaysUp

(* A client's answer that was cut when the process ended was one that a     *)
(* worker was writing.                                                      *)
LEMMA EndPool ==
  ASSUME IInv, PoolInv, up, NEW c \in Conn, ServerStep(c), Ends(c),
         UNCHANGED <<main, conn_fd, buffer, worker>>
  PROVE  PoolInv'
<1>1. /\ up' = FALSE /\ cut' = open
      /\ UNCHANGED <<files, wants, gone, reply, child>>
  BY EndStep DEF Ends
<1>2. PointsInv' /\ PerConn' /\ TypesInv' /\ StaysUp'
  BY PerConnStep, ServerTypes, EndsForReason DEF PoolInv, PointsInv, IInv
<1>3. ChildForEachWait'
  BY <1>1, CountSame DEF PoolInv
<1>4. ASSUME NEW d \in Conn
      PROVE  ShortInv(d, cut)'
  <2>1. ShortInv(d, Receiving)
    BY DEF PoolInv, RepliesInv
  <2>2. d \in Receiving => d \in cut'
    BY <1>1, Apart DEF Receiving, Serving
  <2> QED
    BY <1>1, <2>1, <2>2, ShortSame DEF Touched
<1> QED
  BY <1>1, <1>2, <1>3, <1>4 DEF PoolInv

LEMMA EnvironmentPool ==
  ASSUME IInv, PoolInv, Environment, UNCHANGED <<main, conn_fd, buffer, worker>>
  PROVE  PoolInv'
<1>1. PointsInv' /\ PerConn' /\ TypesInv'
  BY PerConnStep, EnvironmentTypes DEF PoolInv, PointsInv, IInv
<1>2. UNCHANGED <<up, cut>>
  BY EnvironmentProcess
<1>3. \A c \in Conn : child[c] # "none" => child'[c] # "none"
  <2>1. ASSUME NEW d \in Conn, Connect(d) \/ Send(d) \/ Leave(d)
        PROVE  UNCHANGED child
    BY <2>1 DEF Connect, Send, Leave, scripts
  <2>2. ASSUME NEW d \in Conn, ChildWrite(d) \/ ChildExit(d)
        PROVE  \A c \in Conn : child[c] # "none" => child'[c] # "none"
    BY <2>2 DEF ChildWrite, ChildExit, PoolInv, PerConn
  <2>3. ASSUME NEW f \in File, Truncate(f) \/ Unlink(f)
        PROVE  UNCHANGED child
    BY <2>3 DEF Truncate, Unlink, scripts
  <2> QED
    BY <2>1, <2>2, <2>3 DEF Environment
<1>4. ChildForEachWait'
  BY <1>3, CountSame DEF PoolInv
<1>5. StaysUp'
  BY EnvironmentStaysUp DEF IInv, PoolInv
<1>6. up => ServingInv' /\ RepliesInv'
  BY EnvironmentServing DEF PoolInv
<1>7. ASSUME ~ up, NEW c \in Conn
      PROVE  ShortInv(c, cut)'
  <2>1. ShortInv(c, cut)
    BY <1>7 DEF PoolInv
  <2> QED
    BY <1>2, <2>1, ShortEnvironment DEF IInv, PoolInv
<1> QED
  BY <1>1, <1>2, <1>4, <1>5, <1>6, <1>7 DEF PoolInv

(* A step that changes nothing outside the threads.                         *)
LEMMA InsideTypes ==
  ASSUME PerConn, TypesInv, UNCHANGED web
  PROVE  PerConn' /\ TypesInv' /\ UNCHANGED <<up, child>>
<1>1. /\ UNCHANGED <<up, fatal, cut, files, gone, wants, reply, data>>
      /\ UNCHANGED <<child, image, inherited>>
  BY DEF web, process, client, scripts
<1>2. ASSUME NEW c \in Conn
      PROVE  ImageInv(c)'
  BY <1>1, ImageStable DEF TypesInv, ImageInv, Touched
<1> QED
  BY <1>1, <1>2 DEF PerConn, TypesInv

LEMMA AcceptorPool ==
  ASSUME IInv, PoolInv, Acceptor
  PROVE  PoolInv'
<1>1. up /\ ServingInv /\ RepliesInv /\ WebInv /\ PerConn /\ TypesInv
  BY DEF Acceptor, Accept, ReadLine, ReadHeaders, Stat, Refused, Put, PoolInv, IInv
<1>2. CASE UNCHANGED web /\ UNCHANGED worker
  <2>1. /\ PerConn' /\ TypesInv' /\ UNCHANGED <<up, child>>
        /\ main' \in {"accept", "line", "headers", "stat", "refused", "put"}
    BY <1>1, <1>2, InsideTypes, AcceptorStep DEF Die, EndProcess
  <2>2. PointsInv'
    BY <1>2, <2>1 DEF PoolInv, PointsInv
  <2>3. ChildForEachWait'
    BY <1>2, <2>1, CountSame DEF PoolInv
  <2>4. ServingInv' /\ RepliesInv' /\ StaysUp'
    BY <1>1, <2>1, AcceptorServing DEF StaysUp
  <2> QED
    BY <1>1, <2>1, <2>2, <2>3, <2>4 DEF PoolInv
<1>3. ASSUME NEW d \in Conn, ServerStep(d), up', UNCHANGED <<worker, child>>,
             main' \in {"accept", "line", "headers", "stat", "refused", "put"}
      PROVE  PoolInv'
  <2>1. PerConn' /\ TypesInv' /\ PointsInv'
    BY <1>1, <1>3, PerConnStep, ServerTypes DEF PoolInv, PointsInv
  <2>2. ChildForEachWait'
    BY <1>3, CountSame DEF PoolInv
  <2>3. ServingInv' /\ RepliesInv' /\ StaysUp'
    BY <1>1, <1>3, AcceptorServing DEF StaysUp
  <2> QED
    BY <1>3, <2>1, <2>2, <2>3 DEF PoolInv
<1>4. ASSUME NEW c \in Conn, c \in gone, Die(c), UNCHANGED <<main, conn_fd, buffer, worker>>
      PROVE  PoolInv'
  <2>1. Ends(c) /\ ServerStep(c)
    BY <1>4 DEF Ends, MayEnd, Die, ServerStep
  <2> QED
    BY <1>1, <1>4, <2>1, EndPool
<1>5. ASSUME NEW c, c = conn_fd, c \in Conn, UNCHANGED <<conn_fd, buffer, worker>>,
             main' = IF up' THEN "refused" ELSE main,
             NEW status \in {"501", "404", "403"}, RequestError(c, status)
      PROVE  PoolInv'
  <2>1. ServerStep(c)
    BY <1>5 DEF ServerStep
  <2>2. UNCHANGED child /\ (GoesOn \/ Ends(c))
    BY <1>1, <1>5, WriteStep DEF RequestError
  <2>3. CASE GoesOn
    BY <1>1, <1>3, <1>5, <2>1, <2>2, <2>3 DEF GoesOn
  <2>4. CASE Ends(c)
    <3>1. UNCHANGED main
      BY <1>5, <2>4 DEF Ends, EndProcess
    <3> QED
      BY <1>1, <1>5, <2>1, <2>4, <3>1, EndPool
  <2> QED
    BY <2>2, <2>3, <2>4
<1>6. ASSUME NEW c \in Conn, AcceptConn(c) \/ CloseConn(c)
      PROVE  ServerStep(c) /\ UNCHANGED <<up, child>>
  BY <1>6 DEF ServerStep, AcceptConn, CloseConn, process, scripts
<1> QED
  BY <1>1, <1>2, <1>3, <1>4, <1>5, <1>6, AcceptorStep

LEMMA WorkerPool ==
  ASSUME IInv, PoolInv, NEW w \in Worker, WorkerStep(w)
  PROVE  PoolInv'
<1>1. up /\ PointsInv /\ ServingInv /\ RepliesInv /\ WebInv /\ PerConn /\ TypesInv
  BY DEF WorkerStep, Get, Serve, Close, From, PoolInv, IInv
<1>2. CASE Serve(w)
  <2>0. PICK r : r = taken[w]
    OBVIOUS
  <2>1. /\ r.conn_fd \in Conn /\ ServerStep(r.conn_fd)
        /\ UNCHANGED <<main, conn_fd, buffer>>
        /\ \/ /\ GoesOn
              /\ \E point \in {"head", "body", "close", "fork", "wait"} :
                   worker' = [worker EXCEPT ![w] = point]
           \/ Ends(r.conn_fd) /\ UNCHANGED worker
    BY <1>1, <1>2, <2>0, ServeStep
  <2>2. CASE Ends(r.conn_fd) /\ UNCHANGED worker
    BY <1>1, <2>1, <2>2, EndPool
  <2>3. CASE /\ GoesOn
             /\ \E point \in {"head", "body", "close", "fork", "wait"} :
                  worker' = [worker EXCEPT ![w] = point]
    <3>1. PointsInv' /\ up' /\ StaysUp'
      BY <1>1, <2>1, <2>3 DEF PointsInv, GoesOn, StaysUp
    <3>2. PerConn' /\ TypesInv'
      BY <1>1, <2>1, PerConnStep, ServerTypes
    <3>3. ChildForEachWait'
      BY <1>1, <1>2, ServeCount
    <3>4. ServingInv' /\ RepliesInv'
      BY <1>1, <1>2, <3>1, ServeServing
    <3> QED
      BY <3>1, <3>2, <3>3, <3>4 DEF PoolInv
  <2> QED
    BY <2>1, <2>2, <2>3
<1>3. CASE Get(w)
  <2>1. /\ ServingInv' /\ RepliesInv' /\ PointsInv'
        /\ UNCHANGED web /\ worker'[w] # "wait"
        /\ \A v \in Worker : v # w => worker'[v] = worker[v]
    BY <1>1, <1>3, GetServing
  <2>2. PerConn' /\ TypesInv' /\ UNCHANGED <<up, child>>
    BY <1>1, <2>1, InsideTypes
  <2>3. ChildForEachWait'
    BY <2>1, <2>2, CountSame DEF PoolInv
  <2> QED
    BY <1>1, <2>1, <2>2, <2>3 DEF PoolInv, StaysUp
<1>4. CASE Close(w)
  <2>1. /\ ServingInv' /\ RepliesInv' /\ PointsInv' /\ taken[w].conn_fd \in Conn
        /\ UNCHANGED <<up, child>> /\ worker'[w] = "get"
        /\ \A v \in Worker : v # w => worker'[v] = worker[v]
    BY <1>1, <1>4, CloseServing
  <2>2. ServerStep(taken[w].conn_fd)
    BY <1>4 DEF Close, ServerStep
  <2>3. PerConn' /\ TypesInv'
    BY <1>1, <2>1, <2>2, PerConnStep, ServerTypes
  <2>4. ChildForEachWait'
    BY <2>1, CountSame DEF PoolInv
  <2> QED
    BY <1>1, <2>1, <2>3, <2>4 DEF PoolInv, StaysUp
<1> QED
  BY <1>2, <1>3, <1>4 DEF WorkerStep

THEOREM PoolInvHolds == Spec => []PoolInv
<1>1. ASSUME IInv, PoolInv, [Next]_vars
      PROVE  PoolInv'
  <2>1. CASE UNCHANGED vars
    <3>1. /\ UNCHANGED <<up, fatal, cut, files, gone, wants, reply, data, child, backlog>>
          /\ UNCHANGED <<main, conn_fd, queue, offered, taken, worker>> /\ UNCHANGED web
      BY <2>1 DEF vars, web, process, client, scripts, buffer
    <3>2. PointsInv' /\ PerConn' /\ TypesInv'
      BY <1>1, <3>1, InsideTypes DEF PoolInv, PointsInv
    <3>3. ChildForEachWait'
      BY <1>1, <3>1, CountSame DEF PoolInv
    <3>4. StaysUp'
      <4>1. PICK c : c = fatal
        OBVIOUS
      <4>2. ~ up => MayEnd(c)
        BY <1>1, <4>1 DEF PoolInv, StaysUp, MayEnd
      <4>3. ~ up => MayEnd(c)'
        BY <3>1, <4>2, MayEndSame
      <4> QED
        BY <3>1, <4>1, <4>3 DEF StaysUp, MayEnd
    <3>5. up => ServingInv'
      BY <1>1, <3>1, ServeSame DEF PoolInv, ServingInv, Fresh, Waiting
    <3>6. Receiving' = Receiving
      BY <3>1 DEF Receiving, Serving
    <3>7. ASSUME NEW c \in Conn, up
          PROVE  ShortInv(c, Receiving)'
      <4>1. ShortInv(c, Receiving)
        BY <1>1, <3>7 DEF PoolInv, RepliesInv
      <4> QED
        BY <3>1, <3>6, <4>1, ShortSame DEF Touched
    <3>8. ASSUME NEW c \in Conn, ~ up
          PROVE  ShortInv(c, cut)'
      <4>1. ShortInv(c, cut)
        BY <1>1, <3>8 DEF PoolInv
      <4> QED
        BY <3>1, <4>1, ShortSame DEF Touched
    <3> QED
      BY <3>1, <3>2, <3>3, <3>4, <3>5, <3>7, <3>8 DEF PoolInv, RepliesInv
  <2> QED
    BY <1>1, <2>1, EnvironmentPool, AcceptorPool, WorkerPool DEF Next
<1> QED
  BY InitPoolInv, IInvHolds, <1>1, PTL DEF Spec

(* The server ends only at a step for a connection whose client closed      *)
(* early, or asks for a static file that changed, that the server's user    *)
(* may not read, that is empty, or whose size does not fit an int: no wait  *)
(* fails, although every worker may reap any child.                         *)
THEOREM StaysUpHolds == Spec => []StaysUp
<1>1. PoolInv => StaysUp
  BY DEF PoolInv
<1> QED
  BY PoolInvHolds, <1>1, PTL

(* Every worker in wait_or_die has a child to wait for, although each of    *)
(* them may reap any child.                                                 *)
THEOREM ChildForEachWaitHolds == Spec => []ChildForEachWait
<1>1. PoolInv => ChildForEachWait
  BY DEF PoolInv
<1> QED
  BY PoolInvHolds, <1>1, PTL

(* A client that waits for the end of file gets less than Content-Length    *)
(* only of a file that somebody changed, or that is larger than a write is  *)
(* sure to take, or when the process ended while its connection was open.   *)
THEOREM ShortOnlyIfTouchedHolds == Spec => []ShortOnlyIfTouched
<1>1. ASSUME IInv, PoolInv
      PROVE  ShortOnlyIfTouched
  <2>1. SUFFICES ASSUME NEW c \in Conn, c \notin gone, Ended(c), c \notin cut,
                        reply[c].body < reply[c].length
                 PROVE  \E f \in Documents(c) : Touched(f) \/ Large(f)
    BY DEF ShortOnlyIfTouched, Touched, Large
  <2>2. CASE ~ up
    <3>1. ShortInv(c, cut)
      BY <1>1, <2>2 DEF PoolInv
    <3> QED
      BY <2>1, <3>1 DEF ShortInv
  <2>3. CASE up
    <3>1. ShortInv(c, Receiving)
      BY <1>1, <2>3 DEF PoolInv, RepliesInv
    <3>2. c \notin Receiving
      <4>1. SUFFICES ASSUME NEW w \in Worker, taken[w] # NoRequest, taken[w].conn_fd = c
                     PROVE  FALSE
        BY DEF Receiving, Serving
      <4>2. c \in open
        BY <1>1, <2>3, <4>1, Apart
      <4> QED
        BY <2>1, <4>2 DEF Ended
    <3> QED
      BY <2>1, <3>1, <3>2 DEF ShortInv
  <2> QED
    BY <2>2, <2>3
<1> QED
  BY IInvHolds, PoolInvHolds, <1>1, PTL
-----------------------------------------------------------------------------
(* The server as the user of the request queue.                             *)

LEMMA QueueConstants == QueueFacts!QueueAssumption
<1>1. [req \in RequestT |-> req.filesize] \in [RequestT -> Int]
  <2>1. ASSUME NEW r \in RequestT PROVE r.filesize \in Int
    <3>1. PICK c \in Conn, uri \in UrisLeft, n \in Sizes : r = RequestFor(c, uri, n)
      BY DEF RequestT
    <3>2. n \in Nat
      BY <3>1, InitialFilesType DEF Sizes
    <3>3. r.filesize = ToInt(n)
      BY <3>1 DEF RequestFor
    <3> QED
      BY <3>2, <3>3, ToIntBound
  <2> QED
    BY <2>1
<1> QED
  BY <1>1, ServerAssumption DEF QueueFacts!QueueAssumption

(* The request that the acceptor offers is of a connection which no other   *)
(* request of the queue or of a worker has: what Buffer!Offer demands.      *)
LEMMA OfferedIsNew ==
  ASSUME IInv, NEW r \in RequestT, r.conn_fd = conn_fd, main # "put"
  PROVE  r \notin Buffer!InFlight
<1>1. \A k \in DOMAIN queue : queue[k].conn_fd # conn_fd
  BY DEF IInv, HoldersInv
<1>2. \A w \in Worker : taken[w] # NoRequest => taken[w].conn_fd # conn_fd
  BY DEF IInv, HoldersInv, OneHolder, Serving
<1>3. offered = NoRequest
  BY DEF IInv, HoldersInv
<1> QED
  BY <1>1, <1>2, <1>3, RequestFields DEF Buffer!InFlight, Buffer!Queued

LEMMA QueueStep ==
  ASSUME IInv, [Next]_vars
  PROVE  [Buffer!Next]_buffer
<1>1. CASE UNCHANGED buffer
  BY <1>1
<1>2. CASE Acceptor
  <2>1. ASSUME up, main = "stat",
               NEW uri \in UriRead(conn_fd), StatOf(uri) # Absent, Offer(uri)
        PROVE  Buffer!Next
    <3>1. conn_fd \in Conn /\ wants[conn_fd] # NotGet
      BY <2>1 DEF IInv, HoldersInv, ReadInv
    <3>2. RequestFor(conn_fd, uri, StatOf(uri).size) \in RequestT
      BY <2>1, <3>1, RequestForType DEF IInv
    <3> QED
      BY <2>1, <3>2 DEF Offer, Buffer!Next
  <2>2. CASE Put
    BY <2>2 DEF Put, Buffer!Next
  <2>3. UNCHANGED buffer \/ Put
        \/ /\ up /\ main = "stat"
           /\ \E uri \in UriRead(conn_fd) : StatOf(uri) # Absent /\ Offer(uri)
    BY <1>2 DEF Acceptor, Accept, ReadLine, ReadHeaders, Stat, Refused, Refuse
  <2> QED
    BY <2>1, <2>2, <2>3
<1>3. ASSUME NEW w \in Worker, WorkerStep(w)
      PROVE  [Buffer!Next]_buffer
  BY <1>3 DEF WorkerStep, Get, Serve, Close, Buffer!Next
<1> QED
  BY <1>1, <1>2, <1>3 DEF Next, vars

(* The requests go through the server as module RequestQueue says: as no    *)
(* connection is offered twice, the server asks nothing of the queue that   *)
(* buffer.c does not provide.                                               *)
THEOREM UsesQueue == Spec => Buffer!Spec
<1>1. Init => Buffer!Init
  BY DEF Init
<1>2. IInv /\ [Next]_vars => [Buffer!Next]_(Buffer!vars)
  BY QueueStep DEF buffer, Buffer!vars
<1> QED
  BY <1>1, <1>2, IInvHolds, PTL DEF Spec, Buffer!Spec

(* The queue never holds more than bufsize requests, and every value stays  *)
(* within its type.                                                         *)
THEOREM TypeCorrect == Spec => []TypeOK
<1>1. Spec => []Buffer!TypeOK
  <2>1. Init => Buffer!TypeOK
    BY QueueConstants, ServerAssumption
       DEF Init, Buffer!Init, Buffer!TypeOK
  <2>2. IInv /\ Buffer!TypeOK /\ [Next]_vars => Buffer!TypeOK'
    <3>1. SUFFICES ASSUME IInv, Buffer!TypeOK, [Next]_vars PROVE Buffer!TypeOK'
      OBVIOUS
    <3>2. [QueueFacts!Next]_(QueueFacts!vars)
      BY <3>1, QueueStep
         DEF buffer, QueueFacts!vars, QueueFacts!Next, Buffer!Next, QueueFacts!Offer, Buffer!Offer,
             QueueFacts!Put, Buffer!Put, QueueFacts!Get, Buffer!Get, QueueFacts!Finish,
             Buffer!Finish, QueueFacts!InFlight, Buffer!InFlight, QueueFacts!Queued,
             Buffer!Queued, QueueFacts!IsNext, Buffer!IsNext, QueueFacts!RemoveAt,
             Buffer!RemoveAt
    <3>3. QueueFacts!TypeOK
      BY <3>1 DEF Buffer!TypeOK, QueueFacts!TypeOK
    <3>4. QueueFacts!TypeOK'
      BY <3>2, <3>3, QueueConstants, QueueFacts!TypeStep
    <3> QED
      BY <3>4 DEF Buffer!TypeOK, QueueFacts!TypeOK
  <2> QED
    BY <2>1, <2>2, IInvHolds, PTL DEF Spec
<1>2. IInv /\ PoolInv /\ Buffer!TypeOK => TypeOK
  BY WebTypes DEF IInv, HoldersInv, PoolInv, PointsInv, TypeOK
<1> QED
  BY <1>1, <1>2, IInvHolds, PoolInvHolds, PTL

-----------------------------------------------------------------------------
(* While no client leaves and no file changes, the server implements the    *)
(* service of one whole answer per request.                                 *)

(* A connection that is about to be closed has its answer, or a script that *)
(* is going to write it: also when its worker reaped another's script.      *)
WorkersServed == \A w \in Worker : worker[w] \in {"wait", "close"} => Whole(taken[w].conn_fd)

ServedInv ==
  /\ CalmInv /\ WorkersServed
  /\ main = "refused" => Whole(conn_fd)

LEMMA Served ==
  ASSUME IInv, PoolInv, ServedInv
  PROVE  /\ up /\ WebInv /\ PerConn /\ TypesInv /\ CalmInv /\ files = InitialFiles /\ gone = {}
         /\ ServingInv /\ WorkersServed /\ open \subseteq Conn
         /\ \A w \in Worker : worker[w] # "get" =>
              taken[w] # NoRequest /\ taken[w].conn_fd \in open
BY Apart DEF IInv, PoolInv, ServedInv, CalmInv, ServingInv, WebInv

(* The workers that a step is not about.                                    *)
LEMMA WorkersStay ==
  ASSUME IInv, PoolInv, ServedInv, UNCHANGED <<worker, taken>>,
         \A d \in Conn : d \in open /\ d # conn_fd => (Whole(d) => Whole(d)')
  PROVE  WorkersServed'
<1> SUFFICES ASSUME NEW w \in Worker, worker[w] \in {"wait", "close"}
             PROVE  Whole(taken[w].conn_fd)'
  BY DEF WorkersServed
<1>1. PICK d : d = taken[w].conn_fd
  OBVIOUS
<1>2. d \in open /\ d \in Conn /\ d # conn_fd /\ Whole(d)
  BY <1>1, Served, Apart DEF WorkersServed
<1> QED
  BY <1>1, <1>2

LEMMA EnvironmentServed ==
  ASSUME Calm, IInv, PoolInv, ServedInv, Environment, UNCHANGED <<main, conn_fd, buffer, worker>>
  PROVE  ServedInv' /\ Service!Next
<1>1. PICK c : c = conn_fd
  OBVIOUS
<1>2. /\ CalmInv' /\ Service!Next
      /\ \A d \in open : Whole(d) => Whole(d)'
  BY EnvironmentCalm DEF IInv, PoolInv, ServedInv
<1>3. WorkersServed'
  BY <1>2, WorkersStay DEF buffer
<1>4. main = "refused" => Whole(c)'
  BY <1>1, <1>2, Served, Apart DEF ServedInv, IInv, HoldersInv
<1> QED
  BY <1>1, <1>2, <1>3, <1>4 DEF ServedInv

(* The acceptor.                                                            *)
LEMMA RefuseServed ==
  ASSUME IInv, PoolInv, ServedInv, conn_fd \in Conn, Fresh(conn_fd),
         NEW status, Status(status) \in Answers[wants[conn_fd]], Refuse(status)
  PROVE  ServedInv' /\ Service!Next
<1>1. PICK c : c = conn_fd
  OBVIOUS
<1>2. RequestError(c, status) /\ UNCHANGED <<conn_fd, worker, taken>>
  BY <1>1 DEF Refuse, buffer
<1>3. c \in open
  BY <1>1, Served, Apart
<1>4. /\ CalmInv' /\ Service!Next /\ Whole(c)'
      /\ \A d \in Conn : Whole(d) => Whole(d)'
  BY <1>1, <1>2, <1>3, Served, RefuseCalm
<1>5. WorkersServed'
  BY <1>2, <1>4, WorkersStay
<1> QED
  BY <1>1, <1>2, <1>4, <1>5 DEF ServedInv

(* A step of the acceptor that neither refuses nor answers.                 *)
LEMMA InsideServed ==
  ASSUME IInv, PoolInv, ServedInv, UNCHANGED <<web, worker, taken>>, main' # "refused"
  PROVE  ServedInv' /\ Service!Next
<1>1. /\ CalmInv' /\ Service!Next
      /\ \A d \in Conn : Whole(d) => Whole(d)'
  BY Served, InsideCalm DEF web, process
<1>2. WorkersServed'
  BY <1>1, WorkersStay
<1> QED
  BY <1>1, <1>2 DEF ServedInv

LEMMA AcceptorServed ==
  ASSUME IInv, PoolInv, ServedInv, Acceptor
  PROVE  ServedInv' /\ Service!Next
<1>1. up /\ gone = {} /\ (main # "accept" => conn_fd \in Conn)
  BY Served DEF IInv, HoldersInv
<1>2. main \in {"line", "headers", "stat"} => Fresh(conn_fd)
  BY <1>1, Served DEF ServingInv
<1>3. CASE Accept
  <2>1. PICK c \in Conn : AcceptConn(c)
    BY <1>1, <1>3 DEF Accept, AcceptFails
  <2>2. /\ CalmInv' /\ Service!Next
        /\ \A d \in Conn : Whole(d) => Whole(d)'
    BY <1>1, <2>1, Served, AcceptCalm
  <2>3. UNCHANGED <<worker, taken>> /\ main' \in {"accept", "line"}
    BY <1>3 DEF Accept, GoesTo, buffer
  <2>4. WorkersServed'
    BY <1>1, <2>2, <2>3, WorkersStay
  <2> QED
    BY <2>2, <2>3, <2>4 DEF ServedInv
<1>4. CASE ReadLine
  <2>1. CASE Refuse("501") /\ FALSE \in MethodIsGet(conn_fd)
    <3>1. conn_fd \in Conn /\ LineRead(conn_fd)
      BY <1>1, <1>4 DEF ReadLine, ReadFails
    <3>2. wants[conn_fd] = NotGet
      BY <1>1, <2>1, <3>1, Served DEF LineRead, MethodIsGet
    <3>3. Status("501") \in Answers[wants[conn_fd]]
      BY <1>1, <3>1, <3>2, Served, RefusalAnswered
    <3> QED
      BY <1>1, <1>2, <1>4, <2>1, <3>1, <3>3, RefuseServed DEF ReadLine
  <2>2. CASE main' = "headers" /\ UNCHANGED <<web, conn_fd, buffer, worker>>
    BY <1>1, <2>2, InsideServed DEF buffer
  <2>3. ~ ReadFails(conn_fd)
    BY <1>1 DEF ReadFails
  <2> QED
    BY <1>4, <2>1, <2>2, <2>3 DEF ReadLine
<1>5. CASE ReadHeaders
  BY <1>1, <1>5, InsideServed DEF ReadHeaders, ReadFails, GoesTo, buffer
<1>6. CASE Stat
  <2>1. /\ main = "stat" /\ conn_fd \in Conn /\ wants[conn_fd] # NotGet
        /\ Fresh(conn_fd)
    BY <1>1, <1>2, <1>6 DEF Stat, IInv, ReadInv
  <2>2. PICK uri \in UriRead(conn_fd) :
          \/ StatOf(uri) = Absent /\ Refuse("404")
          \/ StatOf(uri) # Absent /\ ~ Permitted(uri) /\ Refuse("403")
          \/ Offer(uri)
    BY <1>6 DEF Stat
  <2>3. CASE Offer(uri)
    BY <1>1, <2>3, InsideServed DEF Offer, Buffer!Offer
  <2>4. /\ StatOf(uri) = Absent => Status("404") \in Answers[wants[conn_fd]]
        /\ StatOf(uri) # Absent /\ ~ Permitted(uri) => Status("403") \in Answers[wants[conn_fd]]
    BY <1>1, <2>1, Served, RefusalAnswered
  <2> QED
    BY <1>1, <2>1, <2>2, <2>3, <2>4, RefuseServed
<1>7. CASE Refused
  <2>1. /\ main = "refused" /\ conn_fd \in Conn /\ CloseConn(conn_fd) /\ main' = "accept"
        /\ UNCHANGED <<worker, taken>>
    BY <1>1, <1>7 DEF Refused, buffer
  <2>2. /\ CalmInv' /\ Service!Next
        /\ \A d \in Conn : Whole(d) => Whole(d)'
    BY <1>1, <2>1, CloseCalm DEF ServedInv
  <2>3. WorkersServed'
    BY <1>1, <2>1, <2>2, WorkersStay
  <2> QED
    BY <2>1, <2>2, <2>3 DEF ServedInv
<1>8. CASE Put
  BY <1>1, <1>8, InsideServed DEF Put, Buffer!Put
<1> QED
  BY <1>3, <1>4, <1>5, <1>6, <1>7, <1>8 DEF Acceptor

(* A step of worker w, which is then at a point where its own connection is *)
(* not about to be closed, or has been answered.                            *)
LEMMA OthersServed ==
  ASSUME IInv, PoolInv, ServedInv, NEW w \in Worker, taken[w] # NoRequest,
         \A v \in Worker : v # w => worker'[v] = worker[v] /\ taken'[v] = taken[v],
         \A d \in Conn : d # taken[w].conn_fd => (Whole(d) => Whole(d)'),
         worker'[w] \in {"wait", "close"} => Whole(taken[w].conn_fd)'
  PROVE  WorkersServed'
<1>1. ASSUME NEW v \in Worker, v # w, worker'[v] \in {"wait", "close"}
      PROVE  Whole(taken[v].conn_fd)'
  <2>1. PICK d : d = taken[v].conn_fd
    OBVIOUS
  <2>2. worker[v] = worker'[v] /\ taken'[v] = taken[v]
    BY <1>1
  <2>3. d \in Conn /\ d # taken[w].conn_fd /\ Whole(d)
    BY <1>1, <2>1, <2>2, Served, Apart DEF WorkersServed
  <2> QED
    BY <2>1, <2>2, <2>3
<1> QED
  BY <1>1 DEF WorkersServed

LEMMA ServeServed ==
  ASSUME Calm, IInv, PoolInv, ServedInv, NEW w \in Worker, Serve(w)
  PROVE  ServedInv' /\ Service!Next
<1>1. PICK r : r = taken[w]
  OBVIOUS
<1>2. PICK point : point = worker[w]
  OBVIOUS
<1>3. up /\ UNCHANGED <<main, conn_fd, taken>> /\ r # NoRequest /\ DOMAIN worker = Worker
  BY <1>1 DEF Serve, From, buffer, PoolInv, PointsInv
<1>4. ServeInv(r, point) /\ r.conn_fd \in open /\ r.conn_fd \in Conn /\ r.conn_fd # conn_fd
  BY <1>1, <1>2, <1>3, Served, Apart DEF ServingInv
<1>5. up'
  <2>1. ~ Ends(r.conn_fd)
    BY <1>4, Served, CalmGoesOn DEF Ends
  <2> QED
    BY <1>1, <1>3, <2>1, ServeStep DEF GoesOn
<1>6. /\ \/ point = "map" /\ MapFile(r)
         \/ point = "head" /\ WriteHead(r)
         \/ point = "body" /\ WriteBody(r)
         \/ point = "cgi" /\ WriteCgiHead(r)
         \/ point = "fork" /\ Fork(r)
         \/ point = "wait" /\ Wait(r.conn_fd)
      /\ \A v \in Worker : v # w => worker'[v] = worker[v]
      /\ worker'[w] \in {"wait", "close"} => point \in {"body", "fork", "wait"}
  BY <1>1, <1>2, <1>3, <1>5 DEF Serve, From
<1>7. /\ CalmInv' /\ Service!Next
      /\ \A d \in Conn : d # r.conn_fd \/ point = "wait" => (Whole(d) => Whole(d)')
      /\ point \in {"body", "fork"} => Whole(r.conn_fd)'
  BY <1>4, <1>5, <1>6, Served, ServeCalm
<1>8. point = "wait" => Whole(r.conn_fd)
  BY <1>1, <1>2, <1>3, Served DEF WorkersServed
<1>9. taken'[w] = r
  BY <1>1, <1>3
<1>10. worker'[w] \in {"wait", "close"} => Whole(r.conn_fd)'
  BY <1>4, <1>6, <1>7, <1>8
<1>11. WorkersServed'
  BY <1>1, <1>3, <1>6, <1>7, <1>9, <1>10, OthersServed
<1>12. PICK c : c = conn_fd
  OBVIOUS
<1>13. main = "refused" => Whole(c)'
  BY <1>3, <1>4, <1>7, <1>12 DEF ServedInv, IInv, HoldersInv
<1> QED
  BY <1>3, <1>7, <1>11, <1>12, <1>13 DEF ServedInv

LEMMA GetServed ==
  ASSUME IInv, PoolInv, ServedInv, NEW w \in Worker, Get(w)
  PROVE  ServedInv' /\ Service!Next
<1>1. up /\ UNCHANGED web
  BY DEF Get, From
<1>2. /\ worker'[w] \in {"map", "cgi"} /\ UNCHANGED <<main, conn_fd>>
      /\ \A v \in Worker : v # w => worker'[v] = worker[v] /\ taken'[v] = taken[v]
  BY <1>1 DEF Get, From, Buffer!Get, PoolInv, PointsInv, IInv, HoldersInv, web, process
<1>3. /\ CalmInv' /\ Service!Next
      /\ \A d \in Conn : Whole(d) => Whole(d)'
  BY <1>1, Served, InsideCalm DEF web, process
<1>4. ASSUME NEW v \in Worker, worker'[v] \in {"wait", "close"}
      PROVE  Whole(taken[v].conn_fd)'
  <2>1. PICK d : d = taken[v].conn_fd
    OBVIOUS
  <2>2. worker[v] = worker'[v] /\ taken'[v] = taken[v]
    BY <1>2, <1>4
  <2>3. d \in Conn /\ Whole(d)
    BY <1>1, <1>4, <2>1, <2>2, Served DEF WorkersServed
  <2> QED
    BY <1>3, <2>1, <2>2, <2>3
<1>5. WorkersServed'
  BY <1>4 DEF WorkersServed
<1>6. PICK c : c = conn_fd
  OBVIOUS
<1>7. main = "refused" => Whole(c)'
  BY <1>1, <1>3, <1>6 DEF ServedInv, IInv, HoldersInv
<1> QED
  BY <1>2, <1>3, <1>5, <1>6, <1>7 DEF ServedInv

LEMMA CloseServed ==
  ASSUME IInv, PoolInv, ServedInv, NEW w \in Worker, Close(w)
  PROVE  ServedInv' /\ Service!Next
<1>1. PICK d : d = taken[w].conn_fd
  OBVIOUS
<1>2. up /\ taken[w] # NoRequest /\ worker[w] = "close" /\ CloseConn(d)
  BY <1>1 DEF Close, From
<1>3. d \in Conn /\ Whole(d)
  BY <1>1, <1>2, Served DEF WorkersServed
<1>4. /\ worker'[w] = "get" /\ UNCHANGED <<main, conn_fd>>
      /\ \A v \in Worker : v # w => worker'[v] = worker[v] /\ taken'[v] = taken[v]
  BY <1>2 DEF Close, From, CloseConn, Buffer!Finish, PoolInv, PointsInv, IInv, HoldersInv, process
<1>5. /\ CalmInv' /\ Service!Next
      /\ \A c \in Conn : Whole(c) => Whole(c)'
  BY <1>2, <1>3, Served, CloseCalm
<1>6. WorkersServed'
  BY <1>2, <1>4, <1>5, OthersServed
<1>7. PICK c : c = conn_fd
  OBVIOUS
<1>8. main = "refused" => Whole(c)'
  BY <1>2, <1>5, <1>7 DEF ServedInv, IInv, HoldersInv
<1> QED
  BY <1>4, <1>5, <1>6, <1>7, <1>8 DEF ServedInv

(* Every client reads one answer, the one to its own request, whole, before *)
(* the end of file, and nothing after it, however the workers' steps        *)
(* interleave and whichever worker reaps which script.                      *)
THEOREM ImplementsServiceHolds ==
  ASSUME Calm
  PROVE  Spec => ImplementsService
<1>1. Init => ServedInv /\ Service!Init
  <2>1. Init => WebInit /\ main = "accept" /\ \A w \in Worker : worker[w] = "get"
    BY DEF Init
  <2> QED
    BY <2>1, InitCalm DEF ServedInv, WorkersServed
<1>2. ASSUME IInv, PoolInv, ServedInv, [Next]_vars
      PROVE  ServedInv' /\ Service!Next
  <2>1. CASE UNCHANGED vars
    <3>1. UNCHANGED web /\ UNCHANGED <<up, wants, reply, child, main, conn_fd, worker, taken>>
      BY <2>1 DEF vars, web, process, client, scripts, buffer
    <3>2. CalmInv' /\ Service!Next
      BY <1>2, <3>1, InsideCalm DEF PoolInv, ServedInv, CalmInv
    <3> QED
      BY <1>2, <3>1, <3>2 DEF ServedInv, WorkersServed, Whole, Answered
  <2>2. ASSUME NEW w \in Worker, WorkerStep(w)
        PROVE  ServedInv' /\ Service!Next
    BY <1>2, <2>2, ServeServed, GetServed, CloseServed DEF WorkerStep
  <2> QED
    BY <1>2, <2>1, <2>2, EnvironmentServed, AcceptorServed DEF Next
<1>3. Spec => []ServedInv
  BY <1>1, <1>2, IInvHolds, PoolInvHolds, PTL DEF Spec
<1>4. Spec => Service!Spec
  BY <1>1, <1>2, <1>3, IInvHolds, PoolInvHolds, PTL DEF Spec, Service!Spec
<1> QED
  BY <1>4 DEF ImplementsService
=============================================================================
