----------------------------- MODULE WebService -----------------------------
(***************************************************************************)
(* What a web server over unchanging files promises to its clients, with   *)
(* no sockets, threads, queue or children: each client asks for something, *)
(* receives the one answer to it, piece by piece, and then the end of      *)
(* file.  The sequential server of src/CodeBase and the concurrent one     *)
(* both implement it.                                                      *)
(***************************************************************************)
EXTENDS Integers

CONSTANTS
  Conn,        \* clients, each with one connection at a time
  Answers      \* the answers to each thing that a client can ask for

VARIABLES
  asking,      \* the clients that have not yet read the end of file
  wants,       \* what each client asks for
  reply        \* what each client has received

vars == <<asking, wants, reply>>

Unanswered == [status |-> "none", type |-> "none", length |-> 0, body |-> 0]

(* An answer up to its body. *)
HeadOf(answer) == [answer EXCEPT !.body = 0]

Init ==
  /\ asking = {}
  /\ wants \in [Conn -> DOMAIN Answers]
  /\ reply = [c \in Conn |-> Unanswered]

Ask(c) ==
  /\ c \notin asking
  /\ asking' = asking \cup {c}
  /\ \E w \in DOMAIN Answers : wants' = [wants EXCEPT ![c] = w]
  /\ reply' = [reply EXCEPT ![c] = Unanswered]

(* The client receives the head of an answer, then the whole of it. *)
Receive(c) ==
  /\ c \in asking
  /\ \E answer \in Answers[wants[c]] :
       \/ reply[c] = Unanswered /\ reply' = [reply EXCEPT ![c] = HeadOf(answer)]
       \/ reply[c] = HeadOf(answer) /\ reply' = [reply EXCEPT ![c] = answer]
  /\ UNCHANGED <<asking, wants>>

(* Clients that have the whole of their answers read the end of file.       *)
End(clients) ==
  /\ \A c \in clients : c \in asking /\ reply[c] \in Answers[wants[c]]
  /\ asking' = asking \ clients
  /\ UNCHANGED <<wants, reply>>

Next ==
  \/ \E c \in Conn : Ask(c) \/ Receive(c)
  \/ \E clients \in SUBSET asking : End(clients)

Spec == Init /\ [][Next]_vars
=============================================================================
