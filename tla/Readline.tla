------------------------------ MODULE Readline ------------------------------
(***************************************************************************)
(* readline (io_helper.c), byte by byte, under its two callers:            *)
(* request_read_headers of the servers (request.c), what module Web makes  *)
(* one step, HeadersRead; and client_print of the command-line client      *)
(* (wclient.c).  The peer sends bytes and may close its end; buf is an     *)
(* uninitialized array on the stack that every call overwrites from its    *)
(* start.                                                                  *)
(***************************************************************************)
EXTENDS Integers, Sequences, FiniteSetsExt

CONSTANTS
  MaxBuf,       \* MAXBUF, 8192 in the code
  CR, LF, NUL,
  Letter,       \* any other bytes
  StaleBufs,    \* what buf may hold before the first call
  MaxSent       \* bound: how many bytes the peer sends

Byte == {CR, LF, NUL} \cup Letter

ASSUME ReadlineAssumption ==
  /\ MaxBuf \in Nat /\ MaxBuf > 3
  /\ Cardinality({CR, LF, NUL}) = 3
  /\ Letter \cap {CR, LF, NUL} = {}
  /\ StaleBufs # {} /\ StaleBufs \subseteq [0 .. MaxBuf - 1 -> Byte]
  /\ MaxSent \in Nat

VARIABLES
  sent,         \* the bytes the peer has sent
  closed,       \* it has closed its end
  pos,          \* how many of them have been read
  start,        \* the value of pos when readline was called
  buf,
  n,            \* readline: bufp - buf, which at the top of the loop is its n
  point,        \* "loop", "finish", "test", "done"
  caller,       \* request_read_headers, or one of the two loops of client_print
  printed       \* what client_print has printed, but for its "Header: "

peer == <<sent, closed>>
client == <<caller, printed>>
vars == <<peer, pos, start, buf, n, point, client>>

Init ==
  /\ sent = <<>> /\ closed = FALSE
  /\ pos = 0 /\ start = 0
  /\ buf \in StaleBufs
  /\ n = 0
  /\ point = "loop"
  /\ caller \in {"read_headers", "print_header"}
  /\ printed = <<>>

-----------------------------------------------------------------------------

Send ==
  /\ ~ closed /\ Len(sent) < MaxSent
  /\ \E b \in Byte : sent' = Append(sent, b)
  /\ UNCHANGED <<closed, pos, start, buf, n, point, client>>

Close ==
  /\ ~ closed
  /\ closed' = TRUE
  /\ UNCHANGED <<sent, pos, start, buf, n, point, client>>

-----------------------------------------------------------------------------

(* Mutant: no room is left for the NUL. *)
ReadByteFull ==
  /\ point = "loop" /\ n < MaxBuf
  /\ pos < Len(sent)
  /\ buf' = [buf EXCEPT ![n] = sent[pos + 1]]
  /\ pos' = pos + 1
  /\ n' = n + 1
  /\ point' = IF sent[pos'] = LF THEN "finish" ELSE "loop"
  /\ UNCHANGED <<peer, start, client>>

(* Mutant: the line feed is not kept. *)
ReadByteChomps ==
  /\ point = "loop" /\ n < MaxBuf - 1
  /\ pos < Len(sent)
  /\ pos' = pos + 1
  /\ IF sent[pos'] = LF
     THEN point' = "finish" /\ UNCHANGED <<buf, n>>
     ELSE /\ buf' = [buf EXCEPT ![n] = sent[pos']]
          /\ n' = n + 1
          /\ UNCHANGED point
  /\ UNCHANGED <<peer, start, client>>

(* read returns one byte; a line feed ends the loop. *)
ReadByte ==
  /\ point = "loop" /\ n < MaxBuf - 1
  /\ pos < Len(sent)
  /\ buf' = [buf EXCEPT ![n] = sent[pos + 1]]
  /\ pos' = pos + 1
  /\ n' = n + 1
  /\ point' = IF sent[pos'] = LF THEN "finish" ELSE "loop"
  /\ UNCHANGED <<peer, start, client>>

(* read returns 0.  The test for an end of file with no data compares n     *)
(* with 1: after one byte readline returns 0 and leaves the string open.    *)
ReadEof ==
  /\ point = "loop" /\ n < MaxBuf - 1
  /\ pos = Len(sent) /\ closed
  /\ point' = IF n = 1 THEN "test" ELSE "finish"
  /\ UNCHANGED <<peer, pos, start, buf, n, client>>

BufferFull ==
  /\ point = "loop" /\ n = MaxBuf - 1
  /\ point' = "finish"
  /\ UNCHANGED <<peer, pos, start, buf, n, client>>

(* Mutant: the NUL is missing. *)
FinishOpen ==
  /\ point = "finish"
  /\ point' = "test"
  /\ UNCHANGED <<peer, pos, start, buf, n, client>>

Finish ==
  /\ point = "finish"
  /\ buf' = [buf EXCEPT ![n] = NUL]
  /\ point' = "test"
  /\ UNCHANGED <<peer, pos, start, n, client>>

(* Mutant: strncmp(buf, "\r\n", 1) = 0. *)
IsBlankOneByte == buf[0] = CR

(* strcmp(buf, "\r\n") = 0 *)
IsBlank == buf[0] = CR /\ buf[1] = LF /\ buf[2] = NUL

(* What readline returns: the index of the line feed, which is one less     *)
(* than the length of the line; or how many bytes there were without one,   *)
(* but 0 for a single byte.                                                 *)
Returned ==
  IF n > 0 /\ buf[n - 1] = LF THEN n - 1
  ELSE IF n = 1 THEN 0 ELSE n

(* readline is called again. *)
Again ==
  /\ point' = "loop" /\ n' = 0 /\ start' = pos
  /\ UNCHANGED <<peer, pos, buf>>

Return == point' = "done" /\ UNCHANGED <<peer, pos, start, buf, n>>

(* request_read_headers *)
ReadHeadersTest ==
  /\ point = "test" /\ caller = "read_headers"
  /\ IF IsBlank THEN Return ELSE Again
  /\ UNCHANGED client

(* printf("%s") of buf: it ends at the first NUL, one that was read or the  *)
(* one of readline.                                                         *)
Printf ==
  printed' = printed \o [i \in 1 .. Min({k \in DOMAIN buf : buf[k] = NUL}) |-> buf[i - 1]]

(* Mutant: n > 0 does not end the loop. *)
PrintHeaderForever ==
  /\ point = "test" /\ caller = "print_header"
  /\ IF ~ IsBlank
     THEN (IF Returned > 0 THEN Printf ELSE UNCHANGED printed) /\ UNCHANGED caller
     ELSE caller' = "print_body" /\ UNCHANGED printed
  /\ Again

(* client_print, the loop over the header. *)
PrintHeader ==
  /\ point = "test" /\ caller = "print_header"
  /\ IF ~ IsBlank /\ Returned > 0
     THEN Printf /\ UNCHANGED caller
     ELSE caller' = "print_body" /\ UNCHANGED printed
  /\ Again

(* Mutant: a line of two bytes ends the body. *)
PrintBodyTwo ==
  /\ point = "test" /\ caller = "print_body"
  /\ IF Returned > 1 THEN Printf /\ Again ELSE Return /\ UNCHANGED printed
  /\ UNCHANGED caller

(* client_print, the loop over the body. *)
PrintBody ==
  /\ point = "test" /\ caller = "print_body"
  /\ IF Returned > 0 THEN Printf /\ Again ELSE Return /\ UNCHANGED printed
  /\ UNCHANGED caller

Thread ==
  ReadByte \/ ReadEof \/ BufferFull \/ Finish
    \/ ReadHeadersTest \/ PrintHeader \/ PrintBody

Next == Send \/ Close \/ Thread

Spec == Init /\ [][Next]_vars

(* The thread runs whenever read would not block. *)
FairSpec == Spec /\ WF_vars(Thread)

-----------------------------------------------------------------------------

TypeOK ==
  /\ sent \in Seq(Byte) /\ closed \in BOOLEAN
  /\ pos \in 0 .. Len(sent) /\ start \in 0 .. pos
  /\ buf \in [0 .. MaxBuf - 1 -> Byte]
  /\ n \in 0 .. MaxBuf - 1
  /\ point \in {"loop", "finish", "test", "done"}
  /\ caller \in {"read_headers", "print_header", "print_body"}
  /\ printed \in Seq(Byte)

(* A line starts after byte k. *)
LineStart(k) == k \in DOMAIN sent => sent[k] = LF

BlankAfter(k) ==
  LineStart(k) /\ k + 2 <= Len(sent) /\ sent[k + 1] = CR /\ sent[k + 2] = LF

(* Every line that starts before byte k has its line feed, and fits buf.    *)
LinesFit(k) ==
  \A j \in 0 .. k - 1 :
    LineStart(j) => \E i \in DOMAIN sent : i \in j + 1 .. j + MaxBuf - 1 /\ sent[i] = LF

(* When readline returns, buf is a string with the bytes that it read, and  *)
(* they are a whole line, a full buffer, or what came before the end of     *)
(* file; but not when that was a single byte.                               *)
ReturnsLine ==
  LET m == pos - start
      AtEof == closed /\ pos = Len(sent)
  IN
  (point = "test" /\ ~ (AtEof /\ m = 1 /\ sent[pos] # LF)) =>
    /\ buf[m] = NUL
    /\ \A i \in 1 .. m : buf[i - 1] = sent[start + i]
    /\ \A i \in start + 1 .. pos - 1 : sent[i] # LF
    /\ (m > 0 /\ sent[pos] = LF) \/ m = MaxBuf - 1 \/ AtEof

(* request.c: "Reads and discards everything up to and including the blank  *)
(* line that separates HTTP request headers from the body".  What was read  *)
(* ends with the first blank line, if its lines are complete and fit buf.   *)
StopsAtBlankLine ==
  (point = "done" /\ caller = "read_headers" /\ LinesFit(pos)) =>
    /\ BlankAfter(pos - 2)
    /\ \A k \in 0 .. pos - 3 : ~ BlankAfter(k)

(* If the lines before it fit, the blank line ends request_read_headers,    *)
(* whether or not the client closes after it.                               *)
BlankLineSuffices ==
  (\E k \in 0 .. Len(sent) : BlankAfter(k) /\ LinesFit(k))
    ~> (point = "done" \/ caller # "read_headers")

Lines == {k \in 0 .. Len(sent) - 1 : LineStart(k)}

(* The line after byte k is no longer than buf, and not a single byte       *)
(* before the end of file.                                                  *)
LineFits(k) ==
  \/ \E i \in DOMAIN sent : i \in k + 1 .. k + MaxBuf - 1 /\ sent[i] = LF
  \/ Len(sent) - k \in 2 .. MaxBuf - 1

(* printf prints all of each line, and readline returns more than 0 for it: *)
(* there is no NUL in it, and it is not a line feed alone.                  *)
LinesPrintable ==
  /\ \A i \in DOMAIN sent : sent[i] # NUL
  /\ \A k \in Lines : sent[k + 1] # LF /\ LineFits(k)

(* The answer but for its blank line, which client_print takes and does not *)
(* print.                                                                   *)
Whole ==
  LET blank == {k \in 0 .. Len(sent) : BlankAfter(k)} IN
  IF blank = {} THEN sent
  ELSE SubSeq(sent, 1, Min(blank)) \o SubSeq(sent, Min(blank) + 3, Len(sent))

(* client_print (wclient.c) prints the whole of an answer whose lines are   *)
(* printable.  Of any other it does not: what follows a NUL in a line is    *)
(* lost, as in the body of a .gif or .jpg file; and a line feed alone or a  *)
(* single last byte ends the loop, with the rest of the answer unread.      *)
PrintsWholeAnswer ==
  (point = "done" /\ caller = "print_body" /\ LinesPrintable) => printed = Whole

(* The client ends after its server has closed the connection.              *)
ClientEnds == closed ~> (point = "done" \/ caller = "read_headers")
=============================================================================
