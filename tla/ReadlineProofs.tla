--------------------------- MODULE ReadlineProofs ---------------------------
(***************************************************************************)
(* readline returns lines, and its two callers stop at the blank line, for *)
(* every size of the buffer, every rest of an earlier call in it, and      *)
(* every peer.                                                             *)
(***************************************************************************)
EXTENDS Readline, FiniteSetTheorems, SequenceTheorems, WellFoundedInduction, TLAPS

(* What readline has read since it was called is in buf.                    *)
BytesInv ==
  /\ n = pos - start
  /\ \A i \in 1 .. n : buf[i - 1] = sent[start + i]
  /\ \A i \in start + 1 .. pos - 1 : sent[i] # LF

EndsLine == n > 0 /\ sent[pos] = LF
AtEof == closed /\ pos = Len(sent)

(* The string is left open after a single byte before the end of file.      *)
OpenString == n = 1 /\ AtEof /\ sent[pos] # LF

LoopInv ==
  /\ point = "loop" => ~ EndsLine
  /\ point # "loop" => EndsLine \/ n = MaxBuf - 1 \/ AtEof
  /\ point \in {"test", "done"} => buf[n] = NUL \/ OpenString

LineInv == TypeOK /\ BytesInv /\ LoopInv

LEMMA Sizes ==
  /\ MaxBuf \in Nat /\ MaxBuf > 3
  /\ CR # LF /\ CR # NUL /\ LF # NUL
  /\ CR \in Byte /\ LF \in Byte /\ NUL \in Byte
<1>1. MaxBuf \in Nat /\ MaxBuf > 3
  BY ReadlineAssumption
<1>2. CR # LF /\ CR # NUL /\ LF # NUL
  <2>1. Cardinality({CR, LF, NUL}) = 3
    BY ReadlineAssumption
  <2>2. ASSUME NEW x, NEW y, {CR, LF, NUL} = {x, y}
        PROVE  FALSE
    <3>1. Cardinality({x, y}) \in Nat /\ Cardinality({x, y}) <= 2
      <4>1. IsFiniteSet({x}) /\ Cardinality({x}) = 1
        BY FS_Singleton
      <4>2. {x, y} = {x} \cup {y}
        OBVIOUS
      <4>3. Cardinality({x} \cup {y}) = IF y \in {x} THEN Cardinality({x}) ELSE Cardinality({x}) + 1
        BY <4>1, FS_AddElement
      <4> QED
        BY <4>1, <4>2, <4>3
    <3> QED
      BY <2>1, <2>2, <3>1
  <2>3. CR = LF => {CR, LF, NUL} = {LF, NUL}
    OBVIOUS
  <2>4. CR = NUL => {CR, LF, NUL} = {LF, NUL}
    OBVIOUS
  <2>5. LF = NUL => {CR, LF, NUL} = {CR, LF}
    OBVIOUS
  <2> QED
    BY <2>2, <2>3, <2>4, <2>5
<1> QED
  BY <1>1, <1>2 DEF Byte

LEMMA MinExists ==
  ASSUME NEW T \in SUBSET Nat, T # {}
  PROVE  Min(T) \in T /\ \A m \in T : Min(T) <= m
<1> DEFINE R == OpToRel(<, Nat)
<1>1. IsWellFoundedOn(R, Nat)
  BY NatLessThanWellFounded
<1>2. PICK m \in T : \A k \in T : ~ (<<k, m>> \in R)
  <2> HIDE DEF R
  <2> QED
    BY <1>1, WFMin
<1>3. \A k \in T : ~ (k < m)
  BY <1>2 DEF OpToRel
<1>4. \A k \in T : m <= k
  BY <1>3
<1> QED
  BY <1>4 DEF Min

LEMMA InitLine == Init => LineInv
<1> SUFFICES ASSUME Init PROVE LineInv
  OBVIOUS
<1>1. buf \in [0 .. MaxBuf - 1 -> Byte]
  BY ReadlineAssumption DEF Init
<1>2. TypeOK
  BY <1>1, Sizes DEF Init, TypeOK
<1> QED
  BY <1>2 DEF Init, LineInv, BytesInv, LoopInv, EndsLine

(* What was read stays, whatever the peer does next.                        *)
LEMMA PeerLine ==
  ASSUME LineInv, Send \/ Close
  PROVE  LineInv'
<1>1. /\ UNCHANGED <<pos, start, buf, n, point, caller, printed>>
      /\ pos \in Nat /\ start \in Nat /\ pos <= Len(sent) /\ sent \in Seq(Byte) /\ Len(sent) \in Nat
  BY DEF Send, Close, client, LineInv, TypeOK
<1>2. CASE Close
  BY <1>1, <1>2 DEF Close, LineInv, TypeOK, BytesInv, LoopInv, EndsLine, AtEof, OpenString
<1>3. CASE Send
  <2>1. PICK b \in Byte : sent' = Append(sent, b)
    BY <1>3 DEF Send
  <2>2. /\ sent' \in Seq(Byte) /\ Len(sent') = Len(sent) + 1
        /\ \A i \in 1 .. Len(sent) : sent'[i] = sent[i]
    BY <1>1, <2>1
  <2>3. ~ closed /\ UNCHANGED closed
    BY <1>3 DEF Send
  <2>4. TypeOK'
    BY <1>1, <2>2, <2>3 DEF LineInv, TypeOK
  <2>5. BytesInv' /\ (n > 0 => sent'[pos] = sent[pos])
    <3>1. n = pos - start /\ \A i \in start + 1 .. pos : i \in 1 .. Len(sent)
      BY <1>1 DEF LineInv, BytesInv
    <3>2. \A i \in 1 .. n : start + i \in start + 1 .. pos
      BY <1>1, <3>1
    <3>3. \A i \in start + 1 .. pos : sent'[i] = sent[i]
      BY <2>2, <3>1
    <3>4. \A i \in 1 .. n : buf'[i - 1] = sent'[start' + i]
      BY <1>1, <3>2, <3>3 DEF LineInv, BytesInv
    <3>5. \A i \in start' + 1 .. pos' - 1 : sent'[i] # LF
      <4>1. \A i \in start + 1 .. pos - 1 : i \in start + 1 .. pos /\ sent[i] # LF
        BY <1>1 DEF LineInv, BytesInv
      <4> QED
        BY <1>1, <3>3, <4>1
    <3>6. n > 0 => pos \in start + 1 .. pos
      BY <1>1, <3>1
    <3> QED
      BY <1>1, <3>1, <3>3, <3>4, <3>5, <3>6 DEF BytesInv
  <2>6. LoopInv'
    BY <1>1, <2>3, <2>5 DEF LineInv, LoopInv, EndsLine, AtEof, OpenString
  <2> QED
    BY <2>4, <2>5, <2>6 DEF LineInv
<1> QED
  BY <1>2, <1>3

LEMMA ReadByteLine ==
  ASSUME LineInv, ReadByte
  PROVE  LineInv'
<1>1. /\ point = "loop" /\ n < MaxBuf - 1 /\ pos < Len(sent)
      /\ buf' = [buf EXCEPT ![n] = sent[pos + 1]] /\ pos' = pos + 1 /\ n' = n + 1
      /\ point' = IF sent[pos + 1] = LF THEN "finish" ELSE "loop"
      /\ UNCHANGED <<sent, closed, start, caller, printed>>
  BY DEF ReadByte, peer, client
<1>2. /\ pos \in Nat /\ start \in Nat /\ start <= pos /\ n \in Nat /\ Len(sent) \in Nat
      /\ sent \in Seq(Byte) /\ sent[pos + 1] \in Byte /\ n = pos - start
      /\ DOMAIN buf = 0 .. MaxBuf - 1 /\ n \in DOMAIN buf
  BY <1>1, Sizes DEF LineInv, TypeOK, BytesInv
<1>3. TypeOK'
  BY <1>1, <1>2, Sizes DEF LineInv, TypeOK
<1>4. \A i \in 1 .. n' : buf'[i - 1] = sent[start + i]
  <2>1. ASSUME NEW i \in 1 .. n
        PROVE  buf'[i - 1] = sent[start + i]
    <3>1. i - 1 # n /\ i - 1 \in DOMAIN buf
      BY <1>1, <1>2, Sizes
    <3> QED
      BY <1>1, <1>2, <3>1 DEF LineInv, BytesInv
  <2>2. buf'[n] = sent[start + (n + 1)]
    BY <1>1, <1>2
  <2>3. \A i \in 1 .. n' : i \in 1 .. n \/ i = n + 1
    BY <1>1, <1>2
  <2> QED
    BY <1>2, <2>1, <2>2, <2>3
<1>5. \A i \in start + 1 .. pos' - 1 : sent[i] # LF
  BY <1>1, <1>2 DEF LineInv, BytesInv, LoopInv, EndsLine
<1>6. BytesInv'
  BY <1>1, <1>2, <1>4, <1>5 DEF BytesInv
<1>7. LoopInv'
  BY <1>1, <1>2 DEF LoopInv, EndsLine
<1> QED
  BY <1>3, <1>6, <1>7 DEF LineInv

LEMMA ReadEndLine ==
  ASSUME LineInv, ReadEof \/ BufferFull \/ Finish
  PROVE  LineInv'
<1>1. /\ UNCHANGED <<sent, closed, pos, start, n, caller, printed>>
      /\ point \in {"loop", "finish"} /\ point' \in {"finish", "test"}
  BY DEF ReadEof, BufferFull, Finish, peer, client
<1>2. /\ n \in 0 .. MaxBuf - 1 /\ n \in Nat /\ buf \in [0 .. MaxBuf - 1 -> Byte]
      /\ MaxBuf \in Nat
  BY Sizes DEF LineInv, TypeOK
<1>3. CASE Finish
  <2>1. buf' = [buf EXCEPT ![n] = NUL] /\ point = "finish" /\ point' = "test"
    BY <1>3 DEF Finish
  <2>2. buf' \in [0 .. MaxBuf - 1 -> Byte] /\ buf'[n] = NUL
    BY <1>2, <2>1, Sizes
  <2>3. \A i \in 1 .. n : buf'[i - 1] = buf[i - 1]
    BY <1>2, <2>1
  <2>4. TypeOK'
    BY <1>1, <2>1, <2>2 DEF LineInv, TypeOK
  <2>5. BytesInv'
    BY <1>1, <2>3 DEF LineInv, BytesInv
  <2>6. LoopInv'
    BY <1>1, <2>1, <2>2 DEF LineInv, LoopInv, EndsLine, AtEof
  <2> QED
    BY <2>4, <2>5, <2>6 DEF LineInv
<1>4. CASE ReadEof \/ BufferFull
  <2>1. UNCHANGED buf /\ point = "loop"
    BY <1>4 DEF ReadEof, BufferFull
  <2>2. TypeOK' /\ BytesInv'
    BY <1>1, <2>1 DEF LineInv, TypeOK, BytesInv
  <2>3. \/ BufferFull /\ n = MaxBuf - 1 /\ point' = "finish"
        \/ AtEof /\ point' = (IF n = 1 THEN "test" ELSE "finish")
    BY <1>4 DEF ReadEof, BufferFull, AtEof
  <2>4. LoopInv'
    BY <1>1, <2>1, <2>3 DEF LineInv, LoopInv, EndsLine, AtEof, OpenString
  <2> QED
    BY <2>2, <2>4 DEF LineInv
<1> QED
  BY <1>3, <1>4

(* printf prints a string; it is the whole of what readline has read, if    *)
(* there is no NUL in that.                                                 *)
LEMMA PrintfType ==
  ASSUME LineInv, point = "test", Returned > 0
  PROVE  /\ n \in 1 .. MaxBuf - 1
         /\ Printf => printed' \in Seq(Byte)
         /\ Printf /\ (\A i \in start + 1 .. pos : sent[i] # NUL)
              => printed' = printed \o SubSeq(sent, start + 1, pos)
<1> DEFINE T == {k \in DOMAIN buf : buf[k] = NUL}
<1>1. /\ n \in Nat /\ n <= MaxBuf - 1 /\ MaxBuf \in Nat /\ start \in Nat /\ pos \in Nat
      /\ n = pos - start /\ sent \in Seq(Byte) /\ pos <= Len(sent) /\ Len(sent) \in Nat
      /\ DOMAIN buf = 0 .. MaxBuf - 1
      /\ \A i \in 1 .. n : buf[i - 1] = sent[start + i]
  BY Sizes DEF LineInv, TypeOK, BytesInv
<1>2. n > 0 /\ buf[n] = NUL
  <2>1. n > 0
    BY <1>1 DEF Returned
  <2>2. ~ OpenString
    <3>1. SUFFICES ASSUME OpenString PROVE FALSE
      OBVIOUS
    <3>2. n = 1 /\ buf[0] = sent[pos] /\ sent[pos] # LF
      <4>1. n = 1 /\ sent[pos] # LF /\ 1 \in 1 .. n
        BY <3>1 DEF OpenString
      <4>2. buf[1 - 1] = sent[start + 1] /\ start + 1 = pos
        BY <1>1, <4>1
      <4> QED
        BY <4>1, <4>2
    <3> QED
      BY <3>2 DEF Returned
  <2> QED
    BY <2>1, <2>2 DEF LineInv, LoopInv
<1>3. n \in T /\ T \in SUBSET Nat
  BY <1>1, <1>2
<1>4. PICK m : m = Min(T)
  OBVIOUS
<1>5. m \in T /\ \A k \in T : m <= k
  BY <1>3, <1>4, MinExists
<1>6. Printf => printed' = printed \o [i \in 1 .. m |-> buf[i - 1]]
  BY <1>4 DEF Printf
<1>7. [i \in 1 .. m |-> buf[i - 1]] \in Seq(Byte)
  <2>1. m \in Nat /\ m <= MaxBuf - 1
    BY <1>1, <1>5
  <2>2. \A i \in 1 .. m : buf[i - 1] \in Byte
    BY <1>1, <2>1 DEF LineInv, TypeOK
  <2> QED
    BY <2>1, <2>2
<1>8. Printf => printed' \in Seq(Byte)
  <2>1. printed \in Seq(Byte)
    BY DEF LineInv, TypeOK
  <2>2. PICK g : g = [i \in 1 .. m |-> buf[i - 1]]
    OBVIOUS
  <2>3. g \in Seq(Byte)
    BY <1>7, <2>2
  <2>4. printed \o g \in Seq(Byte)
    BY <2>1, <2>3
  <2> QED
    BY <1>6, <2>2, <2>4
<1>9. ASSUME \A i \in start + 1 .. pos : sent[i] # NUL
      PROVE  [i \in 1 .. m |-> buf[i - 1]] = SubSeq(sent, start + 1, pos)
  <2>1. ~ (m < n)
    <3>1. SUFFICES ASSUME m < n PROVE FALSE
      OBVIOUS
    <3>2. m \in Nat /\ m + 1 \in 1 .. n /\ (m + 1) - 1 = m /\ start + (m + 1) \in start + 1 .. pos
      <4>1. m \in Nat
        BY <1>3, <1>5
      <4> QED
        BY <1>1, <3>1, <4>1
    <3>3. buf[m] = sent[start + (m + 1)]
      BY <1>1, <3>2
    <3> QED
      BY <1>5, <1>9, <3>2, <3>3
  <2>2. m = n
    BY <1>1, <1>3, <1>5, <2>1
  <2>3. PICK g : g = [i \in 1 .. n |-> buf[i - 1]]
    OBVIOUS
  <2>4. PICK h : h = SubSeq(sent, start + 1, pos)
    OBVIOUS
  <2>5. h \in Seq(Byte) /\ Len(h) = n /\ \A i \in 1 .. n : h[i] = sent[start + i]
    <3>1. h \in Seq(Byte) /\ Len(h) = n
      BY <1>1, <2>4
    <3>2. \A i \in 1 .. n : h[i] = sent[start + i]
      BY <1>1, <2>4
    <3> QED
      BY <3>1, <3>2
  <2>6. \A i \in 1 .. n : g[i] = sent[start + i] /\ sent[start + i] \in Byte
    <3>1. TAKE i \in 1 .. n
    <3>2. g[i] = buf[i - 1] /\ buf[i - 1] = sent[start + i]
      BY <1>1, <2>3
    <3>3. start + i \in 1 .. Len(sent)
      BY <1>1
    <3>4. sent[start + i] \in Byte
      BY <1>1, <3>3
    <3> QED
      BY <3>2, <3>4
  <2>7. g \in [1 .. n -> Byte] /\ n \in Nat
    <3>1. \A i \in 1 .. n : buf[i - 1] \in Byte
      BY <1>1, <2>3, <2>6
    <3> QED
      BY <1>1, <2>3, <3>1
  <2>8. g \in Seq(Byte) /\ Len(g) = n
    BY <2>7
  <2> QED
    <3>1. g = h
      BY <2>5, <2>6, <2>8, SeqEqual
    <3> QED
      BY <2>2, <2>3, <2>4, <3>1
<1>10. n \in 1 .. MaxBuf - 1
  BY <1>1, <1>2
<1> QED
  BY <1>6, <1>8, <1>9, <1>10

LEMMA CallerLine ==
  ASSUME LineInv, ReadHeadersTest \/ PrintHeader \/ PrintBody
  PROVE  LineInv'
<1>1. /\ UNCHANGED <<sent, closed, pos, buf>> /\ point = "test"
      /\ \/ point' = "loop" /\ n' = 0 /\ start' = pos
         \/ point' = "done" /\ UNCHANGED <<n, start>>
      /\ caller' \in {"read_headers", "print_header", "print_body"}
  BY DEF ReadHeadersTest, PrintHeader, PrintBody, Again, Return, client, peer, LineInv, TypeOK
<1>2. printed' \in Seq(Byte)
  <2>1. CASE UNCHANGED printed
    BY <2>1 DEF LineInv, TypeOK
  <2>2. CASE Returned > 0 /\ Printf
    BY <1>1, <2>2, PrintfType
  <2> QED
    BY <2>1, <2>2 DEF ReadHeadersTest, PrintHeader, PrintBody, client
<1>3. TypeOK'
  BY <1>1, <1>2, Sizes DEF LineInv, TypeOK
<1>4. BytesInv'
  BY <1>1 DEF LineInv, TypeOK, BytesInv
<1>5. LoopInv'
  BY <1>1 DEF LineInv, LoopInv, EndsLine, AtEof, OpenString
<1> QED
  BY <1>3, <1>4, <1>5 DEF LineInv

THEOREM LineInvHolds == Spec => []LineInv
<1>1. ASSUME LineInv, [Next]_vars
      PROVE  LineInv'
  <2>1. CASE UNCHANGED vars
    BY <1>1, <2>1 DEF vars, peer, client, LineInv, TypeOK, BytesInv, LoopInv, EndsLine, AtEof,
                      OpenString
  <2> QED
    BY <1>1, <2>1, PeerLine, ReadByteLine, ReadEndLine, CallerLine DEF Next, Thread
<1> QED
  BY InitLine, <1>1, PTL DEF Spec

(* Every access to buf is one to its bytes, and what is printed is bytes    *)
(* that were sent.                                                          *)
THEOREM TypeCorrect == Spec => []TypeOK
<1>1. LineInv => TypeOK
  BY DEF LineInv
<1> QED
  BY LineInvHolds, <1>1, PTL

(* When readline returns, buf is a string: a whole line, a full buffer or   *)
(* what came before the end of file, but for a single byte before it.       *)
THEOREM ReturnsLineHolds == Spec => []ReturnsLine
<1>1. LineInv => ReturnsLine
  BY DEF LineInv, BytesInv, LoopInv, EndsLine, AtEof, OpenString, ReturnsLine
<1> QED
  BY LineInvHolds, <1>1, PTL

-----------------------------------------------------------------------------
(* request_read_headers.                                                    *)

NoFeed(j, k) == \A i \in DOMAIN sent : i \in j + 1 .. k => sent[i] # LF

(* A line that started before byte k had no line feed when readline         *)
(* returned it, and never gets one in time.                                 *)
Broken(k) ==
  \E j \in 0 .. k - 1 : /\ LineStart(j) /\ NoFeed(j, j + MaxBuf - 1)
                        /\ j + MaxBuf - 1 <= k \/ closed

NoBlank(k) == \A j \in 0 .. k - 2 : ~ BlankAfter(j)

HeadersInv ==
  caller = "read_headers" =>
    /\ Broken(start) \/ (LineStart(start) /\ NoBlank(start))
    /\ point = "done" => IsBlank

(* The types and what was read, in one place.                               *)
LEMMA Reading ==
  ASSUME LineInv
  PROVE  /\ start \in Nat /\ pos \in Nat /\ n \in Nat /\ Len(sent) \in Nat /\ MaxBuf \in Nat
         /\ sent \in Seq(Byte) /\ DOMAIN sent = 1 .. Len(sent)
         /\ start <= pos /\ pos <= Len(sent) /\ n = pos - start /\ n < MaxBuf
         /\ \A i \in 1 .. n : buf[i - 1] = sent[start + i]
         /\ \A i \in start + 1 .. pos - 1 : sent[i] # LF
BY Sizes DEF LineInv, TypeOK, BytesInv

(* The bytes up to k are there to stay.                                     *)
LEMMA SentStays ==
  ASSUME LineInv, Send \/ Close
  PROVE  /\ Len(sent)' \in Nat /\ Len(sent) <= Len(sent)'
         /\ DOMAIN sent' = 1 .. Len(sent)' /\ DOMAIN sent = 1 .. Len(sent)
         /\ \A i \in 1 .. Len(sent) : sent'[i] = sent[i]
         /\ UNCHANGED <<start, pos, n, buf, point, caller, printed>>
         /\ closed => closed' /\ sent' = sent
<1>1. sent \in Seq(Byte) /\ Len(sent) \in Nat
  BY DEF LineInv, TypeOK
<1>2. CASE Close
  BY <1>1, <1>2 DEF Close, client
<1>3. CASE Send
  <2>1. PICK b \in Byte : sent' = Append(sent, b)
    BY <1>3 DEF Send
  <2> QED
    BY <1>1, <1>3, <2>1 DEF Send, client
<1> QED
  BY <1>2, <1>3

LEMMA LineStartStays ==
  ASSUME LineInv, Send \/ Close, NEW k \in 0 .. Len(sent)
  PROVE  LineStart(k)' <=> LineStart(k)
BY SentStays, Reading DEF LineStart

LEMMA NoBlankStays ==
  ASSUME LineInv, Send \/ Close, NEW k \in 0 .. Len(sent)
  PROVE  NoBlank(k)' <=> NoBlank(k)
<1>1. ASSUME NEW j \in 0 .. k - 2
      PROVE  BlankAfter(j)' <=> BlankAfter(j)
  <2>1. j \in 0 .. Len(sent) /\ j + 1 \in 1 .. Len(sent) /\ j + 2 \in 1 .. Len(sent)
    BY Reading
  <2>2. LineStart(j)' <=> LineStart(j)
    BY <2>1, LineStartStays
  <2> QED
    BY <2>1, <2>2, SentStays DEF BlankAfter
<1> QED
  BY <1>1 DEF NoBlank

LEMMA BrokenStays ==
  ASSUME LineInv, Send \/ Close, NEW k \in 0 .. Len(sent), Broken(k)
  PROVE  Broken(k)'
<1>1. PICK j \in 0 .. k - 1 : /\ LineStart(j) /\ NoFeed(j, j + MaxBuf - 1)
                              /\ j + MaxBuf - 1 <= k \/ closed
  BY DEF Broken
<1>2. LineStart(j)'
  BY <1>1, LineStartStays, Reading
<1>3. NoFeed(j, j + MaxBuf - 1)'
  <2>1. CASE closed
    BY <1>1, <2>1, SentStays, Reading DEF NoFeed
  <2>2. CASE j + MaxBuf - 1 <= k
    <3>1. \A i \in DOMAIN sent' : i \in j + 1 .. j + MaxBuf - 1 => i \in 1 .. Len(sent)
      BY <2>2, SentStays, Reading
    <3> QED
      BY <1>1, <3>1, SentStays DEF NoFeed
  <2> QED
    BY <1>1, <2>1, <2>2
<1> QED
  BY <1>1, <1>2, <1>3, SentStays DEF Broken

(* readline returned a line: another one starts behind it.                  *)
LEMMA LineEnds ==
  ASSUME LineInv, n > 0, sent[pos] = LF, LineStart(start), NoBlank(start)
  PROVE  /\ LineStart(pos)
         /\ \A k \in 0 .. pos - 2 : BlankAfter(k) => k = start /\ n = 2
<1>1. LineStart(pos)
  BY DEF LineStart
<1>2. ASSUME NEW k \in 0 .. pos - 2, BlankAfter(k)
      PROVE  k = start /\ n = 2
  <2>1. sent[k + 1] = CR /\ sent[k + 2] = LF /\ k >= start - 1
    BY <1>2, Reading DEF BlankAfter, NoBlank
  <2>2. k # start - 1
    BY <2>1, Sizes, Reading DEF LineStart
  <2>3. k = start
    <3>1. SUFFICES ASSUME k > start PROVE FALSE
      BY <2>1, <2>2, Reading
    <3>2. sent[k] = LF /\ k \in start + 1 .. pos - 1
      BY <1>2, <3>1, Reading DEF BlankAfter, LineStart
    <3> QED
      BY <3>2, Reading
  <2>4. ~ (k + 2 \in start + 1 .. pos - 1)
    BY <2>1, Reading
  <2> QED
    BY <2>3, <2>4, Reading
<1> QED
  BY <1>1, <1>2

(* It had no line feed: it never gets one in time.                          *)
LEMMA LineBreaks ==
  ASSUME LineInv, point = "test", n > 0, sent[pos] # LF, LineStart(start)
  PROVE  Broken(pos) /\ NoFeed(start, start + MaxBuf - 1)
<1>1. n = MaxBuf - 1 \/ AtEof
  BY DEF LineInv, LoopInv, EndsLine
<1>2. NoFeed(start, start + MaxBuf - 1)
  BY <1>1, Reading DEF NoFeed, AtEof
<1> QED
  BY <1>1, <1>2, Reading DEF Broken, AtEof

(* A blank line is what strcmp takes for one; and what it takes for one is  *)
(* a blank line, or the stale bytes behind an open string.                  *)
LEMMA BlankLine ==
  ASSUME LineInv, point \in {"test", "done"}
  PROVE  /\ n = 2 /\ sent[start + 1] = CR /\ sent[start + 2] = LF => IsBlank
         /\ IsBlank => \/ n = 2 /\ sent[start + 1] = CR /\ sent[start + 2] = LF
                       \/ OpenString
<1>1. buf[n] = NUL \/ OpenString
  BY DEF LineInv, LoopInv
<1>2. ASSUME n = 2, sent[start + 1] = CR, sent[start + 2] = LF
      PROVE  IsBlank
  <2>1. buf[1 - 1] = CR /\ buf[2 - 1] = LF
    <3>1. 1 \in 1 .. n /\ 2 \in 1 .. n
      BY <1>2
    <3> QED
      BY <1>2, <3>1, Reading
  <2>2. buf[2] = NUL
    BY <1>1, <1>2 DEF OpenString
  <2> QED
    BY <2>1, <2>2 DEF IsBlank
<1>3. ASSUME IsBlank, ~ OpenString
      PROVE  n = 2 /\ sent[start + 1] = CR /\ sent[start + 2] = LF
  <2>1. buf[0] = CR /\ buf[1] = LF /\ buf[2] = NUL /\ buf[n] = NUL
    BY <1>1, <1>3 DEF IsBlank
  <2>2. n # 0 /\ n # 1
    BY <2>1, Sizes
  <2>3. /\ 1 \in 1 .. n /\ 2 \in 1 .. n
        /\ buf[1 - 1] = sent[start + 1] /\ buf[2 - 1] = sent[start + 2]
    <3>1. 1 \in 1 .. n /\ 2 \in 1 .. n
      BY <2>2, Reading
    <3> QED
      BY <3>1, Reading
  <2>4. sent[start + 1] = CR /\ sent[start + 2] = LF
    BY <2>1, <2>3
  <2>5. ~ (start + 2 \in start + 1 .. pos - 1)
    BY <2>4, Reading
  <2> QED
    BY <2>2, <2>4, <2>5, Reading
<1> QED
  BY <1>2, <1>3

LEMMA InitHeaders == Init => HeadersInv
BY DEF Init, HeadersInv, LineStart, NoBlank

LEMMA PeerHeaders ==
  ASSUME LineInv, HeadersInv, Send \/ Close
  PROVE  HeadersInv'
<1>1. start \in 0 .. Len(sent) /\ UNCHANGED <<start, buf, point, caller>>
  BY Reading, SentStays
<1>2. PICK k \in 0 .. Len(sent) : k = start
  BY <1>1
<1>3. /\ Broken(k) => Broken(k)'
      /\ LineStart(k) => LineStart(k)'
      /\ NoBlank(k) => NoBlank(k)'
  BY BrokenStays, LineStartStays, NoBlankStays
<1>4. /\ Broken(start) => Broken(start)'
      /\ LineStart(start) => LineStart(start)'
      /\ NoBlank(start) => NoBlank(start)'
  BY <1>1, <1>2, <1>3 DEF Broken, LineStart, NoBlank
<1> QED
  BY <1>1, <1>4 DEF HeadersInv, IsBlank

LEMMA ReadHeaders ==
  ASSUME HeadersInv, ReadByte \/ ReadEof \/ BufferFull \/ Finish
  PROVE  HeadersInv'
<1>1. UNCHANGED <<sent, closed, start, caller>> /\ point' # "done"
  BY DEF ReadByte, ReadEof, BufferFull, Finish, peer, client
<1>2. /\ Broken(start)' <=> Broken(start)
      /\ LineStart(start)' <=> LineStart(start)
      /\ NoBlank(start)' <=> NoBlank(start)
  BY <1>1 DEF Broken, NoFeed, LineStart, NoBlank, BlankAfter
<1> QED
  BY <1>1, <1>2 DEF HeadersInv

LEMMA BrokenGrows ==
  ASSUME NEW k \in Nat, NEW m \in Nat, k <= m, MaxBuf \in Nat, Broken(k)
  PROVE  Broken(m)
<1>1. PICK j \in 0 .. k - 1 : /\ LineStart(j) /\ NoFeed(j, j + MaxBuf - 1)
                              /\ j + MaxBuf - 1 <= k \/ closed
  BY DEF Broken
<1> QED
  BY <1>1 DEF Broken

LEMMA TestHeaders ==
  ASSUME LineInv, HeadersInv, ReadHeadersTest
  PROVE  HeadersInv'
<1>1. /\ point = "test" /\ caller = "read_headers" /\ UNCHANGED <<sent, closed, pos, buf, caller>>
  BY DEF ReadHeadersTest, Return, Again, client, peer
<1>2. CASE IsBlank
  <2>1. UNCHANGED start
    BY <1>2 DEF ReadHeadersTest, Return
  <2> QED
    BY <1>1, <1>2, <2>1
       DEF HeadersInv, IsBlank, Broken, NoFeed, LineStart, NoBlank, BlankAfter
<1>3. CASE ~ IsBlank
  <2>1. start' = pos /\ point' = "loop"
    BY <1>3 DEF ReadHeadersTest, Again
  <2>2. Broken(pos) \/ (LineStart(pos) /\ NoBlank(pos))
    <3>1. CASE Broken(start)
      BY <3>1, BrokenGrows, Reading
    <3>2. CASE LineStart(start) /\ NoBlank(start)
      <4>1. CASE n = 0
        BY <3>2, <4>1, Reading
      <4>2. CASE n > 0 /\ sent[pos] # LF
        BY <1>1, <3>2, <4>2, LineBreaks
      <4>3. CASE n > 0 /\ sent[pos] = LF
        <5>1. /\ LineStart(pos)
              /\ \A k \in 0 .. pos - 2 : BlankAfter(k) => k = start /\ n = 2
          BY <3>2, <4>3, LineEnds
        <5>2. ASSUME NEW k \in 0 .. pos - 2, BlankAfter(k)
              PROVE  FALSE
          <6>1. n = 2 /\ sent[start + 1] = CR /\ sent[start + 2] = LF
            BY <5>1, <5>2 DEF BlankAfter
          <6> QED
            BY <1>1, <1>3, <6>1, BlankLine
        <5> QED
          BY <5>1, <5>2 DEF NoBlank
      <4> QED
        BY <4>1, <4>2, <4>3, Reading
    <3> QED
      BY <1>1, <3>1, <3>2 DEF HeadersInv
  <2>3. Broken(start)' \/ (LineStart(start)' /\ NoBlank(start)')
    BY <1>1, <2>1, <2>2 DEF Broken, NoFeed, LineStart, NoBlank, BlankAfter
  <2> QED
    BY <2>1, <2>3 DEF HeadersInv
<1> QED
  BY <1>2, <1>3

THEOREM HeadersInvHolds == Spec => []HeadersInv
<1>1. ASSUME LineInv, HeadersInv, [Next]_vars
      PROVE  HeadersInv'
  <2>1. CASE UNCHANGED vars
    BY <1>1, <2>1 DEF vars, peer, client, HeadersInv, IsBlank, Broken, NoFeed, LineStart, NoBlank,
                      BlankAfter
  <2>2. CASE PrintHeader \/ PrintBody
    BY <2>2 DEF PrintHeader, PrintBody, HeadersInv
  <2> QED
    BY <1>1, <2>1, <2>2, PeerHeaders, ReadHeaders, TestHeaders DEF Next, Thread
<1> QED
  BY InitHeaders, LineInvHolds, <1>1, PTL DEF Spec

(* request_read_headers reads up to and including the first blank line, if  *)
(* the lines up to there are complete and fit the buffer.                   *)
THEOREM StopsAtBlankLineHolds == Spec => []StopsAtBlankLine
<1>1. ASSUME LineInv, HeadersInv
      PROVE  StopsAtBlankLine
  <2>1. SUFFICES ASSUME point = "done", caller = "read_headers", LinesFit(pos)
                 PROVE  /\ BlankAfter(pos - 2)
                        /\ \A k \in 0 .. pos - 3 : ~ BlankAfter(k)
    BY DEF StopsAtBlankLine
  <2>2. \A j \in 0 .. pos - 1 : LineStart(j) => ~ NoFeed(j, j + MaxBuf - 1)
    BY <2>1 DEF LinesFit, NoFeed
  <2>3. LineStart(start) /\ NoBlank(start) /\ IsBlank
    <3>1. ~ Broken(start)
      BY <2>2, Reading, <1>1 DEF Broken
    <3> QED
      BY <1>1, <2>1, <3>1 DEF HeadersInv
  <2>4. ~ OpenString
    <3>1. SUFFICES ASSUME OpenString PROVE FALSE
      OBVIOUS
    <3>2. start \in 0 .. pos - 1 /\ NoFeed(start, start + MaxBuf - 1)
      BY <1>1, <3>1, Reading DEF OpenString, AtEof, NoFeed
    <3> QED
      BY <2>2, <2>3, <3>2
  <2>5. n = 2 /\ sent[start + 1] = CR /\ sent[start + 2] = LF
    BY <1>1, <2>1, <2>3, <2>4, BlankLine
  <2>6. start = pos - 2 /\ BlankAfter(start) /\ sent[pos] = LF
    BY <1>1, <2>3, <2>5, Reading DEF BlankAfter
  <2>7. \A k \in 0 .. pos - 2 : BlankAfter(k) => k = start
    BY <1>1, <2>3, <2>5, <2>6, LineEnds
  <2> QED
    BY <1>1, <2>6, <2>7, Reading
<1> QED
  BY LineInvHolds, HeadersInvHolds, <1>1, PTL

-----------------------------------------------------------------------------
(* client_print.                                                            *)

(* The line that starts at byte j is one that client_print stops at, or is  *)
(* longer than buf.                                                         *)
LineStopped(j) ==
  /\ LineStart(j)
  /\ \/ sent[j + 1] = LF
     \/ NoFeed(j, j + MaxBuf - 1) /\ (Len(sent) - j >= MaxBuf \/ (closed /\ Len(sent) - j = 1))

(* Such a line started before byte k, or there is a NUL before it.          *)
Unprintable(k) ==
  \E j \in 0 .. k - 1 : j < Len(sent) /\ (sent[j + 1] = NUL \/ LineStopped(j))

(* The last line so far has no line feed, and is already longer than buf    *)
(* if another byte follows.                                                 *)
TailOf(k) ==
  /\ k = Len(sent)
  /\ closed \/ (\E j \in 0 .. k - 1 : LineStart(j) /\ NoFeed(j, k) /\ k = j + MaxBuf - 1)

(* The first k bytes but for the blank line after byte b.                   *)
WithoutLine(b, k) == SubSeq(sent, 1, b) \o SubSeq(sent, b + 3, k)

HeaderInv ==
  caller = "print_header" =>
    \/ Unprintable(start)
    \/ NoBlank(start) /\ printed = SubSeq(sent, 1, start) /\ (LineStart(start) \/ TailOf(start))

BodyInv ==
  caller = "print_body" =>
    \/ Unprintable(start)
    \/ /\ LineStart(start) \/ TailOf(start)
       /\ \E b \in 0 .. start - 2 :
            BlankAfter(b) /\ NoBlank(b + 1) /\ printed = WithoutLine(b, start)
    \/ closed /\ start = Len(sent) /\ NoBlank(start) /\ printed = sent

DoneInv ==
  point = "done" /\ caller = "print_body" =>
    Unprintable(pos) \/ (closed /\ start = Len(sent))

PrintInv == HeaderInv /\ BodyInv /\ DoneInv

LEMMA SubSeqSplit ==
  ASSUME NEW S, NEW s \in Seq(S), NEW a \in Nat \ {0}, NEW m \in Nat, NEW p \in Nat,
         a <= m + 1, m <= p, p <= Len(s)
  PROVE  SubSeq(s, a, m) \o SubSeq(s, m + 1, p) = SubSeq(s, a, p)
<1> DEFINE f == SubSeq(s, a, m)
           g == SubSeq(s, m + 1, p)
           h == SubSeq(s, a, p)
<1>1. /\ f \in Seq(S) /\ Len(f) = m + 1 - a
      /\ \A i \in 1 .. m + 1 - a : f[i] = s[a + i - 1]
  OBVIOUS
<1>2. /\ g \in Seq(S) /\ Len(g) = p - m
      /\ \A i \in 1 .. p - m : g[i] = s[m + i]
  OBVIOUS
<1>3. /\ h \in Seq(S) /\ Len(h) = p + 1 - a
      /\ \A i \in 1 .. p + 1 - a : h[i] = s[a + i - 1]
  OBVIOUS
<1> HIDE DEF f, g, h
<1>4. /\ f \o g \in Seq(S) /\ Len(f \o g) = Len(f) + Len(g)
      /\ \A i \in 1 .. Len(f) + Len(g) :
           (f \o g)[i] = IF i <= Len(f) THEN f[i] ELSE g[i - Len(f)]
  BY <1>1, <1>2, ConcatProperties, Zenon
<1>5. Len(f) + Len(g) = p + 1 - a
  BY <1>1, <1>2
<1>6. ASSUME NEW i \in 1 .. p + 1 - a
      PROVE  (f \o g)[i] = h[i]
  <2>1. (f \o g)[i] = IF i <= m + 1 - a THEN f[i] ELSE g[i - (m + 1 - a)]
    BY <1>1, <1>4, <1>5
  <2>2. CASE i <= m + 1 - a
    BY <1>1, <1>3, <2>1, <2>2
  <2>3. CASE i > m + 1 - a
    <3>1. i - (m + 1 - a) \in 1 .. p - m /\ m + (i - (m + 1 - a)) = a + i - 1
      BY <2>3
    <3>2. g[i - (m + 1 - a)] = s[a + i - 1]
      BY <1>2, <3>1
    <3>3. (f \o g)[i] = g[i - (m + 1 - a)]
      BY <2>1, <2>3
    <3>4. h[i] = s[a + i - 1]
      BY <1>3
    <3> QED
      BY <3>2, <3>3, <3>4
  <2>4. i <= m + 1 - a \/ i > m + 1 - a
    OBVIOUS
  <2> QED
    BY <2>2, <2>3, <2>4
<1>7. f \o g = h
  BY <1>3, <1>4, <1>5, <1>6, SeqEqual
<1> QED
  BY <1>7 DEF f, g, h

LEMMA SubSeqStays ==
  ASSUME LineInv, Send \/ Close, NEW a \in Nat \ {0}, NEW k \in 0 .. Len(sent)
  PROVE  SubSeq(sent', a, k) = SubSeq(sent, a, k)
<1> DEFINE f == SubSeq(sent, a, k)
           g == SubSeq(sent', a, k)
<1>1. sent \in Seq(Byte) /\ sent' \in Seq(Byte)
  BY PeerLine DEF LineInv, TypeOK
<1>2. /\ Len(sent) \in Nat /\ Len(sent)' \in Nat /\ k <= Len(sent) /\ k <= Len(sent)'
      /\ \A i \in 1 .. Len(sent) : sent'[i] = sent[i]
  BY Reading, SentStays
<1>3. CASE a > k
  BY <1>1, <1>3
<1>4. CASE a <= k
  <2>1. f \in Seq(Byte) /\ Len(f) = k + 1 - a /\ \A i \in 1 .. k + 1 - a : f[i] = sent[a + i - 1]
    BY <1>1, <1>2, <1>4
  <2>2. g \in Seq(Byte) /\ Len(g) = k + 1 - a /\ \A i \in 1 .. k + 1 - a : g[i] = sent'[a + i - 1]
    BY <1>1, <1>2, <1>4
  <2> HIDE DEF f, g
  <2>3. \A i \in 1 .. k + 1 - a : f[i] = g[i]
    BY <1>2, <1>4, <2>1, <2>2
  <2>4. f = g
    BY <2>1, <2>2, <2>3, SeqEqual
  <2> QED
    BY <2>4 DEF f, g
<1> QED
  BY <1>3, <1>4

LEMMA UnprintableStays ==
  ASSUME LineInv, Send \/ Close, NEW k \in 0 .. Len(sent), Unprintable(k)
  PROVE  Unprintable(k)'
<1>1. PICK j \in 0 .. k - 1 : j < Len(sent) /\ (sent[j + 1] = NUL \/ LineStopped(j))
  BY DEF Unprintable
<1>2. /\ j \in 0 .. Len(sent) /\ j + 1 \in 1 .. Len(sent) /\ j < Len(sent)'
      /\ sent'[j + 1] = sent[j + 1]
  <2>1. j \in Nat /\ j < Len(sent) /\ Len(sent) \in Nat
    <3>1. Len(sent) \in Nat
      BY Reading
    <3>2. j \in 0 .. k - 1 /\ j < Len(sent)
      BY <1>1
    <3> QED
      BY <3>1, <3>2
  <2>2. j \in 0 .. Len(sent) /\ j + 1 \in 1 .. Len(sent)
    BY <2>1
  <2> QED
    BY <2>1, <2>2, SentStays
<1>3. LineStart(j) <=> LineStart(j)'
  BY <1>2, LineStartStays
<1>4. CASE sent[j + 1] = NUL
  BY <1>2, <1>4 DEF Unprintable
<1>5. CASE LineStart(j) /\ sent[j + 1] = LF
  BY <1>2, <1>3, <1>5 DEF Unprintable, LineStopped
<1>6. CASE LineStart(j) /\ NoFeed(j, j + MaxBuf - 1) /\ Len(sent) - j >= MaxBuf
  <2>1. \A i \in DOMAIN sent' : i \in j + 1 .. j + MaxBuf - 1 => i \in 1 .. Len(sent)
    BY <1>6, SentStays, Reading
  <2>2. NoFeed(j, j + MaxBuf - 1)'
    BY <1>6, <2>1, SentStays, Reading DEF NoFeed
  <2>3. Len(sent)' - j >= MaxBuf
    BY <1>6, SentStays, Reading
  <2> QED
    BY <1>2, <1>3, <1>6, <2>2, <2>3 DEF Unprintable, LineStopped
<1>7. ~ closed
  BY DEF Send, Close
<1> QED
  BY <1>1, <1>4, <1>5, <1>6, <1>7 DEF LineStopped

LEMMA UnprintableGrows ==
  ASSUME NEW k \in Nat, NEW m \in Nat, k <= m, Unprintable(k)
  PROVE  Unprintable(m)
BY DEF Unprintable

(* What was read is printed whole, unless there is a NUL in it.             *)
LEMMA NulUnprintable ==
  ASSUME LineInv
  PROVE  Unprintable(pos) \/ \A i \in start + 1 .. pos : sent[i] # NUL
<1>1. ASSUME NEW i \in start + 1 .. pos, sent[i] = NUL
      PROVE  Unprintable(pos)
  <2>1. i - 1 \in 0 .. pos - 1 /\ i - 1 < Len(sent) /\ (i - 1) + 1 = i
    BY Reading
  <2>2. sent[(i - 1) + 1] = NUL
    BY <1>1, <2>1
  <2> QED
    BY <2>1, <2>2 DEF Unprintable
<1> QED
  BY <1>1

(* Another byte makes the tail a line that is too long.                     *)
LEMMA TailStays ==
  ASSUME LineInv, Send \/ Close, NEW k \in 0 .. Len(sent), TailOf(k)
  PROVE  TailOf(k)' \/ Unprintable(k)'
<1>1. CASE Close
  BY <1>1 DEF Close, TailOf
<1>2. CASE Send
  <2>1. PICK j \in 0 .. k - 1 : LineStart(j) /\ NoFeed(j, k) /\ k = j + MaxBuf - 1
    BY <1>2 DEF Send, TailOf
  <2>2. k = Len(sent) /\ Len(sent)' = Len(sent) + 1
    BY <1>2, Reading DEF Send, TailOf
  <2>3. LineStart(j)' /\ j < Len(sent)' /\ Len(sent)' - j >= MaxBuf
    BY <2>1, <2>2, LineStartStays, SentStays, Reading
  <2>4. NoFeed(j, j + MaxBuf - 1)'
    <3>1. \A i \in DOMAIN sent' : i \in j + 1 .. j + MaxBuf - 1 => i \in 1 .. Len(sent)
      BY <2>1, SentStays, Reading, SMTT(20)
    <3> QED
      BY <2>1, <3>1, SentStays, Reading DEF NoFeed
  <2> QED
    BY <2>3, <2>4 DEF Unprintable, LineStopped
<1> QED
  BY <1>1, <1>2

LEMMA WithoutLineStays ==
  ASSUME LineInv, Send \/ Close, NEW k \in 0 .. Len(sent), NEW b \in 0 .. k - 2
  PROVE  /\ WithoutLine(b, k)' = WithoutLine(b, k)
         /\ BlankAfter(b)' <=> BlankAfter(b)
         /\ NoBlank(b + 1)' <=> NoBlank(b + 1)
<1>1. /\ b \in 0 .. Len(sent) /\ b + 1 \in 0 .. Len(sent) /\ b + 3 \in Nat \ {0}
      /\ b + 1 \in 1 .. Len(sent) /\ b + 2 \in 1 .. Len(sent)
  BY Reading
<1>2. NoBlank(b + 1)' <=> NoBlank(b + 1)
  BY <1>1, NoBlankStays
<1>3. BlankAfter(b)' <=> BlankAfter(b)
  <2>1. LineStart(b)' <=> LineStart(b)
    BY <1>1, LineStartStays
  <2> QED
    BY <1>1, <2>1, SentStays DEF BlankAfter
<1>4. SubSeq(sent', 1, b) = SubSeq(sent, 1, b) /\ SubSeq(sent', b + 3, k) = SubSeq(sent, b + 3, k)
  BY <1>1, SubSeqStays
<1> QED
  BY <1>2, <1>3, <1>4 DEF WithoutLine

LEMMA InitPrint == Init => PrintInv
<1> SUFFICES ASSUME Init PROVE PrintInv
  OBVIOUS
<1>1. SubSeq(sent, 1, start) = <<>>
  BY DEF Init
<1>2. NoBlank(start) /\ LineStart(start)
  BY DEF Init, NoBlank, LineStart
<1> QED
  BY <1>1, <1>2 DEF Init, PrintInv, HeaderInv, BodyInv, DoneInv

LEMMA PeerPrint ==
  ASSUME LineInv, PrintInv, Send \/ Close
  PROVE  PrintInv'
<1>1. PICK k \in 0 .. Len(sent) : k = start
  BY Reading
<1>2. PICK p \in 0 .. Len(sent) : p = pos
  BY Reading
<1>3. start' = k /\ pos' = p /\ ~ closed /\ UNCHANGED <<point, caller, printed>>
  BY <1>1, <1>2, SentStays DEF Send, Close
<1>4. /\ Unprintable(k) => Unprintable(k)'
      /\ Unprintable(p) => Unprintable(p)'
      /\ TailOf(k) => TailOf(k)' \/ Unprintable(k)'
      /\ LineStart(k)' <=> LineStart(k)
      /\ NoBlank(k)' <=> NoBlank(k)
  BY UnprintableStays, TailStays, LineStartStays, NoBlankStays
<1>5. HeaderInv'
  <2>1. SubSeq(sent', 1, k) = SubSeq(sent, 1, k)
    BY SubSeqStays
  <2>2. caller = "print_header" =>
          \/ Unprintable(k)'
          \/ NoBlank(k)' /\ printed = SubSeq(sent', 1, k) /\ (LineStart(k)' \/ TailOf(k)')
    BY <1>1, <1>4, <2>1 DEF PrintInv, HeaderInv
  <2> QED
    BY <1>3, <2>2 DEF HeaderInv, Unprintable, LineStopped, NoBlank, LineStart, TailOf
<1>6. BodyInv'
  <2>1. SUFFICES ASSUME caller = "print_body", ~ Unprintable(k)'
                 PROVE  /\ LineStart(k)' \/ TailOf(k)'
                        /\ \E b \in 0 .. k - 2 :
                             /\ BlankAfter(b)' /\ NoBlank(b + 1)'
                             /\ printed = WithoutLine(b, k)'
    BY <1>3 DEF BodyInv, Unprintable, LineStopped, LineStart, TailOf, WithoutLine
  <2>2. /\ LineStart(k) \/ TailOf(k)
        /\ \E b \in 0 .. k - 2 : BlankAfter(b) /\ NoBlank(b + 1) /\ printed = WithoutLine(b, k)
    BY <1>1, <1>3, <1>4, <2>1 DEF PrintInv, BodyInv
  <2> QED
    BY <1>4, <2>1, <2>2, WithoutLineStays
<1>7. DoneInv'
  BY <1>2, <1>3, <1>4 DEF PrintInv, DoneInv, Unprintable, LineStopped
<1> QED
  BY <1>5, <1>6, <1>7 DEF PrintInv

(* The thread reads on: the start of its line and what it has printed stay. *)
LEMMA ReadPrint ==
  ASSUME LineInv, PrintInv, ReadByte \/ ReadEof \/ BufferFull \/ Finish
  PROVE  PrintInv'
<1>1. UNCHANGED <<sent, closed, start, caller, printed>> /\ point' # "done"
  BY DEF ReadByte, ReadEof, BufferFull, Finish, peer, client
<1>2. (Unprintable(start)' <=> Unprintable(start)) /\ (TailOf(start)' <=> TailOf(start))
  BY <1>1 DEF Unprintable, LineStopped, TailOf, NoFeed, LineStart
<1>3. (NoBlank(start)' <=> NoBlank(start)) /\ (LineStart(start)' <=> LineStart(start))
  BY <1>1 DEF NoBlank, BlankAfter, LineStart
<1>4. \A b \in 0 .. start - 2 :
        /\ BlankAfter(b)' <=> BlankAfter(b)
        /\ NoBlank(b + 1)' <=> NoBlank(b + 1)
        /\ WithoutLine(b, start)' = WithoutLine(b, start)
  BY <1>1 DEF NoBlank, BlankAfter, LineStart, WithoutLine
<1> QED
  BY <1>1, <1>2, <1>3, <1>4 DEF PrintInv, HeaderInv, BodyInv, DoneInv

(* The loops go on exactly when readline has read something but a line      *)
(* feed alone, or a single byte before the end of file.                     *)
LEMMA LoopEnds ==
  ASSUME LineInv, point = "test", ~ (Returned > 0)
  PROVE  \/ n = 0 /\ closed /\ start = pos /\ pos = Len(sent)
         \/ n = 1 /\ (LineStart(start) => Unprintable(pos))
<1>1. n = 0 \/ n = 1
  BY Reading DEF Returned
<1>2. CASE n = 0
  BY <1>2, Reading, Sizes DEF LineInv, LoopInv, EndsLine, AtEof
<1>3. CASE n = 1
  <2>1. start \in 0 .. pos - 1 /\ start < Len(sent) /\ pos = start + 1
    BY <1>3, Reading
  <2>2. CASE sent[pos] = LF
    BY <1>3, <2>1, <2>2 DEF Unprintable, LineStopped
  <2>3. CASE sent[pos] # LF
    <3>1. AtEof
      BY <1>3, <2>3, Sizes DEF LineInv, LoopInv, EndsLine
    <3>2. NoFeed(start, start + MaxBuf - 1) /\ closed /\ Len(sent) - start = 1
      BY <2>1, <2>3, <3>1, Reading DEF NoFeed, AtEof
    <3> QED
      BY <1>3, <2>1, <3>2 DEF Unprintable, LineStopped
  <2> QED
    BY <2>2, <2>3
<1> QED
  BY <1>1, <1>2, <1>3

(* The end of what was read is the start of a line, or of nothing that can  *)
(* still be printed.                                                        *)
LEMMA LineStops ==
  ASSUME LineInv, point = "test", LineStart(start) \/ TailOf(start)
  PROVE  Unprintable(pos) \/ LineStart(pos) \/ TailOf(pos)
<1>1. CASE n = 0
  <2>1. start = pos
    BY <1>1, Reading
  <2> QED
    BY <2>1 DEF LineStart, TailOf
<1>2. CASE n > 0 /\ sent[pos] = LF
  BY <1>2 DEF LineStart
<1>3. CASE n > 0 /\ sent[pos] # LF
  <2>1. start \in 0 .. pos - 1 /\ LineStart(start) /\ start < Len(sent)
    BY <1>3, Reading DEF TailOf
  <2>2. NoFeed(start, pos)
    BY <1>3, Reading DEF NoFeed
  <2>3. n = MaxBuf - 1 \/ AtEof
    BY <1>3 DEF LineInv, LoopInv, EndsLine
  <2>4. CASE AtEof
    BY <2>4 DEF AtEof, TailOf
  <2>5. CASE n = MaxBuf - 1 /\ pos = Len(sent)
    <3>1. pos = start + MaxBuf - 1
      BY <2>5, Reading
    <3> QED
      BY <2>1, <2>2, <2>5, <3>1 DEF TailOf
  <2>6. CASE n = MaxBuf - 1 /\ pos # Len(sent)
    <3>1. pos = start + MaxBuf - 1 /\ Len(sent) - start >= MaxBuf
      BY <2>6, Reading
    <3> QED
      BY <2>1, <2>2, <3>1 DEF Unprintable, LineStopped
  <2> QED
    BY <2>3, <2>4, <2>5, <2>6
<1> QED
  BY <1>1, <1>2, <1>3, Reading

(* A line that is not blank holds no blank one.                             *)
LEMMA NoBlankEnds ==
  ASSUME LineInv, point = "test", LineStart(start), NoBlank(start), ~ IsBlank
  PROVE  NoBlank(pos)
<1>1. SUFFICES ASSUME NEW k \in 0 .. pos - 2, BlankAfter(k) PROVE FALSE
  BY DEF NoBlank
<1>2. sent[k + 1] = CR /\ sent[k + 2] = LF /\ k >= start - 1
  BY <1>1, Reading DEF BlankAfter, NoBlank
<1>3. k # start - 1
  BY <1>2, Sizes, Reading DEF LineStart
<1>4. n > 0 /\ sent[pos] = LF
  <2>1. ~ (k + 2 \in start + 1 .. pos - 1) /\ k + 2 \in start + 1 .. pos
    BY <1>2, <1>3, Reading
  <2>2. k + 2 = pos
    BY <2>1, Reading
  <2> QED
    BY <1>2, <2>1, <2>2, Reading
<1>5. k = start /\ n = 2
  BY <1>1, <1>4, LineEnds
<1> QED
  BY <1>2, <1>5, BlankLine

LEMMA TestPrint ==
  ASSUME LineInv, PrintInv, PrintHeader
  PROVE  \/ Unprintable(pos)
         \/ /\ caller' = "print_header" /\ NoBlank(pos) /\ printed' = SubSeq(sent, 1, pos)
            /\ LineStart(pos) \/ TailOf(pos)
         \/ /\ caller' = "print_body" /\ LineStart(pos) /\ pos - 2 \in Nat
            /\ BlankAfter(pos - 2) /\ NoBlank(pos - 1) /\ printed' = WithoutLine(pos - 2, pos)
         \/ /\ caller' = "print_body" /\ closed /\ pos = Len(sent) /\ NoBlank(pos)
            /\ printed' = sent
<1>1. point = "test" /\ caller = "print_header"
  BY DEF PrintHeader
<1>2. CASE Unprintable(start)
  BY <1>2, UnprintableGrows, Reading
<1>3. CASE /\ NoBlank(start) /\ printed = SubSeq(sent, 1, start)
           /\ LineStart(start) \/ TailOf(start)
  <2>1. n > 0 => LineStart(start)
    BY <1>3, Reading DEF TailOf
  <2>2. Unprintable(pos) \/ LineStart(pos) \/ TailOf(pos)
    BY <1>1, <1>3, LineStops
  <2>3. CASE ~ IsBlank /\ Returned > 0
    <3>1. n > 0 /\ caller' = "print_header" /\ Printf
      BY <1>1, <2>3, PrintfType DEF PrintHeader
    <3>2. Unprintable(pos) \/ printed' = SubSeq(sent, 1, pos)
      <4>1. Unprintable(pos) \/ printed' = SubSeq(sent, 1, start) \o SubSeq(sent, start + 1, pos)
        BY <1>1, <1>3, <2>3, <3>1, PrintfType, NulUnprintable
      <4>2. 1 \in Nat \ {0} /\ 1 <= start + 1
        BY Reading
      <4>3. SubSeq(sent, 1, start) \o SubSeq(sent, start + 1, pos) = SubSeq(sent, 1, pos)
        BY <4>2, SubSeqSplit, Reading
      <4> QED
        BY <4>1, <4>3
    <3>3. NoBlank(pos)
      BY <1>1, <1>3, <2>1, <2>3, <3>1, NoBlankEnds
    <3> QED
      BY <2>2, <3>1, <3>2, <3>3
  <2>4. CASE IsBlank
    <3>1. caller' = "print_body" /\ UNCHANGED printed
      BY <1>1, <2>4 DEF PrintHeader
    <3>2. CASE n = 2 /\ sent[start + 1] = CR /\ sent[start + 2] = LF
      <4>1. start = pos - 2 /\ start + 1 = pos - 1 /\ start + 2 = pos /\ LineStart(start)
        BY <2>1, <3>2, Reading
      <4>2. BlankAfter(start) /\ LineStart(pos)
        BY <3>2, <4>1, Reading DEF BlankAfter, LineStart
      <4>3. NoBlank(start + 1)
        <5>1. start > 0 => start \in DOMAIN sent /\ (start - 1) + 1 = start
          BY Reading
        <5>2. start > 0 => sent[start] # CR
          BY <4>1, <5>1, Sizes DEF LineStart
        <5>3. start > 0 => ~ BlankAfter(start - 1)
          BY <5>1, <5>2 DEF BlankAfter
        <5> QED
          BY <1>3, <5>3, Reading DEF NoBlank
      <4>4. WithoutLine(start, pos) = printed
        <5>1. SubSeq(sent, start + 3, pos) = <<>>
          <6>1. start \in Nat /\ pos \in Nat
            BY Reading
          <6>2. start + 3 \in Int /\ pos \in Int /\ pos < start + 3
            BY <4>1, <6>1
          <6> QED
            BY <6>2, SubSeqEmpty
        <5>2. SubSeq(sent, 1, start) \in Seq(Byte)
          BY Reading
        <5> QED
          BY <1>3, <5>1, <5>2, ConcatEmptySeq DEF WithoutLine
      <4> QED
        BY <3>1, <4>1, <4>2, <4>3, <4>4, Reading
    <3>3. CASE OpenString
      <4>1. n = 1 /\ start \in 0 .. pos - 1 /\ LineStart(start) /\ closed
        BY <2>1, <3>3, Reading DEF OpenString, AtEof
      <4>2. start < Len(sent) /\ Len(sent) - start = 1 /\ NoFeed(start, start + MaxBuf - 1)
        BY <3>3, <4>1, Reading DEF OpenString, AtEof, NoFeed
      <4> QED
        BY <4>1, <4>2 DEF Unprintable, LineStopped
    <3> QED
      BY <1>1, <2>4, <3>2, <3>3, BlankLine
  <2>5. CASE ~ IsBlank /\ ~ (Returned > 0)
    <3>1. caller' = "print_body" /\ UNCHANGED printed
      BY <1>1, <2>5 DEF PrintHeader
    <3>2. CASE n = 0 /\ closed /\ start = pos /\ pos = Len(sent)
      <4>1. SubSeq(sent, 1, Len(sent)) = sent
        BY Reading
      <4> QED
        BY <1>3, <3>1, <3>2, <4>1
    <3>3. CASE n = 1
      BY <1>1, <2>1, <2>5, <3>3, LoopEnds
    <3> QED
      BY <1>1, <2>5, <3>2, <3>3, LoopEnds
  <2> QED
    BY <2>3, <2>4, <2>5
<1> QED
  BY <1>1, <1>2, <1>3 DEF PrintInv, HeaderInv

LEMMA HeaderPrint ==
  ASSUME LineInv, PrintInv, PrintHeader
  PROVE  PrintInv'
<1>1. UNCHANGED <<sent, closed, pos>> /\ point' = "loop" /\ start' = pos
  BY DEF PrintHeader, Again, peer
<1>2. PICK b : b = pos - 2
  OBVIOUS
<1>3. /\ Unprintable(pos)' <=> Unprintable(pos)
      /\ TailOf(pos)' <=> TailOf(pos)
      /\ LineStart(pos)' <=> LineStart(pos)
      /\ NoBlank(pos)' <=> NoBlank(pos)
  BY <1>1 DEF Unprintable, LineStopped, TailOf, NoFeed, LineStart, NoBlank, BlankAfter
<1>4. /\ BlankAfter(b)' <=> BlankAfter(b)
      /\ NoBlank(b + 1)' <=> NoBlank(b + 1)
      /\ WithoutLine(b, pos)' = WithoutLine(b, pos)
  BY <1>1 DEF LineStart, NoBlank, BlankAfter, WithoutLine
<1>5. \/ Unprintable(pos)'
      \/ /\ caller' = "print_header" /\ NoBlank(pos)' /\ printed' = SubSeq(sent, 1, pos)'
         /\ LineStart(pos)' \/ TailOf(pos)'
      \/ /\ caller' = "print_body" /\ LineStart(pos)' /\ b \in 0 .. pos - 2
         /\ BlankAfter(b)' /\ NoBlank(b + 1)' /\ printed' = WithoutLine(b, pos)'
      \/ /\ caller' = "print_body" /\ closed' /\ pos = Len(sent)' /\ NoBlank(pos)'
         /\ printed' = sent'
  <2>1. b + 1 = pos - 1 /\ (b \in Nat => b \in 0 .. pos - 2)
    BY <1>2, Reading
  <2> QED
    BY <1>1, <1>2, <1>3, <1>4, <2>1, TestPrint
<1>6. HeaderInv'
  BY <1>1, <1>5 DEF HeaderInv, Unprintable, LineStopped, TailOf, LineStart, NoBlank
<1>7. BodyInv'
  <2>1. caller' = "print_body" =>
          \/ Unprintable(pos)'
          \/ /\ LineStart(pos)' \/ TailOf(pos)'
             /\ \E c \in 0 .. pos - 2 :
                  BlankAfter(c)' /\ NoBlank(c + 1)' /\ printed' = WithoutLine(c, pos)'
          \/ closed' /\ pos = Len(sent)' /\ NoBlank(pos)' /\ printed' = sent'
    BY <1>5
  <2> QED
    BY <1>1, <2>1 DEF BodyInv, Unprintable, LineStopped, TailOf, LineStart, NoBlank, WithoutLine
<1>8. DoneInv'
  BY <1>1 DEF DoneInv
<1> QED
  BY <1>6, <1>7, <1>8 DEF PrintInv

LEMMA BodyPrint ==
  ASSUME LineInv, PrintInv, PrintBody
  PROVE  PrintInv'
<1>1. /\ point = "test" /\ caller = "print_body" /\ UNCHANGED <<sent, closed, pos, caller>>
  BY DEF PrintBody, Again, Return, peer
<1>2. \A k : /\ Unprintable(k)' <=> Unprintable(k)
             /\ TailOf(k)' <=> TailOf(k)
             /\ LineStart(k)' <=> LineStart(k)
             /\ NoBlank(k)' <=> NoBlank(k)
             /\ BlankAfter(k)' <=> BlankAfter(k)
             /\ \A b : WithoutLine(b, k)' = WithoutLine(b, k)
  BY <1>1 DEF Unprintable, LineStopped, TailOf, NoFeed, LineStart, NoBlank, BlankAfter, WithoutLine
<1>3. PICK p : p = pos
  OBVIOUS
<1>4. HeaderInv'
  BY <1>1 DEF HeaderInv
<1>5. CASE Returned > 0
  <2>1. Printf /\ point' = "loop" /\ start' = p
    BY <1>1, <1>3, <1>5 DEF PrintBody, Again
  <2>2. n > 0 /\ (Unprintable(pos) \/ printed' = printed \o SubSeq(sent, start + 1, pos))
    <3>1. n > 0
      <4>1. n \in 1 .. MaxBuf - 1
        BY <1>1, <1>5, PrintfType
      <4> QED
        BY <4>1, Reading
    <3>2. Unprintable(pos) \/ printed' = printed \o SubSeq(sent, start + 1, pos)
      BY <1>1, <1>5, <2>1, PrintfType, NulUnprintable
    <3> QED
      BY <3>1, <3>2
  <2>3. \/ Unprintable(p)
        \/ /\ LineStart(p) \/ TailOf(p)
           /\ \E b \in 0 .. p - 2 :
                BlankAfter(b) /\ NoBlank(b + 1) /\ printed' = WithoutLine(b, p)
    <3>1. CASE Unprintable(start)
      BY <1>3, <3>1, UnprintableGrows, Reading
    <3>2. ASSUME LineStart(start) \/ TailOf(start),
                 NEW b \in 0 .. start - 2,
                 BlankAfter(b), NoBlank(b + 1), printed = WithoutLine(b, start),
                 ~ Unprintable(pos)
          PROVE  printed' = WithoutLine(b, pos) /\ b \in 0 .. pos - 2
      <4> DEFINE f == SubSeq(sent, 1, b)
                 g == SubSeq(sent, b + 3, start)
                 h == SubSeq(sent, start + 1, pos)
      <4>1. f \in Seq(Byte) /\ g \in Seq(Byte) /\ h \in Seq(Byte)
        BY Reading
      <4>2. g \o h = SubSeq(sent, b + 3, pos)
        <5>1. b + 3 \in Nat \ {0} /\ b + 3 <= start + 1
          BY Reading
        <5> QED
          BY <5>1, SubSeqSplit, Reading
      <4>3. printed' = (f \o g) \o h
        BY <2>2, <3>2 DEF WithoutLine
      <4>4. WithoutLine(b, pos) = f \o (g \o h)
        BY <4>2 DEF WithoutLine
      <4> HIDE DEF f, g, h
      <4>5. (f \o g) \o h = f \o (g \o h)
        BY <4>1, ConcatAssociative, SMTT(20)
      <4> QED
        BY <4>3, <4>4, <4>5, Reading
    <3>3. ~ (closed /\ start = Len(sent))
      BY <2>2, Reading
    <3>4. LineStart(start) \/ TailOf(start) =>
            Unprintable(p) \/ LineStart(p) \/ TailOf(p)
      BY <1>1, <1>3, LineStops
    <3> QED
      BY <1>1, <1>3, <3>1, <3>2, <3>3, <3>4 DEF PrintInv, BodyInv
  <2>4. BodyInv'
    <3>1. \/ Unprintable(p)'
          \/ /\ LineStart(p)' \/ TailOf(p)'
             /\ \E b \in 0 .. p - 2 :
                  BlankAfter(b)' /\ NoBlank(b + 1)' /\ printed' = WithoutLine(b, p)'
      BY <1>2, <2>3
    <3> QED
      BY <2>1, <3>1 DEF BodyInv, Unprintable, LineStopped, TailOf, LineStart, WithoutLine
  <2>5. DoneInv'
    BY <2>1 DEF DoneInv
  <2> QED
    BY <1>4, <2>4, <2>5 DEF PrintInv
<1>6. CASE ~ (Returned > 0)
  <2>1. point' = "done" /\ UNCHANGED <<start, printed>>
    BY <1>1, <1>6 DEF PrintBody, Return
  <2>2. BodyInv'
    BY <1>1, <2>1
       DEF PrintInv, BodyInv, Unprintable, LineStopped, TailOf, NoFeed, LineStart, NoBlank,
           BlankAfter, WithoutLine
  <2>3. Unprintable(pos) \/ (closed /\ start = Len(sent))
    <3>1. CASE Unprintable(start)
      BY <3>1, UnprintableGrows, Reading
    <3>2. CASE LineStart(start)
      BY <1>1, <1>6, <3>2, LoopEnds
    <3>3. CASE TailOf(start)
      <4>1. n = 0
        BY <3>3, Reading DEF TailOf
      <4> QED
        BY <1>1, <1>6, <4>1, LoopEnds
    <3> QED
      BY <1>1, <3>1, <3>2, <3>3 DEF PrintInv, BodyInv
  <2>4. DoneInv'
    BY <1>1, <2>1, <2>3 DEF DoneInv, Unprintable, LineStopped, NoFeed, LineStart
  <2> QED
    BY <1>4, <2>2, <2>4 DEF PrintInv
<1> QED
  BY <1>5, <1>6

THEOREM PrintInvHolds == Spec => []PrintInv
<1>1. ASSUME LineInv, PrintInv, [Next]_vars
      PROVE  PrintInv'
  <2>1. CASE UNCHANGED vars
    BY <1>1, <2>1
       DEF vars, peer, client, PrintInv, HeaderInv, BodyInv, DoneInv, Unprintable, LineStopped,
           TailOf, NoFeed, LineStart, NoBlank, BlankAfter, WithoutLine
  <2>2. CASE ReadHeadersTest
    BY <2>2 DEF ReadHeadersTest, client, PrintInv, HeaderInv, BodyInv, DoneInv
  <2> QED
    BY <1>1, <2>1, <2>2, PeerPrint, ReadPrint, HeaderPrint, BodyPrint DEF Next, Thread
<1> QED
  BY InitPrint, LineInvHolds, <1>1, PTL DEF Spec

(* client_print prints the whole of an answer but for its blank line, if    *)
(* every line of it fits the buffer, is one that readline does not return 0 *)
(* for (it is not a line feed alone, nor a single last byte), and has no    *)
(* NUL, which ends a "%s".                                                  *)
THEOREM PrintsWholeAnswerHolds == Spec => []PrintsWholeAnswer
<1> DEFINE blank == {k \in 0 .. Len(sent) : BlankAfter(k)}
<1>1. ASSUME LineInv, PrintInv
      PROVE  PrintsWholeAnswer
  <2>1. SUFFICES ASSUME point = "done", caller = "print_body", LinesPrintable
                 PROVE  printed = IF blank = {} THEN sent
                                  ELSE    SubSeq(sent, 1, Min(blank))
                                       \o SubSeq(sent, Min(blank) + 3, Len(sent))
    BY DEF PrintsWholeAnswer, Whole
  <2>2. ASSUME NEW k \in 0 .. Len(sent), Unprintable(k)
        PROVE  FALSE
    <3>1. PICK j \in 0 .. k - 1 : j < Len(sent) /\ (sent[j + 1] = NUL \/ LineStopped(j))
      BY <2>2 DEF Unprintable
    <3>2. j \in 0 .. Len(sent) - 1 /\ j + 1 \in DOMAIN sent
      <4>1. j \in 0 .. k - 1 /\ j < Len(sent) /\ Len(sent) \in Nat /\ DOMAIN sent = 1 .. Len(sent)
        <5>1. Len(sent) \in Nat /\ DOMAIN sent = 1 .. Len(sent)
          BY <1>1, Reading
        <5> QED
          BY <3>1, <5>1
      <4> QED
        BY <4>1
    <3>3. LineStopped(j) /\ j \in Lines
      BY <2>1, <3>1, <3>2 DEF LinesPrintable, LineStopped, Lines
    <3>4. sent[j + 1] # LF /\ LineFits(j)
      BY <2>1, <3>3 DEF LinesPrintable
    <3>5. NoFeed(j, j + MaxBuf - 1) /\ (Len(sent) - j >= MaxBuf \/ Len(sent) - j = 1)
      BY <3>3, <3>4 DEF LineStopped
    <3>6. Len(sent) - j \in 2 .. MaxBuf - 1
      BY <3>4, <3>5 DEF LineFits, NoFeed
    <3>7. MaxBuf \in Nat
      BY Sizes
    <3> QED
      BY <3>5, <3>6, <3>7
  <2>3. start \in 0 .. Len(sent) /\ ~ Unprintable(start) /\ ~ Unprintable(pos)
    BY <1>1, <2>2, Reading
  <2>4. start = Len(sent)
    BY <1>1, <2>1, <2>3 DEF PrintInv, DoneInv
  <2>5. CASE NoBlank(start) /\ printed = sent
    <3>1. blank = {}
      BY <1>1, <2>4, <2>5, Reading DEF NoBlank, BlankAfter
    <3> QED
      BY <2>5, <3>1
  <2>6. ASSUME NEW b \in 0 .. start - 2,
               BlankAfter(b), NoBlank(b + 1), printed = WithoutLine(b, start)
        PROVE  blank # {} /\ printed =    SubSeq(sent, 1, Min(blank))
                                       \o SubSeq(sent, Min(blank) + 3, Len(sent))
    <3>1. b \in blank /\ blank \in SUBSET Nat
      BY <1>1, <2>3, <2>6, Reading
    <3>2. \A k \in blank : b <= k
      BY <2>6, <3>1 DEF NoBlank
    <3>3. Min(blank) \in blank /\ Min(blank) <= b
      BY <3>1, MinExists
    <3>4. Min(blank) = b
      BY <3>1, <3>2, <3>3
    <3> QED
      BY <2>4, <2>6, <3>1, <3>4 DEF WithoutLine
  <2> QED
    BY <1>1, <2>1, <2>3, <2>5, <2>6 DEF PrintInv, BodyInv
<1> QED
  BY LineInvHolds, PrintInvHolds, <1>1, PTL
=============================================================================
