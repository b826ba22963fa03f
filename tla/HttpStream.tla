------------------------------ MODULE HttpStream ------------------------------
(***************************************************************************)
(* Reading one answer from a connection (HttpLowlevel.hs): the bytes come  *)
(* in blocks, cut anywhere, and the connection may end before the last of  *)
(* them.  connGetLine and connGetBlock keep what they have received and    *)
(* not used in a buffer; read_till_empty and switchResponse are built on   *)
(* them.  This is what is behind ReadHead, ReadBody and ReadFails of       *)
(* ConnChan.                                                               *)
(*                                                                         *)
(* A byte is CR, LF, Field (what a line of the head has before its end),   *)
(* the size of a chunk, which is a number, or a byte of the body, which    *)
(* may look like any of them.                                              *)
(***************************************************************************)
EXTENDS Integers, Sequences, SequencesExt

CONSTANTS
    CR, LF, Field,  \* bytes
    BodyBytes,      \* the bytes of bodies
    MaxFields,      \* bound: lines of a head before the empty one
    MaxBody         \* bound: bytes of a body

ASSUME ByteAssumption == CR # LF /\ Field \notin {CR, LF} /\ \A b \in {CR, LF, Field} : b \notin Nat
ASSUME BoundAssumption == MaxFields \in Nat /\ MaxBody \in Nat

VARIABLES
    response,   \* what the server answers, one of Responses
    sent,       \* it sends all of it
    hangsUp,    \* and then closes the connection
    unread,     \* bytes on their way
    recvBuffer, \* sslconn_recvBuffer
    reading,    \* what is being read
    built,      \* prebuild of the line
    want,       \* bytes that are missing from the block
    body,       \* what has been read of the body
    atEnd       \* the end of the connection has been met once

streamVars == <<response, sent, hangsUp, unread, recvBuffer, reading, built, want, body, atEnd>>

CRLF == <<CR, LF>>

\* Where each of m chunks can end in a body of n bytes; the last one is empty.
ChunkEnds(m, n) ==
    {e \in [0..m -> 0..n] : /\ e[0] = 0 /\ e[m - 1] = n /\ e[m] = n
                            /\ \A i, j \in 0 .. m - 1 : i < j => e[i] < e[j]}

Bodies == SeqOf(BodyBytes, MaxBody)
Responses ==
    [form: {"none"}, fields: 1..MaxFields, body: {<<>>}, chunks: {0}, ends: {<<>>}]
    \cup [form: {"length", "close", "unknown"}, fields: 1..MaxFields, body: Bodies, chunks: {0}, ends: {<<>>}]
    \cup UNION {[form: {"chunked"}, fields: 1..MaxFields, body: {b}, chunks: {m}, ends: ChunkEnds(m, Len(b))] :
                  m \in 1 .. MaxBody + 1, b \in Bodies}

\* The bytes before chunk i, each with five more than its size, and of it all.
HeadLen(r) == 3 * r.fields + 2
Size(r, i) == r.ends[i] - r.ends[i - 1]
Before(r, i) == HeadLen(r) + r.ends[i - 1] + 5 * (i - 1)
Length(r) == IF r.form = "chunked" THEN Before(r, r.chunks) + 5 ELSE HeadLen(r) + Len(r.body)

HeadByte(r, k) == IF k <= 3 * r.fields THEN <<Field, CR, LF>>[((k - 1) % 3) + 1] ELSE CRLF[k - 3 * r.fields]
ChunkByte(r, i, k) ==
    LET n == Size(r, i)
    IN  CASE k = 1 -> n
          [] k \in {2, n + 4} -> CR
          [] k \in {3, n + 5} -> LF
          [] OTHER -> r.body[r.ends[i - 1] + k - 3]
ChunkAt(r, k) == CHOOSE i \in 1 .. r.chunks : Before(r, i) < k /\ k <= Before(r, i) + Size(r, i) + 5

ByteAt(r, k) == IF k <= HeadLen(r) THEN HeadByte(r, k)
                ELSE IF r.form # "chunked" THEN r.body[k - HeadLen(r)]
                ELSE ChunkByte(r, ChunkAt(r, k), k - Before(r, ChunkAt(r, k)))
Bytes(r) == [k \in 1 .. Length(r) |-> ByteAt(r, k)]

StreamInit ==
    /\ response \in Responses
    /\ \E n \in 0 .. Len(Bytes(response)) :
         /\ unread = SubSeq(Bytes(response), 1, n)
         /\ sent = (n = Len(Bytes(response)))
    /\ hangsUp \in BOOLEAN /\ (~sent \/ response.form = "close" => hangsUp)
    /\ recvBuffer = <<>> /\ built = <<>> /\ want = 0 /\ body = <<>> /\ atEnd = FALSE
    /\ reading \in {"unused", "head"}

Lines == {"head", "size", "chunkEnd", "footers"}
Blocks == {"length", "chunk"}

-----------------------------------------------------------------------------
(* connGetLine, connGetBlock and connGetContents.                          *)

\* recvData: the next block, wherever the network has cut it.
Receive ==
    /\ reading \in Lines \cup Blocks /\ recvBuffer = <<>> /\ unread # <<>>
    /\ \E n \in 1 .. Len(unread) :
         recvBuffer' = SubSeq(unread, 1, n) /\ unread' = SubSeq(unread, n + 1, Len(unread))
    /\ UNCHANGED <<response, sent, hangsUp, reading, built, want, body, atEnd>>

\* At the end recvData gives an empty block, then throws; a connection that broke
\* throws at once.
MeetEnd ==
    /\ reading \in Lines \cup Blocks /\ recvBuffer = <<>> /\ unread = <<>> /\ hangsUp
    /\ \/ ~atEnd /\ atEnd' = TRUE /\ UNCHANGED reading
       \/ reading' = "error" /\ UNCHANGED atEnd
    /\ UNCHANGED <<response, sent, hangsUp, unread, recvBuffer, built, want, body>>

\* The part is lost.
KeepPart_Faulty ==
    /\ reading \in Lines /\ recvBuffer # <<>> /\ (\A i \in DOMAIN recvBuffer : recvBuffer[i] # LF)
    /\ built' = <<>> /\ recvBuffer' = <<>>
    /\ UNCHANGED <<response, sent, hangsUp, unread, reading, want, body, atEnd>>

\* Part of a line.
KeepPart ==
    /\ reading \in Lines /\ recvBuffer # <<>> /\ (\A i \in DOMAIN recvBuffer : recvBuffer[i] # LF)
    /\ built' = built \o recvBuffer /\ recvBuffer' = <<>>
    /\ UNCHANGED <<response, sent, hangsUp, unread, reading, want, body, atEnd>>

\* readHex: what is no number is 0.
SizeIn(line) == IF line[1] \in Nat THEN line[1] ELSE 0

\* The body after a head: switchResponse.
AfterHead ==
    LET n == Len(response.body)
    IN  /\ reading' = CASE response.form = "none" -> "done"
                        [] response.form = "length" -> (IF n = 0 THEN "done" ELSE "length")
                        [] response.form = "chunked" -> "size"
                        [] response.form = "close" -> "contents"
                        [] response.form = "unknown" -> "error"
        /\ want' = IF response.form = "length" THEN n ELSE 0

\* What a line means to its reader.
AfterLine(line) ==
    CASE reading = "head" -> IF line = CRLF THEN AfterHead ELSE UNCHANGED <<reading, want>>
      [] reading = "size" ->
           /\ want' = SizeIn(line)
           /\ reading' = IF want' > 0 THEN "chunk" ELSE "footers"
      [] reading = "chunkEnd" -> reading' = "size" /\ UNCHANGED want
      [] reading = "footers" -> reading' = (IF line = CRLF THEN "done" ELSE reading) /\ UNCHANGED want

\* A whole line: break finds its end.
TakeLine ==
    /\ reading \in Lines
    /\ \E i \in DOMAIN recvBuffer :
         /\ recvBuffer[i] = LF /\ \A j \in 1 .. i - 1 : recvBuffer[j] # LF
         /\ recvBuffer' = SubSeq(recvBuffer, i + 1, Len(recvBuffer))
         /\ AfterLine(built \o SubSeq(recvBuffer, 1, i))
    /\ built' = <<>>
    /\ UNCHANGED <<response, sent, hangsUp, unread, body, atEnd>>

\* What is left over is lost.
TakeBlock_Faulty ==
    LET n == IF want < Len(recvBuffer) THEN want ELSE Len(recvBuffer)
    IN  /\ reading \in Blocks /\ recvBuffer # <<>>
        /\ body' = body \o SubSeq(recvBuffer, 1, n) /\ recvBuffer' = <<>>
        /\ want' = want - n
        /\ reading' = IF want' > 0 THEN reading ELSE IF reading = "chunk" THEN "chunkEnd" ELSE "done"
        /\ UNCHANGED <<response, sent, hangsUp, unread, built, atEnd>>

\* splitAt: what is left over stays in the buffer.
TakeBlock ==
    LET n == IF want < Len(recvBuffer) THEN want ELSE Len(recvBuffer)
    IN  /\ reading \in Blocks /\ recvBuffer # <<>>
        /\ body' = body \o SubSeq(recvBuffer, 1, n)
        /\ recvBuffer' = SubSeq(recvBuffer, n + 1, Len(recvBuffer))
        /\ want' = want - n
        /\ reading' = IF want' > 0 THEN reading ELSE IF reading = "chunk" THEN "chunkEnd" ELSE "done"
        /\ UNCHANGED <<response, sent, hangsUp, unread, built, atEnd>>

\* An answer without a length: everything up to the end, or to the exception.
TakeContents ==
    /\ reading = "contents"
    /\ IF recvBuffer # <<>> THEN body' = body \o recvBuffer /\ recvBuffer' = <<>> /\ UNCHANGED <<unread, reading>>
       ELSE IF unread # <<>>
       THEN \E n \in 1 .. Len(unread) :
              /\ body' = body \o SubSeq(unread, 1, n) /\ unread' = SubSeq(unread, n + 1, Len(unread))
              /\ UNCHANGED <<recvBuffer, reading>>
       ELSE hangsUp /\ reading' = "done" /\ UNCHANGED <<body, recvBuffer, unread>>
    /\ UNCHANGED <<response, sent, hangsUp, built, want, atEnd>>

ReadStep == Receive \/ MeetEnd \/ KeepPart \/ TakeLine \/ TakeBlock \/ TakeContents

\* The answer was read, or the connection is given up.
ReadOver == reading \in {"done", "error"} /\ UNCHANGED streamVars

StreamNext == ReadStep \/ ReadOver

StreamSpec == StreamInit /\ [][StreamNext]_streamVars /\ WF_streamVars(ReadStep)

-----------------------------------------------------------------------------
(* Properties.                                                             *)

\* However the network cuts it, an answer is read as it was sent, to its last byte
\* and no further, or the connection is given up; an answer that was sent whole is
\* not given up, and nothing of it is waited for.  A body that ends with the connection
\* may be cut short.
AnswerWhole ==
    /\ reading = "done" =>
         /\ recvBuffer = <<>> /\ unread = <<>>
         /\ body = response.body \/ (response.form = "close" /\ ~sent /\ IsPrefix(body, response.body))
    /\ reading = "error" => ~sent \/ response.form = "unknown"
    /\ reading \in Lines \cup Blocks => ~sent \/ recvBuffer # <<>> \/ unread # <<>>

\* Reading ends: an answer that has arrived is not waited for.
ReadingEnds == <>(reading \in {"unused", "done", "error"})
=============================================================================
