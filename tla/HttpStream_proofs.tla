-------------------------- MODULE HttpStream_proofs --------------------------
(***************************************************************************)
(* Proofs about HttpStream, for any heads and bodies, cut into any chunks  *)
(* and blocks: an answer is read as it was sent, to its last byte and no   *)
(* further.                                                                *)
(***************************************************************************)
EXTENDS HttpStream, SequenceTheorems, TLAPS

-----------------------------------------------------------------------------
(* The bytes of an answer.                                                 *)

\* All bytes that an answer and its body are made of.
Byte(r) == BodyBytes \cup {Bytes(r)[k] : k \in 1 .. Length(r)}

\* A body is a sequence of bytes; the ends of the chunks grow from nothing to its end.
LEMMA ResponseType ==
  \A r \in Responses :
     /\ r.form \in {"none", "length", "chunked", "close", "unknown"}
     /\ r.fields \in Nat \ {0} /\ r.body \in Seq(BodyBytes) /\ Len(r.body) \in Nat
     /\ r.form = "none" => r.body = <<>>
     /\ r.form = "chunked" =>
          /\ r.chunks \in Nat \ {0} /\ r.ends \in [0 .. r.chunks -> 0 .. Len(r.body)]
          /\ r.ends[0] = 0 /\ r.ends[r.chunks - 1] = Len(r.body) /\ r.ends[r.chunks] = Len(r.body)
          /\ \A i, j \in 0 .. r.chunks - 1 : i < j => r.ends[i] < r.ends[j]
<1> SUFFICES ASSUME NEW r \in Responses
             PROVE  ResponseType!(r)
  OBVIOUS
<1>1. \A b \in Bodies : b \in Seq(BodyBytes) /\ Len(b) \in Nat
  BY BoundAssumption DEF Bodies, SeqOf
<1>2. <<>> \in Seq(BodyBytes) /\ Len(<<>>) \in Nat
  OBVIOUS
<1>3. CASE r \in [form: {"none"}, fields: 1..MaxFields, body: {<<>>}, chunks: {0}, ends: {<<>>}]
  <2>1. r.form = "none" /\ r.fields \in 1 .. MaxFields /\ r.body = <<>>
    BY <1>3
  <2> QED
    BY <1>2, <2>1, BoundAssumption
<1>4. CASE r \in [form: {"length", "close", "unknown"}, fields: 1..MaxFields, body: Bodies, chunks: {0}, ends: {<<>>}]
  BY <1>1, <1>4, BoundAssumption
<1>5. ASSUME NEW m \in 1 .. MaxBody + 1, NEW b \in Bodies,
             r \in [form: {"chunked"}, fields: 1..MaxFields, body: {b}, chunks: {m}, ends: ChunkEnds(m, Len(b))]
      PROVE  ResponseType!(r)
  BY <1>1, <1>5, BoundAssumption DEF ChunkEnds
<1>6. r \in UNION {[form: {"chunked"}, fields: 1..MaxFields, body: {b}, chunks: {m}, ends: ChunkEnds(m, Len(b))] :
                      m \in 1 .. MaxBody + 1, b \in Bodies}
      => \E m \in 1 .. MaxBody + 1, b \in Bodies :
           r \in [form: {"chunked"}, fields: 1..MaxFields, body: {b}, chunks: {m}, ends: ChunkEnds(m, Len(b))]
  <2> DEFINE R(m, b) == [form: {"chunked"}, fields: 1..MaxFields, body: {b}, chunks: {m}, ends: ChunkEnds(m, Len(b))]
  <2>1. ASSUME NEW S \in {R(m, b) : m \in 1 .. MaxBody + 1, b \in Bodies}, r \in S
        PROVE  \E m \in 1 .. MaxBody + 1, b \in Bodies : r \in R(m, b)
    <3>1. \E m \in 1 .. MaxBody + 1, b \in Bodies : S = R(m, b)
      BY <2>1
    <3> QED
      BY <2>1, <3>1
  <2> QED
    BY <2>1
<1> QED
  BY <1>3, <1>4, <1>5, <1>6 DEF Responses

\* Chunks lie behind the head, one behind the other.
LEMMA ChunksInOrder ==
  \A r \in Responses : r.form = "chunked" =>
     \A i \in 1 .. r.chunks :
        /\ Size(r, i) \in 0 .. Len(r.body) /\ r.ends[i - 1] \in 0 .. Len(r.body) /\ r.ends[i] \in 0 .. Len(r.body)
        /\ Size(r, i) = 0 <=> i = r.chunks
        /\ Before(r, i) \in Nat /\ Before(r, i) >= HeadLen(r)
        /\ i < r.chunks => Before(r, i + 1) = Before(r, i) + Size(r, i) + 5
        /\ Before(r, i) + Size(r, i) + 5 <= Length(r)
        /\ \A j \in 1 .. r.chunks : i < j => Before(r, i) + Size(r, i) + 5 <= Before(r, j)
<1> SUFFICES ASSUME NEW r \in Responses, r.form = "chunked", NEW i \in 1 .. r.chunks
             PROVE  ChunksInOrder!(r)!2!(i)
  OBVIOUS
<1> DEFINE m == r.chunks
           e == r.ends
           n == Len(r.body)
<1>1. /\ m \in Nat \ {0} /\ n \in Nat /\ r.fields \in Nat /\ e \in [0 .. m -> 0 .. n]
      /\ e[0] = 0 /\ e[m - 1] = n /\ e[m] = n /\ \A x, y \in 0 .. m - 1 : x < y => e[x] < e[y]
  BY ResponseType
<1>a. \A x \in 0 .. m : e[x] \in 0 .. n
  BY <1>1
<1>b. \A x, y \in 0 .. m - 1 : x < y => e[x] < e[y]
  BY <1>1
<1>c. i \in 1 .. m
  OBVIOUS
<1> HIDE DEF m, e, n
<1>d. i \in Int /\ i - 1 \in 0 .. m - 1 /\ i - 1 \in 0 .. m /\ i \in 0 .. m
  BY <1>1, <1>c
<1>2. /\ e[i - 1] \in 0 .. n /\ e[i] \in 0 .. n /\ e[m] = n /\ e[m - 1] = n
  BY <1>1, <1>a, <1>d
<1>3. \A x, y \in 0 .. m - 1 : x <= y => e[x] <= e[y]
  <2> SUFFICES ASSUME NEW x \in 0 .. m - 1, NEW y \in 0 .. m - 1, x <= y
               PROVE  e[x] <= e[y]
    OBVIOUS
  <2>1. x \in 0 .. m /\ y \in 0 .. m
    BY <1>1
  <2>2. e[x] \in 0 .. n /\ e[y] \in 0 .. n
    BY <1>a, <2>1
  <2> QED
    BY <1>b, <2>2
<1>4. i < m => e[i - 1] < e[i]
  BY <1>1, <1>b, <1>c, <1>d
<1>5. i = m => e[i - 1] = e[i]
  BY <1>2
<1>6. HeadLen(r) = 3 * r.fields + 2 /\ HeadLen(r) \in Nat
  BY <1>1 DEF HeadLen
<1>7. /\ Size(r, i) = e[i] - e[i - 1] /\ Before(r, i) = HeadLen(r) + e[i - 1] + 5 * (i - 1)
      /\ Length(r) = HeadLen(r) + n + 5 * (m - 1) + 5
  BY <1>1 DEF Size, Before, Length, m, e, n
<1>8. i < m => Before(r, i + 1) = HeadLen(r) + e[i] + 5 * i
  <2>1. i + 1 - 1 = i
    BY <1>d
  <2> QED
    BY <2>1 DEF Before, e
<1>e. e[i - 1] \in Nat /\ e[i] \in Nat /\ e[i] <= n /\ i \in Nat /\ i >= 1 /\ i <= m /\ m \in Nat /\ n \in Nat
  BY <1>1, <1>c, <1>2
<1>9. Size(r, i) \in 0 .. n /\ (Size(r, i) = 0 <=> i = m)
  BY <1>1, <1>c, <1>2, <1>4, <1>5, <1>7
<1>10. Before(r, i) + Size(r, i) + 5 = HeadLen(r) + e[i] + 5 * i
  BY <1>e, <1>6, <1>7
<1>11. Before(r, i) + Size(r, i) + 5 <= Length(r)
  BY <1>e, <1>6, <1>7, <1>10
<1>12. ASSUME NEW j \in 1 .. m, i < j
       PROVE  Before(r, i) + Size(r, i) + 5 <= Before(r, j)
  <2>1. Before(r, j) = HeadLen(r) + e[j - 1] + 5 * (j - 1)
    BY DEF Before, e
  <2>2. e[i] <= e[j - 1] /\ e[j - 1] \in 0 .. n
    <3>1. j - 1 \in 0 .. m - 1 /\ j - 1 \in 0 .. m /\ i \in 0 .. m - 1 /\ i <= j - 1
      BY <1>1, <1>c, <1>12
    <3> QED
      BY <1>3, <1>a, <3>1
  <2> QED
    <3>1. e[j - 1] \in Nat /\ j \in Nat
      BY <2>2, <1>e
    <3> QED
      BY <1>e, <1>6, <1>10, <1>12, <2>1, <2>2, <3>1
<1>13. Before(r, i) \in Nat /\ Before(r, i) >= HeadLen(r)
  BY <1>e, <1>6, <1>7
<1> QED
  BY <1>d, <1>2, <1>6, <1>13, <1>7, <1>6, <1>7, <1>8, <1>9, <1>10, <1>11, <1>12 DEF m, e, n

\* The head is at the beginning of the answer.
LEMMA Lengths ==
  \A r \in Responses :
     /\ HeadLen(r) = 3 * r.fields + 2 /\ HeadLen(r) \in Nat /\ Length(r) \in Nat /\ HeadLen(r) <= Length(r)
     /\ r.form # "chunked" => Length(r) = HeadLen(r) + Len(r.body)
<1> SUFFICES ASSUME NEW r \in Responses
             PROVE  Lengths!(r)
  OBVIOUS
<1>1. HeadLen(r) = 3 * r.fields + 2 /\ HeadLen(r) \in Nat /\ Len(r.body) \in Nat
  BY ResponseType DEF HeadLen
<1>2. CASE r.form = "chunked"
  <2>1. r.chunks \in 1 .. r.chunks
    BY <1>2, ResponseType
  <2>2. Before(r, r.chunks) \in Nat /\ Before(r, r.chunks) >= HeadLen(r)
    BY <1>2, <2>1, ChunksInOrder
  <2>3. Length(r) = Before(r, r.chunks) + 5
    BY <1>2 DEF Length
  <2> QED
    BY <1>1, <1>2, <2>2, <2>3
<1>3. CASE r.form # "chunked"
  BY <1>1, <1>3 DEF Length
<1> QED
  BY <1>2, <1>3

\* The lines of the head.
LEMMA HeadBytes ==
  \A r \in Responses :
     /\ \A j \in 0 .. r.fields - 1 :
          Bytes(r)[3 * j + 1] = Field /\ Bytes(r)[3 * j + 2] = CR /\ Bytes(r)[3 * j + 3] = LF
     /\ Bytes(r)[3 * r.fields + 1] = CR /\ Bytes(r)[3 * r.fields + 2] = LF
<1> SUFFICES ASSUME NEW r \in Responses
             PROVE  HeadBytes!(r)
  OBVIOUS
<1>1. r.fields \in Nat /\ HeadLen(r) = 3 * r.fields + 2 /\ HeadLen(r) \in Nat /\ Length(r) \in Nat /\ HeadLen(r) <= Length(r)
  BY ResponseType, Lengths
<1>2. \A k \in 1 .. HeadLen(r) : Bytes(r)[k] = HeadByte(r, k)
  BY <1>1 DEF Bytes, ByteAt
<1>3. ASSUME NEW j \in 0 .. r.fields - 1
      PROVE  Bytes(r)[3 * j + 1] = Field /\ Bytes(r)[3 * j + 2] = CR /\ Bytes(r)[3 * j + 3] = LF
  <2>1. ASSUME NEW x \in 1 .. 3
        PROVE  Bytes(r)[3 * j + x] = <<Field, CR, LF>>[x]
    <3>1. 3 * j + x \in 1 .. HeadLen(r) /\ 3 * j + x <= 3 * r.fields
      BY <1>1
    <3>2. ((3 * j + x - 1) % 3) + 1 = x
      BY <1>1
    <3> QED
      BY <1>2, <3>1, <3>2 DEF HeadByte
  <2> QED
    BY <2>1
<1>4. ASSUME NEW x \in 1 .. 2
      PROVE  Bytes(r)[3 * r.fields + x] = CRLF[x]
  <2> DEFINE k == 3 * r.fields + x
  <2>1. k \in 1 .. HeadLen(r) /\ ~(k <= 3 * r.fields) /\ k - 3 * r.fields = x
    BY <1>1
  <2> HIDE DEF k
  <2>2. Bytes(r)[k] = CRLF[x]
    BY <1>2, <2>1 DEF HeadByte
  <2> QED
    BY <2>2 DEF k
<1> QED
  BY <1>3, <1>4 DEF CRLF

\* A body that is not chunked is behind the head.
LEMMA PlainBytes ==
  \A r \in Responses : r.form # "chunked" =>
     \A k \in 1 .. Len(r.body) : Bytes(r)[HeadLen(r) + k] = r.body[k]
<1> SUFFICES ASSUME NEW r \in Responses, r.form # "chunked", NEW k \in 1 .. Len(r.body)
             PROVE  Bytes(r)[HeadLen(r) + k] = r.body[k]
  OBVIOUS
<1>1. HeadLen(r) \in Nat /\ Len(r.body) \in Nat /\ Length(r) = HeadLen(r) + Len(r.body)
  BY ResponseType, Lengths
<1> DEFINE p == HeadLen(r) + k
<1>2. p \in 1 .. Length(r) /\ ~(p <= HeadLen(r)) /\ p - HeadLen(r) = k
  BY <1>1
<1> HIDE DEF p
<1>3. Bytes(r)[p] = r.body[k]
  BY <1>2 DEF Bytes, ByteAt
<1> QED
  BY <1>3 DEF p

\* The bytes of a chunk: its size, its part of the body, and two line ends.
LEMMA ChunkBytes ==
  \A r \in Responses : r.form = "chunked" =>
     \A i \in 1 .. r.chunks : \A k \in 1 .. Size(r, i) + 5 :
        Bytes(r)[Before(r, i) + k] = ChunkByte(r, i, k)
<1> SUFFICES ASSUME NEW r \in Responses, r.form = "chunked", NEW i \in 1 .. r.chunks,
                    NEW k \in 1 .. Size(r, i) + 5
             PROVE  Bytes(r)[Before(r, i) + k] = ChunkByte(r, i, k)
  OBVIOUS
<1> DEFINE p == Before(r, i) + k
           In(j) == Before(r, j) < p /\ p <= Before(r, j) + Size(r, j) + 5
<1>1. HeadLen(r) \in Nat /\ Length(r) \in Nat
  BY Lengths
<1>2. \A j \in 1 .. r.chunks :
        /\ Before(r, j) \in Nat /\ Size(r, j) \in Nat /\ Before(r, j) >= HeadLen(r)
        /\ Before(r, j) + Size(r, j) + 5 <= Length(r)
        /\ \A l \in 1 .. r.chunks : j < l => Before(r, j) + Size(r, j) + 5 <= Before(r, l)
  BY ChunksInOrder
<1>3. Before(r, i) \in Nat /\ Size(r, i) \in Nat /\ Before(r, i) >= HeadLen(r) /\ Before(r, i) + Size(r, i) + 5 <= Length(r)
  BY <1>2
<1>4. p \in 1 .. Length(r) /\ ~(p <= HeadLen(r)) /\ p - Before(r, i) = k /\ In(i) /\ p \in Nat
  BY <1>1, <1>3
<1>5. ASSUME NEW j \in 1 .. r.chunks, In(j)
      PROVE  j = i
  <2>1. Before(r, j) \in Nat /\ Size(r, j) \in Nat
    BY <1>2
  <2>2. ~(j < i)
    <3>1. j < i => Before(r, j) + Size(r, j) + 5 <= Before(r, i)
      BY <1>2
    <3> QED
      BY <1>3, <1>4, <1>5, <2>1, <3>1
  <2>3. ~(i < j)
    <3>1. i < j => Before(r, i) + Size(r, i) + 5 <= Before(r, j)
      BY <1>2
    <3> QED
      BY <1>3, <1>4, <1>5, <2>1, <3>1
  <2>4. i \in Int /\ j \in Int
    BY ResponseType
  <2> QED
    BY <2>2, <2>3, <2>4
<1>6. ChunkAt(r, p) = i
  BY <1>4, <1>5 DEF ChunkAt
<1>7. Bytes(r)[p] = ChunkByte(r, ChunkAt(r, p), p - Before(r, ChunkAt(r, p)))
  BY <1>4 DEF Bytes, ByteAt
<1> QED
  BY <1>4, <1>6, <1>7

-----------------------------------------------------------------------------
(* Lines.                                                                  *)

\* Behind the first x bytes is a line of n.
Line(r, x, n) ==
    /\ x + n <= Length(r) /\ Bytes(r)[x + n] = LF
    /\ \A k \in 1 .. n - 1 : Bytes(r)[x + k] # LF

\* There is one line only.
LEMMA OneLine ==
  \A r, x : \A m, n \in Nat \ {0} : Line(r, x, m) /\ Line(r, x, n) => m = n
<1> SUFFICES ASSUME NEW r, NEW x, NEW m \in Nat \ {0}, NEW n \in Nat \ {0}, Line(r, x, m), Line(r, x, n)
             PROVE  m = n
  OBVIOUS
<1>1. ~(m < n)
  <2>1. m < n => m \in 1 .. n - 1
    OBVIOUS
  <2> QED
    BY <2>1 DEF Line
<1>2. ~(n < m)
  <2>1. n < m => n \in 1 .. m - 1
    OBVIOUS
  <2> QED
    BY <2>1 DEF Line
<1> QED
  BY <1>1, <1>2

\* The lines of the head.
LEMMA HeadLines ==
  \A r \in Responses :
     /\ \A j \in 0 .. r.fields - 1 : Line(r, 3 * j, 3)
     /\ Line(r, 3 * r.fields, 2)
<1> SUFFICES ASSUME NEW r \in Responses
             PROVE  HeadLines!(r)
  OBVIOUS
<1>1. r.fields \in Nat /\ Length(r) \in Nat /\ 3 * r.fields + 2 <= Length(r)
  BY ResponseType, Lengths
<1>2. ASSUME NEW j \in 0 .. r.fields - 1
      PROVE  Line(r, 3 * j, 3)
  <2>1. \A k \in 1 .. 3 - 1 : k = 1 \/ k = 2
    OBVIOUS
  <2>2. 3 * j + 3 <= Length(r)
    BY <1>1
  <2> QED
    BY <2>1, <2>2, HeadBytes, ByteAssumption DEF Line
<1>3. Line(r, 3 * r.fields, 2)
  <2>1. \A k \in 1 .. 2 - 1 : k = 1
    OBVIOUS
  <2> QED
    BY <1>1, <2>1, HeadBytes, ByteAssumption DEF Line
<1> QED
  BY <1>2, <1>3

\* The line with a chunk's size, and the one behind the chunk.
LEMMA ChunkLines ==
  \A r \in Responses : r.form = "chunked" =>
     \A i \in 1 .. r.chunks :
        /\ Line(r, Before(r, i), 3) /\ Bytes(r)[Before(r, i) + 1] = Size(r, i)
        /\ Line(r, Before(r, i) + 3 + Size(r, i), 2)
        /\ Bytes(r)[Before(r, i) + 3 + Size(r, i) + 1] = CR
<1> SUFFICES ASSUME NEW r \in Responses, r.form = "chunked", NEW i \in 1 .. r.chunks
             PROVE  ChunkLines!(r)!2!(i)
  OBVIOUS
<1> DEFINE p == Before(r, i)
           n == Size(r, i)
<1>1. p \in Nat /\ n \in Nat /\ p + n + 5 <= Length(r) /\ Length(r) \in Nat
  BY ChunksInOrder, Lengths
<1>2. \A k \in 1 .. n + 5 : Bytes(r)[p + k] = ChunkByte(r, i, k)
  BY ChunkBytes
<1>3. /\ ChunkByte(r, i, 1) = n /\ ChunkByte(r, i, 2) = CR /\ ChunkByte(r, i, 3) = LF
      /\ ChunkByte(r, i, n + 4) = CR /\ ChunkByte(r, i, n + 5) = LF
  BY <1>1 DEF ChunkByte
<1> HIDE DEF p, n
<1>4. Bytes(r)[p + 1] = n /\ Bytes(r)[p + 2] = CR /\ Bytes(r)[p + 3] = LF
  BY <1>1, <1>2, <1>3
<1>5. Bytes(r)[p + (n + 4)] = CR /\ Bytes(r)[p + (n + 5)] = LF
  <2>1. n + 4 \in 1 .. n + 5 /\ n + 5 \in 1 .. n + 5
    BY <1>1
  <2> QED
    BY <1>2, <1>3, <2>1
<1>6. p + 3 + n + 1 = p + (n + 4) /\ p + 3 + n + 2 = p + (n + 5)
  BY <1>1
<1>7. \A k \in 1 .. 3 - 1 : k = 1 \/ k = 2
  OBVIOUS
<1>8. \A k \in 1 .. 2 - 1 : k = 1
  OBVIOUS
<1>9. Line(r, p, 3)
  <2>1. p + 3 <= Length(r) /\ n # LF /\ CR # LF
    BY <1>1, ByteAssumption
  <2> QED
    BY <1>4, <1>7, <2>1 DEF Line
<1>10. Line(r, p + 3 + n, 2)
  <2>1. p + 3 + n + 2 <= Length(r) /\ CR # LF
    BY <1>1, ByteAssumption
  <2> QED
    BY <1>5, <1>6, <1>8, <2>1 DEF Line
<1> QED
  BY <1>4, <1>5, <1>6, <1>9, <1>10 DEF p, n

-----------------------------------------------------------------------------
(* What is taken from a sequence.                                          *)

\* The first n elements of a sequence, and those behind them.
LEMMA Cut ==
  \A S : \A s \in Seq(S) : \A n \in 0 .. Len(s) :
     /\ SubSeq(s, 1, n) \in Seq(S) /\ Len(SubSeq(s, 1, n)) = n /\ Len(s) \in Nat
     /\ SubSeq(s, n + 1, Len(s)) \in Seq(S) /\ Len(SubSeq(s, n + 1, Len(s))) = Len(s) - n
     /\ \A k \in 1 .. n : SubSeq(s, 1, n)[k] = s[k]
     /\ \A k \in 1 .. Len(s) - n : SubSeq(s, n + 1, Len(s))[k] = s[n + k]
<1> SUFFICES ASSUME NEW S, NEW s \in Seq(S), NEW n \in 0 .. Len(s)
             PROVE  Cut!(S)!(s)!(n)
  OBVIOUS
<1>1. Len(s) \in Nat /\ \A i \in 1 .. Len(s) : s[i] \in S
  BY ElementOfSeq, LenProperties
<1> DEFINE a == SubSeq(s, 1, n)
           b == SubSeq(s, n + 1, Len(s))
<1>2. /\ a \in Seq(S) /\ Len(a) = (IF 1 <= n THEN n - 1 + 1 ELSE 0)
      /\ \A i \in 1 .. n - 1 + 1 : a[i] = s[1 + i - 1]
  <2>1. \A i \in 1 .. n : s[i] \in S
    BY <1>1
  <2> QED
    BY <2>1, SubSeqProperties
<1>3. /\ b \in Seq(S) /\ Len(b) = (IF n + 1 <= Len(s) THEN Len(s) - (n + 1) + 1 ELSE 0)
      /\ \A i \in 1 .. Len(s) - (n + 1) + 1 : b[i] = s[n + 1 + i - 1]
  <2>1. \A i \in n + 1 .. Len(s) : s[i] \in S
    BY <1>1
  <2>2. n + 1 \in Int /\ Len(s) \in Int
    BY <1>1
  <2> HIDE DEF b
  <2> QED
    BY <2>1, <2>2, SubSeqProperties DEF b
<1> HIDE DEF a, b
<1>4. Len(a) = n /\ Len(b) = Len(s) - n
  BY <1>1, <1>2, <1>3
<1>5. \A k \in 1 .. n : a[k] = s[k]
  BY <1>1, <1>2
<1>6. ASSUME NEW k \in 1 .. Len(s) - n
      PROVE  b[k] = s[n + k]
  <2>1. k \in 1 .. Len(s) - (n + 1) + 1 /\ n + 1 + k - 1 = n + k
    BY <1>1
  <2> QED
    BY <1>3, <2>1
<1> QED
  BY <1>1, <1>2, <1>3, <1>4, <1>5, <1>6 DEF a, b

\* Behind the first x elements of s come the first n of t.
LEMMA ReadOn ==
  \A S : \A s, t \in Seq(S) : \A x, n \in Nat :
     x + n <= Len(s) /\ n <= Len(t) /\ (\A k \in 1 .. n : t[k] = s[x + k])
     => SubSeq(s, 1, x) \o SubSeq(t, 1, n) = SubSeq(s, 1, x + n)
<1> SUFFICES ASSUME NEW S, NEW s \in Seq(S), NEW t \in Seq(S), NEW x \in Nat, NEW n \in Nat,
                    x + n <= Len(s), n <= Len(t), \A k \in 1 .. n : t[k] = s[x + k]
             PROVE  SubSeq(s, 1, x) \o SubSeq(t, 1, n) = SubSeq(s, 1, x + n)
  OBVIOUS
<1> DEFINE a == SubSeq(s, 1, x)
           b == SubSeq(t, 1, n)
           c == SubSeq(s, 1, x + n)
<1>1. Len(s) \in Nat /\ Len(t) \in Nat
  BY LenProperties
<1>2. a \in Seq(S) /\ Len(a) = x /\ \A k \in 1 .. x : a[k] = s[k]
  BY <1>1, Cut
<1>3. b \in Seq(S) /\ Len(b) = n /\ \A k \in 1 .. n : b[k] = t[k]
  BY <1>1, Cut
<1>4. c \in Seq(S) /\ Len(c) = x + n /\ \A k \in 1 .. x + n : c[k] = s[k]
  <2>1. x + n \in 0 .. Len(s)
    BY <1>1
  <2> QED
    BY <2>1, Cut
<1> HIDE DEF a, b, c
<1>5. /\ a \o b \in Seq(S) /\ Len(a \o b) = x + n
      /\ \A k \in 1 .. x + n : (a \o b)[k] = IF k <= x THEN a[k] ELSE b[k - x]
  BY <1>2, <1>3, ConcatProperties
<1>6. ASSUME NEW k \in 1 .. x + n
      PROVE  (a \o b)[k] = c[k]
  <2>1. CASE k <= x
    <3>1. k \in 1 .. x
      BY <2>1
    <3>2. a[k] = s[k] /\ c[k] = s[k] /\ (a \o b)[k] = a[k]
      BY <1>2, <1>4, <1>5, <2>1, <3>1
    <3> QED
      BY <3>2
  <2>2. CASE ~(k <= x)
    <3>1. k - x \in 1 .. n /\ x + (k - x) = k
      BY <2>2
    <3>2. b[k - x] = s[k]
      BY <1>3, <3>1
    <3> QED
      BY <1>4, <1>5, <2>2, <3>2
  <2> QED
    BY <2>1, <2>2
<1> QED
  BY <1>4, <1>5, <1>6, SeqEqual DEF a, b, c

-----------------------------------------------------------------------------
(* The inductive invariant.                                                *)

StreamTypes ==
    /\ response \in Responses /\ sent \in BOOLEAN /\ hangsUp \in BOOLEAN
    /\ unread \in Seq(Byte(response)) /\ recvBuffer \in Seq(Byte(response))
    /\ built \in Seq(Byte(response)) /\ body \in Seq(Byte(response))
    /\ want \in Nat
    /\ reading \in Lines \cup Blocks \cup {"contents", "done", "error"}

\* x bytes lie behind the reader; it has taken u, with the part of a line, and what
\* is in the buffer and on its way comes next.
Taken(x, u) ==
    LET b == Bytes(response)
        B == Len(built)
        R == Len(recvBuffer)
        U == Len(unread)
    IN  /\ x + B = u /\ \A k \in 1 .. B : built[k] = b[x + k] /\ built[k] # LF
        /\ \A k \in 1 .. R : recvBuffer[k] = b[u + k]
        /\ \A k \in 1 .. U : unread[k] = b[u + R + k]
        /\ u + R + U <= Length(response) /\ (sent <=> u + R + U = Length(response))

\* The first n bytes of the body have been read.
BodyRead(n) == n \in 0 .. Len(response.body) /\ body = SubSeq(response.body, 1, n)

\* Where in the answer the reader is that has x bytes behind it.
Place(x) ==
    LET r == response
    IN  /\ reading \notin Lines \cup {"error"} => built = <<>>
        /\ reading \in {"size", "chunk", "chunkEnd", "footers"} => r.form = "chunked"
        /\ reading = "head" =>
             want = 0 /\ BodyRead(0) /\ \E j \in 0 .. r.fields : x = 3 * j
        /\ reading = "length" =>
             /\ r.form = "length" /\ want \in 1 .. Len(r.body)
             /\ x + want = Length(r) /\ BodyRead(Len(r.body) - want)
        /\ reading = "size" =>
             \E i \in 1 .. r.chunks : x = Before(r, i) /\ BodyRead(r.ends[i - 1])
        /\ reading = "chunk" =>
             \E i \in 1 .. r.chunks :
               /\ want \in 1 .. Size(r, i) /\ x + want = Before(r, i) + 3 + Size(r, i)
               /\ BodyRead(r.ends[i] - want)
        /\ reading = "chunkEnd" =>
             \E i \in 1 .. r.chunks :
               Size(r, i) > 0 /\ x = Before(r, i) + 3 + Size(r, i) /\ BodyRead(r.ends[i])
        /\ reading = "footers" => x = Before(r, r.chunks) + 3 /\ BodyRead(Len(r.body))
        /\ reading = "contents" => r.form = "close" /\ x = HeadLen(r) + Len(body) /\ BodyRead(Len(body))
        /\ reading = "done" =>
             /\ recvBuffer = <<>> /\ unread = <<>>
             /\ BodyRead(Len(r.body)) \/ (r.form = "close" /\ ~sent /\ BodyRead(Len(body)))
        /\ reading = "error" => ~sent \/ r.form = "unknown"

\* The inductive invariant.
StreamInv ==
    reading # "unused" => StreamTypes /\ \E x, u \in 0 .. Length(response) : Taken(x, u) /\ Place(x)

-----------------------------------------------------------------------------
(* Where the reader stands.                                                *)

\* Facts about the lengths.
LEMMA Sizes ==
  StreamTypes =>
    /\ Len(unread) \in Nat /\ Len(recvBuffer) \in Nat /\ Len(built) \in Nat /\ Len(body) \in Nat
    /\ Length(response) \in Nat /\ HeadLen(response) \in Nat
    /\ Len(response.body) \in Nat /\ response.body \in Seq(Byte(response))
<1> SUFFICES ASSUME StreamTypes
             PROVE  Sizes!2
  OBVIOUS
<1>1. /\ unread \in Seq(Byte(response)) /\ recvBuffer \in Seq(Byte(response))
      /\ built \in Seq(Byte(response)) /\ body \in Seq(Byte(response)) /\ response \in Responses
  BY DEF StreamTypes
<1>2. response.body \in Seq(BodyBytes)
  BY <1>1, ResponseType
<1>3. response.body \in Seq(Byte(response))
  BY <1>2, SeqMonotonic DEF Byte
<1> QED
  BY <1>1, <1>2, <1>3, Lengths, LenProperties

\* A line that is waited for has not been passed.
LEMMA LineThere ==
  ASSUME StreamTypes, NEW x \in 0 .. Length(response), NEW u \in 0 .. Length(response),
         Taken(x, u), Place(x), reading \in Lines
  PROVE  \E n \in {2, 3} : Line(response, x, n) /\ u < x + n
<1> DEFINE r == response
<1>1. r \in Responses /\ x \in Nat /\ u \in Nat /\ Len(built) \in Nat
  BY Sizes, Lengths DEF StreamTypes
<1>2. r.fields \in Nat /\ (r.form = "chunked" => r.chunks \in Nat \ {0} /\ r.chunks \in 1 .. r.chunks)
  BY <1>1, ResponseType
<1>3. \E n \in {2, 3} : Line(r, x, n)
  <2>1. CASE reading = "head"
    <3>1. PICK j \in 0 .. r.fields : x = 3 * j
      BY <2>1 DEF Place
    <3>2. CASE j = r.fields
      BY <1>1, <3>1, <3>2, HeadLines
    <3>3. CASE j # r.fields
      <4>1. j \in 0 .. r.fields - 1
        BY <1>2, <3>3
      <4> QED
        BY <1>1, <3>1, <4>1, HeadLines
    <3> QED
      BY <3>2, <3>3
  <2>2. CASE reading = "size"
    <3>1. r.form = "chunked" /\ \E i \in 1 .. r.chunks : x = Before(r, i)
      BY <2>2 DEF Place
    <3> QED
      BY <1>1, <3>1, ChunkLines
  <2>3. CASE reading = "chunkEnd"
    <3>1. r.form = "chunked" /\ \E i \in 1 .. r.chunks : x = Before(r, i) + 3 + Size(r, i)
      BY <2>3 DEF Place
    <3> QED
      BY <1>1, <3>1, ChunkLines
  <2>4. CASE reading = "footers"
    <3>1. r.form = "chunked" /\ x = Before(r, r.chunks) + 3
      BY <2>4 DEF Place
    <3>2. Size(r, r.chunks) = 0 /\ Before(r, r.chunks) \in Nat
      BY <1>1, <1>2, <3>1, ChunksInOrder
    <3>3. Line(r, Before(r, r.chunks) + 3 + Size(r, r.chunks), 2)
      BY <1>1, <1>2, <3>1, ChunkLines
    <3>4. Before(r, r.chunks) + 3 + Size(r, r.chunks) = x
      BY <3>1, <3>2
    <3> QED
      BY <3>3, <3>4
  <2> QED
    BY <2>1, <2>2, <2>3, <2>4 DEF Lines
<1>4. PICK n \in {2, 3} : Line(r, x, n)
  BY <1>3
<1>5. Len(built) < n
  <2>1. Len(built) >= n => n \in 1 .. Len(built)
    BY <1>1
  <2>2. n \in 1 .. Len(built) => built[n] = Bytes(r)[x + n] /\ built[n] # LF
    BY DEF Taken
  <2> QED
    BY <1>1, <1>4, <2>1, <2>2 DEF Line
<1> QED
  BY <1>1, <1>4, <1>5 DEF Taken

\* What is waited for is part of the answer.
LEMMA Behind ==
  ASSUME StreamTypes, NEW x \in 0 .. Length(response), NEW u \in 0 .. Length(response),
         Taken(x, u), Place(x), reading \in Lines \cup Blocks
  PROVE  u < Length(response)
<1>1. /\ u \in Nat /\ x \in Nat /\ Length(response) \in Nat /\ Len(built) \in Nat /\ response \in Responses
      /\ reading \notin Lines => u = x
  <2>1. Len(<<>>) = 0
    OBVIOUS
  <2>2. reading \in Blocks => built = <<>>
    BY DEF Place, Lines, Blocks
  <2> QED
    BY <2>1, <2>2, Sizes DEF StreamTypes, Taken
<1>2. CASE reading \in Lines
  <2>1. PICK n \in {2, 3} : Line(response, x, n) /\ u < x + n
    BY <1>2, LineThere
  <2> QED
    BY <1>1, <2>1 DEF Line
<1>3. CASE reading = "length"
  BY <1>1, <1>3, Sizes DEF Place, Lines
<1>4. CASE reading = "chunk"
  <2>1. PICK i \in 1 .. response.chunks :
          want \in 1 .. Size(response, i) /\ x + want = Before(response, i) + 3 + Size(response, i)
    BY <1>4 DEF Place
  <2>2. response.form = "chunked"
    BY <1>4 DEF Place
  <2>3. /\ Before(response, i) \in Nat /\ Size(response, i) \in Nat
        /\ Before(response, i) + Size(response, i) + 5 <= Length(response)
    BY <1>1, <2>2, ChunksInOrder
  <2> QED
    BY <1>1, <1>4, <2>1, <2>3 DEF Lines
<1> QED
  BY <1>2, <1>3, <1>4 DEF Blocks

\* The bytes of an answer are a sequence.
LEMMA BytesType ==
  \A r \in Responses : Bytes(r) \in Seq(Byte(r)) /\ Len(Bytes(r)) = Length(r) /\ Length(r) \in Nat
<1> SUFFICES ASSUME NEW r \in Responses
             PROVE  BytesType!(r)
  OBVIOUS
<1>1. Length(r) \in Nat
  BY Lengths
<1>2. Bytes(r) = [k \in 1 .. Length(r) |-> Bytes(r)[k]]
  BY DEF Bytes
<1>3. \A k \in 1 .. Length(r) : Bytes(r)[k] \in Byte(r)
  BY DEF Byte
<1>4. Bytes(r) \in [1 .. Length(r) -> Byte(r)]
  BY <1>2, <1>3
<1> QED
  BY <1>1, <1>4

\* Nothing has been taken at first.
LEMMA InvInit == StreamInit => StreamInv
<1> SUFFICES ASSUME StreamInit, reading # "unused"
             PROVE  StreamTypes /\ Taken(0, 0) /\ Place(0) /\ 0 \in 0 .. Length(response)
  BY DEF StreamInv
<1> DEFINE b == Bytes(response)
<1>1. response \in Responses /\ recvBuffer = <<>> /\ built = <<>> /\ want = 0 /\ body = <<>> /\ reading = "head"
  BY DEF StreamInit
<1>2. b \in Seq(Byte(response)) /\ Len(b) = Length(response) /\ Length(response) \in Nat
  BY <1>1, BytesType
<1>3. PICK n \in 0 .. Len(b) : unread = SubSeq(b, 1, n) /\ sent = (n = Len(b))
  BY DEF StreamInit
<1>4. unread \in Seq(Byte(response)) /\ Len(unread) = n /\ \A k \in 1 .. n : unread[k] = b[k]
  BY <1>2, <1>3, Cut
<1>5. StreamTypes
  <2>1. sent \in BOOLEAN /\ hangsUp \in BOOLEAN
    BY <1>3 DEF StreamInit
  <2> QED
    BY <1>1, <1>4, <2>1 DEF StreamTypes, Lines
<1> HIDE DEF b
<1>6. Taken(0, 0)
  <2>1. \A k \in 1 .. n : unread[k] = b[0 + 0 + k]
    BY <1>4
  <2>2. Len(<<>>) = 0
    OBVIOUS
  <2>3. 0 + Len(built) = 0 /\ Len(recvBuffer) = 0
    BY <1>1, <2>2
  <2>4. 0 + 0 + Len(unread) <= Length(response) /\ (sent <=> 0 + 0 + Len(unread) = Length(response))
    <3>1. sent <=> n = Len(b)
      BY <1>3
    <3>2. 0 + 0 + Len(unread) = n /\ n <= Length(response)
      BY <1>2, <1>4
    <3> QED
      BY <1>2, <3>1, <3>2
  <2> QED
    BY <1>4, <2>1, <2>3, <2>4 DEF Taken, b
<1>7. Place(0)
  <2>1. Len(response.body) \in Nat /\ response.fields \in Nat
    BY <1>1, ResponseType
  <2>2. BodyRead(0)
    BY <1>1, <2>1, SubSeqEmpty DEF BodyRead
  <2>3. 0 = 3 * 0 /\ 0 \in 0 .. response.fields
    BY <2>1
  <2> QED
    BY <1>1, <2>2, <2>3 DEF Place, Lines
<1> QED
  BY <1>2, <1>5, <1>6, <1>7

\* What is taken from the buffer is behind the reader.
LEMMA TakenOn ==
  ASSUME StreamTypes, NEW x \in 0 .. Length(response), NEW u \in 0 .. Length(response),
         Taken(x, u), NEW n \in 0 .. Len(recvBuffer),
         recvBuffer' = SubSeq(recvBuffer, n + 1, Len(recvBuffer)), built' = <<>>,
         UNCHANGED <<response, sent, unread>>, NEW v, v = u + n
  PROVE  Taken(v, v)' /\ v \in 0 .. Length(response) /\ recvBuffer' \in Seq(Byte(response))
<1> DEFINE b == Bytes(response)
           R == Len(recvBuffer)
<1>1. u \in Nat /\ R \in Nat /\ Len(unread) \in Nat /\ Length(response) \in Nat
  BY Sizes
<1>2. /\ recvBuffer' \in Seq(Byte(response)) /\ Len(recvBuffer') = R - n
      /\ \A k \in 1 .. R - n : recvBuffer'[k] = recvBuffer[n + k]
  BY Cut DEF StreamTypes
<1>3. /\ \A k \in 1 .. R : recvBuffer[k] = b[u + k]
      /\ \A k \in 1 .. Len(unread) : unread[k] = b[u + R + k]
      /\ u + R + Len(unread) <= Length(response) /\ (sent <=> u + R + Len(unread) = Length(response))
  BY DEF Taken
<1>4. \A k \in 1 .. R - n : recvBuffer'[k] = b[u + n + k]
  <2> SUFFICES ASSUME NEW k \in 1 .. R - n
               PROVE  recvBuffer'[k] = b[u + n + k]
    OBVIOUS
  <2>1. n + k \in 1 .. R /\ u + (n + k) = u + n + k
    BY <1>1
  <2> QED
    BY <1>2, <1>3, <2>1
<1>5. u + n + (R - n) = u + R
  BY <1>1
<1> HIDE DEF b, R
<1>6. Len(built') = 0 /\ u + n \in Nat /\ 0 <= u + n
  BY <1>1
<1>7. Taken(v, v)'
  <2>1. Bytes(response') = b /\ Length(response') = Length(response) /\ unread' = unread /\ sent' = sent
    BY DEF b
  <2>2. v + Len(recvBuffer') = u + R
    BY <1>2, <1>5
  <2>3. \A k \in 1 .. Len(recvBuffer') : recvBuffer'[k] = b[v + k]
    BY <1>2, <1>4
  <2>4. v + Len(built') = v /\ Len(built') = 0
    BY <1>6
  <2>5. \A k \in 1 .. Len(unread') : unread'[k] = b[v + Len(recvBuffer') + k]
    BY <1>3, <2>1, <2>2
  <2>6. /\ v + Len(recvBuffer') + Len(unread') <= Length(response')
        /\ sent' <=> v + Len(recvBuffer') + Len(unread') = Length(response')
    <3>1. v + Len(recvBuffer') + Len(unread') = u + R + Len(unread)
      BY <2>1, <2>2
    <3> DEFINE p == v + Len(recvBuffer') + Len(unread')
               q == u + R + Len(unread)
    <3>2. q <= Length(response) /\ (sent <=> q = Length(response))
      BY <1>3
    <3>3. p = q
      BY <3>1
    <3> HIDE DEF p, q
    <3>4. p <= Length(response') /\ (sent' <=> p = Length(response'))
      BY <2>1, <3>2, <3>3
    <3> QED
      BY <3>4 DEF p
  <2>7. \A k \in 1 .. Len(built') : built'[k] = b[v + k] /\ built'[k] # LF
    BY <1>6
  <2>8. /\ \A k \in 1 .. Len(built') : built'[k] = Bytes(response')[v + k] /\ built'[k] # LF
        /\ \A k \in 1 .. Len(recvBuffer') : recvBuffer'[k] = Bytes(response')[v + k]
        /\ \A k \in 1 .. Len(unread') : unread'[k] = Bytes(response')[v + Len(recvBuffer') + k]
    BY <2>1, <2>3, <2>5, <2>7
  <2> QED
    BY <2>4, <2>6, <2>8, Zenon DEF Taken
<1> QED
  BY <1>1, <1>2, <1>3, <1>7 DEF R

\* The first line in the buffer ends at i.
FirstLine(i, line) ==
    /\ i \in DOMAIN recvBuffer /\ recvBuffer[i] = LF /\ \A j \in 1 .. i - 1 : recvBuffer[j] # LF
    /\ line = built \o SubSeq(recvBuffer, 1, i)

\* The line that is taken is the one that is waited for.
LEMMA LineTaken ==
  ASSUME StreamTypes, NEW x \in 0 .. Length(response), NEW u \in 0 .. Length(response), Taken(x, u),
         NEW i, NEW line \in Seq(Byte(response)), FirstLine(i, line)
  PROVE  /\ Len(line) \in Nat \ {0} /\ u + i = x + Len(line)
         /\ Line(response, x, Len(line))
         /\ \A k \in 1 .. Len(line) : line[k] = Bytes(response)[x + k]
<1> DEFINE b == Bytes(response)
           B == Len(built)
           t == SubSeq(recvBuffer, 1, i)
<1>1. x \in Nat /\ u \in Nat /\ B \in Nat /\ Len(recvBuffer) \in Nat /\ Len(unread) \in Nat /\ Length(response) \in Nat
  BY Sizes
<1>2. i \in 1 .. Len(recvBuffer)
  BY LenProperties DEF StreamTypes, FirstLine
<1>3. t \in Seq(Byte(response)) /\ Len(t) = i /\ \A k \in 1 .. i : t[k] = recvBuffer[k]
  BY <1>1, <1>2, Cut DEF StreamTypes
<1>4. /\ x + B = u /\ \A k \in 1 .. B : built[k] = b[x + k] /\ built[k] # LF
      /\ \A k \in 1 .. Len(recvBuffer) : recvBuffer[k] = b[u + k]
      /\ u + Len(recvBuffer) + Len(unread) <= Length(response)
  BY DEF Taken
<1>b. recvBuffer[i] = LF /\ \A j \in 1 .. i - 1 : recvBuffer[j] # LF
  BY DEF FirstLine
<1>a. x + B = u
  BY <1>4
<1>5. built \in Seq(Byte(response))
  BY DEF StreamTypes
<1> HIDE DEF b, t
<1>6. /\ line \in Seq(Byte(response)) /\ Len(line) = B + i
      /\ \A k \in 1 .. B + i : line[k] = IF k <= B THEN built[k] ELSE t[k - B]
  <2>1. line = built \o t
    BY DEF t, FirstLine
  <2>2. /\ built \o t \in Seq(Byte(response)) /\ Len(built \o t) = Len(built) + Len(t)
        /\ \A k \in 1 .. Len(built) + Len(t) :
             (built \o t)[k] = IF k <= Len(built) THEN built[k] ELSE t[k - Len(built)]
    BY <1>3, <1>5, ConcatProperties
  <2>3. Len(t) = i
    BY <1>3
  <2> QED
    BY <2>1, <2>2, <2>3
<1> HIDE DEF B
<1>7. ASSUME NEW k \in 1 .. B + i
      PROVE  line[k] = b[x + k] /\ (k < B + i => line[k] # LF) /\ (k = B + i => line[k] = LF)
  <2>1. CASE k <= B
    <3>1. k \in 1 .. B /\ k # B + i
      BY <1>1, <1>2, <2>1
    <3> QED
      BY <1>4, <1>6, <2>1, <3>1
  <2>2. CASE ~(k <= B)
    <3>1. k - B \in 1 .. i /\ k - B \in 1 .. Len(recvBuffer) /\ u + (k - B) = x + k
      BY <1>1, <1>2, <1>a, <2>2
    <3>2. line[k] = recvBuffer[k - B]
      BY <1>3, <1>6, <2>2, <3>1
    <3>3. k < B + i => k - B \in 1 .. i - 1
      BY <1>1, <1>2, <2>2
    <3>4. k = B + i => k - B = i
      BY <1>1, <1>2
    <3> QED
      BY <1>4, <1>b, <3>1, <3>2, <3>3, <3>4
  <2> QED
    BY <2>1, <2>2
<1>8. Line(response, x, B + i)
  <2> DEFINE n == B + i
  <2>1. x + n <= Length(response)
    BY <1>1, <1>2, <1>4
  <2>2. n \in 1 .. n
    BY <1>1, <1>2
  <2>3. \A k \in 1 .. n - 1 : k \in 1 .. n /\ k < n
    BY <1>1, <1>2
  <2>4. b[x + n] = LF
    BY <1>7, <2>2
  <2>5. \A k \in 1 .. n - 1 : b[x + k] # LF
    BY <1>7, <2>3
  <2> HIDE DEF n
  <2>6. Line(response, x, n)
    BY <2>1, <2>4, <2>5 DEF Line, b
  <2> QED
    BY <2>6 DEF n
<1>9. Len(line) = B + i /\ B + i \in Nat \ {0} /\ u + i = x + (B + i)
  <2>1. B + i \in Nat \ {0} /\ u + i = x + (B + i)
    <3>1. i \in Nat /\ i >= 1
      BY <1>1, <1>2
    <3>2. u + i = x + (B + i)
      <4>1. \A p, q, k \in Nat : (p + q) + k = p + (q + k)
        OBVIOUS
      <4>2. u + i = (x + B) + i
        BY <1>a
      <4> QED
        BY <1>1, <3>1, <4>1, <4>2
    <3>3. B + i \in Nat \ {0}
      BY <1>1, <3>1
    <3> QED
      BY <3>2, <3>3
  <2> QED
    BY <1>6, <2>1
<1>10. \A k \in 1 .. Len(line) : line[k] = b[x + k]
  BY <1>7, <1>9
<1>11. Line(response, x, Len(line))
  BY <1>8, <1>9
<1> QED
  BY <1>6, <1>9, <1>10, <1>11 DEF B, b

-----------------------------------------------------------------------------
(* The steps.                                                              *)

\* What every step of the reader keeps and needs.
LEMMA Shape ==
  ASSUME ReadStep
  PROVE  /\ response' = response /\ sent' = sent /\ hangsUp' = hangsUp
         /\ reading \in Lines \cup Blocks \cup {"contents"}
BY DEF ReadStep, Receive, MeetEnd, KeepPart, TakeLine, TakeBlock, TakeContents

\* Receive: a block is in the buffer instead of on its way.
LEMMA ReceiveStep ==
  ASSUME StreamTypes, NEW x \in 0 .. Length(response), NEW u \in 0 .. Length(response),
         Taken(x, u), Place(x), Receive
  PROVE  StreamTypes' /\ Taken(x, u)' /\ Place(x)'
<1> DEFINE b == Bytes(response)
           U == Len(unread)
<1>1. PICK n \in 1 .. U : recvBuffer' = SubSeq(unread, 1, n) /\ unread' = SubSeq(unread, n + 1, U)
  BY DEF Receive
<1>2. /\ recvBuffer = <<>> /\ response' = response /\ sent' = sent /\ hangsUp' = hangsUp
      /\ reading' = reading /\ built' = built /\ want' = want /\ body' = body /\ reading \in Lines \cup Blocks
  BY DEF Receive
<1>3. u \in Nat /\ U \in Nat /\ Len(recvBuffer) = 0 /\ Length(response) \in Nat
  BY <1>2, Sizes
<1>4. /\ recvBuffer' \in Seq(Byte(response)) /\ Len(recvBuffer') = n /\ \A k \in 1 .. n : recvBuffer'[k] = unread[k]
      /\ unread' \in Seq(Byte(response)) /\ Len(unread') = U - n /\ \A k \in 1 .. U - n : unread'[k] = unread[n + k]
  <2>1. n \in 0 .. U
    BY <1>3
  <2> QED
    BY <1>1, <2>1, Cut DEF StreamTypes
<1>5. StreamTypes'
  BY <1>2, <1>4 DEF StreamTypes
<1>6. Taken(x, u)'
  <2>1. \A k \in 1 .. U : unread[k] = b[u + k]
    <3>1. \A k \in 1 .. U : u + Len(recvBuffer) + k = u + k
      BY <1>3
    <3> QED
      BY <3>1 DEF Taken
  <2>2. u + U <= Length(response) /\ (sent <=> u + U = Length(response))
    <3>1. u + Len(recvBuffer) + U = u + U
      BY <1>3
    <3> QED
      BY <3>1 DEF Taken
  <2>3. \A k \in 1 .. n : recvBuffer'[k] = b[u + k]
    <3>1. \A k \in 1 .. n : k \in 1 .. U
      BY <1>3
    <3> QED
      BY <1>4, <2>1, <3>1
  <2>4. ASSUME NEW k \in 1 .. U - n
        PROVE  unread'[k] = b[u + n + k]
    <3>1. n + k \in 1 .. U /\ u + (n + k) = u + n + k
      BY <1>3
    <3> QED
      BY <1>4, <2>1, <3>1
  <2>5. u + n + (U - n) = u + U
    BY <1>3
  <2>6. /\ x + Len(built) = u
        /\ \A k \in 1 .. Len(built) : built[k] = b[x + k] /\ built[k] # LF
    BY DEF Taken
  <2>7. Bytes(response') = b /\ Length(response') = Length(response)
    BY <1>2
  <2> HIDE DEF b, U
  <2> QED
    BY <1>2, <1>4, <2>2, <2>3, <2>4, <2>5, <2>6, <2>7 DEF Taken
<1>7. Place(x)'
  BY <1>2 DEF Place, BodyRead, Lines, Blocks
<1> QED
  BY <1>5, <1>6, <1>7

\* MeetEnd: only an answer that was not sent whole can end here.
LEMMA MeetEndStep ==
  ASSUME StreamTypes, NEW x \in 0 .. Length(response), NEW u \in 0 .. Length(response),
         Taken(x, u), Place(x), MeetEnd
  PROVE  StreamTypes' /\ Taken(x, u)' /\ Place(x)'
<1>1. /\ recvBuffer = <<>> /\ unread = <<>> /\ reading \in Lines \cup Blocks
      /\ response' = response /\ sent' = sent /\ hangsUp' = hangsUp /\ unread' = unread
      /\ recvBuffer' = recvBuffer /\ built' = built /\ want' = want /\ body' = body
      /\ reading' = reading \/ reading' = "error"
  BY DEF MeetEnd
<1>2. StreamTypes' /\ Taken(x, u)'
  BY <1>1 DEF StreamTypes, Taken
<1>3. ~sent
  <2>1. u < Length(response) /\ u \in Nat /\ Length(response) \in Nat /\ Len(recvBuffer) = 0 /\ Len(unread) = 0
    BY <1>1, Behind, Sizes
  <2>2. sent <=> u + Len(recvBuffer) + Len(unread) = Length(response)
    BY DEF Taken
  <2> QED
    BY <2>1, <2>2
<1>4. CASE reading' = reading
  BY <1>1, <1>2, <1>4 DEF Place, BodyRead, Lines, Blocks
<1>5. CASE reading' = "error"
  BY <1>1, <1>2, <1>3, <1>5 DEF Place, Lines
<1> QED
  BY <1>1, <1>4, <1>5

\* KeepPart: the part of a line is behind the buffer's old part.
LEMMA KeepPartStep ==
  ASSUME StreamTypes, NEW x \in 0 .. Length(response), NEW u \in 0 .. Length(response),
         Taken(x, u), Place(x), KeepPart
  PROVE  StreamTypes' /\ \E v \in 0 .. Length(response) : Taken(x, v)' /\ Place(x)'
<1> DEFINE b == Bytes(response)
           B == Len(built)
           R == Len(recvBuffer)
<1>1. /\ reading \in Lines /\ \A i \in DOMAIN recvBuffer : recvBuffer[i] # LF
      /\ built' = built \o recvBuffer /\ recvBuffer' = <<>>
      /\ response' = response /\ sent' = sent /\ hangsUp' = hangsUp /\ unread' = unread
      /\ reading' = reading /\ want' = want /\ body' = body
  BY DEF KeepPart
<1>2. x \in Nat /\ u \in Nat /\ B \in Nat /\ R \in Nat /\ Len(unread) \in Nat /\ Length(response) \in Nat
  BY Sizes
<1>3. /\ recvBuffer \in Seq(Byte(response)) /\ built \in Seq(Byte(response)) /\ DOMAIN recvBuffer = 1 .. R
  BY LenProperties DEF StreamTypes
<1>4. /\ built' \in Seq(Byte(response)) /\ Len(built') = B + R
      /\ \A k \in 1 .. B + R : built'[k] = IF k <= B THEN built[k] ELSE recvBuffer[k - B]
  BY <1>1, <1>3, ConcatProperties
<1>5. /\ x + B = u /\ \A k \in 1 .. B : built[k] = b[x + k] /\ built[k] # LF
      /\ \A k \in 1 .. R : recvBuffer[k] = b[u + k]
      /\ \A k \in 1 .. Len(unread) : unread[k] = b[u + R + k]
      /\ u + R + Len(unread) <= Length(response) /\ (sent <=> u + R + Len(unread) = Length(response))
  BY DEF Taken
<1>a. x + B = u /\ u + R + Len(unread) <= Length(response)
  BY <1>5
<1>b. u + R \in 0 .. Length(response)
  BY <1>2, <1>a
<1>c. PICK v \in 0 .. Length(response) : v = u + R
  BY <1>b
<1>6. x + (B + R) = v /\ v \in Nat
  BY <1>2, <1>a, <1>c
<1>7. StreamTypes'
  <2>1. <<>> \in Seq(Byte(response))
    OBVIOUS
  <2> QED
    BY <1>1, <1>4, <2>1 DEF StreamTypes
<1>8. \A k \in 1 .. B + R : built'[k] = b[x + k] /\ built'[k] # LF
  <2> SUFFICES ASSUME NEW k \in 1 .. B + R
               PROVE  built'[k] = b[x + k] /\ built'[k] # LF
    OBVIOUS
  <2>1. CASE k <= B
    <3>1. k \in 1 .. B
      BY <1>2, <2>1
    <3> QED
      BY <1>4, <1>5, <2>1, <3>1
  <2>2. CASE ~(k <= B)
    <3>1. k - B \in 1 .. R /\ u + (k - B) = x + k
      BY <1>2, <1>a, <2>2
    <3>2. built'[k] = recvBuffer[k - B] /\ recvBuffer[k - B] # LF
      BY <1>1, <1>3, <1>4, <2>2, <3>1
    <3> QED
      BY <1>5, <3>1, <3>2
  <2> QED
    BY <2>1, <2>2
<1>9. Bytes(response') = b /\ Length(response') = Length(response) /\ Len(recvBuffer') = 0
  BY <1>1
<1>10. x + Len(built') = v /\ v + Len(recvBuffer') = u + R
  BY <1>c, <1>4, <1>6, <1>9
<1> HIDE DEF b, B, R
<1>11. Taken(x, v)'
  <2>1. \A k \in 1 .. Len(built') : built'[k] = b[x + k] /\ built'[k] # LF
    BY <1>4, <1>8
  <2>2. \A k \in 1 .. Len(recvBuffer') : recvBuffer'[k] = b[v + k]
    BY <1>9
  <2>3. \A k \in 1 .. Len(unread') : unread'[k] = b[v + Len(recvBuffer') + k]
    BY <1>1, <1>5, <1>10
  <2>4. /\ v + Len(recvBuffer') + Len(unread') <= Length(response')
        /\ sent' <=> v + Len(recvBuffer') + Len(unread') = Length(response')
    BY <1>1, <1>5, <1>9, <1>10
  <2> QED
    BY <1>9, <1>10, <2>1, <2>2, <2>3, <2>4 DEF Taken
<1>12. Place(x)'
  BY <1>1 DEF Place, BodyRead, Lines
<1> QED
  BY <1>7, <1>11, <1>12

\* TakeLine in a head: every line but the empty one leaves the reader in it.
LEMMA HeadStep ==
  ASSUME StreamTypes, NEW x \in 0 .. Length(response), Place(x), reading = "head",
         NEW line \in Seq(Byte(response)), Line(response, x, Len(line)), Len(line) \in Nat \ {0},
         \A k \in 1 .. Len(line) : line[k] = Bytes(response)[x + k],
         AfterLine(line),
         built' = <<>>, UNCHANGED <<response, sent, body>>,
         recvBuffer' \in Seq(Byte(response)), unread' \in Seq(Byte(response)),
         NEW v, v = x + Len(line), Taken(v, v)'
  PROVE  Place(v)' /\ want' \in Nat /\ reading' \in Lines \cup Blocks \cup {"contents", "done", "error"}
<1> DEFINE r == response
<1>1. /\ r \in Responses /\ r.fields \in Nat /\ r.body \in Seq(BodyBytes) /\ Len(r.body) \in Nat /\ x \in Nat
      /\ HeadLen(r) = 3 * r.fields + 2 /\ HeadLen(r) \in Nat
  BY ResponseType, Lengths DEF StreamTypes
<1>2. PICK j \in 0 .. r.fields : x = 3 * j
  BY DEF Place
<1>3. want = 0 /\ BodyRead(0)
  BY DEF Place
<1>a. (line = CRLF => AfterHead) /\ (line # CRLF => UNCHANGED <<reading, want>>)
  BY DEF AfterLine
<1>4. CASE j # r.fields
  <2>1. j \in 0 .. r.fields - 1
    BY <1>1, <1>4
  <2>2. Line(r, x, 3)
    BY <1>1, <1>2, <2>1, HeadLines
  <2>3. Len(line) = 3
    <3>1. 3 \in Nat \ {0}
      OBVIOUS
    <3> HIDE DEF r
    <3> QED
      BY <2>2, <3>1, OneLine DEF r
  <2>4. line[1] = Field
    BY <1>1, <1>2, <2>1, <2>3, HeadBytes
  <2>5. line # CRLF
    BY <2>4, ByteAssumption DEF CRLF
  <2>6. v = 3 * (j + 1) /\ j + 1 \in 0 .. r.fields
    BY <1>1, <1>2, <2>1, <2>3
  <2>7. reading' = "head" /\ want' = 0 /\ BodyRead(0)'
    BY <1>a, <1>3, <2>5 DEF BodyRead
  <2> QED
    BY <2>6, <2>7 DEF Place, Lines
<1>5. CASE j = r.fields
  <2>1. Line(r, x, 2)
    BY <1>1, <1>2, <1>5, HeadLines
  <2>2. Len(line) = 2
    <3>1. 2 \in Nat \ {0}
      OBVIOUS
    <3> QED
      BY <2>1, <3>1, OneLine
  <2>3. line[1] = CR /\ line[2] = LF
    <3>1. x = 3 * r.fields /\ x \in Nat
      BY <1>1, <1>2, <1>5
    <3>2. line[1] = Bytes(r)[x + 1] /\ line[2] = Bytes(r)[x + 2]
      <4>1. 1 \in 1 .. Len(line) /\ 2 \in 1 .. Len(line)
        BY <2>2
      <4> QED
        BY <4>1
    <3>3. Bytes(r)[3 * r.fields + 1] = CR /\ Bytes(r)[3 * r.fields + 2] = LF
      BY <1>1, HeadBytes
    <3> QED
      BY <3>1, <3>2, <3>3
  <2>4. line = CRLF
    <3>1. line = <<line[1], line[2]>>
      BY <2>2
    <3> QED
      BY <2>3, <3>1 DEF CRLF
  <2>5. AfterHead /\ v = HeadLen(r) /\ response' = r /\ sent' = sent
    BY <1>1, <1>a, <1>2, <1>5, <2>2, <2>4
  <2>6. body' = <<>> /\ BodyRead(0)' /\ Len(body') = 0
    <3>1. Len(<<>>) = 0
      OBVIOUS
    <3> QED
      BY <1>1, <1>3, <3>1, SubSeqEmpty DEF BodyRead
  <2>7. v = Length(r) => recvBuffer' = <<>> /\ unread' = <<>>
    <3>1. v + Len(recvBuffer') + Len(unread') <= Length(response')
      BY DEF Taken
    <3>2. recvBuffer' \in Seq(Byte(response)) /\ unread' \in Seq(Byte(response))
      OBVIOUS
    <3>3. Len(recvBuffer') \in Nat /\ Len(unread') \in Nat /\ v \in Nat
      BY <1>1, <2>5, <3>2, LenProperties
    <3>4. v = Length(r) => Len(recvBuffer') = 0 /\ Len(unread') = 0
      BY <2>5, <3>1, <3>3
    <3> QED
      BY <3>2, <3>4, EmptySeq
  <2>8. CASE r.form = "none"
    <3>1. reading' = "done" /\ want' = 0
      BY <2>5, <2>8 DEF AfterHead
    <3>2. r.body = <<>> /\ v = Length(r) /\ Len(r.body) = 0
      <4>1. r.body = <<>> /\ Length(r) = HeadLen(r) + Len(r.body)
        BY <1>1, <2>8, ResponseType, Lengths
      <4>2. Len(r.body) = 0
        BY <4>1
      <4> QED
        BY <1>1, <2>5, <4>1, <4>2
    <3> QED
      BY <2>5, <2>6, <2>7, <3>1, <3>2 DEF Place, Lines
  <2>9. CASE r.form = "length"
    <3>1. Length(r) = v + Len(r.body)
      BY <1>1, <2>5, <2>9, Lengths
    <3>2. CASE Len(r.body) = 0
      <4>1. reading' = "done" /\ want' = 0
        BY <2>5, <2>9, <3>2 DEF AfterHead
      <4>2. v = Length(r)
        BY <1>1, <2>5, <3>1, <3>2
      <4> QED
        BY <2>5, <2>6, <2>7, <3>2, <4>1, <4>2 DEF Place, Lines
    <3>3. CASE Len(r.body) # 0
      <4>1. reading' = "length" /\ want' = Len(r.body)
        BY <2>5, <2>9, <3>3 DEF AfterHead
      <4>2. Len(r.body) \in 1 .. Len(r.body) /\ Len(r.body) - Len(r.body) = 0
        BY <1>1, <3>3
      <4> QED
        BY <1>1, <2>5, <2>6, <2>9, <3>1, <4>1, <4>2 DEF Place, Lines, Blocks
    <3> QED
      BY <3>2, <3>3
  <2>10. CASE r.form = "chunked"
    <3>1. reading' = "size" /\ want' = 0
      BY <2>5, <2>10 DEF AfterHead
    <3>2. r.chunks \in Nat \ {0} /\ r.ends[0] = 0
      BY <1>1, <2>10, ResponseType
    <3>3. 1 \in 1 .. r.chunks /\ v = Before(r, 1) /\ r.ends[1 - 1] = 0
      <4>1. 1 \in 1 .. r.chunks /\ r.ends[1 - 1] = 0
        BY <3>2
      <4>2. Before(r, 1) = HeadLen(r) + 0 + 5 * (1 - 1)
        BY <4>1 DEF Before
      <4> QED
        BY <1>1, <2>5, <4>1, <4>2
    <3> QED
      BY <2>5, <2>6, <2>10, <3>1, <3>3 DEF Place, Lines
  <2>11. CASE r.form = "close"
    <3>1. reading' = "contents" /\ want' = 0
      BY <2>5, <2>11 DEF AfterHead
    <3>2. v = HeadLen(r) + Len(body')
      BY <1>1, <2>5, <2>6
    <3> QED
      BY <2>5, <2>6, <2>11, <3>1, <3>2 DEF Place, Lines
  <2>12. CASE r.form = "unknown"
    <3>1. reading' = "error" /\ want' = 0
      BY <2>5, <2>12 DEF AfterHead
    <3> QED
      BY <2>5, <2>12, <3>1 DEF Place, Lines
  <2> QED
    BY <1>1, <2>8, <2>9, <2>10, <2>11, <2>12, ResponseType
<1> QED
  BY <1>1, <1>2, <1>4, <1>5

\* TakeLine at a chunk's size, behind a chunk and behind the last one.
LEMMA ChunkLineStep ==
  ASSUME StreamTypes, NEW x \in 0 .. Length(response), Place(x),
         reading \in {"size", "chunkEnd", "footers"},
         NEW line \in Seq(Byte(response)), Line(response, x, Len(line)), Len(line) \in Nat \ {0},
         \A k \in 1 .. Len(line) : line[k] = Bytes(response)[x + k],
         AfterLine(line),
         built' = <<>>, UNCHANGED <<response, sent, body>>,
         recvBuffer' \in Seq(Byte(response)), unread' \in Seq(Byte(response)),
         NEW v, v = x + Len(line), Taken(v, v)'
  PROVE  Place(v)' /\ want' \in Nat /\ reading' \in Lines \cup Blocks \cup {"contents", "done", "error"}
<1> DEFINE r == response
<1>1. r \in Responses /\ r.form = "chunked" /\ x \in Nat /\ response' = r /\ body' = body
  BY Sizes DEF StreamTypes, Place
<1>2. r.chunks \in Nat \ {0} /\ r.ends[r.chunks] = Len(r.body) /\ r.ends[r.chunks - 1] = Len(r.body)
  BY <1>1, ResponseType
<1>3. \A n \in Nat \ {0} : Line(r, x, n) => Len(line) = n
  BY OneLine
<1>4. 2 \in Nat \ {0} /\ 3 \in Nat \ {0}
  OBVIOUS
<1>5. CASE reading = "size"
  <2>1. PICK i \in 1 .. r.chunks : x = Before(r, i) /\ BodyRead(r.ends[i - 1])
    BY <1>5 DEF Place
  <2>2. /\ Before(r, i) \in Nat /\ Size(r, i) \in 0 .. Len(r.body) /\ (Size(r, i) = 0 <=> i = r.chunks)
        /\ r.ends[i] \in 0 .. Len(r.body) /\ r.ends[i - 1] \in 0 .. Len(r.body) /\ Len(r.body) \in Nat
    BY <1>1, ChunksInOrder, ResponseType
  <2>3. Len(line) = 3 /\ Bytes(r)[x + 1] = Size(r, i)
    <3>1. Line(r, x, 3) /\ Bytes(r)[x + 1] = Size(r, i)
      BY <1>1, <2>1, ChunkLines
    <3> QED
      BY <1>3, <1>4, <3>1
  <2>4. line[1] = Size(r, i) /\ Size(r, i) \in Nat
    BY <2>2, <2>3
  <2>5. want' = Size(r, i)
    BY <1>5, <2>4 DEF SizeIn, AfterLine
  <2>6. v = Before(r, i) + 3
    BY <2>1, <2>3
  <2>7. CASE Size(r, i) > 0
    <3>1. reading' = "chunk"
      BY <1>5, <2>5, <2>7 DEF AfterLine
    <3>2. PICK w \in Nat : w = want' /\ w = Size(r, i)
      BY <2>4, <2>5
    <3>3. w \in 1 .. Size(r, i) /\ v + w = Before(r, i) + 3 + Size(r, i)
      BY <2>2, <2>6, <2>7, <3>2
    <3>4. r.ends[i] - w = r.ends[i - 1]
      <4>1. PICK e \in Nat, d \in Nat : e = r.ends[i] /\ d = r.ends[i - 1]
        BY <2>2
      <4>2. w = e - d
        BY <3>2, <4>1 DEF Size
      <4>3. e - w = d
        BY <4>2
      <4> QED
        BY <4>1, <4>3
    <3>5. r.ends[i] - w \in 0 .. Len(r.body) /\ body = SubSeq(r.body, 1, r.ends[i] - w)
      BY <2>1, <3>4 DEF BodyRead
    <3> QED
      BY <1>1, <3>1, <3>2, <3>3, <3>5 DEF Place, BodyRead, Lines, Blocks
  <2>8. CASE ~(Size(r, i) > 0)
    <3>1. Size(r, i) = 0 /\ i = r.chunks
      BY <2>2, <2>8
    <3>2. reading' = "footers"
      BY <1>5, <2>5, <3>1 DEF AfterLine
    <3>3. v = Before(r, r.chunks) + 3 /\ BodyRead(Len(r.body))'
      BY <1>1, <1>2, <2>1, <2>6, <3>1 DEF BodyRead
    <3> QED
      BY <1>1, <2>5, <2>4, <3>2, <3>3 DEF Place, Lines, Blocks
  <2> QED
    BY <2>7, <2>8
<1>6. CASE reading = "chunkEnd"
  <2>1. PICK i \in 1 .. r.chunks : Size(r, i) > 0 /\ x = Before(r, i) + 3 + Size(r, i) /\ BodyRead(r.ends[i])
    BY <1>6 DEF Place
  <2>2. /\ Before(r, i) \in Nat /\ Size(r, i) \in 0 .. Len(r.body) /\ (Size(r, i) = 0 <=> i = r.chunks)
        /\ i < r.chunks => Before(r, i + 1) = Before(r, i) + Size(r, i) + 5
    BY <1>1, ChunksInOrder
  <2>3. Len(line) = 2
    <3>1. Line(r, x, 2)
      BY <1>1, <2>1, ChunkLines
    <3> QED
      BY <1>3, <1>4, <3>1
  <2>5. Len(r.body) \in Nat
    BY <1>1, ResponseType
  <2>4. i < r.chunks /\ i + 1 \in 1 .. r.chunks /\ i + 1 - 1 = i
    <3>1. Size(r, i) # 0
      BY <2>1, <2>2, <2>5
    <3>2. i # r.chunks
      BY <2>2, <3>1
    <3> QED
      BY <1>2, <3>2
  <2>6. v = Before(r, i + 1)
    BY <2>1, <2>2, <2>3, <2>4, <2>5
  <2>7. BodyRead(r.ends[i + 1 - 1])'
    BY <1>1, <2>1, <2>4 DEF BodyRead
  <2>8. reading' = "size" /\ want' = want
    BY <1>6 DEF AfterLine
  <2> QED
    BY <1>1, <2>4, <2>6, <2>7, <2>8 DEF Place, Lines, Blocks, StreamTypes
<1>7. CASE reading = "footers"
  <2>1. x = Before(r, r.chunks) + 3 /\ BodyRead(Len(r.body))
    BY <1>7 DEF Place
  <2>2. r.chunks \in 1 .. r.chunks
    BY <1>2
  <2>3. Size(r, r.chunks) = 0 /\ Before(r, r.chunks) \in Nat
    BY <1>1, <2>2, ChunksInOrder
  <2>4. Before(r, r.chunks) + 3 + Size(r, r.chunks) = x
    BY <2>1, <2>3
  <2>5. Line(r, x, 2) /\ Bytes(r)[x + 1] = CR
    BY <1>1, <2>2, <2>4, ChunkLines
  <2>6. Len(line) = 2
    BY <1>3, <1>4, <2>5
  <2>7. line[1] = CR /\ line[2] = LF
    BY <2>5, <2>6 DEF Line
  <2>8. line = CRLF
    <3>1. line = <<line[1], line[2]>>
      BY <2>6
    <3> QED
      BY <2>7, <3>1 DEF CRLF
  <2>9. reading' = "done" /\ want' = want
    BY <1>7, <2>8 DEF AfterLine
  <2>10. v = Length(r) /\ v \in Nat
    BY <1>1, <2>1, <2>3, <2>6 DEF Length
  <2>11. recvBuffer' = <<>> /\ unread' = <<>>
    <3>1. v + Len(recvBuffer') + Len(unread') <= Length(response')
      BY DEF Taken
    <3>2. Len(recvBuffer') \in Nat /\ Len(unread') \in Nat
      BY LenProperties
    <3>3. Len(recvBuffer') = 0 /\ Len(unread') = 0
      BY <1>1, <2>10, <3>1, <3>2
    <3> QED
      BY <3>3, EmptySeq
  <2>12. BodyRead(Len(r.body))'
    BY <1>1, <2>1 DEF BodyRead
  <2> QED
    BY <1>1, <2>9, <2>11, <2>12 DEF Place, Lines, Blocks, StreamTypes
<1> QED
  BY <1>5, <1>6, <1>7

\* TakeLine.
LEMMA TakeLineStep ==
  ASSUME StreamTypes, NEW x \in 0 .. Length(response), NEW u \in 0 .. Length(response),
         Taken(x, u), Place(x), TakeLine
  PROVE  StreamTypes' /\ \E v \in 0 .. Length(response) : Taken(v, v)' /\ Place(v)'
<1>1. PICK i \in DOMAIN recvBuffer :
        /\ recvBuffer[i] = LF /\ \A j \in 1 .. i - 1 : recvBuffer[j] # LF
        /\ recvBuffer' = SubSeq(recvBuffer, i + 1, Len(recvBuffer))
        /\ AfterLine(built \o SubSeq(recvBuffer, 1, i))
  BY DEF TakeLine
<1>2. PICK line : line = built \o SubSeq(recvBuffer, 1, i)
  OBVIOUS
<1>3. /\ recvBuffer[i] = LF /\ \A j \in 1 .. i - 1 : recvBuffer[j] # LF
      /\ recvBuffer' = SubSeq(recvBuffer, i + 1, Len(recvBuffer)) /\ AfterLine(line)
  BY <1>1, <1>2
<1>4. built' = <<>> /\ UNCHANGED <<response, sent, hangsUp, unread, body, atEnd>> /\ reading \in Lines
  BY DEF TakeLine
<1>5. i \in 0 .. Len(recvBuffer)
  BY LenProperties DEF StreamTypes
<1>a. line \in Seq(Byte(response))
  BY <1>2, <1>5, Cut, ConcatProperties DEF StreamTypes
<1>6. /\ line \in Seq(Byte(response)) /\ Len(line) \in Nat \ {0} /\ u + i = x + Len(line)
      /\ Line(response, x, Len(line))
      /\ \A k \in 1 .. Len(line) : line[k] = Bytes(response)[x + k]
  <2>1. FirstLine(i, line)
    BY <1>2, <1>3 DEF FirstLine
  <2> QED
    BY <1>a, <2>1, LineTaken
<1>7. PICK v : v = u + i
  OBVIOUS
<1>8. Taken(v, v)' /\ v \in 0 .. Length(response) /\ recvBuffer' \in Seq(Byte(response))
  BY <1>3, <1>4, <1>5, <1>7, TakenOn
<1>9. v = x + Len(line) /\ unread' \in Seq(Byte(response))
  BY <1>4, <1>6, <1>7 DEF StreamTypes
<1>10. Place(v)' /\ want' \in Nat /\ reading' \in Lines \cup Blocks \cup {"contents", "done", "error"}
  <2>1. CASE reading = "head"
    BY <1>3, <1>4, <1>6, <1>8, <1>9, <2>1, HeadStep
  <2>2. CASE reading \in {"size", "chunkEnd", "footers"}
    BY <1>3, <1>4, <1>6, <1>8, <1>9, <2>2, ChunkLineStep
  <2> QED
    BY <1>4, <2>1, <2>2 DEF Lines
<1>11. StreamTypes'
  <2>1. <<>> \in Seq(Byte(response))
    OBVIOUS
  <2> QED
    BY <1>4, <1>8, <1>10, <2>1 DEF StreamTypes
<1> QED
  BY <1>8, <1>10, <1>11

\* n bytes come next in the body.
BodyNext(t, m, n) ==
    n <= Len(t) /\ m + n <= Len(response.body) /\ \A k \in 1 .. n : t[k] = response.body[m + k]

\* What is read of a body are the bytes of the answer where the reader stands.
LEMMA BodyOn ==
  ASSUME StreamTypes, NEW m \in Nat, NEW n \in Nat, NEW t \in Seq(Byte(response)), BodyRead(m),
         BodyNext(t, m, n)
  PROVE  /\ body \o SubSeq(t, 1, n) = SubSeq(response.body, 1, m + n)
         /\ SubSeq(response.body, 1, m + n) \in Seq(Byte(response)) /\ Len(SubSeq(response.body, 1, m + n)) = m + n
<1> DEFINE b == response.body
<1>1. b \in Seq(Byte(response)) /\ Len(b) \in Nat
  BY Sizes
<1>2. body = SubSeq(b, 1, m)
  BY DEF BodyRead
<1>3. n <= Len(t) /\ m + n <= Len(b) /\ \A k \in 1 .. n : t[k] = b[m + k]
  BY DEF BodyNext
<1>4. SubSeq(b, 1, m) \o SubSeq(t, 1, n) = SubSeq(b, 1, m + n)
  BY <1>1, <1>3, ReadOn
<1>5. m + n \in 0 .. Len(b)
  BY <1>1, <1>3
<1> QED
  BY <1>1, <1>2, <1>4, <1>5, Cut

\* The end of an answer: nothing is left.
LEMMA NothingLeft ==
  ASSUME NEW v \in Nat, Taken(v, v)', v = Length(response), response' = response,
         recvBuffer' \in Seq(Byte(response)), unread' \in Seq(Byte(response))
  PROVE  recvBuffer' = <<>> /\ unread' = <<>>
<1>1. v + Len(recvBuffer') + Len(unread') <= Length(response')
  BY DEF Taken
<1>2. Len(recvBuffer') \in Nat /\ Len(unread') \in Nat
  BY LenProperties
<1>3. Len(recvBuffer') = 0 /\ Len(unread') = 0
  BY <1>1, <1>2
<1> QED
  BY <1>3, EmptySeq

\* TakeBlock: a body with a length, and a chunk.
LEMMA TakeBlockStep ==
  ASSUME StreamTypes, NEW x \in 0 .. Length(response), NEW u \in 0 .. Length(response),
         Taken(x, u), Place(x), TakeBlock
  PROVE  StreamTypes' /\ \E v \in 0 .. Length(response) : Taken(v, v)' /\ Place(v)'
<1> DEFINE r == response
           R == Len(recvBuffer)
           N == IF want < R THEN want ELSE R
<1>1. /\ reading \in Blocks /\ recvBuffer # <<>>
      /\ body' = body \o SubSeq(recvBuffer, 1, N) /\ recvBuffer' = SubSeq(recvBuffer, N + 1, R)
      /\ want' = want - N
      /\ reading' = IF want' > 0 THEN reading ELSE IF reading = "chunk" THEN "chunkEnd" ELSE "done"
      /\ response' = response /\ sent' = sent /\ hangsUp' = hangsUp /\ unread' = unread /\ built' = built
  BY DEF TakeBlock
<1>2. /\ r \in Responses /\ recvBuffer \in Seq(Byte(response)) /\ unread \in Seq(Byte(response))
      /\ R \in Nat \ {0} /\ want \in Nat \ {0} /\ Len(r.body) \in Nat /\ x \in Nat
      /\ Length(r) \in Nat /\ HeadLen(r) \in Nat
  <2>1. R \in Nat \ {0}
    BY <1>1, EmptySeq DEF StreamTypes
  <2>2. want # 0
    BY <1>1 DEF Place, Blocks
  <2> QED
    BY <2>1, <2>2, Sizes DEF StreamTypes
<1>3. built = <<>> /\ Len(built) = 0
  <2>1. built = <<>>
    BY <1>1 DEF Place, Blocks, Lines
  <2> QED
    BY <2>1
<1>4. x = u /\ \A k \in 1 .. R : recvBuffer[k] = Bytes(r)[x + k]
  <2>1. x + Len(built) = u /\ \A k \in 1 .. R : recvBuffer[k] = Bytes(r)[u + k]
    BY DEF Taken
  <2>2. x = u
    BY <1>2, <1>3, <2>1
  <2> QED
    BY <2>1, <2>2
<1>5. PICK n \in Nat \ {0} : n = N /\ n <= want /\ n <= R
  BY <1>2
<1>a. n \in Nat /\ n >= 1 /\ n <= want /\ want \in Nat /\ n <= R /\ R \in Nat /\ want' = want - n
  BY <1>1, <1>2, <1>5
<1> HIDE DEF N, R
<1>b. want - n \in Nat
  BY <1>a
<1>6. PICK w \in Nat : w = want - n /\ w = want'
  BY <1>a, <1>b
<1>7. PICK v \in Nat : v = u + n
  BY <1>2, <1>4, <1>5
<1>8. Taken(v, v)' /\ v \in 0 .. Length(response) /\ recvBuffer' \in Seq(Byte(response))
  <2>1. n \in 0 .. Len(recvBuffer) /\ recvBuffer' = SubSeq(recvBuffer, n + 1, Len(recvBuffer))
    BY <1>1, <1>a, <1>5 DEF R
  <2>2. built' = <<>> /\ UNCHANGED <<response, sent, unread>>
    BY <1>1, <1>3
  <2> QED
    BY <1>7, <2>1, <2>2, TakenOn
<1>9. body' = body \o SubSeq(recvBuffer, 1, n)
  BY <1>1, <1>5
<1>10. ASSUME reading = "length"
       PROVE  Place(v)' /\ body' \in Seq(Byte(response)) /\ reading' \in {"length", "done"}
  <2>1. r.form = "length" /\ want <= Len(r.body) /\ x + want = Length(r) /\ BodyRead(Len(r.body) - want)
    BY <1>10 DEF Place
  <2>2. Length(r) = HeadLen(r) + Len(r.body)
    BY <1>2, <2>1, Lengths
  <2>a. want \in Nat /\ Len(r.body) \in Nat /\ HeadLen(r) \in Nat
    BY <1>2
  <2>b. Len(r.body) - want \in Nat
    BY <2>a, <2>1
  <2>3. PICK m \in Nat : m = Len(r.body) - want
    BY <2>b
  <2>4. \A k \in 1 .. n : recvBuffer[k] = r.body[m + k]
    <3> SUFFICES ASSUME NEW k \in 1 .. n
                 PROVE  recvBuffer[k] = r.body[m + k]
      OBVIOUS
    <3>1. k \in 1 .. R /\ m + k \in 1 .. Len(r.body) /\ x + k = HeadLen(r) + (m + k)
      BY <1>a, <2>a, <2>1, <2>2, <2>3
    <3>2. Bytes(r)[HeadLen(r) + (m + k)] = r.body[m + k]
      BY <1>2, <2>1, <3>1, PlainBytes
    <3> QED
      BY <1>4, <3>1, <3>2
  <2>c. m + n \in Nat
    BY <1>a
  <2>5. PICK y \in Nat : y = m + n
    BY <2>c
  <2>6. m + n <= Len(r.body) /\ y = Len(r.body) - w /\ v + w = Length(r)
    BY <1>a, <1>4, <1>6, <1>7, <2>a, <2>1, <2>3, <2>5
  <2>7. body' = SubSeq(r.body, 1, y) /\ body' \in Seq(Byte(response)) /\ y \in 0 .. Len(r.body)
    <3>1. BodyRead(m) /\ BodyNext(recvBuffer, m, n)
      BY <1>a, <2>1, <2>3, <2>4, <2>6 DEF BodyNext, R
    <3>2. body \o SubSeq(recvBuffer, 1, n) = SubSeq(r.body, 1, m + n) /\ SubSeq(r.body, 1, m + n) \in Seq(Byte(response))
      BY <1>2, <1>a, <3>1, BodyOn
    <3>3. y \in 0 .. Len(r.body)
      BY <2>a, <2>5, <2>6
    <3> QED
      BY <1>9, <2>5, <3>2, <3>3
  <2>8. CASE w > 0
    <3>1. reading' = "length"
      BY <1>1, <1>6, <1>10, <2>8
    <3>2. w \in 1 .. Len(r.body)
      BY <1>2, <1>6, <2>1, <2>8
    <3> QED
      BY <1>1, <1>3, <1>6, <2>1, <2>6, <2>7, <3>1, <3>2 DEF Place, BodyRead, Lines, Blocks
  <2>9. CASE ~(w > 0)
    <3>1. reading' = "done"
      BY <1>1, <1>6, <1>10, <2>9
    <3>2. y = Len(r.body) /\ v = Length(r)
      <4>1. w = 0
        BY <2>9
      <4> QED
        BY <2>a, <1>7, <2>6, <4>1
    <3>3. recvBuffer' = <<>> /\ unread' = <<>>
      BY <1>1, <1>2, <1>8, <3>2, NothingLeft
    <3>4. BodyRead(Len(response.body))'
      BY <1>1, <2>7, <3>2 DEF BodyRead
    <3> QED
      BY <1>1, <1>3, <2>7, <3>1, <3>3, <3>4 DEF Place, Lines, Blocks
  <2> QED
    BY <2>8, <2>9
<1>11. ASSUME reading = "chunk"
       PROVE  Place(v)' /\ body' \in Seq(Byte(response)) /\ reading' \in {"chunk", "chunkEnd"}
  <2>1. r.form = "chunked"
    BY <1>11 DEF Place
  <2>2. PICK i \in 1 .. r.chunks : /\ want \in 1 .. Size(r, i) /\ x + want = Before(r, i) + 3 + Size(r, i)
                                   /\ BodyRead(r.ends[i] - want)
    BY <1>11 DEF Place
  <2>3. /\ Before(r, i) \in Nat /\ Size(r, i) \in Nat /\ Size(r, i) = r.ends[i] - r.ends[i - 1]
        /\ r.ends[i] \in Nat /\ r.ends[i] <= Len(r.body) /\ r.ends[i - 1] \in Nat
    BY <1>2, <2>1, ChunksInOrder DEF Size
  <2>c. PICK e \in Nat, d \in Nat, s \in Nat, p0 \in Nat :
          e = r.ends[i] /\ d = r.ends[i - 1] /\ s = Size(r, i) /\ p0 = Before(r, i)
    BY <2>3
  <2>d. s = e - d /\ want <= s /\ x + want = p0 + 3 + s /\ e <= Len(r.body) /\ x \in Nat /\ Len(r.body) \in Nat
    BY <1>2, <2>2, <2>3, <2>c
  <2>a. e - want \in Nat
    BY <1>a, <2>d
  <2>4. PICK m \in Nat : m = r.ends[i] - want /\ m = e - want
    BY <2>a, <2>c
  <2>5. \A k \in 1 .. n : recvBuffer[k] = r.body[m + k]
    <3> SUFFICES ASSUME NEW k \in 1 .. n
                 PROVE  recvBuffer[k] = r.body[m + k]
      OBVIOUS
    <3>a. 3 + s - want + k \in Nat
      BY <1>a, <2>d
    <3>1. PICK p \in Nat : p = 3 + s - want + k
      BY <3>a
    <3>b. k \in 1 .. R /\ k \in Nat /\ k >= 1 /\ k <= want
      BY <1>a
    <3>c. p > 3 /\ p <= s + 3 /\ x + k = p0 + p /\ d + p - 3 = m + k
      <4>1. want \in Nat /\ want <= s /\ k <= want /\ k >= 1
        BY <1>a, <2>d, <3>b
      <4>2. p > 3 /\ p <= s + 3
        BY <3>1, <3>b, <4>1
      <4>3. x + k = p0 + p
        BY <2>d, <3>1, <3>b, <4>1
      <4>4. d + p - 3 = m + k
        BY <2>d, <2>4, <3>1, <3>b, <4>1
      <4> QED
        BY <4>2, <4>3, <4>4
    <3>2. /\ k \in 1 .. R /\ p \in 1 .. Size(r, i) + 5 /\ p > 3 /\ p <= Size(r, i) + 3
          /\ x + k = Before(r, i) + p /\ r.ends[i - 1] + p - 3 = m + k
      <4>1. p \in 1 .. s + 5
        BY <3>c
      <4> QED
        BY <2>c, <3>b, <3>c, <4>1
    <3>3. Bytes(r)[Before(r, i) + p] = ChunkByte(r, i, p)
      BY <1>2, <2>1, <3>2, ChunkBytes
    <3>4. ChunkByte(r, i, p) = r.body[r.ends[i - 1] + p - 3]
      <4>1. p # 1 /\ p \notin {2, Size(r, i) + 4} /\ p \notin {3, Size(r, i) + 5}
        <5>1. p # 1 /\ p # 2 /\ p # 3 /\ p # s + 4 /\ p # s + 5
          BY <3>c
        <5> QED
          BY <2>c, <5>1
      <4> QED
        BY <4>1 DEF ChunkByte
    <3> QED
      BY <1>4, <3>2, <3>3, <3>4
  <2>b. m + n \in Nat
    BY <1>a
  <2>6. PICK y \in Nat : y = m + n
    BY <2>b
  <2>7. m + n <= Len(r.body) /\ y = r.ends[i] - w /\ v + w = Before(r, i) + 3 + Size(r, i)
    <3>1. y = r.ends[i] - w /\ m + n <= r.ends[i]
      <4>1. y = e - w /\ m + n <= e
        BY <1>a, <1>6, <2>4, <2>6
      <4> QED
        BY <2>c, <4>1
    <3>a. m + n <= e /\ m + n \in Nat
      BY <2>b, <2>c, <3>1
    <3>2. v + w = x + want
      BY <1>2, <1>a, <1>4, <1>6, <1>7
    <3>3. m + n <= Len(r.body)
      <4>1. e <= Len(r.body) /\ Len(r.body) \in Nat /\ e \in Nat
        BY <2>d
      <4> QED
        BY <3>a, <4>1
    <3> QED
      BY <2>2, <3>1, <3>2, <3>3
  <2>8. body' = SubSeq(r.body, 1, y) /\ body' \in Seq(Byte(response))
    <3>1. BodyRead(m) /\ BodyNext(recvBuffer, m, n)
      BY <1>a, <2>2, <2>4, <2>5, <2>7 DEF BodyNext, R
    <3>2. body \o SubSeq(recvBuffer, 1, n) = SubSeq(r.body, 1, m + n) /\ SubSeq(r.body, 1, m + n) \in Seq(Byte(response))
      BY <1>2, <1>a, <3>1, BodyOn
    <3> QED
      BY <1>9, <2>6, <3>2
  <2>9. y \in 0 .. Len(r.body)
    BY <1>2, <2>6, <2>7
  <2>10. CASE w > 0
    <3>1. reading' = "chunk"
      BY <1>1, <1>6, <1>11, <2>10
    <3>2. w \in 1 .. Size(r, i)
      BY <1>2, <1>6, <2>2, <2>3, <2>10
    <3> QED
      BY <1>1, <1>3, <1>6, <2>1, <2>7, <2>8, <2>9, <3>1, <3>2 DEF Place, BodyRead, Lines, Blocks
  <2>11. CASE ~(w > 0)
    <3>1. reading' = "chunkEnd"
      BY <1>1, <1>6, <1>11, <2>11
    <3>2. y = r.ends[i] /\ v = Before(r, i) + 3 + Size(r, i) /\ Size(r, i) > 0
      <4>1. w = 0
        BY <2>11
      <4>2. Size(r, i) > 0
        BY <1>a, <2>2, <2>3
      <4> QED
        BY <1>7, <2>3, <2>7, <4>1, <4>2
    <3> QED
      BY <1>1, <1>3, <2>1, <2>8, <2>9, <3>1, <3>2 DEF Place, BodyRead, Lines, Blocks
  <2> QED
    BY <2>10, <2>11
<1>12. StreamTypes'
  <2>1. body' \in Seq(Byte(response)) /\ reading' \in Lines \cup Blocks \cup {"done"}
    BY <1>1, <1>10, <1>11 DEF Blocks, Lines
  <2> QED
    BY <1>1, <1>6, <1>8, <2>1 DEF StreamTypes
<1> QED
  BY <1>1, <1>8, <1>10, <1>11, <1>12 DEF Blocks

\* TakeContents: everything up to the end.
LEMMA TakeContentsStep ==
  ASSUME StreamTypes, NEW x \in 0 .. Length(response), NEW u \in 0 .. Length(response),
         Taken(x, u), Place(x), TakeContents
  PROVE  StreamTypes' /\ \E v \in 0 .. Length(response) : Taken(v, v)' /\ Place(v)'
<1> DEFINE r == response
           b == Bytes(response)
           R == Len(recvBuffer)
           U == Len(unread)
           m == Len(body)
<1>1. /\ reading = "contents" /\ response' = r /\ sent' = sent /\ hangsUp' = hangsUp
      /\ built' = built /\ want' = want
  BY DEF TakeContents
<1>2. /\ r \in Responses /\ R \in Nat /\ U \in Nat /\ m \in Nat /\ x \in Nat /\ u \in Nat
      /\ recvBuffer \in Seq(Byte(response)) /\ unread \in Seq(Byte(response)) /\ body \in Seq(Byte(response))
      /\ Len(r.body) \in Nat /\ HeadLen(r) \in Nat /\ Length(r) \in Nat
  BY Sizes DEF StreamTypes
<1>3. built = <<>> /\ Len(built) = 0
  <2>1. built = <<>>
    BY <1>1 DEF Place, Lines
  <2> QED
    BY <2>1
<1>4. r.form = "close" /\ x = HeadLen(r) + m /\ BodyRead(m)
  BY <1>1 DEF Place
<1>5. Length(r) = HeadLen(r) + Len(r.body)
  BY <1>2, <1>4, Lengths
<1>6. /\ x + Len(built) = u /\ \A k \in 1 .. R : recvBuffer[k] = b[u + k]
      /\ \A k \in 1 .. U : unread[k] = b[u + R + k]
      /\ u + R + U <= Length(r) /\ (sent <=> u + R + U = Length(r))
  BY DEF Taken
<1>7. x = u /\ u + R + U <= Length(r)
  BY <1>2, <1>3, <1>6
<1> HIDE DEF b, R, U, m
\* The next n bytes of t belong to the body.
<1>8. ASSUME NEW t \in Seq(Byte(response)), NEW n \in Nat, n <= Len(t), u + n <= Length(r),
             \A k \in 1 .. n : t[k] = b[u + k], body' = body \o SubSeq(t, 1, n), NEW v \in Nat, v = u + n
      PROVE  /\ body' \in Seq(Byte(response)) /\ v = HeadLen(r) + Len(body') /\ v \in 0 .. Length(r)
             /\ Len(body') \in 0 .. Len(r.body) /\ body' = SubSeq(r.body, 1, Len(body'))
  <2>0. PICK h \in Nat, l \in Nat : h = HeadLen(r) /\ l = Len(r.body)
    BY <1>2
  <2>a. u = h + m /\ Length(r) = h + l /\ u + n <= h + l /\ n \in Nat
    <3>1. u = h + m
      BY <1>4, <1>7, <2>0
    <3>2. Length(r) = h + l
      BY <1>5, <2>0
    <3> QED
      BY <1>8, <3>1, <3>2
  <2>1. m + n <= Len(r.body)
    <3>1. m \in Nat
      BY <1>2
    <3>2. h + m + n <= h + l
      BY <2>a
    <3>3. m + n <= l
      BY <2>a, <3>1, <3>2
    <3> QED
      BY <2>0, <3>3
  <2>2. ASSUME NEW k \in 1 .. n
        PROVE  t[k] = r.body[m + k]
    <3>a. k \in Nat /\ 1 <= k /\ k <= n /\ m \in Nat
      BY <1>2, <2>a
    <3>c. m + n <= l
      BY <2>0, <2>1
    <3>b. m + k \in 1 .. l /\ u + k = h + (m + k)
      <4>1. m + k <= m + n /\ m + k \in Nat /\ 1 <= m + k
        BY <2>a, <3>a
      <4>2. m + k <= l
        BY <2>0, <2>a, <3>a, <3>c, <4>1
      <4>3. u + k = h + (m + k)
        BY <2>0, <2>a, <3>a
      <4> QED
        BY <2>0, <4>1, <4>2, <4>3
    <3>1. m + k \in 1 .. Len(r.body) /\ u + k = HeadLen(r) + (m + k)
      BY <2>0, <3>b
    <3>2. Bytes(r)[HeadLen(r) + (m + k)] = r.body[m + k]
      BY <1>2, <1>4, <3>1, PlainBytes
    <3> QED
      BY <1>8, <3>1, <3>2 DEF b
  <2>3. BodyNext(t, m, n)
    BY <1>8, <2>1, <2>2 DEF BodyNext
  <2>4. /\ body \o SubSeq(t, 1, n) = SubSeq(r.body, 1, m + n)
        /\ SubSeq(r.body, 1, m + n) \in Seq(Byte(response)) /\ Len(SubSeq(r.body, 1, m + n)) = m + n
    BY <1>2, <1>4, <2>3, BodyOn
  <2>5. body' = SubSeq(r.body, 1, m + n) /\ Len(body') = m + n
    BY <1>8, <2>4
  <2>6. m + n \in 0 .. Len(r.body)
    BY <1>2, <2>1
  <2>7. v = h + (m + n) /\ v \in 0 .. h + l
    BY <1>2, <1>8, <2>a
  <2>8. v = HeadLen(r) + Len(body') /\ v \in 0 .. Length(r)
    BY <2>0, <2>5, <2>7, <2>a
  <2> QED
    BY <2>4, <2>5, <2>6, <2>8
<1>9. CASE recvBuffer # <<>>
  <2>1. body' = body \o recvBuffer /\ recvBuffer' = <<>> /\ unread' = unread /\ reading' = reading
    BY <1>9 DEF TakeContents
  <2>2. recvBuffer = SubSeq(recvBuffer, 1, R)
    BY <1>2, SubSeqFull DEF R
  <2>3. recvBuffer' = SubSeq(recvBuffer, R + 1, R)
    BY <1>2, <2>1, SubSeqEmpty
  <2>a. u + R \in Nat
    BY <1>2
  <2>4. PICK v \in Nat : v = u + R
    BY <2>a
  <2>5. Taken(v, v)' /\ v \in 0 .. Length(r) /\ recvBuffer' \in Seq(Byte(response))
    <3>1. R \in 0 .. Len(recvBuffer) /\ recvBuffer' = SubSeq(recvBuffer, R + 1, Len(recvBuffer))
      BY <1>2, <2>3 DEF R
    <3>2. built' = <<>> /\ UNCHANGED <<response, sent, unread>>
      BY <1>1, <1>3, <2>1
    <3> QED
      BY <2>4, <3>1, <3>2, TakenOn
  <2>6. /\ body' \in Seq(Byte(response)) /\ v = HeadLen(r) + Len(body')
        /\ Len(body') \in 0 .. Len(r.body) /\ body' = SubSeq(r.body, 1, Len(body'))
    <3>1. R <= Len(recvBuffer) /\ u + R <= Length(r) /\ \A k \in 1 .. R : recvBuffer[k] = b[u + k]
      <4>1. R <= Len(recvBuffer)
        BY <1>2 DEF R
      <4>2. u + R <= Length(r)
        BY <1>2, <1>7
      <4>3. \A k \in 1 .. R : recvBuffer[k] = b[u + k]
        BY <1>6
      <4> QED
        BY <4>1, <4>2, <4>3
    <3>2. body' = body \o SubSeq(recvBuffer, 1, R)
      BY <2>1, <2>2
    <3> QED
      BY <1>2, <1>8, <2>4, <3>1, <3>2
  <2>7. Place(v)'
    BY <1>1, <1>3, <1>4, <2>1, <2>6 DEF Place, BodyRead, Lines
  <2>8. StreamTypes'
    BY <1>1, <2>1, <2>5, <2>6 DEF StreamTypes
  <2> QED
    BY <1>1, <2>5, <2>7, <2>8
<1>10. CASE recvBuffer = <<>> /\ unread # <<>>
  <2>1. PICK n \in 1 .. U : body' = body \o SubSeq(unread, 1, n) /\ unread' = SubSeq(unread, n + 1, U)
    BY <1>10 DEF TakeContents, U
  <2>2. recvBuffer' = recvBuffer /\ reading' = reading
    BY <1>10 DEF TakeContents
  <2>3. R = 0
    BY <1>10 DEF R
  <2>4. \A k \in 1 .. U : unread[k] = b[u + k]
    <3>1. \A k \in 1 .. U : u + R + k = u + k
      BY <1>2, <2>3
    <3> QED
      BY <1>6, <3>1
  <2>a. u + n \in Nat /\ n \in Nat /\ n <= U /\ u + n <= Length(r)
    BY <1>2, <1>7, <2>3
  <2>5. PICK v \in Nat : v = u + n
    BY <2>a
  <2>6. /\ unread' \in Seq(Byte(response)) /\ Len(unread') = U - n
        /\ \A k \in 1 .. U - n : unread'[k] = unread[n + k]
    <3>1. n \in 0 .. Len(unread) /\ unread' = SubSeq(unread, n + 1, Len(unread))
      BY <1>2, <2>1, <2>a DEF U
    <3> QED
      BY <1>2, <3>1, Cut DEF U
  <2>7. /\ body' \in Seq(Byte(response)) /\ v = HeadLen(r) + Len(body') /\ v \in 0 .. Length(r)
        /\ Len(body') \in 0 .. Len(r.body) /\ body' = SubSeq(r.body, 1, Len(body'))
    <3>1. n <= Len(unread) /\ \A k \in 1 .. n : unread[k] = b[u + k]
      <4>1. n <= Len(unread)
        BY <2>a DEF U
      <4>2. \A k \in 1 .. n : k \in 1 .. U
        BY <1>2, <2>a
      <4> QED
        BY <2>4, <4>1, <4>2
    <3> QED
      BY <1>2, <1>8, <2>1, <2>a, <2>5, <3>1
  <2>8. Taken(v, v)'
    <3>1. Bytes(response') = b /\ Length(response') = Length(r) /\ Len(recvBuffer') = 0 /\ Len(built') = 0
      BY <1>1, <1>3, <2>2, <2>3 DEF b, R
    <3>2. \A k \in 1 .. Len(built') : built'[k] = Bytes(response')[v + k] /\ built'[k] # LF
      BY <3>1
    <3>3. \A k \in 1 .. Len(recvBuffer') : recvBuffer'[k] = Bytes(response')[v + k]
      BY <3>1
    <3>4. \A k \in 1 .. Len(unread') : unread'[k] = Bytes(response')[v + Len(recvBuffer') + k]
      <4> SUFFICES ASSUME NEW k \in 1 .. U - n
                   PROVE  unread'[k] = b[v + 0 + k]
        BY <2>6, <3>1
      <4>1. n + k \in 1 .. U /\ v + 0 + k = u + (n + k)
        BY <1>2, <2>a, <2>5
      <4> QED
        BY <2>4, <2>6, <4>1
    <3>5. v + Len(recvBuffer') + Len(unread') = u + R + U
      BY <1>2, <2>3, <2>a, <2>5, <2>6, <3>1
    <3>6. /\ v + Len(recvBuffer') + Len(unread') <= Length(response')
          /\ sent' <=> v + Len(recvBuffer') + Len(unread') = Length(response')
      <4> DEFINE p == v + Len(recvBuffer') + Len(unread')
                 q == u + R + U
      <4>1. q <= Length(r) /\ (sent <=> q = Length(r)) /\ p = q
        BY <1>6, <3>5
      <4> HIDE DEF p, q
      <4>2. p <= Length(response') /\ (sent' <=> p = Length(response'))
        BY <1>1, <3>1, <4>1
      <4> QED
        BY <4>2 DEF p
    <3>7. v + Len(built') = v
      BY <3>1
    <3> QED
      BY <3>2, <3>3, <3>4, <3>6, <3>7, Zenon DEF Taken
  <2>9. Place(v)'
    BY <1>1, <1>3, <1>4, <2>2, <2>7 DEF Place, BodyRead, Lines
  <2>10. StreamTypes'
    BY <1>1, <2>2, <2>6, <2>7 DEF StreamTypes
  <2> QED
    BY <1>1, <2>7, <2>8, <2>9, <2>10
<1>11. CASE recvBuffer = <<>> /\ unread = <<>>
  <2>1. reading' = "done" /\ body' = body /\ recvBuffer' = recvBuffer /\ unread' = unread
    BY <1>11 DEF TakeContents
  <2>2. Taken(u, u)'
    <3>1. Taken(u, u)
      BY <1>7
    <3> QED
      BY <1>1, <2>1, <3>1 DEF Taken
  <2>3. BodyRead(Len(r.body)) \/ ~sent
    <3>1. R = 0 /\ U = 0
      BY <1>11 DEF R, U
    <3>2. sent => u = Length(r)
      BY <1>2, <1>6, <3>1
    <3>3. u = Length(r) => m = Len(r.body)
      BY <1>2, <1>4, <1>5, <1>7
    <3> QED
      BY <1>4, <3>2, <3>3
  <2>4. Place(u)'
    BY <1>1, <1>3, <1>4, <1>11, <2>1, <2>3 DEF Place, BodyRead, Lines, m
  <2>5. StreamTypes'
    BY <1>1, <2>1 DEF StreamTypes
  <2> QED
    BY <1>1, <2>2, <2>4, <2>5
<1> QED
  BY <1>9, <1>10, <1>11

-----------------------------------------------------------------------------
(* The theorems.                                                           *)

\* Every step keeps the invariant.
LEMMA InvStep == StreamInv /\ [StreamNext]_streamVars => StreamInv'
<1> SUFFICES ASSUME StreamInv, [StreamNext]_streamVars
             PROVE  StreamInv'
  OBVIOUS
<1>1. CASE ReadStep
  <2>1. reading # "unused" /\ response' = response
    BY <1>1, Shape DEF Lines, Blocks
  <2>2. PICK x \in 0 .. Length(response), u \in 0 .. Length(response) : StreamTypes /\ Taken(x, u) /\ Place(x)
    BY <2>1 DEF StreamInv
  <2>3. CASE Receive
    BY <2>1, <2>2, <2>3, ReceiveStep DEF StreamInv
  <2>4. CASE MeetEnd
    BY <2>1, <2>2, <2>4, MeetEndStep DEF StreamInv
  <2>5. CASE KeepPart
    BY <2>1, <2>2, <2>5, KeepPartStep DEF StreamInv
  <2>6. CASE TakeLine
    BY <2>1, <2>2, <2>6, TakeLineStep DEF StreamInv
  <2>7. CASE TakeBlock
    BY <2>1, <2>2, <2>7, TakeBlockStep DEF StreamInv
  <2>8. CASE TakeContents
    BY <2>1, <2>2, <2>8, TakeContentsStep DEF StreamInv
  <2> QED
    BY <1>1, <2>3, <2>4, <2>5, <2>6, <2>7, <2>8 DEF ReadStep
<1>2. CASE UNCHANGED streamVars
  <2>1. /\ UNCHANGED <<response, sent, hangsUp, unread, recvBuffer>>
        /\ UNCHANGED <<reading, built, want, body, atEnd>>
    BY <1>2 DEF streamVars
  <2>2. StreamTypes => StreamTypes'
    BY <2>1 DEF StreamTypes
  <2>3. CASE reading = "unused"
    BY <2>1, <2>2, <2>3 DEF StreamInv
  <2>4. CASE reading # "unused"
    <3>1. PICK x \in 0 .. Length(response), u \in 0 .. Length(response) : StreamTypes /\ Taken(x, u) /\ Place(x)
      BY <2>4 DEF StreamInv
    <3>2. Taken(x, u)'
      BY <2>1, <3>1 DEF Taken
    <3>3. Place(x)'
      BY <2>1, <3>1 DEF Place, BodyRead
    <3> QED
      BY <2>1, <2>2, <3>1, <3>2, <3>3 DEF StreamInv
  <2> QED
    BY <2>3, <2>4
<1> QED
  BY <1>1, <1>2 DEF StreamNext, ReadOver

\* Where the reader stands is where the answer is: what it has read of the body is
\* what was sent, and what is in the buffer comes next (connGetLine, connGetBlock).
THEOREM Invariance == StreamSpec => []StreamInv
BY InvInit, InvStep, PTL DEF StreamSpec

\* However the network cuts it, an answer is read as it was sent, to its last byte
\* and no further, and what has arrived is not waited for (switchResponse).
THEOREM AnswersWhole == StreamSpec => []AnswerWhole
<1>1. StreamInv => AnswerWhole
  <2> SUFFICES ASSUME StreamInv
               PROVE  AnswerWhole
    OBVIOUS
  <2>1. CASE reading = "unused"
    BY <2>1 DEF AnswerWhole, Lines, Blocks
  <2>2. CASE reading # "unused"
    <3>1. PICK x \in 0 .. Length(response), u \in 0 .. Length(response) : StreamTypes /\ Taken(x, u) /\ Place(x)
      BY <2>2 DEF StreamInv
    <3>2. response.body \in Seq(Byte(response)) /\ body \in Seq(Byte(response)) /\ Len(body) \in Nat /\ Len(response.body) \in Nat
      BY <3>1, Sizes DEF StreamTypes
    <3>3. ASSUME reading = "done"
          PROVE  /\ recvBuffer = <<>> /\ unread = <<>>
                 /\ body = response.body \/ (response.form = "close" /\ ~sent /\ IsPrefix(body, response.body))
      <4>1. /\ recvBuffer = <<>> /\ unread = <<>>
            /\ BodyRead(Len(response.body)) \/ (response.form = "close" /\ ~sent /\ BodyRead(Len(body)))
        BY <3>1, <3>3 DEF Place
      <4>2. BodyRead(Len(response.body)) => body = response.body
        BY <3>2, SubSeqFull DEF BodyRead
      <4>3. BodyRead(Len(body)) => IsPrefix(body, response.body)
        <5>1. SubSeq(body, 1, Len(body)) = body
          BY <3>2, SubSeqFull
        <5> QED
          BY <3>2, <5>1 DEF BodyRead, IsPrefix
      <4> QED
        BY <4>1, <4>2, <4>3
    <3>4. reading = "error" => ~sent \/ response.form = "unknown"
      BY <3>1 DEF Place
    <3>5. ASSUME reading \in Lines \cup Blocks, sent
          PROVE  recvBuffer # <<>> \/ unread # <<>>
      <4>1. u < Length(response) /\ u \in Nat /\ Length(response) \in Nat
        BY <3>1, <3>5, Behind, Sizes
      <4>2. u + Len(recvBuffer) + Len(unread) = Length(response)
        BY <3>1, <3>5 DEF Taken
      <4>3. recvBuffer = <<>> /\ unread = <<>> => u + 0 + 0 = Length(response)
        BY <4>2
      <4> QED
        BY <4>1, <4>3
    <3> QED
      BY <3>3, <3>4, <3>5 DEF AnswerWhole
  <2> QED
    BY <2>1, <2>2
<1> QED
  BY Invariance, <1>1, PTL

=============================================================================
