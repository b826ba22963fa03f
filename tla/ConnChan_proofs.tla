--------------------------- MODULE ConnChan_proofs ---------------------------
(***************************************************************************)
(* Proofs about ConnChan, for any requests, times and number of broken     *)
(* connections: a request is answered with its own answer, and a           *)
(* connection thread keeps the promise of ConnService.                     *)
(***************************************************************************)
EXTENDS ConnChan, SequenceTheorems, TLAPS

-----------------------------------------------------------------------------
(* What a connection can hold unread.                                       *)

Part1(r) == [of |-> r, part |-> "continue"]
Part2(r) == [of |-> r, part |-> "head"]
Part3(r) == [of |-> r, part |-> "body"]

\* Before the server answers r; all of the answer; some of it; what is left after
\* the head.
Asked(r) == {<<>>, <<Part1(r)>>}
Whole(r) == {<<Part2(r), Part3(r)>>, <<Part1(r), Part2(r), Part3(r)>>}
Own(r)   == Asked(r) \cup Whole(r) \cup {<<Part2(r)>>, <<Part1(r), Part2(r)>>}
Half(r)  == {<<>>, <<Part3(r)>>}

\* The refusal of a second copy of a body, alone and behind an answer.
Refusal      == Answer("refused")
OwnRefused(r)  == {w \o Refusal : w \in Whole(r)}
HalfRefused(r) == <<Part3(r)>> \o Refusal

-----------------------------------------------------------------------------
(* The parts of the inductive invariant.                                    *)

\* A request is in one place: in the channel, with the thread, or answered.
QueueInv ==
    /\ \A i, j \in 1 .. Len(chan) : chan[i] = chan[j] => i = j
    /\ \A i \in 1 .. Len(chan) : answer[chan[i]] = None /\ chan[i] # cur
    /\ cur # None => answer[cur] = None
    /\ slow => conn = None /\ pc \in {"idle", "slow", "slowAnswer"}
    /\ ~slow => pc \notin {"slow", "slowAnswer"}
    /\ pc \in {"open", "wait"} => conn = None
    /\ pc \notin {"head", "body"} => ~bodySent
    /\ pc # "body" => got = None

\* The connection that the thread's request uses.
Line(c) == c = conn \/ (pc = "slowAnswer" /\ c = cur)

\* A connection is named by a request: it is not used before that request is sent.
UnusedInv ==
    /\ conn # None => answer[conn] # None \/ (cur = conn /\ pc # "kill")
    /\ \A c \in Requests : answer[c] = None /\ ~Line(c) =>
          link[c] = "none" /\ inbox[c] = None /\ again[c] = "none" /\ wire[c] = <<>>

\* A connection that has been left is down, or has nothing more to say.
LeftInv ==
    \A c \in Requests : ~Line(c) =>
        /\ link[c] = "up" => inbox[c] = None
        /\ again[c] = "none" => Len(wire[c]) <= 3

\* A request with a body has been answered with its own answer.
Served == \E p \in Posts : answer[p] = p

\* Between requests nothing is unread, but for the refusal of a second copy.
QuietInv ==
    conn # None /\ pc \notin {"head", "body"} =>
        /\ link[conn] # "none" /\ inbox[conn] = None
        /\ \/ again[conn] \in {"none", "ahead"} /\ wire[conn] = <<>>
           \/ /\ again[conn] = "refused" /\ link[conn] = "down"
              /\ wire[conn] \in {<<>>, Refusal}
        /\ again[conn] # "none" => Served

\* Where the answer to the thread's request is, while it waits for the head in c:
\* not yet sent, or sent and unread; ...
Answering(c) ==
    /\ again[c] \in {"none", "behind"}
    /\ wire[c] \in Own(cur)
    /\ inbox[c] = cur \/ again[c] = "behind" => wire[c] \in Asked(cur)
    /\ inbox[c] = None /\ link[c] = "up" =>
          again[c] = "none" /\ wire[c] \in Whole(cur)
    /\ again[c] = "behind" => bodySent

\* ... sent, with the second copy of the body before the server; ...
Repeated(c) ==
    /\ again[c] = "ahead" /\ bodySent /\ inbox[c] = None
    /\ wire[c] \in Own(cur)
    /\ link[c] = "up" => wire[c] \in Whole(cur)

\* ... sent, with the refusal of that copy behind it; ...
Refused(c) ==
    /\ again[c] = "refused" /\ bodySent /\ inbox[c] = None /\ link[c] = "down"
    /\ wire[c] \in Own(cur) \cup OwnRefused(cur)

\* ... or behind, or lost to, the second copy of an earlier request's body.
Overtaken(c) ==
    /\ ~bodySent /\ Served
    /\ \/ again[c] = "ahead" /\ wire[c] = <<>>
       \/ /\ again[c] = "refused" /\ inbox[c] = None /\ link[c] = "down"
          /\ wire[c] \in {<<>>, Refusal}

\* While the thread waits for a head, all that is unread belongs to its request,
\* but for the refusal.
HeadLine(c) ==
    /\ link[c] # "none" /\ inbox[c] \in {None, cur}
    /\ Answering(c) \/ Repeated(c) \/ Refused(c) \/ Overtaken(c)
    /\ bodySent => cur \in Posts
    /\ wire[c] # <<>> /\ Head(wire[c]).part = "continue" => cur \in Posts
    /\ pc = "slowAnswer" => again[c] = "none"

HeadInv == \A c \in Requests : Line(c) /\ pc \in {"head", "slowAnswer"} => HeadLine(c)

\* While it reads a body, the rest of that answer, with the refusal behind it.
BodyInv ==
    pc = "body" =>
        /\ link[conn] # "none" /\ inbox[conn] = None
        /\ \/ /\ got = cur /\ again[conn] \in {"none", "ahead"}
              /\ wire[conn] \in Half(cur)
              /\ link[conn] = "up" => wire[conn] = <<Part3(cur)>>
           \/ /\ got = cur /\ again[conn] = "refused" /\ link[conn] = "down"
              /\ wire[conn] \in Half(cur) \cup {HalfRefused(cur)}
           \/ /\ got = "refused" /\ again[conn] = "refused" /\ link[conn] = "down"
              /\ wire[conn] \in Half("refused") /\ Served
        /\ got = cur /\ again[conn] # "none" => cur \in Posts

\* What has been answered was its own answer, or the refusal of another's body.
AnsweredInv ==
    \A r \in Requests :
        \/ answer[r] \in {None, "error", r}
        \/ /\ answer[r] = "refused"
           /\ \E c \in Requests : again[c] = "refused"
           /\ \E p \in Posts \ {r} : answer[p] = p

-----------------------------------------------------------------------------
(* What the server has executed.                                            *)

\* A request is executed once: it is with the server or executed, never both, and
\* only after it was sent.
ExecutedInv ==
    /\ \A c \in Requests : inbox[c] # None =>
          /\ inbox[c] \notin Put(executed)
          /\ \/ answer[inbox[c]] = "error"
             \/ Line(c) /\ pc \in {"head", "slowAnswer"} /\ inbox[c] = cur
    /\ \A c, d \in Requests : inbox[c] = inbox[d] /\ inbox[c] # None => c = d
    /\ \A r \in Put(executed) :
          answer[r] # None \/ (cur = r /\ pc \in {"head", "body", "slowAnswer"})

\* An answer that is being read is that of a request that was executed.
AnswerInv ==
    /\ \A c \in Requests : Line(c) /\ pc \in {"head", "slowAnswer"} =>
          wire[c] \in Asked(cur) \cup {Refusal} \/ cur \in Put(executed)
    /\ pc = "body" /\ got = cur => cur \in Put(executed)
-----------------------------------------------------------------------------
(* Facts about what is unread.                                              *)

Id == Requests \cup {"refused"}

\* The parts are parts, and a short sequence is given by its elements.
LEMMA PartTypes ==
    ASSUME NEW r \in Id
    PROVE  Part1(r) \in Part /\ Part2(r) \in Part /\ Part3(r) \in Part
BY DEF Part1, Part2, Part3, Part, Id

LEMMA Explicit ==
    ASSUME NEW w \in Seq(Part)
    PROVE  /\ Len(w) = 0 => w = <<>>
           /\ Len(w) = 1 => w = <<w[1]>>
           /\ Len(w) = 2 => w = <<w[1], w[2]>>
           /\ Len(w) = 3 => w = <<w[1], w[2], w[3]>>
OBVIOUS

\* Putting a sequence behind another one leaves the head.
LEMMA HeadTailConcat ==
    ASSUME NEW S, NEW s \in Seq(S), NEW t \in Seq(S), s # <<>>
    PROVE  /\ s \o t # <<>> /\ Head(s \o t) = Head(s)
           /\ Tail(s \o t) = Tail(s) \o t
<1>1. /\ s \o t \in Seq(S) /\ Len(s \o t) = Len(s) + Len(t)
      /\ Len(s) \in Nat \ {0} /\ Len(t) \in Nat
      /\ \A i \in 1 .. Len(s) + Len(t) :
            (s \o t)[i] = IF i <= Len(s) THEN s[i] ELSE t[i - Len(s)]
  BY ConcatProperties, EmptySeq, LenProperties
<1>2. s \o t # <<>>
  BY <1>1, EmptySeq
<1>3. Head(s \o t) = Head(s)
  BY <1>1, <1>2
<1>4. /\ Tail(s \o t) \in Seq(S) /\ Len(Tail(s \o t)) = Len(s) + Len(t) - 1
      /\ \A i \in 1 .. Len(s) + Len(t) - 1 : Tail(s \o t)[i] = (s \o t)[i + 1]
  BY <1>1, <1>2, HeadTailProperties
<1>5. /\ Tail(s) \in Seq(S) /\ Len(Tail(s)) = Len(s) - 1
      /\ \A i \in 1 .. Len(s) - 1 : Tail(s)[i] = s[i + 1]
  BY HeadTailProperties
<1>6. /\ Tail(s) \o t \in Seq(S) /\ Len(Tail(s) \o t) = Len(s) + Len(t) - 1
      /\ \A i \in 1 .. Len(s) + Len(t) - 1 :
            (Tail(s) \o t)[i] =
                IF i <= Len(s) - 1 THEN Tail(s)[i] ELSE t[i - (Len(s) - 1)]
  BY <1>1, <1>5, ConcatProperties
<1>7. \A i \in 1 .. Len(s) + Len(t) - 1 : Tail(s \o t)[i] = (Tail(s) \o t)[i]
  BY <1>1, <1>4, <1>5, <1>6
<1>8. Tail(s \o t) = Tail(s) \o t
  BY <1>1, <1>4, <1>6, <1>7, SeqEqual
<1> QED
  BY <1>2, <1>3, <1>8

\* What has been sent of an answer is short.
LEMMA OwnSeq ==
    ASSUME NEW r \in Id
    PROVE  /\ \A w \in Own(r) \cup Half(r) : w \in Seq(Part) /\ Len(w) <= 3
           /\ Asked(r) \subseteq Own(r) /\ Whole(r) \subseteq Own(r)
           /\ <<>> \in Asked(r) /\ <<Part1(r)>> \in Asked(r)
           /\ <<>> \in Half(r) /\ <<Part3(r)>> \in Half(r)
           /\ Answer(r) \in Seq(Part)
BY PartTypes DEF Own, Half, Asked, Whole, Answer, Part, Id

\* The server answers: all of the answer is unread.
LEMMA AskedAnswered ==
    ASSUME NEW r \in Id, NEW w \in Asked(r)
    PROVE  w \o Answer(r) \in Whole(r)
<1>1. Answer(r) = <<Part2(r), Part3(r)>> /\ Answer(r) \in Seq(Part)
  BY PartTypes DEF Answer, Part2, Part3
<1>2. CASE w = <<>>
  BY <1>1, <1>2, ConcatEmptySeq DEF Whole
<1>3. CASE w = <<Part1(r)>>
  <2> DEFINE s == w \o Answer(r)
  <2>1. w \in Seq(Part) /\ Len(w) = 1 /\ w[1] = Part1(r) /\ Len(Answer(r)) = 2
    BY <1>1, <1>3, PartTypes
  <2>2. Answer(r)[1] = Part2(r) /\ Answer(r)[2] = Part3(r)
    BY <1>1
  <2>3. /\ s \in Seq(Part) /\ Len(s) = Len(w) + Len(Answer(r))
        /\ \A i \in 1 .. Len(w) + Len(Answer(r)) :
              s[i] = IF i <= Len(w) THEN w[i] ELSE Answer(r)[i - Len(w)]
    BY <1>1, <2>1, ConcatProperties
  <2>4. /\ s \in Seq(Part) /\ Len(s) = 3
        /\ s[1] = Part1(r) /\ s[2] = Part2(r) /\ s[3] = Part3(r)
    BY <2>1, <2>2, <2>3
  <2> HIDE DEF s
  <2>5. s = <<Part1(r), Part2(r), Part3(r)>>
    BY <2>4, Explicit
  <2> QED
    BY <2>5 DEF Whole, s
<1> QED
  BY <1>2, <1>3 DEF Asked

\* The thread reads that the server is ready for the body ...
LEMMA OwnContinue ==
    ASSUME NEW r \in Id, NEW w \in Own(r), w # <<>>, Head(w).part = "continue"
    PROVE  /\ Tail(w) \in Own(r)
           /\ w \in Asked(r) => Tail(w) = <<>>
           /\ w \in Whole(r) => Tail(w) \in Whole(r)
           /\ w \notin Asked(r) => Tail(w) # <<>>
<1>1. w \in {<<Part1(r)>>, <<Part1(r), Part2(r)>>, <<Part1(r), Part2(r), Part3(r)>>}
  BY DEF Own, Asked, Whole, Part2
<1>2. CASE w = <<Part1(r)>>
  BY <1>2 DEF Own, Asked, Whole
<1>3. CASE w = <<Part1(r), Part2(r)>>
  <2>1. Tail(w) = <<Part2(r)>> /\ Len(w) = 2 /\ w # <<>>
    BY <1>3
  <2>2. w \notin Asked(r)
    BY <2>1 DEF Asked
  <2>3. w \in Whole(r) => FALSE
    BY <1>3 DEF Whole, Part1, Part2
  <2> QED
    BY <2>1, <2>2, <2>3 DEF Own
<1>4. CASE w = <<Part1(r), Part2(r), Part3(r)>>
  BY <1>4 DEF Own, Asked, Whole
<1> QED
  BY <1>1, <1>2, <1>3, <1>4

\* ... or the head of the answer ...
LEMMA OwnHead ==
    ASSUME NEW r \in Id, NEW w \in Own(r), w # <<>>, Head(w).part # "continue"
    PROVE  /\ Head(w).of = r /\ Tail(w) \in Half(r) /\ w \notin Asked(r)
           /\ w \in Whole(r) => Tail(w) = <<Part3(r)>>
<1>1. w \in {<<Part2(r)>>, <<Part2(r), Part3(r)>>}
  BY DEF Own, Asked, Whole, Part1
<1>2. CASE w = <<Part2(r)>>
  BY <1>2 DEF Half, Asked, Whole, Part1, Part2
<1>3. CASE w = <<Part2(r), Part3(r)>>
  BY <1>3 DEF Half, Asked, Whole, Part1, Part2
<1> QED
  BY <1>1, <1>2, <1>3

\* ... or the body.
LEMMA HalfBody ==
    ASSUME NEW r, NEW w \in Half(r), w # <<>>
    PROVE  Tail(w) = <<>>
<1>1. w = <<Part3(r)>>
  BY DEF Half
<1> QED
  BY <1>1

\* Two parts that are unread are those of the answer.
LEMMA OwnTwo ==
    ASSUME NEW r \in Requests, NEW w \in Own(r), Len(w) = 2
    PROVE  Head(w).of = r /\ w \notin Asked(r) /\ w # Refusal
<1>1. r # "refused" /\ w \notin Asked(r)
  BY OutcomesAreNoRequests DEF Asked
<1>2. w = <<Part2(r), Part3(r)>> \/ w = <<Part1(r), Part2(r)>>
  BY <1>1 DEF Own, Whole
<1>3. Head(w).of = r
  BY <1>2 DEF Part1, Part2
<1>4. Head(Refusal).of = "refused"
  BY DEF Refusal, Answer
<1> QED
  BY <1>1, <1>3, <1>4

\* What is lost is at the end.
LEMMA CutSeq ==
    ASSUME NEW w \in Seq(Part), NEW n \in 0 .. Len(w)
    PROVE  /\ SubSeq(w, 1, n) \in Seq(Part) /\ Len(SubSeq(w, 1, n)) = n
           /\ \A i \in 1 .. n : SubSeq(w, 1, n)[i] = w[i]
<1>1. Len(w) \in Nat /\ \A i \in 1 .. n : w[i] \in Part
  BY LenProperties, ElementOfSeq
<1> QED
  BY <1>1, SubSeqProperties

LEMMA OwnCut ==
    ASSUME NEW r \in Id, NEW w, NEW n \in 0 .. Len(w)
    PROVE  /\ w \in Own(r) => SubSeq(w, 1, n) \in Own(r)
           /\ w \in Asked(r) => SubSeq(w, 1, n) \in Asked(r)
           /\ w \in Half(r) => SubSeq(w, 1, n) \in Half(r)
           /\ w = <<>> => SubSeq(w, 1, n) = <<>>
<1> DEFINE s == SubSeq(w, 1, n)
<1>1. ASSUME w \in Seq(Part)
      PROVE  /\ s \in Seq(Part) /\ Len(s) = n
             /\ \A i \in 1 .. n : s[i] = w[i]
  BY <1>1, CutSeq
<1> HIDE DEF s
<1>2. CASE w = <<>>
  BY <1>1, <1>2, Explicit DEF Own, Asked, Half, s
<1>3. CASE \E a \in Part : w = <<a>>
  <2>1. PICK a \in Part : w = <<a>>
    BY <1>3
  <2>2. s = <<>> \/ s = w
    BY <1>1, <2>1, Explicit
  <2> QED
    BY <2>1, <2>2 DEF Own, Asked, Half, s
<1>4. CASE \E a, b \in Part : w = <<a, b>>
  <2>1. PICK a \in Part, b \in Part : w = <<a, b>>
    BY <1>4
  <2>2. s = <<>> \/ s = <<a>> \/ s = w
    BY <1>1, <2>1, Explicit
  <2> QED
    BY <2>1, <2>2 DEF Own, Asked, Whole, Half, s
<1>5. CASE \E a, b, c \in Part : w = <<a, b, c>>
  <2>1. PICK a \in Part, b \in Part, c \in Part : w = <<a, b, c>>
    BY <1>5
  <2>2. s = <<>> \/ s = <<a>> \/ s = <<a, b>> \/ s = w
    BY <1>1, <2>1, Explicit
  <2> QED
    BY <2>1, <2>2 DEF Own, Asked, Whole, Half, s
<1>6. ASSUME w \in Own(r) \cup Half(r) \cup Asked(r)
      PROVE  \/ w = <<>> \/ \E a \in Part : w = <<a>>
             \/ \E a, b \in Part : w = <<a, b>>
             \/ \E a, b, c \in Part : w = <<a, b, c>>
  BY <1>6, PartTypes DEF Own, Asked, Whole, Half
<1> QED
  BY <1>2, <1>3, <1>4, <1>5, <1>6 DEF s

\* The refusal of a second copy is read like an answer, in its place behind one.
LEMMA RefusalParts ==
    /\ Refusal \in Seq(Part) /\ Refusal # <<>> /\ Len(Refusal) = 2
    /\ Head(Refusal).part = "head" /\ Head(Refusal).of = "refused"
    /\ Tail(Refusal) \in Half("refused")
    /\ <<>> \o Refusal = Refusal
BY ConcatEmptySeq, PartTypes DEF Refusal, Answer, Half, Part, Id, Part3

LEMMA OwnRefusedParts ==
    ASSUME NEW r \in Id, NEW w \in OwnRefused(r)
    PROVE  /\ w \in Seq(Part) /\ w # <<>>
           /\ Head(w).part = "continue" => Tail(w) \in OwnRefused(r)
           /\ Head(w).part # "continue" =>
                 Head(w).of = r /\ Tail(w) = HalfRefused(r)
<1>1. PICK v \in Whole(r) : w = v \o Refusal
  BY DEF OwnRefused
<1>2. v \in Own(r) /\ v \in Seq(Part) /\ v # <<>>
  <2>1. v # <<>>
    BY DEF Whole
  <2> QED
    BY <2>1, OwnSeq
<1>3. w # <<>> /\ Head(w) = Head(v) /\ Tail(w) = Tail(v) \o Refusal
  BY <1>1, <1>2, HeadTailConcat, RefusalParts
<1>4. w \in Seq(Part)
  BY <1>1, <1>2, RefusalParts, ConcatProperties
<1> QED
  BY <1>2, <1>3, <1>4, OwnContinue, OwnHead DEF OwnRefused, HalfRefused

LEMMA HalfRefusedParts ==
    ASSUME NEW r \in Id
    PROVE  /\ HalfRefused(r) \in Seq(Part) /\ HalfRefused(r) # <<>>
           /\ Tail(HalfRefused(r)) = Refusal
<1>1. <<Part3(r)>> \in Seq(Part) /\ <<Part3(r)>> # <<>> /\ Tail(<<Part3(r)>>) = <<>>
  BY PartTypes
<1> QED
  BY <1>1, HeadTailConcat, ConcatProperties, RefusalParts DEF HalfRefused

-----------------------------------------------------------------------------
(* Types.                                                                  *)

\* TypeOK, but for the length of what is unread.
Types ==
    /\ slow \in BOOLEAN
    /\ chan \in Seq(Requests)
    /\ cur \in Requests \cup {None} /\ conn \in Requests \cup {None}
    /\ got \in Requests \cup {None, "refused"} /\ bodySent \in BOOLEAN
    /\ pc \in {"idle", "kill", "open", "wait", "send", "head", "body", "slow",
              "slowAnswer"}
    /\ pc = "idle" <=> cur = None
    /\ pc \in {"kill", "send", "head", "body"} => conn # None
    /\ stored \in Nat /\ tnow \in Nat /\ now \in Nat
    /\ answer \in [Requests -> Requests \cup {None, "error", "refused"}]
    /\ link \in [Requests -> {"none", "up", "down"}]
    /\ inbox \in [Requests -> Requests \cup {None}]
    /\ again \in [Requests -> {"none", "behind", "ahead", "refused"}]
    /\ wire \in [Requests -> Seq(Part)]
    /\ executed \in Seq(Requests)

\* The initial state has the types.
LEMMA TypesInit == Init => Types
<1>1. <<>> \in Seq(Part) /\ <<>> \in Seq(Requests)
  OBVIOUS
<1>2. Init => /\ wire \in [Requests -> Seq(Part)] /\ chan \in Seq(Requests)
              /\ executed \in Seq(Requests)
  BY <1>1 DEF Init
<1>3. Init => /\ answer \in [Requests -> Requests \cup {None, "error", "refused"}]
              /\ link \in [Requests -> {"none", "up", "down"}]
              /\ inbox \in [Requests -> Requests \cup {None}]
              /\ again \in [Requests -> {"none", "behind", "ahead", "refused"}]
  BY DEF Init
<1>4. Init => /\ slow \in BOOLEAN /\ bodySent \in BOOLEAN
              /\ cur \in Requests \cup {None} /\ conn \in Requests \cup {None}
              /\ got \in Requests \cup {None, "refused"}
  BY DEF Init
<1>5. Init => /\ pc \in {"idle", "kill", "open", "wait", "send", "head", "body", "slow",
                         "slowAnswer"}
              /\ pc = "idle" <=> cur = None
              /\ pc \in {"kill", "send", "head", "body"} => conn # None
              /\ stored \in Nat /\ tnow \in Nat /\ now \in Nat
  BY DEF Init
<1> QED
  BY <1>2, <1>3, <1>4, <1>5 DEF Types

\* A sequence of two is not empty.
LEMMA NotEmpty ==
    ASSUME NEW w, Len(w) = 2
    PROVE  w # <<>>
OBVIOUS

\* What is unread is made of parts, and stays so when the first one is read.
LEMMA Unread ==
    ASSUME NEW w \in Seq(Part), w # <<>>
    PROVE  /\ Tail(w) \in Seq(Part) /\ Head(w) \in Part
           /\ Head(w).of \in Requests \cup {"refused"}
           /\ Head(w).part \in {"continue", "head", "body"}
<1>1. Tail(w) \in Seq(Part) /\ Head(w) \in Part
  BY HeadTailProperties
<1> QED
  BY <1>1 DEF Part

\* What the server sends is made of parts.
LEMMA Sent ==
    ASSUME NEW w \in Seq(Part), NEW r \in Id
    PROVE  /\ w \o Answer(r) \in Seq(Part)
           /\ <<[of |-> r, part |-> "continue"]>> \in Seq(Part)
<1>1. Answer(r) \in Seq(Part) /\ Part1(r) \in Part
  BY OwnSeq, PartTypes
<1> QED
  BY <1>1, ConcatProperties DEF Part1

\* Every step keeps the types.
LEMMA TypesStep == Types /\ [Next]_vars => Types'
<1> SUFFICES ASSUME Types, [Next]_vars PROVE Types'
  OBVIOUS
<1> USE NoneIsNoRequest DEF Types
<1>1. ASSUME NEW r \in Requests, Submit(r) PROVE Types'
  BY <1>1 DEF Submit, threadVars, netVars
<1>2. ASSUME TakeRequest PROVE Types'
  BY <1>2 DEF TakeRequest, threadVars, netVars
<1>3. ASSUME Kill PROVE Types'
  BY <1>3 DEF Kill, Fail, threadVars, netVars
<1>4. ASSUME OpenConn PROVE Types'
  BY <1>4 DEF OpenConn, threadVars, netVars
<1>19. ASSUME OpenFails \/ OpenAgain PROVE Types'
  BY <1>19 DEF OpenFails, OpenAgain, threadVars, netVars
<1>5. ASSUME Send PROVE Types'
  BY <1>5 DEF Send, Fail, threadVars, netVars
<1>6. ASSUME ReadContinue PROVE Types'
  <2>1. wire[conn] \in Seq(Part) /\ wire[conn] # <<>> /\ conn \in Requests
    BY <1>6 DEF ReadContinue
  <2>2. /\ Tail(wire[conn]) \in Seq(Part)
        /\ Head(wire[conn]).of \in Requests \cup {"refused"}
        /\ wire' \in [Requests -> Seq(Part)]
    BY <1>6, <2>1, Unread DEF ReadContinue
  <2>3. again' \in [Requests -> {"none", "behind", "ahead", "refused"}]
    BY <1>6 DEF ReadContinue
  <2>4. answer' \in [Requests -> Requests \cup {None, "error", "refused"}]
    BY <1>6 DEF ReadContinue, Fail
  <2> QED
    BY <1>6, <2>1, <2>2, <2>3, <2>4 DEF ReadContinue, Fail, threadVars, netVars
<1>7. ASSUME ReadHead PROVE Types'
  <2>1. wire[conn] \in Seq(Part) /\ wire[conn] # <<>> /\ conn \in Requests
    BY <1>7 DEF ReadHead
  <2>2. /\ Tail(wire[conn]) \in Seq(Part)
        /\ Head(wire[conn]).of \in Requests \cup {"refused"}
        /\ wire' \in [Requests -> Seq(Part)]
    BY <1>7, <2>1, Unread DEF ReadHead
  <2> QED
    BY <1>7, <2>1, <2>2 DEF ReadHead, threadVars, netVars
<1>8. ASSUME ReadFails PROVE Types'
  BY <1>8 DEF ReadFails, Fail, threadVars, netVars
<1>9. ASSUME ReadBody PROVE Types'
  <2>1. wire[conn] \in Seq(Part) /\ wire[conn] # <<>> /\ conn \in Requests
    BY <1>9 DEF ReadBody
  <2>2. /\ Tail(wire[conn]) \in Seq(Part)
        /\ Head(wire[conn]).of \in Requests \cup {"refused"}
        /\ wire' \in [Requests -> Seq(Part)]
    BY <1>9, <2>1, Unread DEF ReadBody
  <2>3. answer' \in [Requests -> Requests \cup {None, "error", "refused"}]
    BY <1>9 DEF ReadBody
  <2> QED
    BY <1>9, <2>1, <2>2, <2>3 DEF ReadBody, threadVars, netVars
<1>10. ASSUME SlowSend PROVE Types'
  BY <1>10 DEF SlowSend, threadVars, netVars
<1>11. ASSUME SlowAnswer PROVE Types'
  <2>1. cur \in Requests /\ wire[cur] \in Seq(Part)
    BY <1>11 DEF SlowAnswer
  <2>2. CASE Len(wire[cur]) = 2
    <3>1. wire[cur] # <<>>
      BY <2>2, NotEmpty
    <3>2. Head(wire[cur]).of \in Requests \cup {"refused"}
      BY <2>1, <3>1, Unread
    <3> QED
      BY <1>11, <2>1, <3>2, <2>2 DEF SlowAnswer, threadVars, netVars
  <2>3. CASE Len(wire[cur]) # 2
    BY <1>11, <2>1, <2>3 DEF SlowAnswer, threadVars, netVars
  <2> QED
    BY <2>2, <2>3
<1>12. ASSUME NEW c \in Requests, ServerContinue(c) PROVE Types'
  <2>1. inbox[c] \in Requests
    BY <1>12, PostsAreRequests DEF ServerContinue
  <2>2. wire' \in [Requests -> Seq(Part)]
    BY <1>12, <2>1, Sent, EmptySeq DEF ServerContinue, Id
  <2> QED
    BY <1>12, <2>2 DEF ServerContinue, threadVars, netVars
<1>13. ASSUME NEW c \in Requests, ServerExecute(c) PROVE Types'
  <2>1. inbox[c] \in Requests
    BY <1>13 DEF ServerExecute
  <2>2. wire[c] \o Answer(inbox[c]) \in Seq(Part)
    BY <2>1, Sent DEF Id
  <2>3. wire' \in [Requests -> Seq(Part)]
    BY <1>13, <2>2 DEF ServerExecute
  <2>4. executed' \in Seq(Requests) /\ inbox' \in [Requests -> Requests \cup {None}]
    BY <1>13, <2>1 DEF ServerExecute
  <2>5. again' \in [Requests -> {"none", "behind", "ahead", "refused"}]
    BY <1>13 DEF ServerExecute
  <2> QED
    BY <1>13, <2>3, <2>4, <2>5 DEF ServerExecute, threadVars, netVars
<1>14. ASSUME NEW c \in Requests, ServerRefuses(c) PROVE Types'
  <2>1. wire[c] \o Answer("refused") \in Seq(Part)
    BY Sent DEF Id
  <2>2. wire' \in [Requests -> Seq(Part)]
    BY <1>14, <2>1 DEF ServerRefuses
  <2> QED
    BY <1>14, <2>2 DEF ServerRefuses, threadVars, netVars
<1>15. ASSUME NEW c \in Requests, Break(c) PROVE Types'
  <2>1. \A n \in 0 .. Len(wire[c]) : SubSeq(wire[c], 1, n) \in Seq(Part)
    BY CutSeq
  <2>2. wire' \in [Requests -> Seq(Part)]
    BY <1>15, <2>1 DEF Break
  <2> QED
    BY <1>15, <2>2 DEF Break, threadVars, netVars
<1>16. ASSUME Tick PROVE Types'
  BY <1>16 DEF Tick, threadVars, netVars
<1>17. ASSUME Rest PROVE Types'
  BY <1>17 DEF Rest, vars, threadVars, netVars
<1>18. CASE UNCHANGED vars
  BY <1>18 DEF vars, threadVars, netVars
<1> HIDE DEF Types
<1> QED
  BY <1>1, <1>2, <1>3, <1>4, <1>5, <1>6, <1>7, <1>8, <1>9, <1>10, <1>11,
     <1>12, <1>13, <1>14, <1>15, <1>16, <1>17, <1>18, <1>19
  DEF Next, Thread

-----------------------------------------------------------------------------
(* Where a request is.                                                      *)

\* A request stays in one place.
LEMMA QueueStep == Types /\ QueueInv /\ [Next]_vars => QueueInv'
<1> SUFFICES ASSUME Types, QueueInv, [Next]_vars PROVE QueueInv'
  OBVIOUS
<1> USE NoneIsNoRequest DEF Types, QueueInv
<1>1. ASSUME NEW r \in Requests, Submit(r) PROVE QueueInv'
  <2>1. /\ \A i \in 1 .. Len(chan) : chan[i] # r
        /\ chan \in Seq(Requests) /\ Len(chan) \in Nat
    BY <1>1 DEF Submit, Put
  <2>2. /\ Len(chan') = Len(chan) + 1 /\ chan'[Len(chan) + 1] = r
        /\ \A i \in 1 .. Len(chan) : chan'[i] = chan[i]
    BY <1>1, <2>1 DEF Submit
  <2>3. r # cur /\ answer[r] = None
    BY <1>1 DEF Submit
  <2>4. /\ \A i, j \in 1 .. Len(chan') : chan'[i] = chan'[j] => i = j
        /\ \A i \in 1 .. Len(chan') : answer[chan'[i]] = None /\ chan'[i] # cur
    <3>1. \A i \in 1 .. Len(chan') : i \in 1 .. Len(chan) \/ i = Len(chan) + 1
      BY <2>1, <2>2
    <3>2. \A i \in 1 .. Len(chan') : answer[chan'[i]] = None /\ chan'[i] # cur
      BY <2>2, <2>3, <3>1
    <3>3. \A i, j \in 1 .. Len(chan') : chan'[i] = chan'[j] => i = j
      <4> SUFFICES ASSUME NEW i \in 1 .. Len(chan'), NEW j \in 1 .. Len(chan'),
                          chan'[i] = chan'[j]
                   PROVE  i = j
        OBVIOUS
      <4>1. CASE i \in 1 .. Len(chan) /\ j \in 1 .. Len(chan)
        BY <2>2, <4>1
      <4>2. CASE i = Len(chan) + 1 \/ j = Len(chan) + 1
        BY <2>1, <2>2, <3>1, <4>2
      <4> QED
        BY <3>1, <4>1, <4>2
    <3> QED
      BY <3>2, <3>3
  <2> QED
    BY <1>1, <2>4 DEF Submit, threadVars, netVars
<1>2. ASSUME TakeRequest PROVE QueueInv'
  BY <1>2 DEF TakeRequest, threadVars, netVars
<1>3. ASSUME Kill PROVE QueueInv'
  BY <1>3 DEF Kill, Fail, threadVars, netVars
<1>4. ASSUME OpenConn PROVE QueueInv'
  BY <1>4 DEF OpenConn, threadVars, netVars
<1>19. ASSUME OpenFails \/ OpenAgain PROVE QueueInv'
  BY <1>19 DEF OpenFails, OpenAgain, threadVars, netVars
<1>5. ASSUME Send PROVE QueueInv'
  BY <1>5 DEF Send, Fail, threadVars, netVars
<1>6. ASSUME ReadContinue PROVE QueueInv'
  BY <1>6 DEF ReadContinue, Fail, threadVars, netVars
<1>7. ASSUME ReadHead PROVE QueueInv'
  BY <1>7 DEF ReadHead, threadVars, netVars
<1>8. ASSUME ReadFails PROVE QueueInv'
  BY <1>8 DEF ReadFails, Fail, threadVars, netVars
<1>9. ASSUME ReadBody PROVE QueueInv'
  BY <1>9 DEF ReadBody, threadVars, netVars
<1>10. ASSUME SlowSend PROVE QueueInv'
  BY <1>10 DEF SlowSend, threadVars, netVars
<1>11. ASSUME SlowAnswer PROVE QueueInv'
  BY <1>11 DEF SlowAnswer, threadVars, netVars
<1>12. ASSUME NEW c \in Requests, ServerContinue(c) PROVE QueueInv'
  BY <1>12 DEF ServerContinue, threadVars, netVars
<1>13. ASSUME NEW c \in Requests, ServerExecute(c) PROVE QueueInv'
  BY <1>13 DEF ServerExecute, threadVars, netVars
<1>14. ASSUME NEW c \in Requests, ServerRefuses(c) PROVE QueueInv'
  BY <1>14 DEF ServerRefuses, threadVars, netVars
<1>15. ASSUME NEW c \in Requests, Break(c) PROVE QueueInv'
  BY <1>15 DEF Break, threadVars, netVars
<1>16. ASSUME Tick PROVE QueueInv'
  BY <1>16 DEF Tick, threadVars, netVars
<1>17. ASSUME Rest PROVE QueueInv'
  BY <1>17 DEF Rest, vars, threadVars, netVars
<1>18. CASE UNCHANGED vars
  BY <1>18 DEF vars, threadVars, netVars
<1> HIDE DEF Types, QueueInv
<1> QED
  BY <1>1, <1>2, <1>3, <1>4, <1>5, <1>6, <1>7, <1>8, <1>9, <1>10, <1>11,
     <1>12, <1>13, <1>14, <1>15, <1>16, <1>17, <1>18, <1>19
  DEF Next, Thread

\* A connection is not used before its request.
LEMMA UnusedStep ==
    Types /\ QueueInv /\ UnusedInv /\ BodyInv /\ [Next]_vars => UnusedInv'
<1> SUFFICES ASSUME Types, QueueInv, UnusedInv, BodyInv, [Next]_vars
             PROVE  UnusedInv'
  OBVIOUS
<1> USE NoneIsNoRequest DEF Types, QueueInv, UnusedInv, Line
<1>1. ASSUME NEW r \in Requests, Submit(r) PROVE UnusedInv'
  BY <1>1 DEF Submit, threadVars, netVars
<1>2. ASSUME TakeRequest PROVE UnusedInv'
  BY <1>2 DEF TakeRequest, threadVars, netVars
<1>3. ASSUME Kill PROVE UnusedInv'
  <2>1. CASE Fail
    <3>1. /\ \A r \in Requests : answer[r] # None => answer'[r] # None
          /\ cur \in Requests => answer'[cur] # None
      BY <2>1 DEF Fail
    <3>2. conn' = None /\ pc' = "idle"
      BY <2>1 DEF Fail
    <3> QED
      BY <1>3, <2>1, <3>1, <3>2 DEF Kill, threadVars, netVars
  <2>2. CASE ~Fail
    BY <1>3, <2>2 DEF Kill, threadVars, netVars
  <2> QED
    BY <2>1, <2>2
<1>4. ASSUME OpenConn PROVE UnusedInv'
  BY <1>4 DEF OpenConn, threadVars, netVars
<1>19. ASSUME OpenFails \/ OpenAgain PROVE UnusedInv'
  BY <1>19 DEF OpenFails, OpenAgain, threadVars, netVars
<1>5. ASSUME Send PROVE UnusedInv'
  <2>1. CASE Fail
    <3>1. /\ \A r \in Requests : answer[r] # None => answer'[r] # None
          /\ cur \in Requests => answer'[cur] # None
      BY <2>1 DEF Fail
    <3>2. conn' = None /\ pc' = "idle"
      BY <2>1 DEF Fail
    <3> QED
      BY <1>5, <2>1, <3>1, <3>2 DEF Send, threadVars, netVars
  <2>2. CASE ~Fail
    BY <1>5, <2>2 DEF Send, threadVars, netVars
  <2> QED
    BY <2>1, <2>2
<1>6. ASSUME ReadContinue PROVE UnusedInv'
  BY <1>6 DEF ReadContinue, Fail, threadVars, netVars
<1>7. ASSUME ReadHead PROVE UnusedInv'
  BY <1>7 DEF ReadHead, threadVars, netVars
<1>8. ASSUME ReadFails PROVE UnusedInv'
  BY <1>8 DEF ReadFails, Fail, threadVars, netVars
<1>9. ASSUME ReadBody PROVE UnusedInv'
  <2>1. got # None /\ cur \in Requests
    BY <1>9 DEF ReadBody, BodyInv
  <2>2. /\ \A r \in Requests : answer[r] # None => answer'[r] # None
        /\ answer'[cur] # None
    BY <1>9, <2>1 DEF ReadBody
  <2>3. wire' = [wire EXCEPT ![conn] = Tail(wire[conn])] /\ conn \in Requests
    BY <1>9 DEF ReadBody
  <2> QED
    BY <1>9, <2>1, <2>2, <2>3 DEF ReadBody, threadVars, netVars
<1>10. ASSUME SlowSend PROVE UnusedInv'
  BY <1>10 DEF SlowSend, threadVars, netVars
<1>11. ASSUME SlowAnswer PROVE UnusedInv'
  <2>1. wire[cur] \in Seq(Part) /\ cur \in Requests
    BY <1>11 DEF SlowAnswer
  <2>2. Len(wire[cur]) = 2 => Head(wire[cur]).of # None
    BY <2>1, NotEmpty, Unread
  <2>3. /\ \A r \in Requests : answer[r] # None => answer'[r] # None
        /\ answer'[cur] # None
    BY <1>11, <2>1, <2>2 DEF SlowAnswer
  <2> QED
    BY <1>11, <2>1, <2>3 DEF SlowAnswer, threadVars, netVars
<1>12. ASSUME NEW c \in Requests, ServerContinue(c) PROVE UnusedInv'
  BY <1>12 DEF ServerContinue, threadVars, netVars
<1>13. ASSUME NEW c \in Requests, ServerExecute(c) PROVE UnusedInv'
  BY <1>13 DEF ServerExecute, threadVars, netVars
<1>14. ASSUME NEW c \in Requests, ServerRefuses(c) PROVE UnusedInv'
  BY <1>14 DEF ServerRefuses, threadVars, netVars
<1>15. ASSUME NEW c \in Requests, Break(c) PROVE UnusedInv'
  BY <1>15 DEF Break, threadVars, netVars
<1>16. ASSUME Tick PROVE UnusedInv'
  BY <1>16 DEF Tick, threadVars, netVars
<1>17. ASSUME Rest PROVE UnusedInv'
  BY <1>17 DEF Rest, vars, threadVars, netVars
<1>18. CASE UNCHANGED vars
  BY <1>18 DEF vars, threadVars, netVars
<1> HIDE DEF Types, QueueInv, UnusedInv, Line
<1> QED
  BY <1>1, <1>2, <1>3, <1>4, <1>5, <1>6, <1>7, <1>8, <1>9, <1>10, <1>11,
     <1>12, <1>13, <1>14, <1>15, <1>16, <1>17, <1>18, <1>19
  DEF Next, Thread

\* An answer stays.
LEMMA AnswersStay ==
    Types /\ QueueInv /\ [Next]_vars =>
        \A r \in Requests : answer[r] # None => answer'[r] = answer[r]
<1> DEFINE Stay == \A r \in Requests : answer[r] # None => answer'[r] = answer[r]
<1> SUFFICES ASSUME Types, QueueInv, [Next]_vars PROVE Stay
  OBVIOUS
<1> USE NoneIsNoRequest DEF Types, QueueInv
<1>1. ASSUME NEW s \in Requests, Submit(s) PROVE Stay
  BY <1>1 DEF Submit, threadVars, netVars
<1>2. ASSUME TakeRequest PROVE Stay
  BY <1>2 DEF TakeRequest, threadVars, netVars
<1>3. ASSUME Kill PROVE Stay
  BY <1>3 DEF Kill, Fail, threadVars, netVars
<1>4. ASSUME OpenConn PROVE Stay
  BY <1>4 DEF OpenConn, threadVars, netVars
<1>19. ASSUME OpenFails \/ OpenAgain PROVE Stay
  BY <1>19 DEF OpenFails, OpenAgain, threadVars, netVars
<1>5. ASSUME Send PROVE Stay
  BY <1>5 DEF Send, Fail, threadVars, netVars
<1>6. ASSUME ReadContinue PROVE Stay
  BY <1>6 DEF ReadContinue, Fail, threadVars, netVars
<1>7. ASSUME ReadHead PROVE Stay
  BY <1>7 DEF ReadHead, threadVars, netVars
<1>8. ASSUME ReadFails PROVE Stay
  BY <1>8 DEF ReadFails, Fail, threadVars, netVars
<1>9. ASSUME ReadBody PROVE Stay
  BY <1>9 DEF ReadBody, threadVars, netVars
<1>10. ASSUME SlowSend PROVE Stay
  BY <1>10 DEF SlowSend, threadVars, netVars
<1>11. ASSUME SlowAnswer PROVE Stay
  BY <1>11 DEF SlowAnswer, threadVars, netVars
<1>12. ASSUME NEW c \in Requests, ServerContinue(c) PROVE Stay
  BY <1>12 DEF ServerContinue, threadVars, netVars
<1>13. ASSUME NEW c \in Requests, ServerExecute(c) PROVE Stay
  BY <1>13 DEF ServerExecute, threadVars, netVars
<1>14. ASSUME NEW c \in Requests, ServerRefuses(c) PROVE Stay
  BY <1>14 DEF ServerRefuses, threadVars, netVars
<1>15. ASSUME NEW c \in Requests, Break(c) PROVE Stay
  BY <1>15 DEF Break, threadVars, netVars
<1>16. ASSUME Tick PROVE Stay
  BY <1>16 DEF Tick, threadVars, netVars
<1>17. ASSUME Rest PROVE Stay
  BY <1>17 DEF Rest, vars, threadVars, netVars
<1>18. CASE UNCHANGED vars
  BY <1>18 DEF vars, threadVars, netVars
<1> HIDE DEF Types, QueueInv
<1> QED
  BY <1>1, <1>2, <1>3, <1>4, <1>5, <1>6, <1>7, <1>8, <1>9, <1>10, <1>11,
     <1>12, <1>13, <1>14, <1>15, <1>16, <1>17, <1>18, <1>19
  DEF Next, Thread

\* A request that has been served stays served.
LEMMA ServedStays == Types /\ QueueInv /\ [Next]_vars /\ Served => Served'
BY AnswersStay, PostsAreRequests, NoneIsNoRequest DEF Served

-----------------------------------------------------------------------------
(* What is unread.                                                          *)

\* No connection ever holds more than the parts of one unread answer.
LEMMA Short ==
    ASSUME Types, LeftInv, QuietInv, HeadInv, BodyInv
    PROVE  \A c \in Requests : again[c] = "none" => Len(wire[c]) <= 3
<1> SUFFICES ASSUME NEW c \in Requests, again[c] = "none"
             PROVE  Len(wire[c]) <= 3
  OBVIOUS
<1>1. CASE ~Line(c)
  BY <1>1 DEF LeftInv
<1>2. CASE Line(c) /\ pc \in {"head", "slowAnswer"}
  <2>1. wire[c] \in Own(cur) \/ wire[c] = <<>>
    <3>1. HeadLine(c)
      BY <1>2 DEF HeadInv
    <3> QED
      BY <3>1 DEF HeadLine, Answering, Repeated, Refused, Overtaken
  <2>2. cur \in Id
    BY <1>2 DEF Types, Id
  <2> QED
    BY <2>1, <2>2, OwnSeq
<1>3. CASE Line(c) /\ pc = "body"
  <2>1. wire[c] \in Half(cur) /\ cur \in Id
    BY <1>3 DEF BodyInv, Line, Types, Id
  <2> QED
    BY <2>1, OwnSeq
<1>4. CASE Line(c) /\ pc \notin {"head", "body", "slowAnswer"}
  <2>1. c = conn /\ conn # None
    BY <1>4, NoneIsNoRequest DEF Line
  <2>2. wire[c] = <<>>
    BY <1>4, <2>1 DEF QuietInv
  <2> QED
    BY <2>2
<1> QED
  BY <1>1, <1>2, <1>3, <1>4

\* Before the server answers there are not two parts.
LEMMA AskedShort == \A r : \A w \in Asked(r) : Len(w) # 2
BY DEF Asked

\* A connection that has been left is quiet.
LEMMA LeftStep ==
    Types /\ QueueInv /\ UnusedInv /\ LeftInv /\ QuietInv /\ HeadInv /\ BodyInv
        /\ [Next]_vars
        => LeftInv'
<1> SUFFICES ASSUME Types, QueueInv, UnusedInv, LeftInv, QuietInv, HeadInv,
                    BodyInv, [Next]_vars
             PROVE  LeftInv'
  OBVIOUS
<1> USE NoneIsNoRequest DEF Types, LeftInv, Line
<1>1. ASSUME NEW r \in Requests, Submit(r) PROVE LeftInv'
  BY <1>1 DEF Submit, threadVars, netVars
<1>2. ASSUME TakeRequest PROVE LeftInv'
  BY <1>2 DEF TakeRequest, threadVars, netVars
<1>3. ASSUME Kill PROVE LeftInv'
  <2>1. link[conn] = "down" \/ link'[conn] = "down"
    BY <1>3 DEF Kill
  <2>8. \A c \in Requests : ~Line(c)' => (again[c] = "none" => Len(wire[c]) <= 3)'
    BY <1>3, Short DEF Kill, threadVars, netVars
  <2>9. \A c \in Requests : ~Line(c)' => (link[c] = "up" => inbox[c] = None)'
    BY <1>3 DEF Kill, Fail, threadVars, netVars
  <2> QED
    BY <2>8, <2>9
<1>4. ASSUME OpenConn PROVE LeftInv'
  <2>1. conn = None
    BY <1>4 DEF OpenConn, QueueInv
  <2>8. \A c \in Requests : ~Line(c)' => (again[c] = "none" => Len(wire[c]) <= 3)'
    BY <1>4, Short, <2>1 DEF OpenConn, threadVars, netVars
  <2>9. \A c \in Requests : ~Line(c)' => (link[c] = "up" => inbox[c] = None)'
    BY <1>4, <2>1 DEF OpenConn, Fail, threadVars, netVars
  <2> QED
    BY <2>8, <2>9
<1>19. ASSUME OpenFails \/ OpenAgain PROVE LeftInv'
  BY <1>19 DEF OpenFails, OpenAgain, threadVars, netVars
<1>5. ASSUME Send PROVE LeftInv'
  <2>8. \A c \in Requests : ~Line(c)' => (again[c] = "none" => Len(wire[c]) <= 3)'
    BY <1>5, Short DEF Send, threadVars, netVars
  <2>9. \A c \in Requests : ~Line(c)' => (link[c] = "up" => inbox[c] = None)'
    BY <1>5 DEF Send, Fail, threadVars, netVars
  <2> QED
    BY <2>8, <2>9
<1>6. ASSUME ReadContinue PROVE LeftInv'
  <2>1. wire[conn] \in Seq(Part) /\ wire[conn] # <<>> /\ conn \in Requests
    BY <1>6 DEF ReadContinue
  <2>2. Len(Tail(wire[conn])) <= Len(wire[conn])
    BY <2>1, HeadTailProperties, LenProperties
  <2>3. \A c \in Requests : Len(wire'[c]) <= Len(wire[c])
    BY <1>6, <2>2 DEF ReadContinue
  <2>4. \A c \in Requests : Len(wire[c]) \in Nat /\ Len(wire'[c]) \in Nat
    BY <1>6, Unread, <2>1 DEF ReadContinue
  <2>8. \A c \in Requests : ~Line(c)' => (again[c] = "none" => Len(wire[c]) <= 3)'
    BY <1>6, Short, <2>3, <2>4 DEF ReadContinue, threadVars, netVars
  <2>9. \A c \in Requests : ~Line(c)' => (link[c] = "up" => inbox[c] = None)'
    BY <1>6, <2>3, <2>4 DEF ReadContinue, Fail, threadVars, netVars
  <2> QED
    BY <2>8, <2>9
<1>7. ASSUME ReadHead PROVE LeftInv'
  BY <1>7 DEF ReadHead, threadVars, netVars
<1>8. ASSUME ReadFails PROVE LeftInv'
  <2>1. link[conn] = "down" \/ inbox[conn] = None
    BY <1>8 DEF ReadFails, BodyInv
  <2>8. \A c \in Requests : ~Line(c)' => (again[c] = "none" => Len(wire[c]) <= 3)'
    BY <1>8, Short, <2>1 DEF ReadFails, threadVars, netVars
  <2>9. \A c \in Requests : ~Line(c)' => (link[c] = "up" => inbox[c] = None)'
    BY <1>8, <2>1 DEF ReadFails, Fail, threadVars, netVars
  <2> QED
    BY <2>8, <2>9
<1>9. ASSUME ReadBody PROVE LeftInv'
  <2>1. wire[conn] \in Seq(Part) /\ wire[conn] # <<>> /\ conn \in Requests
    BY <1>9 DEF ReadBody
  <2>2. Len(Tail(wire[conn])) <= Len(wire[conn])
    BY <2>1, HeadTailProperties, LenProperties
  <2>3. \A c \in Requests : Len(wire'[c]) <= Len(wire[c])
    BY <1>9, <2>2 DEF ReadBody
  <2>4. \A c \in Requests : Len(wire[c]) \in Nat /\ Len(wire'[c]) \in Nat
    BY <1>9, Unread, <2>1 DEF ReadBody
  <2>5. inbox[conn] = None
    BY <1>9 DEF ReadBody, BodyInv
  <2>8. \A c \in Requests : ~Line(c)' => (again[c] = "none" => Len(wire[c]) <= 3)'
    BY <1>9, Short, <2>3, <2>4, <2>5 DEF ReadBody, threadVars, netVars
  <2>9. \A c \in Requests : ~Line(c)' => (link[c] = "up" => inbox[c] = None)'
    BY <1>9, <2>3, <2>4, <2>5 DEF ReadBody, Fail, threadVars, netVars
  <2> QED
    BY <2>8, <2>9
<1>10. ASSUME SlowSend PROVE LeftInv'
  BY <1>10 DEF SlowSend, threadVars, netVars
<1>11. ASSUME SlowAnswer PROVE LeftInv'
  <2>1. pc = "slowAnswer" /\ Len(wire[cur]) = 2 => inbox[cur] = None
    <3> SUFFICES ASSUME pc = "slowAnswer", Len(wire[cur]) = 2
                 PROVE  inbox[cur] = None
      OBVIOUS
    <3>1. Line(cur) /\ cur \in Id /\ cur \in Requests
      BY DEF Id
    <3>2. wire[cur] \notin Asked(cur)
      BY AskedShort
    <3>3. HeadLine(cur)
      BY <3>1 DEF HeadInv
    <3> QED
      BY <3>2, <3>3 DEF HeadLine, Answering, Repeated, Refused, Overtaken
  <2>8. \A c \in Requests : ~Line(c)' => (again[c] = "none" => Len(wire[c]) <= 3)'
    BY <1>11, Short, <2>1 DEF SlowAnswer, threadVars, netVars
  <2>9. \A c \in Requests : ~Line(c)' => (link[c] = "up" => inbox[c] = None)'
    BY <1>11, <2>1 DEF SlowAnswer, Fail, threadVars, netVars
  <2> QED
    BY <2>8, <2>9
<1>12. ASSUME NEW c \in Requests, ServerContinue(c) PROVE LeftInv'
  BY <1>12 DEF ServerContinue, threadVars, netVars
<1>13. ASSUME NEW c \in Requests, ServerExecute(c) PROVE LeftInv'
  BY <1>13 DEF ServerExecute, threadVars, netVars
<1>14. ASSUME NEW c \in Requests, ServerRefuses(c) PROVE LeftInv'
  BY <1>14 DEF ServerRefuses, threadVars, netVars
<1>15. ASSUME NEW c \in Requests, Break(c) PROVE LeftInv'
  BY <1>15 DEF Break, threadVars, netVars
<1>16. ASSUME Tick PROVE LeftInv'
  BY <1>16 DEF Tick, threadVars, netVars
<1>17. ASSUME Rest PROVE LeftInv'
  BY <1>17 DEF Rest, vars, threadVars, netVars
<1>18. CASE UNCHANGED vars
  BY <1>18 DEF vars, threadVars, netVars
<1> HIDE DEF Types, LeftInv, Line
<1> QED
  BY <1>1, <1>2, <1>3, <1>4, <1>5, <1>6, <1>7, <1>8, <1>9, <1>10, <1>11,
     <1>12, <1>13, <1>14, <1>15, <1>16, <1>17, <1>18, <1>19
  DEF Next, Thread

\* Between requests nothing is unread.
LEMMA QuietStep ==
    Types /\ QueueInv /\ UnusedInv /\ LeftInv /\ QuietInv /\ HeadInv /\ BodyInv
        /\ (Served => Served') /\ [Next]_vars
        => QuietInv'
<1> SUFFICES ASSUME Types, QueueInv, UnusedInv, LeftInv, QuietInv, HeadInv,
                    BodyInv, (Served => Served'), [Next]_vars
             PROVE  QuietInv'
  OBVIOUS
<1> USE NoneIsNoRequest DEF Types, QueueInv, QuietInv
<1>1. ASSUME NEW r \in Requests, Submit(r) PROVE QuietInv'
  BY <1>1 DEF Submit, threadVars, netVars
<1>2. ASSUME TakeRequest PROVE QuietInv'
  BY <1>2 DEF TakeRequest, threadVars, netVars
<1>3. ASSUME Kill PROVE QuietInv'
  BY <1>3 DEF Kill, Fail, threadVars, netVars
<1>4. ASSUME OpenConn PROVE QuietInv'
  <2>1. cur \in Requests /\ cur # None /\ conn = None /\ answer[cur] = None
    BY <1>4 DEF OpenConn
  <2>2. inbox[cur] = None /\ again[cur] = "none" /\ wire[cur] = <<>>
    BY <1>4, <2>1 DEF OpenConn, UnusedInv, Line
  <2>3. link'[cur] = "up" /\ conn' = cur
    BY <1>4, <2>1 DEF OpenConn
  <2> QED
    BY <1>4, <2>1, <2>2, <2>3 DEF OpenConn, threadVars, netVars
<1>19. ASSUME OpenFails \/ OpenAgain PROVE QuietInv'
  BY <1>19 DEF OpenFails, OpenAgain, threadVars, netVars
<1>5. ASSUME Send PROVE QuietInv'
  BY <1>5 DEF Send, Fail, threadVars, netVars
<1>6. ASSUME ReadContinue PROVE QuietInv'
  BY <1>6 DEF ReadContinue, Fail, threadVars, netVars
<1>7. ASSUME ReadHead PROVE QuietInv'
  BY <1>7 DEF ReadHead, threadVars, netVars
<1>8. ASSUME ReadFails PROVE QuietInv'
  BY <1>8 DEF ReadFails, Fail, threadVars, netVars
<1>9. ASSUME ReadBody PROVE QuietInv'
  <2> SUFFICES ASSUME conn' # None PROVE QuietInv'
    OBVIOUS
  <2>1. /\ conn' = conn /\ conn \in Requests /\ cur \in Requests
        /\ wire[conn] # <<>> /\ wire'[conn] = Tail(wire[conn])
        /\ answer'[cur] = got /\ pc = "body"
    BY <1>9 DEF ReadBody
  <2>2. UNCHANGED <<link, inbox, again>>
    BY <1>9 DEF ReadBody, netVars
  <2>3. cur \in Id /\ "refused" \in Id
    BY <2>1 DEF Id
  <2>4. got = cur /\ cur \in Posts => Served'
    BY <2>1 DEF Served
  <2>5. CASE got = cur /\ again[conn] \in {"none", "ahead"}
    <3>1. wire[conn] \in Half(cur)
      BY <2>1, <2>5 DEF BodyInv
    <3>2. wire'[conn] = <<>>
      BY <2>1, <3>1, HalfBody
    <3> QED
      BY <2>1, <2>2, <2>4, <2>5, <3>2 DEF BodyInv
  <2>6. CASE got = cur /\ again[conn] = "refused" /\ link[conn] = "down"
    <3>1. wire[conn] \in Half(cur) \/ wire[conn] = HalfRefused(cur)
      BY <2>1, <2>6 DEF BodyInv
    <3>2. wire'[conn] \in {<<>>, Refusal}
      BY <2>1, <2>3, <3>1, HalfBody, HalfRefusedParts
    <3> QED
      BY <2>1, <2>2, <2>4, <2>6, <3>2 DEF BodyInv
  <2>7. CASE /\ got = "refused" /\ again[conn] = "refused" /\ link[conn] = "down"
             /\ wire[conn] \in Half("refused") /\ Served
    <3>1. wire'[conn] = <<>>
      BY <2>1, <2>7, HalfBody
    <3> QED
      BY <2>1, <2>2, <2>7, <3>1 DEF BodyInv
  <2> QED
    BY <2>1, <2>5, <2>6, <2>7 DEF BodyInv
<1>10. ASSUME SlowSend PROVE QuietInv'
  BY <1>10 DEF SlowSend, threadVars, netVars
<1>11. ASSUME SlowAnswer PROVE QuietInv'
  BY <1>11 DEF SlowAnswer, threadVars, netVars
<1>12. ASSUME NEW c \in Requests, ServerContinue(c) PROVE QuietInv'
  <2>1. inbox[c] # None
    BY <1>12, PostsAreRequests DEF ServerContinue
  <2>2. \A d \in Requests : d # c => wire'[d] = wire[d]
    BY <1>12 DEF ServerContinue
  <2> QED
    BY <1>12, <2>1, <2>2 DEF ServerContinue, threadVars, netVars
<1>13. ASSUME NEW c \in Requests, ServerExecute(c) PROVE QuietInv'
  BY <1>13 DEF ServerExecute, threadVars, netVars
<1>14. ASSUME NEW c \in Requests, ServerRefuses(c) PROVE QuietInv'
  <2>1. UNCHANGED <<conn, pc>>
    BY <1>14 DEF ServerRefuses, threadVars
  <2>2. CASE c = conn
    <3>1. /\ again[c] = "ahead" /\ again'[c] = "refused"
          /\ link'[c] = "down" /\ inbox'[c] = None
      BY <1>14 DEF ServerRefuses
    <3>2. wire'[c] = wire[c] \/ wire'[c] = wire[c] \o Refusal
      BY <1>14 DEF ServerRefuses, Refusal
    <3> QED
      BY <2>1, <2>2, <3>1, <3>2, RefusalParts
  <2>3. CASE c # conn
    <3>1. \A d \in Requests : d # c => /\ wire'[d] = wire[d] /\ again'[d] = again[d]
                                       /\ link'[d] = link[d] /\ inbox'[d] = inbox[d]
      BY <1>14 DEF ServerRefuses
    <3> QED
      BY <2>1, <2>3, <3>1
  <2> QED
    BY <2>2, <2>3
<1>15. ASSUME NEW c \in Requests, Break(c) PROVE QuietInv'
  BY <1>15 DEF Break, threadVars, netVars
<1>16. ASSUME Tick PROVE QuietInv'
  BY <1>16 DEF Tick, threadVars, netVars
<1>17. ASSUME Rest PROVE QuietInv'
  BY <1>17 DEF Rest, vars, threadVars, netVars
<1>18. CASE UNCHANGED vars
  BY <1>18 DEF vars, threadVars, netVars
<1> HIDE DEF Types, QueueInv, QuietInv
<1> QED
  BY <1>1, <1>2, <1>3, <1>4, <1>5, <1>6, <1>7, <1>8, <1>9, <1>10, <1>11,
     <1>12, <1>13, <1>14, <1>15, <1>16, <1>17, <1>18, <1>19
  DEF Next, Thread

\* Only the rest of the answer is unread.
LEMMA BodyStep ==
    Types /\ QueueInv /\ HeadInv /\ BodyInv /\ (Served => Served') /\ [Next]_vars
        => BodyInv'
<1> SUFFICES ASSUME Types, QueueInv, HeadInv, BodyInv, (Served => Served'),
                    [Next]_vars
             PROVE  BodyInv'
  OBVIOUS
<1> USE NoneIsNoRequest DEF Types, BodyInv
<1>1. ASSUME NEW r \in Requests, Submit(r) PROVE BodyInv'
  BY <1>1 DEF Submit, threadVars, netVars
<1>2. ASSUME TakeRequest PROVE BodyInv'
  BY <1>2 DEF TakeRequest, threadVars, netVars
<1>3. ASSUME Kill PROVE BodyInv'
  BY <1>3 DEF Kill, Fail, threadVars, netVars
<1>4. ASSUME OpenConn PROVE BodyInv'
  BY <1>4 DEF OpenConn, threadVars, netVars
<1>19. ASSUME OpenFails \/ OpenAgain PROVE BodyInv'
  BY <1>19 DEF OpenFails, OpenAgain, threadVars, netVars
<1>5. ASSUME Send PROVE BodyInv'
  BY <1>5 DEF Send, Fail, threadVars, netVars
<1>6. ASSUME ReadContinue PROVE BodyInv'
  BY <1>6 DEF ReadContinue, Fail, threadVars, netVars
<1>7. ASSUME ReadHead PROVE BodyInv'
  <2>1. /\ conn \in Requests /\ cur \in Requests /\ cur \in Id
        /\ wire[conn] # <<>> /\ Head(wire[conn]).part # "continue"
        /\ got' = Head(wire[conn]).of /\ wire'[conn] = Tail(wire[conn])
    BY <1>7 DEF ReadHead, Id
  <2>2. UNCHANGED <<link, inbox, again, cur, conn>>
    BY <1>7 DEF ReadHead, netVars
  <2>3. HeadLine(conn)
    BY <1>7, <2>1 DEF ReadHead, HeadInv, Line
  <2> HIDE DEF BodyInv
  <2>4. CASE Answering(conn)
    <3>1. wire[conn] \in Own(cur)
      BY <2>4 DEF Answering
    <3>2. /\ got' = cur /\ wire'[conn] \in Half(cur) /\ wire[conn] \notin Asked(cur)
          /\ wire[conn] \in Whole(cur) => wire'[conn] = <<Part3(cur)>>
      BY <2>1, <3>1, OwnHead
    <3>3. inbox[conn] = None /\ again[conn] = "none"
      BY <2>3, <2>4, <3>2 DEF HeadLine, Answering
    <3> QED
      BY <2>2, <2>3, <2>4, <3>2, <3>3 DEF BodyInv, HeadLine, Answering
  <2>5. CASE Repeated(conn)
    <3>1. wire[conn] \in Own(cur)
      BY <2>5 DEF Repeated
    <3>2. /\ got' = cur /\ wire'[conn] \in Half(cur)
          /\ wire[conn] \in Whole(cur) => wire'[conn] = <<Part3(cur)>>
      BY <2>1, <3>1, OwnHead
    <3> QED
      BY <2>2, <2>3, <2>5, <3>2 DEF BodyInv, HeadLine, Repeated
  <2>6. CASE Refused(conn)
    <3>1. got' = cur /\ wire'[conn] \in Half(cur) \cup {HalfRefused(cur)}
      BY <2>1, <2>6, OwnHead, OwnRefusedParts DEF Refused
    <3> QED
      BY <2>2, <2>3, <2>6, <3>1 DEF BodyInv, HeadLine, Refused
  <2>7. CASE Overtaken(conn)
    <3>1. wire[conn] = Refusal /\ again[conn] = "refused"
      BY <2>1, <2>7 DEF Overtaken
    <3>2. got' = "refused" /\ wire'[conn] \in Half("refused")
      BY <2>1, <3>1, RefusalParts
    <3>3. Served' /\ got' # cur
      BY <2>1, <2>7, <3>2, OutcomesAreNoRequests DEF Overtaken
    <3> QED
      BY <2>2, <2>3, <2>7, <3>1, <3>2, <3>3 DEF BodyInv, HeadLine, Overtaken
  <2> QED
    BY <2>3, <2>4, <2>5, <2>6, <2>7 DEF HeadLine
<1>8. ASSUME ReadFails PROVE BodyInv'
  BY <1>8 DEF ReadFails, Fail, threadVars, netVars
<1>9. ASSUME ReadBody PROVE BodyInv'
  BY <1>9 DEF ReadBody, threadVars, netVars
<1>10. ASSUME SlowSend PROVE BodyInv'
  BY <1>10 DEF SlowSend, threadVars, netVars
<1>11. ASSUME SlowAnswer PROVE BodyInv'
  BY <1>11 DEF SlowAnswer, threadVars, netVars
<1>12. ASSUME NEW c \in Requests, ServerContinue(c) PROVE BodyInv'
  BY <1>12 DEF ServerContinue, threadVars, netVars
<1>13. ASSUME NEW c \in Requests, ServerExecute(c) PROVE BodyInv'
  BY <1>13 DEF ServerExecute, threadVars, netVars
<1>14. ASSUME NEW c \in Requests, ServerRefuses(c) PROVE BodyInv'
  <2>1. UNCHANGED <<conn, pc, got, cur>>
    BY <1>14 DEF ServerRefuses, threadVars
  <2>2. CASE c = conn /\ pc = "body"
    <3>1. /\ again[c] = "ahead" /\ again'[c] = "refused"
          /\ link'[c] = "down" /\ inbox'[c] = None
      BY <1>14 DEF ServerRefuses
    <3>2. IF link[c] = "up" THEN wire'[c] = wire[c] \o Refusal ELSE wire'[c] = wire[c]
      BY <1>14 DEF ServerRefuses, Refusal
    <3>3. got = cur /\ wire[c] \in Half(cur) /\ cur \in Posts
      BY <2>2, <3>1
    <3>4. wire'[c] \in Half(cur) \cup {HalfRefused(cur)}
      BY <2>2, <3>1, <3>2, <3>3 DEF HalfRefused
    <3> HIDE DEF Types
    <3> QED
      BY <2>1, <2>2, <3>1, <3>3, <3>4
  <2>3. CASE c # conn \/ pc # "body"
    <3>1. \A d \in Requests : d # c => /\ wire'[d] = wire[d] /\ again'[d] = again[d]
                                       /\ link'[d] = link[d] /\ inbox'[d] = inbox[d]
      BY <1>14 DEF ServerRefuses
    <3> QED
      BY <2>1, <2>3, <3>1
  <2> QED
    BY <2>2, <2>3
<1>15. ASSUME NEW c \in Requests, Break(c) PROVE BodyInv'
  <2>1. UNCHANGED <<conn, pc, got, cur, again>>
    BY <1>15 DEF Break, threadVars
  <2>2. CASE c = conn /\ pc = "body"
    <3>1. /\ link[c] = "up" /\ link'[c] = "down" /\ inbox'[c] = None
          /\ \E n \in 0 .. Len(wire[c]) : wire'[c] = SubSeq(wire[c], 1, n)
      BY <1>15, <2>2 DEF Break
    <3>2. got = cur /\ again[c] \in {"none", "ahead"} /\ wire[c] \in Half(cur)
      BY <2>2, <3>1
    <3>3. wire'[c] \in Half(cur)
      BY <2>2, <3>1, <3>2, OwnCut DEF Id
    <3> QED
      BY <2>1, <2>2, <3>1, <3>2, <3>3
  <2>3. CASE c # conn \/ pc # "body"
    <3>1. \A d \in Requests : d # c => /\ wire'[d] = wire[d] /\ link'[d] = link[d]
                                       /\ inbox'[d] = inbox[d]
      BY <1>15 DEF Break
    <3> QED
      BY <2>1, <2>3, <3>1
  <2> QED
    BY <2>2, <2>3
<1>16. ASSUME Tick PROVE BodyInv'
  BY <1>16 DEF Tick, threadVars, netVars
<1>17. ASSUME Rest PROVE BodyInv'
  BY <1>17 DEF Rest, vars, threadVars, netVars
<1>18. CASE UNCHANGED vars
  BY <1>18 DEF vars, threadVars, netVars
<1> HIDE DEF Types, BodyInv
<1> QED
  BY <1>1, <1>2, <1>3, <1>4, <1>5, <1>6, <1>7, <1>8, <1>9, <1>10, <1>11,
     <1>12, <1>13, <1>14, <1>15, <1>16, <1>17, <1>18, <1>19
  DEF Next, Thread

\* An answer starts with a head.
LEMMA AnswerHead ==
    ASSUME NEW r
    PROVE  Head(<<>> \o Answer(r)).part = "head"
<1>1. Answer(r) \in Seq({Part2(r), Part3(r)}) /\ Head(Answer(r)).part = "head"
  BY DEF Answer, Part2, Part3
<1> QED
  BY <1>1, ConcatEmptySeq

\* The first part is lost last.
LEMMA CutHead ==
    ASSUME NEW w \in Seq(Part), NEW n \in 0 .. Len(w), SubSeq(w, 1, n) # <<>>
    PROVE  w # <<>> /\ Head(SubSeq(w, 1, n)) = Head(w)
<1>1. /\ SubSeq(w, 1, n) \in Seq(Part) /\ Len(SubSeq(w, 1, n)) = n
      /\ \A i \in 1 .. n : SubSeq(w, 1, n)[i] = w[i]
  BY CutSeq
<1>2. n # 0
  BY <1>1, Explicit
<1>3. 1 \in 1 .. n /\ w # <<>>
  BY <1>2, LenProperties
<1> QED
  BY <1>1, <1>3

\* What is unread belongs to the request served.
LEMMA HeadStep ==
    Types /\ QueueInv /\ UnusedInv /\ QuietInv /\ HeadInv /\ [Next]_vars
        => HeadInv'
<1> SUFFICES ASSUME Types, QueueInv, UnusedInv, QuietInv, HeadInv, [Next]_vars
             PROVE  HeadInv'
  OBVIOUS
<1> USE NoneIsNoRequest DEF Types
<1>1. ASSUME NEW r \in Requests, Submit(r) PROVE HeadInv'
  <2>1. UNCHANGED <<cur, pc, conn, bodySent, answer, link, inbox, again, wire>>
    BY <1>1 DEF Submit, threadVars, netVars
  <2> QED
    BY <2>1 DEF HeadInv, Line, HeadLine, Answering, Repeated, Refused, Overtaken,
       Served
<1>2. ASSUME TakeRequest PROVE HeadInv'
  <2>1. pc' \notin {"head", "slowAnswer"}
    BY <1>2 DEF TakeRequest, Fail
  <2> QED
    BY <2>1 DEF HeadInv
<1>3. ASSUME Kill PROVE HeadInv'
  <2>1. pc' \notin {"head", "slowAnswer"}
    BY <1>3 DEF Kill, Fail
  <2> QED
    BY <2>1 DEF HeadInv
<1>4. ASSUME OpenConn PROVE HeadInv'
  <2>1. pc' \notin {"head", "slowAnswer"}
    BY <1>4 DEF OpenConn, Fail
  <2> QED
    BY <2>1 DEF HeadInv
<1>19. ASSUME OpenFails \/ OpenAgain PROVE HeadInv'
  <2>1. pc' \notin {"head", "slowAnswer"}
    BY <1>19 DEF OpenFails, OpenAgain
  <2> QED
    BY <2>1 DEF HeadInv
<1>5. ASSUME Send PROVE HeadInv'
  <2> SUFFICES ASSUME NEW c \in Requests, Line(c)', pc' = "head" PROVE HeadLine(c)'
    BY <1>5 DEF Send, Fail, HeadInv
  <2>1. /\ c = conn /\ conn # None /\ cur # None /\ pc = "send"
        /\ UNCHANGED <<cur, conn, bodySent, answer, link, again, wire>>
        /\ inbox'[c] = IF link[c] = "up" THEN cur ELSE inbox[c]
    BY <1>5 DEF Send, Fail, Line
  <2>2. ~bodySent /\ pc # "slowAnswer"
    BY <2>1 DEF QueueInv
  <2>3. /\ link[c] # "none" /\ inbox[c] = None
        /\ \/ again[c] \in {"none", "ahead"} /\ wire[c] = <<>>
           \/ again[c] = "refused" /\ link[c] = "down" /\ wire[c] \in {<<>>, Refusal}
        /\ again[c] # "none" => Served
    BY <2>1 DEF QuietInv
  <2>4. wire[c] # <<>> => Head(wire[c]).part # "continue"
    BY <2>3, RefusalParts
  <2>5. CASE again[c] = "none"
    <3>1. wire[c] \in Asked(cur) /\ wire[c] \in Own(cur)
      BY <2>1, <2>3, <2>5, OwnSeq DEF Id
    <3>2. Answering(c)'
      BY <2>1, <2>3, <2>5, <3>1 DEF Answering
    <3> QED
      BY <2>1, <2>2, <2>3, <2>4, <3>2 DEF HeadLine
  <2>6. CASE again[c] # "none"
    <3>1. Served'
      BY <2>1, <2>3, <2>6 DEF Served
    <3>2. Overtaken(c)'
      BY <2>1, <2>2, <2>3, <2>6, <3>1 DEF Overtaken
    <3> QED
      BY <2>1, <2>2, <2>3, <2>4, <3>2 DEF HeadLine
  <2> QED
    BY <2>5, <2>6
<1>6. ASSUME ReadContinue PROVE HeadInv'
  <2> SUFFICES ASSUME NEW c \in Requests, Line(c)', pc' \in {"head", "slowAnswer"}
               PROVE  HeadLine(c)'
    BY DEF HeadInv
  <2>1. /\ pc = "head" /\ conn \in Requests /\ cur \in Requests /\ cur \in Id /\ ~Fail
        /\ wire[conn] # <<>> /\ Head(wire[conn]).part = "continue"
    BY <1>6, NoneIsNoRequest DEF ReadContinue, Fail, Id
  <2>2. /\ UNCHANGED <<cur, conn, pc, link, inbox, answer>>
        /\ wire'[conn] = Tail(wire[conn]) /\ bodySent'
        /\ IF bodySent \/ link[conn] = "down" THEN again'[conn] = again[conn]
           ELSE again'[conn] = IF inbox[conn] = None THEN "ahead" ELSE "behind"
    BY <1>6, <2>1 DEF ReadContinue
  <2>3. c = conn
    BY <2>1, <2>2 DEF Line
  <2>4. HeadLine(c) /\ cur \in Posts
    BY <2>1, <2>3 DEF HeadInv, Line, HeadLine
  <2>5. Answering(c)' \/ Repeated(c)' \/ Refused(c)'
    <3>5. wire'[c] = Tail(wire[c]) /\ wire[c] # <<>> /\ Head(wire[c]).part = "continue"
      BY <2>1, <2>2, <2>3
    <3>1. CASE Answering(c)
      <4>0. wire[c] \in Own(cur)
        BY <3>1 DEF Answering
      <4>1. /\ wire'[c] \in Own(cur)
            /\ wire[c] \in Asked(cur) => wire'[c] = <<>>
            /\ wire[c] \in Whole(cur) => wire'[c] \in Whole(cur)
        BY <2>1, <3>5, <4>0, OwnContinue
      <4>2. <<>> \in Asked(cur)
        BY <2>1, OwnSeq
      <4>3. CASE bodySent \/ link[c] = "down"
        BY <2>2, <2>3, <3>1, <4>1, <4>2, <4>3 DEF Answering
      <4>4. CASE ~bodySent /\ link[c] = "up" /\ inbox[c] = None
        BY <2>2, <2>3, <3>1, <4>1, <4>4 DEF Answering, Repeated
      <4>5. CASE ~bodySent /\ link[c] = "up" /\ inbox[c] # None
        <5>1. inbox[c] = cur /\ wire'[c] = <<>>
          BY <2>4, <3>1, <4>1, <4>5 DEF HeadLine, Answering
        <5> QED
          BY <2>2, <2>3, <3>1, <4>1, <4>2, <4>5, <5>1, NoneIsNoRequest DEF Answering
      <4>6. link[c] \in {"up", "down"}
        BY <2>4 DEF HeadLine
      <4> QED
        BY <4>3, <4>4, <4>5, <4>6
    <3>2. CASE Repeated(c)
      <4>0. wire[c] \in Own(cur)
        BY <3>2 DEF Repeated
      <4>1. /\ wire'[c] \in Own(cur)
            /\ wire[c] \in Whole(cur) => wire'[c] \in Whole(cur)
        BY <2>1, <3>5, <4>0, OwnContinue
      <4> QED
        BY <2>2, <2>3, <3>2, <4>1 DEF Repeated
    <3>3. CASE Refused(c)
      <4>0. wire[c] \in Own(cur) \cup OwnRefused(cur)
        BY <3>3 DEF Refused
      <4>1. wire'[c] \in Own(cur) \cup OwnRefused(cur)
        BY <2>1, <3>5, <4>0, OwnContinue, OwnRefusedParts
      <4> QED
        BY <2>2, <2>3, <3>3, <4>1 DEF Refused
    <3>4. ~Overtaken(c)
      BY <2>1, <2>3, RefusalParts DEF Overtaken
    <3> QED
      BY <2>4, <3>1, <3>2, <3>3, <3>4 DEF HeadLine
  <2> QED
    BY <2>1, <2>2, <2>3, <2>4, <2>5 DEF HeadLine
<1>7. ASSUME ReadHead PROVE HeadInv'
  <2>1. pc' \notin {"head", "slowAnswer"}
    BY <1>7 DEF ReadHead, Fail
  <2> QED
    BY <2>1 DEF HeadInv
<1>8. ASSUME ReadFails PROVE HeadInv'
  <2>1. pc' \notin {"head", "slowAnswer"}
    BY <1>8 DEF ReadFails, Fail
  <2> QED
    BY <2>1 DEF HeadInv
<1>9. ASSUME ReadBody PROVE HeadInv'
  <2>1. pc' \notin {"head", "slowAnswer"}
    BY <1>9 DEF ReadBody, Fail
  <2> QED
    BY <2>1 DEF HeadInv
<1>10. ASSUME SlowSend PROVE HeadInv'
  <2> SUFFICES ASSUME NEW c \in Requests, Line(c)' PROVE HeadLine(c)'
    BY DEF HeadInv
  <2>1. /\ cur \in Requests /\ answer[cur] = None /\ conn = None /\ ~bodySent
        /\ pc = "slow" /\ slow
    BY <1>10, NoneIsNoRequest DEF SlowSend, QueueInv
  <2>2. /\ UNCHANGED <<cur, conn, bodySent, answer, again, wire>>
        /\ inbox'[cur] = cur /\ link'[cur] = "up"
    BY <1>10, <2>1 DEF SlowSend
  <2>3. c = cur
    BY <2>1, <2>2, NoneIsNoRequest DEF Line
  <2>4. again[cur] = "none" /\ wire[cur] = <<>>
    BY <2>1, NoneIsNoRequest DEF UnusedInv, Line
  <2>5. wire[cur] \in Asked(cur) /\ wire[cur] \in Own(cur)
    BY <2>1, <2>4, OwnSeq DEF Id
  <2>6. Answering(c)'
    BY <2>1, <2>2, <2>3, <2>4, <2>5, NoneIsNoRequest DEF Answering
  <2> QED
    BY <2>1, <2>2, <2>3, <2>4, <2>6 DEF HeadLine
<1>11. ASSUME SlowAnswer PROVE HeadInv'
  <2>1. pc' \notin {"head", "slowAnswer"}
    BY <1>11 DEF SlowAnswer, Fail
  <2> QED
    BY <2>1 DEF HeadInv
<1>12. ASSUME NEW c \in Requests, ServerContinue(c) PROVE HeadInv'
  <2>1. UNCHANGED <<cur, pc, conn, bodySent, answer>>
    BY <1>12 DEF ServerContinue, threadVars
  <2>2. /\ \A d \in Requests : d # c => /\ wire'[d] = wire[d] /\ again'[d] = again[d]
                                        /\ link'[d] = link[d] /\ inbox'[d] = inbox[d]
        /\ \A d \in Requests : Line(d)' <=> Line(d)
    BY <1>12, <2>1 DEF ServerContinue, Line
  <2>3. ASSUME NEW d \in Requests, d # c, HeadLine(d) PROVE HeadLine(d)'
    BY <2>1, <2>2, <2>3 DEF HeadLine, Answering, Repeated, Refused, Overtaken, Served
  <2>4. ASSUME Line(c), pc \in {"head", "slowAnswer"} PROVE HeadLine(c)'
    <3>1. HeadLine(c) /\ cur \in Id /\ cur # None
      BY <2>4 DEF HeadInv, Id
    <3>2. /\ inbox[c] \in Posts /\ link[c] = "up" /\ wire[c] = <<>> /\ again[c] # "ahead"
          /\ UNCHANGED <<link, inbox, again>>
      BY <1>12 DEF ServerContinue, netVars
    <3>3. inbox[c] = cur /\ cur \in Posts
      BY <3>1, <3>2, PostsAreRequests DEF HeadLine
    <3>4. wire'[c] = <<Part1(cur)>>
      BY <1>12, <3>3 DEF ServerContinue, Part1
    <3>5. wire'[c] \in Asked(cur) /\ wire'[c] \in Own(cur)
      BY <3>1, <3>4, OwnSeq
    <3>6. Answering(c)
      BY <3>1, <3>2, <3>3 DEF HeadLine, Repeated, Refused, Overtaken
    <3>7. Answering(c)'
      BY <2>1, <3>1, <3>2, <3>3, <3>5, <3>6 DEF Answering
    <3> QED
      BY <2>1, <3>1, <3>2, <3>3, <3>7 DEF HeadLine
  <2> QED
    BY <2>1, <2>2, <2>3, <2>4 DEF HeadInv
<1>13. ASSUME NEW c \in Requests, ServerExecute(c) PROVE HeadInv'
  <2>1. UNCHANGED <<cur, pc, conn, bodySent, answer>>
    BY <1>13 DEF ServerExecute, threadVars
  <2>2. /\ \A d \in Requests : d # c => /\ wire'[d] = wire[d] /\ again'[d] = again[d]
                                        /\ link'[d] = link[d] /\ inbox'[d] = inbox[d]
        /\ \A d \in Requests : Line(d)' <=> Line(d)
    BY <1>13, <2>1 DEF ServerExecute, Line
  <2>3. ASSUME NEW d \in Requests, d # c, HeadLine(d) PROVE HeadLine(d)'
    BY <2>1, <2>2, <2>3 DEF HeadLine, Answering, Repeated, Refused, Overtaken, Served
  <2>4. ASSUME Line(c), pc \in {"head", "slowAnswer"} PROVE HeadLine(c)'
    <3>1. HeadLine(c) /\ cur \in Id /\ cur # None
      BY <2>4 DEF HeadInv, Id
    <3>2. /\ inbox[c] # None /\ again[c] # "ahead" /\ inbox'[c] = None
          /\ again'[c] = IF again[c] = "behind" THEN "ahead" ELSE again[c]
          /\ UNCHANGED link
      BY <1>13 DEF ServerExecute
    <3>3. inbox[c] = cur
      BY <3>1, <3>2 DEF HeadLine
    <3>4. wire'[c] = IF link[c] = "up" THEN wire[c] \o Answer(cur) ELSE wire[c]
      BY <1>13, <3>3 DEF ServerExecute
    <3>5. Answering(c)
      BY <3>1, <3>2, <3>3 DEF HeadLine, Repeated, Refused, Overtaken
    <3>6. wire[c] \in Asked(cur) /\ wire[c] \in Own(cur)
      BY <3>3, <3>5 DEF Answering
    <3>7. /\ link[c] = "up" => wire'[c] \in Whole(cur)
          /\ wire'[c] \in Own(cur)
      <4>1. wire[c] \o Answer(cur) \in Whole(cur) /\ Whole(cur) \subseteq Own(cur)
        BY <3>1, <3>6, AskedAnswered, OwnSeq
      <4> QED
        BY <3>4, <3>6, <4>1
    <3>8. wire'[c] # <<>> /\ Head(wire'[c]).part = "continue" => cur \in Posts
      <4>1. CASE wire[c] = <<>> /\ link[c] = "up"
        BY <3>4, <4>1, AnswerHead
      <4>2. CASE wire[c] # <<>> /\ link[c] = "up"
        <5>1. wire[c] \in Seq(Part) /\ Answer(cur) \in Seq(Part)
          BY <3>1, OwnSeq
        <5> QED
          BY <3>1, <3>4, <4>2, <5>1, HeadTailConcat DEF HeadLine
      <4>3. CASE link[c] # "up"
        BY <3>1, <3>4, <4>3 DEF HeadLine
      <4> QED
        BY <4>1, <4>2, <4>3
    <3>9. Answering(c)' \/ Repeated(c)'
      <4>1. CASE again[c] = "behind"
        BY <2>1, <3>2, <3>5, <3>7, <4>1 DEF Answering, Repeated
      <4>2. CASE again[c] = "none"
        BY <2>1, <3>1, <3>2, <3>5, <3>7, <4>2 DEF Answering
      <4> QED
        BY <3>5, <4>1, <4>2 DEF Answering
    <3> QED
      BY <2>1, <3>1, <3>2, <3>8, <3>9 DEF HeadLine
  <2> QED
    BY <2>1, <2>2, <2>3, <2>4 DEF HeadInv
<1>14. ASSUME NEW c \in Requests, ServerRefuses(c) PROVE HeadInv'
  <2>1. UNCHANGED <<cur, pc, conn, bodySent, answer>>
    BY <1>14 DEF ServerRefuses, threadVars
  <2>2. /\ \A d \in Requests : d # c => /\ wire'[d] = wire[d] /\ again'[d] = again[d]
                                        /\ link'[d] = link[d] /\ inbox'[d] = inbox[d]
        /\ \A d \in Requests : Line(d)' <=> Line(d)
    BY <1>14, <2>1 DEF ServerRefuses, Line
  <2>3. ASSUME NEW d \in Requests, d # c, HeadLine(d) PROVE HeadLine(d)'
    BY <2>1, <2>2, <2>3 DEF HeadLine, Answering, Repeated, Refused, Overtaken, Served
  <2>4. ASSUME Line(c), pc \in {"head", "slowAnswer"} PROVE HeadLine(c)'
    <3>1. HeadLine(c) /\ cur \in Id /\ cur # None
      BY <2>4 DEF HeadInv, Id
    <3>2. /\ again[c] = "ahead" /\ again'[c] = "refused" /\ inbox'[c] = None
          /\ link'[c] = "down"
          /\ wire'[c] = IF link[c] = "up" THEN wire[c] \o Refusal ELSE wire[c]
      BY <1>14 DEF ServerRefuses, Refusal
    <3>3. pc # "slowAnswer"
      BY <3>1, <3>2 DEF HeadLine
    <3>4. CASE Repeated(c)
      <4>1. wire'[c] \in Own(cur) \cup OwnRefused(cur)
        BY <3>2, <3>4 DEF Repeated, OwnRefused
      <4>2. Refused(c)'
        BY <2>1, <3>2, <3>4, <4>1 DEF Repeated, Refused
      <4> QED
        BY <2>1, <3>1, <3>2, <3>3, <3>4, <4>2 DEF HeadLine, Repeated
    <3>5. CASE Overtaken(c)
      <4>1. wire'[c] \in {<<>>, Refusal}
        BY <3>2, <3>5, RefusalParts DEF Overtaken
      <4>2. Overtaken(c)'
        BY <2>1, <3>2, <3>5, <4>1 DEF Overtaken, Served
      <4>3. wire'[c] # <<>> => Head(wire'[c]).part # "continue"
        BY <4>1, RefusalParts
      <4> QED
        BY <2>1, <3>1, <3>2, <3>3, <4>2, <4>3 DEF HeadLine
    <3> QED
      BY <3>1, <3>2, <3>4, <3>5 DEF HeadLine, Answering, Refused
  <2> QED
    BY <2>1, <2>2, <2>3, <2>4 DEF HeadInv
<1>15. ASSUME NEW c \in Requests, Break(c) PROVE HeadInv'
  <2>1. UNCHANGED <<cur, pc, conn, bodySent, answer>>
    BY <1>15 DEF Break, threadVars
  <2>2. /\ \A d \in Requests : d # c => /\ wire'[d] = wire[d] /\ again'[d] = again[d]
                                        /\ link'[d] = link[d] /\ inbox'[d] = inbox[d]
        /\ \A d \in Requests : Line(d)' <=> Line(d)
    BY <1>15, <2>1 DEF Break, Line
  <2>3. ASSUME NEW d \in Requests, d # c, HeadLine(d) PROVE HeadLine(d)'
    BY <2>1, <2>2, <2>3 DEF HeadLine, Answering, Repeated, Refused, Overtaken, Served
  <2>4. ASSUME Line(c), pc \in {"head", "slowAnswer"} PROVE HeadLine(c)'
    <3>1. HeadLine(c) /\ cur \in Id /\ cur # None
      BY <2>4 DEF HeadInv, Id
    <3>2. /\ link[c] = "up" /\ link'[c] = "down" /\ inbox'[c] \in {inbox[c], None}
          /\ again' = again
      BY <1>15 DEF Break
    <3>3. PICK n \in 0 .. Len(wire[c]) : wire'[c] = SubSeq(wire[c], 1, n)
      BY <1>15 DEF Break
    <3>4. CASE Answering(c) \/ Repeated(c)
      <4>1. wire[c] \in Own(cur) /\ wire[c] \in Seq(Part)
        BY <3>4 DEF Answering, Repeated
      <4>2. /\ wire'[c] \in Own(cur)
            /\ wire[c] \in Asked(cur) => wire'[c] \in Asked(cur)
        BY <3>1, <3>3, <4>1, OwnCut
      <4>3. wire'[c] # <<>> => wire[c] # <<>> /\ Head(wire'[c]) = Head(wire[c])
        BY <3>3, <4>1, CutHead
      <4>4. Answering(c)' \/ Repeated(c)'
        <5>1. Answering(c) => Answering(c)'
          BY <2>1, <3>1, <3>2, <4>2 DEF Answering, HeadLine
        <5>2. Repeated(c) => Repeated(c)'
          BY <2>1, <3>2, <4>2 DEF Repeated
        <5> QED
          BY <3>4, <5>1, <5>2
      <4> QED
        BY <2>1, <3>1, <3>2, <4>3, <4>4 DEF HeadLine
    <3>5. CASE Overtaken(c) /\ again[c] = "ahead"
      <4>1. wire'[c] = <<>>
        BY <3>1, <3>3, <3>5, OwnCut DEF Overtaken
      <4>2. Overtaken(c)'
        BY <2>1, <3>2, <3>5, <4>1 DEF Overtaken, Served
      <4> QED
        BY <2>1, <3>1, <3>2, <4>1, <4>2 DEF HeadLine
    <3> QED
      BY <3>1, <3>2, <3>4, <3>5 DEF HeadLine, Refused, Overtaken
  <2> QED
    BY <2>1, <2>2, <2>3, <2>4 DEF HeadInv
<1>16. ASSUME Tick PROVE HeadInv'
  <2>1. UNCHANGED <<cur, pc, conn, bodySent, answer, link, inbox, again, wire>>
    BY <1>16 DEF Tick, threadVars, netVars
  <2> QED
    BY <2>1 DEF HeadInv, Line, HeadLine, Answering, Repeated, Refused, Overtaken,
       Served
<1>17. ASSUME Rest PROVE HeadInv'
  <2>1. UNCHANGED <<cur, pc, conn, bodySent, answer, link, inbox, again, wire>>
    BY <1>17 DEF Rest, vars, threadVars, netVars
  <2> QED
    BY <2>1 DEF HeadInv, Line, HeadLine, Answering, Repeated, Refused, Overtaken,
       Served
<1>18. CASE UNCHANGED vars
  <2>1. UNCHANGED <<cur, pc, conn, bodySent, answer, link, inbox, again, wire>>
    BY <1>18 DEF vars, threadVars, netVars
  <2> QED
    BY <2>1 DEF HeadInv, Line, HeadLine, Answering, Repeated, Refused, Overtaken,
       Served
<1> HIDE DEF Types
<1> QED
  BY <1>1, <1>2, <1>3, <1>4, <1>5, <1>6, <1>7, <1>8, <1>9, <1>10, <1>11,
     <1>12, <1>13, <1>14, <1>15, <1>16, <1>17, <1>18, <1>19
  DEF Next, Thread

-----------------------------------------------------------------------------
(* What is answered.                                                        *)

\* A refusal stays a refusal: no body is put once more on that connection.
LEMMA RefusedStays ==
    Types /\ QueueInv /\ HeadInv /\ [Next]_vars =>
        \A c \in Requests : again[c] = "refused" => again'[c] = "refused"
<1> DEFINE Stay == \A c \in Requests : again[c] = "refused" => again'[c] = "refused"
<1> SUFFICES ASSUME Types, QueueInv, HeadInv, [Next]_vars PROVE Stay
  OBVIOUS
<1> USE NoneIsNoRequest DEF Types
<1>1. ASSUME NEW r \in Requests, Submit(r) PROVE Stay
  BY <1>1 DEF Submit, threadVars, netVars
<1>2. ASSUME TakeRequest PROVE Stay
  BY <1>2 DEF TakeRequest, threadVars, netVars
<1>3. ASSUME Kill PROVE Stay
  BY <1>3 DEF Kill, Fail, threadVars, netVars
<1>4. ASSUME OpenConn PROVE Stay
  BY <1>4 DEF OpenConn, threadVars, netVars
<1>19. ASSUME OpenFails \/ OpenAgain PROVE Stay
  BY <1>19 DEF OpenFails, OpenAgain, threadVars, netVars
<1>5. ASSUME Send PROVE Stay
  BY <1>5 DEF Send, Fail, threadVars, netVars
<1>6. ASSUME ReadContinue PROVE Stay
  <2> SUFFICES ASSUME again[conn] = "refused", ~bodySent PROVE FALSE
    BY <1>6 DEF ReadContinue, Fail
  <2>1. conn \in Requests /\ HeadLine(conn)
    BY <1>6 DEF ReadContinue, HeadInv, Line
  <2>2. wire[conn] = Refusal
    BY <1>6, <2>1 DEF ReadContinue, HeadLine, Answering, Repeated, Refused, Overtaken
  <2> QED
    BY <1>6, <2>2, RefusalParts DEF ReadContinue
<1>7. ASSUME ReadHead PROVE Stay
  BY <1>7 DEF ReadHead, threadVars, netVars
<1>8. ASSUME ReadFails PROVE Stay
  BY <1>8 DEF ReadFails, Fail, threadVars, netVars
<1>9. ASSUME ReadBody PROVE Stay
  BY <1>9 DEF ReadBody, threadVars, netVars
<1>10. ASSUME SlowSend PROVE Stay
  BY <1>10 DEF SlowSend, threadVars, netVars
<1>11. ASSUME SlowAnswer PROVE Stay
  BY <1>11 DEF SlowAnswer, threadVars, netVars
<1>12. ASSUME NEW d \in Requests, ServerContinue(d) PROVE Stay
  BY <1>12 DEF ServerContinue, threadVars, netVars
<1>13. ASSUME NEW d \in Requests, ServerExecute(d) PROVE Stay
  BY <1>13 DEF ServerExecute, threadVars, netVars
<1>14. ASSUME NEW d \in Requests, ServerRefuses(d) PROVE Stay
  BY <1>14 DEF ServerRefuses, threadVars, netVars
<1>15. ASSUME NEW d \in Requests, Break(d) PROVE Stay
  BY <1>15 DEF Break, threadVars, netVars
<1>16. ASSUME Tick PROVE Stay
  BY <1>16 DEF Tick, threadVars, netVars
<1>17. ASSUME Rest PROVE Stay
  BY <1>17 DEF Rest, vars, threadVars, netVars
<1>18. CASE UNCHANGED vars
  BY <1>18 DEF vars, threadVars, netVars
<1> HIDE DEF Types
<1> QED
  BY <1>1, <1>2, <1>3, <1>4, <1>5, <1>6, <1>7, <1>8, <1>9, <1>10, <1>11,
     <1>12, <1>13, <1>14, <1>15, <1>16, <1>17, <1>18, <1>19
  DEF Next, Thread

\* Every answer is the request's own, or a refusal.
LEMMA AnsweredStep ==
    Types /\ QueueInv /\ HeadInv /\ BodyInv /\ AnsweredInv /\ [Next]_vars
        => AnsweredInv'
<1> SUFFICES ASSUME Types, QueueInv, HeadInv, BodyInv, AnsweredInv, [Next]_vars
             PROVE  AnsweredInv'
  OBVIOUS
<1> DEFINE Right(r) == \/ answer'[r] \in {None, "error", r}
                       \/ /\ answer'[r] = "refused"
                          /\ \E c \in Requests : again'[c] = "refused"
                          /\ \E p \in Posts \ {r} : answer'[p] = p
           Fresh == \A r \in Requests : answer[r] = None => Right(r)
<1> USE NoneIsNoRequest DEF Types
<1>a. /\ \A r \in Requests : answer[r] # None => answer'[r] = answer[r]
      /\ \A c \in Requests : again[c] = "refused" => again'[c] = "refused"
  BY AnswersStay, RefusedStays
<1>b. \A r \in Requests : answer[r] # None => Right(r)
  <2> SUFFICES ASSUME NEW r \in Requests, answer[r] # None PROVE Right(r)
    OBVIOUS
  <2>1. answer'[r] = answer[r] /\ Posts \subseteq Requests
    BY <1>a, PostsAreRequests
  <2>2. \A p \in Posts : answer[p] = p => answer'[p] = p
    BY <1>a, <2>1
  <2>3. CASE answer[r] \in {None, "error", r}
    BY <2>1, <2>3
  <2>4. CASE /\ answer[r] = "refused"
             /\ \E c \in Requests : again[c] = "refused"
             /\ \E p \in Posts \ {r} : answer[p] = p
    BY <1>a, <2>1, <2>2, <2>4
  <2> QED
    BY <2>3, <2>4 DEF AnsweredInv
<1> SUFFICES Fresh
  BY <1>b DEF AnsweredInv
<1>1. ASSUME NEW r \in Requests, Submit(r) PROVE Fresh
  <2>1. \A q \in Requests : answer'[q] \in {answer[q], "error"}
    BY <1>1 DEF Submit, Fail, threadVars
  <2> QED
    BY <2>1
<1>2. ASSUME TakeRequest PROVE Fresh
  <2>1. \A q \in Requests : answer'[q] \in {answer[q], "error"}
    BY <1>2 DEF TakeRequest, Fail, threadVars
  <2> QED
    BY <2>1
<1>3. ASSUME Kill PROVE Fresh
  <2>1. \A q \in Requests : answer'[q] \in {answer[q], "error"}
    BY <1>3 DEF Kill, Fail, threadVars
  <2> QED
    BY <2>1
<1>4. ASSUME OpenConn PROVE Fresh
  <2>1. \A q \in Requests : answer'[q] \in {answer[q], "error"}
    BY <1>4 DEF OpenConn, Fail, threadVars
  <2> QED
    BY <2>1
<1>19. ASSUME OpenFails \/ OpenAgain PROVE Fresh
  BY <1>19 DEF OpenFails, OpenAgain, threadVars, netVars
<1>5. ASSUME Send PROVE Fresh
  <2>1. \A q \in Requests : answer'[q] \in {answer[q], "error"}
    BY <1>5 DEF Send, Fail, threadVars
  <2> QED
    BY <2>1
<1>6. ASSUME ReadContinue PROVE Fresh
  <2>1. \A q \in Requests : answer'[q] \in {answer[q], "error"}
    BY <1>6 DEF ReadContinue, Fail, threadVars
  <2> QED
    BY <2>1
<1>7. ASSUME ReadHead PROVE Fresh
  <2>1. \A q \in Requests : answer'[q] \in {answer[q], "error"}
    BY <1>7 DEF ReadHead, Fail, threadVars
  <2> QED
    BY <2>1
<1>8. ASSUME ReadFails PROVE Fresh
  <2>1. \A q \in Requests : answer'[q] \in {answer[q], "error"}
    BY <1>8 DEF ReadFails, Fail, threadVars
  <2> QED
    BY <2>1
<1>9. ASSUME ReadBody PROVE Fresh
  <2>1. cur \in Requests /\ answer' = [answer EXCEPT ![cur] = got] /\ conn \in Requests
    BY <1>9 DEF ReadBody
  <2>2. CASE got = cur
    BY <2>1, <2>2
  <2>3. CASE got # cur
    <3>1. got = "refused" /\ again[conn] = "refused" /\ Served /\ answer[cur] = None
      BY <1>9, <2>1, <2>3 DEF ReadBody, BodyInv, QueueInv
    <3>2. PICK p \in Posts : answer[p] = p
      BY <3>1 DEF Served
    <3>3. p \in Requests /\ p # cur /\ answer'[p] = p
      BY <2>1, <3>1, <3>2, PostsAreRequests
    <3>4. again'[conn] = "refused"
      BY <1>a, <2>1, <3>1
    <3>5. \E p1 \in Posts \ {cur} : answer'[p1] = p1
      BY <3>2, <3>3
    <3> QED
      BY <2>1, <3>1, <3>4, <3>5
  <2> QED
    BY <2>2, <2>3
<1>10. ASSUME SlowSend PROVE Fresh
  <2>1. \A q \in Requests : answer'[q] \in {answer[q], "error"}
    BY <1>10 DEF SlowSend, Fail, threadVars
  <2> QED
    BY <2>1
<1>11. ASSUME SlowAnswer PROVE Fresh
  <2>1. pc = "slowAnswer" /\ Len(wire[cur]) = 2 => Head(wire[cur]).of = cur
    <3> SUFFICES ASSUME pc = "slowAnswer", Len(wire[cur]) = 2
                 PROVE  Head(wire[cur]).of = cur
      OBVIOUS
    <3>1. Line(cur) /\ cur \in Requests
      BY NoneIsNoRequest DEF Line
    <3>2. HeadLine(cur)
      BY <3>1 DEF HeadInv
    <3>3. wire[cur] \in Own(cur) \/ Len(wire[cur]) = 0
      BY <3>2 DEF HeadLine, Answering, Repeated, Refused, Overtaken
    <3> QED
      BY <3>1, <3>3, OwnTwo
  <2>2. \A r \in Requests : answer'[r] \in {answer[r], "error", r}
    BY <1>11, <2>1 DEF SlowAnswer
  <2> QED
    BY <2>2
<1>12. ASSUME NEW c \in Requests, ServerContinue(c) PROVE Fresh
  <2>1. \A q \in Requests : answer'[q] \in {answer[q], "error"}
    BY <1>12 DEF ServerContinue, Fail, threadVars
  <2> QED
    BY <2>1
<1>13. ASSUME NEW c \in Requests, ServerExecute(c) PROVE Fresh
  <2>1. \A q \in Requests : answer'[q] \in {answer[q], "error"}
    BY <1>13 DEF ServerExecute, Fail, threadVars
  <2> QED
    BY <2>1
<1>14. ASSUME NEW c \in Requests, ServerRefuses(c) PROVE Fresh
  <2>1. \A q \in Requests : answer'[q] \in {answer[q], "error"}
    BY <1>14 DEF ServerRefuses, Fail, threadVars
  <2> QED
    BY <2>1
<1>15. ASSUME NEW c \in Requests, Break(c) PROVE Fresh
  <2>1. \A q \in Requests : answer'[q] \in {answer[q], "error"}
    BY <1>15 DEF Break, Fail, threadVars
  <2> QED
    BY <2>1
<1>16. ASSUME Tick PROVE Fresh
  <2>1. \A q \in Requests : answer'[q] \in {answer[q], "error"}
    BY <1>16 DEF Tick, Fail, threadVars
  <2> QED
    BY <2>1
<1>17. ASSUME Rest PROVE Fresh
  <2>1. \A q \in Requests : answer'[q] \in {answer[q], "error"}
    BY <1>17 DEF Rest, vars, Fail, threadVars
  <2> QED
    BY <2>1
<1>18. CASE UNCHANGED vars
  BY <1>18 DEF vars, AnsweredInv
<1> HIDE DEF Types
<1> QED
  BY <1>1, <1>2, <1>3, <1>4, <1>5, <1>6, <1>7, <1>8, <1>9, <1>10, <1>11,
     <1>12, <1>13, <1>14, <1>15, <1>16, <1>17, <1>18, <1>19
  DEF Next, Thread

-----------------------------------------------------------------------------
(* What is executed.                                                        *)

\* What is put in a sequence.
LEMMA PutAppend ==
    ASSUME NEW s \in Seq(Requests), NEW r \in Requests
    PROVE  Put(Append(s, r)) = Put(s) \cup {r}
<1>1. /\ Len(s) \in Nat /\ Len(Append(s, r)) = Len(s) + 1
      /\ Append(s, r)[Len(s) + 1] = r
      /\ \A i \in 1 .. Len(s) : Append(s, r)[i] = s[i]
      /\ DOMAIN s = 1 .. Len(s) /\ DOMAIN Append(s, r) = 1 .. Len(s) + 1
  OBVIOUS
<1>2. 1 .. Len(s) + 1 = (1 .. Len(s)) \cup {Len(s) + 1}
  BY <1>1
<1> QED
  BY <1>1, <1>2 DEF Put

\* A request that has been sent for is with the server; once answered it is not, but
\* for a failed one, which may still be executed.
WithServer(c) == Line(c) /\ pc \in {"head", "slowAnswer"} /\ inbox[c] = cur
BeingServed == cur # None /\ pc \in {"head", "body", "slowAnswer"}

\* A step that sends and executes nothing keeps ExecutedInv.
LEMMA ExecutedKept ==
    ASSUME Types, ExecutedInv, UNCHANGED executed,
           \A c \in Requests : inbox'[c] \in {inbox[c], None},
           \A r \in Requests : answer[r] # None => answer'[r] = answer[r],
           \A c \in Requests : WithServer(c) =>
               answer'[cur] = "error" \/ inbox'[c] = None \/ (WithServer(c)' /\ cur' = cur),
           BeingServed => answer'[cur] # None \/ (BeingServed' /\ cur' = cur)
    PROVE  ExecutedInv'
<1>1. ASSUME NEW c \in Requests, inbox'[c] # None
      PROVE  /\ inbox'[c] \notin Put(executed')
             /\ answer'[inbox'[c]] = "error" \/ WithServer(c)'
  <2>1. inbox'[c] = inbox[c] /\ inbox[c] \in Requests /\ inbox[c] # None
    BY <1>1 DEF Types
  <2>2. inbox[c] \notin Put(executed) /\ (answer[inbox[c]] = "error" \/ WithServer(c))
    BY <2>1 DEF ExecutedInv, WithServer
  <2>3. answer[inbox[c]] = "error" => answer'[inbox[c]] = "error"
    BY <2>1, NoneIsNoRequest
  <2>4. WithServer(c) => inbox[c] = cur
    BY DEF WithServer
  <2> QED
    BY <1>1, <2>1, <2>2, <2>3, <2>4
<1>2. ASSUME NEW c \in Requests, NEW d \in Requests, inbox'[c] = inbox'[d], inbox'[c] # None
      PROVE  c = d
  BY <1>2 DEF ExecutedInv
<1>3. ASSUME NEW r \in Put(executed')
      PROVE  \/ answer'[r] # None
             \/ cur' = r /\ pc' \in {"head", "body", "slowAnswer"}
  <2>1. r \in Put(executed) /\ r \in Requests
    BY <1>3 DEF Put, Types
  <2>2. answer[r] # None \/ (cur = r /\ pc \in {"head", "body", "slowAnswer"})
    BY <2>1 DEF ExecutedInv
  <2> QED
    BY <2>1, <2>2, NoneIsNoRequest DEF BeingServed
<1> QED
  BY <1>1, <1>2, <1>3 DEF ExecutedInv, WithServer

\* A request is executed once, and after it was sent.
LEMMA ExecutedStep ==
    Types /\ QueueInv /\ UnusedInv /\ HeadInv /\ BodyInv /\ ExecutedInv /\ [Next]_vars
        => ExecutedInv'
<1> SUFFICES ASSUME Types, QueueInv, UnusedInv, HeadInv, BodyInv, ExecutedInv,
                    [Next]_vars
             PROVE  ExecutedInv'
  OBVIOUS
<1> USE NoneIsNoRequest DEF Types
<1>a. \A r \in Requests : answer[r] # None => answer'[r] = answer[r]
  BY AnswersStay
<1>1. ASSUME NEW r \in Requests, Submit(r) PROVE ExecutedInv'
  <2>1. executed' = executed /\ \A c \in Requests : inbox'[c] \in {inbox[c], None}
    BY <1>1 DEF Submit, netVars
  <2>2. ASSUME NEW c \in Requests, WithServer(c)
        PROVE  \/ answer'[cur] = "error" \/ inbox'[c] = None
               \/ WithServer(c)' /\ cur' = cur
    BY <1>1, <2>1, <2>2 DEF Submit, Fail, WithServer, Line, threadVars, netVars
  <2>3. BeingServed => answer'[cur] # None \/ (BeingServed' /\ cur' = cur)
    BY <1>1 DEF Submit, Fail, BeingServed, threadVars, netVars
  <2> QED
    BY <1>a, <2>1, <2>2, <2>3, ExecutedKept
<1>2. ASSUME TakeRequest PROVE ExecutedInv'
  <2>1. executed' = executed /\ \A c \in Requests : inbox'[c] \in {inbox[c], None}
    BY <1>2 DEF TakeRequest, netVars
  <2>2. ASSUME NEW c \in Requests, WithServer(c)
        PROVE  \/ answer'[cur] = "error" \/ inbox'[c] = None
               \/ WithServer(c)' /\ cur' = cur
    BY <1>2, <2>1, <2>2 DEF TakeRequest, Fail, WithServer, Line, threadVars, netVars
  <2>3. BeingServed => answer'[cur] # None \/ (BeingServed' /\ cur' = cur)
    BY <1>2 DEF TakeRequest, Fail, BeingServed, threadVars, netVars
  <2> QED
    BY <1>a, <2>1, <2>2, <2>3, ExecutedKept
<1>3. ASSUME Kill PROVE ExecutedInv'
  <2>1. executed' = executed /\ \A c \in Requests : inbox'[c] \in {inbox[c], None}
    BY <1>3 DEF Kill, netVars
  <2>2. ASSUME NEW c \in Requests, WithServer(c)
        PROVE  \/ answer'[cur] = "error" \/ inbox'[c] = None
               \/ WithServer(c)' /\ cur' = cur
    BY <1>3, <2>1, <2>2 DEF Kill, Fail, WithServer, Line, threadVars, netVars
  <2>3. BeingServed => answer'[cur] # None \/ (BeingServed' /\ cur' = cur)
    BY <1>3 DEF Kill, Fail, BeingServed, threadVars, netVars
  <2> QED
    BY <1>a, <2>1, <2>2, <2>3, ExecutedKept
<1>4. ASSUME OpenConn PROVE ExecutedInv'
  <2>1. executed' = executed /\ \A c \in Requests : inbox'[c] \in {inbox[c], None}
    BY <1>4 DEF OpenConn, netVars
  <2>2. ASSUME NEW c \in Requests, WithServer(c)
        PROVE  \/ answer'[cur] = "error" \/ inbox'[c] = None
               \/ WithServer(c)' /\ cur' = cur
    BY <1>4, <2>1, <2>2 DEF OpenConn, Fail, WithServer, Line, threadVars, netVars
  <2>3. BeingServed => answer'[cur] # None \/ (BeingServed' /\ cur' = cur)
    BY <1>4 DEF OpenConn, Fail, BeingServed, threadVars, netVars
  <2> QED
    BY <1>a, <2>1, <2>2, <2>3, ExecutedKept
<1>19. ASSUME OpenFails \/ OpenAgain PROVE ExecutedInv'
  <2>1. executed' = executed /\ \A c \in Requests : inbox'[c] \in {inbox[c], None}
    BY <1>19 DEF OpenFails, OpenAgain, netVars
  <2>2. pc \in {"open", "wait"}
    BY <1>19 DEF OpenFails, OpenAgain
  <2> QED
    BY <1>a, <2>1, <2>2, ExecutedKept DEF WithServer, BeingServed
<1>5. ASSUME Send PROVE ExecutedInv'
  <2>0. CASE UNCHANGED inbox
    <3>1. executed' = executed /\ \A c \in Requests : inbox'[c] \in {inbox[c], None}
      BY <1>5, <2>0 DEF Send
    <3>2. pc = "send"
      BY <1>5 DEF Send
    <3> QED
      BY <1>a, <3>1, <3>2, ExecutedKept DEF WithServer, BeingServed
  <2>a. CASE ~UNCHANGED inbox
    <3>1. /\ executed' = executed /\ answer' = answer /\ cur' = cur /\ cur \in Requests
          /\ answer[cur] = None /\ pc \in {"send", "slow"} /\ conn' = conn
          /\ pc' \in {"head", "slowAnswer"} /\ Line(conn)' /\ conn \in Requests
          /\ inbox' = [inbox EXCEPT ![conn] = cur]
      BY <1>5, <2>a DEF Send, Fail, QueueInv, Line
    <3>2. cur \notin Put(executed)
      BY <3>1 DEF ExecutedInv
    <3>3. \A c \in Requests : inbox[c] # cur
      BY <3>1 DEF ExecutedInv
    <3>4. \A c \in Requests : inbox[c] # None =>
              inbox[c] \notin Put(executed) /\ answer[inbox[c]] = "error"
      BY <3>1 DEF ExecutedInv
    <3>5. \A c \in Requests : inbox'[c] = IF c = conn THEN cur ELSE inbox[c]
      BY <3>1
    <3>6. \A c \in Requests : inbox'[c] # None =>
            /\ inbox'[c] \notin Put(executed')
            /\ \/ answer'[inbox'[c]] = "error"
               \/ Line(c)' /\ pc' \in {"head", "slowAnswer"} /\ inbox'[c] = cur'
      BY <3>1, <3>2, <3>4, <3>5
    <3>7. \A c, d \in Requests : inbox'[c] = inbox'[d] /\ inbox'[c] # None => c = d
      BY <3>3, <3>5 DEF ExecutedInv
    <3>8. \A r \in Put(executed') :
            answer'[r] # None \/ (cur' = r /\ pc' \in {"head", "body", "slowAnswer"})
      BY <3>1, <3>2 DEF ExecutedInv
    <3> QED
      BY <3>6, <3>7, <3>8 DEF ExecutedInv
  <2> QED
    BY <2>0, <2>a
<1>6. ASSUME ReadContinue PROVE ExecutedInv'
  <2>1. executed' = executed /\ \A c \in Requests : inbox'[c] \in {inbox[c], None}
    BY <1>6 DEF ReadContinue, netVars
  <2>2. ASSUME NEW c \in Requests, WithServer(c)
        PROVE  \/ answer'[cur] = "error" \/ inbox'[c] = None
               \/ WithServer(c)' /\ cur' = cur
    BY <1>6, <2>1, <2>2 DEF ReadContinue, Fail, WithServer, Line, threadVars, netVars
  <2>3. BeingServed => answer'[cur] # None \/ (BeingServed' /\ cur' = cur)
    BY <1>6 DEF ReadContinue, Fail, BeingServed, threadVars, netVars
  <2> QED
    BY <1>a, <2>1, <2>2, <2>3, ExecutedKept
<1>7. ASSUME ReadHead PROVE ExecutedInv'
  <2>1. executed' = executed /\ \A c \in Requests : inbox'[c] \in {inbox[c], None}
    BY <1>7 DEF ReadHead, netVars
  <2>4. inbox[conn] = None
    <3>1. conn \in Requests /\ cur \in Id /\ HeadLine(conn)
      BY <1>7 DEF ReadHead, HeadInv, Line, Id
    <3>2. wire[conn] # <<>> /\ Head(wire[conn]).part # "continue"
      BY <1>7 DEF ReadHead
    <3>3. ASSUME inbox[conn] = cur PROVE FALSE
      <4>1. CASE Answering(conn)
        BY <3>1, <3>2, <3>3, <4>1, OwnHead DEF Answering
      <4>2. CASE Overtaken(conn)
        BY <1>7, <3>2, <3>3, <4>2 DEF Overtaken, ReadHead
      <4> QED
        BY <1>7, <3>1, <3>3, <4>1, <4>2 DEF HeadLine, Repeated, Refused, ReadHead
    <3> QED
      BY <3>1, <3>3 DEF HeadLine
  <2>2. ASSUME NEW c \in Requests, WithServer(c)
        PROVE  \/ answer'[cur] = "error" \/ inbox'[c] = None
               \/ WithServer(c)' /\ cur' = cur
    BY <1>7, <2>1, <2>2, <2>4 DEF ReadHead, Fail, WithServer, Line, threadVars,
       netVars
  <2>3. BeingServed => answer'[cur] # None \/ (BeingServed' /\ cur' = cur)
    BY <1>7 DEF ReadHead, Fail, BeingServed, threadVars, netVars
  <2> QED
    BY <1>a, <2>1, <2>2, <2>3, ExecutedKept
<1>8. ASSUME ReadFails PROVE ExecutedInv'
  <2>1. executed' = executed /\ \A c \in Requests : inbox'[c] \in {inbox[c], None}
    BY <1>8 DEF ReadFails, netVars
  <2>2. ASSUME NEW c \in Requests, WithServer(c)
        PROVE  \/ answer'[cur] = "error" \/ inbox'[c] = None
               \/ WithServer(c)' /\ cur' = cur
    BY <1>8, <2>1, <2>2 DEF ReadFails, Fail, WithServer, Line, threadVars, netVars
  <2>3. BeingServed => answer'[cur] # None \/ (BeingServed' /\ cur' = cur)
    BY <1>8 DEF ReadFails, Fail, BeingServed, threadVars, netVars
  <2> QED
    BY <1>a, <2>1, <2>2, <2>3, ExecutedKept
<1>9. ASSUME ReadBody PROVE ExecutedInv'
  <2>1. executed' = executed /\ \A c \in Requests : inbox'[c] \in {inbox[c], None}
    BY <1>9 DEF ReadBody, netVars
  <2>4. got # None
    BY <1>9 DEF ReadBody, BodyInv
  <2>2. ASSUME NEW c \in Requests, WithServer(c)
        PROVE  \/ answer'[cur] = "error" \/ inbox'[c] = None
               \/ WithServer(c)' /\ cur' = cur
    BY <1>9, <2>1, <2>2 DEF ReadBody, Fail, WithServer, Line, threadVars, netVars
  <2>3. BeingServed => answer'[cur] # None \/ (BeingServed' /\ cur' = cur)
    BY <1>9, <2>4 DEF ReadBody, Fail, BeingServed, threadVars, netVars
  <2> QED
    BY <1>a, <2>1, <2>2, <2>3, ExecutedKept
<1>10. ASSUME SlowSend PROVE ExecutedInv'
  <2>1. /\ executed' = executed /\ answer' = answer /\ cur' = cur /\ cur \in Requests
        /\ answer[cur] = None /\ pc \in {"send", "slow"} /\ conn' = conn
        /\ pc' \in {"head", "slowAnswer"} /\ Line(cur)' /\ cur \in Requests
        /\ inbox' = [inbox EXCEPT ![cur] = cur]
    BY <1>10 DEF SlowSend, Fail, QueueInv, Line
  <2>2. cur \notin Put(executed)
    BY <2>1 DEF ExecutedInv
  <2>3. \A c \in Requests : inbox[c] # cur
    BY <2>1 DEF ExecutedInv
  <2>4. \A c \in Requests : inbox[c] # None =>
            inbox[c] \notin Put(executed) /\ answer[inbox[c]] = "error"
    BY <2>1 DEF ExecutedInv
  <2>5. \A c \in Requests : inbox'[c] = IF c = cur THEN cur ELSE inbox[c]
    BY <2>1
  <2>6. \A c \in Requests : inbox'[c] # None =>
          /\ inbox'[c] \notin Put(executed')
          /\ \/ answer'[inbox'[c]] = "error"
             \/ Line(c)' /\ pc' \in {"head", "slowAnswer"} /\ inbox'[c] = cur'
    BY <2>1, <2>2, <2>4, <2>5
  <2>7. \A c, d \in Requests : inbox'[c] = inbox'[d] /\ inbox'[c] # None => c = d
    BY <2>3, <2>5 DEF ExecutedInv
  <2>8. \A r \in Put(executed') :
          answer'[r] # None \/ (cur' = r /\ pc' \in {"head", "body", "slowAnswer"})
    BY <2>1, <2>2 DEF ExecutedInv
  <2> QED
    BY <2>6, <2>7, <2>8 DEF ExecutedInv
<1>11. ASSUME SlowAnswer PROVE ExecutedInv'
  <2>1. executed' = executed /\ \A c \in Requests : inbox'[c] \in {inbox[c], None}
    BY <1>11 DEF SlowAnswer, netVars
  <2>5. conn \notin Requests
    BY <1>11 DEF SlowAnswer, QueueInv
  <2>4. /\ pc = "slowAnswer" /\ Len(wire[cur]) = 2 => Head(wire[cur]).of # None
        /\ pc = "slowAnswer" /\ Len(wire[cur]) = 2 => inbox[cur] # cur
    <3> SUFFICES ASSUME pc = "slowAnswer", Len(wire[cur]) = 2
                 PROVE  Head(wire[cur]).of # None /\ inbox[cur] # cur
      OBVIOUS
    <3>1. Line(cur) /\ cur \in Requests /\ cur \in Id
      BY DEF Line, Id
    <3>2. HeadLine(cur)
      BY <3>1 DEF HeadInv
    <3>3. wire[cur] \notin Asked(cur) /\ Len(wire[cur]) # 0
      BY AskedShort
    <3>4. Answering(cur)
      BY <3>2, <3>3 DEF HeadLine, Answering, Repeated, Refused, Overtaken
    <3> QED
      BY <3>1, <3>3, <3>4, OwnTwo DEF Answering
  <2>2. ASSUME NEW c \in Requests, WithServer(c)
        PROVE  \/ answer'[cur] = "error" \/ inbox'[c] = None
               \/ WithServer(c)' /\ cur' = cur
    BY <1>11, <2>1, <2>2, <2>4, <2>5 DEF SlowAnswer, Fail, WithServer, Line,
       threadVars, netVars
  <2>3. BeingServed => answer'[cur] # None \/ (BeingServed' /\ cur' = cur)
    BY <1>11, <2>4 DEF SlowAnswer, Fail, BeingServed, threadVars, netVars
  <2> QED
    BY <1>a, <2>1, <2>2, <2>3, ExecutedKept
<1>12. ASSUME NEW c \in Requests, ServerContinue(c) PROVE ExecutedInv'
  <2>1. executed' = executed /\ \A d \in Requests : inbox'[d] \in {inbox[d], None}
    BY <1>12 DEF ServerContinue, netVars
  <2>2. ASSUME NEW d \in Requests, WithServer(d)
        PROVE  \/ answer'[cur] = "error" \/ inbox'[d] = None
               \/ WithServer(d)' /\ cur' = cur
    BY <1>12, <2>1, <2>2 DEF ServerContinue, Fail, WithServer, Line, threadVars,
       netVars
  <2>3. BeingServed => answer'[cur] # None \/ (BeingServed' /\ cur' = cur)
    BY <1>12 DEF ServerContinue, Fail, BeingServed, threadVars, netVars
  <2> QED
    BY <1>a, <2>1, <2>2, <2>3, ExecutedKept
<1>13. ASSUME NEW c \in Requests, ServerExecute(c) PROVE ExecutedInv'
  <2>1. /\ inbox[c] \in Requests /\ inbox[c] # None
        /\ executed' = Append(executed, inbox[c]) /\ inbox' = [inbox EXCEPT ![c] = None]
        /\ UNCHANGED <<answer, cur, pc, conn>>
    BY <1>13 DEF ServerExecute, threadVars
  <2>2. Put(executed') = Put(executed) \cup {inbox[c]}
    BY <2>1, PutAppend
  <2>3. /\ answer[inbox[c]] = "error"
           \/ (pc \in {"head", "slowAnswer"} /\ inbox[c] = cur)
        /\ \A d \in Requests : d # c /\ inbox[d] # None =>
              inbox[d] # inbox[c] /\ inbox[d] \notin Put(executed)
    BY <2>1 DEF ExecutedInv
  <2>4. \A d \in Requests : inbox'[d] # None => d # c /\ inbox'[d] = inbox[d]
    BY <2>1
  <2>5. \A d \in Requests : Line(d)' <=> Line(d)
    BY <2>1 DEF Line
  <2>6. \A d \in Requests : inbox'[d] # None =>
          /\ inbox'[d] \notin Put(executed')
          /\ \/ answer'[inbox'[d]] = "error"
             \/ Line(d)' /\ pc' \in {"head", "slowAnswer"} /\ inbox'[d] = cur'
    BY <2>1, <2>2, <2>3, <2>4, <2>5 DEF ExecutedInv
  <2>7. \A d, e \in Requests : inbox'[d] = inbox'[e] /\ inbox'[d] # None => d = e
    BY <2>1, <2>4 DEF ExecutedInv
  <2>8. \A r \in Put(executed') :
          answer'[r] # None \/ (cur' = r /\ pc' \in {"head", "body", "slowAnswer"})
    BY <2>1, <2>2, <2>3 DEF ExecutedInv
  <2> QED
    BY <2>6, <2>7, <2>8 DEF ExecutedInv
<1>14. ASSUME NEW c \in Requests, ServerRefuses(c) PROVE ExecutedInv'
  <2>1. executed' = executed /\ \A d \in Requests : inbox'[d] \in {inbox[d], None}
    BY <1>14 DEF ServerRefuses, netVars
  <2>2. ASSUME NEW d \in Requests, WithServer(d)
        PROVE  \/ answer'[cur] = "error" \/ inbox'[d] = None
               \/ WithServer(d)' /\ cur' = cur
    BY <1>14, <2>1, <2>2 DEF ServerRefuses, Fail, WithServer, Line, threadVars,
       netVars
  <2>3. BeingServed => answer'[cur] # None \/ (BeingServed' /\ cur' = cur)
    BY <1>14 DEF ServerRefuses, Fail, BeingServed, threadVars, netVars
  <2> QED
    BY <1>a, <2>1, <2>2, <2>3, ExecutedKept
<1>15. ASSUME NEW c \in Requests, Break(c) PROVE ExecutedInv'
  <2>1. executed' = executed /\ \A d \in Requests : inbox'[d] \in {inbox[d], None}
    BY <1>15 DEF Break, netVars
  <2>2. ASSUME NEW d \in Requests, WithServer(d)
        PROVE  \/ answer'[cur] = "error" \/ inbox'[d] = None
               \/ WithServer(d)' /\ cur' = cur
    BY <1>15, <2>1, <2>2 DEF Break, Fail, WithServer, Line, threadVars, netVars
  <2>3. BeingServed => answer'[cur] # None \/ (BeingServed' /\ cur' = cur)
    BY <1>15 DEF Break, Fail, BeingServed, threadVars, netVars
  <2> QED
    BY <1>a, <2>1, <2>2, <2>3, ExecutedKept
<1>16. ASSUME Tick PROVE ExecutedInv'
  <2>1. executed' = executed /\ \A c \in Requests : inbox'[c] \in {inbox[c], None}
    BY <1>16 DEF Tick, netVars
  <2>2. ASSUME NEW c \in Requests, WithServer(c)
        PROVE  \/ answer'[cur] = "error" \/ inbox'[c] = None
               \/ WithServer(c)' /\ cur' = cur
    BY <1>16, <2>1, <2>2 DEF Tick, Fail, WithServer, Line, threadVars, netVars
  <2>3. BeingServed => answer'[cur] # None \/ (BeingServed' /\ cur' = cur)
    BY <1>16 DEF Tick, Fail, BeingServed, threadVars, netVars
  <2> QED
    BY <1>a, <2>1, <2>2, <2>3, ExecutedKept
<1>17. ASSUME Rest PROVE ExecutedInv'
  <2>1. executed' = executed /\ \A c \in Requests : inbox'[c] \in {inbox[c], None}
    BY <1>17 DEF Rest, vars, netVars
  <2>2. ASSUME NEW c \in Requests, WithServer(c)
        PROVE  \/ answer'[cur] = "error" \/ inbox'[c] = None
               \/ WithServer(c)' /\ cur' = cur
    BY <1>17, <2>1, <2>2 DEF Rest, vars, Fail, WithServer, Line, threadVars, netVars
  <2>3. BeingServed => answer'[cur] # None \/ (BeingServed' /\ cur' = cur)
    BY <1>17 DEF Rest, vars, Fail, BeingServed, threadVars, netVars
  <2> QED
    BY <1>a, <2>1, <2>2, <2>3, ExecutedKept
<1>18. CASE UNCHANGED vars
  <2>1. executed' = executed /\ \A c \in Requests : inbox'[c] \in {inbox[c], None}
    BY <1>18 DEF vars, netVars
  <2>2. ASSUME NEW c \in Requests, WithServer(c)
        PROVE  \/ answer'[cur] = "error" \/ inbox'[c] = None
               \/ WithServer(c)' /\ cur' = cur
    BY <1>18, <2>1, <2>2 DEF vars, Fail, WithServer, Line, threadVars, netVars
  <2>3. BeingServed => answer'[cur] # None \/ (BeingServed' /\ cur' = cur)
    BY <1>18 DEF vars, Fail, BeingServed, threadVars, netVars
  <2> QED
    BY <1>a, <2>1, <2>2, <2>3, ExecutedKept
<1> HIDE DEF Types
<1> QED
  BY <1>1, <1>2, <1>3, <1>4, <1>5, <1>6, <1>7, <1>8, <1>9, <1>10, <1>11,
     <1>12, <1>13, <1>14, <1>15, <1>16, <1>17, <1>18, <1>19
  DEF Next, Thread

\* All of an answer is not what was unread before it, and no answer is a refusal.
LEMMA WholeAsked == \A r : Whole(r) \cap Asked(r) = {}
<1>1. \A r : \A w \in Whole(r) : Len(w) \in {2, 3}
  BY DEF Whole
<1>2. \A r : \A w \in Asked(r) : Len(w) \in {0, 1}
  BY DEF Asked
<1> QED
  BY <1>1, <1>2

LEMMA RefusalNotOwn ==
    ASSUME NEW r \in Requests
    PROVE  Refusal \notin Own(r)
BY OwnTwo, RefusalParts

\* What is read as an answer was executed.
LEMMA AnswerStep ==
    Types /\ QueueInv /\ UnusedInv /\ QuietInv /\ HeadInv /\ AnswerInv /\ [Next]_vars
        => AnswerInv'
<1> SUFFICES ASSUME Types, QueueInv, UnusedInv, QuietInv, HeadInv, AnswerInv,
                    [Next]_vars
             PROVE  AnswerInv'
  OBVIOUS
<1> USE NoneIsNoRequest DEF Types
<1>1. ASSUME NEW r \in Requests, Submit(r) PROVE AnswerInv'
  <2>1. UNCHANGED <<cur, pc, conn, got, wire, executed>>
    BY <1>1 DEF Submit, threadVars, netVars
  <2> QED
    BY <2>1 DEF Line, AnswerInv
<1>2. ASSUME TakeRequest PROVE AnswerInv'
  <2>1. pc' \notin {"head", "slowAnswer", "body"}
    BY <1>2 DEF TakeRequest, Fail
  <2> QED
    BY <2>1 DEF AnswerInv
<1>3. ASSUME Kill PROVE AnswerInv'
  <2>1. pc' \notin {"head", "slowAnswer", "body"}
    BY <1>3 DEF Kill, Fail
  <2> QED
    BY <2>1 DEF AnswerInv
<1>4. ASSUME OpenConn PROVE AnswerInv'
  <2>1. pc' \notin {"head", "slowAnswer", "body"}
    BY <1>4 DEF OpenConn, Fail
  <2> QED
    BY <2>1 DEF AnswerInv
<1>19. ASSUME OpenFails \/ OpenAgain PROVE AnswerInv'
  <2>1. pc' \notin {"head", "slowAnswer", "body"}
    BY <1>19 DEF OpenFails, OpenAgain
  <2> QED
    BY <2>1 DEF AnswerInv
<1>5. ASSUME Send PROVE AnswerInv'
  <2> SUFFICES ASSUME NEW c \in Requests, Line(c)', pc' = "head"
               PROVE  wire'[c] \in Asked(cur') \cup {Refusal}
    BY <1>5 DEF Send, Fail, AnswerInv
  <2>1. c = conn /\ conn # None /\ pc = "send" /\ wire' = wire /\ cur' = cur
    BY <1>5 DEF Send, Fail, Line
  <2>2. wire[c] \in {<<>>, Refusal}
    BY <2>1 DEF QuietInv
  <2> QED
    BY <2>1, <2>2 DEF Asked
<1>6. ASSUME ReadContinue PROVE AnswerInv'
  <2> SUFFICES ASSUME NEW c \in Requests, Line(c)', pc' = "head"
               PROVE  wire'[c] \in Asked(cur') \/ cur' \in Put(executed')
    BY <1>6 DEF ReadContinue, Fail, AnswerInv
  <2>1. /\ c = conn /\ Line(conn) /\ pc = "head" /\ cur' = cur /\ wire'[c] = Tail(wire[c])
        /\ wire[c] # <<>> /\ Head(wire[c]).part = "continue" /\ executed' = executed
        /\ cur \in Id
    BY <1>6 DEF ReadContinue, Fail, Line, Id
  <2>2. wire[c] # Refusal
    BY <2>1, RefusalParts
  <2>3. CASE wire[c] \in Asked(cur)
    <3>1. wire[c] = <<Part1(cur)>>
      BY <2>1, <2>3 DEF Asked
    <3>2. wire'[c] = <<>>
      BY <2>1, <3>1
    <3> QED
      BY <2>1, <3>2 DEF Asked
  <2> QED
    BY <2>1, <2>2, <2>3 DEF AnswerInv
<1>7. ASSUME ReadHead PROVE AnswerInv'
  <2> SUFFICES ASSUME got' = cur PROVE cur \in Put(executed)
    BY <1>7 DEF ReadHead, AnswerInv
  <2>1. /\ Line(conn) /\ pc = "head" /\ conn \in Requests /\ cur \in Requests
        /\ Head(wire[conn]).of = cur /\ Head(wire[conn]).part # "continue"
        /\ wire[conn] # <<>>
    BY <1>7 DEF ReadHead, Line
  <2>2. wire[conn] \notin Asked(cur)
    BY <2>1 DEF Asked, Part1
  <2>3. wire[conn] # Refusal
    BY <2>1, RefusalParts, OutcomesAreNoRequests
  <2> QED
    BY <2>1, <2>2, <2>3 DEF AnswerInv
<1>8. ASSUME ReadFails PROVE AnswerInv'
  <2>1. pc' \notin {"head", "slowAnswer", "body"}
    BY <1>8 DEF ReadFails, Fail
  <2> QED
    BY <2>1 DEF AnswerInv
<1>9. ASSUME ReadBody PROVE AnswerInv'
  <2>1. pc' \notin {"head", "slowAnswer", "body"}
    BY <1>9 DEF ReadBody, Fail
  <2> QED
    BY <2>1 DEF AnswerInv
<1>10. ASSUME SlowSend PROVE AnswerInv'
  <2> SUFFICES ASSUME NEW c \in Requests, Line(c)'
               PROVE  wire'[c] \in Asked(cur')
    BY <1>10 DEF SlowSend, AnswerInv
  <2>1. conn = None /\ pc = "slow" /\ wire' = wire /\ cur' = cur /\ answer[cur] = None
    BY <1>10 DEF SlowSend, QueueInv
  <2>2. c = cur /\ c # None
    BY <1>10, <2>1 DEF SlowSend, Line
  <2>3. wire[c] = <<>>
    BY <2>1, <2>2 DEF UnusedInv, Line
  <2> QED
    BY <2>1, <2>3 DEF Asked
<1>11. ASSUME SlowAnswer PROVE AnswerInv'
  <2>1. pc' \notin {"head", "slowAnswer", "body"}
    BY <1>11 DEF SlowAnswer, Fail
  <2> QED
    BY <2>1 DEF AnswerInv
<1>12. ASSUME NEW c \in Requests, ServerContinue(c) PROVE AnswerInv'
  <2>1. UNCHANGED <<cur, pc, conn, got>>
    BY <1>12 DEF ServerContinue, threadVars
  <2>2. \A d \in Requests : (d # c => wire'[d] = wire[d]) /\ (Line(d)' <=> Line(d))
    BY <1>12, <2>1 DEF ServerContinue, Line
  <2>3. Put(executed) \subseteq Put(executed')
    BY <1>12, PutAppend DEF ServerContinue
  <2>4. ASSUME Line(c), pc \in {"head", "slowAnswer"}
        PROVE  wire'[c] \in Asked(cur) \cup {Refusal} \/ cur \in Put(executed')
    <3>1. HeadLine(c) /\ cur \in Id /\ cur \in Requests
      BY <2>4 DEF HeadInv, Id
    <3>2. wire[c] \in Asked(cur) \cup {Refusal} \/ cur \in Put(executed)
      BY <2>4 DEF AnswerInv
    <3>3. inbox[c] = cur /\ wire'[c] = <<Part1(cur)>>
      BY <1>12, <3>1, PostsAreRequests DEF ServerContinue, HeadLine, Part1
    <3> QED
      BY <3>3 DEF Asked
  <2> QED
    BY <2>1, <2>2, <2>3, <2>4 DEF AnswerInv
<1>13. ASSUME NEW c \in Requests, ServerExecute(c) PROVE AnswerInv'
  <2>1. UNCHANGED <<cur, pc, conn, got>>
    BY <1>13 DEF ServerExecute, threadVars
  <2>2. \A d \in Requests : (d # c => wire'[d] = wire[d]) /\ (Line(d)' <=> Line(d))
    BY <1>13, <2>1 DEF ServerExecute, Line
  <2>3. Put(executed) \subseteq Put(executed')
    <3>1. inbox[c] \in Requests
      BY <1>13 DEF ServerExecute
    <3> QED
      BY <1>13, <3>1, PutAppend DEF ServerExecute
  <2>4. ASSUME Line(c), pc \in {"head", "slowAnswer"}
        PROVE  wire'[c] \in Asked(cur) \cup {Refusal} \/ cur \in Put(executed')
    <3>1. HeadLine(c) /\ cur \in Id /\ cur \in Requests
      BY <2>4 DEF HeadInv, Id
    <3>2. wire[c] \in Asked(cur) \cup {Refusal} \/ cur \in Put(executed)
      BY <2>4 DEF AnswerInv
    <3>3. inbox[c] = cur
      BY <1>13, <3>1 DEF ServerExecute, HeadLine
    <3> QED
      BY <1>13, <3>1, <3>3, PutAppend DEF ServerExecute
  <2> QED
    BY <2>1, <2>2, <2>3, <2>4 DEF AnswerInv
<1>14. ASSUME NEW c \in Requests, ServerRefuses(c) PROVE AnswerInv'
  <2>1. UNCHANGED <<cur, pc, conn, got>>
    BY <1>14 DEF ServerRefuses, threadVars
  <2>2. \A d \in Requests : (d # c => wire'[d] = wire[d]) /\ (Line(d)' <=> Line(d))
    BY <1>14, <2>1 DEF ServerRefuses, Line
  <2>3. Put(executed) \subseteq Put(executed')
    BY <1>14, PutAppend DEF ServerRefuses
  <2>4. ASSUME Line(c), pc \in {"head", "slowAnswer"}
        PROVE  wire'[c] \in Asked(cur) \cup {Refusal} \/ cur \in Put(executed')
    <3>1. HeadLine(c) /\ cur \in Id /\ cur \in Requests
      BY <2>4 DEF HeadInv, Id
    <3>2. wire[c] \in Asked(cur) \cup {Refusal} \/ cur \in Put(executed)
      BY <2>4 DEF AnswerInv
    <3>3. /\ again[c] = "ahead" /\ wire'[c] \in {wire[c], wire[c] \o Refusal}
          /\ link[c] # "up" => wire'[c] = wire[c]
      BY <1>14 DEF ServerRefuses, Refusal
    <3>4. CASE Repeated(c)
      <4>1. CASE link[c] = "up"
        <5>1. wire[c] \in Whole(cur) /\ wire[c] \in Own(cur)
          BY <3>4, <4>1 DEF Repeated
        <5>2. wire[c] \notin Asked(cur) \cup {Refusal}
          BY <3>1, <5>1, WholeAsked, RefusalNotOwn
        <5> QED
          BY <2>3, <3>2, <5>2
      <4>2. CASE link[c] # "up"
        BY <2>3, <3>2, <3>3, <4>2
      <4> QED
        BY <4>1, <4>2
    <3>5. CASE Overtaken(c)
      BY <3>3, <3>5, RefusalParts DEF Overtaken, Asked
    <3> QED
      BY <3>1, <3>3, <3>4, <3>5 DEF HeadLine, Answering, Refused
  <2> QED
    BY <2>1, <2>2, <2>3, <2>4 DEF AnswerInv
<1>15. ASSUME NEW c \in Requests, Break(c) PROVE AnswerInv'
  <2>1. UNCHANGED <<cur, pc, conn, got>>
    BY <1>15 DEF Break, threadVars
  <2>2. \A d \in Requests : (d # c => wire'[d] = wire[d]) /\ (Line(d)' <=> Line(d))
    BY <1>15, <2>1 DEF Break, Line
  <2>3. Put(executed) \subseteq Put(executed')
    BY <1>15, PutAppend DEF Break
  <2>4. ASSUME Line(c), pc \in {"head", "slowAnswer"}
        PROVE  wire'[c] \in Asked(cur) \cup {Refusal} \/ cur \in Put(executed')
    <3>1. HeadLine(c) /\ cur \in Id /\ cur \in Requests
      BY <2>4 DEF HeadInv, Id
    <3>2. wire[c] \in Asked(cur) \cup {Refusal} \/ cur \in Put(executed)
      BY <2>4 DEF AnswerInv
    <3>3. link[c] = "up" /\ \E n \in 0 .. Len(wire[c]) : wire'[c] = SubSeq(wire[c], 1, n)
      BY <1>15 DEF Break
    <3>4. CASE wire[c] \in Asked(cur)
      BY <3>1, <3>3, <3>4, OwnCut
    <3>5. wire[c] # Refusal
      <4>1. wire[c] \in Own(cur) \/ wire[c] = <<>>
        BY <3>1, <3>3 DEF HeadLine, Answering, Repeated, Refused, Overtaken
      <4> QED
        BY <3>1, <4>1, RefusalNotOwn, RefusalParts
    <3> QED
      BY <2>3, <3>2, <3>4, <3>5
  <2> QED
    BY <2>1, <2>2, <2>3, <2>4 DEF AnswerInv
<1>16. ASSUME Tick PROVE AnswerInv'
  <2>1. UNCHANGED <<cur, pc, conn, got, wire, executed>>
    BY <1>16 DEF Tick, threadVars, netVars
  <2> QED
    BY <2>1 DEF Line, AnswerInv
<1>17. ASSUME Rest PROVE AnswerInv'
  <2>1. UNCHANGED <<cur, pc, conn, got, wire, executed>>
    BY <1>17 DEF Rest, vars, threadVars, netVars
  <2> QED
    BY <2>1 DEF Line, AnswerInv
<1>18. CASE UNCHANGED vars
  <2>1. UNCHANGED <<cur, pc, conn, got, wire, executed>>
    BY <1>18 DEF vars, threadVars, netVars
  <2> QED
    BY <2>1 DEF Line, AnswerInv
<1> HIDE DEF Types
<1> QED
  BY <1>1, <1>2, <1>3, <1>4, <1>5, <1>6, <1>7, <1>8, <1>9, <1>10, <1>11,
     <1>12, <1>13, <1>14, <1>15, <1>16, <1>17, <1>18, <1>19
  DEF Next, Thread

-----------------------------------------------------------------------------
(* The promise to the threads that wait.                                   *)

\* The requests not yet answered, in the order they were put.
LEMMA PendingServed ==
    ASSUME NEW s \in Seq(Requests), NEW r \in Requests
    PROVE  /\ <<r>> \o s \in Seq(Requests) /\ <<r>> \o s # <<>>
           /\ Head(<<r>> \o s) = r /\ Tail(<<r>> \o s) = s
           /\ <<>> \o s = s
<1>1. <<r>> \in Seq(Requests) /\ <<r>> # <<>> /\ Head(<<r>>) = r /\ Tail(<<r>>) = <<>>
  OBVIOUS
<1>2. <<>> \o s = s
  BY ConcatEmptySeq
<1> QED
  BY <1>1, <1>2, HeadTailConcat, ConcatProperties

LEMMA PendingTaken ==
    ASSUME NEW s \in Seq(Requests), s # <<>>
    PROVE  /\ Head(s) \in Requests /\ Tail(s) \in Seq(Requests)
           /\ <<Head(s)>> \o Tail(s) = s
<1>1. /\ Head(s) \in Requests /\ Tail(s) \in Seq(Requests) /\ Len(Tail(s)) = Len(s) - 1
      /\ \A i \in 1 .. Len(Tail(s)) : Tail(s)[i] = s[i + 1]
      /\ Head(s) = s[1] /\ Len(s) \in Nat \ {0}
  BY HeadTailProperties, LenProperties
<1> DEFINE t == <<Head(s)>> \o Tail(s)
<1>2. <<Head(s)>> \in Seq(Requests) /\ Len(<<Head(s)>>) = 1 /\ <<Head(s)>>[1] = Head(s)
  BY <1>1
<1>3. /\ t \in Seq(Requests) /\ Len(t) = Len(s)
      /\ \A i \in 1 .. Len(s) : t[i] = s[i]
  <2>1. /\ t \in Seq(Requests) /\ Len(t) = 1 + Len(Tail(s))
        /\ \A i \in 1 .. 1 + Len(Tail(s)) :
              t[i] = IF i <= 1 THEN <<Head(s)>>[i] ELSE Tail(s)[i - 1]
    BY <1>1, <1>2, ConcatProperties
  <2> HIDE DEF t
  <2>2. \A i \in 1 .. Len(s) : i <= 1 => i = 1
    OBVIOUS
  <2>3. \A i \in 1 .. Len(s) : i # 1 => i - 1 \in 1 .. Len(Tail(s)) /\ (i - 1) + 1 = i
    BY <1>1
  <2>4. \A i \in 1 .. Len(s) : i # 1 => Tail(s)[i - 1] = s[i]
    BY <1>1, <2>3
  <2> QED
    BY <1>1, <1>2, <2>1, <2>2, <2>3, <2>4
<1> HIDE DEF t
<1>4. t = s
  BY <1>1, <1>3, SeqEqual
<1> QED
  BY <1>1, <1>4 DEF t

LEMMA PendingSubmitted ==
    ASSUME NEW s \in Seq(Requests), NEW c \in Requests, NEW r \in Requests
    PROVE  <<c>> \o Append(s, r) = Append(<<c>> \o s, r)
<1> DEFINE t == <<c>> \o s
           u == <<c>> \o Append(s, r)
           v == Append(t, r)
<1>1. /\ <<c>> \in Seq(Requests) /\ Len(<<c>>) = 1
      /\ Append(s, r) \in Seq(Requests) /\ Len(Append(s, r)) = Len(s) + 1
      /\ \A i \in 1 .. Len(s) + 1 : Append(s, r)[i] = IF i = Len(s) + 1 THEN r ELSE s[i]
      /\ Len(s) \in Nat
  BY LenProperties
<1>2. /\ t \in Seq(Requests) /\ Len(t) = 1 + Len(s)
      /\ \A i \in 1 .. 1 + Len(s) : t[i] = IF i <= 1 THEN <<c>>[i] ELSE s[i - 1]
  BY <1>1, ConcatProperties
<1>3. /\ u \in Seq(Requests) /\ Len(u) = 2 + Len(s)
      /\ \A i \in 1 .. 2 + Len(s) : u[i] = IF i <= 1 THEN <<c>>[i] ELSE Append(s, r)[i - 1]
  BY <1>1, ConcatProperties
<1> HIDE DEF t, u
<1>4. /\ v \in Seq(Requests) /\ Len(v) = 2 + Len(s)
      /\ \A i \in 1 .. 2 + Len(s) : v[i] = IF i = 2 + Len(s) THEN r ELSE t[i]
  BY <1>1, <1>2
<1> HIDE DEF v
<1>5. ASSUME NEW i \in 1 .. 2 + Len(s)
      PROVE  u[i] = v[i]
  <2>1. CASE i = 1
    <3>1. i # 2 + Len(s) /\ i \in 1 .. 1 + Len(s) /\ i <= 1
      BY <1>1, <2>1
    <3> QED
      BY <1>2, <1>3, <1>4, <3>1
  <2>2. CASE i = 2 + Len(s)
    <3>1. i - 1 = Len(s) + 1 /\ i - 1 \in 1 .. Len(s) + 1 /\ ~(i <= 1)
      BY <1>1, <2>2
    <3> QED
      BY <1>1, <1>3, <1>4, <2>2, <3>1
  <2>3. CASE i # 1 /\ i # 2 + Len(s)
    <3>1. /\ i - 1 # Len(s) + 1 /\ i - 1 \in 1 .. Len(s) + 1 /\ ~(i <= 1)
          /\ i \in 1 .. 1 + Len(s)
      BY <1>1, <2>3
    <3> QED
      BY <1>1, <1>2, <1>3, <1>4, <2>3, <3>1
  <2> QED
    BY <2>1, <2>2, <2>3
<1>6. u = v
  BY <1>3, <1>4, <1>5, SeqEqual
<1> QED
  BY <1>6 DEF t, u, v

LEMMA PendingPut ==
    ASSUME Types
    PROVE  Put(Pending) \subseteq Put(chan) \cup ({cur} \ {None})
<1>1. CASE cur = None
  <2>1. Pending = chan
    BY <1>1, ConcatEmptySeq DEF Pending, Types
  <2> QED
    BY <2>1
<1>2. CASE cur # None
  <2>1. <<cur>> \in Seq(Requests) /\ Len(<<cur>>) = 1 /\ <<cur>>[1] = cur
    BY <1>2 DEF Types
  <2> DEFINE p == <<cur>> \o chan
  <2>2. /\ p \in Seq(Requests) /\ Len(p) = 1 + Len(chan) /\ Len(chan) \in Nat
        /\ \A i \in 1 .. 1 + Len(chan) :
              p[i] = IF i <= 1 THEN <<cur>>[i] ELSE chan[i - 1]
    BY <2>1, ConcatProperties, LenProperties DEF Types
  <2>3. Pending = p
    BY <1>2 DEF Pending
  <2> HIDE DEF p
  <2>4. DOMAIN p = 1 .. 1 + Len(chan) /\ DOMAIN chan = 1 .. Len(chan)
    BY <2>2 DEF Types
  <2>5. \A i \in 1 .. 1 + Len(chan) : i = 1 \/ i - 1 \in 1 .. Len(chan)
    BY <2>2
  <2>6. \A i \in DOMAIN p : p[i] = cur \/ p[i] \in Put(chan)
    BY <2>1, <2>2, <2>4, <2>5 DEF Put
  <2> QED
    BY <1>2, <2>3, <2>6 DEF Put
<1> QED
  BY <1>1, <1>2

\* A step of the thread, the server or the network is a step of the promise, or
\* nothing that the waiting threads see.
LEMMA ServiceStep ==
    Types /\ QueueInv /\ UnusedInv /\ QuietInv /\ HeadInv /\ BodyInv /\ ExecutedInv
        /\ AnswerInv /\ [Next]_vars => [Service!Next]_(Service!svcVars)
<1> DEFINE Promise == [Service!Next]_(Service!svcVars)
<1> SUFFICES ASSUME Types, QueueInv, UnusedInv, QuietInv, HeadInv, BodyInv,
                    ExecutedInv, AnswerInv, [Next]_vars
             PROVE  Promise
  OBVIOUS
<1> USE NoneIsNoRequest DEF Types
<1>a. ASSUME UNCHANGED <<cur, chan, answer, executed>> PROVE Promise
  BY <1>a DEF Pending, Outcome, Service!svcVars
<1>b. ASSUME cur \in Requests, cur' = None, chan' = chan, executed' = executed,
             NEW x, answer' = [answer EXCEPT ![cur] = x],
             x \in {"error", "refused"} \/ (x = cur /\ cur \in Put(executed))
      PROVE  Promise
  <2>1. /\ Pending # <<>> /\ Head(Pending) = cur /\ Tail(Pending) = chan
        /\ Pending' = chan /\ cur # None
    BY <1>b, PendingServed DEF Pending
  <2>2. Outcome' = [Outcome EXCEPT ![cur] = IF x = cur THEN "ok" ELSE "error"]
    BY <1>b, <2>1, OutcomesAreNoRequests DEF Outcome
  <2>3. x = cur => cur \in Put(executed)
    BY <1>b, OutcomesAreNoRequests
  <2>4. Service!Answer(cur)
    BY <1>b, <2>1, <2>2, <2>3 DEF Service!Answer, Service!Put, Put
  <2> QED
    BY <1>b, <2>4 DEF Service!Next
<1>1. ASSUME NEW r \in Requests, Submit(r) PROVE Promise
  <2>1. /\ answer[r] = None /\ cur # r /\ r \notin Put(chan) /\ chan' = Append(chan, r)
        /\ UNCHANGED <<cur, answer, executed>>
    BY <1>1 DEF Submit, threadVars, netVars
  <2>2. r \notin Put(Pending) /\ Outcome[r] = "none" /\ Outcome' = Outcome
    BY <2>1, PendingPut DEF Outcome
  <2>3. Pending' = Append(Pending, r)
    <3>1. CASE cur = None
      <4>1. chan' \in Seq(Requests)
        BY <2>1
      <4> QED
        BY <2>1, <3>1, <4>1, ConcatEmptySeq DEF Pending
    <3>2. CASE cur # None
      BY <2>1, <3>2, PendingSubmitted DEF Pending
    <3> QED
      BY <3>1, <3>2
  <2>4. Service!Submit(r)
    BY <2>1, <2>2, <2>3 DEF Service!Submit, Service!Put, Put
  <2> QED
    BY <2>4 DEF Service!Next
<1>2. ASSUME TakeRequest PROVE Promise
  <2>1. /\ cur = None /\ chan # <<>> /\ cur' = Head(chan) /\ chan' = Tail(chan)
        /\ UNCHANGED <<answer, executed>>
    BY <1>2 DEF TakeRequest, netVars
  <2>2. Pending' = Pending
    <3>1. cur' # None /\ <<cur'>> \o chan' = chan
      BY <2>1, PendingTaken
    <3>2. Pending = chan
      BY <2>1, ConcatEmptySeq DEF Pending
    <3> QED
      BY <3>1, <3>2 DEF Pending
  <2>3. Outcome' = Outcome
    BY <2>1 DEF Outcome
  <2> QED
    BY <2>1, <2>2, <2>3 DEF Service!svcVars
<1>3. ASSUME Kill PROVE Promise
  <2> SUFFICES ASSUME Fail PROVE Promise
    <3>1. ~Fail => UNCHANGED <<cur, chan, answer, executed>>
      BY <1>3 DEF Kill, netVars
    <3> QED
      BY <3>1, <1>a
  <2>1. /\ cur \in Requests /\ cur' = None /\ answer' = [answer EXCEPT ![cur] = "error"]
        /\ chan' = chan /\ executed' = executed
    BY <1>3 DEF Kill, Fail, netVars
  <2> QED
    BY <2>1, <1>b
<1>4. ASSUME OpenConn PROVE Promise
  <2>1. UNCHANGED <<cur, chan, answer, executed>>
    BY <1>4 DEF OpenConn, Fail, threadVars, netVars
  <2> QED
    BY <2>1, <1>a
<1>19. ASSUME OpenFails \/ OpenAgain PROVE Promise
  <2>1. UNCHANGED <<cur, chan, answer, executed>>
    BY <1>19 DEF OpenFails, OpenAgain, netVars
  <2> QED
    BY <2>1, <1>a
<1>5. ASSUME Send PROVE Promise
  <2> SUFFICES ASSUME Fail PROVE Promise
    <3>1. ~Fail => UNCHANGED <<cur, chan, answer, executed>>
      BY <1>5 DEF Send, netVars
    <3> QED
      BY <3>1, <1>a
  <2>1. /\ cur \in Requests /\ cur' = None /\ answer' = [answer EXCEPT ![cur] = "error"]
        /\ chan' = chan /\ executed' = executed
    BY <1>5 DEF Send, Fail, netVars
  <2> QED
    BY <2>1, <1>b
<1>6. ASSUME ReadContinue PROVE Promise
  <2> SUFFICES ASSUME Fail PROVE Promise
    <3>1. ~Fail => UNCHANGED <<cur, chan, answer, executed>>
      BY <1>6 DEF ReadContinue, netVars
    <3> QED
      BY <3>1, <1>a
  <2>1. /\ cur \in Requests /\ cur' = None /\ answer' = [answer EXCEPT ![cur] = "error"]
        /\ chan' = chan /\ executed' = executed
    BY <1>6 DEF ReadContinue, Fail, netVars
  <2> QED
    BY <2>1, <1>b
<1>7. ASSUME ReadHead PROVE Promise
  <2>1. UNCHANGED <<cur, chan, answer, executed>>
    BY <1>7 DEF ReadHead, Fail, threadVars, netVars
  <2> QED
    BY <2>1, <1>a
<1>8. ASSUME ReadFails PROVE Promise
  <2> SUFFICES ASSUME Fail PROVE Promise
    <3>1. ~Fail => UNCHANGED <<cur, chan, answer, executed>>
      BY <1>8 DEF ReadFails, netVars
    <3> QED
      BY <3>1, <1>a
  <2>1. /\ cur \in Requests /\ cur' = None /\ answer' = [answer EXCEPT ![cur] = "error"]
        /\ chan' = chan /\ executed' = executed
    BY <1>8 DEF ReadFails, Fail, netVars
  <2> QED
    BY <2>1, <1>b
<1>9. ASSUME ReadBody PROVE Promise
  <2>1. /\ cur \in Requests /\ cur' = None /\ answer' = [answer EXCEPT ![cur] = got]
        /\ chan' = chan /\ executed' = executed
    BY <1>9 DEF ReadBody
  <2>2. (got = cur /\ cur \in Put(executed)) \/ got \in {"error", "refused"}
    BY <1>9 DEF ReadBody, BodyInv, AnswerInv
  <2> QED
    BY <2>1, <2>2, <1>b
<1>10. ASSUME SlowSend PROVE Promise
  <2>1. UNCHANGED <<cur, chan, answer, executed>>
    BY <1>10 DEF SlowSend, Fail, threadVars, netVars
  <2> QED
    BY <2>1, <1>a
<1>11. ASSUME SlowAnswer PROVE Promise
  <2>1. /\ cur \in Requests /\ cur' = None /\ chan' = chan /\ executed' = executed
        /\ \/ answer' = [answer EXCEPT ![cur] = "error"]
           \/ /\ pc = "slowAnswer" /\ Len(wire[cur]) = 2
              /\ answer' = [answer EXCEPT ![cur] = Head(wire[cur]).of]
    BY <1>11 DEF SlowAnswer, netVars
  <2>2. ASSUME pc = "slowAnswer", Len(wire[cur]) = 2
        PROVE  Head(wire[cur]).of = cur /\ cur \in Put(executed)
    <3>1. Line(cur) /\ HeadLine(cur)
      BY <2>1, <2>2 DEF HeadInv, Line
    <3>2. wire[cur] \in Own(cur)
      BY <2>2, <3>1 DEF HeadLine, Answering, Repeated, Refused, Overtaken
    <3>3. Head(wire[cur]).of = cur /\ wire[cur] \notin Asked(cur) /\ wire[cur] # Refusal
      BY <2>1, <2>2, <3>2, OwnTwo
    <3> QED
      BY <2>1, <2>2, <3>1, <3>3 DEF AnswerInv
  <2> QED
    BY <2>1, <2>2, <1>b
<1>12. ASSUME NEW c \in Requests, ServerContinue(c) PROVE Promise
  <2>1. UNCHANGED <<cur, chan, answer, executed>>
    BY <1>12 DEF ServerContinue, Fail, threadVars, netVars
  <2> QED
    BY <2>1, <1>a
<1>13. ASSUME NEW c \in Requests, ServerExecute(c) PROVE Promise
  <2>1. /\ inbox[c] \in Requests /\ inbox[c] # None
        /\ executed' = Append(executed, inbox[c]) /\ UNCHANGED <<cur, chan, answer>>
    BY <1>13 DEF ServerExecute, threadVars
  <2>2. /\ inbox[c] \notin Put(executed)
        /\ answer[inbox[c]] = "error" \/ inbox[c] = cur
    BY <2>1 DEF ExecutedInv
  <2>3. answer[inbox[c]] = "error" => Outcome[inbox[c]] = "error"
    BY <2>1 DEF Outcome
  <2>4. inbox[c] = cur => Pending # <<>> /\ Head(Pending) = inbox[c]
    BY <2>1, PendingServed DEF Pending
  <2>5. Pending' = Pending /\ Outcome' = Outcome
    BY <2>1 DEF Pending, Outcome
  <2>6. Service!Execute(inbox[c])
    BY <2>1, <2>2, <2>3, <2>4, <2>5 DEF Service!Execute, Service!Put, Put
  <2> QED
    BY <2>1, <2>6 DEF Service!Next
<1>14. ASSUME NEW c \in Requests, ServerRefuses(c) PROVE Promise
  <2>1. UNCHANGED <<cur, chan, answer, executed>>
    BY <1>14 DEF ServerRefuses, Fail, threadVars, netVars
  <2> QED
    BY <2>1, <1>a
<1>15. ASSUME NEW c \in Requests, Break(c) PROVE Promise
  <2>1. UNCHANGED <<cur, chan, answer, executed>>
    BY <1>15 DEF Break, Fail, threadVars, netVars
  <2> QED
    BY <2>1, <1>a
<1>16. ASSUME Tick PROVE Promise
  <2>1. UNCHANGED <<cur, chan, answer, executed>>
    BY <1>16 DEF Tick, Fail, threadVars, netVars
  <2> QED
    BY <2>1, <1>a
<1>17. ASSUME Rest PROVE Promise
  <2>1. UNCHANGED <<cur, chan, answer, executed>>
    BY <1>17 DEF Rest, vars, Fail, threadVars, netVars
  <2> QED
    BY <2>1, <1>a
<1>18. CASE UNCHANGED vars
  <2>1. UNCHANGED <<cur, chan, answer, executed>>
    BY <1>18 DEF vars, Fail, threadVars, netVars
  <2> QED
    BY <2>1, <1>a
<1> HIDE DEF Types
<1> QED
  BY <1>1, <1>2, <1>3, <1>4, <1>5, <1>6, <1>7, <1>8, <1>9, <1>10, <1>11,
     <1>12, <1>13, <1>14, <1>15, <1>16, <1>17, <1>18, <1>19
  DEF Next, Thread

-----------------------------------------------------------------------------
(* The theorems.                                                           *)

\* The inductive invariant.
IInv ==
    /\ Types /\ QueueInv /\ UnusedInv /\ LeftInv /\ QuietInv /\ HeadInv /\ BodyInv
    /\ AnsweredInv /\ ExecutedInv /\ AnswerInv

\* It holds before the first request.
LEMMA InitInv == Init => IInv
<1> SUFFICES ASSUME Init PROVE IInv
  OBVIOUS
<1> USE NoneIsNoRequest
<1>1. Types
  BY TypesInit
<1>2. chan = <<>> /\ Len(chan) = 0 /\ Put(executed) = {}
  BY DEF Init, Put
<1>3. QueueInv /\ UnusedInv /\ LeftInv /\ QuietInv
  <2>1. QueueInv
    BY <1>2 DEF Init, QueueInv
  <2>2. UnusedInv
    BY DEF Init, UnusedInv
  <2>3. LeftInv
    BY DEF Init, LeftInv
  <2>4. QuietInv
    BY DEF Init, QuietInv
  <2> QED
    BY <2>1, <2>2, <2>3, <2>4
<1>4. HeadInv /\ BodyInv /\ AnswerInv
  BY DEF Init, HeadInv, BodyInv, AnswerInv
<1>5. AnsweredInv /\ ExecutedInv
  BY <1>2 DEF Init, AnsweredInv, ExecutedInv
<1> QED
  BY <1>1, <1>3, <1>4, <1>5 DEF IInv

\* Every step keeps it.
LEMMA StepInv == IInv /\ [Next]_vars => IInv'
BY TypesStep, QueueStep, UnusedStep, LeftStep, QuietStep, HeadStep, BodyStep,
   AnsweredStep, ExecutedStep, AnswerStep, ServedStays DEF IInv

\* What a connection holds unread belongs to the request the thread serves, or is
\* the refusal of a second copy of a body, whatever the number of requests, of
\* bodies and of connections that break.
THEOREM Invariance == Spec => []IInv
BY InitInv, StepInv, PTL DEF Spec

\* A request is answered with its own answer, with an error or, if a server asked
\* for the body of another one, with the refusal of its second copy: the thread
\* never reads what an earlier request left in the connection (HttpLowlevel.hs,
\* kolproxy_fast_mkconnthing_).
THEOREM OwnAnswers == Spec => []OwnAnswer
<1>1. IInv => OwnAnswer
  <2> SUFFICES ASSUME IInv PROVE OwnAnswer
    OBVIOUS
  <2>1. TypeOK
    BY Short DEF IInv, Types, TypeOK
  <2> QED
    BY <2>1 DEF IInv, AnsweredInv, OwnAnswer
<1> QED
  BY <1>1, Invariance, PTL

\* The thread keeps the promise of ConnService: requests are answered in the order
\* they were put, each once, by its own answer or by an error, and the game server
\* executes each at most once, before its answer is given out.
THEOREM ServiceKept == Spec => ImplementsService
<1>1. Init => Service!Init
  <2> SUFFICES ASSUME Init PROVE Service!Init
    OBVIOUS
  <2>1. Pending = <<>>
    BY ConcatEmptySeq DEF Init, Pending
  <2>2. Outcome = [r \in Requests |-> "none"]
    BY DEF Init, Outcome
  <2> QED
    BY <2>1, <2>2 DEF Init, Service!Init
<1>2. IInv /\ [Next]_vars => [Service!Next]_(Service!svcVars)
  BY ServiceStep DEF IInv
<1> QED
  BY <1>1, <1>2, Invariance, PTL DEF Spec, ImplementsService, Service!Spec

=============================================================================
