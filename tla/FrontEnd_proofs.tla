---------------------------- MODULE FrontEnd_proofs ----------------------------
(***************************************************************************)
(* Proofs about FrontEnd, for any number of browsers' connections and of   *)
(* cookies, whatever the environment says of HTTP/1.0: which session a     *)
(* request gets, and the order in which ordinary requests are answered.    *)
(***************************************************************************)
EXTENDS FrontEnd, SequenceTheorems, TLAPS

-----------------------------------------------------------------------------
(* The parts of the inductive invariant.                                    *)

Distinct(s) == \A i, j \in 1 .. Len(s) : s[i] = s[j] => i = j
Has(s, c)   == \E i \in 1 .. Len(s) : s[i] = c

\* A connection waits in the backlog, and is accepted, once.
LineInv ==
    /\ Distinct(backlog) /\ Distinct(accepted)
    /\ \A i \in 1 .. Len(backlog) :
          /\ line[backlog[i]] # "new" /\ session[backlog[i]] = None
          /\ ~Has(accepted, backlog[i])
    /\ \A i \in 1 .. Len(accepted) : line[accepted[i]] # "new"
    /\ \A c \in Conns : line[c] = "new" => session[c] = None
    /\ \A c \in Conns : session[c] # None => request[c] \in {"page", "chat"}
    /\ \A c \in Conns : request[c] \in {"page", "chat"} => cookie[c] \in Cookies

\* The main thread serves what it accepted last, and that is not with a handler.
MainInv ==
    main \in {"receive", "serve", "queue"} =>
        /\ conn \in Conns /\ Len(accepted) > 0 /\ conn = accepted[Len(accepted)]
        /\ session[conn] = None <=> main # "queue"
        /\ ~Has(answered, conn) /\ ~Has(mvsequence, conn) /\ seqConn # conn
        /\ ~Has(mvchat, conn) /\ conn \notin chatting

\* A request without a session has seen the sessions forgotten as often as any
\* other.  The sessions that are kept are those given out since.
EraInv ==
    \A c \in Conns : session[c] = None =>
        /\ \A d \in Conns :
              /\ era[d] <= era[c]
              /\ session[d] = None => era[d] = era[c]
              /\ session[d] # None /\ era[d] = era[c] => sessions[cookie[d]] = session[d]
        /\ \A k \in Cookies : sessions[k] # None =>
              \E d \in Conns : session[d] = sessions[k] /\ cookie[d] = k /\ era[d] = era[c]

\* Requests with one cookie have one session, unless the sessions were forgotten in
\* between; others have others.
GivenInv ==
    \A c, d \in Conns :
        session[c] # None /\ session[d] # None =>
            (session[c] = session[d] <=> cookie[c] = cookie[d] /\ era[c] = era[d])

\* The sessions that are kept connect the way the flag says.
SlowInv == \A k \in Cookies : sessions[k] # None => mode[sessions[k]] = slow

\* One element comes before another.
Earlier(s, c, d) ==
    \E k, l \in 1 .. Len(s) : k < l /\ s[k] = c /\ s[l] = d

\* What the handlers have was accepted, and it is pages on the one side ...
HandlerInv ==
    \A c \in Conns :
        /\ Has(mvsequence, c) \/ seqConn = c => IsQueued(c) /\ Has(accepted, c)
        /\ Has(mvchat, c) \/ c \in chatting => request[c] = "chat" /\ Has(accepted, c)
        /\ Has(answered, c) => Has(accepted, c)

\* ... in the order they were accepted: those answered, each once, the one being
\* handled, those in the channel ...
OrderInv ==
    /\ \A i, j \in 1 .. Len(mvsequence) :
          i < j => Earlier(accepted, mvsequence[i], mvsequence[j])
    /\ \A c \in Conns : Has(mvsequence, c) =>
          /\ seqConn # None => Earlier(accepted, seqConn, c)
          /\ \A d \in Conns : Has(answered, d) /\ IsQueued(d) => Earlier(accepted, d, c)
    /\ seqConn # None =>
          \A d \in Conns : Has(answered, d) /\ IsQueued(d) => Earlier(accepted, d, seqConn)

\* ... and none is missing.
AllInv ==
    \A c \in Conns : Has(accepted, c) /\ IsQueued(c) =>
        \/ Has(answered, c) \/ seqConn = c \/ Has(mvsequence, c)
        \/ main = "queue" /\ conn = c

-----------------------------------------------------------------------------
(* Facts about channels.                                                    *)

\* Putting something behind a sequence.
LEMMA AppendSeq ==
    ASSUME NEW S, NEW s \in Seq(S), NEW x \in S
    PROVE  /\ Append(s, x) \in Seq(S) /\ Len(Append(s, x)) = Len(s) + 1
           /\ Len(s) \in Nat /\ Append(s, x)[Len(s) + 1] = x
           /\ \A i \in 1 .. Len(s) : Append(s, x)[i] = s[i]
           /\ \A i \in 1 .. Len(s) + 1 : i \in 1 .. Len(s) \/ i = Len(s) + 1
OBVIOUS

\* Taking what is in front of one.
LEMMA TailSeq ==
    ASSUME NEW S, NEW s \in Seq(S), s # <<>>
    PROVE  /\ Tail(s) \in Seq(S) /\ Len(Tail(s)) = Len(s) - 1
           /\ Len(s) \in Nat \ {0} /\ Head(s) = s[1] /\ Head(s) \in S
           /\ \A i \in 1 .. Len(s) - 1 : Tail(s)[i] = s[i + 1]
BY HeadTailProperties, LenProperties

\* What a sequence has then.
LEMMA HasAppend ==
    ASSUME NEW S, NEW s \in Seq(S), NEW x \in S
    PROVE  \A c : Has(Append(s, x), c) <=> Has(s, c) \/ c = x
<1>1. Len(s) + 1 \in 1 .. Len(s) + 1 /\ \A i \in 1 .. Len(s) : i \in 1 .. Len(s) + 1
  BY AppendSeq
<1> QED
  BY <1>1, AppendSeq DEF Has

LEMMA HasTail ==
    ASSUME NEW S, NEW s \in Seq(S), s # <<>>
    PROVE  \A c : Has(s, c) <=> Has(Tail(s), c) \/ c = Head(s)
<1>1. /\ \A i \in 1 .. Len(s) - 1 : i + 1 \in 1 .. Len(s)
      /\ \A i \in 1 .. Len(s) : i # 1 => i - 1 \in 1 .. Len(s) - 1 /\ (i - 1) + 1 = i
      /\ 1 \in 1 .. Len(s)
  BY TailSeq
<1>2. \A c : Has(Tail(s), c) => Has(s, c)
  BY <1>1, TailSeq DEF Has
<1>3. \A c : Has(s, c) => Has(Tail(s), c) \/ c = Head(s)
  <2>1. \A i \in 1 .. Len(s) : i # 1 => Tail(s)[i - 1] = s[i]
    BY <1>1, TailSeq
  <2> QED
    BY <1>1, <2>1, TailSeq DEF Has
<1>4. Has(s, Head(s))
  BY <1>1, TailSeq DEF Has
<1> QED
  BY <1>2, <1>3, <1>4

LEMMA DistinctAppend ==
    ASSUME NEW S, NEW s \in Seq(S), NEW x \in S, Distinct(s), ~Has(s, x)
    PROVE  Distinct(Append(s, x))
<1> SUFFICES ASSUME NEW i \in 1 .. Len(s) + 1, NEW j \in 1 .. Len(s) + 1,
                    Append(s, x)[i] = Append(s, x)[j]
             PROVE  i = j
  BY AppendSeq DEF Distinct
<1>1. CASE i \in 1 .. Len(s) /\ j \in 1 .. Len(s)
  BY <1>1, AppendSeq DEF Distinct
<1>2. CASE i = Len(s) + 1 \/ j = Len(s) + 1
  BY <1>2, AppendSeq DEF Has
<1> QED
  BY <1>1, <1>2, AppendSeq

LEMMA DistinctTail ==
    ASSUME NEW S, NEW s \in Seq(S), s # <<>>, Distinct(s)
    PROVE  Distinct(Tail(s)) /\ ~Has(Tail(s), Head(s))
<1>1. \A i \in 1 .. Len(s) - 1 : i + 1 \in 1 .. Len(s) /\ i + 1 # 1
  BY TailSeq
<1>2. 1 \in 1 .. Len(s)
  BY TailSeq
<1>3. ASSUME NEW i \in 1 .. Len(s) - 1, NEW j \in 1 .. Len(s) - 1,
             Tail(s)[i] = Tail(s)[j]
      PROVE  i = j
  <2>1. i + 1 = j + 1
    BY <1>1, <1>3, TailSeq DEF Distinct
  <2> QED
    BY <2>1
<1> QED
  BY <1>1, <1>2, <1>3, TailSeq DEF Has, Distinct

-----------------------------------------------------------------------------
(* Types.                                                                  *)

\* The initial state has the types.
LEMMA TypeInit == Init => TypeOK
BY NamesAreDistinct, SlowHttpIsBoolean DEF Init, TypeOK, Kind, Own

\* Every step keeps the types.
LEMMA TypeStep == TypeOK /\ LineInv /\ [Next]_vars => TypeOK'
<1> SUFFICES ASSUME TypeOK, LineInv, [Next]_vars PROVE TypeOK'
  OBVIOUS
<1> USE NamesAreDistinct DEF TypeOK
<1>1. ASSUME NEW b \in Conns, NEW kind \in Kind, Connect(b, kind) PROVE TypeOK'
  BY <1>1 DEF Connect, browserVars, mainVars, sessionVars, chanVars,
     handlerVars
<1>2. ASSUME NEW b \in Conns, BrowserSends(b) PROVE TypeOK'
  BY <1>2 DEF BrowserSends, browserVars, mainVars, sessionVars, chanVars,
     handlerVars
<1>3. ASSUME NEW b \in Conns, BrowserCloses(b) PROVE TypeOK'
  BY <1>3 DEF BrowserCloses, browserVars, mainVars, sessionVars, chanVars,
     handlerVars
<1>4. ASSUME NEW b \in Conns, ChatRespond(b) PROVE TypeOK'
  BY <1>4 DEF ChatRespond, Answer, browserVars, mainVars, sessionVars,
     chanVars, handlerVars
<1>5. ASSUME AcceptConn PROVE TypeOK'
  BY <1>5 DEF AcceptConn, browserVars, mainVars, sessionVars, chanVars,
     handlerVars
<1>6. ASSUME ReceiveHTTP PROVE TypeOK'
  <2>1. conn \in Conns
    BY <1>6 DEF ReceiveHTTP
  <2>2. Append(answered, conn) \in Seq(Conns)
    BY <2>1, AppendSeq
  <2>3. answered' \in Seq(Conns) /\ main' \in {"serve", "accept"}
    BY <1>6, <2>2 DEF ReceiveHTTP, Answer
  <2> QED
    BY <1>6, <2>1, <2>3 DEF ReceiveHTTP, browserVars, mainVars, sessionVars,
       chanVars, handlerVars
<1>7. ASSUME AnswerTest PROVE TypeOK'
  BY <1>7 DEF AnswerTest, Answer, browserVars, mainVars, sessionVars,
     chanVars, handlerVars
<1>8. ASSUME UseSlowHttp PROVE TypeOK'
  BY <1>8 DEF UseSlowHttp, Answer, browserVars, mainVars, sessionVars,
     chanVars, handlerVars
<1>9. ASSUME Shutdown PROVE TypeOK'
  BY <1>9 DEF Shutdown, Answer, browserVars, mainVars, sessionVars, chanVars,
     handlerVars
<1>10. ASSUME GetSession PROVE TypeOK'
  <2>1. /\ conn \in Conns /\ DOMAIN mode = 1 .. Len(mode) /\ Len(mode) \in Nat
        /\ cookie[conn] \in Cookies
    BY <1>10 DEF GetSession, LineInv
  <2>2. CASE sessions[cookie[conn]] # None
    <3>1. session' = [session EXCEPT ![conn] = sessions[cookie[conn]]]
      BY <1>10, <2>2 DEF GetSession
    <3>2. main' = "queue" /\ UNCHANGED <<sessions, mode>>
      BY <1>10, <2>2 DEF GetSession
    <3>3. session' \in [Conns -> DOMAIN mode \cup {None}]
      BY <2>1, <3>1
    <3> QED
      BY <1>10, <3>2, <3>3 DEF GetSession, browserVars, mainVars, sessionVars,
         chanVars, handlerVars
  <2>3. CASE sessions[cookie[conn]] = None
    <3>1. /\ mode' = Append(mode, slow) /\ session' = [session EXCEPT ![conn] = Len(mode')]
          /\ sessions' = [sessions EXCEPT ![cookie[conn]] = Len(mode')]
      BY <1>10, <2>3 DEF GetSession
    <3>2. mode' \in Seq(BOOLEAN) /\ Len(mode') = Len(mode) + 1
      BY <3>1, AppendSeq
    <3>3. DOMAIN mode' = 1 .. Len(mode) + 1
      BY <3>2
    <3>4. DOMAIN mode \subseteq DOMAIN mode' /\ Len(mode') \in DOMAIN mode'
      BY <2>1, <3>2, <3>3
    <3>5. /\ session' \in [Conns -> DOMAIN mode' \cup {None}]
          /\ sessions' \in [Cookies -> DOMAIN mode' \cup {None}]
      BY <3>1, <3>4
    <3> QED
      BY <1>10, <2>1, <3>2, <3>5 DEF GetSession, browserVars, mainVars,
         sessionVars, chanVars, handlerVars
  <2> QED
    BY <2>2, <2>3
<1>11. ASSUME QueueRequest PROVE TypeOK'
  <2>1. conn \in Conns
    BY <1>11 DEF QueueRequest
  <2>2. Append(mvsequence, conn) \in Seq(Conns) /\ Append(mvchat, conn) \in Seq(Conns)
    BY <2>1, AppendSeq
  <2>3. mvsequence' \in Seq(Conns) /\ mvchat' \in Seq(Conns)
    BY <1>11, <2>2 DEF QueueRequest
  <2> QED
    BY <1>11, <2>1, <2>3 DEF QueueRequest, browserVars, mainVars, sessionVars,
       chanVars, handlerVars
<1>12. ASSUME SeqTake PROVE TypeOK'
  BY <1>12 DEF SeqTake, browserVars, mainVars, sessionVars, chanVars,
     handlerVars
<1>13. ASSUME SeqRespond PROVE TypeOK'
  BY <1>13 DEF SeqRespond, Answer, browserVars, mainVars, sessionVars,
     chanVars, handlerVars
<1>14. ASSUME ChatTake PROVE TypeOK'
  BY <1>14 DEF ChatTake, browserVars, mainVars, sessionVars, chanVars,
     handlerVars
<1>15. ASSUME Rest PROVE TypeOK'
  BY <1>15 DEF Rest, vars, browserVars, mainVars, sessionVars, chanVars,
     handlerVars
<1>16. CASE UNCHANGED vars
  BY <1>16 DEF vars, browserVars, mainVars, sessionVars, chanVars, handlerVars
<1> HIDE DEF TypeOK
<1> QED
  BY <1>1, <1>2, <1>3, <1>4, <1>5, <1>6, <1>7, <1>8, <1>9, <1>10, <1>11,
     <1>12, <1>13, <1>14, <1>15, <1>16
  DEF Next, MainStep

-----------------------------------------------------------------------------
(* Where a connection is.                                                   *)

\* A connection is accepted once.
LEMMA LineStep == TypeOK /\ LineInv /\ MainInv /\ [Next]_vars => LineInv'
<1> SUFFICES ASSUME TypeOK, LineInv, MainInv, [Next]_vars PROVE LineInv'
  OBVIOUS
<1> USE NamesAreDistinct DEF TypeOK, LineInv
<1>1. ASSUME NEW b \in Conns, NEW kind \in Kind, Connect(b, kind) PROVE LineInv'
  <2>1. /\ line[b] = "new" /\ line' = [line EXCEPT ![b] = "open"]
        /\ request' = [request EXCEPT ![b] = kind]
        /\ cookie'[b] \in IF kind \in Own THEN {None} ELSE Cookies
        /\ \A c \in Conns : c # b => cookie'[c] = cookie[c]
        /\ backlog' = Append(backlog, b) /\ UNCHANGED <<session, accepted>>
    BY <1>1 DEF Connect, sessionVars
  <2>2. ~Has(backlog, b) /\ ~Has(accepted, b) /\ session[b] = None
    BY <2>1 DEF Has
  <2>3. Distinct(backlog') /\ Distinct(accepted')
    BY <2>1, <2>2, DistinctAppend
  <2>4. \A i \in 1 .. Len(backlog') :
          /\ line'[backlog'[i]] # "new" /\ session'[backlog'[i]] = None
          /\ ~Has(accepted', backlog'[i])
    <3> SUFFICES ASSUME NEW i \in 1 .. Len(backlog')
                 PROVE  /\ line'[backlog'[i]] # "new" /\ session'[backlog'[i]] = None
                        /\ ~Has(accepted', backlog'[i])
      OBVIOUS
    <3>1. CASE i \in 1 .. Len(backlog)
      <4>1. backlog'[i] = backlog[i] /\ backlog[i] \in Conns
        BY <2>1, <3>1, AppendSeq
      <4> QED
        BY <2>1, <3>1, <4>1
    <3>2. CASE i = Len(backlog) + 1
      <4>1. backlog'[i] = b
        BY <2>1, <3>2, AppendSeq
      <4> QED
        BY <2>1, <2>2, <4>1
    <3> QED
      BY <2>1, <3>1, <3>2, AppendSeq
  <2>5. \A i \in 1 .. Len(accepted') : line'[accepted'[i]] # "new"
    BY <2>1
  <2>6. \A c \in Conns :
          /\ line'[c] = "new" => session'[c] = None
          /\ session'[c] # None => request'[c] \in {"page", "chat"}
          /\ request'[c] \in {"page", "chat"} => cookie'[c] \in Cookies
    BY <2>1, <2>2 DEF Own
  <2> QED
    BY <2>3, <2>4, <2>5, <2>6
<1>2. ASSUME NEW b \in Conns, BrowserSends(b) PROVE LineInv'
  BY <1>2 DEF BrowserSends, browserVars, mainVars, sessionVars, chanVars,
     handlerVars
<1>3. ASSUME NEW b \in Conns, BrowserCloses(b) PROVE LineInv'
  BY <1>3 DEF BrowserCloses, browserVars, mainVars, sessionVars, chanVars,
     handlerVars
<1>4. ASSUME NEW b \in Conns, ChatRespond(b) PROVE LineInv'
  BY <1>4 DEF ChatRespond, Answer, browserVars, mainVars, sessionVars,
     chanVars, handlerVars
<1>5. ASSUME AcceptConn PROVE LineInv'
  <2>1. /\ backlog # <<>> /\ backlog' = Tail(backlog)
        /\ accepted' = Append(accepted, Head(backlog))
        /\ UNCHANGED <<line, request, cookie, session>>
    BY <1>5 DEF AcceptConn, browserVars, sessionVars
  <2>2. /\ Head(backlog) \in Conns /\ line[Head(backlog)] # "new"
        /\ ~Has(accepted, Head(backlog)) /\ ~Has(backlog', Head(backlog))
    <3>1. Head(backlog) \in Conns /\ Head(backlog) = backlog[1] /\ 1 \in 1 .. Len(backlog)
      BY <2>1, TailSeq
    <3>2. ~Has(backlog', Head(backlog))
      BY <2>1, DistinctTail
    <3> QED
      BY <3>1, <3>2
  <2>3. Distinct(backlog') /\ Distinct(accepted')
    BY <2>1, <2>2, DistinctTail, DistinctAppend
  <2>4. \A i \in 1 .. Len(backlog') :
          /\ line[backlog'[i]] # "new" /\ session[backlog'[i]] = None
          /\ ~Has(accepted', backlog'[i])
    <3> SUFFICES ASSUME NEW i \in 1 .. Len(backlog')
                 PROVE  /\ line[backlog'[i]] # "new" /\ session[backlog'[i]] = None
                        /\ ~Has(accepted', backlog'[i])
      OBVIOUS
    <3>1. backlog'[i] = backlog[i + 1] /\ i + 1 \in 1 .. Len(backlog)
      BY <2>1, TailSeq
    <3>2. ~Has(accepted, backlog'[i])
      BY <3>1
    <3>3. backlog'[i] # Head(backlog)
      BY <2>2 DEF Has
    <3> QED
      BY <2>1, <2>2, <3>1, <3>2, <3>3, HasAppend
  <2>5. \A i \in 1 .. Len(accepted') : line[accepted'[i]] # "new"
    BY <2>1, <2>2, AppendSeq
  <2> QED
    BY <2>1, <2>3, <2>4, <2>5
<1>6. ASSUME ReceiveHTTP PROVE LineInv'
  BY <1>6 DEF ReceiveHTTP, Answer, browserVars, mainVars, sessionVars,
     chanVars, handlerVars
<1>7. ASSUME AnswerTest PROVE LineInv'
  BY <1>7 DEF AnswerTest, Answer, browserVars, mainVars, sessionVars,
     chanVars, handlerVars
<1>8. ASSUME UseSlowHttp PROVE LineInv'
  BY <1>8 DEF UseSlowHttp, Answer, browserVars, mainVars, sessionVars,
     chanVars, handlerVars
<1>9. ASSUME Shutdown PROVE LineInv'
  BY <1>9 DEF Shutdown, Answer, browserVars, mainVars, sessionVars, chanVars,
     handlerVars
<1>10. ASSUME GetSession PROVE LineInv'
  <2>1. /\ UNCHANGED <<line, request, cookie, backlog, accepted>>
        /\ \A c \in Conns : c # conn => session'[c] = session[c]
        /\ request[conn] \in {"page", "chat"}
    BY <1>10 DEF GetSession, browserVars
  <2>2. conn = accepted[Len(accepted)] /\ Len(accepted) \in 1 .. Len(accepted)
    BY <1>10 DEF GetSession, MainInv
  <2>3. line[conn] # "new" /\ Has(accepted, conn)
    BY <2>2 DEF Has
  <2>4. \A i \in 1 .. Len(backlog) : backlog[i] # conn /\ backlog[i] \in Conns
    BY <2>3
  <2> QED
    BY <2>1, <2>3, <2>4
<1>11. ASSUME QueueRequest PROVE LineInv'
  BY <1>11 DEF QueueRequest, browserVars, mainVars, sessionVars, chanVars,
     handlerVars
<1>12. ASSUME SeqTake PROVE LineInv'
  BY <1>12 DEF SeqTake, browserVars, mainVars, sessionVars, chanVars,
     handlerVars
<1>13. ASSUME SeqRespond PROVE LineInv'
  BY <1>13 DEF SeqRespond, Answer, browserVars, mainVars, sessionVars,
     chanVars, handlerVars
<1>14. ASSUME ChatTake PROVE LineInv'
  BY <1>14 DEF ChatTake, browserVars, mainVars, sessionVars, chanVars,
     handlerVars
<1>15. ASSUME Rest PROVE LineInv'
  BY <1>15 DEF Rest, vars, browserVars, mainVars, sessionVars, chanVars,
     handlerVars
<1>16. CASE UNCHANGED vars
  BY <1>16 DEF vars, browserVars, mainVars, sessionVars, chanVars, handlerVars
<1> HIDE DEF TypeOK, LineInv
<1> QED
  BY <1>1, <1>2, <1>3, <1>4, <1>5, <1>6, <1>7, <1>8, <1>9, <1>10, <1>11,
     <1>12, <1>13, <1>14, <1>15, <1>16
  DEF Next, MainStep

\* The main thread serves what it accepted last.
LEMMA ServeStep ==
    TypeOK /\ LineInv /\ MainInv /\ HandlerInv /\ [Next]_vars => MainInv'
<1> SUFFICES ASSUME TypeOK, LineInv, MainInv, HandlerInv, [Next]_vars
             PROVE  MainInv'
  OBVIOUS
<1> USE NamesAreDistinct DEF TypeOK, MainInv
<1>1. ASSUME NEW b \in Conns, NEW kind \in Kind, Connect(b, kind) PROVE MainInv'
  BY <1>1 DEF Connect, browserVars, mainVars, sessionVars, chanVars,
     handlerVars
<1>2. ASSUME NEW b \in Conns, BrowserSends(b) PROVE MainInv'
  BY <1>2 DEF BrowserSends, browserVars, mainVars, sessionVars, chanVars,
     handlerVars
<1>3. ASSUME NEW b \in Conns, BrowserCloses(b) PROVE MainInv'
  BY <1>3 DEF BrowserCloses, browserVars, mainVars, sessionVars, chanVars,
     handlerVars
<1>4. ASSUME NEW b \in Conns, ChatRespond(b) PROVE MainInv'
  <2>1. UNCHANGED <<main, conn, accepted, session, mvsequence, seqConn, mvchat>>
    BY <1>4 DEF ChatRespond, mainVars, sessionVars, chanVars
  <2>2. answered' = Append(answered, b) /\ b \in chatting /\ chatting' \subseteq chatting
    BY <1>4 DEF ChatRespond, Answer
  <2>3. ASSUME main \in {"receive", "serve", "queue"}
        PROVE  ~Has(answered', conn) /\ conn \notin chatting'
    BY <2>2, <2>3, HasAppend
  <2> QED
    BY <2>1, <2>3
<1>5. ASSUME AcceptConn PROVE MainInv'
  <2>1. /\ backlog # <<>> /\ conn' = Head(backlog) /\ main' = "receive"
        /\ accepted' = Append(accepted, Head(backlog))
        /\ UNCHANGED <<session, answered, mvsequence, mvchat, seqConn, chatting>>
    BY <1>5 DEF AcceptConn, sessionVars, chanVars, handlerVars
  <2>2. /\ conn' \in Conns /\ session[conn'] = None /\ ~Has(accepted, conn')
    <3>1. Head(backlog) \in Conns /\ Head(backlog) = backlog[1] /\ 1 \in 1 .. Len(backlog)
      BY <2>1, TailSeq
    <3> QED
      BY <2>1, <3>1 DEF LineInv
  <2>3. Len(accepted') > 0 /\ conn' = accepted'[Len(accepted')]
    BY <2>1, <2>2, AppendSeq
  <2>4. ~Has(answered, conn') /\ ~Has(mvsequence, conn') /\ ~Has(mvchat, conn')
    BY <2>2 DEF HandlerInv
  <2>5. seqConn # conn' /\ conn' \notin chatting
    BY <2>2 DEF HandlerInv
  <2> QED
    BY <2>1, <2>2, <2>3, <2>4, <2>5
<1>6. ASSUME ReceiveHTTP PROVE MainInv'
  BY <1>6 DEF ReceiveHTTP, Answer, browserVars, mainVars, sessionVars,
     chanVars, handlerVars
<1>7. ASSUME AnswerTest PROVE MainInv'
  BY <1>7 DEF AnswerTest, Answer, browserVars, mainVars, sessionVars,
     chanVars, handlerVars
<1>8. ASSUME UseSlowHttp PROVE MainInv'
  BY <1>8 DEF UseSlowHttp, Answer, browserVars, mainVars, sessionVars,
     chanVars, handlerVars
<1>9. ASSUME Shutdown PROVE MainInv'
  BY <1>9 DEF Shutdown, Answer, browserVars, mainVars, sessionVars, chanVars,
     handlerVars
<1>10. ASSUME GetSession PROVE MainInv'
  BY <1>10 DEF GetSession, browserVars, mainVars, sessionVars, chanVars,
     handlerVars
<1>11. ASSUME QueueRequest PROVE MainInv'
  BY <1>11 DEF QueueRequest, browserVars, mainVars, sessionVars, chanVars,
     handlerVars
<1>12. ASSUME SeqTake PROVE MainInv'
  <2>1. UNCHANGED <<main, conn, accepted, session, answered, mvchat, chatting>>
    BY <1>12 DEF SeqTake, mainVars, sessionVars
  <2>2. /\ mvsequence # <<>> /\ seqConn' = Head(mvsequence)
        /\ mvsequence' = Tail(mvsequence)
    BY <1>12 DEF SeqTake
  <2>3. ASSUME main \in {"receive", "serve", "queue"}
        PROVE  ~Has(mvsequence', conn) /\ seqConn' # conn
    BY <2>2, <2>3, HasTail
  <2> QED
    BY <2>1, <2>3
<1>13. ASSUME SeqRespond PROVE MainInv'
  <2>1. UNCHANGED <<main, conn, accepted, session, mvsequence, mvchat, chatting>>
    BY <1>13 DEF SeqRespond, mainVars, sessionVars, chanVars
  <2>2. answered' = Append(answered, seqConn) /\ seqConn \in Conns /\ seqConn' = None
    BY <1>13 DEF SeqRespond, Answer
  <2>3. ASSUME main \in {"receive", "serve", "queue"}
        PROVE  ~Has(answered', conn) /\ seqConn' # conn
    BY <2>2, <2>3, HasAppend
  <2> QED
    BY <2>1, <2>3
<1>14. ASSUME ChatTake PROVE MainInv'
  <2>1. UNCHANGED <<main, conn, accepted, session, answered, mvsequence, seqConn>>
    BY <1>14 DEF ChatTake, mainVars, sessionVars
  <2>2. /\ mvchat # <<>> /\ chatting' = chatting \cup {Head(mvchat)}
        /\ mvchat' = Tail(mvchat)
    BY <1>14 DEF ChatTake
  <2>3. ASSUME main \in {"receive", "serve", "queue"}
        PROVE  ~Has(mvchat', conn) /\ conn \notin chatting'
    BY <2>2, <2>3, HasTail
  <2> QED
    BY <2>1, <2>3
<1>15. ASSUME Rest PROVE MainInv'
  BY <1>15 DEF Rest, vars, browserVars, mainVars, sessionVars, chanVars,
     handlerVars
<1>16. CASE UNCHANGED vars
  BY <1>16 DEF vars, browserVars, mainVars, sessionVars, chanVars, handlerVars
<1> HIDE DEF TypeOK, MainInv
<1> QED
  BY <1>1, <1>2, <1>3, <1>4, <1>5, <1>6, <1>7, <1>8, <1>9, <1>10, <1>11,
     <1>12, <1>13, <1>14, <1>15, <1>16
  DEF Next, MainStep

-----------------------------------------------------------------------------
(* Sessions.                                                                *)

\* The sessions that are kept connect the way the flag says.
LEMMA SlowStep ==
    TypeOK /\ LineInv /\ MainInv /\ SlowInv /\ [Next]_vars => SlowInv'
<1> SUFFICES ASSUME TypeOK, LineInv, MainInv, SlowInv, [Next]_vars
             PROVE  SlowInv'
  OBVIOUS
<1> USE NamesAreDistinct DEF TypeOK, SlowInv
<1>1. ASSUME NEW b \in Conns, NEW kind \in Kind, Connect(b, kind) PROVE SlowInv'
  BY <1>1 DEF Connect, browserVars, mainVars, sessionVars, chanVars,
     handlerVars
<1>2. ASSUME NEW b \in Conns, BrowserSends(b) PROVE SlowInv'
  BY <1>2 DEF BrowserSends, browserVars, mainVars, sessionVars, chanVars,
     handlerVars
<1>3. ASSUME NEW b \in Conns, BrowserCloses(b) PROVE SlowInv'
  BY <1>3 DEF BrowserCloses, browserVars, mainVars, sessionVars, chanVars,
     handlerVars
<1>4. ASSUME NEW b \in Conns, ChatRespond(b) PROVE SlowInv'
  BY <1>4 DEF ChatRespond, Answer, browserVars, mainVars, sessionVars,
     chanVars, handlerVars
<1>5. ASSUME AcceptConn PROVE SlowInv'
  BY <1>5 DEF AcceptConn, browserVars, mainVars, sessionVars, chanVars,
     handlerVars
<1>6. ASSUME ReceiveHTTP PROVE SlowInv'
  BY <1>6 DEF ReceiveHTTP, Answer, browserVars, mainVars, sessionVars,
     chanVars, handlerVars
<1>7. ASSUME AnswerTest PROVE SlowInv'
  BY <1>7 DEF AnswerTest, Answer, browserVars, mainVars, sessionVars,
     chanVars, handlerVars
<1>8. ASSUME UseSlowHttp PROVE SlowInv'
  BY <1>8 DEF UseSlowHttp, Answer, browserVars, mainVars, sessionVars,
     chanVars, handlerVars
<1>9. ASSUME Shutdown PROVE SlowInv'
  BY <1>9 DEF Shutdown, Answer, browserVars, mainVars, sessionVars, chanVars,
     handlerVars
<1>10. ASSUME GetSession PROVE SlowInv'
  <2>1. /\ conn \in Conns /\ cookie[conn] \in Cookies /\ session[conn] = None
        /\ DOMAIN mode = 1 .. Len(mode) /\ Len(mode) \in Nat
    BY <1>10 DEF GetSession, LineInv, MainInv
  <2> DEFINE key == cookie[conn]
  <2>2. UNCHANGED <<cookie, era, slow>>
    BY <1>10 DEF GetSession, browserVars
  <2>3. CASE sessions[key] # None
    <3>1. /\ session' = [session EXCEPT ![conn] = sessions[key]]
          /\ UNCHANGED <<sessions, mode>>
      BY <1>10, <2>3 DEF GetSession
    <3> QED
      BY <2>2, <3>1
  <2>4. CASE sessions[key] = None
    <3>1. /\ mode' = Append(mode, slow) /\ session' = [session EXCEPT ![conn] = Len(mode')]
          /\ sessions' = [sessions EXCEPT ![key] = Len(mode')]
      BY <1>10, <2>4 DEF GetSession
    <3>2. /\ Len(mode') = Len(mode) + 1 /\ mode'[Len(mode) + 1] = slow
          /\ \A i \in 1 .. Len(mode) : mode'[i] = mode[i] /\ i # Len(mode')
      BY <2>1, <3>1, AppendSeq
    <3>3. Len(mode') # None
      BY <2>1, <3>2
    <3> QED
      BY <2>1, <2>2, <2>4, <3>1, <3>2, <3>3
  <2> QED
    BY <2>3, <2>4
<1>11. ASSUME QueueRequest PROVE SlowInv'
  BY <1>11 DEF QueueRequest, browserVars, mainVars, sessionVars, chanVars,
     handlerVars
<1>12. ASSUME SeqTake PROVE SlowInv'
  BY <1>12 DEF SeqTake, browserVars, mainVars, sessionVars, chanVars,
     handlerVars
<1>13. ASSUME SeqRespond PROVE SlowInv'
  BY <1>13 DEF SeqRespond, Answer, browserVars, mainVars, sessionVars,
     chanVars, handlerVars
<1>14. ASSUME ChatTake PROVE SlowInv'
  BY <1>14 DEF ChatTake, browserVars, mainVars, sessionVars, chanVars,
     handlerVars
<1>15. ASSUME Rest PROVE SlowInv'
  BY <1>15 DEF Rest, vars, browserVars, mainVars, sessionVars, chanVars,
     handlerVars
<1>16. CASE UNCHANGED vars
  BY <1>16 DEF vars, browserVars, mainVars, sessionVars, chanVars, handlerVars
<1> HIDE DEF TypeOK, SlowInv
<1> QED
  BY <1>1, <1>2, <1>3, <1>4, <1>5, <1>6, <1>7, <1>8, <1>9, <1>10, <1>11,
     <1>12, <1>13, <1>14, <1>15, <1>16
  DEF Next, MainStep

\* The sessions that are kept are those given out since they were forgotten.
LEMMA EraStep ==
    TypeOK /\ LineInv /\ MainInv /\ EraInv /\ [Next]_vars => EraInv'
<1> SUFFICES ASSUME TypeOK, LineInv, MainInv, EraInv, [Next]_vars
             PROVE  EraInv'
  OBVIOUS
<1> USE NamesAreDistinct DEF TypeOK, EraInv
<1>1. ASSUME NEW b \in Conns, NEW kind \in Kind, Connect(b, kind) PROVE EraInv'
  <2>1. /\ session[b] = None /\ UNCHANGED <<session, sessions, era>>
        /\ \A c \in Conns : c # b => cookie'[c] = cookie[c]
    BY <1>1 DEF Connect, LineInv, sessionVars
  <2>2. \A d \in Conns : session[d] # None => cookie'[d] = cookie[d]
    BY <2>1
  <2>3. ASSUME NEW c \in Conns, session[c] = None, NEW k \in Cookies, sessions[k] # None
        PROVE  \E d \in Conns : session[d] = sessions[k] /\ cookie'[d] = k /\ era[d] = era[c]
    <3>1. PICK d \in Conns :
                session[d] = sessions[k] /\ cookie[d] = k /\ era[d] = era[c]
      BY <2>3
    <3>2. cookie'[d] = k
      BY <2>2, <2>3, <3>1
    <3> QED
      BY <3>1, <3>2
  <2>4. ASSUME NEW c \in Conns, session[c] = None, NEW d \in Conns
        PROVE  /\ era[d] <= era[c]
               /\ session[d] = None => era[d] = era[c]
               /\ session[d] # None /\ era[d] = era[c] =>
                     sessions[cookie'[d]] = session[d]
    BY <2>2, <2>4
  <2> QED
    BY <2>1, <2>3, <2>4
<1>2. ASSUME NEW b \in Conns, BrowserSends(b) PROVE EraInv'
  BY <1>2 DEF BrowserSends, browserVars, mainVars, sessionVars, chanVars,
     handlerVars
<1>3. ASSUME NEW b \in Conns, BrowserCloses(b) PROVE EraInv'
  BY <1>3 DEF BrowserCloses, browserVars, mainVars, sessionVars, chanVars,
     handlerVars
<1>4. ASSUME NEW b \in Conns, ChatRespond(b) PROVE EraInv'
  BY <1>4 DEF ChatRespond, Answer, browserVars, mainVars, sessionVars,
     chanVars, handlerVars
<1>5. ASSUME AcceptConn PROVE EraInv'
  BY <1>5 DEF AcceptConn, browserVars, mainVars, sessionVars, chanVars,
     handlerVars
<1>6. ASSUME ReceiveHTTP PROVE EraInv'
  BY <1>6 DEF ReceiveHTTP, Answer, browserVars, mainVars, sessionVars,
     chanVars, handlerVars
<1>7. ASSUME AnswerTest PROVE EraInv'
  BY <1>7 DEF AnswerTest, Answer, browserVars, mainVars, sessionVars,
     chanVars, handlerVars
<1>8. ASSUME UseSlowHttp PROVE EraInv'
  BY <1>8 DEF UseSlowHttp, Answer, browserVars, mainVars, sessionVars,
     chanVars, handlerVars
<1>9. ASSUME Shutdown PROVE EraInv'
  BY <1>9 DEF Shutdown, Answer, browserVars, mainVars, sessionVars, chanVars,
     handlerVars
<1>10. ASSUME GetSession PROVE EraInv'
  <2>1. /\ conn \in Conns /\ cookie[conn] \in Cookies /\ session[conn] = None
        /\ DOMAIN mode = 1 .. Len(mode) /\ Len(mode) \in Nat
    BY <1>10 DEF GetSession, LineInv, MainInv
  <2> DEFINE key == cookie[conn]
  <2>2. UNCHANGED <<cookie, era, slow>>
    BY <1>10 DEF GetSession, browserVars
  <2>3. CASE sessions[key] # None
    <3>1. /\ session' = [session EXCEPT ![conn] = sessions[key]]
          /\ UNCHANGED <<sessions, mode>>
      BY <1>10, <2>3 DEF GetSession
    <3>2. \A c \in Conns : session'[c] = None => session[c] = None /\ c # conn
      BY <2>1, <2>3, <3>1
    <3>3. \A d \in Conns : d # conn => session'[d] = session[d]
      BY <3>1
    <3>4. session'[conn] = sessions'[key]
      BY <2>1, <3>1
    <3> QED
      BY <2>1, <2>2, <2>3, <3>1, <3>2, <3>3, <3>4
  <2>4. CASE sessions[key] = None
    <3>1. /\ mode' = Append(mode, slow) /\ session' = [session EXCEPT ![conn] = Len(mode')]
          /\ sessions' = [sessions EXCEPT ![key] = Len(mode')]
      BY <1>10, <2>4 DEF GetSession
    <3>2. /\ Len(mode') = Len(mode) + 1 /\ mode'[Len(mode) + 1] = slow
          /\ \A i \in 1 .. Len(mode) : mode'[i] = mode[i] /\ i # Len(mode')
      BY <2>1, <3>1, AppendSeq
    <3>3. Len(mode') # None
      BY <2>1, <3>2
    <3>4. \A c \in Conns : session'[c] = None => session[c] = None /\ c # conn
      BY <2>1, <2>4, <3>1, <3>3
    <3>5. \A d \in Conns : d # conn => session'[d] = session[d]
      BY <3>1
    <3>6. session'[conn] = sessions'[key] /\ session'[conn] # None
      BY <2>1, <3>1, <3>3
    <3>7. \A k \in Cookies : k # key => sessions'[k] = sessions[k]
      BY <3>1
    <3>8. ASSUME NEW c \in Conns, session'[c] = None, NEW d \in Conns
          PROVE  /\ era[d] <= era[c]
                 /\ session'[d] = None => era[d] = era[c]
                 /\ session'[d] # None /\ era[d] = era[c] =>
                       sessions'[cookie[d]] = session'[d]
      <4>1. CASE d = conn
        BY <2>1, <3>4, <3>6, <3>8, <4>1
      <4>2. CASE d # conn
        <5>1. session'[d] # None /\ era[d] = era[c] => sessions[cookie[d]] = session[d]
          BY <3>4, <3>5, <3>8, <4>2
        <5>2. session[d] # None => cookie[d] \in Cookies
          BY DEF LineInv
        <5> QED
          BY <2>4, <3>4, <3>5, <3>7, <3>8, <4>2, <5>1, <5>2
      <4> QED
        BY <4>1, <4>2
    <3>9. ASSUME NEW c \in Conns, session'[c] = None, NEW k \in Cookies, sessions'[k] # None
          PROVE  \E d \in Conns : /\ session'[d] = sessions'[k] /\ cookie[d] = k
                                  /\ era[d] = era[c]
      <4>1. CASE k = key
        BY <2>1, <3>4, <3>6, <3>9, <4>1
      <4>2. CASE k # key
        <5>1. PICK d \in Conns :
                session[d] = sessions[k] /\ cookie[d] = k /\ era[d] = era[c]
          BY <3>4, <3>7, <3>9, <4>2
        <5>2. d # conn
          BY <4>2, <5>1
        <5> QED
          BY <3>5, <3>7, <4>2, <5>1, <5>2
      <4> QED
        BY <4>1, <4>2
    <3> QED
      BY <2>2, <3>8, <3>9
  <2> QED
    BY <2>3, <2>4
<1>11. ASSUME QueueRequest PROVE EraInv'
  BY <1>11 DEF QueueRequest, browserVars, mainVars, sessionVars, chanVars,
     handlerVars
<1>12. ASSUME SeqTake PROVE EraInv'
  BY <1>12 DEF SeqTake, browserVars, mainVars, sessionVars, chanVars,
     handlerVars
<1>13. ASSUME SeqRespond PROVE EraInv'
  BY <1>13 DEF SeqRespond, Answer, browserVars, mainVars, sessionVars,
     chanVars, handlerVars
<1>14. ASSUME ChatTake PROVE EraInv'
  BY <1>14 DEF ChatTake, browserVars, mainVars, sessionVars, chanVars,
     handlerVars
<1>15. ASSUME Rest PROVE EraInv'
  BY <1>15 DEF Rest, vars, browserVars, mainVars, sessionVars, chanVars,
     handlerVars
<1>16. CASE UNCHANGED vars
  BY <1>16 DEF vars, browserVars, mainVars, sessionVars, chanVars, handlerVars
<1> HIDE DEF TypeOK, EraInv
<1> QED
  BY <1>1, <1>2, <1>3, <1>4, <1>5, <1>6, <1>7, <1>8, <1>9, <1>10, <1>11,
     <1>12, <1>13, <1>14, <1>15, <1>16
  DEF Next, MainStep

\* Sessions are given out by cookie.
LEMMA GivenStep ==
    TypeOK /\ LineInv /\ MainInv /\ EraInv /\ GivenInv /\ [Next]_vars
        => GivenInv'
<1> SUFFICES ASSUME TypeOK, LineInv, MainInv, EraInv, GivenInv, [Next]_vars
             PROVE  GivenInv'
  OBVIOUS
<1> USE NamesAreDistinct DEF TypeOK, GivenInv
<1>1. ASSUME NEW b \in Conns, NEW kind \in Kind, Connect(b, kind) PROVE GivenInv'
  <2>1. /\ session[b] = None /\ UNCHANGED <<session, sessions, era>>
        /\ \A c \in Conns : c # b => cookie'[c] = cookie[c]
    BY <1>1 DEF Connect, LineInv, sessionVars
  <2>2. \A d \in Conns : session[d] # None => cookie'[d] = cookie[d]
    BY <2>1
  <2> QED
    BY <2>1, <2>2
<1>2. ASSUME NEW b \in Conns, BrowserSends(b) PROVE GivenInv'
  BY <1>2 DEF BrowserSends, browserVars, mainVars, sessionVars, chanVars,
     handlerVars
<1>3. ASSUME NEW b \in Conns, BrowserCloses(b) PROVE GivenInv'
  BY <1>3 DEF BrowserCloses, browserVars, mainVars, sessionVars, chanVars,
     handlerVars
<1>4. ASSUME NEW b \in Conns, ChatRespond(b) PROVE GivenInv'
  BY <1>4 DEF ChatRespond, Answer, browserVars, mainVars, sessionVars,
     chanVars, handlerVars
<1>5. ASSUME AcceptConn PROVE GivenInv'
  BY <1>5 DEF AcceptConn, browserVars, mainVars, sessionVars, chanVars,
     handlerVars
<1>6. ASSUME ReceiveHTTP PROVE GivenInv'
  BY <1>6 DEF ReceiveHTTP, Answer, browserVars, mainVars, sessionVars,
     chanVars, handlerVars
<1>7. ASSUME AnswerTest PROVE GivenInv'
  BY <1>7 DEF AnswerTest, Answer, browserVars, mainVars, sessionVars,
     chanVars, handlerVars
<1>8. ASSUME UseSlowHttp PROVE GivenInv'
  <2>1. /\ era' = [c \in Conns |-> IF session[c] = None THEN era[c] + 1 ELSE era[c]]
        /\ UNCHANGED <<cookie, session>>
    BY <1>8 DEF UseSlowHttp, browserVars
  <2> QED
    BY <2>1
<1>9. ASSUME Shutdown PROVE GivenInv'
  BY <1>9 DEF Shutdown, Answer, browserVars, mainVars, sessionVars, chanVars,
     handlerVars
<1>10. ASSUME GetSession PROVE GivenInv'
  <2>1. /\ conn \in Conns /\ cookie[conn] \in Cookies /\ session[conn] = None
        /\ DOMAIN mode = 1 .. Len(mode) /\ Len(mode) \in Nat
    BY <1>10 DEF GetSession, LineInv, MainInv
  <2> DEFINE key == cookie[conn]
  <2>2. UNCHANGED <<cookie, era, slow>>
    BY <1>10 DEF GetSession, browserVars
  <2>3. CASE sessions[key] # None
    <3>1. /\ session' = [session EXCEPT ![conn] = sessions[key]]
          /\ UNCHANGED <<sessions, mode>>
      BY <1>10, <2>3 DEF GetSession
    <3>2. PICK e \in Conns :
             session[e] = sessions[key] /\ cookie[e] = key /\ era[e] = era[conn]
      BY <2>1, <2>3 DEF EraInv
    <3>3. \A d \in Conns : d # conn => session'[d] = session[d]
      BY <3>1
    <3>4. session'[conn] = session[e] /\ session[e] # None
      BY <2>1, <2>3, <3>1, <3>2
    <3>5. ASSUME NEW d \in Conns, d # conn, session[d] # None
          PROVE  session[d] = session'[conn] <=>
                     cookie[d] = cookie[conn] /\ era[d] = era[conn]
      BY <3>2, <3>4, <3>5
    <3>9. ASSUME NEW c \in Conns, NEW d \in Conns, session'[c] # None, session'[d] # None
          PROVE  session'[c] = session'[d] <=> cookie[c] = cookie[d] /\ era[c] = era[d]
      <4>1. CASE c # conn /\ d # conn
        BY <3>3, <3>9, <4>1
      <4>2. CASE c = conn /\ d # conn
        BY <3>3, <3>5, <3>9, <4>2
      <4>3. CASE c # conn /\ d = conn
        BY <3>3, <3>5, <3>9, <4>3
      <4>4. CASE c = conn /\ d = conn
        BY <4>4
      <4> QED
        BY <4>1, <4>2, <4>3, <4>4
    <3> QED
      BY <2>2, <3>9
  <2>4. CASE sessions[key] = None
    <3>1. /\ mode' = Append(mode, slow) /\ session' = [session EXCEPT ![conn] = Len(mode')]
          /\ sessions' = [sessions EXCEPT ![key] = Len(mode')]
      BY <1>10, <2>4 DEF GetSession
    <3>2. /\ Len(mode') = Len(mode) + 1 /\ mode'[Len(mode) + 1] = slow
          /\ \A i \in 1 .. Len(mode) : mode'[i] = mode[i] /\ i # Len(mode')
      BY <2>1, <3>1, AppendSeq
    <3>3. Len(mode') # None
      BY <2>1, <3>2
    <3>4. \A d \in Conns : d # conn => session'[d] = session[d]
      BY <3>1
    <3>5. session'[conn] = Len(mode')
      BY <2>1, <3>1
    <3>6. ASSUME NEW d \in Conns, d # conn, session[d] # None
          PROVE  /\ session[d] # session'[conn]
                 /\ ~(cookie[d] = cookie[conn] /\ era[d] = era[conn])
      <4>1. session[d] \in 1 .. Len(mode)
        BY <2>1, <3>6
      <4>2. era[d] = era[conn] => sessions[cookie[d]] = session[d]
        BY <2>1, <3>6 DEF EraInv
      <4> QED
        BY <2>4, <3>2, <3>5, <3>6, <4>1, <4>2
    <3>9. ASSUME NEW c \in Conns, NEW d \in Conns, session'[c] # None, session'[d] # None
          PROVE  session'[c] = session'[d] <=> cookie[c] = cookie[d] /\ era[c] = era[d]
      <4>1. CASE c # conn /\ d # conn
        BY <3>4, <3>9, <4>1
      <4>2. CASE c = conn /\ d # conn
        BY <3>4, <3>6, <3>9, <4>2
      <4>3. CASE c # conn /\ d = conn
        BY <3>4, <3>6, <3>9, <4>3
      <4>4. CASE c = conn /\ d = conn
        BY <4>4
      <4> QED
        BY <4>1, <4>2, <4>3, <4>4
    <3> QED
      BY <2>2, <3>9
  <2> QED
    BY <2>3, <2>4
<1>11. ASSUME QueueRequest PROVE GivenInv'
  BY <1>11 DEF QueueRequest, browserVars, mainVars, sessionVars, chanVars,
     handlerVars
<1>12. ASSUME SeqTake PROVE GivenInv'
  BY <1>12 DEF SeqTake, browserVars, mainVars, sessionVars, chanVars,
     handlerVars
<1>13. ASSUME SeqRespond PROVE GivenInv'
  BY <1>13 DEF SeqRespond, Answer, browserVars, mainVars, sessionVars,
     chanVars, handlerVars
<1>14. ASSUME ChatTake PROVE GivenInv'
  BY <1>14 DEF ChatTake, browserVars, mainVars, sessionVars, chanVars,
     handlerVars
<1>15. ASSUME Rest PROVE GivenInv'
  BY <1>15 DEF Rest, vars, browserVars, mainVars, sessionVars, chanVars,
     handlerVars
<1>16. CASE UNCHANGED vars
  BY <1>16 DEF vars, browserVars, mainVars, sessionVars, chanVars, handlerVars
<1> HIDE DEF TypeOK, GivenInv
<1> QED
  BY <1>1, <1>2, <1>3, <1>4, <1>5, <1>6, <1>7, <1>8, <1>9, <1>10, <1>11,
     <1>12, <1>13, <1>14, <1>15, <1>16
  DEF Next, MainStep

-----------------------------------------------------------------------------
(* The order of ordinary requests.                                         *)

\* What has been accepted stays at its place.
LEMMA AcceptedGrows ==
    ASSUME TypeOK, [Next]_vars
    PROVE  /\ Len(accepted') \in Nat /\ Len(accepted) <= Len(accepted')
           /\ \A k \in 1 .. Len(accepted) : accepted'[k] = accepted[k]
<1> USE DEF TypeOK
<1>1. UNCHANGED accepted \/ \E c \in Conns : accepted' = Append(accepted, c)
  BY TailSeq DEF Next, MainStep, Connect, BrowserSends, BrowserCloses, ChatRespond,
     AcceptConn, ReceiveHTTP, AnswerTest, UseSlowHttp, Shutdown, GetSession,
     QueueRequest, SeqTake, SeqRespond, ChatTake, Rest, vars
<1>2. CASE UNCHANGED accepted
  BY <1>2
<1>3. ASSUME NEW c \in Conns, accepted' = Append(accepted, c)
      PROVE  /\ Len(accepted') \in Nat /\ Len(accepted) <= Len(accepted')
             /\ \A k \in 1 .. Len(accepted) : accepted'[k] = accepted[k]
  BY <1>3, AppendSeq
<1> QED
  BY <1>1, <1>2, <1>3

\* What has been accepted, in which order, and what has a session stays so, and
\* only the request that the main thread serves is given one.
LEMMA OrderStays ==
    ASSUME TypeOK, LineInv, [Next]_vars
    PROVE  /\ \A c \in Conns : Has(accepted, c) => Has(accepted', c) /\ request'[c] = request[c]
           /\ \A c, d \in Conns : Earlier(accepted, c, d) => Earlier(accepted', c, d)
           /\ \A c \in Conns : IsQueued(c) => IsQueued(c)'
           /\ \A c \in Conns : IsQueued(c)' =>
                 IsQueued(c) \/ (main = "serve" /\ main' = "queue" /\ conn = c /\ conn' = c)
<1> USE NamesAreDistinct DEF TypeOK
<1>1. /\ Len(accepted) \in Nat /\ Len(accepted') \in Nat
      /\ Len(accepted) <= Len(accepted')
      /\ \A k \in 1 .. Len(accepted) : accepted'[k] = accepted[k]
  BY AcceptedGrows
<1>2. \A k \in 1 .. Len(accepted) : k \in 1 .. Len(accepted')
  BY <1>1
<1>3. /\ \A c \in Conns : Has(accepted, c) => Has(accepted', c)
      /\ \A c, d \in Conns : Earlier(accepted, c, d) => Earlier(accepted', c, d)
  BY <1>1, <1>2 DEF Has, Earlier
<1>4. \/ UNCHANGED request
      \/ \E c \in Conns : line[c] = "new" /\ UNCHANGED session
             /\ \A d \in Conns : d # c => request'[d] = request[d]
  BY DEF Next, MainStep, Connect, BrowserSends, BrowserCloses, ChatRespond,
     AcceptConn, ReceiveHTTP, AnswerTest, UseSlowHttp, Shutdown, GetSession,
     QueueRequest, SeqTake, SeqRespond, ChatTake, Rest, vars, browserVars, sessionVars
<1>5. \A c \in Conns : line[c] = "new" => ~Has(accepted, c) /\ session[c] = None
  BY DEF LineInv, Has
<1>6. \A c \in Conns :
        /\ Has(accepted, c) => request'[c] = request[c]
        /\ session[c] # None => request'[c] = request[c]
  BY <1>4, <1>5
<1>7. \/ UNCHANGED session
      \/ /\ main = "serve" /\ main' = "queue" /\ conn' = conn /\ request' = request
         /\ \A c \in Conns : c # conn => session'[c] = session[c]
         /\ session'[conn] # None
  <2>1. CASE GetSession
    <3>1. /\ main = "serve" /\ main' = "queue" /\ conn' = conn /\ request' = request
          /\ \A c \in Conns : c # conn => session'[c] = session[c]
          /\ conn \in Conns /\ Len(mode) \in Nat
      BY <2>1 DEF GetSession, browserVars
    <3>2. CASE sessions[cookie[conn]] # None
      BY <2>1, <3>1, <3>2 DEF GetSession
    <3>3. CASE sessions[cookie[conn]] = None
      <4>1. session'[conn] = Len(Append(mode, slow))
        BY <2>1, <3>1, <3>3 DEF GetSession
      <4>2. Len(Append(mode, slow)) \in Nat
        BY <3>1, AppendSeq
      <4> QED
        BY <3>1, <4>1, <4>2
    <3> QED
      BY <3>2, <3>3
  <2>2. CASE ~GetSession
    BY <2>2 DEF Next, MainStep, Connect, BrowserSends, BrowserCloses, ChatRespond,
       AcceptConn, ReceiveHTTP, AnswerTest, UseSlowHttp, Shutdown, QueueRequest,
       SeqTake, SeqRespond, ChatTake, Rest, vars, sessionVars
  <2> QED
    BY <2>1, <2>2
<1>8. \A c \in Conns : IsQueued(c) => IsQueued(c)'
  BY <1>6, <1>7 DEF IsQueued
<1>9. \A c \in Conns : IsQueued(c)' =>
        IsQueued(c) \/ (main = "serve" /\ main' = "queue" /\ conn = c /\ conn' = c)
  BY <1>6, <1>7 DEF IsQueued
<1> QED
  BY <1>3, <1>6, <1>8, <1>9

\* What handlers have was accepted.
LEMMA HandlerStep ==
    TypeOK /\ LineInv /\ MainInv /\ HandlerInv /\ [Next]_vars => HandlerInv'
<1> SUFFICES ASSUME TypeOK, LineInv, MainInv, HandlerInv, [Next]_vars
             PROVE  HandlerInv'
  OBVIOUS
<1> USE NamesAreDistinct DEF TypeOK, HandlerInv
<1>a. /\ \A c \in Conns : Has(accepted, c) => Has(accepted', c) /\ request'[c] = request[c]
      /\ \A c, d \in Conns : Earlier(accepted, c, d) => Earlier(accepted', c, d)
      /\ \A c \in Conns : IsQueued(c) => IsQueued(c)'
      /\ \A c \in Conns : IsQueued(c)' =>
            IsQueued(c) \/ (main = "serve" /\ main' = "queue" /\ conn = c /\ conn' = c)
  BY OrderStays
<1>b. ASSUME UNCHANGED <<mvsequence, seqConn, mvchat, chatting, answered>> PROVE HandlerInv'
  BY <1>a, <1>b
<1>1. ASSUME NEW b \in Conns, NEW kind \in Kind, Connect(b, kind) PROVE HandlerInv'
  <2>1. UNCHANGED <<mvsequence, seqConn, mvchat, chatting, answered>>
    BY <1>1 DEF Connect, browserVars, mainVars, sessionVars, chanVars, handlerVars
  <2> QED
    BY <1>b, <2>1
<1>2. ASSUME NEW b \in Conns, BrowserSends(b) PROVE HandlerInv'
  <2>1. UNCHANGED <<mvsequence, seqConn, mvchat, chatting, answered>>
    BY <1>2 DEF BrowserSends, browserVars, mainVars, sessionVars, chanVars, handlerVars
  <2> QED
    BY <1>b, <2>1
<1>3. ASSUME NEW b \in Conns, BrowserCloses(b) PROVE HandlerInv'
  <2>1. UNCHANGED <<mvsequence, seqConn, mvchat, chatting, answered>>
    BY <1>3 DEF BrowserCloses, browserVars, mainVars, sessionVars, chanVars, handlerVars
  <2> QED
    BY <1>b, <2>1
<1>4. ASSUME NEW b \in Conns, ChatRespond(b) PROVE HandlerInv'
  <2>1. /\ UNCHANGED <<mvsequence, seqConn, mvchat>> /\ chatting' \subseteq chatting
        /\ answered' = Append(answered, b) /\ b \in chatting
    BY <1>4 DEF ChatRespond, Answer, chanVars
  <2>2. \A c \in Conns : Has(answered', c) => Has(answered, c) \/ c = b
    BY <2>1, HasAppend
  <2> QED
    BY <1>a, <2>1, <2>2
<1>5. ASSUME AcceptConn PROVE HandlerInv'
  <2>1. UNCHANGED <<mvsequence, seqConn, mvchat, chatting, answered>>
    BY <1>5 DEF AcceptConn, browserVars, mainVars, sessionVars, chanVars, handlerVars
  <2> QED
    BY <1>b, <2>1
<1>6. ASSUME ReceiveHTTP PROVE HandlerInv'
  <2>1. /\ UNCHANGED <<mvsequence, seqConn, mvchat, chatting, conn>> /\ conn \in Conns
        /\ (answered' = answered \/ answered' = Append(answered, conn))
    BY <1>6 DEF ReceiveHTTP, Answer, chanVars, handlerVars
  <2>2. Has(accepted, conn)
    <3>1. Len(accepted) \in 1 .. Len(accepted) /\ conn = accepted[Len(accepted)]
      BY <1>6 DEF ReceiveHTTP, MainInv
    <3> QED
      BY <3>1 DEF Has
  <2>3. \A c \in Conns : Has(answered', c) => Has(answered, c) \/ c = conn
    <3>1. CASE answered' = answered
      BY <3>1
    <3>2. CASE answered' = Append(answered, conn)
      BY <2>1, <3>2, HasAppend
    <3> QED
      BY <2>1, <3>1, <3>2
  <2> QED
    BY <1>a, <2>1, <2>2, <2>3
<1>7. ASSUME AnswerTest PROVE HandlerInv'
  <2>1. /\ UNCHANGED <<mvsequence, seqConn, mvchat, chatting, conn>> /\ conn \in Conns
        /\ (answered' = answered \/ answered' = Append(answered, conn))
    BY <1>7 DEF AnswerTest, Answer, chanVars, handlerVars
  <2>2. Has(accepted, conn)
    <3>1. Len(accepted) \in 1 .. Len(accepted) /\ conn = accepted[Len(accepted)]
      BY <1>7 DEF AnswerTest, MainInv
    <3> QED
      BY <3>1 DEF Has
  <2>3. \A c \in Conns : Has(answered', c) => Has(answered, c) \/ c = conn
    <3>1. CASE answered' = answered
      BY <3>1
    <3>2. CASE answered' = Append(answered, conn)
      BY <2>1, <3>2, HasAppend
    <3> QED
      BY <2>1, <3>1, <3>2
  <2> QED
    BY <1>a, <2>1, <2>2, <2>3
<1>8. ASSUME UseSlowHttp PROVE HandlerInv'
  <2>1. /\ UNCHANGED <<mvsequence, seqConn, mvchat, chatting, conn>> /\ conn \in Conns
        /\ (answered' = answered \/ answered' = Append(answered, conn))
    BY <1>8 DEF UseSlowHttp, Answer, chanVars, handlerVars
  <2>2. Has(accepted, conn)
    <3>1. Len(accepted) \in 1 .. Len(accepted) /\ conn = accepted[Len(accepted)]
      BY <1>8 DEF UseSlowHttp, MainInv
    <3> QED
      BY <3>1 DEF Has
  <2>3. \A c \in Conns : Has(answered', c) => Has(answered, c) \/ c = conn
    <3>1. CASE answered' = answered
      BY <3>1
    <3>2. CASE answered' = Append(answered, conn)
      BY <2>1, <3>2, HasAppend
    <3> QED
      BY <2>1, <3>1, <3>2
  <2> QED
    BY <1>a, <2>1, <2>2, <2>3
<1>9. ASSUME Shutdown PROVE HandlerInv'
  <2>1. /\ UNCHANGED <<mvsequence, seqConn, mvchat, chatting, conn>> /\ conn \in Conns
        /\ (answered' = answered \/ answered' = Append(answered, conn))
    BY <1>9 DEF Shutdown, Answer, chanVars, handlerVars
  <2>2. Has(accepted, conn)
    <3>1. Len(accepted) \in 1 .. Len(accepted) /\ conn = accepted[Len(accepted)]
      BY <1>9 DEF Shutdown, MainInv
    <3> QED
      BY <3>1 DEF Has
  <2>3. \A c \in Conns : Has(answered', c) => Has(answered, c) \/ c = conn
    <3>1. CASE answered' = answered
      BY <3>1
    <3>2. CASE answered' = Append(answered, conn)
      BY <2>1, <3>2, HasAppend
    <3> QED
      BY <2>1, <3>1, <3>2
  <2> QED
    BY <1>a, <2>1, <2>2, <2>3
<1>10. ASSUME GetSession PROVE HandlerInv'
  <2>1. UNCHANGED <<mvsequence, seqConn, mvchat, chatting, answered>>
    BY <1>10 DEF GetSession, browserVars, mainVars, sessionVars, chanVars, handlerVars
  <2> QED
    BY <1>b, <2>1
<1>11. ASSUME QueueRequest PROVE HandlerInv'
  <2>1. /\ conn \in Conns /\ UNCHANGED <<seqConn, chatting, answered>>
        /\ UNCHANGED <<conn, request, session>>
        /\ IF request[conn] = "chat"
           THEN mvchat' = Append(mvchat, conn) /\ UNCHANGED mvsequence
           ELSE mvsequence' = Append(mvsequence, conn) /\ UNCHANGED mvchat
    BY <1>11 DEF QueueRequest, handlerVars, browserVars, sessionVars
  <2>2. Has(accepted, conn) /\ (request[conn] # "chat" => IsQueued(conn)')
    <3>1. /\ Len(accepted) \in 1 .. Len(accepted) /\ conn = accepted[Len(accepted)]
          /\ session[conn] # None
      BY <1>11 DEF QueueRequest, MainInv
    <3>2. request[conn] \in {"page", "chat"}
      BY <2>1, <3>1 DEF LineInv
    <3>3. Has(accepted, conn)
      BY <3>1 DEF Has
    <3>4. request[conn] # "chat" => IsQueued(conn)'
      BY <2>1, <3>1, <3>2 DEF IsQueued
    <3> QED
      BY <3>3, <3>4
  <2>3. CASE request[conn] = "chat"
    <3>1. mvchat' = Append(mvchat, conn) /\ UNCHANGED mvsequence
      BY <2>1, <2>3
    <3>2. \A c \in Conns : Has(mvchat', c) => Has(mvchat, c) \/ c = conn
      BY <2>1, <3>1, HasAppend
    <3> QED
      BY <1>a, <2>1, <2>2, <2>3, <3>1, <3>2
  <2>4. CASE request[conn] # "chat"
    <3>1. mvsequence' = Append(mvsequence, conn) /\ UNCHANGED mvchat
      BY <2>1, <2>4
    <3>2. \A c \in Conns : Has(mvsequence', c) => Has(mvsequence, c) \/ c = conn
      BY <2>1, <3>1, HasAppend
    <3> QED
      BY <1>a, <2>1, <2>2, <2>4, <3>1, <3>2
  <2> QED
    BY <2>3, <2>4
<1>12. ASSUME SeqTake PROVE HandlerInv'
  <2>1. /\ UNCHANGED <<mvchat, chatting, answered>> /\ mvsequence # <<>>
        /\ seqConn' = Head(mvsequence) /\ mvsequence' = Tail(mvsequence)
    BY <1>12 DEF SeqTake
  <2>2. \A c \in Conns : Has(mvsequence', c) \/ seqConn' = c => Has(mvsequence, c)
    BY <2>1, HasTail
  <2> QED
    BY <1>a, <2>1, <2>2
<1>13. ASSUME SeqRespond PROVE HandlerInv'
  <2>1. /\ UNCHANGED <<mvsequence, mvchat, chatting>> /\ seqConn' = None
        /\ answered' = Append(answered, seqConn) /\ seqConn \in Conns
    BY <1>13 DEF SeqRespond, Answer, chanVars
  <2>2. \A c \in Conns : Has(answered', c) => Has(answered, c) \/ c = seqConn
    BY <2>1, HasAppend
  <2> QED
    BY <1>a, <2>1, <2>2
<1>14. ASSUME ChatTake PROVE HandlerInv'
  <2>1. /\ UNCHANGED <<mvsequence, seqConn, answered>> /\ mvchat # <<>>
        /\ chatting' = chatting \cup {Head(mvchat)} /\ mvchat' = Tail(mvchat)
    BY <1>14 DEF ChatTake
  <2>2. \A c \in Conns : Has(mvchat', c) \/ c \in chatting' => Has(mvchat, c) \/ c \in chatting
    BY <2>1, HasTail
  <2> QED
    BY <1>a, <2>1, <2>2
<1>15. ASSUME Rest PROVE HandlerInv'
  <2>1. UNCHANGED <<mvsequence, seqConn, mvchat, chatting, answered>>
    BY <1>15 DEF Rest, vars, browserVars, mainVars, sessionVars, chanVars, handlerVars
  <2> QED
    BY <1>b, <2>1
<1>16. CASE UNCHANGED vars
  <2>1. UNCHANGED <<mvsequence, seqConn, mvchat, chatting, answered>>
    BY <1>16 DEF vars, chanVars, handlerVars
  <2> QED
    BY <1>b, <2>1
<1> HIDE DEF TypeOK, HandlerInv
<1> QED
  BY <1>1, <1>2, <1>3, <1>4, <1>5, <1>6, <1>7, <1>8, <1>9, <1>10, <1>11,
     <1>12, <1>13, <1>14, <1>15, <1>16
  DEF Next, MainStep

\* What the main thread serves was accepted last.
LEMMA LastAccepted ==
    ASSUME TypeOK, MainInv, main \in {"receive", "serve", "queue"},
           NEW c, Has(accepted, c), c # conn
    PROVE  Earlier(accepted, c, conn)
<1>1. PICK k \in 1 .. Len(accepted) : accepted[k] = c
  BY DEF Has
<1>2. Len(accepted) \in 1 .. Len(accepted) /\ accepted[Len(accepted)] = conn
  BY DEF MainInv, TypeOK
<1>3. k < Len(accepted)
  BY <1>1, <1>2 DEF TypeOK
<1> QED
  BY <1>1, <1>2, <1>3 DEF Earlier

\* Pages go through the channel in the order they were accepted.
LEMMA OrderStep ==
    TypeOK /\ LineInv /\ MainInv /\ HandlerInv /\ OrderInv /\ [Next]_vars
        => OrderInv'
<1> SUFFICES ASSUME TypeOK, LineInv, MainInv, HandlerInv, OrderInv, [Next]_vars
             PROVE  OrderInv'
  OBVIOUS
<1> USE NamesAreDistinct DEF TypeOK, OrderInv
<1>a. /\ \A c \in Conns : Has(accepted, c) => Has(accepted', c) /\ request'[c] = request[c]
      /\ \A c, d \in Conns : Earlier(accepted, c, d) => Earlier(accepted', c, d)
      /\ \A c \in Conns : IsQueued(c) => IsQueued(c)'
      /\ \A c \in Conns : IsQueued(c)' =>
            IsQueued(c) \/ (main = "serve" /\ main' = "queue" /\ conn = c /\ conn' = c)
  BY OrderStays
<1>d. \A c \in Conns : Has(answered, c) /\ IsQueued(c)' => IsQueued(c)
  BY <1>a DEF MainInv
<1>c. ASSUME UNCHANGED <<mvsequence, seqConn>>,
             \A c \in Conns : Has(answered', c) => Has(answered, c) \/ ~IsQueued(c)'
      PROVE  OrderInv'
  <2>1. \A c \in Conns : Has(answered', c) /\ IsQueued(c)' => Has(answered, c) /\ IsQueued(c)
    BY <1>d, <1>c
  <2>2. \A i \in 1 .. Len(mvsequence) : mvsequence[i] \in Conns
    OBVIOUS
  <2> QED
    BY <1>a, <1>c, <2>1, <2>2
<1>b. ASSUME UNCHANGED <<mvsequence, seqConn, mvchat, chatting, answered>> PROVE OrderInv'
  BY <1>b, <1>c
<1>1. ASSUME NEW b \in Conns, NEW kind \in Kind, Connect(b, kind) PROVE OrderInv'
  <2>1. UNCHANGED <<mvsequence, seqConn, mvchat, chatting, answered>>
    BY <1>1 DEF Connect, browserVars, mainVars, sessionVars, chanVars, handlerVars
  <2> QED
    BY <1>b, <2>1
<1>2. ASSUME NEW b \in Conns, BrowserSends(b) PROVE OrderInv'
  <2>1. UNCHANGED <<mvsequence, seqConn, mvchat, chatting, answered>>
    BY <1>2 DEF BrowserSends, browserVars, mainVars, sessionVars, chanVars, handlerVars
  <2> QED
    BY <1>b, <2>1
<1>3. ASSUME NEW b \in Conns, BrowserCloses(b) PROVE OrderInv'
  <2>1. UNCHANGED <<mvsequence, seqConn, mvchat, chatting, answered>>
    BY <1>3 DEF BrowserCloses, browserVars, mainVars, sessionVars, chanVars, handlerVars
  <2> QED
    BY <1>b, <2>1
<1>4. ASSUME NEW b \in Conns, ChatRespond(b) PROVE OrderInv'
  <2>1. /\ UNCHANGED <<mvsequence, seqConn>>
        /\ answered' = Append(answered, b) /\ b \in chatting
    BY <1>4 DEF ChatRespond, Answer, chanVars
  <2>2. \A c \in Conns : Has(answered', c) => Has(answered, c) \/ c = b
    BY <2>1, HasAppend
  <2>3. ~IsQueued(b)'
    BY <1>a, <2>1 DEF HandlerInv, IsQueued
  <2> QED
    BY <1>c, <2>1, <2>2, <2>3
<1>5. ASSUME AcceptConn PROVE OrderInv'
  <2>1. UNCHANGED <<mvsequence, seqConn, mvchat, chatting, answered>>
    BY <1>5 DEF AcceptConn, browserVars, mainVars, sessionVars, chanVars, handlerVars
  <2> QED
    BY <1>b, <2>1
<1>6. ASSUME ReceiveHTTP PROVE OrderInv'
  <2>1. /\ UNCHANGED <<mvsequence, seqConn, mvchat, chatting, conn>> /\ conn \in Conns
        /\ (answered' = answered \/ answered' = Append(answered, conn))
    BY <1>6 DEF ReceiveHTTP, Answer, chanVars, handlerVars
  <2>2. \A c \in Conns : Has(answered', c) => Has(answered, c) \/ c = conn
    <3>1. CASE answered' = answered
      BY <3>1
    <3>2. CASE answered' = Append(answered, conn)
      BY <2>1, <3>2, HasAppend
    <3> QED
      BY <2>1, <3>1, <3>2
  <2>3. ~IsQueued(conn)'
    <3>1. session[conn] = None
      BY <1>6 DEF ReceiveHTTP, MainInv
    <3>2. main' # "queue"
      BY <1>6 DEF ReceiveHTTP
    <3> QED
      BY <1>a, <2>1, <3>1, <3>2 DEF IsQueued
  <2> QED
    BY <1>c, <2>1, <2>2, <2>3
<1>7. ASSUME AnswerTest PROVE OrderInv'
  <2>1. /\ UNCHANGED <<mvsequence, seqConn, mvchat, chatting, conn>> /\ conn \in Conns
        /\ (answered' = answered \/ answered' = Append(answered, conn))
    BY <1>7 DEF AnswerTest, Answer, chanVars, handlerVars
  <2>2. \A c \in Conns : Has(answered', c) => Has(answered, c) \/ c = conn
    <3>1. CASE answered' = answered
      BY <3>1
    <3>2. CASE answered' = Append(answered, conn)
      BY <2>1, <3>2, HasAppend
    <3> QED
      BY <2>1, <3>1, <3>2
  <2>3. ~IsQueued(conn)'
    <3>1. session[conn] = None
      BY <1>7 DEF AnswerTest, MainInv
    <3>2. main' # "queue"
      BY <1>7 DEF AnswerTest
    <3> QED
      BY <1>a, <2>1, <3>1, <3>2 DEF IsQueued
  <2> QED
    BY <1>c, <2>1, <2>2, <2>3
<1>8. ASSUME UseSlowHttp PROVE OrderInv'
  <2>1. /\ UNCHANGED <<mvsequence, seqConn, mvchat, chatting, conn>> /\ conn \in Conns
        /\ (answered' = answered \/ answered' = Append(answered, conn))
    BY <1>8 DEF UseSlowHttp, Answer, chanVars, handlerVars
  <2>2. \A c \in Conns : Has(answered', c) => Has(answered, c) \/ c = conn
    <3>1. CASE answered' = answered
      BY <3>1
    <3>2. CASE answered' = Append(answered, conn)
      BY <2>1, <3>2, HasAppend
    <3> QED
      BY <2>1, <3>1, <3>2
  <2>3. ~IsQueued(conn)'
    <3>1. session[conn] = None
      BY <1>8 DEF UseSlowHttp, MainInv
    <3>2. main' # "queue"
      BY <1>8 DEF UseSlowHttp
    <3> QED
      BY <1>a, <2>1, <3>1, <3>2 DEF IsQueued
  <2> QED
    BY <1>c, <2>1, <2>2, <2>3
<1>9. ASSUME Shutdown PROVE OrderInv'
  <2>1. /\ UNCHANGED <<mvsequence, seqConn, mvchat, chatting, conn>> /\ conn \in Conns
        /\ (answered' = answered \/ answered' = Append(answered, conn))
    BY <1>9 DEF Shutdown, Answer, chanVars, handlerVars
  <2>2. \A c \in Conns : Has(answered', c) => Has(answered, c) \/ c = conn
    <3>1. CASE answered' = answered
      BY <3>1
    <3>2. CASE answered' = Append(answered, conn)
      BY <2>1, <3>2, HasAppend
    <3> QED
      BY <2>1, <3>1, <3>2
  <2>3. ~IsQueued(conn)'
    <3>1. session[conn] = None
      BY <1>9 DEF Shutdown, MainInv
    <3>2. main' # "queue"
      BY <1>9 DEF Shutdown
    <3> QED
      BY <1>a, <2>1, <3>1, <3>2 DEF IsQueued
  <2> QED
    BY <1>c, <2>1, <2>2, <2>3
<1>10. ASSUME GetSession PROVE OrderInv'
  <2>1. UNCHANGED <<mvsequence, seqConn, mvchat, chatting, answered>>
    BY <1>10 DEF GetSession, browserVars, mainVars, sessionVars, chanVars, handlerVars
  <2> QED
    BY <1>b, <2>1
<1>11. ASSUME QueueRequest PROVE OrderInv'
  <2>1. /\ conn \in Conns /\ UNCHANGED <<seqConn, answered, accepted>>
        /\ mvsequence' = mvsequence \/ mvsequence' = Append(mvsequence, conn)
        /\ main' # "queue"
    BY <1>11 DEF QueueRequest, handlerVars
  <2>2. CASE mvsequence' = mvsequence
    BY <1>c, <2>1, <2>2
  <2>3. CASE mvsequence' = Append(mvsequence, conn)
    <3>1. ASSUME NEW c \in Conns, Has(accepted, c), c # conn
          PROVE  Earlier(accepted, c, conn)
      BY <1>11, <3>1, LastAccepted DEF QueueRequest
    <3>2. ~Has(answered, conn) /\ ~Has(mvsequence, conn) /\ seqConn # conn
      BY <1>11 DEF QueueRequest, MainInv
    <3>3. \A c \in Conns : Has(mvsequence', c) <=> Has(mvsequence, c) \/ c = conn
      BY <2>1, <2>3, HasAppend
    <3>4. /\ \A c \in Conns : Has(mvsequence, c) \/ seqConn = c \/ Has(answered, c) =>
                Earlier(accepted, c, conn)
          /\ \A c \in Conns : Has(mvsequence, c) => Has(accepted, c)
      BY <3>1, <3>2 DEF HandlerInv
    <3>5. \A i, j \in 1 .. Len(mvsequence') :
             i < j => Earlier(accepted', mvsequence'[i], mvsequence'[j])
      <4> SUFFICES ASSUME NEW i \in 1 .. Len(mvsequence'), NEW j \in 1 .. Len(mvsequence'),
                          i < j
                   PROVE  Earlier(accepted', mvsequence'[i], mvsequence'[j])
        OBVIOUS
      <4>1. /\ i \in 1 .. Len(mvsequence) /\ mvsequence'[i] = mvsequence[i]
            /\ mvsequence[i] \in Conns /\ Has(mvsequence, mvsequence[i])
        <5>1. i \in 1 .. Len(mvsequence)
          BY <2>1, <2>3, AppendSeq
        <5> QED
          BY <2>1, <2>3, <5>1, AppendSeq DEF Has
      <4>2. CASE j \in 1 .. Len(mvsequence)
        <5>1. mvsequence'[j] = mvsequence[j]
          BY <2>1, <2>3, <4>2, AppendSeq
        <5> QED
          BY <1>a, <4>1, <4>2, <5>1
      <4>3. CASE j = Len(mvsequence) + 1
        <5>1. mvsequence'[j] = conn
          BY <2>1, <2>3, <4>3, AppendSeq
        <5> QED
          BY <1>a, <2>1, <3>4, <4>1, <5>1
      <4> QED
        BY <2>1, <2>3, <4>2, <4>3, AppendSeq
    <3>6. ASSUME NEW c \in Conns, Has(mvsequence', c), seqConn # None
          PROVE  Earlier(accepted', seqConn, c)
      BY <1>a, <2>1, <3>3, <3>4, <3>6
    <3>7. ASSUME NEW c \in Conns, Has(mvsequence', c), NEW d \in Conns, Has(answered, d),
                 IsQueued(d)'
          PROVE  Earlier(accepted', d, c)
      BY <1>a, <1>d, <2>1, <3>3, <3>4, <3>7
    <3>8. ASSUME seqConn # None, NEW d \in Conns, Has(answered, d), IsQueued(d)'
          PROVE  Earlier(accepted', d, seqConn)
      BY <1>a, <1>d, <2>1, <3>8
    <3> QED
      BY <2>1, <3>5, <3>6, <3>7, <3>8
  <2> QED
    BY <2>1, <2>2, <2>3
<1>12. ASSUME SeqTake PROVE OrderInv'
  <2>1. /\ UNCHANGED answered /\ mvsequence # <<>> /\ seqConn = None
        /\ seqConn' = Head(mvsequence) /\ mvsequence' = Tail(mvsequence)
    BY <1>12 DEF SeqTake
  <2>2. /\ \A c \in Conns : Has(mvsequence', c) => Has(mvsequence, c)
        /\ Has(mvsequence, seqConn') /\ seqConn' \in Conns
    BY <2>1, HasTail, TailSeq
  <2>3. /\ 1 \in 1 .. Len(mvsequence) /\ seqConn' = mvsequence[1]
        /\ \A i \in 1 .. Len(mvsequence') :
              mvsequence'[i] = mvsequence[i + 1] /\ i + 1 \in 1 .. Len(mvsequence) /\ 1 < i + 1
    BY <2>1, TailSeq
  <2>4. \A i, j \in 1 .. Len(mvsequence') :
           i < j => Earlier(accepted', mvsequence'[i], mvsequence'[j])
    <3> SUFFICES ASSUME NEW i \in 1 .. Len(mvsequence'), NEW j \in 1 .. Len(mvsequence'),
                        i < j
                 PROVE  Earlier(accepted', mvsequence'[i], mvsequence'[j])
      OBVIOUS
    <3>1. i + 1 < j + 1
      OBVIOUS
    <3>2. Earlier(accepted, mvsequence[i + 1], mvsequence[j + 1])
      BY <2>3, <3>1
    <3>3. mvsequence'[i] = mvsequence[i + 1] /\ mvsequence'[j] = mvsequence[j + 1]
      BY <2>3
    <3>4. mvsequence[i + 1] \in Conns /\ mvsequence[j + 1] \in Conns
      <4>1. i + 1 \in 1 .. Len(mvsequence) /\ j + 1 \in 1 .. Len(mvsequence)
        BY <2>3
      <4>2. \A k \in 1 .. Len(mvsequence) : mvsequence[k] \in Conns
        OBVIOUS
      <4> QED
        BY <4>1, <4>2, Zenon
    <3>5. Earlier(accepted', mvsequence[i + 1], mvsequence[j + 1])
      BY <1>a, <3>2, <3>4
    <3> QED
      BY <3>3, <3>5
  <2>5. ASSUME NEW c \in Conns, Has(mvsequence', c)
        PROVE  Earlier(accepted', seqConn', c)
    <3>1. PICK i \in 1 .. Len(mvsequence') : mvsequence'[i] = c
      BY <2>5 DEF Has
    <3>2. Earlier(accepted, mvsequence[1], mvsequence[i + 1])
      BY <2>3
    <3> QED
      BY <1>a, <2>2, <2>3, <3>1, <3>2
  <2>6. ASSUME NEW c \in Conns, Has(mvsequence, c), NEW d \in Conns, Has(answered', d),
               IsQueued(d)'
        PROVE  Earlier(accepted', d, c)
    BY <1>a, <1>d, <2>1, <2>6
  <2> QED
    BY <2>2, <2>4, <2>5, <2>6
<1>13. ASSUME SeqRespond PROVE OrderInv'
  <2>1. /\ UNCHANGED mvsequence /\ seqConn' = None /\ seqConn # None
        /\ answered' = Append(answered, seqConn) /\ seqConn \in Conns
    BY <1>13 DEF SeqRespond, Answer, chanVars
  <2>2. \A c \in Conns : Has(answered', c) => Has(answered, c) \/ c = seqConn
    BY <2>1, HasAppend
  <2>3. ASSUME NEW c \in Conns, NEW d \in Conns, Has(mvsequence, c), Has(answered', d),
               IsQueued(d)'
        PROVE  Earlier(accepted', d, c)
    <3>1. CASE d = seqConn
      BY <1>a, <2>1, <2>3, <3>1
    <3>2. CASE d # seqConn
      BY <1>a, <1>d, <2>2, <2>3, <3>2
    <3> QED
      BY <3>1, <3>2
  <2>4. \A i, j \in 1 .. Len(mvsequence') :
           i < j => Earlier(accepted', mvsequence'[i], mvsequence'[j])
    BY <1>a, <2>1
  <2> QED
    BY <2>1, <2>3, <2>4
<1>14. ASSUME ChatTake PROVE OrderInv'
  <2>1. UNCHANGED <<mvsequence, seqConn, answered>>
    BY <1>14 DEF ChatTake
  <2> QED
    BY <1>c, <2>1
<1>15. ASSUME Rest PROVE OrderInv'
  <2>1. UNCHANGED <<mvsequence, seqConn, mvchat, chatting, answered>>
    BY <1>15 DEF Rest, vars, browserVars, mainVars, sessionVars, chanVars, handlerVars
  <2> QED
    BY <1>b, <2>1
<1>16. CASE UNCHANGED vars
  <2>1. UNCHANGED <<mvsequence, seqConn, mvchat, chatting, answered>>
    BY <1>16 DEF vars, chanVars, handlerVars
  <2> QED
    BY <1>b, <2>1
<1> HIDE DEF TypeOK, OrderInv
<1> QED
  BY <1>1, <1>2, <1>3, <1>4, <1>5, <1>6, <1>7, <1>8, <1>9, <1>10, <1>11,
     <1>12, <1>13, <1>14, <1>15, <1>16
  DEF Next, MainStep

\* No page that was accepted and has a session is lost.
LEMMA AllStep ==
    TypeOK /\ LineInv /\ MainInv /\ HandlerInv /\ AllInv /\ [Next]_vars
        => AllInv'
<1> SUFFICES ASSUME TypeOK, LineInv, MainInv, HandlerInv, AllInv, [Next]_vars
             PROVE  AllInv'
  OBVIOUS
<1> USE NamesAreDistinct DEF TypeOK, AllInv
<1>a. /\ \A c \in Conns : Has(accepted, c) => Has(accepted', c) /\ request'[c] = request[c]
      /\ \A c, d \in Conns : Earlier(accepted, c, d) => Earlier(accepted', c, d)
      /\ \A c \in Conns : IsQueued(c) => IsQueued(c)'
      /\ \A c \in Conns : IsQueued(c)' =>
            IsQueued(c) \/ (main = "serve" /\ main' = "queue" /\ conn = c /\ conn' = c)
  BY OrderStays
<1>b. ASSUME UNCHANGED accepted,
             \A c \in Conns :
                /\ IsQueued(c)
                /\ \/ Has(answered, c) \/ seqConn = c \/ Has(mvsequence, c)
                   \/ main = "queue" /\ conn = c
                => \/ Has(answered', c) \/ seqConn' = c \/ Has(mvsequence', c)
                   \/ main' = "queue" /\ conn' = c
      PROVE  AllInv'
  BY <1>a, <1>b
<1>1. ASSUME NEW b \in Conns, NEW kind \in Kind, Connect(b, kind) PROVE AllInv'
  <2>1. UNCHANGED <<accepted, mvsequence, seqConn, answered, main, conn>>
    BY <1>1 DEF Connect, browserVars, mainVars, sessionVars, chanVars, handlerVars
  <2> QED
    BY <1>b, <2>1
<1>2. ASSUME NEW b \in Conns, BrowserSends(b) PROVE AllInv'
  <2>1. UNCHANGED <<accepted, mvsequence, seqConn, answered, main, conn>>
    BY <1>2 DEF BrowserSends, browserVars, mainVars, sessionVars, chanVars, handlerVars
  <2> QED
    BY <1>b, <2>1
<1>3. ASSUME NEW b \in Conns, BrowserCloses(b) PROVE AllInv'
  <2>1. UNCHANGED <<accepted, mvsequence, seqConn, answered, main, conn>>
    BY <1>3 DEF BrowserCloses, browserVars, mainVars, sessionVars, chanVars, handlerVars
  <2> QED
    BY <1>b, <2>1
<1>4. ASSUME NEW b \in Conns, ChatRespond(b) PROVE AllInv'
  <2>1. /\ UNCHANGED <<accepted, mvsequence, seqConn>> /\ b \in Conns
        /\ (answered' = answered \/ answered' = Append(answered, b))
        /\ UNCHANGED <<main, conn>>
    BY <1>4 DEF ChatRespond, Answer, chanVars, handlerVars, mainVars
  <2>2. \A c \in Conns : Has(answered, c) => Has(answered', c)
    <3>1. CASE answered' = answered
      BY <3>1
    <3>2. CASE answered' = Append(answered, b)
      BY <2>1, <3>2, HasAppend
    <3> QED
      BY <2>1, <3>1, <3>2
  <2> QED
    BY <1>b, <2>1, <2>2
<1>5. ASSUME AcceptConn PROVE AllInv'
  <2>1. /\ UNCHANGED <<mvsequence, seqConn, answered, request, session>>
        /\ backlog # <<>> /\ accepted' = Append(accepted, Head(backlog)) /\ main # "queue"
    BY <1>5 DEF AcceptConn, chanVars, handlerVars, browserVars, sessionVars
  <2>2. Head(backlog) \in Conns /\ session[Head(backlog)] = None
    <3>1. Head(backlog) = backlog[1] /\ 1 \in 1 .. Len(backlog) /\ backlog[1] \in Conns
      BY <2>1, TailSeq
    <3> QED
      BY <3>1 DEF LineInv
  <2>3. ASSUME NEW c \in Conns, Has(accepted', c), IsQueued(c)'
        PROVE  Has(answered, c) \/ seqConn = c \/ Has(mvsequence, c)
    <3>1. session[c] # None /\ IsQueued(c)
      BY <2>1, <2>3 DEF IsQueued
    <3>2. Has(accepted, c)
      BY <2>1, <2>2, <2>3, <3>1, HasAppend
    <3> QED
      BY <2>1, <3>1, <3>2
  <2> QED
    BY <2>1, <2>3
<1>6. ASSUME ReceiveHTTP PROVE AllInv'
  <2>1. /\ UNCHANGED <<accepted, mvsequence, seqConn>> /\ conn \in Conns
        /\ (answered' = answered \/ answered' = Append(answered, conn))
        /\ main # "queue"
    BY <1>6 DEF ReceiveHTTP, Answer, chanVars, handlerVars, mainVars
  <2>2. \A c \in Conns : Has(answered, c) => Has(answered', c)
    <3>1. CASE answered' = answered
      BY <3>1
    <3>2. CASE answered' = Append(answered, conn)
      BY <2>1, <3>2, HasAppend
    <3> QED
      BY <2>1, <3>1, <3>2
  <2> QED
    BY <1>b, <2>1, <2>2
<1>7. ASSUME AnswerTest PROVE AllInv'
  <2>1. /\ UNCHANGED <<accepted, mvsequence, seqConn>> /\ conn \in Conns
        /\ (answered' = answered \/ answered' = Append(answered, conn))
        /\ main # "queue"
    BY <1>7 DEF AnswerTest, Answer, chanVars, handlerVars, mainVars
  <2>2. \A c \in Conns : Has(answered, c) => Has(answered', c)
    <3>1. CASE answered' = answered
      BY <3>1
    <3>2. CASE answered' = Append(answered, conn)
      BY <2>1, <3>2, HasAppend
    <3> QED
      BY <2>1, <3>1, <3>2
  <2> QED
    BY <1>b, <2>1, <2>2
<1>8. ASSUME UseSlowHttp PROVE AllInv'
  <2>1. /\ UNCHANGED <<accepted, mvsequence, seqConn>> /\ conn \in Conns
        /\ (answered' = answered \/ answered' = Append(answered, conn))
        /\ main # "queue"
    BY <1>8 DEF UseSlowHttp, Answer, chanVars, handlerVars, mainVars
  <2>2. \A c \in Conns : Has(answered, c) => Has(answered', c)
    <3>1. CASE answered' = answered
      BY <3>1
    <3>2. CASE answered' = Append(answered, conn)
      BY <2>1, <3>2, HasAppend
    <3> QED
      BY <2>1, <3>1, <3>2
  <2> QED
    BY <1>b, <2>1, <2>2
<1>9. ASSUME Shutdown PROVE AllInv'
  <2>1. /\ UNCHANGED <<accepted, mvsequence, seqConn>> /\ conn \in Conns
        /\ (answered' = answered \/ answered' = Append(answered, conn))
        /\ main # "queue"
    BY <1>9 DEF Shutdown, Answer, chanVars, handlerVars, mainVars
  <2>2. \A c \in Conns : Has(answered, c) => Has(answered', c)
    <3>1. CASE answered' = answered
      BY <3>1
    <3>2. CASE answered' = Append(answered, conn)
      BY <2>1, <3>2, HasAppend
    <3> QED
      BY <2>1, <3>1, <3>2
  <2> QED
    BY <1>b, <2>1, <2>2
<1>10. ASSUME GetSession PROVE AllInv'
  <2>1. /\ UNCHANGED <<accepted, mvsequence, seqConn, answered>>
        /\ main # "queue"
    BY <1>10 DEF GetSession, chanVars, handlerVars
  <2> QED
    BY <1>b, <2>1
<1>11. ASSUME QueueRequest PROVE AllInv'
  <2>1. /\ conn \in Conns /\ UNCHANGED <<accepted, seqConn, answered>>
        /\ IF request[conn] = "chat"
           THEN mvchat' = Append(mvchat, conn) /\ UNCHANGED mvsequence
           ELSE mvsequence' = Append(mvsequence, conn) /\ UNCHANGED mvchat
    BY <1>11 DEF QueueRequest, handlerVars
  <2>2. CASE request[conn] = "chat"
    <3>1. UNCHANGED mvsequence /\ ~IsQueued(conn)
      BY <2>1, <2>2 DEF IsQueued
    <3> QED
      BY <1>b, <2>1, <3>1
  <2>3. CASE request[conn] # "chat"
    <3>1. mvsequence' = Append(mvsequence, conn)
      BY <2>1, <2>3
    <3>2. \A c \in Conns : Has(mvsequence, c) \/ c = conn => Has(mvsequence', c)
      BY <2>1, <3>1, HasAppend
    <3> QED
      BY <1>b, <2>1, <3>2
  <2> QED
    BY <2>2, <2>3
<1>12. ASSUME SeqTake PROVE AllInv'
  <2>1. /\ UNCHANGED <<accepted, answered, main, conn>> /\ mvsequence # <<>>
        /\ seqConn = None /\ seqConn' = Head(mvsequence) /\ mvsequence' = Tail(mvsequence)
    BY <1>12 DEF SeqTake, mainVars
  <2>2. \A c \in Conns : Has(mvsequence, c) => Has(mvsequence', c) \/ seqConn' = c
    BY <2>1, HasTail
  <2>3. \A c \in Conns : seqConn # c
    BY <2>1
  <2> QED
    BY <1>b, <2>1, <2>2, <2>3
<1>13. ASSUME SeqRespond PROVE AllInv'
  <2>1. /\ UNCHANGED <<accepted, mvsequence, main, conn>> /\ seqConn \in Conns
        /\ answered' = Append(answered, seqConn)
    BY <1>13 DEF SeqRespond, Answer, chanVars, mainVars
  <2>2. \A c \in Conns : Has(answered, c) \/ seqConn = c => Has(answered', c)
    BY <2>1, HasAppend
  <2> QED
    BY <1>b, <2>1, <2>2
<1>14. ASSUME ChatTake PROVE AllInv'
  <2>1. UNCHANGED <<accepted, mvsequence, seqConn, answered, main, conn>>
    BY <1>14 DEF ChatTake, browserVars, mainVars, sessionVars, chanVars, handlerVars
  <2> QED
    BY <1>b, <2>1
<1>15. ASSUME Rest PROVE AllInv'
  <2>1. UNCHANGED <<accepted, mvsequence, seqConn, answered, main, conn>>
    BY <1>15 DEF Rest, vars, browserVars, mainVars, sessionVars, chanVars, handlerVars
  <2> QED
    BY <1>b, <2>1
<1>16. CASE UNCHANGED vars
  <2>1. UNCHANGED <<accepted, mvsequence, seqConn, answered, main, conn>>
    BY <1>16 DEF vars, chanVars, handlerVars, mainVars
  <2> QED
    BY <1>b, <2>1
<1> HIDE DEF TypeOK, AllInv
<1> QED
  BY <1>1, <1>2, <1>3, <1>4, <1>5, <1>6, <1>7, <1>8, <1>9, <1>10, <1>11,
     <1>12, <1>13, <1>14, <1>15, <1>16
  DEF Next, MainStep

\* An answer is that of the page being handled, or of no page at all.
LEMMA WhoseAnswer ==
    ASSUME TypeOK, LineInv, MainInv, HandlerInv, [Next]_vars
    PROVE  \/ answered' = answered
           \/ \E c \in Conns : /\ answered' = Append(answered, c)
                               /\ ~(request'[c] = "page" /\ session'[c] # None)
           \/ seqConn # None /\ answered' = Append(answered, seqConn)
<1> USE NamesAreDistinct DEF TypeOK
<1>1. CASE ReceiveHTTP \/ AnswerTest \/ UseSlowHttp \/ Shutdown
  <2>1. /\ (answered' = answered \/ answered' = Append(answered, conn))
        /\ main \in {"receive", "serve"} /\ conn \in Conns /\ UNCHANGED session
    BY <1>1 DEF ReceiveHTTP, AnswerTest, UseSlowHttp, Shutdown, Answer, sessionVars
  <2>2. session[conn] = None
    BY <2>1 DEF MainInv
  <2> QED
    BY <2>1, <2>2
<1>2. ASSUME NEW c \in Conns, ChatRespond(c)
      PROVE  \E b \in Conns : /\ answered' = Append(answered, b)
                              /\ ~(request'[b] = "page" /\ session'[b] # None)
  <2>1. answered' = Append(answered, c) /\ UNCHANGED request /\ c \in chatting
    BY <1>2 DEF ChatRespond, Answer, browserVars
  <2>2. request[c] = "chat"
    BY <2>1 DEF HandlerInv
  <2> QED
    BY <2>1, <2>2
<1>3. CASE SeqRespond
  BY <1>3 DEF SeqRespond, Answer
<1>4. \/ ReceiveHTTP \/ AnswerTest \/ UseSlowHttp \/ Shutdown \/ SeqRespond
      \/ \E c \in Conns : ChatRespond(c)
      \/ answered' = answered
  BY DEF Next, MainStep, Connect, BrowserSends, BrowserCloses, AcceptConn, GetSession,
     QueueRequest, SeqTake, ChatTake, Rest, vars
<1> QED
  BY <1>1, <1>2, <1>3, <1>4

\* In a sequence of different elements, one that comes before another is at a
\* smaller index.
LEMMA EarlierIndex ==
    ASSUME NEW S, NEW s \in Seq(S), Distinct(s),
           NEW k \in 1 .. Len(s), NEW l \in 1 .. Len(s), Earlier(s, s[k], s[l])
    PROVE  k < l
<1>1. PICK m \in 1 .. Len(s), n \in 1 .. Len(s) : m < n /\ s[m] = s[k] /\ s[n] = s[l]
  BY DEF Earlier
<1>2. m = k /\ n = l
  BY <1>1 DEF Distinct
<1> QED
  BY <1>1, <1>2

\* Pages are answered in the order they were accepted.
LEMMA PageStep ==
    TypeOK /\ LineInv /\ MainInv /\ HandlerInv /\ OrderInv /\ AllInv /\ PagesInOrder
        /\ [Next]_vars
        => PagesInOrder'
<1> SUFFICES ASSUME TypeOK, LineInv, MainInv, HandlerInv, OrderInv, AllInv,
                    PagesInOrder,
                    [Next]_vars
             PROVE  PagesInOrder'
  OBVIOUS
<1> DEFINE Queued(c) == request'[c] = "page" /\ session'[c] # None
<1>1. /\ mvsequence \in Seq(Conns) /\ accepted \in Seq(Conns) /\ answered \in Seq(Conns)
      /\ seqConn \in Conns \cup {None} /\ None \notin Conns
      /\ Len(accepted) \in Nat /\ Len(answered) \in Nat
      /\ \A k \in 1 .. Len(accepted) : accepted[k] \in Conns
      /\ \A k \in 1 .. Len(answered) : answered[k] \in Conns
  BY NamesAreDistinct DEF TypeOK
<1>2. Distinct(accepted)
  BY DEF LineInv
<1>3. ASSUME NEW c \in Conns, Queued(c)
      PROVE  IsQueued(c) \/ (main = "serve" /\ conn = c)
  BY <1>3, OrderStays DEF IsQueued
<1>4. ASSUME NEW c \in Conns, Has(answered, c), Queued(c)
      PROVE  IsQueued(c)
  BY <1>3, <1>4 DEF MainInv
<1>5. \A k \in 1 .. Len(accepted) :
        main \in {"serve", "queue"} /\ accepted[k] = conn => k = Len(accepted)
  <2>1. ASSUME main \in {"serve", "queue"}
        PROVE  Len(accepted) \in 1 .. Len(accepted) /\ conn = accepted[Len(accepted)]
    BY <1>1, <2>1 DEF MainInv
  <2> QED
    BY <1>1, <1>2, <2>1 DEF Distinct
<1>6. /\ Len(accepted') \in Nat /\ Len(accepted) <= Len(accepted')
      /\ \A k \in 1 .. Len(accepted) : accepted'[k] = accepted[k]
  BY <1>1, AcceptedGrows
<1>7. ASSUME NEW j \in 1 .. Len(answered), Queued(answered[j])
      PROVE  /\ \A i \in 1 .. Len(answered) : answered[i] = answered[j] => i = j
             /\ \E l \in 1 .. Len(accepted') :
                   /\ accepted'[l] = answered[j]
                   /\ \A k \in 1 .. l - 1 : Queued(accepted'[k]) =>
                         \E i \in 1 .. j - 1 : answered[i] = accepted'[k]
  <2>1. answered[j] \in Conns /\ Has(answered, answered[j])
    BY <1>1 DEF Has
  <2>2. IsQueued(answered[j])
    BY <1>4, <1>7, <2>1
  <2>3. \A i \in 1 .. Len(answered) : answered[i] = answered[j] => i = j
    BY <2>2 DEF PagesInOrder
  <2>4. PICK l \in 1 .. Len(accepted) :
           /\ accepted[l] = answered[j]
           /\ \A k \in 1 .. l - 1 : IsQueued(accepted[k]) =>
                 \E i \in 1 .. j - 1 : answered[i] = accepted[k]
    BY <2>2 DEF PagesInOrder
  <2>5. l \in 1 .. Len(accepted') /\ accepted'[l] = answered[j]
    BY <1>1, <1>6, <2>4
  <2>6. ASSUME NEW k \in 1 .. l - 1, Queued(accepted'[k])
        PROVE  \E i \in 1 .. j - 1 : answered[i] = accepted'[k]
    <3>1. k \in 1 .. Len(accepted) /\ k # Len(accepted)
      BY <1>1
    <3>2. accepted'[k] = accepted[k] /\ accepted[k] \in Conns
      BY <1>1, <1>6, <3>1
    <3>3. IsQueued(accepted[k])
      BY <1>3, <1>5, <2>6, <3>1, <3>2
    <3> QED
      BY <2>4, <3>2, <3>3
  <2> QED
    BY <2>3, <2>5, <2>6
<1>8. CASE answered' = answered
  <2> HIDE DEF Queued
  <2> SUFFICES ASSUME NEW j \in 1 .. Len(answered), Queued(answered[j])
               PROVE  /\ \A i \in 1 .. Len(answered) : answered[i] = answered[j] => i = j
                      /\ \E l \in 1 .. Len(accepted') :
                            /\ accepted'[l] = answered[j]
                            /\ \A k \in 1 .. l - 1 : Queued(accepted'[k]) =>
                                  \E i \in 1 .. j - 1 : answered[i] = accepted'[k]
    BY <1>8 DEF PagesInOrder, IsQueued, Queued
  <2> QED
    BY <1>7
<1>9. ASSUME NEW c \in Conns, answered' = Append(answered, c)
      PROVE  /\ Len(answered') = Len(answered) + 1 /\ answered'[Len(answered) + 1] = c
             /\ \A i \in 1 .. Len(answered) : answered'[i] = answered[i]
             /\ \A i \in 1 .. Len(answered') :
                   i \in 1 .. Len(answered) \/ i = Len(answered) + 1
  BY <1>1, <1>9, AppendSeq
<1>10. ASSUME NEW c \in Conns, answered' = Append(answered, c),
              NEW j \in 1 .. Len(answered), Queued(answered[j]), answered[j] # c
       PROVE  /\ \A i \in 1 .. Len(answered') : answered'[i] = answered'[j] => i = j
              /\ \E l \in 1 .. Len(accepted') :
                    /\ accepted'[l] = answered'[j]
                    /\ \A k \in 1 .. l - 1 : Queued(accepted'[k]) =>
                          \E i \in 1 .. j - 1 : answered'[i] = accepted'[k]
  <2> HIDE DEF Queued
  <2>1. answered'[j] = answered[j]
    BY <1>9, <1>10
  <2>2. \A i \in 1 .. Len(answered') : answered'[i] = answered'[j] => i = j
    BY <1>7, <1>9, <1>10, <2>1
  <2>3. PICK l \in 1 .. Len(accepted') :
           /\ accepted'[l] = answered[j]
           /\ \A k \in 1 .. l - 1 : Queued(accepted'[k]) =>
                 \E i \in 1 .. j - 1 : answered[i] = accepted'[k]
    BY <1>7, <1>10
  <2>4. \A i \in 1 .. j - 1 : answered'[i] = answered[i]
    BY <1>1, <1>9, <1>10
  <2>5. accepted'[l] = answered'[j]
    BY <2>1, <2>3
  <2>6. \A k \in 1 .. l - 1 : Queued(accepted'[k]) =>
           \E i \in 1 .. j - 1 : answered'[i] = accepted'[k]
    BY <2>3, <2>4
  <2> QED
    BY <2>2, <2>5, <2>6
<1>11. ASSUME NEW c \in Conns, answered' = Append(answered, c), ~Queued(c)
       PROVE  PagesInOrder'
  <2> HIDE DEF Queued
  <2> SUFFICES ASSUME NEW j \in 1 .. Len(answered'), Queued(answered'[j])
               PROVE  /\ \A i \in 1 .. Len(answered') : answered'[i] = answered'[j] => i = j
                      /\ \E l \in 1 .. Len(accepted') :
                            /\ accepted'[l] = answered'[j]
                            /\ \A k \in 1 .. l - 1 : Queued(accepted'[k]) =>
                                  \E i \in 1 .. j - 1 : answered'[i] = accepted'[k]
    BY DEF PagesInOrder, IsQueued, Queued
  <2>1. j \in 1 .. Len(answered) /\ answered'[j] = answered[j] /\ answered[j] # c
    BY <1>9, <1>11
  <2> QED
    BY <1>10, <1>11, <2>1
<1>12. CASE seqConn # None /\ answered' = Append(answered, seqConn)
  <2>1. /\ seqConn \in Conns /\ IsQueued(seqConn) /\ Has(accepted, seqConn)
    BY <1>1, <1>12 DEF HandlerInv
  <2>2. PICK l \in 1 .. Len(accepted) : accepted[l] = seqConn
    BY <2>1 DEF Has
  <2>3. ~Has(answered, seqConn)
    <3> SUFFICES ASSUME Has(answered, seqConn) PROVE FALSE
      OBVIOUS
    <3>1. Earlier(accepted, accepted[l], accepted[l])
      BY <1>12, <2>1, <2>2 DEF OrderInv
    <3>2. l < l
      BY <1>1, <1>2, <3>1, EarlierIndex
    <3> QED
      BY <3>2
  <2>4. \A i \in 1 .. Len(answered) : answered[i] # seqConn
    BY <2>3 DEF Has
  <2>5. ASSUME NEW k \in 1 .. l - 1, Queued(accepted'[k])
        PROVE  \E i \in 1 .. Len(answered) : answered[i] = accepted'[k]
    <3>1. k \in 1 .. Len(accepted) /\ k # Len(accepted) /\ k < l
      BY <1>1
    <3>2. accepted'[k] = accepted[k] /\ accepted[k] \in Conns
      BY <1>6, <1>1, <3>1
    <3>3. IsQueued(accepted[k]) /\ Has(accepted, accepted[k])
      <4>1. Has(accepted, accepted[k])
        BY <3>1 DEF Has
      <4> QED
        BY <1>3, <1>5, <2>5, <3>1, <3>2, <4>1
    <3>4. \/ Has(answered, accepted[k]) \/ seqConn = accepted[k]
          \/ Has(mvsequence, accepted[k])
          \/ main = "queue" /\ conn = accepted[k]
      BY <3>2, <3>3, Zenon DEF AllInv
    <3>5. seqConn # accepted[k]
      BY <1>2, <2>2, <3>1 DEF Distinct
    <3>6. ~Has(mvsequence, accepted[k])
      <4> SUFFICES ASSUME Has(mvsequence, accepted[k]) PROVE FALSE
        OBVIOUS
      <4>1. Earlier(accepted, accepted[l], accepted[k])
        BY <1>12, <2>2, <3>2 DEF OrderInv
      <4>2. l < k
        BY <1>1, <1>2, <3>1, <4>1, EarlierIndex
      <4> QED
        BY <3>1, <4>2
    <3>7. ~(main = "queue" /\ conn = accepted[k])
      BY <1>5, <3>1
    <3>8. Has(answered, accepted[k])
      BY <3>4, <3>5, <3>6, <3>7
    <3> QED
      BY <3>2, <3>8 DEF Has
  <2> HIDE DEF Queued
  <2> SUFFICES ASSUME NEW j \in 1 .. Len(answered'), Queued(answered'[j])
               PROVE  /\ \A i \in 1 .. Len(answered') : answered'[i] = answered'[j] => i = j
                      /\ \E m \in 1 .. Len(accepted') :
                            /\ accepted'[m] = answered'[j]
                            /\ \A k \in 1 .. m - 1 : Queued(accepted'[k]) =>
                                  \E i \in 1 .. j - 1 : answered'[i] = accepted'[k]
    BY DEF PagesInOrder, IsQueued, Queued
  <2>6. CASE j \in 1 .. Len(answered)
    <3>1. answered'[j] = answered[j] /\ answered[j] # seqConn
      BY <1>9, <1>12, <2>1, <2>4, <2>6
    <3> QED
      BY <1>10, <1>12, <2>1, <2>6, <3>1
  <2>7. CASE j = Len(answered) + 1
    <3>1. answered'[j] = seqConn /\ j - 1 = Len(answered)
      BY <1>1, <1>9, <1>12, <2>1, <2>7
    <3>2. \A i \in 1 .. Len(answered') : answered'[i] = answered'[j] => i = j
      BY <1>9, <1>12, <2>1, <2>4, <2>7, <3>1
    <3>3. l \in 1 .. Len(accepted') /\ accepted'[l] = answered'[j]
      BY <1>1, <1>6, <2>2, <3>1
    <3>4. \A k \in 1 .. l - 1 : Queued(accepted'[k]) =>
             \E i \in 1 .. j - 1 : answered'[i] = accepted'[k]
      BY <1>9, <1>12, <2>1, <2>5, <3>1
    <3> QED
      BY <3>2, <3>3, <3>4
  <2> QED
    BY <1>9, <1>12, <2>1, <2>6, <2>7
<1> QED
  BY <1>8, <1>11, <1>12, WhoseAnswer

-----------------------------------------------------------------------------
(* The theorems.                                                           *)

\* The inductive invariant.
IInv ==
    /\ TypeOK /\ LineInv /\ MainInv /\ EraInv /\ GivenInv /\ SlowInv
    /\ HandlerInv /\ OrderInv /\ AllInv /\ PagesInOrder

\* It holds before the first connection.
LEMMA InitInv == Init => IInv
<1> SUFFICES ASSUME Init PROVE IInv
  OBVIOUS
<1>1. TypeOK
  BY TypeInit
<1>2. /\ accepted = <<>> /\ answered = <<>> /\ backlog = <<>> /\ mvsequence = <<>>
      /\ mvchat = <<>> /\ seqConn = None /\ chatting = {} /\ main = "accept"
      /\ \A c \in Conns : session[c] = None /\ request[c] = None /\ era[c] = 0
      /\ \A k \in Cookies : sessions[k] = None
      /\ None \notin Conns /\ None # "page" /\ None # "chat"
  BY NamesAreDistinct DEF Init, Kind
<1>3. \A c : ~Has(<<>>, c)
  BY DEF Has
<1>4. Distinct(<<>>)
  BY DEF Distinct
<1>5. LineInv
  BY <1>2, <1>4 DEF LineInv
<1>6. MainInv
  BY <1>2 DEF MainInv
<1>7. EraInv /\ GivenInv /\ SlowInv
  BY <1>2 DEF EraInv, GivenInv, SlowInv
<1>8. HandlerInv /\ AllInv
  BY <1>2, <1>3 DEF HandlerInv, AllInv
<1>9. OrderInv
  BY <1>2, <1>3 DEF OrderInv
<1>10. PagesInOrder
  BY <1>2 DEF PagesInOrder
<1> QED
  BY <1>1, <1>5, <1>6, <1>7, <1>8, <1>9, <1>10 DEF IInv

\* Every step keeps it.
LEMMA StepInv == IInv /\ [Next]_vars => IInv'
BY TypeStep, LineStep, ServeStep, EraStep, GivenStep, SlowStep, HandlerStep, OrderStep,
   AllStep, PageStep DEF IInv

\* Every page that was accepted and has a session is with a handler, in its
\* channel or answered, whatever the number of connections and cookies.
THEOREM Invariance == Spec => []IInv
BY InitInv, StepInv, PTL DEF Spec

\* Requests with one cookie share a session until the sessions are forgotten
\* (KoLProxy.hs, get_sessionconn and "/kolproxy-use-slow-http"), and no two cookies
\* ever do.
THEOREM OneSessions == Spec => []OneSession
<1>1. IInv => OneSession
  BY DEF IInv, GivenInv, OneSession
<1> QED
  BY <1>1, Invariance, PTL

\* Ordinary requests are answered in the order they were accepted, each once,
\* whatever chat requests and the main thread's own pages do meanwhile
\* (setupHandlerChannels).
THEOREM InOrder == Spec => []PagesInOrder
<1>1. IInv => PagesInOrder
  BY DEF IInv
<1> QED
  BY <1>1, Invariance, PTL

\* A step that gives a request a session gives one in the mode the flag says: the
\* sessions of the other mode are gone (get_sessionconn).
LEMMA GivenInMode ==
    ASSUME IInv, [Next]_vars, NEW c \in Conns, session'[c] # session[c]
    PROVE  mode'[session'[c]] = slow
<1> USE NamesAreDistinct DEF IInv
<1>1. GetSession
  BY DEF Next, MainStep, Connect, BrowserSends, BrowserCloses, ChatRespond, AcceptConn,
     ReceiveHTTP, AnswerTest, UseSlowHttp, Shutdown, QueueRequest, SeqTake, SeqRespond,
     ChatTake, Rest, vars, sessionVars
<1>2. /\ conn \in Conns /\ cookie[conn] \in Cookies /\ Len(mode) \in Nat
      /\ session \in [Conns -> DOMAIN mode \cup {None}] /\ mode \in Seq(BOOLEAN)
      /\ slow \in BOOLEAN
  BY <1>1 DEF GetSession, LineInv, MainInv, TypeOK
<1>3. CASE sessions[cookie[conn]] # None
  <2>1. session' = [session EXCEPT ![conn] = sessions[cookie[conn]]] /\ UNCHANGED mode
    BY <1>1, <1>3 DEF GetSession
  <2>2. c = conn /\ session'[c] = sessions[cookie[conn]]
    BY <1>2, <2>1
  <2> QED
    BY <1>2, <1>3, <2>1, <2>2 DEF SlowInv
<1>4. CASE sessions[cookie[conn]] = None
  <2>1. mode' = Append(mode, slow) /\ session' = [session EXCEPT ![conn] = Len(mode')]
    BY <1>1, <1>4 DEF GetSession
  <2>2. Len(mode') = Len(mode) + 1 /\ mode'[Len(mode) + 1] = slow
    BY <1>2, <2>1, AppendSeq
  <2>3. session'[c] = Len(mode')
    BY <1>2, <2>1
  <2> QED
    BY <2>2, <2>3
<1> QED
  BY <1>3, <1>4

\* After "/kolproxy-use-slow-http" a request is given a session that connects the
\* way the switch says: the map was emptied with it (get_sessionconn).
THEOREM SwitchTaken == Spec => SwitchTakesEffect
<1>1. IInv /\ [Next]_vars =>
        [\A c \in Conns : session'[c] # session[c] => mode'[session'[c]] = slow]_vars
  BY GivenInMode
<1> QED
  BY <1>1, Invariance, PTL DEF Spec, SwitchTakesEffect

=============================================================================
