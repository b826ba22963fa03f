------------------------------- MODULE FrontEnd -------------------------------
(***************************************************************************)
(* How browsers' requests reach their handlers and are answered: the main  *)
(* thread accepts connections and reads one request from each, gives it    *)
(* the session of its cookie and puts it on one of two channels; one       *)
(* thread handles ordinary requests one after the other, and chat requests *)
(* are handled by a thread each.  What a handler does is in the other      *)
(* modules; here it ends, or does not, with an answer or an exception.     *)
(***************************************************************************)
EXTENDS Naturals, Sequences

CONSTANTS
    Conns,   \* connections from browsers
    Cookies, \* the session ids they send
    SlowHttp, \* what the environment says of HTTP/1.0
    None     \* no connection, no session, no request

\* A page that the main thread answers itself, the two requests it executes
\* itself, and those that have handlers.
Own  == {"test", "slow", "shutdown"}
Kind == Own \cup {"page", "chat"}

ASSUME NamesAreDistinct == None \notin Conns \cup Cookies \cup Kind \cup Nat
ASSUME SlowHttpIsBoolean == SlowHttp \in BOOLEAN

VARIABLES
    line,     \* connection |-> "new", "open", "sent", "closed": the browser's side
    request,  \* connection |-> what it asks for: a Kind, or None
    cookie,   \* connection |-> the session id it sends, where that matters
    backlog,  \* connections to accept, in order
    main,     \* the main thread: where it is ...
    conn,     \* ... and the connection it serves
    slow,     \* use_slow_http_ref_
    sessions, \* sessionmastermv: cookie |-> session or None
    mode,     \* the sessions made: what slow was for each
    session,  \* connection |-> the session its request was given
    mvsequence, mvchat, \* the channels
    seqConn,  \* the request "kps:mvseq" handles, or None
    chatting, \* the requests that threads "kps:mvchattry" handle
    accepted, \* history: connections in the order they were accepted
    answered, \* history: connections in the order they were answered
    era       \* history: connection |-> how often the sessions had been forgotten

browserVars == <<line, request, cookie>>
mainVars    == <<main, conn>>
sessionVars == <<slow, sessions, mode, session, era>>
chanVars    == <<mvsequence, mvchat>>
handlerVars == <<seqConn, chatting>>
vars == <<browserVars, backlog, mainVars, sessionVars, chanVars, handlerVars,
          accepted, answered>>

Init ==
    /\ line = [c \in Conns |-> "new"]
    /\ request = [c \in Conns |-> None] /\ cookie = [c \in Conns |-> None]
    /\ backlog = <<>> /\ main = "accept" /\ conn = None
    /\ slow = SlowHttp
    /\ sessions = [k \in Cookies |-> None] /\ mode = <<>>
    /\ session = [c \in Conns |-> None]
    /\ mvsequence = <<>> /\ mvchat = <<>>
    /\ seqConn = None /\ chatting = {}
    /\ accepted = <<>> /\ answered = <<>>
    /\ era = [c \in Conns |-> 0]

Running   == main # "ended"
Answer(c) == answered' = Append(answered, c)

-----------------------------------------------------------------------------
(* Browsers.                                                                *)

Connect(c, kind) ==
    /\ Running /\ line[c] = "new"
    /\ line' = [line EXCEPT ![c] = "open"]
    /\ request' = [request EXCEPT ![c] = kind]
    /\ \E k \in IF kind \in Own THEN {None} ELSE Cookies :
           cookie' = [cookie EXCEPT ![c] = k]
    /\ backlog' = Append(backlog, c)
    /\ UNCHANGED <<mainVars, sessionVars, chanVars, handlerVars, accepted,
                   answered>>

\* The browser sends its whole request, or closes the connection.  One that leaves
\* later is served like the others.
BrowserSends(c) ==
    /\ line[c] = "open"
    /\ line' = [line EXCEPT ![c] = "sent"]
    /\ UNCHANGED <<request, cookie, backlog, mainVars, sessionVars, chanVars,
                   handlerVars, accepted, answered>>

BrowserCloses(c) ==
    /\ line[c] = "open"
    /\ line' = [line EXCEPT ![c] = "closed"]
    /\ UNCHANGED <<request, cookie, backlog, mainVars, sessionVars, chanVars,
                   handlerVars, accepted, answered>>

-----------------------------------------------------------------------------
(* handleConnection, in the loop of runProxyServer.                         *)

AcceptConn ==
    /\ main = "accept" /\ backlog # <<>>
    /\ conn' = Head(backlog) /\ backlog' = Tail(backlog)
    /\ main' = "receive"
    /\ accepted' = Append(accepted, Head(backlog))
    /\ UNCHANGED <<browserVars, sessionVars, chanVars, handlerVars, answered>>

\* kolproxy_receiveHTTP waits for the request.  Without one the answer goes nowhere.
ReceiveHTTP ==
    /\ main = "receive"
    /\ \/ line[conn] = "sent" /\ main' = "serve" /\ UNCHANGED answered
       \/ line[conn] = "closed" /\ main' = "accept" /\ Answer(conn)
    /\ UNCHANGED <<browserVars, backlog, conn, sessionVars, chanVars, handlerVars,
                   accepted>>

\* "/kolproxy-test", "/kolproxy-troubleshooting", and what is denied.
AnswerTest ==
    /\ main = "serve" /\ request[conn] = "test"
    /\ Answer(conn) /\ main' = "accept"
    /\ UNCHANGED <<browserVars, backlog, conn, sessionVars, chanVars, handlerVars,
                   accepted>>

\* The sessions are kept.
UseSlowHttp_Faulty ==
    /\ main = "serve" /\ request[conn] = "slow"
    /\ \E enable \in BOOLEAN : slow' = enable
    /\ Answer(conn) /\ main' = "accept"
    /\ UNCHANGED <<browserVars, backlog, conn, sessions, mode, session, era,
                   chanVars, handlerVars, accepted>>

\* "/kolproxy-use-slow-http" sets the flag and forgets the sessions.
UseSlowHttp ==
    /\ main = "serve" /\ request[conn] = "slow"
    /\ \E enable \in BOOLEAN : slow' = enable
    /\ sessions' = [k \in Cookies |-> None]
    /\ era' = [c \in Conns |-> IF session[c] = None THEN era[c] + 1 ELSE era[c]]
    /\ Answer(conn) /\ main' = "accept"
    /\ UNCHANGED <<browserVars, backlog, conn, mode, session, chanVars, handlerVars,
                   accepted>>

\* "/kolproxy-shutdown" ends the loop, and the program with it.
Shutdown ==
    /\ main = "serve" /\ request[conn] = "shutdown"
    /\ Answer(conn) /\ main' = "ended"
    /\ UNCHANGED <<browserVars, backlog, conn, sessionVars, chanVars, handlerVars,
                   accepted>>

\* A new session is not put in the map.
GetSession_Faulty ==
    /\ main = "serve" /\ request[conn] \in {"page", "chat"}
    /\ LET s == sessions[cookie[conn]] IN
       \/ s # None /\ session' = [session EXCEPT ![conn] = s]
                   /\ UNCHANGED <<sessions, mode>>
       \/ s = None /\ mode' = Append(mode, slow)
                   /\ session' = [session EXCEPT ![conn] = Len(mode')]
                   /\ UNCHANGED sessions
    /\ main' = "queue"
    /\ UNCHANGED <<browserVars, backlog, conn, slow, era, chanVars, handlerVars,
                   accepted, answered>>

\* get_sessionconn
GetSession ==
    /\ main = "serve" /\ request[conn] \in {"page", "chat"}
    /\ LET s == sessions[cookie[conn]] IN
       \/ s # None /\ session' = [session EXCEPT ![conn] = s]
                   /\ UNCHANGED <<sessions, mode>>
       \/ s = None /\ mode' = Append(mode, slow)
                   /\ session' = [session EXCEPT ![conn] = Len(mode')]
                   /\ sessions' = [sessions EXCEPT ![cookie[conn]] = Len(mode')]
    /\ main' = "queue"
    /\ UNCHANGED <<browserVars, backlog, conn, slow, era, chanVars, handlerVars,
                   accepted, answered>>

\* writeChan (if isChat then mvchat else mvsequence)
QueueRequest ==
    /\ main = "queue"
    /\ IF request[conn] = "chat"
       THEN mvchat' = Append(mvchat, conn) /\ UNCHANGED mvsequence
       ELSE mvsequence' = Append(mvsequence, conn) /\ UNCHANGED mvchat
    /\ main' = "accept"
    /\ UNCHANGED <<browserVars, backlog, conn, sessionVars, handlerVars, accepted,
                   answered>>

-----------------------------------------------------------------------------
(* setupHandlerChannels                                                     *)

\* The request that came last is taken first.
SeqTake_Faulty ==
    /\ Running /\ seqConn = None /\ mvsequence # <<>>
    /\ seqConn' = mvsequence[Len(mvsequence)]
    /\ mvsequence' = SubSeq(mvsequence, 1, Len(mvsequence) - 1)
    /\ UNCHANGED <<browserVars, backlog, mainVars, sessionVars, mvchat, chatting,
                   accepted, answered>>

SeqTake ==
    /\ Running /\ seqConn = None /\ mvsequence # <<>>
    /\ seqConn' = Head(mvsequence) /\ mvsequence' = Tail(mvsequence)
    /\ UNCHANGED <<browserVars, backlog, mainVars, sessionVars, mvchat, chatting,
                   accepted, answered>>

\* An exception of the handler is not answered.
SeqRespond_Faulty ==
    /\ Running /\ seqConn # None
    /\ \/ Answer(seqConn)
       \/ UNCHANGED answered
    /\ seqConn' = None
    /\ UNCHANGED <<browserVars, backlog, mainVars, sessionVars, chanVars, chatting,
                   accepted>>

\* try_handling: the response or the exception is sent; a browser that has left is
\* not noticed, or an exception that is caught.
SeqRespond ==
    /\ Running /\ seqConn # None
    /\ Answer(seqConn)
    /\ seqConn' = None
    /\ UNCHANGED <<browserVars, backlog, mainVars, sessionVars, chanVars, chatting,
                   accepted>>

\* "Serve asynced"
ChatTake ==
    /\ Running /\ mvchat # <<>>
    /\ chatting' = chatting \cup {Head(mvchat)} /\ mvchat' = Tail(mvchat)
    /\ UNCHANGED <<browserVars, backlog, mainVars, sessionVars, mvsequence, seqConn,
                   accepted, answered>>

ChatRespond(c) ==
    /\ Running /\ c \in chatting
    /\ Answer(c)
    /\ chatting' = chatting \ {c}
    /\ UNCHANGED <<browserVars, backlog, mainVars, sessionVars, chanVars, seqConn,
                   accepted>>

-----------------------------------------------------------------------------

\* Nobody asks for anything, or the program has ended.
Rest ==
    /\ \/ ~Running
       \/ main = "accept" /\ backlog = <<>> /\ mvsequence = <<>> /\ mvchat = <<>>
             /\ seqConn = None /\ chatting = {}
    /\ UNCHANGED vars

MainStep ==
    \/ AcceptConn \/ ReceiveHTTP \/ AnswerTest \/ UseSlowHttp \/ Shutdown
    \/ GetSession \/ QueueRequest

Next ==
    \/ \E c \in Conns, kind \in Kind : Connect(c, kind)
    \/ \E c \in Conns : BrowserSends(c) \/ BrowserCloses(c) \/ ChatRespond(c)
    \/ MainStep
    \/ SeqTake \/ SeqRespond \/ ChatTake
    \/ Rest

Spec == Init /\ [][Next]_vars

\* A browser sends its request or closes the connection, threads run, and a chat
\* request's script ends; an ordinary request's script may not.
FairSpec ==
    /\ Spec
    /\ \A c \in Conns : /\ WF_vars(BrowserSends(c) \/ BrowserCloses(c))
                        /\ WF_vars(ChatRespond(c))
    /\ WF_vars(MainStep) /\ WF_vars(SeqTake) /\ WF_vars(ChatTake)

-----------------------------------------------------------------------------
(* Properties.                                                              *)

TypeOK ==
    /\ line \in [Conns -> {"new", "open", "sent", "closed"}]
    /\ request \in [Conns -> Kind \cup {None}] /\ cookie \in [Conns -> Cookies \cup {None}]
    /\ backlog \in Seq(Conns)
    /\ main \in {"accept", "receive", "serve", "queue", "ended"}
    /\ conn \in Conns \cup {None} /\ (conn = None => main = "accept")
    /\ slow \in BOOLEAN /\ mode \in Seq(BOOLEAN)
    /\ sessions \in [Cookies -> DOMAIN mode \cup {None}]
    /\ session \in [Conns -> DOMAIN mode \cup {None}]
    /\ mvsequence \in Seq(Conns) /\ mvchat \in Seq(Conns)
    /\ seqConn \in Conns \cup {None} /\ chatting \subseteq Conns
    /\ accepted \in Seq(Conns) /\ answered \in Seq(Conns)
    /\ era \in [Conns -> Nat]

\* A page that was given a session and put on mvsequence, or is about to be.
IsQueued(c) == request[c] = "page" /\ session[c] # None

\* Ordinary requests are answered in the order they were accepted, each once,
\* whatever chat requests and the main thread's own pages do meanwhile: when one is
\* answered, so are those that were accepted before it.
PagesInOrder ==
    \A j \in 1 .. Len(answered) : IsQueued(answered[j]) =>
        /\ \A i \in 1 .. Len(answered) : answered[i] = answered[j] => i = j
        /\ \E l \in 1 .. Len(accepted) :
              /\ accepted[l] = answered[j]
              /\ \A k \in 1 .. l - 1 : IsQueued(accepted[k]) =>
                    \E i \in 1 .. j - 1 : answered[i] = accepted[k]

\* The variables have their types.  Requests with one cookie have one session,
\* unless the sessions were forgotten in between; others have others.
OneSession == TypeOK /\
    \A c, d \in Conns :
        session[c] # None /\ session[d] # None =>
            (session[c] = session[d] <=> cookie[c] = cookie[d] /\ era[c] = era[d])

\* The switch to the other way of connecting takes effect: a request that is given a
\* session after the switch gets one in the mode it switched to.
SwitchTakesEffect ==
    [][\A c \in Conns : session'[c] # session[c] => mode'[session'[c]] = slow]_vars

Waits(c) == line[c] = "sent" /\ \A i \in 1 .. Len(answered) : answered[i] # c

\* Every request that is sent is answered, unless the program is shut down or an
\* ordinary request's script does not end; and a chat request, or one for the main
\* thread, even then.  (There are finitely many connections: in the end no request
\* waits.)
RequestsAnswered ==
    /\ <>[](seqConn # None) \/ <>[](\A c \in Conns : Waits(c) => ~Running)
    /\ <>[](\A c \in Conns : Waits(c) => request[c] = "page" \/ ~Running)

=============================================================================
