------------------------------ MODULE ConnChan ------------------------------
(***************************************************************************)
(* A connection thread (HttpLowlevel.hs): it takes requests from a channel *)
(* and sends them, one at a time, over one keep-alive connection, which it *)
(* opens, reuses, replaces when it has been idle, and forgets after an     *)
(* error.  The other mode, slow_mkconnthing, uses one connection per       *)
(* request.  A session has two such threads, one for pages and one for     *)
(* chat.                                                                   *)
(*                                                                         *)
(* The game server and the network are outside src/: a connection may go   *)
(* down at any time, which may lose what was under way in it, but not      *)
(* prevent the server from executing what had reached it.                  *)
(***************************************************************************)
EXTENDS Integers, Sequences

CONSTANTS
    Requests,    \* requests; a connection is named by the request it was opened for
    Posts,       \* those that have a body
    None,        \* no request, no connection
    StaleAfter,  \* ticks of the clock in two minutes
    MaxTime      \* bound: ticks

ASSUME NoneIsNoRequest == None \notin Requests \cup {"error", "refused"}
ASSUME OutcomesAreNoRequests == {"error", "refused"} \cap Requests = {}
ASSUME PostsAreRequests == Posts \subseteq Requests
ASSUME TimesAreNat == StaleAfter \in Nat /\ MaxTime \in Nat

VARIABLES
    slow,      \* use_slow_http_ref_ when the session was made
    chan,      \* connchan
    cur,       \* the request the thread serves, or None
    pc,        \* where the thread is
    conn,      \* connmv: the connection kept, or None after Left
    stored,    \* connmv: the time kept with it
    tnow,      \* tnow of the request being served
    got,       \* whose answer is being read
    bodySent,  \* bdy_sent of switchResponse
    answer,    \* request |-> what was put in its mvdest
    now,       \* the clock
    link,      \* connection |-> "none", "up" or "down"
    inbox,     \* connection |-> the request that has reached the server
    again,     \* connection |-> where the second copy of a body is: "none", "behind"
               \* its request, "ahead" of all the server has to read, or "refused"
    wire,      \* connection |-> parts of answers the proxy has not read
    executed   \* history: requests in the order the server executed them

threadVars == <<cur, pc, conn, stored, tnow, got, bodySent>>
netVars    == <<link, inbox, again, wire, executed>>
vars == <<slow, chan, threadVars, answer, now, netVars>>

Part == [of : Requests \cup {"refused"}, part : {"continue", "head", "body"}]
Answer(r) == <<[of |-> r, part |-> "head"], [of |-> r, part |-> "body"]>>

Init ==
    /\ slow \in BOOLEAN
    /\ chan = <<>>
    /\ cur = None /\ pc = "idle"
    /\ conn = None /\ stored = 0 /\ tnow = 0 /\ got = None /\ bodySent = FALSE
    /\ answer = [r \in Requests |-> None]
    /\ now = 0
    /\ link = [c \in Requests |-> "none"]
    /\ inbox = [c \in Requests |-> None]
    /\ again = [c \in Requests |-> "none"]
    /\ wire = [c \in Requests |-> <<>>]
    /\ executed = <<>>

Put(s) == {s[i] : i \in DOMAIN s}

-----------------------------------------------------------------------------
(* The thread.                                                              *)

\* writeChan getconn_
Submit(r) ==
    /\ answer[r] = None /\ cur # r /\ r \notin Put(chan)
    /\ chan' = Append(chan, r)
    /\ UNCHANGED <<slow, threadVars, answer, now, netVars>>

\* x <- readChan connchan; tnow <- getCurrentTime; reuse, replace or open.
TakeRequest ==
    /\ pc = "idle" /\ chan # <<>>
    /\ cur' = Head(chan) /\ chan' = Tail(chan)
    /\ tnow' = now
    /\ pc' = IF slow THEN "slow"
             ELSE IF conn = None THEN "open"
             ELSE IF now - stored <= StaleAfter THEN "send" ELSE "kill"
    /\ UNCHANGED <<slow, conn, stored, got, bodySent, answer, now, netVars>>

\* putMVar mvdest (Left err), and the connection is forgotten.
Fail ==
    /\ answer' = [answer EXCEPT ![cur] = "error"]
    /\ cur' = None /\ pc' = "idle" /\ conn' = None /\ got' = None
    /\ bodySent' = FALSE
    /\ UNCHANGED <<stored, tnow>>

\* oldkill says goodbye, which fails when the connection is down.
Kill ==
    /\ pc = "kill"
    /\ \/ /\ link' = [link EXCEPT ![conn] = "down"]
          /\ pc' = "open" /\ conn' = None
          /\ UNCHANGED <<cur, stored, tnow, got, bodySent, answer>>
       \/ link[conn] = "down" /\ Fail /\ UNCHANGED link
    /\ UNCHANGED <<slow, chan, now, inbox, again, wire, executed>>

\* ensure_connection_: an attempt may fail at any time, and then another is made
\* after half a second, without end.
OpenFails ==
    /\ pc = "open"
    /\ pc' = "wait"
    /\ UNCHANGED <<slow, chan, cur, conn, stored, tnow, got, bodySent, answer, now, netVars>>

OpenAgain ==
    /\ pc = "wait"
    /\ pc' = "open"
    /\ UNCHANGED <<slow, chan, cur, conn, stored, tnow, got, bodySent, answer, now, netVars>>

OpenConn ==
    /\ pc = "open"
    /\ conn' = cur /\ pc' = "send"
    /\ link' = [link EXCEPT ![cur] = "up"]
    /\ UNCHANGED <<slow, chan, cur, stored, tnow, got, bodySent, answer, now, inbox,
                   again, wire, executed>>

\* connPut; connFlush.  What is written to a connection that is down is lost.
Send ==
    /\ pc = "send"
    /\ \/ /\ pc' = "head"
          /\ inbox' = IF link[conn] = "up" THEN [inbox EXCEPT ![conn] = cur] ELSE inbox
          /\ UNCHANGED <<cur, conn, stored, tnow, got, bodySent, answer>>
       \/ link[conn] = "down" /\ Fail /\ UNCHANGED inbox
    /\ UNCHANGED <<slow, chan, now, link, again, wire, executed>>

\* switchResponse, Continue: the body is put once more, though it was put with the
\* request.  After that it only waits.
ReadContinue ==
    /\ pc = "head" /\ wire[conn] # <<>> /\ Head(wire[conn]).part = "continue"
    /\ wire' = [wire EXCEPT ![conn] = Tail(@)]
    /\ \/ /\ bodySent' = TRUE
          /\ again' = IF bodySent \/ link[conn] = "down" THEN again
                      ELSE [again EXCEPT ![conn] = IF inbox[conn] = None THEN "ahead" ELSE "behind"]
          /\ UNCHANGED <<cur, pc, conn, stored, tnow, got, answer>>
       \/ ~bodySent /\ link[conn] = "down" /\ Fail /\ UNCHANGED again
    /\ UNCHANGED <<slow, chan, now, link, inbox, executed>>

\* getResponseHead: the next head in the connection, whoever's it is.
ReadHead ==
    /\ pc = "head" /\ wire[conn] # <<>> /\ Head(wire[conn]).part # "continue"
    /\ got' = Head(wire[conn]).of
    /\ wire' = [wire EXCEPT ![conn] = Tail(@)]
    /\ pc' = "body"
    /\ UNCHANGED <<slow, chan, cur, conn, stored, tnow, bodySent, answer, now, link,
                   inbox, again, executed>>

\* After an answer that cannot be read the connection is kept.
ReadFailsKeeps_Faulty ==
    /\ pc \in {"head", "body"}
    /\ pc = "body" \/ (wire[conn] = <<>> /\ link[conn] = "down")
    /\ answer' = [answer EXCEPT ![cur] = "error"]
    /\ cur' = None /\ pc' = "idle" /\ got' = None /\ stored' = tnow /\ bodySent' = FALSE
    /\ UNCHANGED <<slow, chan, conn, tnow, now, netVars>>

\* The thread waits for an answer even when the connection has gone down.
ReadFailsOnData_Faulty ==
    /\ pc \in {"head", "body"}
    /\ pc = "body"
    /\ Fail
    /\ UNCHANGED <<slow, chan, now, netVars>>

\* The request is sent once more on a new connection.
ReadFailsRetry_Faulty ==
    /\ pc \in {"head", "body"}
    /\ pc = "body" \/ (wire[conn] = <<>> /\ link[conn] = "down")
    /\ pc' = "send"
    /\ link' = [link EXCEPT ![conn] = "up"]
    /\ UNCHANGED <<slow, chan, cur, conn, stored, tnow, got, bodySent, answer, now, inbox,
                   again, wire, executed>>

\* The connection ends, or the head asks for something switchResponse does not
\* understand; the rest of the answer is not read.
ReadFails ==
    /\ pc \in {"head", "body"}
    /\ pc = "body" \/ (wire[conn] = <<>> /\ link[conn] = "down")
    /\ Fail
    /\ UNCHANGED <<slow, chan, now, netVars>>

\* The body; a connection the server is going to close is forgotten.
ReadBody ==
    /\ pc = "body" /\ wire[conn] # <<>>
    /\ wire' = [wire EXCEPT ![conn] = Tail(@)]
    /\ answer' = [answer EXCEPT ![cur] = got]
    /\ \/ conn' = None /\ UNCHANGED stored
       \/ UNCHANGED conn /\ stored' = tnow
    /\ cur' = None /\ pc' = "idle" /\ got' = None /\ bodySent' = FALSE
    /\ UNCHANGED <<slow, chan, tnow, now, link, inbox, again, executed>>

\* slow_mkconnthing: simple_https_direct opens, uses and closes a connection.
SlowSend ==
    /\ pc = "slow"
    /\ inbox' = [inbox EXCEPT ![cur] = cur] /\ link' = [link EXCEPT ![cur] = "up"]
    /\ pc' = "slowAnswer"
    /\ UNCHANGED <<slow, chan, cur, conn, stored, tnow, got, bodySent, answer, now, again,
                   wire, executed>>

\* The answer was read whole, or something went wrong before or after.
SlowAnswer ==
    /\ pc \in {"slow", "slowAnswer"}
    /\ \/ /\ pc = "slowAnswer" /\ Len(wire[cur]) = 2
          /\ answer' = [answer EXCEPT ![cur] = Head(wire[cur]).of]
       \/ /\ pc = "slow" \/ link[cur] = "down"
          /\ answer' = [answer EXCEPT ![cur] = "error"]
    /\ cur' = None /\ pc' = "idle"
    /\ UNCHANGED <<slow, chan, conn, stored, tnow, got, bodySent, now, netVars>>

-----------------------------------------------------------------------------
(* The game server, the network and the clock.                              *)

\* A server may say that it is ready for the body.  (In slow mode a second copy
\* goes to a connection that is closed after the answer.)
ServerContinue(c) ==
    /\ ~slow /\ inbox[c] \in Posts /\ link[c] = "up" /\ wire[c] = <<>> /\ again[c] # "ahead"
    /\ wire' = [wire EXCEPT ![c] = <<[of |-> inbox[c], part |-> "continue"]>>]
    /\ UNCHANGED <<slow, chan, threadVars, answer, now, link, inbox, again, executed>>

ServerExecute(c) ==
    /\ inbox[c] # None /\ again[c] # "ahead"
    /\ executed' = Append(executed, inbox[c])
    /\ inbox' = [inbox EXCEPT ![c] = None]
    /\ again' = [again EXCEPT ![c] = IF @ = "behind" THEN "ahead" ELSE @]
    /\ wire' = IF link[c] = "up" THEN [wire EXCEPT ![c] = @ \o Answer(inbox[c])] ELSE wire
    /\ UNCHANGED <<slow, chan, threadVars, answer, now, link>>

\* A body without a request is an error; the server says so, and hangs up.  The
\* next request may have arrived behind it.
ServerRefuses(c) ==
    /\ again[c] = "ahead"
    /\ again' = [again EXCEPT ![c] = "refused"]
    /\ inbox' = [inbox EXCEPT ![c] = None]
    /\ wire' = IF link[c] = "up" THEN [wire EXCEPT ![c] = @ \o Answer("refused")] ELSE wire
    /\ link' = [link EXCEPT ![c] = "down"]
    /\ UNCHANGED <<slow, chan, threadVars, answer, now, executed>>

\* The connection goes down; part of what was on its way is lost.
Break(c) ==
    /\ link[c] = "up"
    /\ link' = [link EXCEPT ![c] = "down"]
    /\ \E n \in 0 .. Len(wire[c]) : wire' = [wire EXCEPT ![c] = SubSeq(@, 1, n)]
    /\ \E r \in {inbox[c], None} : inbox' = [inbox EXCEPT ![c] = r]
    /\ UNCHANGED <<slow, chan, threadVars, answer, now, again, executed>>

Tick ==
    /\ now < MaxTime
    /\ now' = now + 1
    /\ UNCHANGED <<slow, chan, threadVars, answer, netVars>>

-----------------------------------------------------------------------------

Thread ==
    \/ TakeRequest \/ Kill \/ OpenFails \/ OpenAgain \/ OpenConn \/ Send
    \/ ReadContinue \/ ReadHead \/ ReadFails \/ ReadBody
    \/ SlowSend \/ SlowAnswer

\* Nothing to do until the next request.
Rest == pc = "idle" /\ chan = <<>> /\ UNCHANGED vars

Next ==
    \/ \E r \in Requests : Submit(r)
    \/ Thread
    \/ \E c \in Requests :
           ServerContinue(c) \/ ServerExecute(c) \/ ServerRefuses(c) \/ Break(c)
    \/ Tick
    \/ Rest

Spec == Init /\ [][Next]_vars

\* The thread runs, and the server executes and answers what reaches it unless
\* the connection goes down: the code has no time limit on an answer.  That the
\* server can be reached is not assumed: every attempt to open may fail.
Fairness ==
    /\ WF_vars(Thread)
    /\ \A c \in Requests : WF_vars(ServerExecute(c) \/ ServerRefuses(c))

FairSpec == Spec /\ Fairness

-----------------------------------------------------------------------------
(* Properties.                                                              *)

\* No connection ever holds more than the parts of one unread answer.
TypeOK ==
    /\ slow \in BOOLEAN
    /\ chan \in Seq(Requests)
    /\ cur \in Requests \cup {None} /\ conn \in Requests \cup {None}
    /\ got \in Requests \cup {None, "refused"} /\ bodySent \in BOOLEAN
    /\ pc \in {"idle", "kill", "open", "wait", "send", "head", "body", "slow", "slowAnswer"}
    /\ pc = "idle" <=> cur = None
    /\ pc \in {"kill", "send", "head", "body"} => conn # None
    /\ stored \in Nat /\ tnow \in Nat /\ now \in Nat
    /\ answer \in [Requests -> Requests \cup {None, "error", "refused"}]
    /\ link \in [Requests -> {"none", "up", "down"}]
    /\ inbox \in [Requests -> Requests \cup {None}]
    /\ again \in [Requests -> {"none", "behind", "ahead", "refused"}]
    /\ wire \in [Requests -> Seq(Part)]
    /\ \A c \in Requests : again[c] = "none" => Len(wire[c]) <= 3
    /\ executed \in Seq(Requests)

\* The variables have their types, and a request is answered with its own answer,
\* never with what an earlier request
\* left unread in the connection; but if a server asked for the body of a request,
\* the next one may be answered with the refusal of the second copy.
OwnAnswer == TypeOK /\
    \A r \in Requests : answer[r] \in {None, "error", r} \/
        /\ answer[r] = "refused"
        /\ \E c \in Requests : again[c] = "refused" /\ \E p \in Posts \ {r} : answer[p] = p

\* What the threads that wait see: the requests not yet answered, oldest first, and
\* what came of the others.
Pending == (IF cur = None THEN <<>> ELSE <<cur>>) \o chan
Outcome ==
    [r \in Requests |-> IF answer[r] = None THEN "none"
                        ELSE IF answer[r] \in {"error", "refused"} THEN "error"
                        ELSE IF answer[r] = r THEN "ok" ELSE "wrong"]

\* The thread keeps the promise of ConnService.
Service == INSTANCE ConnService WITH queue <- Pending, answer <- Outcome
ImplementsService == Service!Spec

\* Every request put on the channel is answered, whatever goes down and however
\* often opening a connection fails, unless from some time on every attempt fails:
\* then ensure_connection_ tries for ever, and answers nobody.
Answered ==
    \/ []<>(pc = "wait")
    \/ \A r \in Requests : (r \in Put(chan)) ~> (answer[r] # None)

=============================================================================
