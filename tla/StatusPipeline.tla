--------------------------- MODULE StatusPipeline ---------------------------
(***************************************************************************)
(* One kolproxy session: the page pipeline and the cache of the game's     *)
(* status (Http.hs, Api.hs, Handlers.hs, make_ref and handle_login of      *)
(* Server.hs).                                                             *)
(*                                                                         *)
(* A request that may change the game creates an empty MVar, stores it in  *)
(* jsonStatusPageMVarRef_, puts itself and then an api.php request on the  *)
(* session's connection channel, and forks a thread that fills the MVar    *)
(* with the api.php answer.  Every reader of the status takes the MVar     *)
(* that is in the reference when it starts and blocks on it.               *)
(*                                                                         *)
(* The request handler thread is not the only one that issues such         *)
(* requests: the thread that waits for an answer follows a redirect by     *)
(* issuing the next one, and a delayed settings store posts the action     *)
(* bar.  The steps of an issue are separate, so issues can overlap.        *)
(*                                                                         *)
(* Time is the position in the connection channel: a page with ticket n is *)
(* the n-th request the game server executes, and a status with ticket n   *)
(* shows the effect of exactly the pages whose ticket is smaller.          *)
(*                                                                         *)
(* A definition whose name ends in _Faulty is not part of the model: it is *)
(* the definition after it with a plausible mistake, kept to show that a   *)
(* property notices the mistake.                                           *)
(***************************************************************************)
EXTENDS Integers, FiniteSets

CONSTANTS
    SeqPages,       \* pages a browser-request script may submit
    RedirectPages,  \* requests made to follow a redirect
    StorePages,     \* actionbar posts of delayed settings stores
    Logins,         \* login requests; each is also the MVar the login creates
    Chats,          \* chat requests that read the status
    FirstMVar,      \* the MVar of a new session
    Seq,            \* the thread "kps:mvseq"
    None,           \* no page, no login, no MVar
    MaxRequests,    \* bound: requests the sequence thread takes up
    MaxErrors       \* bound: requests that fail

\* Every page creates one MVar and fetches the status once, and so does every
\* reset of the cache, so a page or a reset also names its MVar and its fetch.
Page   == SeqPages \cup RedirectPages \cup StorePages
Reset  == Logins \cup {FirstMVar}
MVar   == Page \cup Reset
Thread == {Seq} \cup SeqPages \cup StorePages \cup Chats

ASSUME IdsAreDistinct ==
    /\ SeqPages \cap (RedirectPages \cup StorePages) = {}
    /\ RedirectPages \cap StorePages = {}
    /\ Page \cap Reset = {}
    /\ FirstMVar \notin Logins
    /\ Seq \notin SeqPages \cup StorePages \cup Chats
    /\ Chats \cap Page = {}
    /\ None \notin MVar \cup Thread
ASSUME BoundsAreNat == MaxRequests \in Nat /\ MaxErrors \in Nat

\* What an IORef or an MVar of the status cache holds: nothing, an exception,
\* or the status fetched by the request with that ticket.
Empty  == 0
Failed == -1
Status == {Empty, Failed} \cup (Nat \ {0})
Valid(s) == s > 0

VARIABLES
    statusRef,    \* jsonStatusPageMVarRef_
    latestRaw,    \* latestRawJson_
    latestValid,  \* latestValidJson_
    mv,           \* contents of every MVar
    step,         \* page |-> how far its issue is
    ticket,       \* page |-> its place in the connection channel, 0 before
    ans,          \* page |-> what the connection thread put in mv_x
    child,        \* page |-> the request that follows its redirect
    fin,          \* page |-> what "HTTP:mv_val" put in mv_val
    last,         \* page |-> the page at the end of its redirects
    before,       \* page |-> the MVar read for the status before it
    fetchTicket,  \* fetch |-> place of its api.php request, 0 before
    fetchAns,     \* fetch |-> what came back
    load,         \* fetch |-> how far load_api_status_to_mv is
    syncMv,       \* reset |-> the MVar its fetch is going to fill
    head, tail,   \* requests executed by and given to the connection thread
    pc,           \* thread |-> where it is
    reading,      \* thread |-> the MVar it is blocked on
    seqPage,      \* the page the sequence thread waits for
    login,        \* the login the sequence thread serves, or None
    stateValid,   \* stateValid_ of the request being served
    requests,     \* requests taken up so far
    overlap,      \* history: two issues overlapped
    raced         \* history: another thread got between the steps of a login

cacheVars   == <<statusRef, latestRaw, latestValid, mv>>
pageVars    == <<step, ticket, ans, child, fin, last, before>>
fetchVars   == <<fetchTicket, fetchAns, load, syncMv>>
threadVars  == <<pc, reading>>
seqVars     == <<seqPage, login, stateValid, requests>>
historyVars == <<overlap, raced>>
vars == <<cacheVars, pageVars, fetchVars, head, tail, threadVars, seqVars,
          historyVars>>

Init ==
    /\ statusRef = FirstMVar
    /\ latestRaw = Empty
    /\ latestValid = Empty
    /\ mv = [m \in MVar |-> Empty]
    /\ step = [p \in Page |-> "unused"]
    /\ ticket = [p \in Page |-> 0]
    /\ ans = [p \in Page |-> "none"]
    /\ child = [p \in Page |-> None]
    /\ fin = [p \in Page |-> "none"]
    /\ last = [p \in Page |-> p]
    /\ before = [p \in Page |-> None]
    /\ fetchTicket = [f \in MVar |-> 0]
    /\ fetchAns = [f \in MVar |-> "none"]
    /\ load = [f \in MVar |-> IF f = FirstMVar THEN "due" ELSE "none"]
    /\ syncMv = [f \in Reset |-> None]
    /\ head = 0
    /\ tail = 0
    /\ pc = [t \in Thread |-> "idle"]
    /\ reading = [t \in Thread |-> None]
    /\ seqPage = None
    /\ login = None
    /\ stateValid = FALSE
    /\ requests = 0
    /\ overlap = FALSE
    /\ raced = FALSE

-----------------------------------------------------------------------------
(* Reading the status (statusfunc): take the MVar that is in the reference  *)
(* now, then block until it is full.  The MVar is not read again.           *)

BeginRead(t, where) ==
    /\ reading' = [reading EXCEPT ![t] = statusRef]
    /\ pc' = [pc EXCEPT ![t] = where]

EndRead(t, where) ==
    /\ reading[t] # None
    /\ mv[reading[t]] # Empty
    /\ reading' = [reading EXCEPT ![t] = None]
    /\ pc' = [pc EXCEPT ![t] = where]

Goto(t, where) ==
    /\ pc' = [pc EXCEPT ![t] = where]
    /\ UNCHANGED reading

-----------------------------------------------------------------------------
(* Issuing a page that invalidates the cache (privateKolRequest_pipelining *)
(* with should_invalidate_cache), on whichever thread does it.             *)

Issuing(p) == step[p] \in {"ref", "page"}

\* While a login is resetting the cache: the reference holds the login's MVar,
\* and make_ref has not read it back yet ...
LoginRefWindow ==
    \/ pc[Seq] \in {"resetRaw", "resetValid"}
    \/ /\ pc[Seq] \in {"checkRaw", "readRef"}
       /\ login # None /\ load[login] = "due"

\* ... and latestRawJson_ is cleared and make_ref has not looked at it yet.
LoginRawWindow ==
    \/ pc[Seq] = "resetValid"
    \/ pc[Seq] = "checkRaw" /\ login # None /\ load[login] = "due"

\* The reference keeps the old MVar: the cache is not invalidated.
IssueRef_Faulty(p) ==
    /\ step[p] = "start"
    /\ step' = [step EXCEPT ![p] = "ref"]
    /\ overlap' = (overlap \/ \E q \in Page : Issuing(q))
    /\ raced' = (raced \/ LoginRefWindow)
    /\ UNCHANGED <<cacheVars, ticket, ans, child, fin, last, before, fetchVars,
                   head, tail, threadVars, seqVars>>

\* newmv <- newEmptyMVar; writeIORef jsonStatusPageMVarRef_ newmv
IssueRef(p) ==
    /\ step[p] = "start"
    /\ step' = [step EXCEPT ![p] = "ref"]
    /\ statusRef' = p
    /\ overlap' = (overlap \/ \E q \in Page : Issuing(q))
    /\ raced' = (raced \/ LoginRefWindow)
    /\ UNCHANGED <<latestRaw, latestValid, mv, ticket, ans, child, fin, last,
                   before, fetchVars, head, tail, threadVars, seqVars>>

\* writeChan getconn_ (page)
IssuePage(p) ==
    /\ step[p] = "ref"
    /\ step' = [step EXCEPT ![p] = "page"]
    /\ tail' = tail + 1
    /\ ticket' = [ticket EXCEPT ![p] = tail + 1]
    /\ UNCHANGED <<cacheVars, ans, child, fin, last, before, fetchVars, head,
                   threadVars, seqVars, historyVars>>

\* writeChan getconn_ (api.php); forkIO load_api_status_to_mv; forkIO mv_val.
\* The issuer goes on: the script, which has also forked "proxy:process", or
\* the settings store, which waits for the answer, or a redirecting mv_val.
IssueApi(p) ==
    /\ step[p] = "page"
    /\ step' = [step EXCEPT ![p] = "out"]
    /\ tail' = tail + 1
    /\ fetchTicket' = [fetchTicket EXCEPT ![p] = tail + 1]
    /\ load' = [load EXCEPT ![p] = "wait"]
    /\ \/ p \in SeqPages /\ pc' = [pc EXCEPT ![Seq] = "script", ![p] = "fetch"]
       \/ p \in StorePages /\ pc' = [pc EXCEPT ![p] = "reply"]
       \/ p \in RedirectPages /\ UNCHANGED pc
    /\ UNCHANGED <<cacheVars, ticket, ans, child, fin, last, before, fetchAns,
                   syncMv, head, reading, seqVars, historyVars>>

-----------------------------------------------------------------------------
(* The connection thread and the game server: requests are executed one at  *)
(* a time in channel order; each is answered or fails.                      *)

Errors == Cardinality({p \in Page : ans[p] = "error"})
              + Cardinality({f \in MVar : fetchAns[f] = "error"})
Outcomes == IF Errors < MaxErrors THEN {"ok", "error"} ELSE {"ok"}

ServePage(p) ==
    /\ head < tail /\ ticket[p] = head + 1
    /\ head' = head + 1
    /\ \/ /\ \E a \in Outcomes : ans' = [ans EXCEPT ![p] = a]
          /\ UNCHANGED child
       \/ \E q \in RedirectPages :
            /\ \A r \in Page : child[r] # q
            /\ ans' = [ans EXCEPT ![p] = "redirect"]
            /\ child' = [child EXCEPT ![p] = q]
    /\ UNCHANGED <<cacheVars, step, ticket, fin, last, before, fetchVars, tail,
                   threadVars, seqVars, historyVars>>

\* "error" stands for a broken connection, an answer that is not JSON, and a
\* redirect of api.php to login.php, maint.php or afterlife.php.
ServeApi(f) ==
    /\ head < tail /\ fetchTicket[f] = head + 1
    /\ head' = head + 1
    /\ \E a \in Outcomes : fetchAns' = [fetchAns EXCEPT ![f] = a]
    /\ UNCHANGED <<cacheVars, pageVars, fetchTicket, load, syncMv, tail,
                   threadVars, seqVars, historyVars>>

-----------------------------------------------------------------------------
(* load_api_status_to_mv: three writes that other threads can get between.  *)

Target(f) == IF f \in Page THEN f ELSE syncMv[f]
Result(f) == IF fetchAns[f] = "ok" THEN fetchTicket[f] ELSE Failed

\* A failed fetch is stored as a valid status.
LoadRawAlwaysValid_Faulty(f) ==
    /\ load[f] = "wait"
    /\ fetchAns[f] # "none"
    /\ latestRaw' = Result(f)
    /\ load' = [load EXCEPT ![f] = "valid"]
    /\ raced' = (raced \/ LoginRawWindow)
    /\ UNCHANGED <<statusRef, latestValid, mv, pageVars, fetchTicket, fetchAns,
                   syncMv, head, tail, threadVars, seqVars, overlap>>

\* A valid status is not stored in latestValidJson_.
LoadRawNeverValid_Faulty(f) ==
    /\ load[f] = "wait"
    /\ fetchAns[f] # "none"
    /\ latestRaw' = Result(f)
    /\ load' = [load EXCEPT ![f] = "put"]
    /\ raced' = (raced \/ LoginRawWindow)
    /\ UNCHANGED <<statusRef, latestValid, mv, pageVars, fetchTicket, fetchAns,
                   syncMv, head, tail, threadVars, seqVars, overlap>>

\* A failed fetch ends the thread: nothing is put in the MVar.
LoadRawDies_Faulty(f) ==
    /\ load[f] = "wait"
    /\ fetchAns[f] # "none"
    /\ latestRaw' = Result(f)
    /\ load' = [load EXCEPT ![f] = IF fetchAns[f] = "ok" THEN "valid" ELSE "done"]
    /\ raced' = (raced \/ LoginRawWindow)
    /\ UNCHANGED <<statusRef, latestValid, mv, pageVars, fetchTicket, fetchAns,
                   syncMv, head, tail, threadVars, seqVars, overlap>>

LoadRaw(f) ==
    /\ load[f] = "wait"
    /\ fetchAns[f] # "none"
    /\ latestRaw' = Result(f)
    /\ load' = [load EXCEPT ![f] = IF fetchAns[f] = "ok" THEN "valid" ELSE "put"]
    /\ raced' = (raced \/ LoginRawWindow)
    /\ UNCHANGED <<statusRef, latestValid, mv, pageVars, fetchTicket, fetchAns,
                   syncMv, head, tail, threadVars, seqVars, overlap>>

LoadValid(f) ==
    /\ load[f] = "valid"
    /\ latestValid' = Result(f)
    /\ load' = [load EXCEPT ![f] = "put"]
    /\ UNCHANGED <<statusRef, latestRaw, mv, pageVars, fetchTicket, fetchAns,
                   syncMv, head, tail, threadVars, seqVars, historyVars>>

\* putMVar blocks while the MVar is full.
LoadPut(f) ==
    /\ load[f] = "put"
    /\ mv[Target(f)] = Empty
    /\ mv' = [mv EXCEPT ![Target(f)] = Result(f)]
    /\ load' = [load EXCEPT ![f] = "done"]
    /\ UNCHANGED <<statusRef, latestRaw, latestValid, pageVars, fetchTicket,
                   fetchAns, syncMv, head, tail, threadVars, seqVars,
                   historyVars>>

-----------------------------------------------------------------------------
(* The thread "HTTP:mv_val" of a page: it takes the answer; on a redirect   *)
(* it issues the next request itself and hands on that request's results.   *)

\* An exception ends the thread: nobody is told.
FinishPage_Faulty(p) ==
    /\ step[p] = "out" /\ fin[p] = "none"
    /\ ans[p] = "ok"
    /\ fin' = [fin EXCEPT ![p] = ans[p]]
    /\ UNCHANGED <<cacheVars, step, ticket, ans, child, last, before, fetchVars,
                   head, tail, threadVars, seqVars, historyVars>>

FinishPage(p) ==
    /\ step[p] = "out" /\ fin[p] = "none"
    /\ ans[p] \in {"ok", "error"}
    /\ fin' = [fin EXCEPT ![p] = ans[p]]
    /\ UNCHANGED <<cacheVars, step, ticket, ans, child, last, before, fetchVars,
                   head, tail, threadVars, seqVars, historyVars>>

FollowRedirect(p) ==
    /\ step[p] = "out" /\ ans[p] = "redirect"
    /\ step[child[p]] = "unused"
    /\ step' = [step EXCEPT ![child[p]] = "start"]
    /\ UNCHANGED <<cacheVars, ticket, ans, child, fin, last, before, fetchVars,
                   head, tail, threadVars, seqVars, historyVars>>

\* The page before the redirect hands over its own status MVar.
FinishRedirect_Faulty(p) ==
    /\ step[p] = "out" /\ ans[p] = "redirect" /\ fin[p] = "none"
    /\ fin[child[p]] # "none"
    /\ fin' = [fin EXCEPT ![p] = fin[child[p]]]
    /\ UNCHANGED <<cacheVars, step, ticket, ans, child, last, before, fetchVars,
                   head, tail, threadVars, seqVars, historyVars>>

FinishRedirect(p) ==
    /\ step[p] = "out" /\ ans[p] = "redirect" /\ fin[p] = "none"
    /\ fin[child[p]] # "none"
    /\ fin' = [fin EXCEPT ![p] = fin[child[p]]]
    /\ last' = [last EXCEPT ![p] = last[child[p]]]
    /\ UNCHANGED <<cacheVars, step, ticket, ans, child, before, fetchVars, head,
                   tail, threadVars, seqVars, historyVars>>

-----------------------------------------------------------------------------
(* The sequence thread: it takes up one browser request at a time, brings   *)
(* the session up to date (make_ref), and serves the request.               *)

\* readChan mvsequence; the request is a login (l) or runs a script (None).
TakeRequest(l) ==
    /\ pc[Seq] = "idle"
    /\ requests < MaxRequests
    /\ l = None \/ (l \in Logins /\ load[l] = "none")
    /\ requests' = requests + 1
    /\ login' = l
    /\ Goto(Seq, "checkRaw")
    /\ UNCHANGED <<cacheVars, pageVars, fetchVars, head, tail, seqPage,
                   stateValid, historyVars>>

\* make_ref: mjs <- readIORef latestRawJson_; when (isNothing mjs) load it.
CheckRaw ==
    /\ pc[Seq] = "checkRaw"
    /\ Goto(Seq, IF latestRaw = Empty THEN "readRef" ELSE "parse")
    /\ UNCHANGED <<cacheVars, pageVars, fetchVars, head, tail, seqVars,
                   historyVars>>

\* mv <- readIORef jsonStatusPageMVarRef_
ReadRef(f) ==
    /\ pc[Seq] = "readRef"
    /\ load[f] = "due"
    /\ syncMv' = [syncMv EXCEPT ![f] = statusRef]
    /\ Goto(Seq, "fetch")
    /\ UNCHANGED <<cacheVars, pageVars, fetchTicket, fetchAns, load, head, tail,
                   seqVars, historyVars>>

\* apixf <- load_api_status_to_mv_mkapixf; the load runs on this thread.
SyncFetch(f) ==
    /\ pc[Seq] = "fetch"
    /\ load[f] = "due" /\ syncMv[f] # None
    /\ tail' = tail + 1
    /\ fetchTicket' = [fetchTicket EXCEPT ![f] = tail + 1]
    /\ load' = [load EXCEPT ![f] = "wait"]
    /\ Goto(Seq, "load")
    /\ UNCHANGED <<cacheVars, pageVars, fetchAns, syncMv, head, seqVars,
                   historyVars>>

SyncLoaded ==
    /\ pc[Seq] = "load"
    /\ \A f \in Reset : load[f] \notin {"wait", "valid", "put"}
    /\ Goto(Seq, "parse")
    /\ UNCHANGED <<cacheVars, pageVars, fetchVars, head, tail, seqVars,
                   historyVars>>

\* force_latest_status_parse.  ensureLoadedState, which follows, reads the same
\* reference again and is modelled with the settings.
ParseStatus ==
    /\ pc[Seq] = "parse"
    /\ BeginRead(Seq, "status")
    /\ UNCHANGED <<cacheVars, pageVars, fetchVars, head, tail, seqVars,
                   historyVars>>

\* make_ref returns: stateValid_ says whether the status could be read.  A
\* login request goes on to reset the cache, once; then it is answered.
MakeRefDone ==
    /\ pc[Seq] = "status"
    /\ EndRead(Seq, IF login = None THEN "script"
                    ELSE IF load[login] = "none" THEN "resetRef" ELSE "idle")
    /\ stateValid' = Valid(mv[reading[Seq]])
    /\ UNCHANGED <<cacheVars, pageVars, fetchVars, head, tail, seqPage, login,
                   requests, historyVars>>

\* The login keeps the MVar of the session it replaces.
ResetRef_Faulty ==
    /\ pc[Seq] = "resetRef"
    /\ load' = [load EXCEPT ![login] = "due"]
    /\ overlap' = (overlap \/ \E q \in Page : Issuing(q))
    /\ Goto(Seq, "resetRaw")
    /\ UNCHANGED <<cacheVars, pageVars, fetchTicket, fetchAns, syncMv, head, tail,
                   seqVars, raced>>

\* handle_login, when the game has set a cookie ...
ResetRef ==
    /\ pc[Seq] = "resetRef"
    /\ statusRef' = login
    /\ load' = [load EXCEPT ![login] = "due"]
    /\ overlap' = (overlap \/ \E q \in Page : Issuing(q))
    /\ Goto(Seq, "resetRaw")
    /\ UNCHANGED <<latestRaw, latestValid, mv, pageVars, fetchTicket, fetchAns,
                   syncMv, head, tail, seqVars, raced>>

\* ... and when it has not: the login failed.
LoginRefused ==
    /\ pc[Seq] = "resetRef"
    /\ Goto(Seq, "idle")
    /\ UNCHANGED <<cacheVars, pageVars, fetchVars, head, tail, seqVars,
                   historyVars>>

\* The login does not clear latestRawJson_.
ResetRaw_Faulty ==
    /\ pc[Seq] = "resetRaw"
    /\ Goto(Seq, "resetValid")
    /\ UNCHANGED <<cacheVars, pageVars, fetchVars, head, tail, seqVars,
                   historyVars>>

ResetRaw ==
    /\ pc[Seq] = "resetRaw"
    /\ latestRaw' = Empty
    /\ Goto(Seq, "resetValid")
    /\ UNCHANGED <<statusRef, latestValid, mv, pageVars, fetchVars, head, tail,
                   seqVars, historyVars>>

ResetValid ==
    /\ pc[Seq] = "resetValid"
    /\ latestValid' = Empty
    /\ Goto(Seq, "checkRaw")
    /\ UNCHANGED <<statusRef, latestRaw, mv, pageVars, fetchVars, head, tail,
                   seqVars, historyVars>>

\* The status before is taken after the page has been issued.
SubmitPage_Faulty(p) ==
    /\ pc[Seq] = "script"
    /\ step[p] = "unused"
    /\ before' = [before EXCEPT ![p] = p]
    /\ step' = [step EXCEPT ![p] = "start"]
    /\ Goto(Seq, "issue")
    /\ UNCHANGED <<cacheVars, ticket, ans, child, fin, last, fetchVars, head,
                   tail, seqVars, historyVars>>

\* The script submits a page: doProcessPage takes the MVar of the status
\* before, and the issue runs on the sequence thread.
SubmitPage(p) ==
    /\ pc[Seq] = "script"
    /\ step[p] = "unused"
    /\ before' = [before EXCEPT ![p] = statusRef]
    /\ step' = [step EXCEPT ![p] = "start"]
    /\ Goto(Seq, "issue")
    /\ UNCHANGED <<cacheVars, ticket, ans, child, fin, last, fetchVars, head,
                   tail, seqVars, historyVars>>

\* The script calls the function async_submit_page returned, once: the call
\* takes the answer out of its MVar.
AwaitPage(p) ==
    /\ pc[Seq] = "script"
    /\ pc[p] \notin {"idle", "taken"}
    /\ seqPage' = p
    /\ Goto(Seq, "await")
    /\ UNCHANGED <<cacheVars, pageVars, fetchVars, head, tail, login, stateValid,
                   requests, historyVars>>

PageAwaited ==
    /\ pc[Seq] = "await"
    /\ pc[seqPage] = "done"
    /\ pc' = [pc EXCEPT ![Seq] = "script", ![seqPage] = "taken"]
    /\ seqPage' = None
    /\ UNCHANGED <<reading, cacheVars, pageVars, fetchVars, head, tail, login,
                   stateValid, requests, historyVars>>

\* get_status_info, get_inventory_counts
ScriptRead ==
    /\ pc[Seq] = "script"
    /\ BeginRead(Seq, "read")
    /\ UNCHANGED <<cacheVars, pageVars, fetchVars, head, tail, seqVars,
                   historyVars>>

ScriptReadDone ==
    /\ pc[Seq] = "read"
    /\ EndRead(Seq, "script")
    /\ UNCHANGED <<cacheVars, pageVars, fetchVars, head, tail, seqVars,
                   historyVars>>

\* set_state forks "delayedStoreSettings".
SetState(s) ==
    /\ pc[Seq] = "script" /\ stateValid
    /\ pc[s] = "idle"
    /\ Goto(s, "delay")
    /\ UNCHANGED <<cacheVars, pageVars, fetchVars, head, tail, seqVars,
                   historyVars>>

FinishRequest ==
    /\ pc[Seq] = "script"
    /\ Goto(Seq, "idle")
    /\ UNCHANGED <<cacheVars, pageVars, fetchVars, head, tail, seqVars,
                   historyVars>>

-----------------------------------------------------------------------------
(* "proxy:process", one thread per submitted page: it waits for the answer  *)
(* and runs process-page.lua, which may read the status.                    *)

ProcessStart(p) ==
    /\ pc[p] = "fetch"
    /\ fin[p] # "none"
    /\ Goto(p, IF fin[p] = "ok" THEN "process" ELSE "done")
    /\ UNCHANGED <<cacheVars, pageVars, fetchVars, head, tail, seqVars,
                   historyVars>>

ProcessRead(p) ==
    /\ pc[p] = "process"
    /\ BeginRead(p, "read")
    /\ UNCHANGED <<cacheVars, pageVars, fetchVars, head, tail, seqVars,
                   historyVars>>

ProcessReadDone(p) ==
    /\ pc[p] = "read"
    /\ EndRead(p, "done")
    /\ UNCHANGED <<cacheVars, pageVars, fetchVars, head, tail, seqVars,
                   historyVars>>

ProcessDone(p) ==
    /\ pc[p] = "process"
    /\ Goto(p, "done")
    /\ UNCHANGED <<cacheVars, pageVars, fetchVars, head, tail, seqVars,
                   historyVars>>

-----------------------------------------------------------------------------
(* "delayedStoreSettings": after ten seconds, unless another store has run, *)
(* writeServerSettings reads the status and posts the action bar, a request *)
(* that invalidates the cache.                                              *)

StoreWake(s) ==
    /\ pc[s] = "delay"
    /\ \/ BeginRead(s, "status")
       \/ Goto(s, "done")
    /\ UNCHANGED <<cacheVars, pageVars, fetchVars, head, tail, seqVars,
                   historyVars>>

StoreStatus(s) ==
    /\ pc[s] = "status"
    /\ reading[s] # None /\ mv[reading[s]] # Empty
    /\ EndRead(s, IF Valid(mv[reading[s]]) THEN "issue" ELSE "done")
    /\ step' = IF Valid(mv[reading[s]])
               THEN [step EXCEPT ![s] = "start"] ELSE step
    /\ UNCHANGED <<cacheVars, ticket, ans, child, fin, last, before, fetchVars,
                   head, tail, seqVars, historyVars>>

StoreDone(s) ==
    /\ pc[s] = "reply"
    /\ fin[s] # "none"
    /\ Goto(s, "done")
    /\ UNCHANGED <<cacheVars, pageVars, fetchVars, head, tail, seqVars,
                   historyVars>>

-----------------------------------------------------------------------------
(* Chat requests run beside the sequence thread, on a connection of their   *)
(* own; they never invalidate the cache and may read it at any time.        *)

ChatRead(c) ==
    /\ pc[c] = "idle"
    /\ BeginRead(c, "read")
    /\ UNCHANGED <<cacheVars, pageVars, fetchVars, head, tail, seqVars,
                   historyVars>>

ChatDone(c) ==
    /\ pc[c] = "read"
    /\ EndRead(c, "done")
    /\ UNCHANGED <<cacheVars, pageVars, fetchVars, head, tail, seqVars,
                   historyVars>>

-----------------------------------------------------------------------------

Issue(p) == IssueRef(p) \/ IssuePage(p) \/ IssueApi(p)
Serve    == (\E p \in Page : ServePage(p)) \/ (\E f \in MVar : ServeApi(f))
Load(f)  == LoadRaw(f) \/ LoadValid(f) \/ LoadPut(f)
Answer(p) == FinishPage(p) \/ FollowRedirect(p) \/ FinishRedirect(p)
MakeRef  ==
    \/ CheckRaw \/ SyncLoaded \/ ParseStatus \/ MakeRefDone
    \/ \E f \in Reset : ReadRef(f) \/ SyncFetch(f)
HandleLogin == ResetRef \/ LoginRefused \/ ResetRaw \/ ResetValid
Script ==
    \/ \E p \in SeqPages : SubmitPage(p) \/ AwaitPage(p)
    \/ \E s \in StorePages : SetState(s)
    \/ ScriptRead
Process(p) == ProcessStart(p) \/ ProcessRead(p) \/ ProcessReadDone(p) \/ ProcessDone(p)
Store(s)   == StoreWake(s) \/ StoreStatus(s) \/ StoreDone(s)

\* Nothing runs and nothing is waited for: the session is at rest.
AtRest ==
    /\ pc[Seq] = "idle"
    /\ head = tail
    /\ \A p \in Page : step[p] \in {"unused", "out"}
    /\ \A p \in Page : step[p] = "out" => fin[p] # "none"
    /\ \A f \in MVar : load[f] \notin {"wait", "valid", "put"}
    /\ \A t \in Thread : reading[t] = None
    /\ \A p \in SeqPages : pc[p] \in {"idle", "done", "taken"}
    /\ \A s \in StorePages : pc[s] \in {"idle", "done"}
Rest == AtRest /\ UNCHANGED vars

Next ==
    \/ \E l \in Logins \cup {None} : TakeRequest(l)
    \/ MakeRef \/ HandleLogin \/ Script \/ PageAwaited \/ ScriptReadDone
    \/ FinishRequest
    \/ \E p \in Page : Issue(p) \/ Answer(p)
    \/ Serve
    \/ \E f \in MVar : Load(f)
    \/ \E p \in SeqPages : Process(p)
    \/ \E s \in StorePages : Store(s)
    \/ \E c \in Chats : ChatRead(c) \/ ChatDone(c)
    \/ Rest

Spec == Init /\ [][Next]_vars

\* The run-time schedules every thread; the network layer answers or fails
\* every request; a script ends.  What a browser or a script asks for next is
\* not fair.
Fairness ==
    /\ WF_vars(MakeRef) /\ WF_vars(HandleLogin)
    /\ WF_vars(PageAwaited) /\ WF_vars(ScriptReadDone) /\ SF_vars(FinishRequest)
    /\ \A p \in Page : WF_vars(Issue(p)) /\ WF_vars(Answer(p))
    /\ WF_vars(Serve)
    /\ \A f \in MVar : WF_vars(Load(f))
    /\ \A p \in SeqPages : WF_vars(Process(p))
    /\ \A s \in StorePages : WF_vars(Store(s))
    /\ \A c \in Chats : WF_vars(ChatDone(c))

FairSpec == Spec /\ Fairness

-----------------------------------------------------------------------------
(* Properties.                                                              *)

TypeOK ==
    /\ statusRef \in MVar
    /\ latestRaw \in Status /\ latestValid \in Status \ {Failed}
    /\ mv \in [MVar -> Status]
    /\ step \in [Page -> {"unused", "start", "ref", "page", "out"}]
    /\ ticket \in [Page -> Nat]
    /\ ans \in [Page -> {"none", "ok", "redirect", "error"}]
    /\ child \in [Page -> RedirectPages \cup {None}]
    /\ fin \in [Page -> {"none", "ok", "error"}]
    /\ last \in [Page -> Page]
    /\ before \in [Page -> MVar \cup {None}]
    /\ fetchTicket \in [MVar -> Nat]
    /\ fetchAns \in [MVar -> {"none", "ok", "error"}]
    /\ load \in [MVar -> {"none", "due", "wait", "valid", "put", "done"}]
    /\ syncMv \in [Reset -> MVar \cup {None}]
    /\ head \in Nat /\ tail \in Nat /\ head <= tail
    /\ pc \in [Thread -> {"idle", "checkRaw", "readRef", "fetch", "load", "parse",
                          "status", "resetRef", "resetRaw", "resetValid",
                          "script", "issue", "await", "read", "process",
                          "delay", "reply", "done", "taken"}]
    /\ reading \in [Thread -> MVar \cup {None}]
    /\ seqPage \in SeqPages \cup {None}
    /\ login \in Logins \cup {None}
    /\ stateValid \in BOOLEAN /\ overlap \in BOOLEAN /\ raced \in BOOLEAN
    /\ requests \in Nat /\ requests <= MaxRequests

\* The status a page request hands to its log entry as the status after it was
\* fetched after the page and the redirect that followed it were executed (a
\* racing login's load may fill the page's MVar first, with an older status).
Trail(p) == {p, child[p]} \ {None}
StatusAfterPage ==
    ~raced =>
        \A p \in Page : fin[p] = "ok" /\ Valid(mv[last[p]]) =>
            \A q \in Trail(p) : mv[last[p]] > ticket[q]

\* The status it hands over as the status before was fetched before the page
\* was executed, unless another thread's issue got in between.
StatusBeforePage ==
    ~overlap =>
        \A p \in SeqPages : ticket[p] > 0 /\ Valid(mv[before[p]]) =>
            mv[before[p]] < ticket[p]

\* The fetch behind the MVar that readers are given comes after every page that
\* has been sent: no page is hidden from a status read started after it, unless
\* two issues overlapped.
FreshRef ==
    ~overlap =>
        \A p \in Page : ticket[p] > 0 =>
            fetchTicket[statusRef] = 0 \/ fetchTicket[statusRef] > ticket[p]

\* What process-page.lua reads as the status shows the page it processes, with
\* the same exceptions: a fetch of make_ref's may fill the MVar of a redirect that
\* began between handle_login's writes.
ProcessSeesOwnPage ==
    ~overlap /\ ~raced =>
        \A p \in SeqPages : pc[p] = "read" /\ Valid(mv[reading[p]]) =>
            \A q \in Trail(p) : mv[reading[p]] > ticket[q]

\* No two threads fill the same MVar: the second would block for ever, and
\* make_ref's load runs on the thread that serves every request.
NoDoubleFill ==
    ~raced => \A f \in MVar : load[f] = "put" => mv[Target(f)] = Empty

\* Something that has not happened yet will fill m.
WillBeFilled(m) ==
    \/ m \in Page /\ Issuing(m)
    \/ \E f \in MVar : load[f] \in {"wait", "valid", "put"} /\ Target(f) = m
    \/ \* make_ref is on its way to load it
       /\ m \in Reset /\ load[m] = "due"
       /\ \/ pc[Seq] \in {"resetRaw", "resetValid", "checkRaw", "readRef"}
          \/ pc[Seq] = "fetch" /\ syncMv[m] = m

\* A thread blocked on a status MVar is waiting for something that is under
\* way.  Two exceptions: a chat request that comes before the session's first
\* other request, and a login that another thread's status update got into.
NoOrphan ==
    ~raced =>
        \A t \in Thread : reading[t] # None =>
            \/ mv[reading[t]] # Empty
            \/ WillBeFilled(reading[t])
            \/ t \in Chats /\ requests = 0

\* When a status can be read, the log database it names can be found
\* (dologaction takes it from latestValidJson_), until a login clears it.
LogHasDatabase ==
    (\A l \in Logins : load[l] = "none") =>
        \A m \in MVar : Valid(mv[m]) => latestValid # Empty

\* Every request the sequence thread takes up is answered.
RequestsAnswered == (pc[Seq] # "idle") ~> (pc[Seq] = "idle" \/ raced)

\* Every page is answered and, its redirects followed, processed.
PagesProcessed ==
    \A p \in SeqPages : (step[p] = "out") ~> (pc[p] \in {"done", "taken"} \/ raced)

\* A chat request that waits for the status is answered once the session has
\* had another request.
ChatsAnswered ==
    \A c \in Chats : (pc[c] = "read" /\ requests > 0) ~> (pc[c] = "done" \/ raced)

=============================================================================
