------------------------ MODULE StatusPipeline_proofs ------------------------
(***************************************************************************)
(* Proofs about StatusPipeline, for any pages, logins, chats and bounds.   *)
(* The inductive invariant is proved part by part, each with the help of   *)
(* the ones before it: types, the order of the requests in the connection  *)
(* channel, where the reference points, what redirects hand on, what is    *)
(* known of every MVar as long as no login has been raced, and what those  *)
(* find who read the status.                                               *)
(***************************************************************************)
EXTENDS StatusPipeline, TLAPS

-----------------------------------------------------------------------------
(* The parts of the inductive invariant.                                    *)

TypeInv ==
    /\ TypeOK
    /\ \A p \in Page : ans[p] = "redirect" => child[p] \in RedirectPages
    /\ \A p \in Page : step[p] # "out" => load[p] = "none"
    /\ \A f \in MVar :
          /\ load[f] \in {"none", "due"} =>
                fetchTicket[f] = 0 /\ fetchAns[f] = "none"
          /\ load[f] \notin {"none", "due"} => fetchTicket[f] > 0
          /\ fetchAns[f] # "none" => fetchTicket[f] <= head
          /\ load[f] = "valid" => fetchAns[f] = "ok"
    /\ \A p \in SeqPages : step[p] \in {"start", "ref", "page"} =>
          /\ pc[Seq] = "issue"
          /\ \A q \in SeqPages : step[q] \in {"start", "ref", "page"} => q = p
    /\ pc[Seq] = "await" => seqPage \in SeqPages
    /\ pc[Seq] = "resetRef" => login \in Logins /\ load[login] = "none"
    /\ \A s \in StorePages :
          pc[s] \in {"idle", "delay", "status"} => step[s] = "unused"

\* A request's ticket is given once, and the fetch of a page after the page's.
OrderInv ==
    /\ \A p \in Page : ticket[p] <= tail
    /\ \A f \in MVar : fetchTicket[f] <= tail
    /\ \A p \in Page : step[p] \in {"unused", "start", "ref"} => ticket[p] = 0
    /\ \A p \in Page : step[p] \in {"page", "out"} => ticket[p] > 0
    /\ \A p \in Page : step[p] = "out" => fetchTicket[p] > ticket[p]

\* While issues do not overlap, the page being issued holds the reference.
FreshInv ==
    ~overlap =>
        /\ \A p \in Page : Issuing(p) => statusRef = p
        /\ \A p \in Page : ticket[p] > 0 =>
            fetchTicket[statusRef] = 0 \/ fetchTicket[statusRef] > ticket[p]

\* A page that is answered hands on a fetch that is later than itself and than
\* the request that followed its redirect.
RedirectInv ==
    /\ \A p \in Page : ans[p] # "none" => ticket[p] > 0 /\ ticket[p] <= head
    /\ \A p \in Page : child[p] # None => ans[p] = "redirect"
    /\ \A q \in RedirectPages : step[q] # "unused" => \E r \in Page : child[r] = q
    /\ \A p \in Page : child[p] # None /\ ticket[child[p]] > 0 =>
          ticket[child[p]] > ticket[p]
    /\ \A p \in Page : fin[p] = "none" => last[p] = p
    /\ \A p \in Page : fin[p] # "none" =>
          /\ step[p] = "out" /\ ans[p] # "none"
          /\ fetchTicket[last[p]] > ticket[p]
          /\ child[p] # None =>
                fin[child[p]] # "none" /\ fetchTicket[last[p]] > ticket[child[p]]

\* As long as no login has been raced, every MVar is filled by its own fetch.
FilledByOwner ==
    \A m \in MVar : mv[m] # Empty =>
        load[m] = "done" /\ (mv[m] = Failed \/ mv[m] = fetchTicket[m])

SyncsOwn ==
    \A f \in Reset : /\ syncMv[f] \in {None, f}
                     /\ load[f] \in {"wait", "valid", "put"} => syncMv[f] = f

FirstDue ==
    load[FirstMVar] = "due" =>
        /\ \A f \in MVar \ {FirstMVar} : load[f] = "none"
        /\ \A p \in Page : step[p] = "unused"
        /\ \A s \in StorePages : pc[s] = "idle"
        /\ latestRaw = Empty /\ statusRef = FirstMVar
        /\ pc[Seq] \in {"idle", "checkRaw", "readRef", "fetch"}

LoginDue ==
    \A l \in Logins : load[l] = "due" =>
        /\ login = l
        /\ pc[Seq] \in {"resetRaw", "resetValid", "checkRaw", "readRef", "fetch"}
        /\ pc[Seq] # "fetch" => statusRef = l
        /\ pc[Seq] \in {"resetValid", "checkRaw"} => latestRaw = Empty

RaceInv == ~raced => FilledByOwner /\ SyncsOwn /\ FirstDue /\ LoginDue

IInv == TypeInv /\ OrderInv /\ FreshInv /\ RedirectInv /\ RaceInv

-----------------------------------------------------------------------------
(* Facts the proofs share.                                                  *)

\* A request is answered or fails, whatever the bound on failures.
LEMMA OutcomesType == Outcomes \subseteq {"ok", "error"}
BY DEF Outcomes

\* The identifiers of pages, resets and None do not meet.
LEMMA Ids ==
    /\ Page \subseteq MVar /\ Reset \subseteq MVar /\ Logins \subseteq Reset
    /\ FirstMVar \in Reset /\ FirstMVar \notin Logins
    /\ SeqPages \subseteq Page /\ RedirectPages \subseteq Page
    /\ StorePages \subseteq Page
    /\ Page \cap Reset = {} /\ None \notin MVar \cup Thread
    /\ Seq \in Thread /\ SeqPages \subseteq Thread /\ StorePages \subseteq Thread
    /\ Chats \subseteq Thread
    /\ Seq \notin SeqPages \cup StorePages \cup Chats
    /\ Chats \cap (SeqPages \cup StorePages) = {}
    /\ SeqPages \cap StorePages = {} /\ SeqPages \cap RedirectPages = {}
    /\ RedirectPages \cap StorePages = {}
BY IdsAreDistinct DEF Page, Reset, MVar, Thread

-----------------------------------------------------------------------------
(* Types.                                                                   *)

\* The initial state has the types, and nothing has been fetched or issued.
LEMMA TypeInit == Init => TypeInv
<1> SUFFICES ASSUME Init PROVE TypeInv
  OBVIOUS
<1> USE Ids, BoundsAreNat DEF Init
<1>1. TypeOK
  <2>1. Empty \in Status \ {Failed}
    BY DEF Status, Empty, Failed
  <2>2. pc \in [Thread -> {"idle"}]
    OBVIOUS
  <2>3. stateValid \in BOOLEAN /\ overlap \in BOOLEAN /\ raced \in BOOLEAN
    OBVIOUS
  <2> QED
    BY <2>1, <2>2, <2>3 DEF TypeOK
<1> QED
  BY <1>1 DEF TypeInv

\* Every step keeps the types, and the facts about a fetch's progress that the
\* type of latestValidJson_ depends on: only an answer that is a status gets there.
LEMMA TypeStep == TypeInv /\ [Next]_vars => TypeInv'
<1> SUFFICES ASSUME TypeInv, [Next]_vars PROVE TypeInv'
  OBVIOUS
<1> USE Ids, BoundsAreNat DEF TypeInv, TypeOK, cacheVars, pageVars, fetchVars,
        threadVars, seqVars, historyVars, Goto, BeginRead, EndRead
<1>1. ASSUME NEW p \in Page, IssueRef(p) PROVE TypeInv'
  BY <1>1 DEF IssueRef
<1>2. ASSUME NEW p \in Page, IssuePage(p) PROVE TypeInv'
  BY <1>2 DEF IssuePage
<1>3. ASSUME NEW p \in Page, IssueApi(p) PROVE TypeInv'
  BY <1>3 DEF IssueApi
<1>4. ASSUME NEW p \in Page, ServePage(p) PROVE TypeInv'
  <2>1. ASSUME NEW a \in {"ok", "error"}, ans' = [ans EXCEPT ![p] = a],
               UNCHANGED child
        PROVE  TypeInv'
    BY <1>4, <2>1 DEF ServePage
  <2>2. CASE \E q \in RedirectPages : /\ ans' = [ans EXCEPT ![p] = "redirect"]
                                     /\ child' = [child EXCEPT ![p] = q]
    BY <1>4, <2>2 DEF ServePage
  <2> QED
    BY <1>4, <2>1, <2>2, OutcomesType DEF ServePage
<1>5. ASSUME NEW f \in MVar, ServeApi(f) PROVE TypeInv'
  BY <1>5, OutcomesType DEF ServeApi
<1>6. ASSUME NEW f \in MVar, LoadRaw(f) PROVE TypeInv'
  BY <1>6 DEF LoadRaw, Result, Status, Empty, Failed
<1>7. ASSUME NEW f \in MVar, LoadValid(f) PROVE TypeInv'
  BY <1>7 DEF LoadValid, Result, Status, Empty, Failed
<1>8. ASSUME NEW f \in MVar, LoadPut(f) PROVE TypeInv'
  <2>1. Result(f) \in Status
    BY <1>8 DEF LoadPut, Result, Status, Empty, Failed
  <2>2. mv' \in [MVar -> Status]
    BY <1>8, <2>1 DEF LoadPut
  <2> QED
    BY <1>8, <2>2 DEF LoadPut
<1>9. ASSUME NEW p \in Page, FinishPage(p) PROVE TypeInv'
  BY <1>9 DEF FinishPage
<1>10. ASSUME NEW p \in Page, FollowRedirect(p) PROVE TypeInv'
  BY <1>10 DEF FollowRedirect
<1>11. ASSUME NEW p \in Page, FinishRedirect(p) PROVE TypeInv'
  BY <1>11 DEF FinishRedirect
<1>12. ASSUME NEW l \in Logins \cup {None}, TakeRequest(l) PROVE TypeInv'
  BY <1>12 DEF TakeRequest
<1>13. ASSUME CheckRaw PROVE TypeInv'
  BY <1>13 DEF CheckRaw
<1>14. ASSUME NEW f \in Reset, ReadRef(f) PROVE TypeInv'
  BY <1>14 DEF ReadRef
<1>15. ASSUME NEW f \in Reset, SyncFetch(f) PROVE TypeInv'
  BY <1>15 DEF SyncFetch
<1>16. ASSUME SyncLoaded PROVE TypeInv'
  BY <1>16 DEF SyncLoaded
<1>17. ASSUME ParseStatus PROVE TypeInv'
  BY <1>17 DEF ParseStatus
<1>18. ASSUME MakeRefDone PROVE TypeInv'
  <2>1. stateValid' \in BOOLEAN
    BY <1>18 DEF MakeRefDone, Valid
  <2> QED
    BY <1>18, <2>1 DEF MakeRefDone
<1>19. ASSUME ResetRef PROVE TypeInv'
  BY <1>19 DEF ResetRef
<1>20. ASSUME LoginRefused PROVE TypeInv'
  BY <1>20 DEF LoginRefused
<1>21. ASSUME ResetRaw PROVE TypeInv'
  BY <1>21 DEF ResetRaw, Status, Empty, Failed
<1>22. ASSUME ResetValid PROVE TypeInv'
  BY <1>22 DEF ResetValid, Status, Empty, Failed
<1>23. ASSUME NEW p \in SeqPages, SubmitPage(p) PROVE TypeInv'
  BY <1>23 DEF SubmitPage
<1>24. ASSUME NEW p \in SeqPages, AwaitPage(p) PROVE TypeInv'
  BY <1>24 DEF AwaitPage
<1>25. ASSUME PageAwaited PROVE TypeInv'
  BY <1>25 DEF PageAwaited
<1>26. ASSUME ScriptRead PROVE TypeInv'
  BY <1>26 DEF ScriptRead
<1>27. ASSUME ScriptReadDone PROVE TypeInv'
  BY <1>27 DEF ScriptReadDone
<1>28. ASSUME NEW s \in StorePages, SetState(s) PROVE TypeInv'
  BY <1>28 DEF SetState
<1>29. ASSUME FinishRequest PROVE TypeInv'
  BY <1>29 DEF FinishRequest
<1>30. ASSUME NEW p \in SeqPages, ProcessStart(p) PROVE TypeInv'
  BY <1>30 DEF ProcessStart
<1>31. ASSUME NEW p \in SeqPages, ProcessRead(p) PROVE TypeInv'
  BY <1>31 DEF ProcessRead
<1>32. ASSUME NEW p \in SeqPages, ProcessReadDone(p) PROVE TypeInv'
  BY <1>32 DEF ProcessReadDone
<1>33. ASSUME NEW p \in SeqPages, ProcessDone(p) PROVE TypeInv'
  BY <1>33 DEF ProcessDone
<1>34. ASSUME NEW s \in StorePages, StoreWake(s) PROVE TypeInv'
  BY <1>34 DEF StoreWake
<1>35. ASSUME NEW s \in StorePages, StoreStatus(s) PROVE TypeInv'
  <2>1. CASE step' = [step EXCEPT ![s] = "start"]
             /\ pc' = [pc EXCEPT ![s] = "issue"]
    BY <1>35, <2>1 DEF StoreStatus
  <2>2. CASE step' = step /\ pc' = [pc EXCEPT ![s] = "done"]
    BY <1>35, <2>2 DEF StoreStatus
  <2> QED
    BY <1>35, <2>1, <2>2 DEF StoreStatus
<1>36. ASSUME NEW s \in StorePages, StoreDone(s) PROVE TypeInv'
  BY <1>36 DEF StoreDone
<1>37. ASSUME NEW c \in Chats, ChatRead(c) PROVE TypeInv'
  BY <1>37 DEF ChatRead
<1>38. ASSUME NEW c \in Chats, ChatDone(c) PROVE TypeInv'
  BY <1>38 DEF ChatDone
<1>39. ASSUME UNCHANGED vars PROVE TypeInv'
  BY <1>39 DEF vars
<1> QED
  BY <1>1, <1>2, <1>3, <1>4, <1>5, <1>6, <1>7, <1>8, <1>9, <1>10, <1>11,
     <1>12, <1>13, <1>14, <1>15, <1>16, <1>17, <1>18, <1>19, <1>20, <1>21,
     <1>22, <1>23, <1>24, <1>25, <1>26, <1>27, <1>28, <1>29, <1>30, <1>31,
     <1>32, <1>33, <1>34, <1>35, <1>36, <1>37, <1>38, <1>39
  DEF Next, MakeRef, HandleLogin, Script, Issue, Serve, Load, Answer, Process,
      Store, Rest

\* Every state has the types: in particular latestValidJson_ never holds the
\* exception of a failed fetch (load_api_status_to_mv).
THEOREM TypeCorrect == Spec => []TypeOK
<1>1. TypeInv => TypeOK
  BY DEF TypeInv
<1> QED
  BY TypeInit, TypeStep, <1>1, PTL DEF Spec

-----------------------------------------------------------------------------
(* The order of the requests in the connection channel.                     *)

\* Nothing has a place in the connection channel at first.
LEMMA OrderInit == Init => OrderInv
BY Ids DEF Init, OrderInv

\* Every step keeps the order of places in the connection channel: a page's
\* fetch comes after the page (privateKolRequest_pipelining).
LEMMA OrderStep == TypeInv /\ OrderInv /\ [Next]_vars => OrderInv'
<1> SUFFICES ASSUME TypeInv, OrderInv, [Next]_vars PROVE OrderInv'
  OBVIOUS
<1> USE Ids DEF TypeInv, TypeOK, OrderInv, cacheVars, pageVars, fetchVars,
        threadVars, seqVars, historyVars
<1>1. ASSUME NEW p \in Page, IssueRef(p) PROVE OrderInv'
  BY <1>1 DEF IssueRef
<1>2. ASSUME NEW p \in Page, IssuePage(p) PROVE OrderInv'
  BY <1>2 DEF IssuePage
<1>3. ASSUME NEW p \in Page, IssueApi(p) PROVE OrderInv'
  BY <1>3 DEF IssueApi
<1>4. ASSUME NEW p \in Page, FollowRedirect(p) PROVE OrderInv'
  BY <1>4 DEF FollowRedirect
<1>5. ASSUME NEW f \in Reset, SyncFetch(f) PROVE OrderInv'
  BY <1>5 DEF SyncFetch
<1>6. ASSUME NEW p \in SeqPages, SubmitPage(p) PROVE OrderInv'
  BY <1>6 DEF SubmitPage
<1>7. ASSUME NEW s \in StorePages, StoreStatus(s) PROVE OrderInv'
  BY <1>7 DEF StoreStatus
<1>8. CASE UNCHANGED <<ticket, fetchTicket, step, tail>>
  BY <1>8
<1> QED
  BY <1>1, <1>2, <1>3, <1>4, <1>5, <1>6, <1>7, <1>8
  DEF Next, vars, MakeRef, HandleLogin, Script, Issue, Serve, Load, Answer,
      Process, Store, Rest,
      IssueRef, IssuePage, IssueApi, ServePage, ServeApi, LoadRaw, LoadValid,
      LoadPut, FinishPage, FollowRedirect, FinishRedirect, TakeRequest, CheckRaw,
      ReadRef, SyncFetch, SyncLoaded, ParseStatus, MakeRefDone, ResetRef,
      LoginRefused, ResetRaw, ResetValid, SubmitPage, AwaitPage, PageAwaited,
      ScriptRead, ScriptReadDone, SetState, FinishRequest, ProcessStart,
      ProcessRead, ProcessReadDone, ProcessDone, StoreWake, StoreStatus,
      StoreDone, ChatRead, ChatDone

-----------------------------------------------------------------------------
(* Where the reference points.                                               *)

\* No page has been sent at first.
LEMMA FreshInit == Init => FreshInv
BY Ids DEF Init, FreshInv, Issuing

\* Every step keeps the reference at the page being issued, and the fetch
\* behind the reference after every page sent, while issues do not overlap.
LEMMA FreshStep == TypeInv /\ OrderInv /\ FreshInv /\ [Next]_vars => FreshInv'
<1> SUFFICES ASSUME TypeInv, OrderInv, FreshInv, [Next]_vars PROVE FreshInv'
  OBVIOUS
<1> USE Ids DEF TypeInv, OrderInv, FreshInv, TypeOK, Issuing,
        cacheVars, pageVars, fetchVars, threadVars, seqVars, historyVars
<1>1. ASSUME NEW p \in Page, IssueRef(p) PROVE FreshInv'
  <2>1. overlap' = (overlap \/ \E q \in Page : Issuing(q))
    BY <1>1 DEF IssueRef
  <2>2. ASSUME ~overlap' PROVE ~overlap /\ \A q \in Page : ~Issuing(q)
    BY <2>1, <2>2, Zenon
  <2> QED
    BY <1>1, <2>2 DEF IssueRef
<1>2. ASSUME NEW p \in Page, IssuePage(p) PROVE FreshInv'
  BY <1>2 DEF IssuePage
<1>3. ASSUME NEW p \in Page, IssueApi(p) PROVE FreshInv'
  BY <1>3 DEF IssueApi
<1>4. ASSUME NEW p \in Page, FollowRedirect(p) PROVE FreshInv'
  BY <1>4 DEF FollowRedirect
<1>5. ASSUME NEW f \in Reset, SyncFetch(f) PROVE FreshInv'
  BY <1>5 DEF SyncFetch
<1>6. ASSUME ResetRef PROVE FreshInv'
  BY <1>6 DEF ResetRef
<1>7. ASSUME NEW p \in SeqPages, SubmitPage(p) PROVE FreshInv'
  BY <1>7 DEF SubmitPage
<1>8. ASSUME NEW s \in StorePages, StoreStatus(s) PROVE FreshInv'
  BY <1>8 DEF StoreStatus
<1>9. CASE UNCHANGED <<overlap, statusRef, step, ticket, fetchTicket>>
  BY <1>9
<1> QED
  BY <1>1, <1>2, <1>3, <1>4, <1>5, <1>6, <1>7, <1>8, <1>9
  DEF Next, vars, MakeRef, HandleLogin, Script, Issue, Serve, Load, Answer,
      Process, Store, Rest,
      IssueRef, IssuePage, IssueApi, ServePage, ServeApi, LoadRaw, LoadValid,
      LoadPut, FinishPage, FollowRedirect, FinishRedirect, TakeRequest, CheckRaw,
      ReadRef, SyncFetch, SyncLoaded, ParseStatus, MakeRefDone, ResetRef,
      LoginRefused, ResetRaw, ResetValid, SubmitPage, AwaitPage, PageAwaited,
      ScriptRead, ScriptReadDone, SetState, FinishRequest, ProcessStart,
      ProcessRead, ProcessReadDone, ProcessDone, StoreWake, StoreStatus,
      StoreDone, ChatRead, ChatDone

-----------------------------------------------------------------------------
(* Redirects.                                                               *)

\* No page has been answered at first.
LEMMA RedirectInit == Init => RedirectInv
BY Ids DEF Init, RedirectInv

\* Every step keeps what redirects hand on: the MVar of a later request.
LEMMA RedirectStep ==
    TypeInv /\ OrderInv /\ RedirectInv /\ [Next]_vars => RedirectInv'
<1> SUFFICES ASSUME TypeInv, OrderInv, RedirectInv, [Next]_vars
             PROVE  RedirectInv'
  OBVIOUS
<1> USE Ids DEF TypeInv, OrderInv, RedirectInv, TypeOK,
        cacheVars, pageVars, fetchVars, threadVars, seqVars, historyVars
<1>1. ASSUME NEW p \in Page, IssueRef(p) PROVE RedirectInv'
  BY <1>1 DEF IssueRef
<1>2. ASSUME NEW p \in Page, IssuePage(p) PROVE RedirectInv'
  BY <1>2 DEF IssuePage
<1>3. ASSUME NEW p \in Page, IssueApi(p) PROVE RedirectInv'
  BY <1>3 DEF IssueApi
<1>4. ASSUME NEW p \in Page, ServePage(p) PROVE RedirectInv'
  BY <1>4 DEF ServePage
<1>5. ASSUME NEW f \in MVar, ServeApi(f) PROVE RedirectInv'
  BY <1>5 DEF ServeApi
<1>6. ASSUME NEW p \in Page, FinishPage(p) PROVE RedirectInv'
  BY <1>6 DEF FinishPage
<1>7. ASSUME NEW p \in Page, FollowRedirect(p) PROVE RedirectInv'
  BY <1>7 DEF FollowRedirect
<1>8. ASSUME NEW p \in Page, FinishRedirect(p) PROVE RedirectInv'
  <2> DEFINE q == child[p]
  <2>1. q \in RedirectPages /\ fin[q] # "none" /\ step[p] = "out"
    BY <1>8 DEF FinishRedirect
  <2>2. /\ ticket[q] > ticket[p]
        /\ fetchTicket[last[q]] > ticket[q] /\ last[q] \in Page
    BY <2>1
  <2>3. fetchTicket[last[q]] > ticket[p]
    BY <2>1, <2>2
  <2>4. fin' = [fin EXCEPT ![p] = fin[q]] /\ last' = [last EXCEPT ![p] = last[q]]
    BY <1>8 DEF FinishRedirect
  <2>5. /\ UNCHANGED <<ans, child, step, ticket, fetchTicket, head>>
        /\ ans[p] = "redirect"
    BY <1>8 DEF FinishRedirect
  <2> QED
    BY <2>1, <2>2, <2>3, <2>4, <2>5
<1>9. ASSUME NEW f \in Reset, SyncFetch(f) PROVE RedirectInv'
  BY <1>9 DEF SyncFetch
<1>10. ASSUME NEW p \in SeqPages, SubmitPage(p) PROVE RedirectInv'
  BY <1>10 DEF SubmitPage
<1>11. ASSUME NEW s \in StorePages, StoreStatus(s) PROVE RedirectInv'
  BY <1>11 DEF StoreStatus
<1>12. CASE UNCHANGED <<ans, child, step, ticket, fetchTicket, fin, last, head>>
  BY <1>12
<1> HIDE DEF TypeInv, OrderInv, RedirectInv, TypeOK
<1> QED
  BY <1>1, <1>2, <1>3, <1>4, <1>5, <1>6, <1>7, <1>8, <1>9, <1>10, <1>11, <1>12
  DEF Next, vars, MakeRef, HandleLogin, Script, Issue, Serve, Load, Answer,
      Process, Store, Rest,
      IssueRef, IssuePage, IssueApi, ServePage, ServeApi, LoadRaw, LoadValid,
      LoadPut, FinishPage, FollowRedirect, FinishRedirect, TakeRequest, CheckRaw,
      ReadRef, SyncFetch, SyncLoaded, ParseStatus, MakeRefDone, ResetRef,
      LoginRefused, ResetRaw, ResetValid, SubmitPage, AwaitPage, PageAwaited,
      ScriptRead, ScriptReadDone, SetState, FinishRequest, ProcessStart,
      ProcessRead, ProcessReadDone, ProcessDone, StoreWake, StoreStatus,
      StoreDone, ChatRead, ChatDone

-----------------------------------------------------------------------------
(* Every MVar is filled by its own fetch, as long as no login is raced.      *)

\* Every MVar is empty at first, and the first one is due.
LEMMA RaceInit == Init => RaceInv
BY Ids DEF Init, RaceInv, FilledByOwner, SyncsOwn, FirstDue, LoginDue,
        Empty, Failed, Goto, BeginRead, EndRead

\* Every step keeps each MVar for its own fetch, as long as no login is raced.
LEMMA RaceStep == TypeInv /\ OrderInv /\ RaceInv /\ [Next]_vars => RaceInv'
<1> SUFFICES ASSUME TypeInv, OrderInv, RaceInv, [Next]_vars PROVE RaceInv'
  OBVIOUS
<1> USE Ids DEF TypeInv, OrderInv, RaceInv, TypeOK, FilledByOwner, SyncsOwn,
        FirstDue, LoginDue, Empty, Failed, Goto, BeginRead, EndRead,
        cacheVars, pageVars, fetchVars, threadVars, seqVars, historyVars
<1>1. ASSUME NEW p \in Page, IssueRef(p) PROVE RaceInv'
  <2>1. raced' = (raced \/ LoginRefWindow)
    BY <1>1 DEF IssueRef
  <2>2. ASSUME ~raced' PROVE ~raced /\ ~LoginRefWindow
    BY <2>1, <2>2, Zenon
  <2> QED
    BY <1>1, <2>2 DEF IssueRef, LoginRefWindow
<1>2. ASSUME NEW p \in Page, IssueApi(p) PROVE RaceInv'
  <2> SUFFICES ASSUME ~raced' PROVE FilledByOwner' /\ SyncsOwn' /\ FirstDue' /\ LoginDue'
    OBVIOUS
  <2>1. FilledByOwner'
    BY <1>2 DEF IssueApi
  <2>2. SyncsOwn'
    BY <1>2 DEF IssueApi
  <2>3. FirstDue'
    BY <1>2 DEF IssueApi
  <2>4. LoginDue'
    BY <1>2 DEF IssueApi
  <2> QED
    BY <2>1, <2>2, <2>3, <2>4
<1>3. ASSUME NEW f \in MVar, ServeApi(f) PROVE RaceInv'
  BY <1>3 DEF ServeApi
<1>4. ASSUME NEW f \in MVar, LoadRaw(f) PROVE RaceInv'
  <2>1. raced' = (raced \/ LoginRawWindow)
    BY <1>4 DEF LoadRaw
  <2>2. ASSUME ~raced' PROVE ~raced /\ ~LoginRawWindow
    BY <2>1, <2>2, Zenon
  <2> QED
    BY <1>4, <2>2 DEF LoadRaw, LoginRawWindow
<1>5. ASSUME NEW f \in MVar, LoadValid(f) PROVE RaceInv'
  BY <1>5 DEF LoadValid
<1>6. ASSUME NEW f \in MVar, LoadPut(f) PROVE RaceInv'
  <2> SUFFICES ASSUME ~raced' PROVE FilledByOwner' /\ SyncsOwn' /\ FirstDue' /\ LoginDue'
    OBVIOUS
  <2>1. FilledByOwner'
    <3>1. Target(f) = f /\ load[f] = "put"
      BY <1>6 DEF LoadPut, Target, MVar
    <3> QED
      BY <1>6, <3>1 DEF LoadPut, Result
  <2>2. SyncsOwn'
    BY <1>6 DEF LoadPut, Target, Result
  <2>3. FirstDue'
    BY <1>6 DEF LoadPut, Target, Result
  <2>4. LoginDue'
    BY <1>6 DEF LoadPut, Target, Result
  <2> QED
    BY <2>1, <2>2, <2>3, <2>4
<1>7. ASSUME NEW p \in Page, FollowRedirect(p) PROVE RaceInv'
  BY <1>7 DEF FollowRedirect
<1>8. ASSUME NEW l \in Logins \cup {None}, TakeRequest(l) PROVE RaceInv'
  BY <1>8 DEF TakeRequest
<1>9. ASSUME CheckRaw PROVE RaceInv'
  BY <1>9 DEF CheckRaw
<1>10. ASSUME NEW f \in Reset, ReadRef(f) PROVE RaceInv'
  <2> SUFFICES ASSUME ~raced' PROVE FilledByOwner' /\ SyncsOwn' /\ FirstDue' /\ LoginDue'
    OBVIOUS
  <2>1. FilledByOwner'
    BY <1>10 DEF ReadRef
  <2>2. SyncsOwn'
    BY <1>10 DEF ReadRef, Reset
  <2>3. FirstDue'
    BY <1>10 DEF ReadRef
  <2>4. LoginDue'
    BY <1>10 DEF ReadRef
  <2> QED
    BY <2>1, <2>2, <2>3, <2>4
<1>11. ASSUME NEW f \in Reset, SyncFetch(f) PROVE RaceInv'
  <2> SUFFICES ASSUME ~raced' PROVE FilledByOwner' /\ SyncsOwn' /\ FirstDue' /\ LoginDue'
    OBVIOUS
  <2>1. FilledByOwner'
    BY <1>11 DEF SyncFetch
  <2>2. SyncsOwn'
    BY <1>11 DEF SyncFetch
  <2>3. FirstDue'
    BY <1>11 DEF SyncFetch
  <2>4. LoginDue'
    BY <1>11 DEF SyncFetch, Reset
  <2> QED
    BY <2>1, <2>2, <2>3, <2>4
<1>12. ASSUME SyncLoaded PROVE RaceInv'
  BY <1>12 DEF SyncLoaded
<1>13. ASSUME MakeRefDone PROVE RaceInv'
  BY <1>13 DEF MakeRefDone
<1>14. ASSUME ResetRef PROVE RaceInv'
  BY <1>14 DEF ResetRef
<1>15. ASSUME ResetRaw PROVE RaceInv'
  BY <1>15 DEF ResetRaw
<1>16. ASSUME ResetValid PROVE RaceInv'
  BY <1>16 DEF ResetValid
<1>17. ASSUME NEW p \in SeqPages, SubmitPage(p) PROVE RaceInv'
  BY <1>17 DEF SubmitPage
<1>18. ASSUME NEW s \in StorePages, SetState(s) PROVE RaceInv'
  BY <1>18 DEF SetState
<1>19. ASSUME NEW s \in StorePages, StoreWake(s) PROVE RaceInv'
  BY <1>19 DEF StoreWake
<1>20. ASSUME NEW s \in StorePages, StoreStatus(s) PROVE RaceInv'
  BY <1>20 DEF StoreStatus
<1>21. ASSUME NEW s \in StorePages, StoreDone(s) PROVE RaceInv'
  BY <1>21 DEF StoreDone
<1>22. ASSUME ParseStatus PROVE RaceInv'
  BY <1>22 DEF ParseStatus
<1>23. ASSUME LoginRefused PROVE RaceInv'
  BY <1>23 DEF LoginRefused
<1>24. ASSUME NEW p \in SeqPages, AwaitPage(p) PROVE RaceInv'
  BY <1>24 DEF AwaitPage
<1>25. ASSUME PageAwaited PROVE RaceInv'
  BY <1>25 DEF PageAwaited
<1>26. ASSUME ScriptRead PROVE RaceInv'
  BY <1>26 DEF ScriptRead
<1>27. ASSUME ScriptReadDone PROVE RaceInv'
  BY <1>27 DEF ScriptReadDone
<1>28. ASSUME FinishRequest PROVE RaceInv'
  BY <1>28 DEF FinishRequest
<1>29. ASSUME NEW p \in SeqPages, ProcessStart(p) PROVE RaceInv'
  BY <1>29 DEF ProcessStart
<1>30. ASSUME NEW p \in SeqPages, ProcessRead(p) PROVE RaceInv'
  BY <1>30 DEF ProcessRead
<1>31. ASSUME NEW p \in SeqPages, ProcessReadDone(p) PROVE RaceInv'
  BY <1>31 DEF ProcessReadDone
<1>32. ASSUME NEW p \in SeqPages, ProcessDone(p) PROVE RaceInv'
  BY <1>32 DEF ProcessDone
<1>33. ASSUME NEW c \in Chats, ChatRead(c) PROVE RaceInv'
  BY <1>33 DEF ChatRead
<1>34. ASSUME NEW c \in Chats, ChatDone(c) PROVE RaceInv'
  BY <1>34 DEF ChatDone
<1>35. ASSUME NEW p \in Page, IssuePage(p) PROVE RaceInv'
  BY <1>35 DEF IssuePage
<1>36. CASE UNCHANGED <<mv, load, fetchTicket, syncMv, latestRaw, statusRef,
                       raced, login, step, pc>>
  BY <1>36
<1> HIDE DEF TypeInv, OrderInv, RaceInv, TypeOK
<1>37. CASE \E p \in Page : Issue(p) \/ Answer(p)
  <2>1. ASSUME NEW p \in Page, FinishPage(p) PROVE RaceInv'
    BY <2>1, <1>36 DEF FinishPage
  <2>2. ASSUME NEW p \in Page, FinishRedirect(p) PROVE RaceInv'
    BY <2>2, <1>36 DEF FinishRedirect
  <2> QED
    BY <1>37, <1>1, <1>2, <1>7, <1>35, <2>1, <2>2 DEF Issue, Answer
<1>38. CASE Serve \/ \E f \in MVar : Load(f)
  BY <1>38, <1>3, <1>4, <1>5, <1>6, <1>36 DEF Serve, ServePage, Load
<1>39. CASE MakeRef \/ HandleLogin \/ \E l \in Logins \cup {None} : TakeRequest(l)
  BY <1>39, <1>8, <1>9, <1>10, <1>11, <1>12, <1>13, <1>14, <1>15, <1>16,
     <1>22, <1>23
  DEF MakeRef, HandleLogin
<1>40. CASE Script \/ PageAwaited \/ ScriptReadDone \/ FinishRequest
  BY <1>40, <1>17, <1>18, <1>24, <1>25, <1>26, <1>27, <1>28 DEF Script
<1>41. CASE \/ \E p \in SeqPages : Process(p)
            \/ \E s \in StorePages : Store(s)
            \/ \E c \in Chats : ChatRead(c) \/ ChatDone(c)
  BY <1>41, <1>19, <1>20, <1>21, <1>29, <1>30, <1>31, <1>32, <1>33, <1>34
  DEF Process, Store
<1> QED
  BY <1>36, <1>37, <1>38, <1>39, <1>40, <1>41 DEF Next, Rest, vars

-----------------------------------------------------------------------------
(* What readers of the status find.                                         *)

\* The MVar has been given to readers: its page has been issued, or the login that
\* created it has reset the cache.
Used(m) ==
    /\ m \in Page => step[m] \in {"ref", "page", "out"}
    /\ m \in Reset => load[m] # "none"

\* Readers block on MVars that have been given to readers, and only where the
\* code blocks.
UsedInv ==
    /\ Used(statusRef)
    /\ \A t \in Thread : reading[t] # None => Used(reading[t])
    /\ reading[Seq] # None => pc[Seq] \in {"status", "read"}
    /\ \A p \in SeqPages : reading[p] # None <=> pc[p] = "read"
    /\ \A p \in SeqPages : pc[p] \in {"process", "read"} => fin[p] # "none"
    /\ \A s \in StorePages : reading[s] # None => pc[s] = "status"

\* make_ref has chosen the MVar and not yet asked for the status.
PendingSync(f) == syncMv[f] # None /\ fetchTicket[f] = 0

SyncInv ==
    \A f \in Reset : PendingSync(f) =>
        /\ pc[Seq] = "fetch"
        /\ \A g \in Reset : PendingSync(g) => g = f

\* The status of f was asked for before page p was sent.
Earlier(f, p) == fetchTicket[f] > 0 /\ (ticket[p] > 0 => fetchTicket[f] < ticket[p])

\* Whatever fills the MVar of the status before a page was asked for before it.
BeforeInv ==
    /\ \A p \in SeqPages : step[p] # "unused" => before[p] \in MVar /\ Used(before[p])
    /\ \A p \in SeqPages : step[p] \in {"ref", "page", "out"} =>
        /\ before[p] # statusRef
        /\ ~overlap =>
            /\ before[p] \in Page => step[before[p]] = "out" /\ Earlier(before[p], p)
            /\ \A f \in Reset : syncMv[f] = before[p] => Earlier(f, p)

\* A status in an MVar was put there by a fetch that had it for its target, raced
\* or not.
FilledByInv ==
    \A m \in MVar : mv[m] # Empty /\ mv[m] # Failed =>
        \E f \in MVar : Target(f) = m /\ load[f] = "done" /\ fetchTicket[f] = mv[m]

\* The fetch that a page's script reads comes after the page and its redirect.
SeenInv ==
    ~overlap => \A p \in SeqPages : pc[p] = "read" =>
        \A q \in Trail(p) :
            fetchTicket[reading[p]] = 0 \/ fetchTicket[reading[p]] > ticket[q]

\* An MVar that has been given to readers is full, or its fetch is under way.
LoadInv ==
    /\ \A p \in Page : step[p] = "out" => load[p] \notin {"none", "due"}
    /\ ~raced => \A f \in MVar :
        /\ load[f] = "done" => mv[f] # Empty
        /\ load[f] = "due" /\ pc[Seq] = "fetch" => syncMv[f] = f
        /\ load[f] = "due" /\ pc[Seq] = "idle" => requests = 0

\* latestValidJson_ is written before the MVar.
DbInv ==
    /\ \A f \in MVar : load[f] \in {"put", "done"} => fetchAns[f] # "none"
    /\ (\A l \in Logins : load[l] = "none") =>
        /\ pc[Seq] \notin {"resetRaw", "resetValid"}
        /\ \A f \in MVar :
              load[f] \in {"put", "done"} /\ fetchAns[f] = "ok" => latestValid # Empty
        /\ \A m \in MVar : Valid(mv[m]) => latestValid # Empty

\* Nothing has been read at first.
LEMMA ReadersInit ==
    Init => UsedInv /\ SyncInv /\ BeforeInv /\ FilledByInv /\ SeenInv /\ LoadInv /\ DbInv
<1> SUFFICES ASSUME Init
             PROVE  /\ UsedInv /\ SyncInv /\ BeforeInv /\ FilledByInv
                    /\ SeenInv /\ LoadInv /\ DbInv
  OBVIOUS
<1> USE Ids DEF Init
<1>1. UsedInv
  BY DEF UsedInv, Used, Reset
<1>2. SyncInv /\ BeforeInv /\ FilledByInv
  BY DEF SyncInv, PendingSync, BeforeInv, FilledByInv
<1>3. SeenInv /\ LoadInv /\ DbInv
  BY DEF SeenInv, LoadInv, DbInv, Valid, Empty, Reset
<1> QED
  BY <1>1, <1>2, <1>3

\* Every step lets readers take such an MVar only (statusfunc).
LEMMA UsedStep == TypeInv /\ RedirectInv /\ UsedInv /\ [Next]_vars => UsedInv'
<1> SUFFICES ASSUME TypeInv, RedirectInv, UsedInv, [Next]_vars PROVE UsedInv'
  OBVIOUS
<1> USE Ids DEF TypeInv, TypeOK, UsedInv, Used, Goto, BeginRead, EndRead,
        cacheVars, pageVars, fetchVars, threadVars, seqVars, historyVars
<1>1. ASSUME NEW p \in Page, IssueRef(p) PROVE UsedInv'
  BY <1>1 DEF IssueRef
<1>2. ASSUME NEW p \in Page, IssuePage(p) PROVE UsedInv'
  BY <1>2 DEF IssuePage
<1>3. ASSUME NEW p \in Page, IssueApi(p) PROVE UsedInv'
  BY <1>3 DEF IssueApi, RedirectInv
<1>4. ASSUME NEW f \in MVar, LoadRaw(f) PROVE UsedInv'
  BY <1>4 DEF LoadRaw
<1>5. ASSUME NEW f \in MVar, LoadValid(f) PROVE UsedInv'
  BY <1>5 DEF LoadValid
<1>6. ASSUME NEW f \in MVar, LoadPut(f) PROVE UsedInv'
  BY <1>6 DEF LoadPut
<1>7. ASSUME NEW p \in Page, FinishPage(p) PROVE UsedInv'
  BY <1>7 DEF FinishPage
<1>8. ASSUME NEW p \in Page, FollowRedirect(p) PROVE UsedInv'
  BY <1>8 DEF FollowRedirect
<1>9. ASSUME NEW p \in Page, FinishRedirect(p) PROVE UsedInv'
  BY <1>9 DEF FinishRedirect
<1>10. ASSUME NEW l \in Logins \cup {None}, TakeRequest(l) PROVE UsedInv'
  BY <1>10 DEF TakeRequest
<1>11. ASSUME CheckRaw PROVE UsedInv'
  BY <1>11 DEF CheckRaw
<1>12. ASSUME NEW f \in Reset, ReadRef(f) PROVE UsedInv'
  BY <1>12 DEF ReadRef
<1>13. ASSUME NEW f \in Reset, SyncFetch(f) PROVE UsedInv'
  BY <1>13 DEF SyncFetch
<1>14. ASSUME SyncLoaded PROVE UsedInv'
  BY <1>14 DEF SyncLoaded
<1>15. ASSUME ParseStatus PROVE UsedInv'
  BY <1>15 DEF ParseStatus
<1>16. ASSUME MakeRefDone PROVE UsedInv'
  BY <1>16 DEF MakeRefDone
<1>17. ASSUME ResetRef PROVE UsedInv'
  BY <1>17 DEF ResetRef
<1>18. ASSUME LoginRefused PROVE UsedInv'
  BY <1>18 DEF LoginRefused
<1>19. ASSUME ResetRaw PROVE UsedInv'
  BY <1>19 DEF ResetRaw
<1>20. ASSUME ResetValid PROVE UsedInv'
  BY <1>20 DEF ResetValid
<1>21. ASSUME NEW p \in SeqPages, SubmitPage(p) PROVE UsedInv'
  BY <1>21 DEF SubmitPage
<1>22. ASSUME NEW p \in SeqPages, AwaitPage(p) PROVE UsedInv'
  BY <1>22 DEF AwaitPage
<1>23. ASSUME PageAwaited PROVE UsedInv'
  BY <1>23 DEF PageAwaited
<1>24. ASSUME ScriptRead PROVE UsedInv'
  BY <1>24 DEF ScriptRead
<1>25. ASSUME ScriptReadDone PROVE UsedInv'
  BY <1>25 DEF ScriptReadDone
<1>26. ASSUME NEW s \in StorePages, SetState(s) PROVE UsedInv'
  BY <1>26 DEF SetState
<1>27. ASSUME FinishRequest PROVE UsedInv'
  BY <1>27 DEF FinishRequest
<1>28. ASSUME NEW p \in SeqPages, ProcessStart(p) PROVE UsedInv'
  BY <1>28 DEF ProcessStart
<1>29. ASSUME NEW p \in SeqPages, ProcessRead(p) PROVE UsedInv'
  BY <1>29 DEF ProcessRead
<1>30. ASSUME NEW p \in SeqPages, ProcessReadDone(p) PROVE UsedInv'
  BY <1>30 DEF ProcessReadDone
<1>31. ASSUME NEW p \in SeqPages, ProcessDone(p) PROVE UsedInv'
  BY <1>31 DEF ProcessDone
<1>32. ASSUME NEW s \in StorePages, StoreWake(s) PROVE UsedInv'
  BY <1>32 DEF StoreWake
<1>33. ASSUME NEW s \in StorePages, StoreStatus(s) PROVE UsedInv'
  BY <1>33 DEF StoreStatus
<1>34. ASSUME NEW s \in StorePages, StoreDone(s) PROVE UsedInv'
  BY <1>34 DEF StoreDone
<1>35. ASSUME NEW c \in Chats, ChatRead(c) PROVE UsedInv'
  BY <1>35 DEF ChatRead
<1>36. ASSUME NEW c \in Chats, ChatDone(c) PROVE UsedInv'
  BY <1>36 DEF ChatDone
<1>37. CASE UNCHANGED <<statusRef, reading, step, load, pc, fin>>
  BY <1>37
<1> HIDE DEF TypeInv, TypeOK, UsedInv, Used, Goto, BeginRead, EndRead
<1> QED
  BY <1>1, <1>2, <1>3, <1>4, <1>5, <1>6, <1>7, <1>8, <1>9, <1>10, <1>11,
      <1>12, <1>13, <1>14, <1>15, <1>16, <1>17, <1>18, <1>19, <1>20, <1>21,
      <1>22, <1>23, <1>24, <1>25, <1>26, <1>27, <1>28, <1>29, <1>30, <1>31,
      <1>32, <1>33, <1>34, <1>35, <1>36, <1>37
  DEF Next, vars, MakeRef, HandleLogin, Script, Issue, Serve, Load, Answer,
      Process, Store, Rest,
      ServePage, ServeApi

\* Every step keeps make_ref's choice and its request together.
LEMMA SyncStep == TypeInv /\ SyncInv /\ [Next]_vars => SyncInv'
<1> SUFFICES ASSUME TypeInv, SyncInv, [Next]_vars PROVE SyncInv'
  OBVIOUS
<1> USE Ids DEF TypeInv, TypeOK, SyncInv, PendingSync, Goto, BeginRead,
        EndRead, cacheVars, pageVars, fetchVars, threadVars, seqVars,
        historyVars
<1>1. ASSUME NEW p \in Page, IssueApi(p) PROVE SyncInv'
  BY <1>1 DEF IssueApi
<1>2. ASSUME NEW l \in Logins \cup {None}, TakeRequest(l) PROVE SyncInv'
  BY <1>2 DEF TakeRequest
<1>3. ASSUME CheckRaw PROVE SyncInv'
  BY <1>3 DEF CheckRaw
<1>4. ASSUME NEW f \in Reset, ReadRef(f) PROVE SyncInv'
  BY <1>4 DEF ReadRef
<1>5. ASSUME NEW f \in Reset, SyncFetch(f) PROVE SyncInv'
  BY <1>5 DEF SyncFetch
<1>6. ASSUME SyncLoaded PROVE SyncInv'
  BY <1>6 DEF SyncLoaded
<1>7. ASSUME ParseStatus PROVE SyncInv'
  BY <1>7 DEF ParseStatus
<1>8. ASSUME MakeRefDone PROVE SyncInv'
  BY <1>8 DEF MakeRefDone
<1>9. ASSUME ResetRef PROVE SyncInv'
  BY <1>9 DEF ResetRef
<1>10. ASSUME LoginRefused PROVE SyncInv'
  BY <1>10 DEF LoginRefused
<1>11. ASSUME ResetRaw PROVE SyncInv'
  BY <1>11 DEF ResetRaw
<1>12. ASSUME ResetValid PROVE SyncInv'
  BY <1>12 DEF ResetValid
<1>13. ASSUME NEW p \in SeqPages, SubmitPage(p) PROVE SyncInv'
  BY <1>13 DEF SubmitPage
<1>14. ASSUME NEW p \in SeqPages, AwaitPage(p) PROVE SyncInv'
  BY <1>14 DEF AwaitPage
<1>15. ASSUME PageAwaited PROVE SyncInv'
  BY <1>15 DEF PageAwaited
<1>16. ASSUME ScriptRead PROVE SyncInv'
  BY <1>16 DEF ScriptRead
<1>17. ASSUME ScriptReadDone PROVE SyncInv'
  BY <1>17 DEF ScriptReadDone
<1>18. ASSUME NEW s \in StorePages, SetState(s) PROVE SyncInv'
  BY <1>18 DEF SetState
<1>19. ASSUME FinishRequest PROVE SyncInv'
  BY <1>19 DEF FinishRequest
<1>20. ASSUME NEW p \in SeqPages, ProcessStart(p) PROVE SyncInv'
  BY <1>20 DEF ProcessStart
<1>21. ASSUME NEW p \in SeqPages, ProcessRead(p) PROVE SyncInv'
  BY <1>21 DEF ProcessRead
<1>22. ASSUME NEW p \in SeqPages, ProcessReadDone(p) PROVE SyncInv'
  BY <1>22 DEF ProcessReadDone
<1>23. ASSUME NEW p \in SeqPages, ProcessDone(p) PROVE SyncInv'
  BY <1>23 DEF ProcessDone
<1>24. ASSUME NEW s \in StorePages, StoreWake(s) PROVE SyncInv'
  BY <1>24 DEF StoreWake
<1>25. ASSUME NEW s \in StorePages, StoreStatus(s) PROVE SyncInv'
  BY <1>25 DEF StoreStatus
<1>26. ASSUME NEW s \in StorePages, StoreDone(s) PROVE SyncInv'
  BY <1>26 DEF StoreDone
<1>27. ASSUME NEW c \in Chats, ChatRead(c) PROVE SyncInv'
  BY <1>27 DEF ChatRead
<1>28. ASSUME NEW c \in Chats, ChatDone(c) PROVE SyncInv'
  BY <1>28 DEF ChatDone
<1>29. CASE UNCHANGED <<syncMv, fetchTicket, pc>>
  BY <1>29
<1> HIDE DEF TypeInv, TypeOK, SyncInv, PendingSync, Goto, BeginRead, EndRead
<1> QED
  BY <1>1, <1>2, <1>3, <1>4, <1>5, <1>6, <1>7, <1>8, <1>9, <1>10, <1>11,
      <1>12, <1>13, <1>14, <1>15, <1>16, <1>17, <1>18, <1>19, <1>20, <1>21,
      <1>22, <1>23, <1>24, <1>25, <1>26, <1>27, <1>28, <1>29
  DEF Next, vars, MakeRef, HandleLogin, Script, Issue, Serve, Load, Answer,
      Process, Store, Rest,
      IssueRef, IssuePage, ServePage, ServeApi, LoadRaw, LoadValid, LoadPut,
      FinishPage, FollowRedirect, FinishRedirect

\* Every step keeps what fills the MVar of the status before ahead of the page
\* (doProcessPage).
LEMMA BeforeStep ==
    TypeInv /\ OrderInv /\ UsedInv /\ SyncInv /\ BeforeInv /\ [Next]_vars =>
        BeforeInv'
<1> SUFFICES ASSUME TypeInv, OrderInv, UsedInv, SyncInv, BeforeInv, [Next]_vars
             PROVE  BeforeInv'
  OBVIOUS
<1> USE Ids DEF TypeInv, TypeOK, OrderInv, UsedInv, SyncInv, BeforeInv, Used,
        Earlier, PendingSync, Goto, BeginRead, EndRead, cacheVars, pageVars,
        fetchVars, threadVars, seqVars, historyVars
<1>1. ASSUME NEW p \in Page, IssueRef(p) PROVE BeforeInv'
  <2>1. overlap' = (overlap \/ \E q \in Page : Issuing(q))
    BY <1>1 DEF IssueRef
  <2>2. ASSUME ~overlap' PROVE ~overlap /\ \A q \in Page : ~Issuing(q)
    BY <2>1, <2>2, Zenon
  <2> QED
    BY <1>1, <2>2 DEF IssueRef, Issuing
<1>2. ASSUME NEW p \in Page, IssuePage(p) PROVE BeforeInv'
  BY <1>2 DEF IssuePage
<1>3. ASSUME NEW p \in Page, IssueApi(p) PROVE BeforeInv'
  BY <1>3 DEF IssueApi
<1>4. ASSUME NEW f \in MVar, LoadRaw(f) PROVE BeforeInv'
  BY <1>4 DEF LoadRaw
<1>5. ASSUME NEW f \in MVar, LoadValid(f) PROVE BeforeInv'
  BY <1>5 DEF LoadValid
<1>6. ASSUME NEW f \in MVar, LoadPut(f) PROVE BeforeInv'
  BY <1>6 DEF LoadPut
<1>7. ASSUME NEW p \in Page, FollowRedirect(p) PROVE BeforeInv'
  BY <1>7 DEF FollowRedirect
<1>8. ASSUME NEW f \in Reset, ReadRef(f) PROVE BeforeInv'
  BY <1>8 DEF ReadRef
<1>9. ASSUME NEW f \in Reset, SyncFetch(f) PROVE BeforeInv'
  BY <1>9 DEF SyncFetch
<1>10. ASSUME ResetRef PROVE BeforeInv'
  BY <1>10 DEF ResetRef
<1>11. ASSUME NEW p \in SeqPages, SubmitPage(p) PROVE BeforeInv'
  BY <1>11 DEF SubmitPage
<1>12. ASSUME NEW s \in StorePages, StoreStatus(s) PROVE BeforeInv'
  BY <1>12 DEF StoreStatus
<1>13. CASE UNCHANGED <<before, step, statusRef, overlap, fetchTicket, ticket,
                        syncMv, load>>
  BY <1>13
<1> HIDE DEF TypeInv, TypeOK, OrderInv, UsedInv, SyncInv, BeforeInv, Used,
        Earlier, PendingSync, Goto, BeginRead, EndRead
<1> QED
  BY <1>1, <1>2, <1>3, <1>4, <1>5, <1>6, <1>7, <1>8, <1>9, <1>10, <1>11,
      <1>12, <1>13
  DEF Next, vars, MakeRef, HandleLogin, Script, Issue, Serve, Load, Answer,
      Process, Store, Rest,
      ServePage, ServeApi, FinishPage, FinishRedirect, TakeRequest, CheckRaw,
      SyncLoaded, ParseStatus, MakeRefDone, LoginRefused, ResetRaw,
      ResetValid, AwaitPage, PageAwaited, ScriptRead, ScriptReadDone,
      SetState, FinishRequest, ProcessStart, ProcessRead, ProcessReadDone,
      ProcessDone, StoreWake, StoreDone, ChatRead, ChatDone

\* Every step keeps the status in an MVar that of a finished fetch
\* (load_api_status_to_mv).
LEMMA FilledByStep == TypeInv /\ FilledByInv /\ [Next]_vars => FilledByInv'
<1> SUFFICES ASSUME TypeInv, FilledByInv, [Next]_vars PROVE FilledByInv'
  OBVIOUS
<1> USE Ids DEF TypeInv, TypeOK, FilledByInv, Target, Empty, Failed,
        cacheVars, pageVars, fetchVars, threadVars, seqVars, historyVars
<1>1. ASSUME NEW p \in Page, IssueApi(p) PROVE FilledByInv'
  BY <1>1 DEF IssueApi
<1>2. ASSUME NEW f \in MVar, LoadRaw(f) PROVE FilledByInv'
  BY <1>2 DEF LoadRaw
<1>3. ASSUME NEW f \in MVar, LoadValid(f) PROVE FilledByInv'
  BY <1>3 DEF LoadValid
<1>4. ASSUME NEW f \in MVar, LoadPut(f) PROVE FilledByInv'
  <2>1. /\ mv' = [mv EXCEPT ![Target(f)] = Result(f)]
        /\ load' = [load EXCEPT ![f] = "done"]
        /\ UNCHANGED <<fetchTicket, syncMv>>
    BY <1>4 DEF LoadPut
  <2>2. \A g \in MVar : Target(g)' = Target(g)
    BY <2>1 DEF Target
  <2>3. Result(f) \in {fetchTicket[f], Failed}
    BY DEF Result
  <2> SUFFICES ASSUME NEW m \in MVar, mv'[m] # Empty, mv'[m] # Failed
               PROVE  \E g \in MVar : /\ Target(g)' = m /\ load'[g] = "done"
                                       /\ fetchTicket'[g] = mv'[m]
    OBVIOUS
  <2>4. CASE m = Target(f)
    BY <2>1, <2>2, <2>3, <2>4
  <2>5. CASE m # Target(f)
    BY <2>1, <2>2, <2>5
  <2> QED
    BY <2>4, <2>5
<1>5. ASSUME NEW f \in Reset, ReadRef(f) PROVE FilledByInv'
  BY <1>5 DEF ReadRef
<1>6. ASSUME NEW f \in Reset, SyncFetch(f) PROVE FilledByInv'
  BY <1>6 DEF SyncFetch
<1>7. ASSUME ResetRef PROVE FilledByInv'
  BY <1>7 DEF ResetRef
<1>8. CASE UNCHANGED <<mv, fetchTicket, load, syncMv>>
  BY <1>8
<1> HIDE DEF TypeInv, TypeOK, FilledByInv, Target, Empty, Failed
<1> QED
  BY <1>1, <1>2, <1>3, <1>4, <1>5, <1>6, <1>7, <1>8
  DEF Next, vars, MakeRef, HandleLogin, Script, Issue, Serve, Load, Answer,
      Process, Store, Rest,
      IssueRef, IssuePage, ServePage, ServeApi, FinishPage, FollowRedirect,
      FinishRedirect, TakeRequest, CheckRaw, SyncLoaded, ParseStatus,
      MakeRefDone, LoginRefused, ResetRaw, ResetValid, SubmitPage, AwaitPage,
      PageAwaited, ScriptRead, ScriptReadDone, SetState, FinishRequest,
      ProcessStart, ProcessRead, ProcessReadDone, ProcessDone, StoreWake,
      StoreStatus, StoreDone, ChatRead, ChatDone

\* Every step keeps what a page's script reads behind the page (statusfunc,
\* process-page.lua).
LEMMA SeenStep ==
    TypeInv /\ OrderInv /\ FreshInv /\ RedirectInv /\ UsedInv /\ SeenInv /\ [Next]_vars =>
        SeenInv'
<1> SUFFICES ASSUME TypeInv, OrderInv, FreshInv, RedirectInv, UsedInv, SeenInv, [Next]_vars
             PROVE  SeenInv'
  OBVIOUS
<1> USE Ids DEF TypeInv, TypeOK, OrderInv, FreshInv, RedirectInv, UsedInv,
        SeenInv, Trail, Goto, BeginRead, EndRead, cacheVars, pageVars,
        fetchVars, threadVars, seqVars, historyVars
<1>1. ASSUME NEW p \in Page, IssueRef(p) PROVE SeenInv'
  <2>1. overlap' = (overlap \/ \E q \in Page : Issuing(q))
    BY <1>1 DEF IssueRef
  <2>2. ASSUME ~overlap' PROVE ~overlap /\ \A q \in Page : ~Issuing(q)
    BY <2>1, <2>2, Zenon
  <2> QED
    BY <1>1, <2>2 DEF IssueRef
<1>2. ASSUME NEW p \in Page, IssuePage(p) PROVE SeenInv'
  BY <1>2 DEF IssuePage
<1>3. ASSUME NEW p \in Page, IssueApi(p) PROVE SeenInv'
  BY <1>3 DEF IssueApi
<1>4. ASSUME NEW p \in Page, ServePage(p) PROVE SeenInv'
  BY <1>4 DEF ServePage
<1>5. ASSUME NEW l \in Logins \cup {None}, TakeRequest(l) PROVE SeenInv'
  BY <1>5 DEF TakeRequest
<1>6. ASSUME CheckRaw PROVE SeenInv'
  BY <1>6 DEF CheckRaw
<1>7. ASSUME NEW f \in Reset, ReadRef(f) PROVE SeenInv'
  BY <1>7 DEF ReadRef
<1>8. ASSUME NEW f \in Reset, SyncFetch(f) PROVE SeenInv'
  BY <1>8 DEF SyncFetch
<1>9. ASSUME SyncLoaded PROVE SeenInv'
  BY <1>9 DEF SyncLoaded
<1>10. ASSUME ParseStatus PROVE SeenInv'
  BY <1>10 DEF ParseStatus
<1>11. ASSUME MakeRefDone PROVE SeenInv'
  BY <1>11 DEF MakeRefDone
<1>12. ASSUME ResetRef PROVE SeenInv'
  <2>1. overlap' = (overlap \/ \E q \in Page : Issuing(q))
    BY <1>12 DEF ResetRef
  <2>2. ASSUME ~overlap' PROVE ~overlap /\ \A q \in Page : ~Issuing(q)
    BY <2>1, <2>2, Zenon
  <2> QED
    BY <1>12, <2>2 DEF ResetRef
<1>13. ASSUME LoginRefused PROVE SeenInv'
  BY <1>13 DEF LoginRefused
<1>14. ASSUME ResetRaw PROVE SeenInv'
  BY <1>14 DEF ResetRaw
<1>15. ASSUME ResetValid PROVE SeenInv'
  BY <1>15 DEF ResetValid
<1>16. ASSUME NEW p \in SeqPages, SubmitPage(p) PROVE SeenInv'
  BY <1>16 DEF SubmitPage
<1>17. ASSUME NEW p \in SeqPages, AwaitPage(p) PROVE SeenInv'
  BY <1>17 DEF AwaitPage
<1>18. ASSUME PageAwaited PROVE SeenInv'
  BY <1>18 DEF PageAwaited
<1>19. ASSUME ScriptRead PROVE SeenInv'
  BY <1>19 DEF ScriptRead
<1>20. ASSUME ScriptReadDone PROVE SeenInv'
  BY <1>20 DEF ScriptReadDone
<1>21. ASSUME NEW s \in StorePages, SetState(s) PROVE SeenInv'
  BY <1>21 DEF SetState
<1>22. ASSUME FinishRequest PROVE SeenInv'
  BY <1>22 DEF FinishRequest
<1>23. ASSUME NEW p \in SeqPages, ProcessStart(p) PROVE SeenInv'
  BY <1>23 DEF ProcessStart
<1>24. ASSUME NEW p \in SeqPages, ProcessRead(p) PROVE SeenInv'
  BY <1>24 DEF ProcessRead
<1>25. ASSUME NEW p \in SeqPages, ProcessReadDone(p) PROVE SeenInv'
  BY <1>25 DEF ProcessReadDone
<1>26. ASSUME NEW p \in SeqPages, ProcessDone(p) PROVE SeenInv'
  BY <1>26 DEF ProcessDone
<1>27. ASSUME NEW s \in StorePages, StoreWake(s) PROVE SeenInv'
  BY <1>27 DEF StoreWake
<1>28. ASSUME NEW s \in StorePages, StoreStatus(s) PROVE SeenInv'
  BY <1>28 DEF StoreStatus
<1>29. ASSUME NEW s \in StorePages, StoreDone(s) PROVE SeenInv'
  BY <1>29 DEF StoreDone
<1>30. ASSUME NEW c \in Chats, ChatRead(c) PROVE SeenInv'
  BY <1>30 DEF ChatRead
<1>31. ASSUME NEW c \in Chats, ChatDone(c) PROVE SeenInv'
  BY <1>31 DEF ChatDone
<1>32. CASE UNCHANGED <<overlap, pc, child, reading, fetchTicket, ticket>>
  BY <1>32
<1> HIDE DEF TypeInv, TypeOK, OrderInv, FreshInv, RedirectInv, UsedInv,
        SeenInv, Trail, Goto, BeginRead, EndRead
<1> QED
  BY <1>1, <1>2, <1>3, <1>4, <1>5, <1>6, <1>7, <1>8, <1>9, <1>10, <1>11,
      <1>12, <1>13, <1>14, <1>15, <1>16, <1>17, <1>18, <1>19, <1>20, <1>21,
      <1>22, <1>23, <1>24, <1>25, <1>26, <1>27, <1>28, <1>29, <1>30, <1>31,
      <1>32
  DEF Next, vars, MakeRef, HandleLogin, Script, Issue, Serve, Load, Answer,
      Process, Store, Rest,
      ServeApi, LoadRaw, LoadValid, LoadPut, FinishPage, FollowRedirect,
      FinishRedirect

\* Every step keeps an MVar that has been given to readers full, or its fetch
\* under way.
LEMMA LoadStep == TypeInv /\ RaceInv /\ LoadInv /\ [Next]_vars => LoadInv'
<1> SUFFICES ASSUME TypeInv, RaceInv, LoadInv, [Next]_vars PROVE LoadInv'
  OBVIOUS
<1> USE Ids DEF TypeInv, TypeOK, RaceInv, LoadInv, FilledByOwner, SyncsOwn,
        FirstDue, LoginDue, Empty, Failed, Goto, BeginRead, EndRead,
        cacheVars, pageVars, fetchVars, threadVars, seqVars, historyVars
<1>1. ASSUME NEW p \in Page, IssueRef(p) PROVE LoadInv'
  <2>1. raced' = (raced \/ LoginRefWindow)
    BY <1>1 DEF IssueRef
  <2>2. ASSUME ~raced' PROVE ~raced
    BY <2>1, <2>2, Zenon
  <2> QED
    BY <1>1, <2>2 DEF IssueRef
<1>2. ASSUME NEW p \in Page, IssuePage(p) PROVE LoadInv'
  BY <1>2 DEF IssuePage
<1>3. ASSUME NEW p \in Page, IssueApi(p) PROVE LoadInv'
  BY <1>3 DEF IssueApi
<1>4. ASSUME NEW p \in Page, ServePage(p) PROVE LoadInv'
  BY <1>4 DEF ServePage
<1>5. ASSUME NEW f \in MVar, ServeApi(f) PROVE LoadInv'
  BY <1>5 DEF ServeApi
<1>6. ASSUME NEW f \in MVar, LoadRaw(f) PROVE LoadInv'
  <2>1. raced' = (raced \/ LoginRawWindow)
    BY <1>6 DEF LoadRaw
  <2>2. ASSUME ~raced' PROVE ~raced
    BY <2>1, <2>2, Zenon
  <2> QED
    BY <1>6, <2>2 DEF LoadRaw
<1>7. ASSUME NEW f \in MVar, LoadValid(f) PROVE LoadInv'
  BY <1>7 DEF LoadValid
<1>8. ASSUME NEW f \in MVar, LoadPut(f) PROVE LoadInv'
  <2> SUFFICES ASSUME ~raced PROVE LoadInv'
    BY <1>8 DEF LoadPut
  <2>1. Target(f) = f /\ load[f] = "put" /\ Result(f) # Empty
    BY <1>8 DEF LoadPut, Target, Result, MVar
  <2>2. mv' = [mv EXCEPT ![f] = Result(f)] /\ load' = [load EXCEPT ![f] = "done"]
    BY <1>8, <2>1 DEF LoadPut
  <2> QED
    BY <1>8, <2>1, <2>2 DEF LoadPut
<1>9. ASSUME NEW p \in Page, FinishPage(p) PROVE LoadInv'
  BY <1>9 DEF FinishPage
<1>10. ASSUME NEW p \in Page, FollowRedirect(p) PROVE LoadInv'
  BY <1>10 DEF FollowRedirect
<1>11. ASSUME NEW p \in Page, FinishRedirect(p) PROVE LoadInv'
  BY <1>11 DEF FinishRedirect
<1>12. ASSUME NEW l \in Logins \cup {None}, TakeRequest(l) PROVE LoadInv'
  BY <1>12 DEF TakeRequest
<1>13. ASSUME CheckRaw PROVE LoadInv'
  BY <1>13 DEF CheckRaw
<1>14. ASSUME NEW f \in Reset, ReadRef(f) PROVE LoadInv'
  BY <1>14 DEF ReadRef, MVar, Reset
<1>15. ASSUME NEW f \in Reset, SyncFetch(f) PROVE LoadInv'
  BY <1>15 DEF SyncFetch
<1>16. ASSUME SyncLoaded PROVE LoadInv'
  BY <1>16 DEF SyncLoaded
<1>17. ASSUME ParseStatus PROVE LoadInv'
  BY <1>17 DEF ParseStatus
<1>18. ASSUME MakeRefDone PROVE LoadInv'
  BY <1>18 DEF MakeRefDone, MVar, Reset
<1>19. ASSUME ResetRef PROVE LoadInv'
  BY <1>19 DEF ResetRef
<1>20. ASSUME LoginRefused PROVE LoadInv'
  BY <1>20 DEF LoginRefused, MVar, Reset
<1>21. ASSUME ResetRaw PROVE LoadInv'
  BY <1>21 DEF ResetRaw
<1>22. ASSUME ResetValid PROVE LoadInv'
  BY <1>22 DEF ResetValid
<1>23. ASSUME NEW p \in SeqPages, SubmitPage(p) PROVE LoadInv'
  BY <1>23 DEF SubmitPage
<1>24. ASSUME NEW p \in SeqPages, AwaitPage(p) PROVE LoadInv'
  BY <1>24 DEF AwaitPage
<1>25. ASSUME PageAwaited PROVE LoadInv'
  BY <1>25 DEF PageAwaited
<1>26. ASSUME ScriptRead PROVE LoadInv'
  BY <1>26 DEF ScriptRead
<1>27. ASSUME ScriptReadDone PROVE LoadInv'
  BY <1>27 DEF ScriptReadDone
<1>28. ASSUME NEW s \in StorePages, SetState(s) PROVE LoadInv'
  BY <1>28 DEF SetState
<1>29. ASSUME FinishRequest PROVE LoadInv'
  BY <1>29 DEF FinishRequest, MVar, Reset
<1>30. ASSUME NEW p \in SeqPages, ProcessStart(p) PROVE LoadInv'
  BY <1>30 DEF ProcessStart
<1>31. ASSUME NEW p \in SeqPages, ProcessRead(p) PROVE LoadInv'
  BY <1>31 DEF ProcessRead
<1>32. ASSUME NEW p \in SeqPages, ProcessReadDone(p) PROVE LoadInv'
  BY <1>32 DEF ProcessReadDone
<1>33. ASSUME NEW p \in SeqPages, ProcessDone(p) PROVE LoadInv'
  BY <1>33 DEF ProcessDone
<1>34. ASSUME NEW s \in StorePages, StoreWake(s) PROVE LoadInv'
  BY <1>34 DEF StoreWake
<1>35. ASSUME NEW s \in StorePages, StoreStatus(s) PROVE LoadInv'
  BY <1>35 DEF StoreStatus
<1>36. ASSUME NEW s \in StorePages, StoreDone(s) PROVE LoadInv'
  BY <1>36 DEF StoreDone
<1>37. ASSUME NEW c \in Chats, ChatRead(c) PROVE LoadInv'
  BY <1>37 DEF ChatRead
<1>38. ASSUME NEW c \in Chats, ChatDone(c) PROVE LoadInv'
  BY <1>38 DEF ChatDone
<1>39. CASE UNCHANGED <<raced, step, load, mv, syncMv, pc, requests>>
  BY <1>39
<1> HIDE DEF TypeInv, TypeOK, RaceInv, LoadInv, FilledByOwner, SyncsOwn,
        FirstDue, LoginDue, Empty, Failed, Goto, BeginRead, EndRead
<1>40. CASE \E p \in Page : Issue(p) \/ Answer(p)
  BY <1>40, <1>1, <1>2, <1>3, <1>9, <1>10, <1>11
  DEF Issue, Answer
<1>41. CASE Serve \/ \E f \in MVar : Load(f)
  BY <1>41, <1>4, <1>5, <1>6, <1>7, <1>8
  DEF Serve, Load
<1>42. CASE MakeRef \/ HandleLogin \/ \E l \in Logins \cup {None} : TakeRequest(l)
  BY <1>42, <1>12, <1>13, <1>14, <1>15, <1>16, <1>17, <1>18, <1>19, <1>20,
      <1>21, <1>22
  DEF MakeRef, HandleLogin
<1>43. CASE Script \/ PageAwaited \/ ScriptReadDone \/ FinishRequest
  BY <1>43, <1>23, <1>24, <1>25, <1>26, <1>27, <1>28, <1>29
  DEF Script
<1>44. CASE \/ \E p \in SeqPages : Process(p)
            \/ \E s \in StorePages : Store(s)
            \/ \E c \in Chats : ChatRead(c) \/ ChatDone(c)
  BY <1>44, <1>30, <1>31, <1>32, <1>33, <1>34, <1>35, <1>36, <1>37, <1>38
  DEF Process, Store
<1> QED
  BY <1>40, <1>41, <1>42, <1>43, <1>44, <1>39 DEF Next, Rest, vars

\* Every step keeps latestValidJson_ set once a status can be read.
LEMMA DbStep == TypeInv /\ DbInv /\ [Next]_vars => DbInv'
<1> SUFFICES ASSUME TypeInv, DbInv, [Next]_vars PROVE DbInv'
  OBVIOUS
<1> USE Ids DEF TypeInv, TypeOK, DbInv, Valid, Status, Empty, Failed, Target,
        Result, Goto, BeginRead, EndRead, cacheVars, pageVars, fetchVars,
        threadVars, seqVars, historyVars
<1>1. ASSUME NEW p \in Page, IssueApi(p) PROVE DbInv'
  BY <1>1 DEF IssueApi
<1>2. ASSUME NEW f \in MVar, ServeApi(f) PROVE DbInv'
  BY <1>2 DEF ServeApi
<1>3. ASSUME NEW f \in MVar, LoadRaw(f) PROVE DbInv'
  BY <1>3 DEF LoadRaw
<1>4. ASSUME NEW f \in MVar, LoadValid(f) PROVE DbInv'
  BY <1>4 DEF LoadValid
<1>5. ASSUME NEW f \in MVar, LoadPut(f) PROVE DbInv'
  BY <1>5 DEF LoadPut
<1>6. ASSUME NEW l \in Logins \cup {None}, TakeRequest(l) PROVE DbInv'
  BY <1>6 DEF TakeRequest
<1>7. ASSUME CheckRaw PROVE DbInv'
  BY <1>7 DEF CheckRaw
<1>8. ASSUME NEW f \in Reset, ReadRef(f) PROVE DbInv'
  BY <1>8 DEF ReadRef
<1>9. ASSUME NEW f \in Reset, SyncFetch(f) PROVE DbInv'
  BY <1>9 DEF SyncFetch
<1>10. ASSUME SyncLoaded PROVE DbInv'
  BY <1>10 DEF SyncLoaded
<1>11. ASSUME ParseStatus PROVE DbInv'
  BY <1>11 DEF ParseStatus
<1>12. ASSUME MakeRefDone PROVE DbInv'
  BY <1>12 DEF MakeRefDone
<1>13. ASSUME ResetRef PROVE DbInv'
  BY <1>13 DEF ResetRef
<1>14. ASSUME LoginRefused PROVE DbInv'
  BY <1>14 DEF LoginRefused
<1>15. ASSUME ResetRaw PROVE DbInv'
  BY <1>15 DEF ResetRaw
<1>16. ASSUME ResetValid PROVE DbInv'
  BY <1>16 DEF ResetValid
<1>17. ASSUME NEW p \in SeqPages, SubmitPage(p) PROVE DbInv'
  BY <1>17 DEF SubmitPage
<1>18. ASSUME NEW p \in SeqPages, AwaitPage(p) PROVE DbInv'
  BY <1>18 DEF AwaitPage
<1>19. ASSUME PageAwaited PROVE DbInv'
  BY <1>19 DEF PageAwaited
<1>20. ASSUME ScriptRead PROVE DbInv'
  BY <1>20 DEF ScriptRead
<1>21. ASSUME ScriptReadDone PROVE DbInv'
  BY <1>21 DEF ScriptReadDone
<1>22. ASSUME NEW s \in StorePages, SetState(s) PROVE DbInv'
  BY <1>22 DEF SetState
<1>23. ASSUME FinishRequest PROVE DbInv'
  BY <1>23 DEF FinishRequest
<1>24. ASSUME NEW p \in SeqPages, ProcessStart(p) PROVE DbInv'
  BY <1>24 DEF ProcessStart
<1>25. ASSUME NEW p \in SeqPages, ProcessRead(p) PROVE DbInv'
  BY <1>25 DEF ProcessRead
<1>26. ASSUME NEW p \in SeqPages, ProcessReadDone(p) PROVE DbInv'
  BY <1>26 DEF ProcessReadDone
<1>27. ASSUME NEW p \in SeqPages, ProcessDone(p) PROVE DbInv'
  BY <1>27 DEF ProcessDone
<1>28. ASSUME NEW s \in StorePages, StoreWake(s) PROVE DbInv'
  BY <1>28 DEF StoreWake
<1>29. ASSUME NEW s \in StorePages, StoreStatus(s) PROVE DbInv'
  BY <1>29 DEF StoreStatus
<1>30. ASSUME NEW s \in StorePages, StoreDone(s) PROVE DbInv'
  BY <1>30 DEF StoreDone
<1>31. ASSUME NEW c \in Chats, ChatRead(c) PROVE DbInv'
  BY <1>31 DEF ChatRead
<1>32. ASSUME NEW c \in Chats, ChatDone(c) PROVE DbInv'
  BY <1>32 DEF ChatDone
<1>33. CASE UNCHANGED <<latestValid, mv, load, fetchAns, pc>>
  BY <1>33
<1> HIDE DEF TypeInv, TypeOK, DbInv, Valid, Status, Empty, Failed, Target,
        Result, Goto, BeginRead, EndRead
<1> QED
  BY <1>1, <1>2, <1>3, <1>4, <1>5, <1>6, <1>7, <1>8, <1>9, <1>10, <1>11,
      <1>12, <1>13, <1>14, <1>15, <1>16, <1>17, <1>18, <1>19, <1>20, <1>21,
      <1>22, <1>23, <1>24, <1>25, <1>26, <1>27, <1>28, <1>29, <1>30, <1>31,
      <1>32, <1>33
  DEF Next, vars, MakeRef, HandleLogin, Script, Issue, Serve, Load, Answer,
      Process, Store, Rest,
      IssueRef, IssuePage, ServePage, FinishPage, FollowRedirect,
      FinishRedirect

-----------------------------------------------------------------------------
(* The theorems.                                                            *)

\* The inductive invariant: types, order, reference, redirects, ownership.
THEOREM Invariance == Spec => []IInv
<1>1. Init => IInv
  BY TypeInit, OrderInit, FreshInit, RedirectInit, RaceInit DEF IInv
<1>2. IInv /\ [Next]_vars => IInv'
  BY TypeStep, OrderStep, FreshStep, RedirectStep, RaceStep DEF IInv
<1> QED
  BY <1>1, <1>2, PTL DEF Spec

\* The reference never hides a page that has been sent, while issues do not
\* overlap (privateKolRequest_pipelining, statusfunc).
THEOREM Freshness == Spec => []FreshRef
<1>1. IInv => FreshRef
  BY DEF IInv, FreshInv, FreshRef
<1> QED
  BY Invariance, <1>1, PTL

\* The status after a page was fetched after the page and its redirect, until
\* a login is raced (mvf of privateKolRequest_pipelining, log_page_result).
THEOREM AfterPage == Spec => []StatusAfterPage
<1>1. IInv => StatusAfterPage
  <2> SUFFICES ASSUME IInv, ~raced, NEW p \in Page, fin[p] = "ok",
                      Valid(mv[last[p]]), NEW q \in Trail(p)
               PROVE  mv[last[p]] > ticket[q]
    BY DEF StatusAfterPage
  <2>1. last[p] \in MVar /\ mv[last[p]] = fetchTicket[last[p]]
    BY Ids DEF IInv, TypeInv, TypeOK, RaceInv, FilledByOwner, Valid, Empty,
        Failed
  <2>2. fetchTicket[last[p]] > ticket[q]
    BY DEF IInv, RedirectInv, Trail
  <2> QED
    BY <2>1, <2>2
<1> QED
  BY Invariance, <1>1, PTL

\* No thread ever blocks filling a status MVar, until a login is raced
\* (putMVar of load_api_status_to_mv, make_ref, handle_login).
THEOREM FilledOnce == Spec => []NoDoubleFill
<1>1. IInv => NoDoubleFill
  <2> SUFFICES ASSUME IInv, ~raced, NEW f \in MVar, load[f] = "put"
               PROVE  mv[Target(f)] = Empty
    BY DEF NoDoubleFill
  <2>1. Target(f) = f
    BY DEF IInv, RaceInv, SyncsOwn, Target, MVar
  <2> QED
    BY <2>1 DEF IInv, RaceInv, FilledByOwner
<1> QED
  BY Invariance, <1>1, PTL

-----------------------------------------------------------------------------
(* What readers find, as theorems.                                          *)

ReadersInv ==
    UsedInv /\ SyncInv /\ BeforeInv /\ FilledByInv /\ SeenInv /\ LoadInv /\ DbInv

\* What readers of the status find is invariant: what they take has been given to
\* readers, and what fills it is under way and as old as it must be.
THEOREM ReadersInvariance == Spec => [](IInv /\ ReadersInv)
<1>1. Init => ReadersInv
  BY ReadersInit DEF ReadersInv
<1>2. IInv /\ ReadersInv /\ [Next]_vars => ReadersInv'
  BY UsedStep, SyncStep, BeforeStep, FilledByStep, SeenStep, LoadStep, DbStep
  DEF IInv, ReadersInv
<1> QED
  BY Invariance, <1>1, <1>2, PTL DEF Spec

\* The status before a page was fetched before the page was sent, unless two
\* issues overlapped: whoever filled its MVar (doProcessPage).
THEOREM BeforePage == Spec => []StatusBeforePage
<1>1. IInv /\ ReadersInv => StatusBeforePage
  <2> SUFFICES ASSUME IInv, ReadersInv, ~overlap, NEW p \in SeqPages,
                      ticket[p] > 0, Valid(mv[before[p]])
               PROVE  mv[before[p]] < ticket[p]
    BY DEF StatusBeforePage
  <2> USE Ids DEF IInv, TypeInv, TypeOK
  <2>1. step[p] \in {"page", "out"}
    BY DEF OrderInv
  <2>2. before[p] \in MVar
    BY <2>1 DEF ReadersInv, BeforeInv
  <2>3. PICK f \in MVar : Target(f) = before[p] /\ fetchTicket[f] = mv[before[p]]
    BY <2>2 DEF ReadersInv, FilledByInv, Valid, Empty, Failed
  <2>4. Earlier(f, p)
    BY <2>1, <2>3 DEF ReadersInv, BeforeInv, Target, MVar
  <2> QED
    BY <2>3, <2>4 DEF Earlier
<1> QED
  BY ReadersInvariance, <1>1, PTL

\* What a page's script reads as the status was fetched after the page and the
\* request its redirect led to, unless issues overlapped or a login was raced
\* (process-page.lua).
THEOREM SeesOwnPage == Spec => []ProcessSeesOwnPage
<1>1. IInv /\ ReadersInv => ProcessSeesOwnPage
  <2> SUFFICES ASSUME IInv, ReadersInv, ~overlap, ~raced, NEW p \in SeqPages,
                      pc[p] = "read", Valid(mv[reading[p]]), NEW q \in Trail(p)
               PROVE  mv[reading[p]] > ticket[q]
    BY DEF ProcessSeesOwnPage
  <2> USE Ids DEF IInv, TypeInv, TypeOK
  <2>1. reading[p] \in MVar
    BY DEF ReadersInv, UsedInv
  <2>2. mv[reading[p]] = fetchTicket[reading[p]]
    BY <2>1 DEF RaceInv, FilledByOwner, Valid, Empty, Failed
  <2>3. fetchTicket[reading[p]] = 0 \/ fetchTicket[reading[p]] > ticket[q]
    BY DEF ReadersInv, SeenInv
  <2> QED
    BY <2>2, <2>3 DEF Valid
<1> QED
  BY ReadersInvariance, <1>1, PTL

\* A thread blocked on the status waits for something that is under way, until a
\* login is raced (statusfunc, make_ref, handle_login).
THEOREM Orphanless == Spec => []NoOrphan
<1>1. IInv /\ ReadersInv => NoOrphan
  <2> SUFFICES ASSUME IInv, ReadersInv, ~raced, NEW t \in Thread,
                      reading[t] # None, mv[reading[t]] = Empty,
                      ~(t \in Chats /\ requests = 0)
               PROVE  WillBeFilled(reading[t])
    BY DEF NoOrphan
  <2> DEFINE m == reading[t]
  <2> USE Ids DEF IInv, TypeInv, TypeOK
  <2>1. m \in MVar /\ Used(m)
    BY DEF ReadersInv, UsedInv
  <2>3. CASE load[m] \in {"wait", "valid", "put"}
    <3>1. Target(m) = m
      BY <2>1, <2>3 DEF RaceInv, SyncsOwn, Target, MVar
    <3> QED
      BY <2>1, <2>3, <3>1 DEF WillBeFilled
  <2>4. CASE m \in Page
    BY <2>1, <2>3, <2>4 DEF Used, WillBeFilled, Issuing, ReadersInv, LoadInv
  <2>5. CASE m \in Reset /\ load[m] = "due"
    <3>1. CASE pc[Seq] = "idle"
      <4>1. m = FirstMVar
        BY <2>5, <3>1 DEF RaceInv, LoginDue, Reset
      <4>2. requests = 0
        BY <2>1, <2>5, <3>1 DEF ReadersInv, LoadInv
      <4>3. t \notin Chats
        BY <4>2
      <4>4. t # Seq
        BY <3>1 DEF ReadersInv, UsedInv
      <4>5. ASSUME t \in SeqPages PROVE FALSE
        BY <2>5, <4>1, <4>5 DEF ReadersInv, UsedInv, RaceInv, FirstDue,
            RedirectInv
      <4>6. ASSUME t \in StorePages PROVE FALSE
        BY <2>5, <4>1, <4>6 DEF ReadersInv, UsedInv, RaceInv, FirstDue
      <4> QED
        BY <4>3, <4>4, <4>5, <4>6 DEF Thread
    <3>2. CASE pc[Seq] = "fetch"
      BY <2>1, <2>5, <3>2 DEF ReadersInv, LoadInv, WillBeFilled
    <3>3. CASE pc[Seq] \notin {"idle", "fetch"}
      BY <2>5, <3>3 DEF RaceInv, LoginDue, FirstDue, Reset, WillBeFilled
    <3> QED
      BY <3>1, <3>2, <3>3
  <2> QED
    BY <2>1, <2>3, <2>4, <2>5 DEF Used, ReadersInv, LoadInv, MVar
<1> QED
  BY ReadersInvariance, <1>1, PTL

\* The log database named by a readable status can be found, until a login clears
\* it (dologaction).
THEOREM DatabaseFound == Spec => []LogHasDatabase
<1>1. ReadersInv => LogHasDatabase
  BY DEF ReadersInv, DbInv, LogHasDatabase
<1> QED
  BY ReadersInvariance, <1>1, PTL

=============================================================================
