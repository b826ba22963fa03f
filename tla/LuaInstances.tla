---------------------------- MODULE LuaInstances ----------------------------
(***************************************************************************)
(* The Lua interpreters of one session, beside the threads that update the *)
(* files they load.  There is one interpreter for each kind of script, in  *)
(* a table; it is set up by the first request that needs it, with the      *)
(* table's lock held, and is entered by one thread at a time.  A browser's *)
(* script waits for the script of the page it has submitted; chat scripts  *)
(* change a file that they share.                                          *)
(***************************************************************************)
EXTENDS DataFiles

CONSTANTS
    Early,  \* data files that set-up loads first: items, skills, familiars, zones
    Late,   \* those it cannot do without either: monsters, buffs
    Chats,  \* chat requests, each on a thread of its own
    Seq,    \* the thread "kps:mvseq"
    Proc,   \* the thread "proxy:process" of the page it submits
    Nobody, \* no thread
    MaxRequests \* bound: requests "kps:mvseq" serves

ASSUME LoadedAssumption == Early \subseteq Files /\ Late \subseteq Files

Callers == Chats \cup {Seq, Proc}
ASSUME CallersAssumption ==
    /\ Seq \notin Chats \cup {Proc} /\ Proc \notin Chats
    /\ Nobody \notin Callers /\ MaxRequests \in Nat

Levels == {"chat", "browser", "process"}
Level(t) == IF t \in Chats THEN "chat" ELSE IF t = Seq THEN "browser" ELSE "process"

VARIABLES
    table,    \* luaInstances_: level |-> the number of its interpreter, or 0
    made,     \* interpreters made so far
    lock,     \* who holds the table's lock, or Nobody
    left,     \* data files that set-up has still to load
    step,     \* thread |-> where it is
    inst,     \* thread |-> the interpreter it was given, or 0
    requests, \* that "kps:mvseq" has begun
    chatFile, \* the chat state file: the chats whose setting it has
    draft,    \* chat |-> what it has read of that file
    cleared   \* history: the script cache was cleared with a chat in an interpreter

tableVars == <<table, made, lock, left>>
callVars  == <<step, inst, requests>>
chatVars  == <<chatFile, draft, cleared>>
luaVars   == <<tableVars, callVars, chatVars>>
allVars   == <<vars, luaVars>>

\* Some of the requests may never come.
LuaInit ==
    /\ table = [k \in Levels |-> 0] /\ made = 0 /\ lock = Nobody /\ left = {}
    /\ \E absent \in SUBSET Chats :
           step = [t \in Callers |-> IF t \in absent THEN "done" ELSE "idle"]
    /\ inst = [t \in Callers |-> 0] /\ requests \in {0, MaxRequests}
    /\ chatFile = {} /\ draft = [t \in Chats |-> {}] /\ cleared = FALSE

Goes(t, s) == step' = [step EXCEPT ![t] = s]
Running == {t \in Callers : step[t] \in {"run", "await", "save"}}

-----------------------------------------------------------------------------
(* get_lua_instance_for_code.                                              *)

\* A browser's or a chat's request.  Each chat is one request.
Request(t) ==
    /\ t # Proc /\ step[t] = "idle"
    /\ t = Seq => requests < MaxRequests
    /\ Goes(t, "table")
    /\ requests' = IF t = Seq THEN requests + 1 ELSE requests
    /\ UNCHANGED <<tableVars, inst, chatVars>>

\* The lock is not kept.
Lookup_Faulty(t) ==
    LET i == table[Level(t)]
    IN  /\ step[t] = "table" /\ lock = Nobody
        /\ inst' = [inst EXCEPT ![t] = i]
        /\ IF i # 0 THEN Goes(t, "enter") /\ UNCHANGED <<lock, left>>
                    ELSE Goes(t, "early") /\ left' = Early /\ UNCHANGED lock
        /\ UNCHANGED <<table, made, requests, chatVars>>

\* The interpreter there is; or the lock is kept while one is set up.
Lookup(t) ==
    LET i == table[Level(t)]
    IN  /\ step[t] = "table" /\ lock = Nobody
        /\ inst' = [inst EXCEPT ![t] = i]
        /\ IF i # 0 THEN Goes(t, "enter") /\ UNCHANGED <<lock, left>>
                    ELSE Goes(t, "early") /\ lock' = t /\ left' = Early
        /\ UNCHANGED <<table, made, requests, chatVars>>

InSetup(t) == step[t] \in {"early", "rest"}

\* load_datafile, for each file of a list; the order is left open.
LoadFile(t) ==
    /\ InSetup(t)
    /\ \E f \in left : data[f] = "whole" /\ left' = left \ {f}
    /\ UNCHANGED <<table, made, lock, callVars, chatVars>>

\* Only the files that are there are listed.
ListFiles_Faulty(t) ==
    /\ step[t] = "early" /\ left = {}
    /\ left' = {f \in Files : data[f] # "none"} \ Early
    /\ Goes(t, "rest")
    /\ UNCHANGED <<table, made, lock, inst, requests, chatVars>>

\* kolproxy_list_datafiles: every other data file that is there is loaded, and
\* then those that must be.
ListFiles(t) ==
    /\ step[t] = "early" /\ left = {}
    /\ left' = (Late \cup {f \in Files : data[f] # "none"}) \ Early
    /\ Goes(t, "rest")
    /\ UNCHANGED <<table, made, lock, inst, requests, chatVars>>

\* The interpreter is put in the table.
SetUp(t) ==
    /\ step[t] = "rest" /\ left = {}
    /\ made' = made + 1
    /\ table' = [table EXCEPT ![Level(t)] = made']
    /\ inst' = [inst EXCEPT ![t] = made']
    /\ Goes(t, "enter") /\ lock' = Nobody
    /\ UNCHANGED <<left, requests, chatVars>>

Ended(t) == IF t = Seq THEN "idle" ELSE "done"

\* The lock is not given back.
LoadFailsKeeps_Faulty(t) ==
    /\ InSetup(t) /\ \E f \in left : data[f] # "whole"
    /\ Goes(t, Ended(t)) /\ left' = {}
    /\ UNCHANGED <<table, made, lock, inst, requests, chatVars>>

\* A file that is missing or damaged ends the request, and nothing is put in the
\* table: the next request begins again.
LoadFails(t) ==
    /\ InSetup(t) /\ \E f \in left : data[f] # "whole"
    /\ Goes(t, Ended(t)) /\ lock' = Nobody /\ left' = {}
    /\ UNCHANGED <<table, made, inst, requests, chatVars>>

\* Nobody waits for the interpreter.
Enter_Faulty(t) ==
    /\ step[t] = "enter"
    /\ Goes(t, "run")
    /\ UNCHANGED <<tableVars, inst, requests, chatVars>>

\* withMVar on the interpreter; the table's lock is not held.
Enter(t) ==
    /\ step[t] = "enter" /\ \A u \in Running : inst[u] # inst[t]
    /\ Goes(t, "run")
    /\ UNCHANGED <<tableVars, inst, requests, chatVars>>

Leaves(t) == Goes(t, Ended(t))

-----------------------------------------------------------------------------
(* What scripts do.                                                        *)

\* A browser's script submits a page and waits for it; the page's own script runs
\* on a thread of its own, in another interpreter.
SubmitPage ==
    /\ step[Seq] = "run" /\ step[Proc] \in {"idle", "done"}
    /\ step' = [step EXCEPT ![Seq] = "await", ![Proc] = "table"]
    /\ UNCHANGED <<tableVars, inst, requests, chatVars>>

PageDone ==
    /\ step[Seq] = "await" /\ step[Proc] = "done"
    /\ Leaves(Seq)
    /\ UNCHANGED <<tableVars, inst, requests, chatVars>>

\* A script ends without having done anything that matters here.
ScriptEnds(t) ==
    /\ step[t] = "run"
    /\ Leaves(t)
    /\ UNCHANGED <<tableVars, inst, requests, chatVars>>

\* set_chat_state: the file is read, and then replaced by a changed one.
ReadChatState(t) ==
    /\ t \in Chats /\ step[t] = "run"
    /\ Goes(t, "save") /\ draft' = [draft EXCEPT ![t] = chatFile]
    /\ UNCHANGED <<tableVars, inst, requests, chatFile, cleared>>

WriteChatState(t) ==
    /\ t \in Chats /\ step[t] = "save"
    /\ chatFile' = draft[t] \cup {t}
    /\ Leaves(t)
    /\ UNCHANGED <<tableVars, inst, requests, draft, cleared>>

\* A thread has been given an interpreter.
Inside == {"enter", "run", "await", "save"}

\* "/kolproxy-clear-lua-script-cache": threads that have an interpreter keep it.
ClearCache ==
    /\ step[Seq] = "table" /\ lock = Nobody
    /\ table' = [k \in Levels |-> 0]
    /\ Goes(Seq, "idle")
    /\ cleared' = (cleared \/ \E t \in Chats : step[t] \in Inside)
    /\ UNCHANGED <<made, lock, left, inst, requests, chatFile, draft>>

-----------------------------------------------------------------------------
\* The program is stopped and started again: what is left is the files.
LuaRestart ==
    /\ Restart
    /\ table' = [k \in Levels |-> 0] /\ made' = made /\ lock' = Nobody /\ left' = {}
    /\ step' = [t \in Callers |-> IF step[t] = "idle" THEN "idle" ELSE Ended(t)]
    /\ inst' = [t \in Callers |-> 0] /\ cleared' = FALSE
    /\ UNCHANGED <<requests, chatFile, draft>>

\* A step of a request that has begun.
Call(t) ==
    \/ Lookup(t) \/ LoadFile(t) \/ ListFiles(t) \/ SetUp(t) \/ LoadFails(t)
    \/ Enter(t) \/ ScriptEnds(t)
    \/ ReadChatState(t) \/ WriteChatState(t)
    \/ t = Seq /\ (SubmitPage \/ PageDone \/ ClearCache)

LuaNext ==
    \/ (\E t \in Callers : Request(t) \/ Call(t)) /\ UNCHANGED vars
    \/ ((\E u \in Updaters : PageForks(u) \/ Work(u)) \/ Tick) /\ UNCHANGED luaVars
    \/ LuaRestart

LuaSpec == Init /\ LuaInit /\ [][LuaNext]_allVars

\* As long as a request can go on, one does.
LuaFairness == Fairness /\ WF_luaVars(\E t \in Callers : Call(t))

-----------------------------------------------------------------------------
(* Properties.                                                             *)

LuaTypeOK ==
    /\ TypeOK
    /\ made \in Nat /\ table \in [Levels -> 0..made] /\ inst \in [Callers -> 0..made]
    /\ lock \in Callers \cup {Nobody} /\ left \subseteq Files
    /\ \A t \in Callers : InSetup(t) => lock = t
    /\ step \in [Callers -> {"idle", "table", "early", "rest", "done"} \cup Inside]
    /\ requests \in 0..MaxRequests
    /\ chatFile \subseteq Chats /\ draft \in [Chats -> SUBSET Chats] /\ cleared \in BOOLEAN

\* A script runs only after every data file it cannot do without has been made, and
\* scripts of one kind are in one interpreter, the table's: not in one of which
\* set-up failed, nor in one of two that were set up at the same time.  But threads
\* stay in the old interpreters when the script cache is cleared.
ScriptsReady ==
    \A t \in Callers : step[t] \in Inside =>
        /\ \A f \in Early \cup Late : data[f] # "none"
        /\ inst[t] # 0
        /\ cleared \/ inst[t] = table[Level(t)]

\* What a chat script has stored stays stored, unless the script cache was cleared
\* while one was at work: then chats may run in the old interpreter and in the new
\* one.
ChatStateKept == [][chatFile \subseteq chatFile' \/ cleared]_allVars

\* Every request ends: no thread waits for a lock that is held by one that waits
\* for it.  (Requests are finitely many.)
RequestsEnd == <>[](\A t \in Callers : step[t] \in {"idle", "done"})
=============================================================================
