---------------------------- MODULE SettingsStore ----------------------------
(***************************************************************************)
(* The settings of one session (State.hs): scripts set and unset them in   *)
(* memory, and delayed threads store them in the action bar that the game  *)
(* server keeps for the character, together with the buttons the browser   *)
(* puts there.  The first request of a session, the first one of a new day *)
(* and a login load them from the action bar.                              *)
(*                                                                         *)
(* stateData_ is an IORef without a lock: a setting is changed by reading  *)
(* the whole state and writing it back, by the sequence thread's script    *)
(* and by the thread that runs process-page.lua, while the sequence thread *)
(* may be loading and any number of threads may be storing.                *)
(*                                                                         *)
(* Requests to the game are executed in the order they are put on the      *)
(* connection channel (ConnService), so a request is one step here, taken  *)
(* when it is put; what its sender does with the answer comes later.       *)
(***************************************************************************)
EXTENDS Integers, FiniteSets

CONSTANTS
    KeptKeys,    \* settings of the character and of the ascension
    DayKeys,     \* settings of the day
    Values,      \* values of the kept settings
    Seq,         \* the thread "kps:mvseq"
    Procs,       \* threads "proxy:process"
    Stores,      \* threads "delayedStoreSettings", one for each change
    None,        \* no value, no settings, nothing cached
    Delay,       \* ticks of the clock in ten seconds
    MaxRequests, \* bound: requests the sequence thread takes up
    MaxDay,      \* bound: days
    MaxClicks,   \* bound: times the browser changes its buttons
    MaxErrors    \* bound: steps that fail

Key    == KeptKeys \cup DayKeys
Setter == {Seq} \cup Procs
Storer == {Seq} \cup Stores
Thread == Setter \cup Stores

ASSUME NamesAreDistinct ==
    /\ KeptKeys \cap DayKeys = {}
    /\ Seq \notin Procs \cup Stores /\ Procs \cap Stores = {}
    /\ None \notin Values \cup Nat
ASSUME DelayIsPositive == Delay \in Nat \ {0}
ASSUME BoundsAreNat ==
    /\ MaxRequests \in Nat /\ MaxDay \in Nat
    /\ MaxClicks \in Nat /\ MaxErrors \in Nat

\* A kept setting has a value.  The settings of the day all have one value, and
\* the model remembers with it the day it was set, which the code does not see:
\* Plain is what it sees.  Settings are labelled with the day they are for.
Unset    == [k \in Key |-> None]
Setting  == Values \cup Nat \cup {None}
Settings == [day : Nat, map : [Key -> Setting]]
ASSUME NoneIsNoSettings == None \notin Settings \cup [Key -> Setting]
Plain(map) ==
    [k \in Key |-> IF k \in DayKeys /\ map[k] # None THEN 0 ELSE map[k]]
Choices(k, day) == {None} \cup (IF k \in KeptKeys THEN Values ELSE {day})

VARIABLES
    mem,       \* stateData_
    today,     \* the day that the game's status shows
    bar,       \* the game: the buttons, and the "kolproxy json state" or None
    cached,    \* cachedActionbar_: the buttons in it, or None
    lastState, \* lastStoredState_
    age,       \* time since lastStoredTime_, up to Delay
    left,      \* store |-> time its threadDelay has left
    pc,        \* thread |-> where it is
    draft,     \* thread |-> settings it has read or is going to write
    buttons,   \* store |-> the buttons it is going to post
    requests, clicks, errors,
    loaded,    \* history: mem comes from a load that was completed
    unread,    \* history: mem has changes no store has read
    cleared,   \* history: settings that were unset
    odd        \* history: what has happened of the things named below

worldVars   == <<today, bar, clicks>>
cacheVars   == <<cached, lastState, age>>
threadVars  == <<left, pc, draft, buttons>>
countVars   == <<requests, errors>>
historyVars == <<loaded, unread, cleared, odd>>
vars == <<mem, worldVars, cacheVars, threadVars, countVars, historyVars>>

Init ==
    /\ mem = [day |-> 0, map |-> Unset]
    /\ today = 1
    /\ bar \in [buttons : {0},
                settings : {None} \cup
                    {[day |-> 1, map |-> m] : m \in
                        {f \in [Key -> Values \cup {1, None}] :
                            \A k \in Key : f[k] \in Choices(k, 1)}}]
    /\ cached = None /\ lastState = None /\ age = 0
    /\ left = [s \in Stores |-> 0]
    /\ pc = [t \in Thread |-> "idle"]
    /\ draft = [t \in Thread |-> None]
    /\ buttons = [t \in Storer |-> None]
    /\ requests = 0 /\ clicks = 0 /\ errors = 0
    /\ loaded = FALSE /\ unread = FALSE /\ cleared = {} /\ odd = {}

Goto(t, where) == pc' = [pc EXCEPT ![t] = where]
Note(what, when) == odd' = IF when THEN odd \cup {what} ELSE odd

\* A thread is between reading the settings and writing them back.
Writing(t) == pc[t] \in {"set", "merge", "put"}
\* A store has read the settings and not yet posted them.
Storing(t) == pc[t] \in {"compare", "cache", "download", "label", "copy", "post"}
\* A store holds buttons that it is going to post or to keep.
HoldsButtons(t) == pc[t] \in {"label", "copy", "post", "keep"}

\* The settings in memory are written: by w, to become m.
WriteMem(w, m) ==
    /\ mem' = m
    /\ odd' = odd \cup (IF \E t \in Setter \ {w} : Writing(t) THEN {"overwritten"} ELSE {})
                  \cup (IF m.day < mem.day THEN {"mislabelled"} ELSE {})

-----------------------------------------------------------------------------
(* make_ref: ensureLoadedState.                                             *)

\* A request whose status cannot be read runs without settings: not modelled.
MakeRef ==
    /\ pc[Seq] = "idle" /\ requests < MaxRequests
    /\ requests' = requests + 1
    /\ Goto(Seq, IF mem.day = today THEN "script" ELSE "init")
    /\ UNCHANGED <<mem, worldVars, cacheVars, left, draft, buttons, errors,
                   historyVars>>

\* handle_login loads the settings again, after make_ref found or loaded them.
Login ==
    /\ pc[Seq] = "idle" /\ requests < MaxRequests
    /\ mem.day = today
    /\ requests' = requests + 1
    /\ Goto(Seq, "init")
    /\ UNCHANGED <<mem, worldVars, cacheVars, left, draft, buttons, errors,
                   historyVars>>

\* initializeState: the new label, and no settings.
InitState ==
    /\ pc[Seq] = "init"
    /\ WriteMem(Seq, [day |-> today, map |-> Unset])
    /\ loaded' = FALSE
    /\ Goto(Seq, "fetch")
    /\ UNCHANGED <<worldVars, cacheVars, left, draft, buttons, countVars,
                   unread, cleared>>

\* download_actionbar.  After a failure the request runs without settings, but
\* the next one finds the label it expects.
FetchBar ==
    /\ pc[Seq] = "fetch"
    /\ \/ /\ bar.settings = None
          /\ Goto(Seq, "script") /\ loaded' = TRUE
          /\ Note("crossed", \E t \in Stores : Storing(t))
          /\ UNCHANGED <<draft, errors>>
       \/ /\ bar.settings # None
          /\ Goto(Seq, "merge") /\ draft' = [draft EXCEPT ![Seq] = bar.settings]
          /\ Note("crossed", \E t \in Stores : Storing(t))
          /\ UNCHANGED <<loaded, errors>>
       \/ /\ errors < MaxErrors /\ errors' = errors + 1
          /\ Goto(Seq, "idle") /\ Note("failed", TRUE)
          /\ UNCHANGED <<loaded, draft>>
    /\ UNCHANGED <<mem, worldVars, cacheVars, left, buttons, requests, unread,
                   cleared>>

\* The day's settings are loaded whatever day they are for.
LoadReadAnyDay_Faulty ==
    /\ pc[Seq] = "merge"
    /\ draft' = [draft EXCEPT ![Seq] =
           [day |-> mem.day, map |-> draft[Seq].map]]
    /\ Goto(Seq, "put")
    /\ UNCHANGED <<mem, worldVars, cacheVars, left, buttons, countVars,
                   historyVars>>

\* The settings are loaded only if they are all for this day.
LoadReadAll_Faulty ==
    /\ pc[Seq] = "merge"
    /\ draft' = [draft EXCEPT ![Seq] =
           [day |-> mem.day,
            map |-> IF draft[Seq].day = today THEN draft[Seq].map ELSE mem.map]]
    /\ Goto(Seq, "put")
    /\ UNCHANGED <<mem, worldVars, cacheVars, left, buttons, countVars,
                   historyVars>>

\* loadStateFromJson: the day's settings only if they are for this day.
LoadRead ==
    /\ pc[Seq] = "merge"
    /\ draft' = [draft EXCEPT ![Seq] =
           [day |-> mem.day,
            map |-> [k \in Key |-> IF k \in KeptKeys \/ draft[Seq].day = today
                                   THEN draft[Seq].map[k] ELSE mem.map[k]]]]
    /\ Goto(Seq, "put")
    /\ UNCHANGED <<mem, worldVars, cacheVars, left, buttons, countVars,
                   historyVars>>

LoadWrite ==
    /\ pc[Seq] = "put"
    /\ WriteMem(Seq, draft[Seq])
    /\ loaded' = TRUE
    /\ Goto(Seq, "script")
    /\ UNCHANGED <<worldVars, cacheVars, left, draft, buttons, countVars,
                   unread, cleared>>

-----------------------------------------------------------------------------
(* Scripts: set_state, in the request's script and in process-page.lua.     *)

\* doProcessPage forks a thread with the request's own stateValid_.
StartProc(p) ==
    /\ pc[Seq] = "script" /\ pc[p] = "idle"
    /\ Goto(p, "script")
    /\ UNCHANGED <<mem, worldVars, cacheVars, left, draft, buttons, countVars,
                   historyVars>>

\* oldvalue /= newvalue; setState and unsetState read the whole state.
SetRead(w, k, v) ==
    /\ pc[w] = "script"
    /\ Plain([mem.map EXCEPT ![k] = v]) # Plain(mem.map)
    /\ Cardinality({s \in Stores : pc[s] = "idle"})
          > Cardinality({t \in Setter : pc[t] = "set"})
    /\ draft' = [draft EXCEPT ![w] = [mem EXCEPT !.map[k] = v]]
    /\ Goto(w, "set")
    /\ cleared' = IF v = None THEN cleared \cup {k} ELSE cleared
    /\ UNCHANGED <<mem, worldVars, cacheVars, left, buttons, countVars, loaded,
                   unread, odd>>

\* The change is stored only if no store has begun lately.
SetWrite_Faulty(w, s) ==
    /\ pc[w] = "set" /\ pc[s] = "idle"
    /\ WriteMem(w, draft[w])
    /\ left' = [left EXCEPT ![s] = Delay]
    /\ pc' = [pc EXCEPT ![w] = "script", ![s] = IF age < Delay THEN "done" ELSE "delay"]
    /\ unread' = TRUE
    /\ UNCHANGED <<worldVars, cacheVars, draft, buttons, countVars, loaded,
                   cleared>>

\* They write it back; registerUpdatedState forks "delayedStoreSettings".
SetWrite(w, s) ==
    /\ pc[w] = "set" /\ pc[s] = "idle"
    /\ WriteMem(w, draft[w])
    /\ left' = [left EXCEPT ![s] = Delay]
    /\ pc' = [pc EXCEPT ![w] = "script", ![s] = "delay"]
    /\ unread' = TRUE
    /\ UNCHANGED <<worldVars, cacheVars, draft, buttons, countVars, loaded,
                   cleared>>

ScriptDone(w) ==
    /\ pc[w] = "script"
    /\ Goto(w, "idle")
    /\ UNCHANGED <<mem, worldVars, cacheVars, left, draft, buttons, countVars,
                   historyVars>>

\* A page posts the action bar with other buttons and the settings it had ...
PostButtons ==
    /\ pc[Seq] = "script" /\ clicks < MaxClicks
    /\ clicks' = clicks + 1
    /\ bar' = [bar EXCEPT !.buttons = clicks + 1]
    /\ Goto(Seq, "forget")
    /\ Note("buttonsRaced", \E t \in Stores : HoldsButtons(t))
    /\ UNCHANGED <<mem, today, cacheVars, left, draft, buttons, countVars,
                   loaded, unread, cleared>>

\* cachedActionbar_ is not forgotten.
ForgetBar_Faulty ==
    /\ pc[Seq] = "forget"
    /\ Goto(Seq, "script")
    /\ UNCHANGED <<mem, worldVars, cacheVars, left, draft, buttons, countVars,
                   historyVars>>

\* ... and doProcessPage forgets cachedActionbar_.
ForgetBar ==
    /\ pc[Seq] = "forget"
    /\ cached' = None
    /\ Goto(Seq, "script")
    /\ UNCHANGED <<mem, worldVars, lastState, age, left, draft, buttons,
                   countVars, historyVars>>

\* A request for logout.php stores the settings at once.
Logout ==
    /\ pc[Seq] = "script"
    /\ Goto(Seq, "begin")
    /\ UNCHANGED <<mem, worldVars, cacheVars, left, draft, buttons, countVars,
                   historyVars>>

-----------------------------------------------------------------------------
(* storeSettings, on a thread of its own or on the sequence thread.         *)

Finish(t) == Goto(t, IF t = Seq THEN "script" ELSE "done")

\* The thread looks at the time at once.
Wake_Faulty(s) ==
    /\ pc[s] = "delay"
    /\ Goto(s, IF age >= Delay THEN "begin" ELSE "done")
    /\ UNCHANGED <<mem, worldVars, cacheVars, left, draft, buttons, countVars,
                   historyVars>>

\* threadDelay has ended; diffUTCTime tnow last_store >= 10.
Wake(s) ==
    /\ pc[s] = "delay" /\ left[s] = 0
    /\ Goto(s, IF age >= Delay THEN "begin" ELSE "done")
    /\ UNCHANGED <<mem, worldVars, cacheVars, left, draft, buttons, countVars,
                   historyVars>>

\* writeIORef lastStoredTime_
Begin(t) ==
    /\ pc[t] = "begin"
    /\ age' = 0
    /\ Goto(t, "read")
    /\ UNCHANGED <<mem, worldVars, cached, lastState, left, draft, buttons,
                   countVars, historyVars>>

ReadState(t) ==
    /\ pc[t] = "read"
    /\ draft' = [draft EXCEPT ![t] = mem]
    /\ unread' = FALSE
    /\ Goto(t, "compare")
    /\ Note("crossed", \E u \in Storer : Storing(u))
    /\ UNCHANGED <<mem, worldVars, cacheVars, left, buttons, countVars, loaded,
                   cleared>>

\* laststored /= Just statedesc, which does not include the label.
Compare(t) ==
    /\ pc[t] = "compare"
    /\ \/ /\ lastState = Plain(draft[t].map)
          /\ Finish(t)
          /\ Note("relabelled", bar.settings # None /\ bar.settings.day # draft[t].day)
          /\ UNCHANGED lastState
       \/ /\ lastState # Plain(draft[t].map)
          /\ lastState' = Plain(draft[t].map)
          /\ Goto(t, "cache")
          /\ UNCHANGED odd
    /\ UNCHANGED <<mem, worldVars, cached, age, left, draft, buttons, countVars,
                   loaded, unread, cleared>>

\* cachedActionbar_ is used even when there is nothing in it.
TakeCached_Faulty(t) ==
    /\ pc[t] = "cache"
    /\ buttons' = [buttons EXCEPT ![t] = cached]
    /\ Goto(t, "label")
    /\ Note("buttonsRaced", cached # None /\ pc[Seq] = "forget")
    /\ UNCHANGED <<mem, worldVars, cacheVars, left, draft, countVars, loaded,
                   unread, cleared>>

\* writeServerSettings: the buttons of cachedActionbar_ ...
TakeCached(t) ==
    /\ pc[t] = "cache"
    /\ buttons' = [buttons EXCEPT ![t] = cached]
    /\ Goto(t, IF cached = None THEN "download" ELSE "label")
    /\ Note("buttonsRaced", cached # None /\ pc[Seq] = "forget")
    /\ UNCHANGED <<mem, worldVars, cacheVars, left, draft, countVars, loaded,
                   unread, cleared>>

\* ... or of the game's action bar.
Download(t) ==
    /\ pc[t] = "download"
    /\ buttons' = [buttons EXCEPT ![t] = bar.buttons]
    /\ Goto(t, "label")
    /\ UNCHANGED <<mem, worldVars, cacheVars, left, draft, countVars,
                   historyVars>>

\* makeStateJSON: the label is taken from the status, not from the state ...
ReadLabel(t) ==
    /\ pc[t] = "label"
    /\ draft' = [draft EXCEPT ![t].day = today]
    /\ Goto(t, "copy")
    /\ UNCHANGED <<mem, worldVars, cacheVars, left, buttons, countVars,
                   historyVars>>

\* ... and the state is read again.
CopyState(t) ==
    /\ pc[t] = "copy"
    /\ draft' = [draft EXCEPT ![t].map = mem.map]
    /\ Goto(t, "post")
    /\ odd' = odd \cup (IF mem.day # draft[t].day THEN {"mislabelled"} ELSE {})
                  \cup (IF ~loaded THEN {"unloaded"} ELSE {})
                  \cup (IF Plain(mem.map) # Plain(draft[t].map) THEN {"crossed"} ELSE {})
    /\ UNCHANGED <<mem, worldVars, cacheVars, left, buttons, countVars, loaded,
                   unread, cleared>>

NewBar(t) == [buttons |-> buttons[t], settings |-> draft[t]]

\* postPageRawNoScripts
PostBar(t) ==
    /\ pc[t] = "post"
    /\ bar' = NewBar(t)
    /\ Goto(t, "keep")
    /\ UNCHANGED <<mem, today, clicks, cacheVars, left, draft, buttons, countVars,
                   historyVars>>

\* The answer has come, and the state file been written.
KeepBar(t) ==
    /\ pc[t] = "keep"
    /\ cached' = buttons[t]
    /\ Finish(t)
    /\ UNCHANGED <<mem, worldVars, lastState, age, left, draft, buttons,
                   countVars, historyVars>>

\* The status, the download, the post (executed or not) or the file fails: the
\* exception ends the thread, or the logout request.
FailStore(t) ==
    /\ pc[t] \in {"cache", "download", "label", "post", "keep"}
    /\ errors < MaxErrors
    /\ errors' = errors + 1
    /\ bar' \in {bar} \cup (IF pc[t] = "post" THEN {NewBar(t)} ELSE {})
    /\ Goto(t, IF t = Seq THEN "idle" ELSE "done")
    /\ Note("failed", TRUE)
    /\ UNCHANGED <<mem, today, clicks, cacheVars, left, draft, buttons, requests,
                   loaded, unread, cleared>>

-----------------------------------------------------------------------------

\* A page's status is the first to show a new day (or a new ascension).
NewDay ==
    /\ today < MaxDay
    /\ today' = today + 1
    /\ UNCHANGED <<mem, bar, clicks, cacheVars, threadVars, countVars,
                   historyVars>>

\* Time matters up to Delay only.
Tick ==
    /\ age < Delay \/ \E s \in Stores : left[s] > 0
    /\ age' = IF age < Delay THEN age + 1 ELSE age
    /\ left' = [s \in Stores |-> IF left[s] > 0 THEN left[s] - 1 ELSE 0]
    /\ UNCHANGED <<mem, worldVars, cached, lastState, pc, draft, buttons,
                   countVars, historyVars>>

AtRest == \A t \in Thread : pc[t] \in {"idle", "done"}
Rest   == AtRest /\ UNCHANGED vars

Load == MakeRef \/ Login \/ InitState \/ FetchBar \/ LoadRead \/ LoadWrite
Write(w) == \E s \in Stores : SetWrite(w, s)
StoreStep(t) ==
    \/ Begin(t) \/ ReadState(t) \/ Compare(t) \/ TakeCached(t) \/ Download(t)
    \/ ReadLabel(t) \/ CopyState(t) \/ PostBar(t) \/ KeepBar(t) \/ FailStore(t)

Next ==
    \/ Load
    \/ \E p \in Procs : StartProc(p)
    \/ \E w \in Setter, k \in Key : \E v \in Choices(k, mem.day) : SetRead(w, k, v)
    \/ \E w \in Setter : Write(w) \/ ScriptDone(w)
    \/ PostButtons \/ ForgetBar \/ Logout
    \/ \E s \in Stores : Wake(s)
    \/ \E t \in Storer : StoreStep(t)
    \/ NewDay \/ Tick \/ Rest

Spec == Init /\ [][Next]_vars

\* Threads run and time passes; what scripts and browsers do next is not fair.
FairSpec ==
    /\ Spec
    /\ \A w \in Setter : WF_vars(Write(w))
    /\ \A s \in Stores : WF_vars(Wake(s))
    /\ \A t \in Storer : WF_vars(StoreStep(t))
    /\ WF_vars(Tick)

-----------------------------------------------------------------------------
(* Properties.                                                              *)

TypeOK ==
    /\ mem \in Settings
    /\ today \in Nat
    /\ bar \in [buttons : Nat, settings : Settings \cup {None}]
    /\ cached \in Nat \cup {None}
    /\ lastState \in [Key -> Setting] \cup {None}
    /\ age \in 0 .. Delay
    /\ left \in [Stores -> 0 .. Delay]
    /\ pc \in [Thread -> {"idle", "init", "fetch", "merge", "put", "script", "set",
                          "forget", "delay", "begin", "read", "compare", "cache",
                          "download", "label", "copy", "post", "keep", "done"}]
    /\ draft \in [Thread -> Settings \cup {None}]
    /\ buttons \in [Storer -> Nat \cup {None}]
    /\ loaded \in BOOLEAN /\ unread \in BOOLEAN
    /\ cleared \subseteq Key

\* A change that no store has read will be: either the delayed thread that will
\* is still waiting, or a store is about to read.  Skipping a store because one
\* began less than ten seconds ago never skips a change.
NoChangeForgotten ==
    unread =>
        \/ \E s \in Stores : pc[s] = "delay"
        \/ \E t \in Storer : pc[t] \in {"begin", "read"}

\* Every change is read by a store.
ChangesRead == unread ~> ~unread

\* The settings the game has for this day.
Stored(k) ==
    IF bar.settings = None THEN None
    ELSE IF k \in KeptKeys \/ bar.settings.day = today THEN bar.settings.map[k]
    ELSE None

\* When nothing is under way the game has the settings that are in memory, unless
\* a step failed, two stores or a store and a load crossed, a store posted others
\* than it compared, or the settings of a day were stored as another day's, taken
\* for stored already because they equal another day's, or written over those of a
\* later day.
ServerHasSettings ==
    AtRest /\ loaded /\ mem.day = today
        /\ odd \subseteq {"overwritten", "buttonsRaced"} =>
            \A k \in Key : Stored(k) = mem.map[k]

\* The game has the buttons the browser posted last, unless it posted them while
\* a store was between taking the old ones and keeping them.
ButtonsKept == "buttonsRaced" \notin odd => bar.buttons = clicks

\* A kept setting disappears from the game only if a script has unset it, one
\* thread's write overwrote another's, stores crossed, or one copied settings that
\* were still being loaded.
SettingsKept ==
    [][\A k \in KeptKeys :
           /\ bar.settings # None /\ bar.settings.map[k] # None
           /\ bar'.settings.map[k] = None
           => k \in cleared \/ odd \cap {"overwritten", "unloaded", "crossed"} # {}]_vars

\* A setting of the day is not seen on another day, unless it was stored under
\* another day or written back by a thread that had read it before.
DaySettingsExpire ==
    odd \cap {"overwritten", "mislabelled"} = {} =>
        \A k \in DayKeys : mem.map[k] \in {None, mem.day}

\* "Trying to set state ... before state is available" (LuaLibrary.hs:81): a
\* script that may set the state sets one that has been loaded.
SetsAvailableState ==
    [][\A k \in Key : \A v \in Choices(k, mem.day) : SetRead(Seq, k, v) => loaded]_vars

=============================================================================
