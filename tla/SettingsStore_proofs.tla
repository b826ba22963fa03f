------------------------- MODULE SettingsStore_proofs -------------------------
(***************************************************************************)
(* Proofs about SettingsStore, for any settings, threads and bounds:       *)
(* types, that no change is forgotten, that the buttons are kept, that the *)
(* settings of a day are not seen on another, that kept settings stay in   *)
(* the game, and that the game has the settings in memory when nothing is  *)
(* under way.                                                              *)
(***************************************************************************)
EXTENDS SettingsStore, TLAPS

-----------------------------------------------------------------------------
(* The invariants.                                                          *)

\* Where a thread has settings, or buttons, to go on with.
HasDraft(t) ==
    pc[t] \in {"set", "merge", "put", "compare", "cache", "download", "label",
               "copy", "post", "keep"}

TypeInv ==
    /\ TypeOK
    /\ clicks \in Nat
    /\ \A t \in Thread : HasDraft(t) => draft[t] \in Settings
    /\ \A t \in Storer : HoldsButtons(t) => buttons[t] \in Nat

\* A delayed store that is to read a change will find the ten seconds over: the
\* time it has left and the time since the last store make up the delay.
AgeInv ==
    unread =>
        \/ \E t \in Storer : pc[t] \in {"begin", "read"}
        \/ \E s \in Stores : pc[s] = "delay" /\ age + left[s] >= Delay

\* Whoever holds buttons holds those the browser posted last, except for the
\* cache between such a post and the page that empties it.
BarInv     == bar.buttons = clicks
HolderInv  == \A t \in Storer : HoldsButtons(t) => buttons[t] = clicks
CacheInv   == cached # None /\ pc[Seq] # "forget" => cached = clicks
ButtonsInv == "buttonsRaced" \notin odd => BarInv /\ HolderInv /\ CacheInv

\* The threads of scripts, and those that store, are where they can be.
PhaseInv ==
    /\ \A p \in Procs : pc[p] \in {"idle", "script", "set"}
    /\ \A s \in Stores : pc[s] \notin {"init", "fetch", "merge", "put", "script", "set",
                                       "forget"}
    /\ today >= 1
    /\ pc[Seq] \in {"fetch", "merge", "put"} => ~loaded

\* The settings of the day are for the day of the label.
OfDay(m) == \A k \in DayKeys : m.map[k] \in {None, m.day}

\* No setting of the day is anywhere under another day, unless that was noted; and
\* what the game has is no newer than what is in memory.
DayInv ==
    odd \cap {"overwritten", "mislabelled"} = {} =>
        /\ mem.day <= today /\ OfDay(mem)
        /\ pc[Seq] \in {"fetch", "merge", "put"} => mem.day >= 1
        /\ bar.settings # None =>
              /\ OfDay(bar.settings)
              /\ bar.settings.day <= mem.day \/ bar.settings.day = 1
        /\ pc[Seq] = "merge" =>
              OfDay(draft[Seq]) /\ (draft[Seq].day <= mem.day \/ draft[Seq].day = 1)
        /\ \A w \in Setter : pc[w] \in {"set", "put"} =>
              draft[w].day = mem.day /\ OfDay(draft[w])
        /\ \A t \in Storer : pc[t] = "post" =>
              draft[t].day <= mem.day /\ OfDay(draft[t])

\* Stores do not cross each other, or a load, unless that was noted.
LoneInv ==
    /\ "crossed" \notin odd =>
          \A t, u \in Storer : Storing(t) /\ Storing(u) => t = u
    /\ odd \cap {"crossed", "unloaded"} = {} /\ pc[Seq] \in {"merge", "put"} =>
          \A s \in Stores : pc[s] # "post"

\* The game has a value of a setting.
InBar(k) == bar.settings # None /\ bar.settings.map[k] # None

\* A setting that the game has is in memory once that was loaded, and wherever
\* settings are under way to memory or to the game ...
KeptWell(k) ==
    /\ InBar(k) /\ loaded => mem.map[k] # None
    /\ InBar(k) /\ pc[Seq] \in {"merge", "put"} => draft[Seq].map[k] # None
    /\ \A w \in Setter : pc[w] = "set" /\ mem.map[k] # None => draft[w].map[k] # None
    /\ \A t \in Storer : pc[t] = "post" =>
          /\ InBar(k) => draft[t].map[k] # None
          /\ draft[t].map[k] # None /\ loaded => mem.map[k] # None

\* ... if it was not unset and nothing else was noted.
MapInv ==
    odd \cap {"overwritten", "unloaded", "crossed"} = {} =>
        \A k \in KeptKeys \ cleared : KeptWell(k)

\* Settings are for no later day than today, and if for today then of today.
Fresh(m) == m.day <= today /\ (m.day = today => OfDay(m))

\* All settings are such, wherever they are, if no older ones were written over them
\* or stored as today's.
FreshInv ==
    "mislabelled" \notin odd =>
        /\ Fresh(mem)
        /\ bar.settings # None => Fresh(bar.settings)
        /\ pc[Seq] = "merge" => Fresh(draft[Seq])
        /\ \A w \in Setter : pc[w] \in {"set", "put"} => Fresh(draft[w])
        /\ \A t \in Storer : pc[t] = "post" => Fresh(draft[t])

\* A store has remembered settings that it has not posted yet.
Sending(t) == pc[t] \in {"cache", "download", "label", "copy", "post"}

\* What the last store remembered is in the game, or is on its way there.
LastInv ==
    odd \cap {"failed", "crossed"} = {} =>
        /\ \A t \in Storer : Sending(t) => lastState = Plain(draft[t].map)
        /\ (\A t \in Storer : ~Sending(t)) /\ lastState # None =>
              bar.settings # None /\ Plain(bar.settings.map) = lastState

\* The game has these settings.
Agree(m) ==
    \A k \in Key :
        m.map[k] = IF bar.settings = None \/ (k \in DayKeys /\ bar.settings.day # m.day)
                   THEN None ELSE bar.settings.map[k]

\* A store will find nothing to do.
Skips(t) ==
    /\ pc[t] = "compare" /\ bar.settings # None
    /\ lastState = Plain(draft[t].map) /\ bar.settings.day = draft[t].day

\* A store is going to post.
Busy == \E t \in Storer : Storing(t) /\ ~Skips(t)

\* The game has these settings, or will.
Served(m) == m.day = today => Agree(m) \/ Busy

\* What is being loaded is what the game has: no store posts during a load.
LoadInv ==
    odd \subseteq {"overwritten", "buttonsRaced"} =>
        /\ pc[Seq] = "merge" => bar.settings # None /\ draft[Seq] = bar.settings
        /\ pc[Seq] = "put" =>
              /\ bar.settings # None /\ draft[Seq].day <= mem.day
              /\ \A k \in KeptKeys : draft[Seq].map[k] = bar.settings.map[k]
              /\ bar.settings.day = today =>
                    \A k \in DayKeys : draft[Seq].map[k] = bar.settings.map[k]

\* If a store has read all changes, what is in memory, or is about to be loaded, is
\* in the game or on its way: while a load is under way memory has no settings of
\* the day that the game has not, or a store has read them.
ServedInv ==
    odd \subseteq {"overwritten", "buttonsRaced"} /\ ~unread =>
        /\ loaded => Served(mem)
        /\ loaded => \A t \in Storer : pc[t] = "post" => draft[t] = mem
        /\ pc[Seq] = "put" => Served(draft[Seq])
        /\ pc[Seq] \in {"fetch", "merge"} /\ mem.day = today =>
              \/ mem.map = Unset
              \/ bar.settings # None /\ bar.settings.day = today
              \/ Busy
        /\ pc[Seq] = "fetch" /\ (\E t \in Stores : pc[t] = "post") => mem.map = Unset

-----------------------------------------------------------------------------
(* Facts the proofs share.                                                  *)

\* Threads of different kinds do not meet.
LEMMA Threads ==
    /\ Setter \subseteq Thread /\ Storer \subseteq Thread
    /\ Stores \subseteq Storer /\ Procs \subseteq Setter
    /\ Seq \in Setter /\ Seq \in Storer /\ Seq \in Thread
    /\ Seq \notin Stores /\ Seq \notin Procs /\ Procs \cap Stores = {}
    /\ Setter \cap Stores = {} /\ Storer \cap Procs = {}
    /\ None \notin Nat
BY NamesAreDistinct DEF Setter, Storer, Thread

\* Setting one key gives settings.
LEMMA SetType ==
    ASSUME NEW m \in Settings, NEW k \in Key, NEW v \in Setting
    PROVE  [m EXCEPT !.map[k] = v] \in Settings
BY DEF Settings

\* What a script may set a key to is a setting.
LEMMA ChoicesType ==
    ASSUME NEW k \in Key, NEW d \in Nat
    PROVE  Choices(k, d) \subseteq Setting
BY DEF Choices, Setting

\* No settings are settings.
LEMMA UnsetType == Unset \in [Key -> Setting]
BY DEF Unset, Setting

\* The code's view of settings is settings.
LEMMA PlainType ==
    ASSUME NEW m \in [Key -> Setting]
    PROVE  Plain(m) \in [Key -> Setting]
BY DEF Plain, Setting

\* Settings have a label and contents.
LEMMA PartTypes ==
    ASSUME NEW m \in Settings
    PROVE  m.day \in Nat /\ m.map \in [Key -> Setting]
BY DEF Settings

\* Settings with another label are settings.
LEMMA LabelType ==
    ASSUME NEW m \in Settings, NEW d \in Nat
    PROVE  [m EXCEPT !.day = d] \in Settings
BY DEF Settings

\* Settings with other contents are settings.
LEMMA ContentsType ==
    ASSUME NEW m \in Settings, NEW f \in [Key -> Setting]
    PROVE  [m EXCEPT !.map = f] \in Settings
BY DEF Settings

\* What the types say of the variables that matter here.
LEMMA Shape ==
    ASSUME TypeInv
    PROVE  /\ pc = [t \in Thread |-> pc[t]] /\ draft = [t \in Thread |-> draft[t]]
           /\ mem \in Settings /\ mem.day \in Nat
           /\ mem.map = [k \in Key |-> mem.map[k]]
           /\ today \in Nat
           /\ bar = [buttons |-> bar.buttons, settings |-> bar.settings]
           /\ bar.settings # None => bar.settings \in Settings
           /\ \A t \in Thread : HasDraft(t) => draft[t] \in Settings
<1> USE DEF TypeInv, TypeOK
<1>1. pc = [t \in Thread |-> pc[t]] /\ draft = [t \in Thread |-> draft[t]]
  OBVIOUS
<1>2. bar = [buttons |-> bar.buttons, settings |-> bar.settings]
  OBVIOUS
<1>3. bar.settings # None => bar.settings \in Settings
  OBVIOUS
<1>4. mem.day \in Nat /\ mem.map = [k \in Key |-> mem.map[k]]
  BY PartTypes
<1> QED
  BY <1>1, <1>2, <1>3, <1>4

\* Settings of a day stay of that day when one is set, when all are unset, and when
\* those with the same label are copied.
LEMMA DayFacts ==
    /\ \A d \in Nat : [day |-> d, map |-> Unset].day = d
             /\ OfDay([day |-> d, map |-> Unset])
    /\ \A m \in Settings, k \in Key : \A v \in Choices(k, m.day) :
          /\ [m EXCEPT !.map[k] = v].day = m.day
          /\ OfDay(m) => OfDay([m EXCEPT !.map[k] = v])
    /\ \A m, n \in Settings :
          /\ [m EXCEPT !.map = n.map].day = m.day
          /\ OfDay(n) /\ m.day = n.day => OfDay([m EXCEPT !.map = n.map])
<1>1. \A k \in DayKeys : k \in Key /\ k \notin KeptKeys
  BY NamesAreDistinct DEF Key
<1>2. \A d \in Nat :
        [day |-> d, map |-> Unset].day = d /\ OfDay([day |-> d, map |-> Unset])
  BY <1>1 DEF OfDay, Unset
<1>3. ASSUME NEW m \in Settings, NEW k \in Key, NEW v \in Choices(k, m.day)
      PROVE  /\ [m EXCEPT !.map[k] = v].day = m.day
             /\ OfDay(m) => OfDay([m EXCEPT !.map[k] = v])
  <2> DEFINE n == [m EXCEPT !.map[k] = v]
  <2>1. n.day = m.day
    BY DEF Settings
  <2>2. \A j \in Key : n.map[j] = IF j = k THEN v ELSE m.map[j]
    BY DEF Settings
  <2>3. k \in DayKeys => v \in {None, m.day}
    BY <1>1 DEF Choices
  <2> HIDE DEF n
  <2>4. OfDay(m) => OfDay(n)
    BY <1>1, <2>1, <2>2, <2>3 DEF OfDay
  <2> QED
    BY <2>1, <2>4 DEF n
<1>4. \A m, n \in Settings :
        /\ [m EXCEPT !.map = n.map].day = m.day
        /\ OfDay(n) /\ m.day = n.day => OfDay([m EXCEPT !.map = n.map])
  BY DEF OfDay, Settings
<1> QED
  BY <1>2, <1>3, <1>4

\* Initially the game has settings of the first day, or none.
LEMMA FirstSettings ==
    ASSUME Init, bar.settings # None
    PROVE  OfDay(bar.settings) /\ bar.settings.day = 1
<1>1. PICK m \in [Key -> Values \cup {1, None}] :
        /\ bar.settings = [day |-> 1, map |-> m]
        /\ \A k \in Key : m[k] \in Choices(k, 1)
  BY DEF Init
<1>2. \A k \in DayKeys : k \in Key /\ k \notin KeptKeys
  BY NamesAreDistinct DEF Key
<1>3. \A k \in DayKeys : m[k] \in {None, 1}
  BY <1>1, <1>2 DEF Choices
<1> QED
  BY <1>1, <1>3 DEF OfDay

-----------------------------------------------------------------------------
(* Types.                                                                   *)

\* The initial state has the types.
LEMMA TypeInit == Init => TypeInv
<1> SUFFICES ASSUME Init PROVE TypeInv
  OBVIOUS
<1> USE Threads, DelayIsPositive
<1>1. mem \in Settings
  BY UnsetType DEF Init, Settings
<1>2. bar \in [buttons : Nat, settings : Settings \cup {None}]
  <2>1. \A m \in {f \in [Key -> Values \cup {1, None}] :
                     \A k \in Key : f[k] \in Choices(k, 1)} :
           [day |-> 1, map |-> m] \in Settings
    BY DEF Settings, Setting
  <2>2. bar.settings \in Settings \cup {None}
    BY <2>1 DEF Init
  <2> QED
    BY <2>2 DEF Init
<1>3. pc \in [Thread -> {"idle"}] /\ \A t \in Thread : pc[t] = "idle"
  BY DEF Init
<1>4. loaded \in BOOLEAN /\ unread \in BOOLEAN /\ cleared \subseteq Key
  BY DEF Init
<1>5. /\ today \in Nat /\ clicks \in Nat /\ cached = None /\ lastState = None
      /\ age \in 0 .. Delay /\ left \in [Stores -> 0 .. Delay]
      /\ draft \in [Thread -> {None}] /\ buttons \in [Storer -> {None}]
  BY DEF Init
<1>6. /\ draft \in [Thread -> Settings \cup {None}]
      /\ buttons \in [Storer -> Nat \cup {None}]
  BY <1>5
<1>7. pc \in [Thread -> {"idle", "init", "fetch", "merge", "put", "script", "set",
                          "forget", "delay", "begin", "read", "compare", "cache",
                          "download", "label", "copy", "post", "keep", "done"}]
  BY <1>3
<1>8. TypeOK
  BY <1>1, <1>2, <1>4, <1>5, <1>6, <1>7 DEF TypeOK
<1> QED
  BY <1>3, <1>5, <1>8 DEF TypeInv, HasDraft, HoldsButtons

\* Every step keeps the types.
LEMMA TypeStep == TypeInv /\ [Next]_vars => TypeInv'
<1> SUFFICES ASSUME TypeInv, [Next]_vars PROVE TypeInv'
  OBVIOUS
<1> USE Threads, DelayIsPositive
        DEF TypeInv, TypeOK, HasDraft, HoldsButtons, Goto, Note, WriteMem,
            worldVars, cacheVars, threadVars, countVars, historyVars
<1>1. CASE MakeRef
  BY <1>1 DEF MakeRef
<1>2. CASE InitState
  <2>1. mem' \in Settings
    BY <1>2, UnsetType DEF InitState, Settings
  <2> QED
    BY <1>2, <2>1 DEF InitState
<1>3. CASE FetchBar
  <2>1. bar.settings # None => bar.settings \in Settings
    OBVIOUS
  <2>2. \/ draft' = draft /\ pc'[Seq] \in {"script", "idle"}
        \/ /\ draft' = [draft EXCEPT ![Seq] = bar.settings] /\ pc'[Seq] = "merge"
           /\ bar.settings # None
    BY <1>3 DEF FetchBar
  <2>3. /\ \A t \in Thread : t # Seq => pc'[t] = pc[t]
        /\ pc'[Seq] \in {"script", "idle", "merge"}
    BY <1>3 DEF FetchBar
  <2>4. pc' \in [Thread -> {"idle", "init", "fetch", "merge", "put", "script", "set",
                           "forget", "delay", "begin", "read", "compare", "cache",
                           "download", "label", "copy", "post", "keep", "done"}]
    BY <1>3 DEF FetchBar
  <2>5. draft' \in [Thread -> Settings \cup {None}]
    BY <2>1, <2>2
  <2>6. \A t \in Thread : HasDraft(t)' => draft'[t] \in Settings
    BY <2>1, <2>2, <2>3
  <2>7. \A t \in Storer : HoldsButtons(t)' => HoldsButtons(t)
    BY <2>3
  <2>8. loaded' \in BOOLEAN
    BY <1>3 DEF FetchBar
  <2> QED
    BY <1>3, <2>4, <2>5, <2>6, <2>7, <2>8 DEF FetchBar
<1>4. CASE LoadRead
  <2>1. draft[Seq] \in Settings /\ mem \in Settings
    BY <1>4 DEF LoadRead
  <2>2. /\ draft[Seq].map \in [Key -> Setting] /\ mem.map \in [Key -> Setting]
        /\ mem.day \in Nat
    BY <2>1, PartTypes
  <2>3. draft'[Seq] \in Settings
    BY <1>4, <2>2 DEF LoadRead, Settings
  <2> QED
    BY <1>4, <2>3 DEF LoadRead
<1>5. CASE LoadWrite
  BY <1>5 DEF LoadWrite
<1>6. ASSUME NEW p \in Procs, StartProc(p) PROVE TypeInv'
  BY <1>6 DEF StartProc
<1>7. ASSUME NEW w \in Setter, NEW k \in Key, NEW v \in Choices(k, mem.day),
             SetRead(w, k, v)
      PROVE  TypeInv'
  <2>1. mem \in Settings /\ mem.day \in Nat
    BY PartTypes
  <2>2. v \in Setting
    BY <2>1, ChoicesType
  <2>3. [mem EXCEPT !.map[k] = v] \in Settings
    BY <2>1, <2>2, SetType
  <2> QED
    BY <1>7, <2>3 DEF SetRead
<1>8. ASSUME NEW w \in Setter, NEW s \in Stores, SetWrite(w, s) PROVE TypeInv'
  BY <1>8 DEF SetWrite
<1>9. ASSUME NEW w \in Setter, ScriptDone(w) PROVE TypeInv'
  BY <1>9 DEF ScriptDone
<1>10. CASE PostButtons
  BY <1>10 DEF PostButtons
<1>11. CASE ForgetBar
  BY <1>11 DEF ForgetBar
<1>12. CASE Logout
  BY <1>12 DEF Logout
<1>13. ASSUME NEW s \in Stores, Wake(s) PROVE TypeInv'
  BY <1>13 DEF Wake
<1>14. ASSUME NEW t \in Storer, Begin(t) PROVE TypeInv'
  BY <1>14 DEF Begin
<1>15. ASSUME NEW t \in Storer, ReadState(t) PROVE TypeInv'
  BY <1>15 DEF ReadState
<1>16. ASSUME NEW t \in Storer, Compare(t) PROVE TypeInv'
  <2>1. draft[t] \in Settings
    BY <1>16 DEF Compare
  <2>2. Plain(draft[t].map) \in [Key -> Setting]
    BY <2>1, PartTypes, PlainType
  <2>3. lastState' \in [Key -> Setting] \cup {None}
    BY <1>16, <2>2 DEF Compare
  <2> QED
    BY <1>16, <2>3 DEF Compare, Finish
<1>17. ASSUME NEW t \in Storer, TakeCached(t) PROVE TypeInv'
  BY <1>17 DEF TakeCached
<1>18. ASSUME NEW t \in Storer, Download(t) PROVE TypeInv'
  BY <1>18 DEF Download
<1>19. ASSUME NEW t \in Storer, ReadLabel(t) PROVE TypeInv'
  <2>1. draft[t] \in Settings
    BY <1>19 DEF ReadLabel
  <2>2. [draft[t] EXCEPT !.day = today] \in Settings
    BY <2>1, LabelType
  <2> QED
    BY <1>19, <2>2 DEF ReadLabel
<1>20. ASSUME NEW t \in Storer, CopyState(t) PROVE TypeInv'
  <2>1. draft[t] \in Settings
    BY <1>20 DEF CopyState
  <2>2. [draft[t] EXCEPT !.map = mem.map] \in Settings
    BY <2>1, PartTypes, ContentsType
  <2> QED
    BY <1>20, <2>2 DEF CopyState
<1>21. ASSUME NEW t \in Storer, PostBar(t) PROVE TypeInv'
  BY <1>21 DEF PostBar, NewBar
<1>22. ASSUME NEW t \in Storer, KeepBar(t) PROVE TypeInv'
  BY <1>22 DEF KeepBar, Finish
<1>23. ASSUME NEW t \in Storer, FailStore(t) PROVE TypeInv'
  <2>1. bar' \in [buttons : Nat, settings : Settings \cup {None}]
    BY <1>23 DEF FailStore, NewBar
  <2> QED
    BY <1>23, <2>1 DEF FailStore
<1>24. CASE NewDay
  BY <1>24 DEF NewDay
<1>25. CASE Tick
  <2>1. age' \in 0 .. Delay /\ left' \in [Stores -> 0 .. Delay]
    BY <1>25 DEF Tick
  <2> QED
    BY <1>25, <2>1 DEF Tick
<1>26. CASE UNCHANGED vars
  BY <1>26 DEF vars
<1>27. CASE Login
  BY <1>27 DEF Login
<1> QED
  BY <1>1, <1>2, <1>3, <1>4, <1>5, <1>6, <1>7, <1>8, <1>9, <1>10, <1>11, <1>12,
     <1>13, <1>14, <1>15, <1>16, <1>17, <1>18, <1>19, <1>20, <1>21, <1>22, <1>23,
     <1>24, <1>25, <1>26, <1>27 DEF Next, Load, Write, StoreStep, Rest

\* Types are an invariant.
THEOREM TypeCorrect == Spec => []TypeOK
<1>1. TypeInv => TypeOK
  BY DEF TypeInv
<1> QED
  BY <1>1, TypeInit, TypeStep, PTL DEF Spec

-----------------------------------------------------------------------------
(* No change is forgotten.                                                  *)

\* Nothing has changed at first.
LEMMA AgeInit == Init => AgeInv
<1>1. Init => ~unread
  BY DEF Init
<1> QED
  BY <1>1 DEF AgeInv

\* The delay is counted down while the time since the last store is counted up.
LEMMA AgeStep == TypeInv /\ AgeInv /\ [Next]_vars => AgeInv'
<1> SUFFICES ASSUME TypeInv, AgeInv, [Next]_vars PROVE AgeInv'
  OBVIOUS
<1> USE Threads, DelayIsPositive
<1>t. /\ age \in 0 .. Delay /\ left \in [Stores -> 0 .. Delay]
      /\ pc \in [Thread -> {"idle", "init", "fetch", "merge", "put", "script",
                            "set", "forget", "delay", "begin", "read", "compare",
                            "cache", "download", "label", "copy", "post", "keep",
                            "done"}]
  BY DEF TypeInv, TypeOK
\* A change that was forgotten before a step is read by nobody else's step.
<1>k. ASSUME NEW u \in Thread, unread' => unread, age' = age, left' = left,
             \A t \in Thread \ {u} : pc'[t] = pc[t],
             pc[u] \notin {"begin", "read", "delay"}
      PROVE  AgeInv'
  BY <1>k DEF AgeInv
<1>1. CASE Load
  BY <1>1, <1>t, <1>k DEF Load, MakeRef, Login, InitState, FetchBar, LoadRead,
     LoadWrite, Goto, WriteMem, Note, cacheVars, historyVars
<1>2. ASSUME NEW p \in Procs, StartProc(p) PROVE AgeInv'
  BY <1>2, <1>t, <1>k DEF StartProc, Goto, cacheVars, historyVars
<1>3. ASSUME NEW w \in Setter, NEW k \in Key, NEW v \in Choices(k, mem.day),
             SetRead(w, k, v)
      PROVE  AgeInv'
  BY <1>3, <1>t, <1>k DEF SetRead, Goto, cacheVars
<1>4. ASSUME NEW w \in Setter, NEW s \in Stores, SetWrite(w, s) PROVE AgeInv'
  <2>1. pc'[s] = "delay" /\ left'[s] = Delay /\ age' = age
    BY <1>4, <1>t DEF SetWrite, cacheVars
  <2> QED
    BY <2>1, <1>t DEF AgeInv
<1>5. ASSUME NEW w \in Setter, ScriptDone(w) PROVE AgeInv'
  BY <1>5, <1>t, <1>k DEF ScriptDone, Goto, cacheVars, historyVars
<1>6. CASE PostButtons \/ ForgetBar
  <2>1. CASE PostButtons
    BY <2>1, <1>t, <1>k DEF PostButtons, Goto, cacheVars
  <2>2. CASE ForgetBar
    BY <2>2, <1>t, <1>k DEF ForgetBar, Goto, historyVars
  <2> QED
    BY <1>6, <2>1, <2>2
<1>7. CASE Logout
  BY <1>7, <1>t DEF Logout, Goto, AgeInv
<1>8. ASSUME NEW s \in Stores, Wake(s) PROVE AgeInv'
  <2>1. CASE age >= Delay
    BY <1>8, <1>t, <2>1 DEF Wake, Goto, AgeInv
  <2>2. CASE ~(age >= Delay)
    <3>1. ~(age + left[s] >= Delay)
      BY <1>8, <1>t, <2>2 DEF Wake
    <3>2. \A t \in Thread : t # s => pc'[t] = pc[t]
      BY <1>8, <1>t DEF Wake, Goto
    <3>3. pc[s] = "delay" /\ age' = age /\ left' = left /\ unread' = unread
      BY <1>8 DEF Wake, cacheVars, historyVars
    <3> QED
      BY <3>1, <3>2, <3>3 DEF AgeInv
  <2> QED
    BY <2>1, <2>2
<1>9. ASSUME NEW t \in Storer, Begin(t) PROVE AgeInv'
  BY <1>9, <1>t DEF Begin, Goto, AgeInv
<1>10. ASSUME NEW t \in Storer, ReadState(t) PROVE AgeInv'
  BY <1>10 DEF ReadState, AgeInv
<1>11. ASSUME NEW t \in Storer, Compare(t) PROVE AgeInv'
  BY <1>11, <1>t, <1>k DEF Compare, Finish, Goto, Note, cacheVars
<1>12. ASSUME NEW t \in Storer,
              TakeCached(t) \/ Download(t) \/ ReadLabel(t) \/ CopyState(t)
       PROVE  AgeInv'
  BY <1>12, <1>t, <1>k DEF TakeCached, Download, ReadLabel, CopyState, Goto,
     cacheVars, historyVars
<1>13. ASSUME NEW t \in Storer, PostBar(t) \/ KeepBar(t) \/ FailStore(t)
       PROVE  AgeInv'
  <2>1. CASE PostBar(t)
    BY <2>1, <1>t, <1>k DEF PostBar, Goto, cacheVars, historyVars
  <2>2. CASE KeepBar(t)
    BY <2>2, <1>t, <1>k DEF KeepBar, Finish, Goto, historyVars
  <2>3. CASE FailStore(t)
    BY <2>3, <1>t, <1>k DEF FailStore, Goto, cacheVars
  <2> QED
    BY <1>13, <2>1, <2>2, <2>3
<1>14. CASE NewDay \/ UNCHANGED vars
  BY <1>14 DEF NewDay, vars, cacheVars, threadVars, historyVars, AgeInv
<1>15. CASE Tick
  <2>1. unread' = unread /\ pc' = pc
    BY <1>15 DEF Tick, historyVars
  <2>2. \A s \in Stores :
           age + left[s] >= Delay => age' + left'[s] >= Delay
    BY <1>15, <1>t DEF Tick
  <2> QED
    BY <2>1, <2>2 DEF AgeInv
<1> QED
  BY <1>1, <1>2, <1>3, <1>4, <1>5, <1>6, <1>7, <1>8, <1>9, <1>10, <1>11, <1>12,
     <1>13, <1>14, <1>15 DEF Next, Write, StoreStep, Rest

\* A change that no store has read has a delayed store that will not skip it, or
\* a store that is about to read: the ten-second rule forgets no change.
THEOREM NothingForgotten == Spec => []NoChangeForgotten
<1>1. AgeInv => NoChangeForgotten
  BY DEF AgeInv, NoChangeForgotten
<1> QED
  BY <1>1, TypeInit, TypeStep, AgeInit, AgeStep, PTL DEF Spec

-----------------------------------------------------------------------------
(* The buttons are kept.                                                    *)

\* There are no other buttons at first.
LEMMA ButtonsInit == Init => ButtonsInv
<1> SUFFICES ASSUME Init PROVE ButtonsInv
  OBVIOUS
<1> USE Threads DEF Init
<1>1. BarInv
  BY DEF BarInv
<1>2. HolderInv
  BY DEF HolderInv, HoldsButtons
<1>3. CacheInv
  BY DEF CacheInv
<1> QED
  BY <1>1, <1>2, <1>3 DEF ButtonsInv

\* A step that changes no buttons, and after which nobody new holds any, keeps
\* the invariant.
LEMMA ButtonsSame ==
    ASSUME ButtonsInv, odd \subseteq odd', UNCHANGED <<bar, clicks, cached, buttons>>,
           \A t \in Storer : HoldsButtons(t)' => HoldsButtons(t),
           pc[Seq] = "forget" => pc'[Seq] = "forget"
    PROVE  ButtonsInv'
BY DEF ButtonsInv, BarInv, HolderInv, CacheInv

\* Every step keeps the buttons, or is noted as racing for them.
LEMMA ButtonsStep == TypeInv /\ ButtonsInv /\ [Next]_vars => ButtonsInv'
<1> SUFFICES ASSUME TypeInv, ButtonsInv, [Next]_vars PROVE ButtonsInv'
  OBVIOUS
<1> USE Threads
<1>t. /\ pc \in [Thread -> {"idle", "init", "fetch", "merge", "put", "script",
                            "set", "forget", "delay", "begin", "read", "compare",
                            "cache", "download", "label", "copy", "post", "keep",
                            "done"}]
      /\ bar \in [buttons : Nat, settings : Settings \cup {None}]
      /\ buttons \in [Storer -> Nat \cup {None}]
      /\ clicks \in Nat
  BY DEF TypeInv, TypeOK
<1>1. CASE Load
  <2>1. /\ odd \subseteq odd' /\ UNCHANGED <<bar, clicks, cached, buttons>>
        /\ pc[Seq] # "forget"
    BY <1>1, <1>t DEF Load, MakeRef, Login, InitState, FetchBar, LoadRead, LoadWrite,
       WriteMem, Note, worldVars, cacheVars, historyVars
  <2>2. \A t \in Storer : HoldsButtons(t)' => HoldsButtons(t)
    BY <1>1, <1>t DEF Load, MakeRef, Login, InitState, FetchBar, LoadRead, LoadWrite,
       Goto, HoldsButtons
  <2> QED
    BY <2>1, <2>2, ButtonsSame
<1>2. ASSUME NEW p \in Procs, StartProc(p) PROVE ButtonsInv'
  BY <1>2, <1>t, ButtonsSame
     DEF StartProc, Goto, HoldsButtons, worldVars, cacheVars, historyVars
<1>3. ASSUME NEW w \in Setter, NEW k \in Key, NEW v \in Choices(k, mem.day),
             SetRead(w, k, v)
      PROVE  ButtonsInv'
  BY <1>3, <1>t, ButtonsSame DEF SetRead, Goto, HoldsButtons, worldVars, cacheVars
<1>4. ASSUME NEW w \in Setter, NEW s \in Stores, SetWrite(w, s) PROVE ButtonsInv'
  BY <1>4, <1>t, ButtonsSame
     DEF SetWrite, WriteMem, Note, HoldsButtons, worldVars, cacheVars
<1>5. ASSUME NEW w \in Setter, ScriptDone(w) PROVE ButtonsInv'
  BY <1>5, <1>t, ButtonsSame
     DEF ScriptDone, Goto, HoldsButtons, worldVars, cacheVars, historyVars
<1>6. CASE PostButtons
  <2>1. SUFFICES ASSUME "buttonsRaced" \notin odd'
                 PROVE  BarInv' /\ HolderInv' /\ CacheInv'
    BY DEF ButtonsInv
  <2>2. \A t \in Stores : ~HoldsButtons(t)
    BY <1>6, <2>1 DEF PostButtons, Note
  <2>3. bar'.buttons = clicks' /\ pc'[Seq] = "forget"
    BY <1>6, <1>t DEF PostButtons, Goto
  <2>4. \A t \in Storer : ~HoldsButtons(t)'
    BY <1>6, <1>t, <2>2, <2>3 DEF PostButtons, Goto, HoldsButtons, Storer
  <2> QED
    BY <2>3, <2>4 DEF BarInv, HolderInv, CacheInv
<1>7. CASE ForgetBar
  <2>1. \A t \in Storer : HoldsButtons(t)' => HoldsButtons(t)
    BY <1>7, <1>t DEF ForgetBar, Goto, HoldsButtons
  <2>2. UNCHANGED <<bar, clicks, buttons, odd>> /\ cached' = None
    BY <1>7 DEF ForgetBar, worldVars, historyVars
  <2> QED
    BY <2>1, <2>2 DEF ButtonsInv, BarInv, HolderInv, CacheInv
<1>8. CASE Logout
  BY <1>8, <1>t, ButtonsSame
     DEF Logout, Goto, HoldsButtons, worldVars, cacheVars, historyVars
<1>9. ASSUME NEW s \in Stores, Wake(s) PROVE ButtonsInv'
  BY <1>9, <1>t, ButtonsSame
     DEF Wake, Goto, HoldsButtons, worldVars, cacheVars, historyVars
<1>10. ASSUME NEW t \in Storer, Begin(t) PROVE ButtonsInv'
  BY <1>10, <1>t, ButtonsSame DEF Begin, Goto, HoldsButtons, worldVars, historyVars
<1>11. ASSUME NEW t \in Storer, ReadState(t) PROVE ButtonsInv'
  BY <1>11, <1>t, ButtonsSame
     DEF ReadState, Goto, Note, HoldsButtons, worldVars, cacheVars
<1>12. ASSUME NEW t \in Storer, Compare(t) PROVE ButtonsInv'
  BY <1>12, <1>t, ButtonsSame
     DEF Compare, Finish, Goto, Note, HoldsButtons, worldVars
<1>13. ASSUME NEW t \in Storer, TakeCached(t) PROVE ButtonsInv'
  <2>1. SUFFICES ASSUME "buttonsRaced" \notin odd'
                 PROVE  BarInv' /\ HolderInv' /\ CacheInv'
    BY DEF ButtonsInv
  <2>2. "buttonsRaced" \notin odd /\ ~(cached # None /\ pc[Seq] = "forget")
    BY <1>13, <2>1 DEF TakeCached, Note
  <2>3. BarInv /\ HolderInv /\ CacheInv
    BY <2>2 DEF ButtonsInv
  <2>4. /\ UNCHANGED <<bar, clicks, cached>> /\ buttons'[t] = cached
        /\ pc'[t] \in {"download", "label"}
        /\ pc'[t] = "label" => cached # None
        /\ pc[t] = "cache"
        /\ \A u \in Storer : u # t => pc'[u] = pc[u] /\ buttons'[u] = buttons[u]
    BY <1>13, <1>t DEF TakeCached, Goto, worldVars, cacheVars
  <2>5. HolderInv'
    <3>1. \A u \in Storer : u # t => (HoldsButtons(u)' <=> HoldsButtons(u))
      BY <2>4 DEF HoldsButtons
    <3>2. HoldsButtons(t)' => cached = clicks
      BY <2>2, <2>3, <2>4 DEF CacheInv, HoldsButtons
    <3> QED
      BY <2>3, <2>4, <3>1, <3>2 DEF HolderInv
  <2>6. BarInv' /\ CacheInv'
    BY <2>3, <2>4 DEF BarInv, CacheInv
  <2> QED
    BY <2>5, <2>6
<1>14. ASSUME NEW t \in Storer, Download(t) PROVE ButtonsInv'
  <2>1. /\ UNCHANGED <<bar, clicks, cached, odd>> /\ buttons'[t] = bar.buttons
        /\ pc'[t] = "label" /\ pc[t] = "download"
        /\ \A u \in Storer : u # t => pc'[u] = pc[u] /\ buttons'[u] = buttons[u]
    BY <1>14, <1>t DEF Download, Goto, worldVars, cacheVars, historyVars
  <2>2. BarInv /\ HolderInv => HolderInv'
    BY <2>1 DEF BarInv, HolderInv, HoldsButtons
  <2>3. BarInv /\ CacheInv => BarInv' /\ CacheInv'
    BY <2>1 DEF BarInv, CacheInv
  <2> QED
    BY <2>1, <2>2, <2>3 DEF ButtonsInv
<1>15. ASSUME NEW t \in Storer, ReadLabel(t) PROVE ButtonsInv'
  BY <1>15, <1>t, ButtonsSame
     DEF ReadLabel, Goto, HoldsButtons, worldVars, cacheVars, historyVars
<1>16. ASSUME NEW t \in Storer, CopyState(t) PROVE ButtonsInv'
  BY <1>16, <1>t, ButtonsSame
     DEF CopyState, Goto, HoldsButtons, worldVars, cacheVars
<1>17. ASSUME NEW t \in Storer, PostBar(t) \/ FailStore(t) PROVE ButtonsInv'
  <2>1. /\ UNCHANGED <<clicks, cached, buttons>> /\ odd \subseteq odd'
        /\ bar' = bar \/ (HoldsButtons(t) /\ bar'.buttons = buttons[t])
        /\ pc[t] # "forget"
    BY <1>17 DEF PostBar, FailStore, NewBar, HoldsButtons, Note, cacheVars,
       historyVars
  <2>2. \A u \in Storer : HoldsButtons(u)' => HoldsButtons(u)
    BY <1>17, <1>t DEF PostBar, FailStore, Goto, HoldsButtons
  <2>3. pc[Seq] = "forget" => pc'[Seq] = "forget"
    BY <1>17, <1>t, <2>1 DEF PostBar, FailStore, Goto
  <2> QED
    BY <2>1, <2>2, <2>3 DEF ButtonsInv, BarInv, HolderInv, CacheInv
<1>18. ASSUME NEW t \in Storer, KeepBar(t) PROVE ButtonsInv'
  <2>1. /\ UNCHANGED <<bar, clicks, buttons, odd>> /\ cached' = buttons[t]
        /\ HoldsButtons(t)
    BY <1>18 DEF KeepBar, HoldsButtons, worldVars, historyVars
  <2>2. \A u \in Storer : HoldsButtons(u)' => HoldsButtons(u)
    BY <1>18, <1>t DEF KeepBar, Finish, Goto, HoldsButtons
  <2> QED
    BY <2>1, <2>2 DEF ButtonsInv, BarInv, HolderInv, CacheInv
<1>19. CASE NewDay \/ Tick \/ UNCHANGED vars
  BY <1>19, ButtonsSame DEF NewDay, Tick, vars, HoldsButtons, worldVars, cacheVars,
     threadVars, historyVars
<1> QED
  BY <1>1, <1>2, <1>3, <1>4, <1>5, <1>6, <1>7, <1>8, <1>9, <1>10, <1>11, <1>12,
     <1>13, <1>14, <1>15, <1>16, <1>17, <1>18, <1>19 DEF Next, Write, StoreStep, Rest

\* Unless the browser changes its buttons while a store holds the old ones, the
\* game has the buttons that the browser posted last, whoever stored settings in
\* the same action bar since.
THEOREM ButtonsSafe == Spec => []ButtonsKept
<1>1. ButtonsInv => ButtonsKept
  BY DEF ButtonsInv, BarInv, ButtonsKept
<1> QED
  BY <1>1, TypeInit, TypeStep, ButtonsInit, ButtonsStep, PTL DEF Spec

-----------------------------------------------------------------------------
(* Where the threads are, and stores that do not cross.                     *)

\* Initially the threads are where they can be, and nothing is under way.
LEMMA PhaseInit == Init => PhaseInv /\ LoneInv
BY Threads DEF Init, PhaseInv, LoneInv, Storing

\* Threads are where they can be.
LEMMA PhaseStep == TypeInv /\ PhaseInv /\ [Next]_vars => PhaseInv'
<1> SUFFICES ASSUME TypeInv, PhaseInv, [Next]_vars PROVE PhaseInv'
  OBVIOUS
<1>t. /\ pc = [t \in Thread |-> pc[t]] /\ draft = [t \in Thread |-> draft[t]]
      /\ mem.day \in Nat /\ today \in Nat
  BY Shape
<1> USE Threads DEF PhaseInv
<1>1. ASSUME MakeRef PROVE PhaseInv'
  BY <1>1, <1>t DEF MakeRef, Goto, worldVars, cacheVars, threadVars, countVars,
     historyVars
<1>2. ASSUME Login PROVE PhaseInv'
  BY <1>2, <1>t DEF Login, Goto, worldVars, cacheVars, threadVars, countVars,
     historyVars
<1>3. ASSUME InitState PROVE PhaseInv'
  BY <1>3, <1>t DEF InitState, WriteMem, Note, Goto, worldVars, cacheVars,
     threadVars, countVars, historyVars
<1>4. ASSUME FetchBar PROVE PhaseInv'
  BY <1>4, <1>t DEF FetchBar, Note, Goto, worldVars, cacheVars, threadVars,
     countVars, historyVars
<1>5. ASSUME LoadRead PROVE PhaseInv'
  BY <1>5, <1>t DEF LoadRead, Goto, worldVars, cacheVars, threadVars, countVars,
     historyVars
<1>6. ASSUME LoadWrite PROVE PhaseInv'
  BY <1>6, <1>t DEF LoadWrite, WriteMem, Note, Goto, worldVars, cacheVars,
     threadVars, countVars, historyVars
<1>7. ASSUME NEW p \in Procs, StartProc(p) PROVE PhaseInv'
  BY <1>7, <1>t DEF StartProc, Goto, worldVars, cacheVars, threadVars, countVars,
     historyVars
<1>8. ASSUME NEW w \in Setter, NEW k \in Key, NEW v \in Choices(k, mem.day), SetRead(w, k, v)
      PROVE PhaseInv'
  BY <1>8, <1>t DEF SetRead, Goto, worldVars, cacheVars, threadVars, countVars,
     historyVars
<1>9. ASSUME NEW w \in Setter, NEW s \in Stores, SetWrite(w, s) PROVE PhaseInv'
  BY <1>9, <1>t DEF SetWrite, WriteMem, Note, worldVars, cacheVars, threadVars,
     countVars, historyVars
<1>10. ASSUME NEW w \in Setter, ScriptDone(w) PROVE PhaseInv'
  BY <1>10, <1>t DEF ScriptDone, Goto, worldVars, cacheVars, threadVars, countVars,
     historyVars
<1>11. ASSUME PostButtons PROVE PhaseInv'
  BY <1>11, <1>t DEF PostButtons, Note, Goto, worldVars, cacheVars, threadVars,
     countVars, historyVars
<1>12. ASSUME ForgetBar PROVE PhaseInv'
  BY <1>12, <1>t DEF ForgetBar, Goto, worldVars, cacheVars, threadVars, countVars,
     historyVars
<1>13. ASSUME Logout PROVE PhaseInv'
  BY <1>13, <1>t DEF Logout, Goto, worldVars, cacheVars, threadVars, countVars,
     historyVars
<1>14. ASSUME NEW s \in Stores, Wake(s) PROVE PhaseInv'
  BY <1>14, <1>t DEF Wake, Goto, worldVars, cacheVars, threadVars, countVars,
     historyVars
<1>15. ASSUME NEW t \in Storer, Begin(t) PROVE PhaseInv'
  BY <1>15, <1>t DEF Begin, Goto, worldVars, cacheVars, threadVars, countVars,
     historyVars
<1>16. ASSUME NEW t \in Storer, ReadState(t) PROVE PhaseInv'
  BY <1>16, <1>t DEF ReadState, Note, Goto, worldVars, cacheVars, threadVars,
     countVars, historyVars
<1>17. ASSUME NEW t \in Storer, Compare(t) PROVE PhaseInv'
  BY <1>17, <1>t DEF Compare, Note, Finish, Goto, worldVars, cacheVars, threadVars,
     countVars, historyVars
<1>18. ASSUME NEW t \in Storer, TakeCached(t) PROVE PhaseInv'
  BY <1>18, <1>t DEF TakeCached, Note, Goto, worldVars, cacheVars, threadVars,
     countVars, historyVars
<1>19. ASSUME NEW t \in Storer, Download(t) PROVE PhaseInv'
  BY <1>19, <1>t DEF Download, Goto, worldVars, cacheVars, threadVars, countVars,
     historyVars
<1>20. ASSUME NEW t \in Storer, ReadLabel(t) PROVE PhaseInv'
  BY <1>20, <1>t DEF ReadLabel, Goto, worldVars, cacheVars, threadVars, countVars,
     historyVars
<1>21. ASSUME NEW t \in Storer, CopyState(t) PROVE PhaseInv'
  BY <1>21, <1>t DEF CopyState, Goto, worldVars, cacheVars, threadVars, countVars,
     historyVars
<1>22. ASSUME NEW t \in Storer, PostBar(t) PROVE PhaseInv'
  BY <1>22, <1>t DEF PostBar, NewBar, Goto, worldVars, cacheVars, threadVars,
     countVars, historyVars
<1>23. ASSUME NEW t \in Storer, KeepBar(t) PROVE PhaseInv'
  BY <1>23, <1>t DEF KeepBar, Finish, Goto, worldVars, cacheVars, threadVars,
     countVars, historyVars
<1>24. ASSUME NEW t \in Storer, FailStore(t) PROVE PhaseInv'
  BY <1>24, <1>t DEF FailStore, Note, NewBar, Goto, worldVars, cacheVars,
     threadVars, countVars, historyVars
<1>25. ASSUME NewDay PROVE PhaseInv'
  BY <1>25, <1>t DEF NewDay, Goto, worldVars, cacheVars, threadVars, countVars,
     historyVars
<1>26. ASSUME Tick PROVE PhaseInv'
  BY <1>26, <1>t DEF Tick, Goto, worldVars, cacheVars, threadVars, countVars,
     historyVars
<1>27. CASE UNCHANGED vars
  BY <1>27, <1>t DEF vars, worldVars, cacheVars, threadVars, countVars, historyVars
<1> HIDE DEF PhaseInv
<1> QED
  BY <1>1, <1>2, <1>3, <1>4, <1>5, <1>6, <1>7, <1>8, <1>9, <1>10, <1>11,
     <1>12, <1>13, <1>14, <1>15, <1>16, <1>17, <1>18, <1>19, <1>20, <1>21,
     <1>22, <1>23, <1>24, <1>25, <1>26, <1>27
  DEF Next, Load, Write, StoreStep, Rest

\* Stores do not cross.
LEMMA LoneStep == TypeInv /\ PhaseInv /\ LoneInv /\ [Next]_vars => LoneInv'
<1> SUFFICES ASSUME TypeInv, PhaseInv, LoneInv, [Next]_vars PROVE LoneInv'
  OBVIOUS
<1>t. /\ pc = [t \in Thread |-> pc[t]] /\ draft = [t \in Thread |-> draft[t]]
      /\ mem.day \in Nat /\ today \in Nat
  BY Shape
<1> USE Threads DEF PhaseInv, LoneInv, Storing
<1>1. ASSUME MakeRef PROVE LoneInv'
  BY <1>1, <1>t DEF MakeRef, Goto, worldVars, cacheVars, threadVars, countVars,
     historyVars
<1>2. ASSUME Login PROVE LoneInv'
  BY <1>2, <1>t DEF Login, Goto, worldVars, cacheVars, threadVars, countVars,
     historyVars
<1>3. ASSUME InitState PROVE LoneInv'
  BY <1>3, <1>t DEF InitState, WriteMem, Note, Goto, worldVars, cacheVars,
     threadVars, countVars, historyVars
<1>4. ASSUME FetchBar PROVE LoneInv'
  BY <1>4, <1>t DEF FetchBar, Note, Goto, worldVars, cacheVars, threadVars,
     countVars, historyVars
<1>5. ASSUME LoadRead PROVE LoneInv'
  BY <1>5, <1>t DEF LoadRead, Goto, worldVars, cacheVars, threadVars, countVars,
     historyVars
<1>6. ASSUME LoadWrite PROVE LoneInv'
  BY <1>6, <1>t DEF LoadWrite, WriteMem, Note, Goto, worldVars, cacheVars,
     threadVars, countVars, historyVars
<1>7. ASSUME NEW p \in Procs, StartProc(p) PROVE LoneInv'
  BY <1>7, <1>t DEF StartProc, Goto, worldVars, cacheVars, threadVars, countVars,
     historyVars
<1>8. ASSUME NEW w \in Setter, NEW k \in Key, NEW v \in Choices(k, mem.day), SetRead(w, k, v)
      PROVE LoneInv'
  BY <1>8, <1>t DEF SetRead, Goto, worldVars, cacheVars, threadVars, countVars,
     historyVars
<1>9. ASSUME NEW w \in Setter, NEW s \in Stores, SetWrite(w, s) PROVE LoneInv'
  BY <1>9, <1>t DEF SetWrite, WriteMem, Note, worldVars, cacheVars, threadVars,
     countVars, historyVars
<1>10. ASSUME NEW w \in Setter, ScriptDone(w) PROVE LoneInv'
  BY <1>10, <1>t DEF ScriptDone, Goto, worldVars, cacheVars, threadVars, countVars,
     historyVars
<1>11. ASSUME PostButtons PROVE LoneInv'
  BY <1>11, <1>t DEF PostButtons, Note, Goto, worldVars, cacheVars, threadVars,
     countVars, historyVars
<1>12. ASSUME ForgetBar PROVE LoneInv'
  BY <1>12, <1>t DEF ForgetBar, Goto, worldVars, cacheVars, threadVars, countVars,
     historyVars
<1>13. ASSUME Logout PROVE LoneInv'
  BY <1>13, <1>t DEF Logout, Goto, worldVars, cacheVars, threadVars, countVars,
     historyVars
<1>14. ASSUME NEW s \in Stores, Wake(s) PROVE LoneInv'
  BY <1>14, <1>t DEF Wake, Goto, worldVars, cacheVars, threadVars, countVars,
     historyVars
<1>15. ASSUME NEW t \in Storer, Begin(t) PROVE LoneInv'
  BY <1>15, <1>t DEF Begin, Goto, worldVars, cacheVars, threadVars, countVars,
     historyVars
<1>16. ASSUME NEW t \in Storer, ReadState(t) PROVE LoneInv'
  BY <1>16, <1>t DEF ReadState, Note, Goto, worldVars, cacheVars, threadVars,
     countVars, historyVars
<1>17. ASSUME NEW t \in Storer, Compare(t) PROVE LoneInv'
  BY <1>17, <1>t DEF Compare, Note, Finish, Goto, worldVars, cacheVars, threadVars,
     countVars, historyVars
<1>18. ASSUME NEW t \in Storer, TakeCached(t) PROVE LoneInv'
  BY <1>18, <1>t DEF TakeCached, Note, Goto, worldVars, cacheVars, threadVars,
     countVars, historyVars
<1>19. ASSUME NEW t \in Storer, Download(t) PROVE LoneInv'
  BY <1>19, <1>t DEF Download, Goto, worldVars, cacheVars, threadVars, countVars,
     historyVars
<1>20. ASSUME NEW t \in Storer, ReadLabel(t) PROVE LoneInv'
  BY <1>20, <1>t DEF ReadLabel, Goto, worldVars, cacheVars, threadVars, countVars,
     historyVars
<1>21. ASSUME NEW t \in Storer, CopyState(t) PROVE LoneInv'
  BY <1>21, <1>t DEF CopyState, Goto, worldVars, cacheVars, threadVars, countVars,
     historyVars
<1>22. ASSUME NEW t \in Storer, PostBar(t) PROVE LoneInv'
  BY <1>22, <1>t DEF PostBar, NewBar, Goto, worldVars, cacheVars, threadVars,
     countVars, historyVars
<1>23. ASSUME NEW t \in Storer, KeepBar(t) PROVE LoneInv'
  BY <1>23, <1>t DEF KeepBar, Finish, Goto, worldVars, cacheVars, threadVars,
     countVars, historyVars
<1>24. ASSUME NEW t \in Storer, FailStore(t) PROVE LoneInv'
  BY <1>24, <1>t DEF FailStore, Note, NewBar, Goto, worldVars, cacheVars,
     threadVars, countVars, historyVars
<1>25. ASSUME NewDay PROVE LoneInv'
  BY <1>25, <1>t DEF NewDay, Goto, worldVars, cacheVars, threadVars, countVars,
     historyVars
<1>26. ASSUME Tick PROVE LoneInv'
  BY <1>26, <1>t DEF Tick, Goto, worldVars, cacheVars, threadVars, countVars,
     historyVars
<1>27. CASE UNCHANGED vars
  BY <1>27, <1>t DEF vars, worldVars, cacheVars, threadVars, countVars, historyVars
<1> HIDE DEF PhaseInv, LoneInv, Storing
<1> QED
  BY <1>1, <1>2, <1>3, <1>4, <1>5, <1>6, <1>7, <1>8, <1>9, <1>10, <1>11,
     <1>12, <1>13, <1>14, <1>15, <1>16, <1>17, <1>18, <1>19, <1>20, <1>21,
     <1>22, <1>23, <1>24, <1>25, <1>26, <1>27
  DEF Next, Load, Write, StoreStep, Rest

-----------------------------------------------------------------------------
(* Settings of the day are not seen on another day.                         *)

\* Initially all settings are of the first day.
LEMMA DayInit == Init => DayInv
<1> SUFFICES ASSUME Init PROVE DayInv
  OBVIOUS
<1> USE Threads
<1>1. mem.day = 0 /\ today = 1 /\ OfDay(mem)
  BY NamesAreDistinct DEF Init, OfDay, Unset, Key
<1>2. bar.settings # None => OfDay(bar.settings) /\ bar.settings.day = 1
  BY FirstSettings
<1>3. \A t \in Thread : pc[t] = "idle"
  BY DEF Init
<1> QED
  BY <1>1, <1>2, <1>3 DEF DayInv

\* Settings of the day keep their label.
LEMMA DayStep == TypeInv /\ PhaseInv /\ DayInv /\ [Next]_vars => DayInv'
<1> SUFFICES ASSUME TypeInv, PhaseInv, DayInv, [Next]_vars PROVE DayInv'
  OBVIOUS
<1>t. /\ pc = [t \in Thread |-> pc[t]] /\ draft = [t \in Thread |-> draft[t]]
      /\ mem.day \in Nat /\ today \in Nat
  BY Shape
<1> USE Threads DEF PhaseInv, DayInv
<1>1. ASSUME MakeRef PROVE DayInv'
  BY <1>1, <1>t DEF MakeRef, Goto, worldVars, cacheVars, threadVars, countVars,
     historyVars
<1>2. ASSUME Login PROVE DayInv'
  BY <1>2, <1>t DEF Login, Goto, worldVars, cacheVars, threadVars, countVars,
     historyVars
<1>3. ASSUME InitState PROVE DayInv'
  <2>1. /\ mem' = [day |-> today, map |-> Unset] /\ pc' = [pc EXCEPT ![Seq] = "fetch"]
        /\ UNCHANGED <<today, bar, draft>> /\ pc[Seq] = "init"
        /\ odd \subseteq odd'
        /\ ((\E t \in Setter \ {Seq} : Writing(t)) => "overwritten" \in odd')
    BY <1>3, <1>t DEF InitState, WriteMem, Note, Goto, worldVars
  <2>2. mem'.day = today /\ OfDay(mem')
    BY <1>t, <2>1, DayFacts
  <2> SUFFICES ASSUME odd' \cap {"overwritten", "mislabelled"} = {}
               PROVE  DayInv'
    BY DEF DayInv
  <2>3. odd \cap {"overwritten", "mislabelled"} = {}
           /\ \A t \in Setter \ {Seq} : ~Writing(t)
    BY <2>1
  <2>4. \A w \in Setter : pc'[w] \notin {"set", "put"}
    BY <1>t, <2>1, <2>3 DEF Writing
  <2>5. \A t \in Storer : pc'[t] = "post" => pc[t] = "post"
    BY <1>t, <2>1
  <2>6. \A t \in Storer : pc'[t] = "post" => draft[t].day <= today /\ OfDay(draft[t])
    <3>1. \A t \in Storer : pc[t] = "post" => draft[t].day \in Nat
      BY Shape, PartTypes DEF HasDraft
    <3> QED
      BY <1>t, <2>3, <2>5, <3>1
  <2>7. bar.settings # None =>
           OfDay(bar.settings) /\ (bar.settings.day <= today \/ bar.settings.day = 1)
    <3>1. bar.settings # None => bar.settings.day \in Nat
      BY Shape, PartTypes
    <3> QED
      BY <1>t, <2>3, <3>1
  <2>8. pc'[Seq] = "fetch"
    BY <1>t, <2>1
  <2> QED
    BY <1>t, <2>1, <2>2, <2>4, <2>6, <2>7, <2>8
<1>4. ASSUME FetchBar PROVE DayInv'
  BY <1>4, <1>t DEF FetchBar, Note, Goto, worldVars, cacheVars, threadVars,
     countVars, historyVars
<1>5. ASSUME LoadRead PROVE DayInv'
  <2> DEFINE new == [day |-> mem.day,
                     map |-> [k \in Key |-> IF k \in KeptKeys \/ draft[Seq].day = today
                                            THEN draft[Seq].map[k] ELSE mem.map[k]]]
  <2>1. /\ draft' = [draft EXCEPT ![Seq] = new] /\ pc' = [pc EXCEPT ![Seq] = "put"]
        /\ UNCHANGED <<mem, today, bar, odd>> /\ pc[Seq] = "merge"
    BY <1>5, <1>t DEF LoadRead, Goto, worldVars, historyVars
  <2> SUFFICES ASSUME odd \cap {"overwritten", "mislabelled"} = {}
               PROVE  DayInv'
    BY <2>1 DEF DayInv
  <2>2. draft[Seq] \in Settings /\ draft[Seq].day \in Nat
    BY <2>1, Shape, PartTypes DEF HasDraft
  <2>3. draft[Seq].day = today => mem.day = today
    BY <1>t, <2>1, <2>2
  <2>4. new.day = mem.day /\ \A k \in DayKeys : k \in Key /\ k \notin KeptKeys
    BY NamesAreDistinct DEF Key
  <2>5. OfDay(new)
    <3>1. \A k \in DayKeys : new.map[k] = IF draft[Seq].day = today
                                          THEN draft[Seq].map[k] ELSE mem.map[k]
      BY <2>4
    <3>2. OfDay(draft[Seq]) /\ OfDay(mem)
      BY <2>1
    <3> HIDE DEF new
    <3> QED
      BY <2>3, <2>4, <3>1, <3>2 DEF OfDay
  <2> HIDE DEF new
  <2>6. draft'[Seq] = new /\ \A t \in Thread : t # Seq => draft'[t] = draft[t]
    BY <1>t, <2>1
  <2>7. pc'[Seq] = "put" /\ \A t \in Thread : t # Seq => pc'[t] = pc[t]
    BY <1>t, <2>1
  <2> QED
    BY <2>1, <2>4, <2>5, <2>6, <2>7
<1>6. ASSUME LoadWrite PROVE DayInv'
  BY <1>6, <1>t DEF LoadWrite, WriteMem, Note, Goto, worldVars, cacheVars,
     threadVars, countVars, historyVars
<1>7. ASSUME NEW p \in Procs, StartProc(p) PROVE DayInv'
  BY <1>7, <1>t DEF StartProc, Goto, worldVars, cacheVars, threadVars, countVars,
     historyVars
<1>8. ASSUME NEW w \in Setter, NEW k \in Key, NEW v \in Choices(k, mem.day), SetRead(w, k, v)
      PROVE DayInv'
  <2> DEFINE new == [mem EXCEPT !.map[k] = v]
  <2>1. /\ draft' = [draft EXCEPT ![w] = new] /\ pc' = [pc EXCEPT ![w] = "set"]
        /\ UNCHANGED <<mem, today, bar, odd>> /\ pc[w] = "script"
    BY <1>8, <1>t DEF SetRead, Goto, worldVars
  <2>2. new.day = mem.day /\ (OfDay(mem) => OfDay(new))
    BY Shape, DayFacts
  <2> HIDE DEF new
  <2>3. draft'[w] = new /\ \A t \in Thread : t # w => draft'[t] = draft[t]
    BY <1>t, <2>1
  <2>4. pc'[w] = "set" /\ \A t \in Thread : t # w => pc'[t] = pc[t]
    BY <1>t, <2>1
  <2> QED
    BY <2>1, <2>2, <2>3, <2>4
<1>9. ASSUME NEW w \in Setter, NEW s \in Stores, SetWrite(w, s) PROVE DayInv'
  BY <1>9, <1>t DEF SetWrite, WriteMem, Note, worldVars, cacheVars, threadVars,
     countVars, historyVars
<1>10. ASSUME NEW w \in Setter, ScriptDone(w) PROVE DayInv'
  BY <1>10, <1>t DEF ScriptDone, Goto, worldVars, cacheVars, threadVars, countVars,
     historyVars
<1>11. ASSUME PostButtons PROVE DayInv'
  BY <1>11, <1>t DEF PostButtons, Note, Goto, worldVars, cacheVars, threadVars,
     countVars, historyVars
<1>12. ASSUME ForgetBar PROVE DayInv'
  BY <1>12, <1>t DEF ForgetBar, Goto, worldVars, cacheVars, threadVars, countVars,
     historyVars
<1>13. ASSUME Logout PROVE DayInv'
  BY <1>13, <1>t DEF Logout, Goto, worldVars, cacheVars, threadVars, countVars,
     historyVars
<1>14. ASSUME NEW s \in Stores, Wake(s) PROVE DayInv'
  BY <1>14, <1>t DEF Wake, Goto, worldVars, cacheVars, threadVars, countVars,
     historyVars
<1>15. ASSUME NEW t \in Storer, Begin(t) PROVE DayInv'
  BY <1>15, <1>t DEF Begin, Goto, worldVars, cacheVars, threadVars, countVars,
     historyVars
<1>16. ASSUME NEW t \in Storer, ReadState(t) PROVE DayInv'
  BY <1>16, <1>t DEF ReadState, Note, Goto, worldVars, cacheVars, threadVars,
     countVars, historyVars
<1>17. ASSUME NEW t \in Storer, Compare(t) PROVE DayInv'
  BY <1>17, <1>t DEF Compare, Note, Finish, Goto, worldVars, cacheVars, threadVars,
     countVars, historyVars
<1>18. ASSUME NEW t \in Storer, TakeCached(t) PROVE DayInv'
  BY <1>18, <1>t DEF TakeCached, Note, Goto, worldVars, cacheVars, threadVars,
     countVars, historyVars
<1>19. ASSUME NEW t \in Storer, Download(t) PROVE DayInv'
  BY <1>19, <1>t DEF Download, Goto, worldVars, cacheVars, threadVars, countVars,
     historyVars
<1>20. ASSUME NEW t \in Storer, ReadLabel(t) PROVE DayInv'
  BY <1>20, <1>t DEF ReadLabel, Goto, worldVars, cacheVars, threadVars, countVars,
     historyVars
<1>21. ASSUME NEW t \in Storer, CopyState(t) PROVE DayInv'
  <2> DEFINE new == [draft[t] EXCEPT !.map = mem.map]
  <2>1. /\ draft' = [draft EXCEPT ![t] = new] /\ pc' = [pc EXCEPT ![t] = "post"]
        /\ UNCHANGED <<mem, today, bar>> /\ pc[t] = "copy"
        /\ odd \subseteq odd' /\ (mem.day # draft[t].day => "mislabelled" \in odd')
    BY <1>t, <1>21 DEF CopyState, Goto, worldVars
  <2>2. /\ new.day = draft[t].day
        /\ OfDay(mem) /\ mem.day = draft[t].day => OfDay(new)
    <3>1. draft[t] \in Settings /\ mem \in Settings
      BY <2>1, Shape DEF HasDraft
    <3> QED
      BY <3>1, DayFacts
  <2> HIDE DEF new
  <2>3. draft'[t] = new /\ \A u \in Thread : u # t => draft'[u] = draft[u]
    BY <1>t, <2>1
  <2>4. pc'[t] = "post" /\ \A u \in Thread : u # t => pc'[u] = pc[u]
    BY <1>t, <2>1
  <2> SUFFICES ASSUME odd' \cap {"overwritten", "mislabelled"} = {}
               PROVE  DayInv'
    BY DEF DayInv
  <2>5. odd \cap {"overwritten", "mislabelled"} = {} /\ mem.day = draft[t].day
    BY <2>1
  <2>6. \A u \in Thread : pc'[u] \in {"fetch", "set", "put", "merge"} =>
           pc'[u] = pc[u] /\ draft'[u] = draft[u]
    BY <2>3, <2>4
  <2>7. \A u \in Storer : pc'[u] = "post" =>
           draft'[u].day <= mem.day /\ OfDay(draft'[u])
    BY <1>t, <2>2, <2>3, <2>4, <2>5
  <2> QED
    BY <2>1, <2>5, <2>6, <2>7
<1>22. ASSUME NEW t \in Storer, PostBar(t) PROVE DayInv'
  BY <1>22, <1>t DEF PostBar, NewBar, Goto, worldVars, cacheVars, threadVars,
     countVars, historyVars
<1>23. ASSUME NEW t \in Storer, KeepBar(t) PROVE DayInv'
  BY <1>23, <1>t DEF KeepBar, Finish, Goto, worldVars, cacheVars, threadVars,
     countVars, historyVars
<1>24. ASSUME NEW t \in Storer, FailStore(t) PROVE DayInv'
  <2>1.
           /\ bar'.settings \in {bar.settings} \cup (IF pc[t] = "post" THEN {draft[t]} ELSE {})
        /\ UNCHANGED <<mem, today, draft>> /\ odd \subseteq odd'
        /\ pc'[t] \in {"idle", "done"} /\ \A u \in Thread : u # t => pc'[u] = pc[u]
    BY <1>t, <1>24 DEF FailStore, NewBar, Goto, Note
  <2> QED
    BY <2>1
<1>25. ASSUME NewDay PROVE DayInv'
  BY <1>25, <1>t DEF NewDay, Goto, worldVars, cacheVars, threadVars, countVars,
     historyVars
<1>26. ASSUME Tick PROVE DayInv'
  BY <1>26, <1>t DEF Tick, Goto, worldVars, cacheVars, threadVars, countVars,
     historyVars
<1>27. CASE UNCHANGED vars
  BY <1>27, <1>t DEF vars, worldVars, cacheVars, threadVars, countVars, historyVars
<1> HIDE DEF PhaseInv, DayInv
<1> QED
  BY <1>1, <1>2, <1>3, <1>4, <1>5, <1>6, <1>7, <1>8, <1>9, <1>10, <1>11,
     <1>12, <1>13, <1>14, <1>15, <1>16, <1>17, <1>18, <1>19, <1>20, <1>21,
     <1>22, <1>23, <1>24, <1>25, <1>26, <1>27
  DEF Next, Load, Write, StoreStep, Rest

\* A setting of the day is not seen on another day, unless it was stored under
\* another day or written back by a thread that had read it before.
THEOREM DaysExpire == Spec => []DaySettingsExpire
<1>1. Init => TypeInv /\ PhaseInv /\ DayInv
  BY TypeInit, PhaseInit, DayInit
<1>2. (TypeInv /\ PhaseInv /\ DayInv) /\ [Next]_vars => (TypeInv /\ PhaseInv /\ DayInv)'
  BY TypeStep, PhaseStep, DayStep
<1>3. DayInv => DaySettingsExpire
  BY DEF DayInv, OfDay, DaySettingsExpire
<1> QED
  BY <1>1, <1>2, <1>3, PTL DEF Spec

-----------------------------------------------------------------------------
(* Kept settings stay in the game.                                          *)

\* Initially no settings are loaded or under way.
LEMMA MapInit == Init => MapInv
BY Threads DEF Init, MapInv, KeptWell

\* Kept settings are kept.
LEMMA MapStep ==
    TypeInv /\ PhaseInv /\ LoneInv /\ MapInv /\ [Next]_vars => MapInv'
<1> SUFFICES ASSUME TypeInv, PhaseInv, LoneInv, MapInv, [Next]_vars
             PROVE  MapInv'
  OBVIOUS
<1>t. /\ pc = [t \in Thread |-> pc[t]] /\ draft = [t \in Thread |-> draft[t]]
      /\ mem.day \in Nat /\ today \in Nat
  BY Shape
<1> USE Threads DEF PhaseInv, MapInv, InBar
<1>1. ASSUME MakeRef PROVE MapInv'
  BY <1>1, <1>t DEF MakeRef, Goto, worldVars, cacheVars, threadVars, countVars,
     historyVars, KeptWell
<1>2. ASSUME Login PROVE MapInv'
  BY <1>2, <1>t DEF Login, Goto, worldVars, cacheVars, threadVars, countVars,
     historyVars, KeptWell
<1>3. ASSUME InitState PROVE MapInv'
  <2> SUFFICES ASSUME odd' \cap {"overwritten", "unloaded", "crossed"} = {},
                      NEW j \in KeptKeys \ cleared'
               PROVE  KeptWell(j)'
    BY DEF MapInv
  <2>1. /\ mem' = [day |-> today, map |-> Unset] /\ pc' = [pc EXCEPT ![Seq] = "fetch"]
        /\ UNCHANGED <<bar, draft, cleared>> /\ loaded' = FALSE
        /\ odd \subseteq odd'
        /\ ((\E t \in Setter \ {Seq} : Writing(t)) => "overwritten" \in odd')
    BY <1>3, <1>t DEF InitState, WriteMem, Note, Goto, worldVars
  <2>2. KeptWell(j)
    BY <2>1
  <2>3. pc'[Seq] = "fetch" /\ \A t \in Thread : t # Seq => pc'[t] = pc[t]
    BY <1>t, <2>1
  <2>4. mem'.map[j] = None
    BY <2>1 DEF Unset, Key
  <2> QED
    BY <2>1, <2>2, <2>3, <2>4 DEF KeptWell
<1>4. ASSUME FetchBar PROVE MapInv'
  <2> SUFFICES ASSUME odd' \cap {"overwritten", "unloaded", "crossed"} = {},
                      NEW j \in KeptKeys \ cleared'
               PROVE  KeptWell(j)'
    BY DEF MapInv
  <2>1. /\ UNCHANGED <<mem, bar, cleared>> /\ pc[Seq] = "fetch"
        /\ odd \subseteq odd'
        /\ \/ bar.settings = None /\ UNCHANGED draft /\ Goto(Seq, "script")
           \/ draft' = [draft EXCEPT ![Seq] = bar.settings] /\ Goto(Seq, "merge")
              /\ UNCHANGED loaded
           \/ UNCHANGED <<draft, loaded>> /\ Goto(Seq, "idle")
    BY <1>4, <1>t DEF FetchBar, Note, worldVars
  <2>2. KeptWell(j)
    BY <2>1
  <2>3. /\ pc'[Seq] \in {"script", "merge", "idle"}
        /\ \A t \in Thread : t # Seq => pc'[t] = pc[t] /\ draft'[t] = draft[t]
    BY <1>t, <2>1 DEF Goto
  <2>4. pc'[Seq] = "merge" => draft'[Seq] = bar.settings
    BY <1>t, <2>1 DEF Goto
  <2>5. bar.settings = None \/ UNCHANGED loaded
    BY <2>1
  <2>6. pc'[Seq] \in {"script", "merge"} => \A t \in Stores : pc[t] # "post"
    BY <1>t, <1>4 DEF FetchBar, Note, Goto, Storing
  <2>7. pc'[Seq] \in {"script", "merge"} \/ UNCHANGED loaded
    BY <2>3, <2>1, <1>t DEF Goto
  <2>8. \A t \in Storer : pc'[t] = "post" =>
           t \in Stores /\ pc[t] = "post" /\ draft'[t] = draft[t]
    BY <2>3 DEF Storer
  <2>9. InBar(j)' <=> InBar(j)
    BY <2>1
  <2> QED
    BY <2>1, <2>2, <2>3, <2>4, <2>5, <2>6, <2>7, <2>8, <2>9 DEF KeptWell
<1>5. ASSUME LoadRead PROVE MapInv'
  <2> SUFFICES ASSUME odd' \cap {"overwritten", "unloaded", "crossed"} = {},
                      NEW j \in KeptKeys \ cleared'
               PROVE  KeptWell(j)'
    BY DEF MapInv
  <2> DEFINE new == [day |-> mem.day,
                     map |-> [k \in Key |-> IF k \in KeptKeys \/ draft[Seq].day = today
                                            THEN draft[Seq].map[k] ELSE mem.map[k]]]
  <2>1. /\ draft' = [draft EXCEPT ![Seq] = new] /\ pc' = [pc EXCEPT ![Seq] = "put"]
        /\ UNCHANGED <<mem, bar, odd, cleared, loaded>> /\ pc[Seq] = "merge"
    BY <1>5, <1>t DEF LoadRead, Goto, worldVars, historyVars
  <2>2. KeptWell(j)
    BY <2>1
  <2>3. new.map[j] = draft[Seq].map[j]
    BY DEF Key
  <2> HIDE DEF new
  <2>4. draft'[Seq] = new /\ \A t \in Thread : t # Seq => draft'[t] = draft[t]
    BY <1>t, <2>1
  <2>5. pc'[Seq] = "put" /\ \A t \in Thread : t # Seq => pc'[t] = pc[t]
    BY <1>t, <2>1
  <2> QED
    BY <2>1, <2>2, <2>3, <2>4, <2>5 DEF KeptWell
<1>6. ASSUME LoadWrite PROVE MapInv'
  <2> SUFFICES ASSUME odd' \cap {"overwritten", "unloaded", "crossed"} = {},
                      NEW j \in KeptKeys \ cleared'
               PROVE  KeptWell(j)'
    BY DEF MapInv
  <2>1. /\ mem' = draft[Seq] /\ pc' = [pc EXCEPT ![Seq] = "script"] /\ pc[Seq] = "put"
        /\ UNCHANGED <<bar, draft, cleared>>
        /\ odd \subseteq odd'
        /\ ((\E t \in Setter \ {Seq} : Writing(t)) => "overwritten" \in odd')
    BY <1>6, <1>t DEF LoadWrite, WriteMem, Note, Goto, worldVars
  <2>2. KeptWell(j) /\ odd \cap {"overwritten", "unloaded", "crossed"} = {}
    BY <2>1
  <2>3. \A w \in Setter : pc'[w] # "set"
    BY <1>t, <2>1 DEF Writing
  <2>4. \A t \in Storer : pc'[t] # "post"
    BY <1>t, <2>1, <2>2 DEF LoneInv, Storer
  <2>5. InBar(j) => mem'.map[j] # None
    BY <2>1, <2>2 DEF KeptWell
  <2>6. pc'[Seq] = "script" /\ (InBar(j)' <=> InBar(j))
    BY <1>t, <2>1
  <2> QED
    BY <2>3, <2>4, <2>5, <2>6 DEF KeptWell
<1>7. ASSUME NEW p \in Procs, StartProc(p) PROVE MapInv'
  BY <1>7, <1>t DEF StartProc, Goto, worldVars, cacheVars, threadVars, countVars,
     historyVars, KeptWell
<1>8. ASSUME NEW w \in Setter, NEW k \in Key, NEW v \in Choices(k, mem.day), SetRead(w, k, v)
      PROVE MapInv'
  <2> SUFFICES ASSUME odd' \cap {"overwritten", "unloaded", "crossed"} = {},
                      NEW j \in KeptKeys \ cleared'
               PROVE  KeptWell(j)'
    BY DEF MapInv
  <2> DEFINE new == [mem EXCEPT !.map[k] = v]
  <2>1. /\ draft' = [draft EXCEPT ![w] = new] /\ pc' = [pc EXCEPT ![w] = "set"]
        /\ UNCHANGED <<mem, bar, odd, loaded>> /\ pc[w] = "script"
        /\ cleared' = IF v = None THEN cleared \cup {k} ELSE cleared
    BY <1>8, <1>t DEF SetRead, Goto, worldVars
  <2>2. KeptWell(j)
    BY <2>1
  <2>3. mem.map[j] # None => new.map[j] # None
    <3>1. j \in Key /\ (v = None => j # k)
      BY <2>1 DEF Key
    <3>2. new.map[j] = IF j = k THEN v ELSE mem.map[j]
      BY <3>1, Shape DEF Settings
    <3> HIDE DEF new
    <3> QED
      BY <3>1, <3>2
  <2> HIDE DEF new
  <2>4. draft'[w] = new /\ \A t \in Thread : t # w => draft'[t] = draft[t]
    BY <1>t, <2>1
  <2>5. pc'[w] = "set" /\ \A t \in Thread : t # w => pc'[t] = pc[t]
    BY <1>t, <2>1
  <2>6. InBar(j)' <=> InBar(j)
    BY <2>1
  <2>7. \A u \in Setter : pc'[u] = "set" /\ mem.map[j] # None => draft'[u].map[j] # None
    BY <2>2, <2>3, <2>4, <2>5 DEF KeptWell
  <2>8. \A t \in Storer : pc'[t] = "post" => pc[t] = "post" /\ draft'[t] = draft[t]
    BY <2>4, <2>5
  <2>9. pc'[Seq] \in {"merge", "put"} => pc[Seq] = pc'[Seq] /\ draft'[Seq] = draft[Seq]
    BY <2>4, <2>5
  <2> QED
    BY <2>1, <2>2, <2>6, <2>7, <2>8, <2>9 DEF KeptWell
<1>9. ASSUME NEW w \in Setter, NEW s \in Stores, SetWrite(w, s) PROVE MapInv'
  <2> SUFFICES ASSUME odd' \cap {"overwritten", "unloaded", "crossed"} = {},
                      NEW j \in KeptKeys \ cleared'
               PROVE  KeptWell(j)'
    BY DEF MapInv
  <2>1. /\ mem' = draft[w] /\ pc' = [pc EXCEPT ![w] = "script", ![s] = "delay"]
        /\ UNCHANGED <<bar, draft, cleared, loaded>> /\ pc[w] = "set" /\ pc[s] = "idle"
        /\ odd \subseteq odd'
        /\ ((\E t \in Setter \ {w} : Writing(t)) => "overwritten" \in odd')
    BY <1>9, <1>t DEF SetWrite, WriteMem, Note, worldVars
  <2>2. KeptWell(j)
    BY <2>1
  <2>3. /\ pc'[w] = "script" /\ pc'[s] = "delay"
        /\ \A t \in Thread : t # w /\ t # s => pc'[t] = pc[t]
    BY <1>t, <2>1
  <2>4. \A u \in Setter : pc'[u] \notin {"set", "merge", "put"}
    BY <2>1, <2>3 DEF Writing
  <2>5. mem.map[j] # None => mem'.map[j] # None
    BY <2>1, <2>2 DEF KeptWell
  <2>6. \A t \in Storer : pc'[t] = "post" => pc[t] = "post"
    BY <2>3
  <2>7. InBar(j)' <=> InBar(j)
    BY <2>1
  <2> QED
    BY <2>1, <2>2, <2>4, <2>5, <2>6, <2>7 DEF KeptWell
<1>10. ASSUME NEW w \in Setter, ScriptDone(w) PROVE MapInv'
  BY <1>10, <1>t DEF ScriptDone, Goto, worldVars, cacheVars, threadVars, countVars,
     historyVars, KeptWell
<1>11. ASSUME PostButtons PROVE MapInv'
  BY <1>11, <1>t DEF PostButtons, Note, Goto, worldVars, cacheVars, threadVars,
     countVars, historyVars, KeptWell
<1>12. ASSUME ForgetBar PROVE MapInv'
  BY <1>12, <1>t DEF ForgetBar, Goto, worldVars, cacheVars, threadVars, countVars,
     historyVars, KeptWell
<1>13. ASSUME Logout PROVE MapInv'
  BY <1>13, <1>t DEF Logout, Goto, worldVars, cacheVars, threadVars, countVars,
     historyVars, KeptWell
<1>14. ASSUME NEW s \in Stores, Wake(s) PROVE MapInv'
  BY <1>14, <1>t DEF Wake, Goto, worldVars, cacheVars, threadVars, countVars,
     historyVars, KeptWell
<1>15. ASSUME NEW t \in Storer, Begin(t) PROVE MapInv'
  BY <1>15, <1>t DEF Begin, Goto, worldVars, cacheVars, threadVars, countVars,
     historyVars, KeptWell
<1>16. ASSUME NEW t \in Storer, ReadState(t) PROVE MapInv'
  BY <1>16, <1>t DEF ReadState, Note, Goto, worldVars, cacheVars, threadVars,
     countVars, historyVars, KeptWell
<1>17. ASSUME NEW t \in Storer, Compare(t) PROVE MapInv'
  BY <1>17, <1>t DEF Compare, Note, Finish, Goto, worldVars, cacheVars, threadVars,
     countVars, historyVars, KeptWell
<1>18. ASSUME NEW t \in Storer, TakeCached(t) PROVE MapInv'
  BY <1>18, <1>t DEF TakeCached, Note, Goto, worldVars, cacheVars, threadVars,
     countVars, historyVars, KeptWell
<1>19. ASSUME NEW t \in Storer, Download(t) PROVE MapInv'
  BY <1>19, <1>t DEF Download, Goto, worldVars, cacheVars, threadVars, countVars,
     historyVars, KeptWell
<1>20. ASSUME NEW t \in Storer, ReadLabel(t) PROVE MapInv'
  BY <1>20, <1>t DEF ReadLabel, Goto, worldVars, cacheVars, threadVars, countVars,
     historyVars, KeptWell
<1>21. ASSUME NEW t \in Storer, CopyState(t) PROVE MapInv'
  <2> SUFFICES ASSUME odd' \cap {"overwritten", "unloaded", "crossed"} = {},
                      NEW j \in KeptKeys \ cleared'
               PROVE  KeptWell(j)'
    BY DEF MapInv
  <2> DEFINE new == [draft[t] EXCEPT !.map = mem.map]
  <2>1. /\ draft' = [draft EXCEPT ![t] = new] /\ pc' = [pc EXCEPT ![t] = "post"]
        /\ UNCHANGED <<mem, bar, cleared, loaded>> /\ pc[t] = "copy"
        /\ odd \subseteq odd' /\ (~loaded => "unloaded" \in odd')
    BY <1>t, <1>21 DEF CopyState, Goto, worldVars
  <2>2. KeptWell(j) /\ loaded
    BY <2>1
  <2>3. new.map = mem.map
    <3>1. draft[t] \in Settings
      BY <2>1, Shape DEF HasDraft
    <3> QED
      BY <3>1 DEF Settings
  <2> HIDE DEF new
  <2>4. draft'[t] = new /\ \A u \in Thread : u # t => draft'[u] = draft[u]
    BY <1>t, <2>1
  <2>5. pc'[t] = "post" /\ \A u \in Thread : u # t => pc'[u] = pc[u]
    BY <1>t, <2>1
  <2>6. \A u \in Thread : pc'[u] \in {"set", "merge", "put"} =>
           pc'[u] = pc[u] /\ draft'[u] = draft[u]
    BY <2>4, <2>5
  <2>7. \A u \in Storer : pc'[u] = "post" =>
           \/ draft'[u].map[j] = mem.map[j]
           \/ pc[u] = "post" /\ draft'[u] = draft[u]
    BY <2>3, <2>4, <2>5
  <2>8. InBar(j)' <=> InBar(j)
    BY <2>1
  <2> QED
    BY <2>1, <2>2, <2>6, <2>7, <2>8 DEF KeptWell
<1>22. ASSUME NEW t \in Storer, PostBar(t) PROVE MapInv'
  <2> SUFFICES ASSUME odd' \cap {"overwritten", "unloaded", "crossed"} = {},
                      NEW j \in KeptKeys \ cleared'
               PROVE  KeptWell(j)'
    BY DEF MapInv
  <2>1. /\ bar'.settings \in {bar.settings, draft[t]} /\ pc[t] = "post"
        /\ UNCHANGED <<mem, draft, cleared, loaded>> /\ odd \subseteq odd'
        /\ pc'[t] \in {"idle", "done", "keep"}
        /\ \A u \in Thread : u # t => pc'[u] = pc[u]
    BY <1>t, <1>22 DEF PostBar, NewBar, Goto, historyVars
  <2>2. KeptWell(j) /\ odd \cap {"overwritten", "unloaded", "crossed"} = {}
    BY <2>1
  <2>3. InBar(j)' => InBar(j) \/ draft[t].map[j] # None
    BY <2>1
  <2>4. \A u \in Storer : pc'[u] # "post"
    BY <2>1, <2>2 DEF LoneInv, Storing
  <2>5. pc'[Seq] \in {"merge", "put"} => pc[Seq] = pc'[Seq] /\ ~(InBar(j)' /\ ~InBar(j))
    <3>1. pc'[Seq] \in {"merge", "put"} => pc[Seq] = pc'[Seq] /\ t # Seq
      BY <2>1
    <3>2. t # Seq => t \in Stores
      BY DEF Storer
    <3> QED
      BY <2>1, <2>2, <3>1, <3>2 DEF LoneInv
  <2>6. \A u \in Setter : pc'[u] = "set" => pc[u] = "set"
    BY <2>1
  <2>7. InBar(j)' /\ loaded => mem.map[j] # None
    BY <2>1, <2>2, <2>3 DEF KeptWell
  <2> QED
    BY <2>1, <2>2, <2>4, <2>5, <2>6, <2>7 DEF KeptWell
<1>23. ASSUME NEW t \in Storer, KeepBar(t) PROVE MapInv'
  BY <1>23, <1>t DEF KeepBar, Finish, Goto, worldVars, cacheVars, threadVars,
     countVars, historyVars, KeptWell
<1>24. ASSUME NEW t \in Storer, FailStore(t) PROVE MapInv'
  <2> SUFFICES ASSUME odd' \cap {"overwritten", "unloaded", "crossed"} = {},
                      NEW j \in KeptKeys \ cleared'
               PROVE  KeptWell(j)'
    BY DEF MapInv
  <2>0.
           /\ bar'.settings \in {bar.settings} \cup (IF pc[t] = "post" THEN {draft[t]} ELSE {})
        /\ UNCHANGED <<mem, draft, cleared, loaded>> /\ odd \subseteq odd'
        /\ pc'[t] \in {"idle", "done"} /\ \A u \in Thread : u # t => pc'[u] = pc[u]
    BY <1>t, <1>24 DEF FailStore, NewBar, Goto, Note
  <2>a. CASE pc[t] # "post"
    <3>1. KeptWell(j) /\ (InBar(j)' <=> InBar(j))
      BY <2>0, <2>a
    <3>2. \A u \in Thread : pc'[u] \in {"set", "merge", "put", "post"} => pc'[u] = pc[u]
      BY <2>0
    <3> QED
      BY <2>0, <3>1, <3>2 DEF KeptWell
  <2>b. CASE pc[t] = "post"
    <3>1. /\ bar'.settings \in {bar.settings, draft[t]} /\ pc[t] = "post"
          /\ UNCHANGED <<mem, draft, cleared, loaded>> /\ odd \subseteq odd'
          /\ pc'[t] \in {"idle", "done", "keep"}
          /\ \A u \in Thread : u # t => pc'[u] = pc[u]
      BY <2>0, <2>b
    <3>2. KeptWell(j) /\ odd \cap {"overwritten", "unloaded", "crossed"} = {}
      BY <3>1
    <3>3. InBar(j)' => InBar(j) \/ draft[t].map[j] # None
      BY <3>1
    <3>4. \A u \in Storer : pc'[u] # "post"
      BY <3>1, <3>2 DEF LoneInv, Storing
    <3>5. pc'[Seq] \in {"merge", "put"} =>
             pc[Seq] = pc'[Seq] /\ ~(InBar(j)' /\ ~InBar(j))
      <4>1. pc'[Seq] \in {"merge", "put"} => pc[Seq] = pc'[Seq] /\ t # Seq
        BY <3>1
      <4>2. t # Seq => t \in Stores
        BY DEF Storer
      <4> QED
        BY <3>1, <3>2, <4>1, <4>2 DEF LoneInv
    <3>6. \A u \in Setter : pc'[u] = "set" => pc[u] = "set"
      BY <3>1
    <3>7. InBar(j)' /\ loaded => mem.map[j] # None
      BY <3>1, <3>2, <3>3 DEF KeptWell
    <3> QED
      BY <3>1, <3>2, <3>4, <3>5, <3>6, <3>7 DEF KeptWell
  <2> QED
    BY <2>a, <2>b
<1>25. ASSUME NewDay PROVE MapInv'
  BY <1>25, <1>t DEF NewDay, Goto, worldVars, cacheVars, threadVars, countVars,
     historyVars, KeptWell
<1>26. ASSUME Tick PROVE MapInv'
  BY <1>26, <1>t DEF Tick, Goto, worldVars, cacheVars, threadVars, countVars,
     historyVars, KeptWell
<1>27. CASE UNCHANGED vars
  BY <1>27, <1>t DEF vars, KeptWell, worldVars, cacheVars, threadVars, countVars,
     historyVars
<1> HIDE DEF PhaseInv, MapInv, InBar
<1> QED
  BY <1>1, <1>2, <1>3, <1>4, <1>5, <1>6, <1>7, <1>8, <1>9, <1>10, <1>11,
     <1>12, <1>13, <1>14, <1>15, <1>16, <1>17, <1>18, <1>19, <1>20, <1>21,
     <1>22, <1>23, <1>24, <1>25, <1>26, <1>27
  DEF Next, Load, Write, StoreStep, Rest

\* Only a store's post takes a setting from the game, and it has every setting the
\* game has.
LEMMA KeptAction ==
    ASSUME TypeInv, MapInv, [Next]_vars, NEW k \in KeptKeys \ cleared,
           odd \cap {"overwritten", "unloaded", "crossed"} = {},
           InBar(k)
    PROVE  bar'.settings.map[k] # None
<1> DEFINE Kept == bar'.settings.map[k] # None
<1>u. ASSUME bar'.settings = bar.settings PROVE Kept
  BY <1>u DEF InBar
<1>p. ASSUME NEW t \in Storer, pc[t] = "post",
             bar'.settings \in {bar.settings, draft[t]}
      PROVE  Kept
  BY <1>p DEF MapInv, KeptWell, InBar
<1> HIDE DEF Kept
<1>1. ASSUME PostButtons PROVE Kept
  <2>1. bar'.settings = bar.settings
    BY <1>1, Shape DEF PostButtons
  <2> QED
    BY <1>u, <2>1
<1>2. ASSUME NEW t \in Storer, PostBar(t) PROVE Kept
  BY <1>2, <1>p DEF PostBar, NewBar
<1>3. ASSUME NEW t \in Storer, FailStore(t) PROVE Kept
  BY <1>3, <1>p, <1>u DEF FailStore, NewBar
<1>4. ASSUME NEW t \in Storer, StoreStep(t) PROVE Kept
  <2>1. PostBar(t) \/ FailStore(t) \/ UNCHANGED bar
    BY <1>4 DEF StoreStep, Begin, ReadState, Compare, TakeCached, Download, ReadLabel,
                CopyState, KeepBar, worldVars
  <2> QED
    BY <1>2, <1>3, <1>u, <2>1
<1>5. \/ PostButtons
      \/ \E t \in Storer : StoreStep(t)
      \/ UNCHANGED bar
  BY DEF Next, Load, MakeRef, Login, InitState, FetchBar, LoadRead, LoadWrite,
     StartProc,
         SetRead, Write, SetWrite, ScriptDone, ForgetBar, Logout, Wake, NewDay, Tick,
         Rest, worldVars, vars
<1> QED
  BY <1>1, <1>4, <1>5, <1>u DEF Kept

\* A kept setting disappears from the game only if a script has unset it, one
\* thread's write overwrote another's, stores crossed, or one copied settings that
\* were still being loaded.
THEOREM KeptStay == Spec => SettingsKept
<1> DEFINE IInv == TypeInv /\ PhaseInv /\ LoneInv /\ MapInv
<1>1. Init => IInv
  BY TypeInit, PhaseInit, MapInit
<1>2. IInv /\ [Next]_vars => IInv'
  BY TypeStep, PhaseStep, LoneStep, MapStep
<1>3. IInv /\ [Next]_vars =>
        [\A k \in KeptKeys :
             /\ bar.settings # None /\ bar.settings.map[k] # None
             /\ bar'.settings.map[k] = None
             =>
                      k \in cleared \/ odd \cap {"overwritten", "unloaded", "crossed"} # {}]_vars
  BY KeptAction DEF InBar
<1> QED
  BY <1>1, <1>2, <1>3, PTL DEF Spec, SettingsKept

-----------------------------------------------------------------------------
(* The game has the settings in memory.                                     *)

\* Initially nothing has been loaded or stored.
LEMMA ServedInit == Init => FreshInv /\ LastInv /\ LoadInv /\ ServedInv
<1> SUFFICES ASSUME Init PROVE FreshInv /\ LastInv /\ LoadInv /\ ServedInv
  OBVIOUS
<1> USE Threads
<1>1. bar.settings # None => OfDay(bar.settings) /\ bar.settings.day = 1
  BY FirstSettings
<1>2. mem.day = 0 /\ today = 1 /\ \A t \in Thread : pc[t] = "idle"
  BY DEF Init
<1>3. FreshInv
  BY <1>1, <1>2 DEF FreshInv, Fresh
<1>4. LastInv
  BY <1>2 DEF Init, LastInv, Sending
<1>5. LoadInv /\ ServedInv
  BY <1>2 DEF Init, LoadInv, ServedInv
<1> QED
  BY <1>3, <1>4, <1>5

\* Settings keep the label of their day, or of an earlier one.
LEMMA FreshStep == TypeInv /\ PhaseInv /\ FreshInv /\ [Next]_vars => FreshInv'
<1> SUFFICES ASSUME TypeInv, PhaseInv, FreshInv, [Next]_vars PROVE FreshInv'
  OBVIOUS
<1>t. /\ pc = [t \in Thread |-> pc[t]] /\ draft = [t \in Thread |-> draft[t]]
      /\ mem.day \in Nat /\ today \in Nat
  BY Shape
<1> USE Threads DEF PhaseInv, FreshInv, Fresh
<1>1. ASSUME MakeRef PROVE FreshInv'
  BY <1>1, <1>t DEF MakeRef, Goto, worldVars, cacheVars, threadVars, countVars,
     historyVars
<1>2. ASSUME Login PROVE FreshInv'
  BY <1>2, <1>t DEF Login, Goto, worldVars, cacheVars, threadVars, countVars,
     historyVars
<1>3. ASSUME InitState PROVE FreshInv'
  <2> SUFFICES ASSUME "mislabelled" \notin odd'
               PROVE  FreshInv'
    BY DEF FreshInv
  <2>1. /\ mem' = [day |-> today, map |-> Unset] /\ pc' = [pc EXCEPT ![Seq] = "fetch"]
        /\ UNCHANGED <<today, bar, draft>> /\ odd \subseteq odd'
    BY <1>3, <1>t DEF InitState, WriteMem, Goto, worldVars
  <2>2. mem'.day = today /\ OfDay(mem')
    BY <1>t, <2>1, DayFacts
  <2>3. pc'[Seq] = "fetch" /\ \A t \in Thread : t # Seq => pc'[t] = pc[t]
    BY <1>t, <2>1
  <2> QED
    BY <1>t, <2>1, <2>2, <2>3
<1>4. ASSUME FetchBar PROVE FreshInv'
  BY <1>4, <1>t DEF FetchBar, Note, Goto, worldVars, cacheVars, threadVars,
     countVars, historyVars
<1>5. ASSUME LoadRead PROVE FreshInv'
  <2> SUFFICES ASSUME "mislabelled" \notin odd'
               PROVE  FreshInv'
    BY DEF FreshInv
  <2> DEFINE new == [day |-> mem.day,
                     map |-> [k \in Key |-> IF k \in KeptKeys \/ draft[Seq].day = today
                                            THEN draft[Seq].map[k] ELSE mem.map[k]]]
  <2>1. /\ draft' = [draft EXCEPT ![Seq] = new] /\ pc' = [pc EXCEPT ![Seq] = "put"]
        /\ UNCHANGED <<mem, today, bar, odd>> /\ pc[Seq] = "merge"
    BY <1>5, <1>t DEF LoadRead, Goto, worldVars, historyVars
  <2>2. Fresh(new)
    <3>1. /\ new.day = mem.day
          /\ \A k \in DayKeys : new.map[k] = IF draft[Seq].day = today
                                             THEN draft[Seq].map[k] ELSE mem.map[k]
      BY NamesAreDistinct DEF Key
    <3>2. Fresh(draft[Seq]) /\ Fresh(mem)
      BY <2>1
    <3> HIDE DEF new
    <3> QED
      BY <3>1, <3>2 DEF OfDay
  <2> HIDE DEF new
  <2>3. draft'[Seq] = new /\ \A t \in Thread : t # Seq => draft'[t] = draft[t]
    BY <1>t, <2>1
  <2>4. pc'[Seq] = "put" /\ \A t \in Thread : t # Seq => pc'[t] = pc[t]
    BY <1>t, <2>1
  <2> QED
    BY <2>1, <2>2, <2>3, <2>4
<1>6. ASSUME LoadWrite PROVE FreshInv'
  BY <1>6, <1>t DEF LoadWrite, WriteMem, Note, Goto, worldVars, cacheVars,
     threadVars, countVars, historyVars
<1>7. ASSUME NEW p \in Procs, StartProc(p) PROVE FreshInv'
  BY <1>7, <1>t DEF StartProc, Goto, worldVars, cacheVars, threadVars, countVars,
     historyVars
<1>8. ASSUME NEW w \in Setter, NEW k \in Key, NEW v \in Choices(k, mem.day), SetRead(w, k, v)
      PROVE FreshInv'
  <2> SUFFICES ASSUME "mislabelled" \notin odd'
               PROVE  FreshInv'
    BY DEF FreshInv
  <2> DEFINE new == [mem EXCEPT !.map[k] = v]
  <2>1. /\ draft' = [draft EXCEPT ![w] = new] /\ pc' = [pc EXCEPT ![w] = "set"]
        /\ UNCHANGED <<mem, today, bar, odd>> /\ pc[w] = "script"
    BY <1>8, <1>t DEF SetRead, Goto, worldVars
  <2>2. new.day = mem.day /\ (OfDay(mem) => OfDay(new))
    BY Shape, DayFacts
  <2> HIDE DEF new
  <2>3. draft'[w] = new /\ \A t \in Thread : t # w => draft'[t] = draft[t]
    BY <1>t, <2>1
  <2>4. pc'[w] = "set" /\ \A t \in Thread : t # w => pc'[t] = pc[t]
    BY <1>t, <2>1
  <2> QED
    BY <2>1, <2>2, <2>3, <2>4
<1>9. ASSUME NEW w \in Setter, NEW s \in Stores, SetWrite(w, s) PROVE FreshInv'
  BY <1>9, <1>t DEF SetWrite, WriteMem, Note, worldVars, cacheVars, threadVars,
     countVars, historyVars
<1>10. ASSUME NEW w \in Setter, ScriptDone(w) PROVE FreshInv'
  BY <1>10, <1>t DEF ScriptDone, Goto, worldVars, cacheVars, threadVars, countVars,
     historyVars
<1>11. ASSUME PostButtons PROVE FreshInv'
  BY <1>11, <1>t DEF PostButtons, Note, Goto, worldVars, cacheVars, threadVars,
     countVars, historyVars
<1>12. ASSUME ForgetBar PROVE FreshInv'
  BY <1>12, <1>t DEF ForgetBar, Goto, worldVars, cacheVars, threadVars, countVars,
     historyVars
<1>13. ASSUME Logout PROVE FreshInv'
  BY <1>13, <1>t DEF Logout, Goto, worldVars, cacheVars, threadVars, countVars,
     historyVars
<1>14. ASSUME NEW s \in Stores, Wake(s) PROVE FreshInv'
  BY <1>14, <1>t DEF Wake, Goto, worldVars, cacheVars, threadVars, countVars,
     historyVars
<1>15. ASSUME NEW t \in Storer, Begin(t) PROVE FreshInv'
  BY <1>15, <1>t DEF Begin, Goto, worldVars, cacheVars, threadVars, countVars,
     historyVars
<1>16. ASSUME NEW t \in Storer, ReadState(t) PROVE FreshInv'
  BY <1>16, <1>t DEF ReadState, Note, Goto, worldVars, cacheVars, threadVars,
     countVars, historyVars
<1>17. ASSUME NEW t \in Storer, Compare(t) PROVE FreshInv'
  BY <1>17, <1>t DEF Compare, Note, Finish, Goto, worldVars, cacheVars, threadVars,
     countVars, historyVars
<1>18. ASSUME NEW t \in Storer, TakeCached(t) PROVE FreshInv'
  BY <1>18, <1>t DEF TakeCached, Note, Goto, worldVars, cacheVars, threadVars,
     countVars, historyVars
<1>19. ASSUME NEW t \in Storer, Download(t) PROVE FreshInv'
  BY <1>19, <1>t DEF Download, Goto, worldVars, cacheVars, threadVars, countVars,
     historyVars
<1>20. ASSUME NEW t \in Storer, ReadLabel(t) PROVE FreshInv'
  BY <1>20, <1>t DEF ReadLabel, Goto, worldVars, cacheVars, threadVars, countVars,
     historyVars
<1>21. ASSUME NEW t \in Storer, CopyState(t) PROVE FreshInv'
  <2> SUFFICES ASSUME "mislabelled" \notin odd'
               PROVE  FreshInv'
    BY DEF FreshInv
  <2> DEFINE new == [draft[t] EXCEPT !.map = mem.map]
  <2>1. /\ draft' = [draft EXCEPT ![t] = new] /\ pc' = [pc EXCEPT ![t] = "post"]
        /\ UNCHANGED <<mem, today, bar>> /\ pc[t] = "copy"
        /\ odd \subseteq odd' /\ (mem.day # draft[t].day => "mislabelled" \in odd')
    BY <1>t, <1>21 DEF CopyState, Goto, worldVars
  <2>2. new.day = draft[t].day /\ (OfDay(mem) /\ mem.day = draft[t].day => OfDay(new))
    <3>1. draft[t] \in Settings /\ mem \in Settings
      BY <2>1, Shape DEF HasDraft
    <3> QED
      BY <3>1, DayFacts
  <2> HIDE DEF new
  <2>3. draft'[t] = new /\ \A u \in Thread : u # t => draft'[u] = draft[u]
    BY <1>t, <2>1
  <2>4. pc'[t] = "post" /\ \A u \in Thread : u # t => pc'[u] = pc[u]
    BY <1>t, <2>1
  <2>5. Fresh(mem) /\ mem.day = draft[t].day
    BY <2>1
  <2>6. Fresh(new)
    BY <2>2, <2>5
  <2> QED
    BY <2>1, <2>3, <2>4, <2>6
<1>22. ASSUME NEW t \in Storer, PostBar(t) PROVE FreshInv'
  BY <1>22, <1>t DEF PostBar, NewBar, Goto, worldVars, cacheVars, threadVars,
     countVars, historyVars
<1>23. ASSUME NEW t \in Storer, KeepBar(t) PROVE FreshInv'
  BY <1>23, <1>t DEF KeepBar, Finish, Goto, worldVars, cacheVars, threadVars,
     countVars, historyVars
<1>24. ASSUME NEW t \in Storer, FailStore(t) PROVE FreshInv'
  <2>1.
           /\ bar'.settings \in {bar.settings} \cup (IF pc[t] = "post" THEN {draft[t]} ELSE {})
        /\ UNCHANGED <<mem, today, draft>> /\ odd \subseteq odd'
        /\ pc'[t] \in {"idle", "done"} /\ \A u \in Thread : u # t => pc'[u] = pc[u]
    BY <1>t, <1>24 DEF FailStore, NewBar, Goto, Note
  <2> QED
    BY <2>1
<1>25. ASSUME NewDay PROVE FreshInv'
  <2> SUFFICES ASSUME "mislabelled" \notin odd'
               PROVE  FreshInv'
    BY DEF FreshInv
  <2>1. today' = today + 1 /\ UNCHANGED <<mem, bar, pc, draft, odd>>
    BY <1>25, <1>t DEF NewDay, threadVars, historyVars
  <2>2. ASSUME NEW m \in Settings, Fresh(m) PROVE Fresh(m)'
    BY <1>t, <2>1, <2>2, PartTypes
  <2>3. /\ mem \in Settings /\ (bar.settings # None => bar.settings \in Settings)
        /\ \A t \in Thread : HasDraft(t) => draft[t] \in Settings
    BY Shape
  <2>4. \A t \in Thread : pc[t] \in {"merge", "set", "put", "post"} => HasDraft(t)
    BY DEF HasDraft
  <2> HIDE DEF Fresh
  <2> QED
    BY <2>1, <2>2, <2>3, <2>4
<1>26. ASSUME Tick PROVE FreshInv'
  BY <1>26, <1>t DEF Tick, Goto, worldVars, cacheVars, threadVars, countVars,
     historyVars
<1>27. CASE UNCHANGED vars
  BY <1>27, <1>t DEF vars, worldVars, cacheVars, threadVars, countVars, historyVars
<1> HIDE DEF PhaseInv, FreshInv, Fresh
<1> QED
  BY <1>1, <1>2, <1>3, <1>4, <1>5, <1>6, <1>7, <1>8, <1>9, <1>10, <1>11,
     <1>12, <1>13, <1>14, <1>15, <1>16, <1>17, <1>18, <1>19, <1>20, <1>21,
     <1>22, <1>23, <1>24, <1>25, <1>26, <1>27
  DEF Next, Load, Write, StoreStep, Rest

\* What was stored last is remembered.
LEMMA LastStep ==
    TypeInv /\ PhaseInv /\ LoneInv /\ LastInv /\ [Next]_vars => LastInv'
<1> SUFFICES ASSUME TypeInv, PhaseInv, LoneInv, LastInv, [Next]_vars
             PROVE  LastInv'
  OBVIOUS
<1>t. /\ pc = [t \in Thread |-> pc[t]] /\ draft = [t \in Thread |-> draft[t]]
      /\ mem.day \in Nat /\ today \in Nat
  BY Shape
<1> USE Threads DEF PhaseInv, LastInv, Sending
<1>1. ASSUME MakeRef PROVE LastInv'
  BY <1>1, <1>t DEF MakeRef, Goto, worldVars, cacheVars, threadVars, countVars,
     historyVars
<1>2. ASSUME Login PROVE LastInv'
  BY <1>2, <1>t DEF Login, Goto, worldVars, cacheVars, threadVars, countVars,
     historyVars
<1>3. ASSUME InitState PROVE LastInv'
  BY <1>3, <1>t DEF InitState, WriteMem, Note, Goto, worldVars, cacheVars,
     threadVars, countVars, historyVars
<1>4. ASSUME FetchBar PROVE LastInv'
  BY <1>4, <1>t DEF FetchBar, Note, Goto, worldVars, cacheVars, threadVars,
     countVars, historyVars
<1>5. ASSUME LoadRead PROVE LastInv'
  BY <1>5, <1>t DEF LoadRead, Goto, worldVars, cacheVars, threadVars, countVars,
     historyVars
<1>6. ASSUME LoadWrite PROVE LastInv'
  BY <1>6, <1>t DEF LoadWrite, WriteMem, Note, Goto, worldVars, cacheVars,
     threadVars, countVars, historyVars
<1>7. ASSUME NEW p \in Procs, StartProc(p) PROVE LastInv'
  BY <1>7, <1>t DEF StartProc, Goto, worldVars, cacheVars, threadVars, countVars,
     historyVars
<1>8. ASSUME NEW w \in Setter, NEW k \in Key, NEW v \in Choices(k, mem.day), SetRead(w, k, v)
      PROVE LastInv'
  BY <1>8, <1>t DEF SetRead, Goto, worldVars, cacheVars, threadVars, countVars,
     historyVars
<1>9. ASSUME NEW w \in Setter, NEW s \in Stores, SetWrite(w, s) PROVE LastInv'
  BY <1>9, <1>t DEF SetWrite, WriteMem, Note, worldVars, cacheVars, threadVars,
     countVars, historyVars
<1>10. ASSUME NEW w \in Setter, ScriptDone(w) PROVE LastInv'
  BY <1>10, <1>t DEF ScriptDone, Goto, worldVars, cacheVars, threadVars, countVars,
     historyVars
<1>11. ASSUME PostButtons PROVE LastInv'
  BY <1>11, <1>t DEF PostButtons, Note, Goto, worldVars, cacheVars, threadVars,
     countVars, historyVars
<1>12. ASSUME ForgetBar PROVE LastInv'
  BY <1>12, <1>t DEF ForgetBar, Goto, worldVars, cacheVars, threadVars, countVars,
     historyVars
<1>13. ASSUME Logout PROVE LastInv'
  BY <1>13, <1>t DEF Logout, Goto, worldVars, cacheVars, threadVars, countVars,
     historyVars
<1>14. ASSUME NEW s \in Stores, Wake(s) PROVE LastInv'
  BY <1>14, <1>t DEF Wake, Goto, worldVars, cacheVars, threadVars, countVars,
     historyVars
<1>15. ASSUME NEW t \in Storer, Begin(t) PROVE LastInv'
  BY <1>15, <1>t DEF Begin, Goto, worldVars, cacheVars, threadVars, countVars,
     historyVars
<1>16. ASSUME NEW t \in Storer, ReadState(t) PROVE LastInv'
  <2> SUFFICES ASSUME odd' \cap {"failed", "crossed"} = {}
               PROVE  LastInv'
    BY DEF LastInv
  <2>1. /\ draft' = [draft EXCEPT ![t] = mem] /\ pc' = [pc EXCEPT ![t] = "compare"]
        /\ UNCHANGED <<bar, lastState>> /\ odd \subseteq odd' /\ pc[t] = "read"
    BY <1>16, <1>t DEF ReadState, Goto, Note, cacheVars, worldVars
  <2>2. \A u \in Thread : u # t => draft'[u] = draft[u] /\ pc'[u] = pc[u]
    BY <1>t, <2>1
  <2>3. pc'[t] = "compare"
    BY <1>t, <2>1
  <2> QED
    BY <2>1, <2>2, <2>3
<1>17. ASSUME NEW t \in Storer, Compare(t) PROVE LastInv'
  <2> SUFFICES ASSUME odd' \cap {"failed", "crossed"} = {}
               PROVE  LastInv'
    BY DEF LastInv
  <2>1. /\ pc[t] = "compare" /\ UNCHANGED <<draft, bar>> /\ odd \subseteq odd'
        /\ \A u \in Thread : u # t => pc'[u] = pc[u]
        /\ \/ UNCHANGED lastState /\ ~Sending(t)'
           \/ lastState' = Plain(draft[t].map) /\ pc'[t] = "cache"
    BY <1>t, <1>17 DEF Compare, Note, Finish, Goto, worldVars
  <2>2. \A u \in Storer : u # t => ~Storing(u)
    BY <2>1 DEF LoneInv, Storing
  <2>3. \A u \in Storer : u # t => ~Sending(u) /\ ~Sending(u)'
    BY <2>1, <2>2 DEF Storing
  <2> QED
    BY <2>1, <2>3
<1>18. ASSUME NEW t \in Storer, TakeCached(t) PROVE LastInv'
  BY <1>18, <1>t DEF TakeCached, Note, Goto, worldVars, cacheVars, threadVars,
     countVars, historyVars
<1>19. ASSUME NEW t \in Storer, Download(t) PROVE LastInv'
  BY <1>19, <1>t DEF Download, Goto, worldVars, cacheVars, threadVars, countVars,
     historyVars
<1>20. ASSUME NEW t \in Storer, ReadLabel(t) PROVE LastInv'
  <2> SUFFICES ASSUME odd' \cap {"failed", "crossed"} = {}
               PROVE  LastInv'
    BY DEF LastInv
  <2>1. /\ pc[t] = "label" /\ pc' = [pc EXCEPT ![t] = "copy"]
        /\ draft' = [draft EXCEPT ![t].day = today] /\ UNCHANGED <<lastState, bar, odd>>
    BY <1>20, <1>t DEF ReadLabel, Goto, cacheVars, worldVars, historyVars
  <2>2. draft'[t].map = draft[t].map /\ \A u \in Thread : u # t => draft'[u] = draft[u]
    <3>1. draft[t] \in Settings
      BY <2>1, Shape DEF HasDraft
    <3> QED
      BY <1>t, <2>1, <3>1 DEF Settings
  <2>3. pc'[t] = "copy" /\ \A u \in Thread : u # t => pc'[u] = pc[u]
    BY <1>t, <2>1
  <2> QED
    BY <2>1, <2>2, <2>3
<1>21. ASSUME NEW t \in Storer, CopyState(t) PROVE LastInv'
  <2> SUFFICES ASSUME odd' \cap {"failed", "crossed"} = {}
               PROVE  LastInv'
    BY DEF LastInv
  <2> DEFINE new == [draft[t] EXCEPT !.map = mem.map]
  <2>1. /\ draft' = [draft EXCEPT ![t] = new] /\ pc' = [pc EXCEPT ![t] = "post"]
        /\ UNCHANGED <<bar, lastState>> /\ pc[t] = "copy"
        /\ odd \subseteq odd'
        /\ (Plain(mem.map) # Plain(draft[t].map) => "crossed" \in odd')
    BY <1>t, <1>21 DEF CopyState, Goto, worldVars, cacheVars
  <2>2. new.map = mem.map
    <3>1. draft[t] \in Settings
      BY <2>1, Shape DEF HasDraft
    <3> QED
      BY <3>1 DEF Settings
  <2> HIDE DEF new
  <2>3. draft'[t] = new /\ \A u \in Thread : u # t => draft'[u] = draft[u]
    BY <1>t, <2>1
  <2>4. pc'[t] = "post" /\ \A u \in Thread : u # t => pc'[u] = pc[u]
    BY <1>t, <2>1
  <2>5. Plain(new.map) = Plain(draft[t].map)
    BY <2>1, <2>2
  <2> QED
    BY <2>1, <2>3, <2>4, <2>5
<1>22. ASSUME NEW t \in Storer, PostBar(t) PROVE LastInv'
  <2> SUFFICES ASSUME odd' \cap {"failed", "crossed"} = {}
               PROVE  LastInv'
    BY DEF LastInv
  <2>1. /\ pc[t] = "post" /\ UNCHANGED <<draft, lastState, odd>>
        /\ bar'.settings = draft[t]
        /\ pc'[t] = "keep" /\ \A u \in Thread : u # t => pc'[u] = pc[u]
    BY <1>t, <1>22 DEF PostBar, NewBar, Goto, cacheVars, historyVars
  <2>2. \A u \in Storer : u # t => ~Storing(u)
    BY <2>1 DEF LoneInv, Storing
  <2>3. \A u \in Storer : ~Sending(u)'
    BY <2>1, <2>2 DEF Storing
  <2>4. draft[t] # None
    BY <2>1, Shape, NoneIsNoSettings DEF HasDraft
  <2> QED
    BY <2>1, <2>3, <2>4
<1>23. ASSUME NEW t \in Storer, KeepBar(t) PROVE LastInv'
  BY <1>23, <1>t DEF KeepBar, Finish, Goto, worldVars, cacheVars, threadVars,
     countVars, historyVars
<1>24. ASSUME NEW t \in Storer, FailStore(t) PROVE LastInv'
  BY <1>24, <1>t DEF FailStore, Note, NewBar, Goto, worldVars, cacheVars,
     threadVars, countVars, historyVars
<1>25. ASSUME NewDay PROVE LastInv'
  BY <1>25, <1>t DEF NewDay, Goto, worldVars, cacheVars, threadVars, countVars,
     historyVars
<1>26. ASSUME Tick PROVE LastInv'
  BY <1>26, <1>t DEF Tick, Goto, worldVars, cacheVars, threadVars, countVars,
     historyVars
<1>27. CASE UNCHANGED vars
  BY <1>27, <1>t DEF vars, worldVars, cacheVars, threadVars, countVars, historyVars
<1> HIDE DEF PhaseInv, LastInv, Sending
<1> QED
  BY <1>1, <1>2, <1>3, <1>4, <1>5, <1>6, <1>7, <1>8, <1>9, <1>10, <1>11,
     <1>12, <1>13, <1>14, <1>15, <1>16, <1>17, <1>18, <1>19, <1>20, <1>21,
     <1>22, <1>23, <1>24, <1>25, <1>26, <1>27
  DEF Next, Load, Write, StoreStep, Rest

\* A load takes what the game has.
LEMMA LoadStep ==
    TypeInv /\ PhaseInv /\ LoneInv /\ FreshInv /\ LoadInv /\ [Next]_vars
        => LoadInv'
<1> SUFFICES ASSUME TypeInv, PhaseInv, LoneInv, FreshInv, LoadInv, [Next]_vars
             PROVE  LoadInv'
  OBVIOUS
<1>t. /\ pc = [t \in Thread |-> pc[t]] /\ draft = [t \in Thread |-> draft[t]]
      /\ mem.day \in Nat /\ today \in Nat
  BY Shape
<1> USE Threads DEF PhaseInv, LoadInv
<1>1. ASSUME MakeRef PROVE LoadInv'
  BY <1>1, <1>t DEF MakeRef, Goto, worldVars, cacheVars, threadVars, countVars,
     historyVars
<1>2. ASSUME Login PROVE LoadInv'
  BY <1>2, <1>t DEF Login, Goto, worldVars, cacheVars, threadVars, countVars,
     historyVars
<1>3. ASSUME InitState PROVE LoadInv'
  <2>1. pc'[Seq] = "fetch"
    BY <1>t, <1>3 DEF InitState, Goto
  <2> QED
    BY <2>1
<1>4. ASSUME FetchBar PROVE LoadInv'
  <2> SUFFICES ASSUME odd' \subseteq {"overwritten", "buttonsRaced"}
               PROVE  LoadInv'
    BY DEF LoadInv
  <2>1. UNCHANGED <<mem, bar, today>> /\ odd \subseteq odd'
    BY <1>4, <1>t DEF FetchBar, Note, worldVars
  <2>2. \/ pc'[Seq] \in {"script", "idle"}
        \/ pc'[Seq] = "merge" /\ bar.settings # None /\ draft'[Seq] = bar.settings
    BY <1>t, <1>4 DEF FetchBar, Goto
  <2> QED
    BY <2>1, <2>2
<1>5. ASSUME LoadRead PROVE LoadInv'
  <2> SUFFICES ASSUME odd' \subseteq {"overwritten", "buttonsRaced"}
               PROVE  LoadInv'
    BY DEF LoadInv
  <2> DEFINE new == [day |-> mem.day,
                     map |-> [k \in Key |-> IF k \in KeptKeys \/ draft[Seq].day = today
                                            THEN draft[Seq].map[k] ELSE mem.map[k]]]
  <2>1. /\ draft' = [draft EXCEPT ![Seq] = new] /\ pc' = [pc EXCEPT ![Seq] = "put"]
        /\ UNCHANGED <<mem, bar, today, odd>> /\ pc[Seq] = "merge"
    BY <1>5, <1>t DEF LoadRead, Goto, worldVars, historyVars
  <2>2. draft'[Seq] = new /\ pc'[Seq] = "put"
    BY <1>t, <2>1
  <2>3. bar.settings # None /\ draft[Seq] = bar.settings
    BY <2>1
  <2>4. new.day = mem.day
    OBVIOUS
  <2>5. /\ \A k \in KeptKeys : new.map[k] = bar.settings.map[k]
        /\ bar.settings.day = today =>
              \A k \in DayKeys : new.map[k] = bar.settings.map[k]
    BY <2>3 DEF Key
  <2> HIDE DEF new
  <2> QED
    BY <1>t, <2>1, <2>2, <2>3, <2>4, <2>5
<1>6. ASSUME LoadWrite PROVE LoadInv'
  BY <1>6, <1>t DEF LoadWrite, WriteMem, Note, Goto, worldVars, cacheVars,
     threadVars, countVars, historyVars
<1>7. ASSUME NEW p \in Procs, StartProc(p) PROVE LoadInv'
  BY <1>7, <1>t DEF StartProc, Goto, worldVars, cacheVars, threadVars, countVars,
     historyVars
<1>8. ASSUME NEW w \in Setter, NEW k \in Key, NEW v \in Choices(k, mem.day), SetRead(w, k, v)
      PROVE LoadInv'
  BY <1>8, <1>t DEF SetRead, Goto, worldVars, cacheVars, threadVars, countVars,
     historyVars
<1>9. ASSUME NEW w \in Setter, NEW s \in Stores, SetWrite(w, s) PROVE LoadInv'
  <2> SUFFICES ASSUME odd' \subseteq {"overwritten", "buttonsRaced"}
               PROVE  LoadInv'
    BY DEF LoadInv
  <2>1. /\ mem' = draft[w] /\ pc' = [pc EXCEPT ![w] = "script", ![s] = "delay"]
        /\ UNCHANGED <<bar, draft, today>> /\ odd \subseteq odd' /\ pc[w] = "set"
        /\ (draft[w].day < mem.day => "mislabelled" \in odd')
    BY <1>9, <1>t DEF SetWrite, WriteMem, worldVars
  <2>2. draft[w].day >= mem.day
    <3>1. draft[w].day \in Nat
      BY <2>1, Shape, PartTypes DEF HasDraft
    <3> QED
      BY <1>t, <2>1, <3>1
  <2>3. pc'[Seq] \in {"merge", "put"} => pc[Seq] = pc'[Seq] /\ draft[Seq].day \in Nat
    <3>1. pc'[Seq] \in {"merge", "put"} => pc[Seq] = pc'[Seq]
      BY <1>t, <2>1
    <3>2. pc[Seq] \in {"merge", "put"} => draft[Seq].day \in Nat
      BY Shape, PartTypes DEF HasDraft
    <3> QED
      BY <3>1, <3>2
  <2>4. draft[w].day \in Nat
    BY <2>1, Shape, PartTypes DEF HasDraft
  <2> QED
    BY <1>t, <2>1, <2>2, <2>3, <2>4
<1>10. ASSUME NEW w \in Setter, ScriptDone(w) PROVE LoadInv'
  BY <1>10, <1>t DEF ScriptDone, Goto, worldVars, cacheVars, threadVars, countVars,
     historyVars
<1>11. ASSUME PostButtons PROVE LoadInv'
  <2>1. /\ UNCHANGED <<mem, draft, today>> /\ odd \subseteq odd' /\ pc'[Seq] = "forget"
    BY <1>t, <1>11 DEF PostButtons, Goto, Note, threadVars
  <2> QED
    BY <2>1
<1>12. ASSUME ForgetBar PROVE LoadInv'
  BY <1>12, <1>t DEF ForgetBar, Goto, worldVars, cacheVars, threadVars, countVars,
     historyVars
<1>13. ASSUME Logout PROVE LoadInv'
  BY <1>13, <1>t DEF Logout, Goto, worldVars, cacheVars, threadVars, countVars,
     historyVars
<1>14. ASSUME NEW s \in Stores, Wake(s) PROVE LoadInv'
  BY <1>14, <1>t DEF Wake, Goto, worldVars, cacheVars, threadVars, countVars,
     historyVars
<1>15. ASSUME NEW t \in Storer, Begin(t) PROVE LoadInv'
  BY <1>15, <1>t DEF Begin, Goto, worldVars, cacheVars, threadVars, countVars,
     historyVars
<1>16. ASSUME NEW t \in Storer, ReadState(t) PROVE LoadInv'
  BY <1>16, <1>t DEF ReadState, Note, Goto, worldVars, cacheVars, threadVars,
     countVars, historyVars
<1>17. ASSUME NEW t \in Storer, Compare(t) PROVE LoadInv'
  BY <1>17, <1>t DEF Compare, Note, Finish, Goto, worldVars, cacheVars, threadVars,
     countVars, historyVars
<1>18. ASSUME NEW t \in Storer, TakeCached(t) PROVE LoadInv'
  BY <1>18, <1>t DEF TakeCached, Note, Goto, worldVars, cacheVars, threadVars,
     countVars, historyVars
<1>19. ASSUME NEW t \in Storer, Download(t) PROVE LoadInv'
  BY <1>19, <1>t DEF Download, Goto, worldVars, cacheVars, threadVars, countVars,
     historyVars
<1>20. ASSUME NEW t \in Storer, ReadLabel(t) PROVE LoadInv'
  BY <1>20, <1>t DEF ReadLabel, Goto, worldVars, cacheVars, threadVars, countVars,
     historyVars
<1>21. ASSUME NEW t \in Storer, CopyState(t) PROVE LoadInv'
  BY <1>21, <1>t DEF CopyState, Goto, worldVars, cacheVars, threadVars, countVars,
     historyVars
<1>22. ASSUME NEW t \in Storer, PostBar(t) PROVE LoadInv'
  <2> SUFFICES ASSUME odd' \subseteq {"overwritten", "buttonsRaced"}
               PROVE  LoadInv'
    BY DEF LoadInv
  <2>1. /\ pc[t] = "post" /\ UNCHANGED <<draft, odd>>
        /\ pc'[t] = "keep" /\ \A u \in Thread : u # t => pc'[u] = pc[u]
    BY <1>t, <1>22 DEF PostBar, Goto, historyVars
  <2>2. pc'[Seq] \notin {"merge", "put"}
    <3>1. t # Seq => t \in Stores
      BY DEF Storer
    <3> QED
      BY <2>1, <3>1 DEF LoneInv
  <2> QED
    BY <2>2
<1>23. ASSUME NEW t \in Storer, KeepBar(t) PROVE LoadInv'
  BY <1>23, <1>t DEF KeepBar, Finish, Goto, worldVars, cacheVars, threadVars,
     countVars, historyVars
<1>24. ASSUME NEW t \in Storer, FailStore(t) PROVE LoadInv'
  <2>1. "failed" \in odd'
    BY <1>24, <1>t DEF FailStore, Note
  <2> QED
    BY <2>1
<1>25. ASSUME NewDay PROVE LoadInv'
  <2> SUFFICES ASSUME odd' \subseteq {"overwritten", "buttonsRaced"}
               PROVE  LoadInv'
    BY DEF LoadInv
  <2>1. today' = today + 1 /\ UNCHANGED <<mem, bar, pc, draft, odd>>
    BY <1>25, <1>t DEF NewDay, threadVars, historyVars
  <2>2. bar.settings # None => bar.settings.day \in Nat /\ bar.settings.day <= today
    BY <2>1, Shape, PartTypes DEF FreshInv, Fresh
  <2>3. bar.settings # None => bar.settings.day # today'
    BY <1>t, <2>1, <2>2
  <2> QED
    BY <2>1, <2>3
<1>26. ASSUME Tick PROVE LoadInv'
  BY <1>26, <1>t DEF Tick, Goto, worldVars, cacheVars, threadVars, countVars,
     historyVars
<1>27. CASE UNCHANGED vars
  BY <1>27, <1>t DEF vars, worldVars, cacheVars, threadVars, countVars, historyVars
<1> HIDE DEF PhaseInv, LoadInv
<1> QED
  BY <1>1, <1>2, <1>3, <1>4, <1>5, <1>6, <1>7, <1>8, <1>9, <1>10, <1>11,
     <1>12, <1>13, <1>14, <1>15, <1>16, <1>17, <1>18, <1>19, <1>20, <1>21,
     <1>22, <1>23, <1>24, <1>25, <1>26, <1>27
  DEF Next, Load, Write, StoreStep, Rest

\* Steps beside those that read, write or post settings.
Beside ==
    /\ mem' = mem /\ today' = today /\ bar'.settings = bar.settings
    /\ lastState' = lastState /\ loaded' = loaded /\ unread' = unread
    /\ odd \subseteq odd'
    /\ \A t \in Storer :
          /\ Storing(t) =>
                Storing(t)'
                         /\ (pc'[t] = "compare" => pc[t] = "compare" /\ draft'[t] = draft[t])
          /\ pc'[t] = "post" => pc[t] = "post" /\ draft'[t] = draft[t]
    /\ pc'[Seq] \in {"fetch", "merge", "put"} =>
          pc'[Seq] = pc[Seq] /\ draft'[Seq] = draft[Seq]

\* A store that is going to post goes on.
LEMMA BusyStays == Busy /\ Beside => Busy'
<1> SUFFICES ASSUME Busy, Beside PROVE Busy'
  OBVIOUS
<1>1. PICK t \in Storer : Storing(t) /\ ~Skips(t)
  BY DEF Busy
<1>2. Storing(t)' /\ (pc'[t] = "compare" => pc[t] = "compare" /\ draft'[t] = draft[t])
  BY <1>1 DEF Beside
<1>3. ~Skips(t)'
  BY <1>1, <1>2 DEF Skips, Beside
<1> QED
  BY <1>2, <1>3 DEF Busy

\* Such steps leave what the game has, and will have, alone.
LEMMA BesideStep == ServedInv /\ Beside => ServedInv'
<1> SUFFICES ASSUME ServedInv, Beside, odd \subseteq {"overwritten", "buttonsRaced"},
                    ~unread
             PROVE  ServedInv'
  BY DEF ServedInv, Beside
<1>1. Served(mem) => Served(mem)'
  BY BusyStays DEF Served, Agree, Beside
<1>2. pc'[Seq] = "put" => (Served(draft[Seq]) => Served(draft[Seq])')
  BY BusyStays DEF Served, Agree, Beside
<1>3. loaded' => loaded /\ \A t \in Storer : pc'[t] = "post" => draft'[t] = mem'
  BY DEF ServedInv, Beside
<1>4. pc'[Seq] \in {"fetch", "merge"} /\ mem'.day = today' =>
        \/ mem'.map = Unset
        \/ bar'.settings # None /\ bar'.settings.day = today'
        \/ Busy'
  BY BusyStays DEF ServedInv, Beside
<1>5. pc'[Seq] = "fetch" /\ (\E t \in Stores : pc'[t] = "post") => mem'.map = Unset
  BY Threads DEF ServedInv, Beside
<1>6. pc'[Seq] = "put" => Served(draft[Seq])'
  BY <1>2 DEF ServedInv, Beside
<1>7. loaded' => Served(mem)'
  BY <1>1, <1>3 DEF ServedInv
<1> QED
  BY <1>3, <1>4, <1>5, <1>6, <1>7 DEF ServedInv

\* Settings of one day that the code takes for the same are the same.
LEMMA SameDay ==
    ASSUME NEW m \in Settings, NEW b \in Settings, Plain(b.map) = Plain(m.map),
           OfDay(m), OfDay(b), b.day = m.day
    PROVE  \A k \in Key : m.map[k] = b.map[k]
<1> SUFFICES ASSUME NEW k \in Key PROVE m.map[k] = b.map[k]
  OBVIOUS
<1>1. Plain(b.map)[k] = Plain(m.map)[k]
  OBVIOUS
<1>2. k \in DayKeys \/ (k \in KeptKeys /\ k \notin DayKeys)
  BY NamesAreDistinct DEF Key
<1>3. None # 0
  BY NamesAreDistinct
<1>4. k \in DayKeys => (b.map[k] = None <=> m.map[k] = None)
  BY <1>1, <1>3 DEF Plain
<1>5. k \notin DayKeys => b.map[k] = m.map[k]
  BY <1>1 DEF Plain
<1> QED
  BY <1>2, <1>4, <1>5 DEF OfDay

\* When the settings remembered are those in memory and the game has today's, it
\* has those in memory.
LEMMA RememberedAgrees ==
    ASSUME TypeInv, LastInv, FreshInv,
           odd \subseteq {"overwritten", "buttonsRaced"},
           \A t \in Storer : ~Sending(t),
           bar.settings # None, lastState = Plain(mem.map),
           bar.settings.day = mem.day, mem.day = today
    PROVE  Agree(mem)
<1>1. bar.settings \in Settings /\ mem \in Settings
  BY Shape
<1>2. lastState # None
  BY <1>1, PlainType, PartTypes, NoneIsNoSettings
<1>3. Plain(bar.settings.map) = Plain(mem.map)
  BY <1>2 DEF LastInv
<1>4. OfDay(mem) /\ OfDay(bar.settings)
  BY DEF FreshInv, Fresh
<1>5. \A k \in Key : mem.map[k] = bar.settings.map[k]
  BY <1>1, <1>3, <1>4, SameDay
<1> QED
  BY <1>5 DEF Agree

\* What is in memory is in the game, or will be.
LEMMA ServedStep ==
    TypeInv /\ PhaseInv /\ LoneInv /\ LastInv /\ FreshInv /\ LoadInv /\ ServedInv
             /\ [Next]_vars
        => ServedInv'
<1> SUFFICES ASSUME TypeInv, PhaseInv, LoneInv, LastInv, FreshInv,
                    LoadInv, ServedInv, [Next]_vars
             PROVE  ServedInv'
  OBVIOUS
<1>t. /\ pc = [t \in Thread |-> pc[t]] /\ draft = [t \in Thread |-> draft[t]]
      /\ mem.day \in Nat /\ today \in Nat
  BY Shape
<1> USE Threads
<1>1. ASSUME MakeRef PROVE ServedInv'
  BY <1>1, <1>t, BesideStep DEF MakeRef, Goto, worldVars, cacheVars, threadVars,
     countVars,
     historyVars, Beside, Storing
<1>2. ASSUME Login PROVE ServedInv'
  BY <1>2, <1>t, BesideStep DEF Login, Goto, worldVars, cacheVars, threadVars,
     countVars,
     historyVars, Beside, Storing
<1>3. ASSUME InitState PROVE ServedInv'
  <2>1. /\ mem' = [day |-> today, map |-> Unset] /\ ~loaded'
    BY <1>3, <1>t, BesideStep DEF InitState, WriteMem
  <2>2. pc'[Seq] = "fetch"
    BY <1>t, <1>3 DEF InitState, Goto
  <2> QED
    BY <2>1, <2>2 DEF ServedInv
<1>4. ASSUME FetchBar PROVE ServedInv'
  <2> SUFFICES ASSUME odd' \subseteq {"overwritten", "buttonsRaced"}, ~unread'
               PROVE  ServedInv'
    BY DEF ServedInv
  <2>1. /\ UNCHANGED <<mem, bar, today, lastState, unread>> /\ odd \subseteq odd'
        /\ pc[Seq] = "fetch"
        /\ \A t \in Thread : t # Seq => pc'[t] = pc[t] /\ draft'[t] = draft[t]
    BY <1>t, <1>4 DEF FetchBar, Goto, Note, worldVars, cacheVars
  <2>2. "failed" \notin odd' /\ "crossed" \notin odd'
    OBVIOUS
  <2>3. \/ bar.settings = None /\ pc'[Seq] = "script"
        \/ pc'[Seq] = "merge" /\ loaded' = loaded
    BY <1>t, <2>2, <1>4 DEF FetchBar, Goto, Note
  <2>4. \A t \in Stores : ~Storing(t)
    BY <2>2, <1>4 DEF FetchBar, Note
  <2>5. ~Busy
    BY <2>1, <2>4 DEF Busy, Storer, Storing
  <2>6. mem.day = today =>
           mem.map = Unset \/ (bar.settings # None /\ bar.settings.day = today)
    BY <2>1, <2>5 DEF ServedInv
  <2>7. \A t \in Storer : pc'[t] # "post"
    BY <2>1, <2>3, <2>4 DEF Storer, Storing
  <2>8. CASE bar.settings = None /\ pc'[Seq] = "script"
    <3>1. bar.settings = None /\ mem.day = today => Agree(mem)
      BY <2>6 DEF Agree, Unset
    <3>2. Served(mem)'
      BY <2>1, <2>8, <3>1 DEF Served, Agree
    <3> QED
      BY <2>7, <2>8, <3>2 DEF ServedInv
  <2>9. CASE pc'[Seq] = "merge" /\ loaded' = loaded
    <3>1. ~loaded
      BY <2>1 DEF PhaseInv
    <3> QED
      BY <2>1, <2>6, <2>9, <3>1 DEF ServedInv
  <2> QED
    BY <2>3, <2>8, <2>9
<1>5. ASSUME LoadRead PROVE ServedInv'
  <2> SUFFICES ASSUME odd' \subseteq {"overwritten", "buttonsRaced"}, ~unread'
               PROVE  ServedInv'
    BY DEF ServedInv
  <2> DEFINE new == [day |-> mem.day,
                     map |-> [k \in Key |-> IF k \in KeptKeys \/ draft[Seq].day = today
                                            THEN draft[Seq].map[k] ELSE mem.map[k]]]
  <2>1. /\ draft' = [draft EXCEPT ![Seq] = new] /\ pc' = [pc EXCEPT ![Seq] = "put"]
        /\ UNCHANGED <<mem, bar, today, odd, lastState, loaded, unread>>
        /\ pc[Seq] = "merge"
    BY <1>5, <1>t, BesideStep DEF LoadRead, Goto, worldVars, cacheVars, historyVars
  <2>2. draft[Seq] = bar.settings /\ bar.settings # None
    BY <2>1 DEF LoadInv
  <2>3. mem.day = today =>
          \/ mem.map = Unset
          \/ bar.settings # None /\ bar.settings.day = today
          \/ Busy
    BY <2>1 DEF ServedInv
  <2>4. new.day = mem.day
    OBVIOUS
  <2>5. \A k \in Key : new.map[k] = IF k \in KeptKeys \/ bar.settings.day = today
                                    THEN bar.settings.map[k] ELSE mem.map[k]
    BY <2>2
  <2> HIDE DEF new
  <2>6. mem.day = today => Agree(new) \/ Busy
    <3>1. \A k \in Key : k \in KeptKeys <=> k \notin DayKeys
      BY NamesAreDistinct DEF Key
    <3>2. mem.map = Unset => \A k \in Key : mem.map[k] = None
      BY DEF Unset
    <3> QED
      BY <2>2, <2>3, <2>4, <2>5, <3>1, <3>2 DEF Agree
  <2>7. draft'[Seq] = new /\ \A t \in Thread : t # Seq => draft'[t] = draft[t]
    BY <1>t, <2>1
  <2>8. pc'[Seq] = "put" /\ \A t \in Thread : t # Seq => pc'[t] = pc[t]
    BY <1>t, <2>1
  <2>9. Busy => Busy'
    <3>1. \A t \in Storer : Storing(t) => t # Seq
      BY <2>1 DEF Storing
    <3> QED
      BY <2>1, <2>7, <2>8, <3>1 DEF Busy, Storing, Skips
  <2>10. Served(draft[Seq])'
    <3>1. Agree(new) => Agree(draft[Seq])'
      BY <2>1, <2>7 DEF Agree
    <3> QED
      BY <2>1, <2>4, <2>6, <2>7, <2>9, <3>1 DEF Served
  <2>11. ~loaded'
    BY <2>1 DEF PhaseInv
  <2> QED
    BY <2>8, <2>10, <2>11 DEF ServedInv
<1>6. ASSUME LoadWrite PROVE ServedInv'
  <2> SUFFICES ASSUME odd' \subseteq {"overwritten", "buttonsRaced"}, ~unread'
               PROVE  ServedInv'
    BY DEF ServedInv
  <2>1. /\ mem' = draft[Seq] /\ pc' = [pc EXCEPT ![Seq] = "script"] /\ pc[Seq] = "put"
        /\ UNCHANGED <<bar, draft, today, lastState, unread>> /\ odd \subseteq odd'
    BY <1>6, <1>t, BesideStep DEF LoadWrite, WriteMem, Goto, worldVars, cacheVars
  <2>2. pc'[Seq] = "script" /\ \A t \in Thread : t # Seq => pc'[t] = pc[t]
    BY <1>t, <2>1
  <2>3. Served(draft[Seq])
    BY <2>1 DEF ServedInv
  <2>4. Busy => Busy'
    <3>1. \A t \in Storer : Storing(t) => t # Seq
      BY <2>1 DEF Storing
    <3> QED
      BY <2>1, <2>2, <3>1 DEF Busy, Storing, Skips
  <2>5. Served(mem)'
    BY <2>1, <2>3, <2>4 DEF Served, Agree
  <2>6. \A t \in Storer : pc'[t] # "post"
    BY <2>1, <2>2 DEF LoneInv, Storer
  <2> QED
    BY <2>2, <2>5, <2>6 DEF ServedInv
<1>7. ASSUME NEW p \in Procs, StartProc(p) PROVE ServedInv'
  BY <1>7, <1>t, BesideStep DEF StartProc, Goto, worldVars, cacheVars, threadVars,
     countVars,
     historyVars, Beside, Storing
<1>8. ASSUME NEW w \in Setter, NEW k \in Key, NEW v \in Choices(k, mem.day), SetRead(w, k, v)
      PROVE ServedInv'
  BY <1>8, <1>t, BesideStep DEF SetRead, Goto, worldVars, cacheVars, threadVars,
     countVars,
     historyVars, Beside, Storing
<1>9. ASSUME NEW w \in Setter, NEW s \in Stores, SetWrite(w, s) PROVE ServedInv'
  <2>1. unread'
    BY <1>9, <1>t, BesideStep DEF SetWrite
  <2> QED
    BY <2>1 DEF ServedInv
<1>10. ASSUME NEW w \in Setter, ScriptDone(w) PROVE ServedInv'
  BY <1>10, <1>t, BesideStep DEF ScriptDone, Goto, worldVars, cacheVars, threadVars,
     countVars,
     historyVars, Beside, Storing
<1>11. ASSUME PostButtons PROVE ServedInv'
  BY <1>11, <1>t, BesideStep DEF PostButtons, Note, Goto, worldVars, cacheVars,
     threadVars,
     countVars, historyVars, Beside, Storing
<1>12. ASSUME ForgetBar PROVE ServedInv'
  BY <1>12, <1>t, BesideStep DEF ForgetBar, Goto, worldVars, cacheVars, threadVars,
     countVars,
     historyVars, Beside, Storing
<1>13. ASSUME Logout PROVE ServedInv'
  BY <1>13, <1>t, BesideStep DEF Logout, Goto, worldVars, cacheVars, threadVars,
     countVars,
     historyVars, Beside, Storing
<1>14. ASSUME NEW s \in Stores, Wake(s) PROVE ServedInv'
  BY <1>14, <1>t, BesideStep DEF Wake, Goto, worldVars, cacheVars, threadVars,
     countVars,
     historyVars, Beside, Storing
<1>15. ASSUME NEW t \in Storer, Begin(t) PROVE ServedInv'
  BY <1>15, <1>t, BesideStep DEF Begin, Goto, worldVars, cacheVars, threadVars,
     countVars,
     historyVars, Beside, Storing
<1>16. ASSUME NEW t \in Storer, ReadState(t) PROVE ServedInv'
  <2> SUFFICES ASSUME odd' \subseteq {"overwritten", "buttonsRaced"}, ~unread'
               PROVE  ServedInv'
    BY DEF ServedInv
  <2>1. /\ draft' = [draft EXCEPT ![t] = mem] /\ pc' = [pc EXCEPT ![t] = "compare"]
        /\ UNCHANGED <<mem, bar, today, lastState, loaded>> /\ odd \subseteq odd'
        /\ pc[t] = "read"
    BY <1>16, <1>t, BesideStep DEF ReadState, Goto, Note, cacheVars, worldVars
  <2>2. \A u \in Storer : ~Storing(u)
    BY <1>16, <1>t, BesideStep DEF ReadState, Note
  <2>3. draft'[t] = mem /\ \A u \in Thread : u # t =>
           draft'[u] = draft[u] /\ pc'[u] = pc[u]
    BY <1>t, <2>1
  <2>4. pc'[t] = "compare"
    BY <1>t, <2>1
  <2>5. \A u \in Storer : pc'[u] # "post"
    BY <2>2, <2>3, <2>4 DEF Storing
  <2>6. \/ Busy'
        \/ bar.settings # None /\ lastState = Plain(mem.map)
                 /\ bar.settings.day = mem.day
    BY <2>1, <2>3, <2>4 DEF Busy, Storing, Skips
  <2>7. CASE Busy'
    <3>1. \A m : m.day = today' => Agree(m)' \/ Busy'
      BY <2>7
    <3>2. Served(mem)' /\ Served(draft[Seq])'
      BY <2>7 DEF Served
    <3> QED
      BY <2>5, <2>7, <3>2, Threads DEF ServedInv
  <2>8. CASE bar.settings # None /\ lastState = Plain(mem.map)
           /\ bar.settings.day = mem.day
    <3>1. \A u \in Storer : ~Sending(u)
      BY <2>2 DEF Sending, Storing
    <3>2. mem.day = today => Agree(mem)
      BY <2>1, <2>8, <3>1, RememberedAgrees
    <3>3. Served(mem)'
      BY <2>1, <3>2 DEF Served, Agree
    <3>4. pc'[Seq] = "put" => Served(draft[Seq])'
      <4>1. SUFFICES ASSUME pc'[Seq] = "put", draft[Seq].day = today
                     PROVE  Agree(draft[Seq])
        BY <2>1, <2>3, <2>4 DEF Served, Agree
      <4>2. pc[Seq] = "put"
        BY <2>3, <2>4, <4>1
      <4>3. mem.day = today
        <5>1. draft[Seq].day <= mem.day /\ mem.day <= today
          BY <2>1, <4>2 DEF LoadInv, FreshInv, Fresh
        <5> QED
          BY <1>t, <4>1, <5>1
      <4>4. \A k \in Key : draft[Seq].map[k] = bar.settings.map[k]
        BY <2>1, <2>8, <4>2, <4>3 DEF LoadInv, Key
      <4> QED
        BY <2>8, <4>1, <4>3, <4>4 DEF Agree
    <3> QED
      BY <2>1, <2>5, <2>8, <3>3, <3>4, Threads DEF ServedInv
  <2> QED
    BY <2>6, <2>7, <2>8
<1>17. ASSUME NEW t \in Storer, Compare(t) PROVE ServedInv'
  <2> SUFFICES ASSUME odd' \subseteq {"overwritten", "buttonsRaced"}, ~unread'
               PROVE  ServedInv'
    BY DEF ServedInv
  <2>1. /\ pc[t] = "compare" /\ UNCHANGED <<mem, draft, bar, today, loaded, unread>>
        /\ odd \subseteq odd'
        /\ \A u \in Thread : u # t => pc'[u] = pc[u]
        /\ pc'[t] \in {"script", "done", "cache"}
        /\ \/ pc'[t] = "cache"
           \/ /\ lastState' = lastState /\ lastState = Plain(draft[t].map)
              /\ ~(bar.settings # None /\ bar.settings.day # draft[t].day)
    BY <1>t, <1>17 DEF Compare, Note, Finish, Goto, worldVars
  <2>2. \A u \in Storer : u # t => ~Storing(u)
    BY <2>1 DEF LoneInv, Storing
  <2>3. \A u \in Storer : pc'[u] # "post"
    BY <2>1, <2>2 DEF Storing
  <2>4. CASE pc'[t] = "cache"
    <3>1. Busy'
      BY <2>4 DEF Busy, Storing, Skips
    <3>2. Served(mem)' /\ Served(draft[Seq])'
      BY <3>1 DEF Served
    <3>3. pc'[Seq] = "fetch" => pc[Seq] = "fetch"
      BY <2>1
    <3> QED
      BY <2>3, <3>1, <3>2, Threads DEF ServedInv
  <2>5. CASE /\ lastState' = lastState /\ lastState = Plain(draft[t].map)
             /\ ~(bar.settings # None /\ bar.settings.day # draft[t].day)
    <3>1. \A u \in Storer : ~Sending(u)
      BY <2>1, <2>2 DEF Sending, Storing
    <3>2. lastState # None
      <4>1. draft[t] \in Settings
        BY <2>1, Shape DEF HasDraft
      <4> QED
        BY <2>5, <4>1, PlainType, PartTypes, NoneIsNoSettings
    <3>3. Skips(t)
      BY <2>1, <2>5, <3>1, <3>2 DEF Skips, LastInv
    <3>4. ~Busy
      BY <2>2, <3>3 DEF Busy
    <3>5. Served(mem) => Served(mem)'
      BY <2>1, <3>4 DEF Served, Agree
    <3>6. Served(draft[Seq]) => Served(draft[Seq])'
      BY <2>1, <3>4 DEF Served, Agree
    <3>7. pc'[Seq] \in {"fetch", "merge", "put"} => pc[Seq] = pc'[Seq]
      BY <2>1
    <3> QED
      BY <2>1, <2>3, <3>4, <3>5, <3>6, <3>7, Threads DEF ServedInv
  <2> QED
    BY <2>1, <2>4, <2>5
<1>18. ASSUME NEW t \in Storer, TakeCached(t) PROVE ServedInv'
  BY <1>18, <1>t, BesideStep DEF TakeCached, Note, Goto, worldVars, cacheVars,
     threadVars,
     countVars, historyVars, Beside, Storing
<1>19. ASSUME NEW t \in Storer, Download(t) PROVE ServedInv'
  BY <1>19, <1>t, BesideStep DEF Download, Goto, worldVars, cacheVars, threadVars,
     countVars,
     historyVars, Beside, Storing
<1>20. ASSUME NEW t \in Storer, ReadLabel(t) PROVE ServedInv'
  BY <1>20, <1>t, BesideStep DEF ReadLabel, Goto, worldVars, cacheVars, threadVars,
     countVars,
     historyVars, Beside, Storing
<1>21. ASSUME NEW t \in Storer, CopyState(t) PROVE ServedInv'
  <2> SUFFICES ASSUME odd' \subseteq {"overwritten", "buttonsRaced"}, ~unread'
               PROVE  ServedInv'
    BY DEF ServedInv
  <2> DEFINE new == [draft[t] EXCEPT !.map = mem.map]
  <2>1. /\ draft' = [draft EXCEPT ![t] = new] /\ pc' = [pc EXCEPT ![t] = "post"]
        /\ UNCHANGED <<mem, bar, today, loaded, unread>> /\ pc[t] = "copy"
        /\ odd \subseteq odd' /\ (~loaded => "unloaded" \in odd')
        /\ (mem.day # draft[t].day => "mislabelled" \in odd')
    BY <1>t, <1>21 DEF CopyState, Goto, worldVars
  <2>2. loaded /\ mem.day = draft[t].day
    BY <2>1
  <2>3. new = mem
    <3>1. draft[t] \in Settings /\ mem \in Settings
      BY <2>1, Shape DEF HasDraft
    <3>2. new.day = mem.day /\ new.map = mem.map
      BY <2>2, <3>1 DEF Settings
    <3> QED
      BY <3>1, <3>2 DEF Settings
  <2> HIDE DEF new
  <2>4. draft'[t] = new /\ \A u \in Thread : u # t => draft'[u] = draft[u]
    BY <1>t, <2>1
  <2>5. pc'[t] = "post" /\ \A u \in Thread : u # t => pc'[u] = pc[u]
    BY <1>t, <2>1
  <2>6. Busy'
    BY <2>5 DEF Busy, Storing, Skips
  <2>7. Served(mem)'
    BY <2>6 DEF Served
  <2>8. pc'[Seq] \notin {"fetch", "merge", "put"}
    BY <2>2, <2>5 DEF PhaseInv
  <2>9. \A u \in Storer : u # t => pc'[u] # "post"
    BY <2>1, <2>5 DEF LoneInv, Storing
  <2> QED
    BY <2>1, <2>3, <2>4, <2>7, <2>8, <2>9 DEF ServedInv
<1>22. ASSUME NEW t \in Storer, PostBar(t) PROVE ServedInv'
  <2> SUFFICES ASSUME odd' \subseteq {"overwritten", "buttonsRaced"}, ~unread'
               PROVE  ServedInv'
    BY DEF ServedInv
  <2>1. /\ pc[t] = "post" /\ UNCHANGED <<mem, today, loaded, unread, draft, odd>>
        /\ bar'.settings = draft[t]
        /\ pc'[t] = "keep" /\ \A u \in Thread : u # t => pc'[u] = pc[u]
    BY <1>t, <1>22 DEF PostBar, NewBar, Goto, historyVars
  <2>2. \A u \in Storer : u # t => ~Storing(u)
    BY <2>1 DEF LoneInv, Storing
  <2>3. \A u \in Storer : pc'[u] # "post"
    BY <2>1, <2>2 DEF Storing
  <2>4. t # Seq => t \in Stores
    BY DEF Storer
  <2>5. pc'[Seq] \notin {"merge", "put"}
    BY <2>1, <2>4 DEF LoneInv
  <2>6. loaded => Served(mem)'
    <3>1. loaded => draft[t] = mem
      BY <2>1 DEF ServedInv
    <3>2. loaded => Agree(mem)'
      <4>1. draft[t] # None
        BY <2>1, Shape, NoneIsNoSettings DEF HasDraft
      <4> QED
        BY <2>1, <3>1, <4>1 DEF Agree
    <3> QED
      BY <3>2 DEF Served
  <2>7. pc'[Seq] = "fetch" => mem.map = Unset
    <3>1. pc'[Seq] = "fetch" => pc[Seq] = "fetch" /\ t \in Stores
      BY <2>1, <2>4
    <3> QED
      BY <2>1, <3>1 DEF ServedInv
  <2> QED
    BY <2>1, <2>3, <2>5, <2>6, <2>7, Threads DEF ServedInv
<1>23. ASSUME NEW t \in Storer, KeepBar(t) PROVE ServedInv'
  BY <1>23, <1>t, BesideStep DEF KeepBar, Finish, Goto, worldVars, cacheVars,
     threadVars,
     countVars, historyVars, Beside, Storing
<1>24. ASSUME NEW t \in Storer, FailStore(t) PROVE ServedInv'
  <2>1. "failed" \in odd'
    BY <1>24, <1>t, BesideStep DEF FailStore, Note
  <2> QED
    BY <2>1 DEF ServedInv
<1>25. ASSUME NewDay PROVE ServedInv'
  <2> SUFFICES ASSUME odd' \subseteq {"overwritten", "buttonsRaced"}, ~unread'
               PROVE  ServedInv'
    BY DEF ServedInv
  <2>1. /\ today' = today + 1
        /\ UNCHANGED <<mem, bar, pc, draft, odd, lastState, loaded, unread>>
    BY <1>25, <1>t, BesideStep DEF NewDay, threadVars, historyVars, cacheVars
  <2>2. mem.day < today'
    BY <1>t, <2>1 DEF FreshInv, Fresh
  <2>3. pc[Seq] = "put" => draft[Seq].day < today'
    <3>1. pc[Seq] = "put" => draft[Seq].day \in Nat /\ draft[Seq].day <= mem.day
      BY <2>1, Shape, PartTypes DEF LoadInv, HasDraft
    <3> QED
      BY <1>t, <2>1, <2>2, <3>1
  <2>4. pc[Seq] = "put" => draft[Seq].day \in Nat
    BY Shape, PartTypes DEF HasDraft
  <2>5. Served(mem)' /\ (pc'[Seq] = "put" => Served(draft[Seq])')
    <3>1. today' \in Nat /\ mem.day # today'
      BY <1>t, <2>1, <2>2
    <3>2. pc[Seq] = "put" => draft[Seq].day # today'
      BY <2>3, <2>4, <3>1
    <3> QED
      BY <2>1, <3>1, <3>2 DEF Served
  <2>6. mem'.day # today'
    BY <1>t, <2>1, <2>2
  <2> QED
    BY <2>1, <2>5, <2>6 DEF ServedInv
<1>26. ASSUME Tick PROVE ServedInv'
  BY <1>26, <1>t, BesideStep DEF Tick, Goto, worldVars, cacheVars, threadVars,
     countVars,
     historyVars, Beside, Storing
<1>27. CASE UNCHANGED vars
  BY <1>27, <1>t, BesideStep DEF Beside, Storing, vars, worldVars, cacheVars,
     threadVars, countVars, historyVars
<1> QED
  BY <1>1, <1>2, <1>3, <1>4, <1>5, <1>6, <1>7, <1>8, <1>9, <1>10, <1>11,
     <1>12, <1>13, <1>14, <1>15, <1>16, <1>17, <1>18, <1>19, <1>20, <1>21,
     <1>22, <1>23, <1>24, <1>25, <1>26, <1>27
  DEF Next, Load, Write, StoreStep, Rest

\* When nothing is under way the game has the settings that are in memory, unless
\* a step failed, two stores or a store and a load crossed, a store posted others
\* than it compared, or the settings of a day were stored as another day's, taken
\* for stored already because they equal another day's, or written over those of a
\* later day.
THEOREM StoredAtRest == Spec => []ServerHasSettings
<1> DEFINE IInv == /\ TypeInv /\ AgeInv /\ PhaseInv /\ LoneInv
                   /\ LastInv /\ FreshInv /\ LoadInv /\ ServedInv
<1>1. Init => IInv
  BY TypeInit, AgeInit, PhaseInit, ServedInit
<1>2. IInv /\ [Next]_vars => IInv'
  BY TypeStep, AgeStep, PhaseStep, LoneStep, LastStep, FreshStep, LoadStep, ServedStep
<1>3. IInv => ServerHasSettings
  <2> SUFFICES ASSUME IInv, AtRest, loaded, mem.day = today,
                      odd \subseteq {"overwritten", "buttonsRaced"}
               PROVE  \A k \in Key : Stored(k) = mem.map[k]
    BY DEF ServerHasSettings
  <2>1. ~unread
    BY Threads DEF AtRest, AgeInv
  <2>2. ~Busy
    BY Threads DEF AtRest, Busy, Storing
  <2>3. Agree(mem)
    BY <2>1, <2>2 DEF ServedInv, Served
  <2>4. \A k \in Key : k \in KeptKeys <=> k \notin DayKeys
    BY NamesAreDistinct DEF Key
  <2> QED
    BY <2>3, <2>4 DEF Agree, Stored
<1> QED
  BY <1>1, <1>2, <1>3, PTL DEF Spec

=============================================================================
