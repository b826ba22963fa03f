------------------------------ MODULE DataFiles ------------------------------
(***************************************************************************)
(* The data files: a thread forked when the program starts, and one forked *)
(* by a page every ten minutes, each look at two small files to see        *)
(* whether an update is due, and if so download the source files, parse    *)
(* them and write the files that scripts load.  The program may be stopped *)
(* at any step.                                                            *)
(*                                                                         *)
(* Times are ages, counted no further than the code compares them.  The    *)
(* run-time lets a file be open either for one writer or for readers, and  *)
(* throws when it is opened otherwise; that holds for the two small files, *)
(* and not for the data files, which Lua opens by itself.                  *)
(*                                                                         *)
(* What is downloaded and what is made are two lists: a data file is made  *)
(* of several source files, or of one that is not downloaded any more, and *)
(* some need a data file made before them.                                 *)
(***************************************************************************)
EXTENDS Integers, FiniteSets

CONSTANTS
    Updaters,   \* threads "proxy:updatedatafiles": those at work at once
    First,      \* "kps:updatedatafiles", one of them
    NumDownloads, \* source files that are downloaded, in their order
    Kept,       \* source files that are read, and not downloaded any more
    NumFiles,   \* data files, in the order they are made
    MadeOf,     \* data file |-> the source files it is made of
    Uses,       \* data file |-> those before it that it cannot be made without
    UpdateAge,  \* ticks of the clock in 24 hours
    AttemptAge, \* in 120 minutes
    PageAge,    \* in 10 minutes
    MaxFaults, MaxStops  \* bounds: steps that fail, stops of the program

ASSUME ThreadsAssumption == First \in Updaters
ASSUME AgesAssumption ==
    /\ PageAge \in Nat \ {0} /\ AttemptAge \in Nat /\ UpdateAge \in Nat
    /\ PageAge <= AttemptAge /\ AttemptAge <= UpdateAge
ASSUME BoundsAssumption == MaxFaults \in Nat /\ MaxStops \in Nat

Downloads == 1..NumDownloads
Sources == Downloads \cup Kept
Files == 1..NumFiles

\* Uses is closed: with a file come those that file cannot be made without.
ASSUME FilesAssumption ==
    /\ NumDownloads \in Nat \ {0} /\ NumFiles \in Nat \ {0}
    /\ Kept \cap Downloads = {}
    /\ MadeOf \in [Files -> SUBSET Sources] /\ Uses \in [Files -> SUBSET Files]
    /\ \A f \in Files : \A g \in Uses[f] : g < f /\ Uses[g] \subseteq Uses[f]

NoFile == -1
Unreadable == -2   \* cut short, "failed", or of another version of kolproxy
Stamps == {NoFile, Unreadable} \cup 0..UpdateAge
Contents == {"none", "whole", "junk", "torn"}

VARIABLES
    lastUpdate, \* the file last_update: the age of the time in it
    lastAttempt,\* the file last_attempt
    raw,        \* source file |-> what is in cache/files
    data,       \* data file |-> what is in cache/data
    pc,         \* thread |-> where it is
    at,         \* thread |-> the source file or data file it is at
    processed,  \* thread |-> processed_datafiles of its parsers
    got,        \* thread |-> what it has downloaded
    age,        \* thread |-> how long ago it began
    lastFork,   \* lastDatafileUpdate_
    faults, stops,
    sinceMark,  \* history: how long ago a download began
    cut,        \* history: data files whose last write failed
    odd         \* history: what has happened of "raced", "overlap"

files == <<lastUpdate, lastAttempt, raw, data>>
threads == <<pc, at, processed, got, age>>
vars == <<files, threads, lastFork, faults, stops, sinceMark, cut, odd>>

\* A behaviour may be one in which nothing fails, or with fewer threads at once.
\* The files that are not downloaded may be there from a time when they were.
Init ==
    /\ lastUpdate = NoFile /\ lastAttempt = NoFile
    /\ \E there \in SUBSET Kept :
           raw = [s \in Sources |-> IF s \in there THEN "whole" ELSE "none"]
    /\ data = [f \in Files |-> "none"]
    /\ \E unused \in SUBSET (Updaters \ {First}) :
           pc = [u \in Updaters |-> IF u = First THEN "checkUpdate"
                                   ELSE IF u \in unused THEN "unused" ELSE "idle"]
    /\ at = [u \in Updaters |-> 1] /\ processed = [u \in Updaters |-> {}]
    /\ got = [u \in Updaters |-> "none"]
    /\ age = [u \in Updaters |-> 0]
    /\ lastFork = PageAge
    /\ faults \in {0, MaxFaults} /\ stops \in {0, MaxStops}
    /\ sinceMark = UpdateAge /\ cut = {} /\ odd = {}

Go(u, step) == pc' = [pc EXCEPT ![u] = step]
At(steps) == {u \in Updaters : pc[u] \in steps}
Recent(stamp, limit) == stamp \in Nat /\ stamp < limit

Checking == {"checkUpdate", "readUpdate", "checkAttempt", "readAttempt", "mark", "marking"}
Working == {"download", "rename", "rewrite", "parse", "write", "mixed",
            "finish", "finishing", "failing", "failed"}
Place == {"unused", "idle"} \cup Checking \cup Working

-----------------------------------------------------------------------------
(* Is an update due?                                                       *)

\* The first page after ten minutes forks a thread.
PageForks(u) ==
    /\ pc[u] = "idle" /\ lastFork = PageAge
    /\ Go(u, "checkUpdate")
    /\ lastFork' = 0 /\ age' = [age EXCEPT ![u] = 0]
    /\ UNCHANGED <<files, at, processed, got, faults, stops, sinceMark, cut, odd>>

\* A small file that another thread is writing cannot be opened: the thread ends.
CheckUpdate(u) ==
    /\ pc[u] = "checkUpdate"
    /\ Go(u, IF lastUpdate = NoFile THEN "checkAttempt"
             ELSE IF At({"finishing", "failed"}) # {} THEN "idle" ELSE "readUpdate")
    /\ UNCHANGED <<files, at, processed, got, age, lastFork, faults, stops,
                   sinceMark, cut, odd>>

ReadUpdate(u) ==
    /\ pc[u] = "readUpdate"
    /\ Go(u, IF Recent(lastUpdate, UpdateAge) THEN "idle" ELSE "checkAttempt")
    /\ UNCHANGED <<files, at, processed, got, age, lastFork, faults, stops,
                   sinceMark, cut, odd>>

CheckAttempt(u) ==
    /\ pc[u] = "checkAttempt"
    /\ Go(u, IF lastAttempt = NoFile THEN "mark"
             ELSE IF At({"marking"}) # {} THEN "idle" ELSE "readAttempt")
    /\ UNCHANGED <<files, at, processed, got, age, lastFork, faults, stops,
                   sinceMark, cut, odd>>

\* An attempt that cannot be read counts as a recent one.
ReadAttempt_Faulty(u) ==
    /\ pc[u] = "readAttempt"
    /\ Go(u, IF lastAttempt = Unreadable \/ Recent(lastAttempt, AttemptAge) THEN "idle" ELSE "mark")
    /\ UNCHANGED <<files, at, processed, got, age, lastFork, faults, stops,
                   sinceMark, cut, odd>>

ReadAttempt(u) ==
    /\ pc[u] = "readAttempt"
    /\ Go(u, IF Recent(lastAttempt, AttemptAge) THEN "idle" ELSE "mark")
    /\ UNCHANGED <<files, at, processed, got, age, lastFork, faults, stops,
                   sinceMark, cut, odd>>

\* writeFile empties the file, then writes it.
OpenMark(u) ==
    /\ pc[u] = "mark"
    /\ IF At({"readAttempt", "marking"}) # {}
       THEN Go(u, "idle") /\ UNCHANGED <<lastAttempt, odd>>
       ELSE /\ Go(u, "marking") /\ lastAttempt' = Unreadable
            /\ odd' = odd \cup (IF At({"mark"}) = {u} THEN {} ELSE {"raced"})
                          \cup (IF At(Working) = {} /\ ~Recent(lastUpdate, UpdateAge)
                               THEN {} ELSE {"overlap"})
    /\ UNCHANGED <<lastUpdate, raw, data, at, processed, got, age, lastFork, faults, stops,
                   sinceMark, cut>>

Mark(u) ==
    /\ pc[u] = "marking"
    /\ Go(u, "download") /\ at' = [at EXCEPT ![u] = 1]
    /\ lastAttempt' = age[u]
    /\ sinceMark' = 0
    /\ UNCHANGED <<lastUpdate, raw, data, processed, got, age, lastFork, faults, stops, cut, odd>>

-----------------------------------------------------------------------------
(* Downloading: download_data_files, best_effort_atomic_file_write.        *)

\* The next file of a list, or what comes after the last one.
NextFile(u, step, last, then) ==
    IF at[u] < last
    THEN Go(u, step) /\ at' = [at EXCEPT ![u] = @ + 1]
    ELSE Go(u, then) /\ at' = [at EXCEPT ![u] = 1]

Fails == faults < MaxFaults /\ faults' = faults + 1

\* An answer that is an error page is taken for the file; a download that fails
\* is noted on the console only.
Download(u) ==
    /\ pc[u] = "download"
    /\ \/ Go(u, "rename") /\ got' = [got EXCEPT ![u] = "whole"] /\ UNCHANGED <<at, faults>>
       \/ Fails /\ Go(u, "rename") /\ got' = [got EXCEPT ![u] = "junk"] /\ UNCHANGED at
       \/ Fails /\ NextFile(u, "download", NumDownloads, "parse") /\ UNCHANGED got
    /\ UNCHANGED <<files, processed, age, lastFork, stops, sinceMark, cut, odd>>

\* The temporary file takes the place of the old one; if it cannot, the file
\* itself is written.
Rename(u) ==
    /\ pc[u] = "rename"
    /\ \/ /\ raw' = [raw EXCEPT ![at[u]] = got[u]]
          /\ NextFile(u, "download", NumDownloads, "parse") /\ UNCHANGED faults
       \/ /\ raw' = [raw EXCEPT ![at[u]] = "torn"]
          /\ Fails /\ Go(u, "rewrite") /\ UNCHANGED at
    /\ UNCHANGED <<lastUpdate, lastAttempt, data, processed, got, age, lastFork, stops, sinceMark,
                   cut, odd>>

\* What kept the file from being replaced may keep it from being written.
Rewrite(u) ==
    /\ pc[u] = "rewrite"
    /\ raw' = [raw EXCEPT ![at[u]] = got[u]] \/ UNCHANGED raw
    /\ NextFile(u, "download", NumDownloads, "parse")
    /\ UNCHANGED <<lastUpdate, lastAttempt, data, processed, got, age, lastFork, faults, stops,
                   sinceMark, cut, odd>>

-----------------------------------------------------------------------------
(* Parsing: run_datafile_parsers and process in update-datafiles.lua.      *)

\* The next data file; after the last one the interpreter is closed.
NextData(u, done) ==
    /\ NextFile(u, "parse", NumFiles, "finish")
    /\ processed' = [processed EXCEPT ![u] = IF at[u] = NumFiles THEN {} ELSE done]

\* loadf and verifyf: the source files are read, and some data files are looked up
\* in others, made before in this run.
CanMake(u) ==
    /\ \A s \in MadeOf[at[u]] : raw[s] = "whole"
    /\ Uses[at[u]] \subseteq processed[u]

\* The data file is emptied and written in place.  A thread that has it open as
\* well goes on at its own position.
OpenData(u) ==
    LET others == {v \in At({"write", "mixed"}) : at[v] = at[u]}
    IN  /\ pc[u] = "parse" /\ CanMake(u)
        /\ data' = [data EXCEPT ![at[u]] = "torn"]
        /\ pc' = [v \in Updaters |-> IF v = u THEN (IF others = {} THEN "write" ELSE "mixed")
                                     ELSE IF v \in others THEN "mixed" ELSE pc[v]]
        /\ UNCHANGED <<lastUpdate, lastAttempt, raw, at, processed, got, age, lastFork, faults,
                       stops, sinceMark, cut, odd>>

\* What a missing or damaged source file is needed for is counted, and passed over.
SkipData(u) ==
    /\ pc[u] = "parse" /\ ~CanMake(u)
    /\ NextData(u, processed[u])
    /\ UNCHANGED <<files, got, age, lastFork, faults, stops, sinceMark, cut, odd>>

\* A write that fails is not noticed: the file counts as made.
WriteData(u) ==
    /\ pc[u] \in {"write", "mixed"}
    /\ \/ /\ \E c \in {"whole", "torn"} :
               /\ pc[u] = "write" => c = "whole"
               /\ data' = [data EXCEPT ![at[u]] = c]
          /\ cut' = cut \ {at[u]} /\ UNCHANGED faults
       \/ Fails /\ cut' = cut \cup {at[u]} /\ UNCHANGED data
    /\ NextData(u, processed[u] \cup {at[u]})
    /\ UNCHANGED <<lastUpdate, lastAttempt, raw, got, age, lastFork, stops, sinceMark, odd>>

\* The exception is caught too early.
ParserThrows_Faulty(u) ==
    /\ pc[u] = "parse" /\ Fails
    /\ Go(u, "finish") /\ processed' = [processed EXCEPT ![u] = {}]
    /\ UNCHANGED <<files, at, got, age, lastFork, stops, sinceMark, cut, odd>>

\* The script fails: a file cannot be opened for writing.
ParserThrows(u) ==
    /\ pc[u] = "parse" /\ Fails
    /\ Go(u, "failing") /\ processed' = [processed EXCEPT ![u] = {}]
    /\ UNCHANGED <<files, at, got, age, lastFork, stops, sinceMark, cut, odd>>

-----------------------------------------------------------------------------
(* Recording the result.                                                   *)

UpdateBusy == At({"readUpdate", "finishing", "failed"}) # {}

OpenFinish(u) ==
    /\ pc[u] = "finish"
    /\ IF UpdateBusy THEN Go(u, "failing") /\ UNCHANGED lastUpdate
                     ELSE Go(u, "finishing") /\ lastUpdate' = Unreadable
    /\ UNCHANGED <<lastAttempt, raw, data, at, processed, got, age, lastFork, faults, stops,
                   sinceMark, cut, odd>>

\* The time is that of the thread's beginning.
Finish(u) ==
    /\ pc[u] = "finishing"
    /\ Go(u, "idle") /\ lastUpdate' = age[u]
    /\ UNCHANGED <<lastAttempt, raw, data, at, processed, got, age, lastFork, faults, stops,
                   sinceMark, cut, odd>>

\* The handler's own write may fail: the thread ends.
OpenFailed(u) ==
    /\ pc[u] = "failing"
    /\ IF UpdateBusy THEN Go(u, "idle") /\ UNCHANGED lastUpdate
                     ELSE Go(u, "failed") /\ lastUpdate' = Unreadable
    /\ UNCHANGED <<lastAttempt, raw, data, at, processed, got, age, lastFork, faults, stops,
                   sinceMark, cut, odd>>

\* A failed attempt is forgotten.
RecordFailed_Faulty(u) ==
    /\ pc[u] = "failed"
    /\ Go(u, "idle") /\ lastAttempt' = NoFile
    /\ UNCHANGED <<lastUpdate, raw, data, at, processed, got, age, lastFork, faults, stops,
                   sinceMark, cut, odd>>

RecordFailed(u) ==
    /\ pc[u] = "failed"
    /\ Go(u, "idle")
    /\ UNCHANGED <<files, at, processed, got, age, lastFork, faults, stops,
                   sinceMark, cut, odd>>

-----------------------------------------------------------------------------
Older(a, limit) == IF a \in 0 .. limit - 1 THEN a + 1 ELSE a

\* The time a thread takes to look at the two small files is nothing to the
\* clock.
Tick ==
    /\ At(Checking) = {}
    /\ lastUpdate' = Older(lastUpdate, UpdateAge) /\ lastAttempt' = Older(lastAttempt, UpdateAge)
    /\ age' = [u \in Updaters |-> IF pc[u] \in {"unused", "idle"} THEN 0
                                  ELSE Older(age[u], UpdateAge)]
    /\ lastFork' = Older(lastFork, PageAge) /\ sinceMark' = Older(sinceMark, UpdateAge)
    /\ UNCHANGED <<raw, data, pc, at, processed, got, faults, stops, cut, odd>>

\* The program is stopped and started again.
Restart ==
    /\ stops < MaxStops /\ stops' = stops + 1
    /\ pc' = [u \in Updaters |-> IF u = First THEN "checkUpdate"
                                 ELSE IF pc[u] = "unused" THEN "unused" ELSE "idle"]
    /\ at' = [u \in Updaters |-> 1] /\ processed' = [u \in Updaters |-> {}]
    /\ got' = [u \in Updaters |-> "none"]
    /\ age' = [u \in Updaters |-> 0]
    /\ lastFork' = PageAge
    /\ UNCHANGED <<files, faults, sinceMark, cut, odd>>

Work(u) ==
    \/ CheckUpdate(u) \/ ReadUpdate(u) \/ CheckAttempt(u) \/ ReadAttempt(u) \/ OpenMark(u) \/ Mark(u)
    \/ Download(u) \/ Rename(u) \/ Rewrite(u)
    \/ OpenData(u) \/ SkipData(u) \/ WriteData(u) \/ ParserThrows(u)
    \/ OpenFinish(u) \/ Finish(u) \/ OpenFailed(u) \/ RecordFailed(u)

Next == (\E u \in Updaters : PageForks(u) \/ Work(u)) \/ Tick \/ Restart

Spec == Init /\ [][Next]_vars

\* Threads run, time passes, and the browser asks for pages.
Fairness ==
    /\ \A u \in Updaters : WF_vars(Work(u))
    /\ WF_vars(Tick) /\ WF_vars(\E u \in Updaters : PageForks(u))

FairSpec == Spec /\ Fairness

-----------------------------------------------------------------------------
(* Properties.                                                             *)

TypeOK ==
    /\ lastUpdate \in Stamps /\ lastAttempt \in Stamps
    /\ raw \in [Sources -> Contents] /\ data \in [Files -> Contents \ {"junk"}]
    /\ pc \in [Updaters -> Place]
    /\ at \in [Updaters -> Nat] /\ got \in [Updaters -> Contents]
    /\ \A u \in Updaters :
           /\ pc[u] \in {"download", "rename", "rewrite"} => at[u] \in Downloads
           /\ pc[u] \in {"parse", "write", "mixed"} => at[u] \in Files
    /\ processed \in [Updaters -> SUBSET Files]
    /\ age \in [Updaters -> 0..UpdateAge] /\ lastFork \in 0..PageAge
    /\ faults \in 0..MaxFaults /\ stops \in 0..MaxStops
    /\ sinceMark \in 0..UpdateAge
    /\ cut \subseteq Files /\ odd \subseteq {"raced", "overlap"}

\* The source files without which a data file cannot be made.
Needs(f) == UNION {MadeOf[g] : g \in {f} \cup Uses[f]}

\* While an update is on record as done and less than a day old, the scripts'
\* files are there and whole, whatever was stopped or failed before: all but those
\* that need a source file that is missing or damaged, and those whose last write
\* failed.  But two threads may have updated at once.
UpdatedWhole ==
    Recent(lastUpdate, UpdateAge) /\ "overlap" \notin odd =>
        \A f \in Files : data[f] = "whole" \/ f \in cut \/ \E s \in Needs(f) : raw[s] # "whole"

\* The servers are not asked again within two hours, whatever fails and however
\* often the program is started, unless two threads decide at the same time.
AsksRarely ==
    [][\A u \in Updaters : pc[u] = "marking" /\ pc'[u] = "download"
                               => sinceMark >= AttemptAge \/ "raced" \in odd]_vars

\* Data files that are missing or damaged are replaced, as long as pages are
\* asked for and updates do not overlap: all that need no source file but those that
\* are downloaded and those that are there.
Repaired ==
    []<>(\/ "overlap" \in odd
         \/ \A f \in Files : (\A s \in Needs(f) : s \in Downloads \/ raw[s] = "whole")
                                   => data[f] = "whole")
=============================================================================
