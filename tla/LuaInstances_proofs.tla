-------------------------- MODULE LuaInstances_proofs --------------------------
(***************************************************************************)
(* Proofs about LuaInstances and the DataFiles it extends, for any chats,  *)
(* files and updating threads, any ages and any number of failures and     *)
(* stops.  First DataFiles: what is recorded about an update is true of    *)
(* the files, and the servers are not asked too often.  Then LuaInstances: *)
(* a script is refused its data files only after an update was passed over *)
(* or overlapped another, and what chats store is kept.                    *)
(***************************************************************************)
EXTENDS LuaInstances, TLAPS

-----------------------------------------------------------------------------
(* DataFiles: the parts of the inductive invariant.                        *)

\* Only one thread at a time writes last_attempt, while nobody reads it; the file
\* is unreadable as long, and the clock stands still while a thread decides.
MarkInv ==
    /\ \A u, v \in Updaters : pc[u] = "marking" =>
           /\ pc[v] # "readAttempt"
           /\ pc[v] = "marking" => v = u
           /\ lastAttempt = Unreadable
    /\ \A u \in Updaters : pc[u] \in Checking => age[u] = 0

\* While no two threads have decided at once, last_attempt tells how long ago the
\* servers were asked, and a thread that has decided to ask them may.
AttemptInv ==
    "raced" \notin odd =>
        /\ lastAttempt \in Nat => sinceMark = lastAttempt
        /\ lastAttempt \notin Nat => sinceMark >= AttemptAge
        /\ \A u \in Updaters : pc[u] \in {"mark", "marking"} =>
               /\ sinceMark >= AttemptAge
               /\ \A v \in Updaters : pc[u] = "marking" => pc[v] # "mark"

\* While updates have not overlapped, one thread at most is at work, and the
\* record of the update before has expired.
AloneInv ==
    "overlap" \notin odd =>
        \A u \in Updaters : pc[u] \in Working \cup {"marking"} =>
            /\ ~Recent(lastUpdate, UpdateAge)
            /\ pc[u] # "mixed"
            /\ \A v \in Updaters : pc[v] \in Working \cup {"marking"} => v = u

\* Only the parsers have a list of what they have made, and it has no file that they
\* are still to come to.
ListInv ==
    \A u \in Updaters :
        /\ pc[u] \notin {"parse", "write", "mixed"} => processed[u] = {}
        /\ \A f \in processed[u] : f < at[u]

\* A data file that is there, or was written without success; and one that cannot be
\* made of the source files there are.
Made(f) == data[f] = "whole" \/ f \in cut
Lacking(f) == \E s \in Needs(f) : raw[s] # "whole"

\* While updates have not overlapped, a thread's list is true, every data file that
\* its parsers have come by is on the list or lacks something, and so it is with all
\* files in the end, and as long as the update is on record.
WholeInv ==
    "overlap" \notin odd =>
        /\ \A u \in Updaters : \A f \in processed[u] : Made(f)
        /\ \A u \in Updaters : pc[u] \in {"parse", "write"} =>
               \A f \in Files : f < at[u] => f \in processed[u] \/ Lacking(f)
        /\ \A u \in Updaters : pc[u] \in {"finish", "finishing"} =>
               \A f \in Files : Made(f) \/ Lacking(f)
        /\ Recent(lastUpdate, UpdateAge) => \A f \in Files : Made(f) \/ Lacking(f)

-----------------------------------------------------------------------------
(* Types.                                                                  *)

\* The values that actions name.
LEMMA Places ==
    /\ "unused" \in Place /\ "idle" \in Place
    /\ "checkUpdate" \in Place /\ "readUpdate" \in Place
    /\ "checkAttempt" \in Place /\ "readAttempt" \in Place
    /\ "mark" \in Place /\ "marking" \in Place
    /\ "download" \in Place /\ "rename" \in Place /\ "rewrite" \in Place
    /\ "parse" \in Place /\ "write" \in Place /\ "mixed" \in Place
    /\ "finish" \in Place /\ "finishing" \in Place
    /\ "failing" \in Place /\ "failed" \in Place
BY DEF Place, Checking, Working

LEMMA Values ==
    /\ NoFile \in Stamps /\ Unreadable \in Stamps
    /\ \A a \in 0 .. UpdateAge : a \in Stamps
    /\ 0 \in 0 .. UpdateAge /\ 0 \in 0 .. PageAge /\ PageAge \in 0 .. PageAge
    /\ 1 \in Files /\ 1 \in Downloads /\ 1 \in Nat
    /\ "none" \in Contents /\ "whole" \in Contents /\ "junk" \in Contents
    /\ "torn" \in Contents
BY AgesAssumption, FilesAssumption
DEF Stamps, NoFile, Unreadable, Files, Downloads, Contents

\* The clock does not pass its limit.
LEMMA OlderType ==
    /\ \A a \in Stamps : Older(a, UpdateAge) \in Stamps
    /\ \A a \in 0 .. UpdateAge : Older(a, UpdateAge) \in 0 .. UpdateAge
    /\ \A a \in 0 .. PageAge : Older(a, PageAge) \in 0 .. PageAge
<1>1. ASSUME NEW limit \in Nat, NEW a \in 0 .. limit PROVE Older(a, limit) \in 0 .. limit
  BY <1>1 DEF Older
<1>2. UpdateAge \in Nat /\ PageAge \in Nat
  BY AgesAssumption
<1>3. \A a \in {NoFile, Unreadable} : Older(a, UpdateAge) = a
  BY <1>2 DEF Older, NoFile, Unreadable
<1> QED
  BY <1>1, <1>2, <1>3 DEF Stamps

\* The initial state has the types.
LEMMA TypeInit == Init => TypeOK
BY ThreadsAssumption, AgesAssumption, BoundsAssumption
DEF Init, TypeOK, Stamps, NoFile, Unreadable, Contents, Place, Checking

\* A thread goes on to the next file of a list, or, after the last one, to what
\* comes then.
Moved(u, next, last, then) ==
    \/ /\ at[u] < last /\ at' = [at EXCEPT ![u] = at[u] + 1]
       /\ pc' = [pc EXCEPT ![u] = next]
    \/ /\ at[u] = last /\ at' = [at EXCEPT ![u] = 1]
       /\ pc' = [pc EXCEPT ![u] = then]

\* The places where a thread is at a file of a list.
Placed ==
    \A u \in Updaters :
        /\ pc[u] \in {"download", "rename", "rewrite"} => at[u] \in Downloads
        /\ pc[u] \in {"parse", "write", "mixed"} => at[u] \in Files

\* What NextFile does in download_data_files, ...
LEMMA NextDownload ==
    ASSUME TypeOK, NEW u \in Updaters, pc[u] \in {"download", "rename", "rewrite"},
           NextFile(u, "download", NumDownloads, "parse")
    PROVE  /\ Moved(u, "download", NumDownloads, "parse")
           /\ at' \in [Updaters -> Nat] /\ pc' \in [Updaters -> Place] /\ Placed'
<1>1. at[u] \in Nat /\ at[u] <= NumDownloads /\ at[u] >= 1 /\ NumDownloads \in Nat
  BY FilesAssumption DEF TypeOK, Downloads
<1>2. Moved(u, "download", NumDownloads, "parse")
  BY <1>1 DEF NextFile, Go, Moved
<1>3. at' \in [Updaters -> Nat] /\ pc' \in [Updaters -> Place]
  BY <1>1, <1>2, Places DEF Moved, TypeOK
<1>4. Placed'
  <2>1. CASE at[u] < NumDownloads
    <3>1. /\ at' = [at EXCEPT ![u] = at[u] + 1] /\ at[u] + 1 \in Downloads
          /\ pc' = [pc EXCEPT ![u] = "download"]
      BY <1>1, <1>2, <2>1 DEF Moved, Downloads
    <3> QED
      BY <3>1 DEF Placed, TypeOK
  <2>2. CASE ~(at[u] < NumDownloads)
    <3>1. at' = [at EXCEPT ![u] = 1] /\ 1 \in Files /\ pc' = [pc EXCEPT ![u] = "parse"]
      BY <1>1, <1>2, <2>2, Values DEF Moved
    <3> QED
      BY <3>1 DEF Placed, TypeOK
  <2> QED
    BY <2>1, <2>2
<1> QED
  BY <1>2, <1>3, <1>4

\* ... and in process (update-datafiles.lua).
LEMMA NextParse ==
    ASSUME TypeOK, NEW u \in Updaters, pc[u] \in {"parse", "write", "mixed"},
           NextFile(u, "parse", NumFiles, "finish")
    PROVE  /\ Moved(u, "parse", NumFiles, "finish")
           /\ at' \in [Updaters -> Nat] /\ pc' \in [Updaters -> Place] /\ Placed'
<1>1. at[u] \in Nat /\ at[u] <= NumFiles /\ at[u] >= 1 /\ NumFiles \in Nat
  BY FilesAssumption DEF TypeOK, Files
<1>2. Moved(u, "parse", NumFiles, "finish")
  BY <1>1 DEF NextFile, Go, Moved
<1>3. at' \in [Updaters -> Nat] /\ pc' \in [Updaters -> Place]
  BY <1>1, <1>2, Places DEF Moved, TypeOK
<1>4. Placed'
  <2>1. CASE at[u] < NumFiles
    <3>1. /\ at' = [at EXCEPT ![u] = at[u] + 1] /\ at[u] + 1 \in Files
          /\ pc' = [pc EXCEPT ![u] = "parse"]
      BY <1>1, <1>2, <2>1 DEF Moved, Files
    <3> QED
      BY <3>1 DEF Placed, TypeOK
  <2>2. CASE ~(at[u] < NumFiles)
    <3>1. at' = [at EXCEPT ![u] = 1] /\ pc' = [pc EXCEPT ![u] = "finish"]
      BY <1>1, <1>2, <2>2 DEF Moved
    <3> QED
      BY <3>1 DEF Placed, TypeOK
  <2> QED
    BY <2>1, <2>2
<1> QED
  BY <1>2, <1>3, <1>4

\* The list that the parsers keep, as they go on (processed_datafiles).
LEMMA NextDataList ==
    ASSUME TypeOK, NEW u \in Updaters, NEW done \in SUBSET Files, NextData(u, done)
    PROVE  /\ processed' \in [Updaters -> SUBSET Files]
           /\ processed'[u] = IF at[u] = NumFiles THEN {} ELSE done
           /\ \A v \in Updaters : v # u => processed'[v] = processed[v]
BY DEF NextData, TypeOK

\* Every step keeps the types: the ages stay within a day, the position of a
\* thread within the list of files.
LEMMA TypeStep == TypeOK /\ [Next]_vars => TypeOK'
<1> SUFFICES ASSUME TypeOK, [Next]_vars PROVE TypeOK'
  OBVIOUS
<1> USE BoundsAssumption, Places, Values DEF TypeOK, Go, Fails, files, threads
<1>1. ASSUME NEW u \in Updaters, PageForks(u) PROVE TypeOK'
  BY <1>1 DEF PageForks
<1>2. ASSUME NEW u \in Updaters, CheckUpdate(u) PROVE TypeOK'
  BY <1>2 DEF CheckUpdate
<1>3. ASSUME NEW u \in Updaters, ReadUpdate(u) PROVE TypeOK'
  BY <1>3 DEF ReadUpdate
<1>4. ASSUME NEW u \in Updaters, CheckAttempt(u) PROVE TypeOK'
  BY <1>4 DEF CheckAttempt
<1>5. ASSUME NEW u \in Updaters, ReadAttempt(u) PROVE TypeOK'
  BY <1>5 DEF ReadAttempt
<1>6. ASSUME NEW u \in Updaters, OpenMark(u) PROVE TypeOK'
  BY <1>6 DEF OpenMark
<1>7. ASSUME NEW u \in Updaters, Mark(u) PROVE TypeOK'
  BY <1>7 DEF Mark
<1>8. ASSUME NEW u \in Updaters, Download(u) PROVE TypeOK'
  <2>1. at' \in [Updaters -> Nat] /\ pc' \in [Updaters -> Place] /\ Placed'
    <3>1. CASE NextFile(u, "download", NumDownloads, "parse")
      BY <1>8, <3>1, NextDownload DEF Download
    <3>2. CASE Go(u, "rename") /\ UNCHANGED at
      BY <1>8, <3>2 DEF Download, Placed
    <3> QED
      BY <1>8, <3>1, <3>2 DEF Download
  <2>2. got' \in [Updaters -> Contents] /\ faults' \in 0 .. MaxFaults
    BY <1>8 DEF Download
  <2> QED
    BY <1>8, <2>1, <2>2 DEF Download, Placed
<1>9. ASSUME NEW u \in Updaters, Rename(u) PROVE TypeOK'
  <2>1. at' \in [Updaters -> Nat] /\ pc' \in [Updaters -> Place] /\ Placed'
    <3>1. CASE NextFile(u, "download", NumDownloads, "parse")
      BY <1>9, <3>1, NextDownload DEF Rename
    <3>2. CASE Go(u, "rewrite") /\ UNCHANGED at
      BY <1>9, <3>2 DEF Rename, Placed
    <3> QED
      BY <1>9, <3>1, <3>2 DEF Rename
  <2>2. raw' \in [Sources -> Contents] /\ faults' \in 0 .. MaxFaults
    BY <1>9 DEF Rename
  <2> QED
    BY <1>9, <2>1, <2>2 DEF Rename, Placed
<1>10. ASSUME NEW u \in Updaters, Rewrite(u) PROVE TypeOK'
  <2>1. at' \in [Updaters -> Nat] /\ pc' \in [Updaters -> Place] /\ Placed'
    BY <1>10, NextDownload DEF Rewrite
  <2>2. raw' \in [Sources -> Contents]
    BY <1>10 DEF Rewrite
  <2> QED
    BY <1>10, <2>1, <2>2 DEF Rewrite, Placed
<1>11. ASSUME NEW u \in Updaters, OpenData(u) PROVE TypeOK'
  BY <1>11 DEF OpenData
<1>12. ASSUME NEW u \in Updaters, SkipData(u) PROVE TypeOK'
  <2>1. at' \in [Updaters -> Nat] /\ pc' \in [Updaters -> Place] /\ Placed'
    BY <1>12, NextParse DEF SkipData, NextData
  <2>2. processed' \in [Updaters -> SUBSET Files]
    BY <1>12, NextDataList DEF SkipData
  <2> QED
    BY <1>12, <2>1, <2>2 DEF SkipData, Placed
<1>13. ASSUME NEW u \in Updaters, WriteData(u) PROVE TypeOK'
  <2>1. at' \in [Updaters -> Nat] /\ pc' \in [Updaters -> Place] /\ Placed'
    BY <1>13, NextParse DEF WriteData, NextData
  <2>2. at[u] \in Files /\ faults' \in 0 .. MaxFaults
    BY <1>13 DEF WriteData
  <2>3. processed' \in [Updaters -> SUBSET Files]
    BY <1>13, <2>2, NextDataList DEF WriteData
  <2>4. PICK c \in {"whole", "torn"} : data' \in {data, [data EXCEPT ![at[u]] = c]}
    BY <1>13 DEF WriteData
  <2>5. data' \in [Files -> Contents \ {"junk"}] /\ cut' \subseteq Files
    BY <1>13, <2>2, <2>4 DEF WriteData
  <2> QED
    BY <1>13, <2>1, <2>2, <2>3, <2>5 DEF WriteData, Placed
<1>14. ASSUME NEW u \in Updaters, ParserThrows(u) PROVE TypeOK'
  BY <1>14 DEF ParserThrows
<1>15. ASSUME NEW u \in Updaters, OpenFinish(u) PROVE TypeOK'
  BY <1>15 DEF OpenFinish
<1>16. ASSUME NEW u \in Updaters, Finish(u) PROVE TypeOK'
  BY <1>16 DEF Finish
<1>17. ASSUME NEW u \in Updaters, OpenFailed(u) PROVE TypeOK'
  BY <1>17 DEF OpenFailed
<1>18. ASSUME NEW u \in Updaters, RecordFailed(u) PROVE TypeOK'
  BY <1>18 DEF RecordFailed
<1>19. ASSUME Tick PROVE TypeOK'
  BY <1>19, OlderType DEF Tick
<1>20. ASSUME Restart PROVE TypeOK'
  BY <1>20 DEF Restart
<1>21. CASE UNCHANGED vars
  BY <1>21 DEF vars
<1> HIDE DEF TypeOK, Go, Fails, files, threads
<1> QED
  BY <1>1, <1>2, <1>3, <1>4, <1>5, <1>6, <1>7, <1>8, <1>9, <1>10, <1>11,
     <1>12, <1>13, <1>14, <1>15, <1>16, <1>17, <1>18, <1>19, <1>20, <1>21
  DEF Next, Work

\* The types hold in every state.
THEOREM TypeCorrect == Spec => []TypeOK
BY TypeInit, TypeStep, PTL DEF Spec

-----------------------------------------------------------------------------
(* Asking the servers.                                                     *)

\* Nobody has asked the servers at first.
LEMMA AttemptInit == Init => MarkInv /\ AttemptInv
BY AgesAssumption DEF Init, MarkInv, AttemptInv, NoFile, Checking

\* Every step keeps last_attempt to the thread that writes it (writeFile,
\* readFile).
LEMMA MarkStep == TypeOK /\ MarkInv /\ [Next]_vars => MarkInv'
<1> SUFFICES ASSUME TypeOK, MarkInv, [Next]_vars PROVE MarkInv'
  OBVIOUS
<1> USE ThreadsAssumption, AgesAssumption, BoundsAssumption DEF TypeOK,
        NoFile, Unreadable, Checking, Go, Fails, Older, files, threads,
        MarkInv, At
<1>1. ASSUME NEW u \in Updaters, PageForks(u) PROVE MarkInv'
  BY <1>1 DEF PageForks
<1>2. ASSUME NEW u \in Updaters, CheckUpdate(u) PROVE MarkInv'
  BY <1>2 DEF CheckUpdate
<1>3. ASSUME NEW u \in Updaters, ReadUpdate(u) PROVE MarkInv'
  BY <1>3 DEF ReadUpdate
<1>4. ASSUME NEW u \in Updaters, CheckAttempt(u) PROVE MarkInv'
  BY <1>4 DEF CheckAttempt
<1>5. ASSUME NEW u \in Updaters, ReadAttempt(u) PROVE MarkInv'
  BY <1>5 DEF ReadAttempt
<1>6. ASSUME NEW u \in Updaters, OpenMark(u) PROVE MarkInv'
  BY <1>6 DEF OpenMark
<1>7. ASSUME NEW u \in Updaters, Mark(u) PROVE MarkInv'
  BY <1>7 DEF Mark
<1>8. ASSUME NEW u \in Updaters, Download(u) PROVE MarkInv'
  BY <1>8 DEF Download, NextFile
<1>9. ASSUME NEW u \in Updaters, Rename(u) PROVE MarkInv'
  BY <1>9 DEF Rename, NextFile
<1>10. ASSUME NEW u \in Updaters, Rewrite(u) PROVE MarkInv'
  BY <1>10 DEF Rewrite, NextFile
<1>11. ASSUME NEW u \in Updaters, OpenData(u) PROVE MarkInv'
  BY <1>11 DEF OpenData
<1>12. ASSUME NEW u \in Updaters, SkipData(u) PROVE MarkInv'
  BY <1>12 DEF SkipData, NextData, NextFile
<1>13. ASSUME NEW u \in Updaters, WriteData(u) PROVE MarkInv'
  BY <1>13 DEF WriteData, NextData, NextFile
<1>14. ASSUME NEW u \in Updaters, ParserThrows(u) PROVE MarkInv'
  BY <1>14 DEF ParserThrows
<1>15. ASSUME NEW u \in Updaters, OpenFinish(u) PROVE MarkInv'
  BY <1>15 DEF OpenFinish
<1>16. ASSUME NEW u \in Updaters, Finish(u) PROVE MarkInv'
  BY <1>16 DEF Finish
<1>17. ASSUME NEW u \in Updaters, OpenFailed(u) PROVE MarkInv'
  BY <1>17 DEF OpenFailed
<1>18. ASSUME NEW u \in Updaters, RecordFailed(u) PROVE MarkInv'
  BY <1>18 DEF RecordFailed
<1>19. ASSUME Tick PROVE MarkInv'
  BY <1>19 DEF Tick
<1>20. ASSUME Restart PROVE MarkInv'
  BY <1>20 DEF Restart
<1>21. CASE UNCHANGED vars
  BY <1>21 DEF vars
<1> HIDE DEF TypeOK, NoFile, Unreadable, Checking, Go, Fails, Older, files,
        threads, MarkInv, At
<1> QED
  BY <1>1, <1>2, <1>3, <1>4, <1>5, <1>6, <1>7, <1>8, <1>9, <1>10, <1>11,
     <1>12, <1>13, <1>14, <1>15, <1>16, <1>17, <1>18, <1>19, <1>20, <1>21
  DEF Next, Work

\* Every step keeps last_attempt true, while no two threads decide at once.
LEMMA AttemptStep ==
    TypeOK /\ MarkInv /\ AttemptInv /\ [Next]_vars => AttemptInv'
<1> SUFFICES ASSUME TypeOK, MarkInv, AttemptInv, [Next]_vars PROVE AttemptInv'
  OBVIOUS
<1> USE ThreadsAssumption, AgesAssumption, BoundsAssumption DEF TypeOK,
        Stamps, NoFile, Unreadable, Checking, Go, Fails, Older, files,
        threads, MarkInv, AttemptInv, At, Recent
<1>1. ASSUME NEW u \in Updaters, PageForks(u) PROVE AttemptInv'
  BY <1>1 DEF PageForks
<1>2. ASSUME NEW u \in Updaters, CheckUpdate(u) PROVE AttemptInv'
  BY <1>2 DEF CheckUpdate
<1>3. ASSUME NEW u \in Updaters, ReadUpdate(u) PROVE AttemptInv'
  BY <1>3 DEF ReadUpdate
<1>4. ASSUME NEW u \in Updaters, CheckAttempt(u) PROVE AttemptInv'
  BY <1>4 DEF CheckAttempt
<1>5. ASSUME NEW u \in Updaters, ReadAttempt(u) PROVE AttemptInv'
  BY <1>5 DEF ReadAttempt
<1>6. ASSUME NEW u \in Updaters, OpenMark(u) PROVE AttemptInv'
  <2>1. CASE At({"readAttempt", "marking"}) # {}
    BY <1>6, <2>1 DEF OpenMark
  <2>2. CASE At({"readAttempt", "marking"}) = {}
    <3>1. /\ pc' = [pc EXCEPT ![u] = "marking"]
          /\ pc[u] = "mark" /\ lastAttempt' = Unreadable
          /\ UNCHANGED <<lastUpdate, sinceMark>>
          /\ \A v \in Updaters : pc[v] \notin {"readAttempt", "marking"}
      BY <1>6, <2>2 DEF OpenMark
    <3>2. "raced" \notin odd' =>
              "raced" \notin odd /\ \A v \in Updaters : pc[v] = "mark" => v = u
      BY <1>6, <2>2 DEF OpenMark
    <3> QED
      BY <3>1, <3>2
  <2> QED
    BY <2>1, <2>2
<1>7. ASSUME NEW u \in Updaters, Mark(u) PROVE AttemptInv'
  BY <1>7 DEF Mark
<1>8. ASSUME NEW u \in Updaters, Download(u) PROVE AttemptInv'
  BY <1>8 DEF Download, NextFile
<1>9. ASSUME NEW u \in Updaters, Rename(u) PROVE AttemptInv'
  BY <1>9 DEF Rename, NextFile
<1>10. ASSUME NEW u \in Updaters, Rewrite(u) PROVE AttemptInv'
  BY <1>10 DEF Rewrite, NextFile
<1>11. ASSUME NEW u \in Updaters, OpenData(u) PROVE AttemptInv'
  BY <1>11 DEF OpenData
<1>12. ASSUME NEW u \in Updaters, SkipData(u) PROVE AttemptInv'
  BY <1>12 DEF SkipData, NextData, NextFile
<1>13. ASSUME NEW u \in Updaters, WriteData(u) PROVE AttemptInv'
  BY <1>13 DEF WriteData, NextData, NextFile
<1>14. ASSUME NEW u \in Updaters, ParserThrows(u) PROVE AttemptInv'
  BY <1>14 DEF ParserThrows
<1>15. ASSUME NEW u \in Updaters, OpenFinish(u) PROVE AttemptInv'
  BY <1>15 DEF OpenFinish
<1>16. ASSUME NEW u \in Updaters, Finish(u) PROVE AttemptInv'
  BY <1>16 DEF Finish
<1>17. ASSUME NEW u \in Updaters, OpenFailed(u) PROVE AttemptInv'
  BY <1>17 DEF OpenFailed
<1>18. ASSUME NEW u \in Updaters, RecordFailed(u) PROVE AttemptInv'
  BY <1>18 DEF RecordFailed
<1>19. ASSUME Tick PROVE AttemptInv'
  BY <1>19 DEF Tick
<1>20. ASSUME Restart PROVE AttemptInv'
  BY <1>20 DEF Restart
<1>21. CASE UNCHANGED vars
  BY <1>21 DEF vars
<1> HIDE DEF TypeOK, Stamps, NoFile, Unreadable, Checking, Go, Fails, Older,
        files, threads, MarkInv, AttemptInv, At, Recent
<1> QED
  BY <1>1, <1>2, <1>3, <1>4, <1>5, <1>6, <1>7, <1>8, <1>9, <1>10, <1>11,
     <1>12, <1>13, <1>14, <1>15, <1>16, <1>17, <1>18, <1>19, <1>20, <1>21
  DEF Next, Work

-----------------------------------------------------------------------------
(* Updating the files.                                                     *)

\* Nothing has been updated at first.
LEMMA WholeInit == Init => AloneInv /\ ListInv /\ WholeInv
BY DEF Init, AloneInv, ListInv, WholeInv, NoFile, Working, Recent

\* A thread at work that goes on, or ends, leaves updates apart.
LEMMA AloneKept ==
    ASSUME TypeOK, AloneInv, NEW u \in Updaters, pc[u] \in Working,
           NEW s \in {"idle"} \cup (Working \ {"mixed"}), pc' = [pc EXCEPT ![u] = s],
           lastUpdate' = lastUpdate \/ lastUpdate' = Unreadable \/ s = "idle",
           odd \subseteq odd'
    PROVE  AloneInv'
<1> SUFFICES ASSUME "overlap" \notin odd',
                    NEW v \in Updaters, pc'[v] \in Working \cup {"marking"}
             PROVE  /\ ~Recent(lastUpdate, UpdateAge)'
                    /\ pc'[v] # "mixed"
                    /\ \A w \in Updaters : pc'[w] \in Working \cup {"marking"} => w = v
  BY DEF AloneInv
<1>1. "overlap" \notin odd
  OBVIOUS
<1>2. \A w \in Updaters : w # u => pc'[w] = pc[w] /\ pc[w] \notin Working \cup {"marking"}
  BY <1>1 DEF AloneInv, TypeOK
<1>3. v = u /\ s \in Working \ {"mixed"}
  BY <1>2 DEF TypeOK, Working
<1>4. ~Recent(lastUpdate, UpdateAge)'
  BY <1>1, <1>3 DEF AloneInv, Recent, Unreadable, Working
<1> QED
  BY <1>2, <1>3, <1>4 DEF TypeOK

\* Every step keeps updates apart, while none has begun during another.
LEMMA AloneStep == TypeOK /\ AloneInv /\ [Next]_vars => AloneInv'
<1> SUFFICES ASSUME TypeOK, AloneInv, [Next]_vars PROVE AloneInv'
  OBVIOUS
<1> USE ThreadsAssumption, AgesAssumption, BoundsAssumption DEF TypeOK,
        NoFile, Unreadable, Working, Go, Fails, Older, files, threads,
        AloneInv, At, Recent
<1>1. ASSUME NEW u \in Updaters, PageForks(u) PROVE AloneInv'
  BY <1>1 DEF PageForks
<1>2. ASSUME NEW u \in Updaters, CheckUpdate(u) PROVE AloneInv'
  BY <1>2 DEF CheckUpdate
<1>3. ASSUME NEW u \in Updaters, ReadUpdate(u) PROVE AloneInv'
  BY <1>3 DEF ReadUpdate
<1>4. ASSUME NEW u \in Updaters, CheckAttempt(u) PROVE AloneInv'
  BY <1>4 DEF CheckAttempt
<1>5. ASSUME NEW u \in Updaters, ReadAttempt(u) PROVE AloneInv'
  BY <1>5 DEF ReadAttempt
<1>6. ASSUME NEW u \in Updaters, OpenMark(u) PROVE AloneInv'
  <2>1. CASE At({"readAttempt", "marking"}) # {}
    BY <1>6, <2>1 DEF OpenMark
  <2>2. CASE At({"readAttempt", "marking"}) = {}
    <3>1. /\ pc' = [pc EXCEPT ![u] = "marking"]
          /\ pc[u] = "mark" /\ lastAttempt' = Unreadable
          /\ UNCHANGED <<lastUpdate, sinceMark>>
          /\ \A v \in Updaters : pc[v] \notin {"readAttempt", "marking"}
      BY <1>6, <2>2 DEF OpenMark
    <3>2. "overlap" \notin odd' =>
              /\ "overlap" \notin odd /\ ~Recent(lastUpdate, UpdateAge)
              /\ \A v \in Updaters : pc[v] \notin Working
      BY <1>6, <2>2 DEF OpenMark
    <3> QED
      BY <3>1, <3>2
  <2> QED
    BY <2>1, <2>2
<1>7. ASSUME NEW u \in Updaters, Mark(u) PROVE AloneInv'
  BY <1>7 DEF Mark
<1>8. ASSUME NEW u \in Updaters, Download(u) PROVE AloneInv'
  <2>1. CASE NextFile(u, "download", NumDownloads, "parse")
    <3>1. Moved(u, "download", NumDownloads, "parse")
      BY <1>8, <2>1, NextDownload DEF Download
    <3> QED
      BY <1>8, <3>1, AloneKept DEF Download, Moved
  <2>2. CASE ~NextFile(u, "download", NumDownloads, "parse")
    BY <1>8, <2>2 DEF Download, Moved
  <2> QED
    BY <2>1, <2>2
<1>9. ASSUME NEW u \in Updaters, Rename(u) PROVE AloneInv'
  <2>1. CASE NextFile(u, "download", NumDownloads, "parse")
    <3>1. Moved(u, "download", NumDownloads, "parse")
      BY <1>9, <2>1, NextDownload DEF Rename
    <3> QED
      BY <1>9, <3>1, AloneKept DEF Rename, Moved
  <2>2. CASE ~NextFile(u, "download", NumDownloads, "parse")
    BY <1>9, <2>2 DEF Rename, Moved
  <2> QED
    BY <2>1, <2>2
<1>10. ASSUME NEW u \in Updaters, Rewrite(u) PROVE AloneInv'
  <2>1. Moved(u, "download", NumDownloads, "parse")
    BY <1>10, NextDownload DEF Rewrite
  <2> QED
    BY <1>10, <2>1, AloneKept DEF Rewrite, Moved
<1>11. ASSUME NEW u \in Updaters, OpenData(u) PROVE AloneInv'
  BY <1>11 DEF OpenData
<1>12. ASSUME NEW u \in Updaters, SkipData(u) PROVE AloneInv'
  <2>1. Moved(u, "parse", NumFiles, "finish")
    BY <1>12, NextParse DEF SkipData, NextData
  <2> QED
    BY <1>12, <2>1, AloneKept DEF SkipData, Moved
<1>13. ASSUME NEW u \in Updaters, WriteData(u) PROVE AloneInv'
  <2>1. Moved(u, "parse", NumFiles, "finish")
    BY <1>13, NextParse DEF WriteData, NextData
  <2>2. odd \subseteq odd' /\ pc[u] \in Working /\ lastUpdate' = lastUpdate
    BY <1>13 DEF WriteData
  <2>3. PICK s \in {"parse", "finish"} : pc' = [pc EXCEPT ![u] = s]
    BY <2>1 DEF Moved
  <2> QED
    BY <2>2, <2>3, AloneKept
<1>14. ASSUME NEW u \in Updaters, ParserThrows(u) PROVE AloneInv'
  BY <1>14, AloneKept DEF ParserThrows
<1>15. ASSUME NEW u \in Updaters, OpenFinish(u) PROVE AloneInv'
  BY <1>15, AloneKept DEF OpenFinish
<1>16. ASSUME NEW u \in Updaters, Finish(u) PROVE AloneInv'
  BY <1>16 DEF Finish
<1>17. ASSUME NEW u \in Updaters, OpenFailed(u) PROVE AloneInv'
  <2>1. CASE UpdateBusy
    BY <1>17, <2>1, AloneKept DEF OpenFailed
  <2>2. CASE ~UpdateBusy
    <3>1. /\ pc[u] \in Working /\ pc' = [pc EXCEPT ![u] = "failed"]
          /\ lastUpdate' = Unreadable /\ odd' = odd
      BY <1>17, <2>2 DEF OpenFailed
    <3> QED
      BY <3>1, AloneKept
  <2> QED
    BY <2>1, <2>2
<1>18. ASSUME NEW u \in Updaters, RecordFailed(u) PROVE AloneInv'
  BY <1>18, AloneKept DEF RecordFailed
<1>19. ASSUME Tick PROVE AloneInv'
  BY <1>19 DEF Tick
<1>20. ASSUME Restart PROVE AloneInv'
  BY <1>20 DEF Restart
<1>21. CASE UNCHANGED vars
  BY <1>21 DEF vars
<1> HIDE DEF TypeOK, NoFile, Unreadable, Working, Go, Fails, Older, files,
        threads, AloneInv, At, Recent
<1> QED
  BY <1>1, <1>2, <1>3, <1>4, <1>5, <1>6, <1>7, <1>8, <1>9, <1>10, <1>11,
     <1>12, <1>13, <1>14, <1>15, <1>16, <1>17, <1>18, <1>19, <1>20, <1>21
  DEF Next, Work

\* The parsers go on to the next file.
LEMMA ListKept ==
    ASSUME TypeOK, ListInv, NEW u \in Updaters, pc[u] \in {"parse", "write", "mixed"},
           NEW done \in SUBSET Files, \A f \in done : f < at[u] + 1, NextData(u, done)
    PROVE  ListInv'
<1>1. Moved(u, "parse", NumFiles, "finish")
  BY NextParse DEF NextData
<1>2. /\ processed'[u] = IF at[u] = NumFiles THEN {} ELSE done
      /\ \A v \in Updaters : v # u => processed'[v] = processed[v]
  BY NextDataList
<1>3. \A v \in Updaters : v # u => pc'[v] = pc[v] /\ at'[v] = at[v]
  BY <1>1 DEF Moved, TypeOK
<1>4. CASE at[u] < NumFiles
  <2>1. pc'[u] = "parse" /\ at'[u] = at[u] + 1 /\ processed'[u] = done
    BY <1>1, <1>2, <1>4, FilesAssumption DEF Moved, TypeOK
  <2> QED
    BY <1>2, <1>3, <2>1 DEF ListInv
<1>5. CASE ~(at[u] < NumFiles)
  <2>1. processed'[u] = {}
    BY <1>1, <1>2, <1>5 DEF Moved
  <2> QED
    BY <1>2, <1>3, <2>1 DEF ListInv
<1> QED
  BY <1>4, <1>5

\* Every step keeps the parsers' lists to files they have passed
\* (processed_datafiles).
LEMMA ListStep == TypeOK /\ ListInv /\ [Next]_vars => ListInv'
<1> SUFFICES ASSUME TypeOK, ListInv, [Next]_vars PROVE ListInv'
  OBVIOUS
<1> USE ThreadsAssumption DEF TypeOK, Go, Fails, files, threads, ListInv, At
<1>1. ASSUME NEW u \in Updaters, PageForks(u) PROVE ListInv'
  BY <1>1 DEF PageForks
<1>2. ASSUME NEW u \in Updaters, CheckUpdate(u) PROVE ListInv'
  BY <1>2 DEF CheckUpdate
<1>3. ASSUME NEW u \in Updaters, ReadUpdate(u) PROVE ListInv'
  BY <1>3 DEF ReadUpdate
<1>4. ASSUME NEW u \in Updaters, CheckAttempt(u) PROVE ListInv'
  BY <1>4 DEF CheckAttempt
<1>5. ASSUME NEW u \in Updaters, ReadAttempt(u) PROVE ListInv'
  BY <1>5 DEF ReadAttempt
<1>6. ASSUME NEW u \in Updaters, OpenMark(u) PROVE ListInv'
  BY <1>6 DEF OpenMark
<1>7. ASSUME NEW u \in Updaters, Mark(u) PROVE ListInv'
  BY <1>7 DEF Mark
<1>8. ASSUME NEW u \in Updaters, Download(u) PROVE ListInv'
  <2>1. pc[u] \in {"download", "rename", "rewrite"} /\ UNCHANGED processed
    BY <1>8 DEF Download
  <2>2. CASE NextFile(u, "download", NumDownloads, "parse")
    BY <2>1, <2>2, NextDownload DEF Moved
  <2>3. CASE ~NextFile(u, "download", NumDownloads, "parse")
    BY <1>8, <2>1, <2>3 DEF Download
  <2> QED
    BY <2>2, <2>3
<1>9. ASSUME NEW u \in Updaters, Rename(u) PROVE ListInv'
  <2>1. pc[u] \in {"download", "rename", "rewrite"} /\ UNCHANGED processed
    BY <1>9 DEF Rename
  <2>2. CASE NextFile(u, "download", NumDownloads, "parse")
    BY <2>1, <2>2, NextDownload DEF Moved
  <2>3. CASE ~NextFile(u, "download", NumDownloads, "parse")
    BY <1>9, <2>1, <2>3 DEF Rename
  <2> QED
    BY <2>2, <2>3
<1>10. ASSUME NEW u \in Updaters, Rewrite(u) PROVE ListInv'
  <2>1. pc[u] \in {"download", "rename", "rewrite"} /\ UNCHANGED processed
    BY <1>10 DEF Rewrite
  <2> QED
    BY <1>10, <2>1, NextDownload DEF Rewrite, Moved
<1>11. ASSUME NEW u \in Updaters, OpenData(u) PROVE ListInv'
  BY <1>11 DEF OpenData
<1>12. ASSUME NEW u \in Updaters, SkipData(u) PROVE ListInv'
  <2>1. pc[u] = "parse" /\ NextData(u, processed[u])
    BY <1>12 DEF SkipData
  <2>2. \A f \in processed[u] : f < at[u] + 1
    BY <2>1 DEF Files
  <2>3. processed[u] \in SUBSET Files
    OBVIOUS
  <2> HIDE DEF TypeOK, ListInv
  <2> QED
    BY <2>1, <2>2, <2>3, ListKept
<1>13. ASSUME NEW u \in Updaters, WriteData(u) PROVE ListInv'
  <2>1. pc[u] \in {"write", "mixed"} /\ NextData(u, processed[u] \cup {at[u]}) /\ at[u] \in Files
    BY <1>13 DEF WriteData
  <2>2. \A f \in processed[u] \cup {at[u]} : f < at[u] + 1
    BY <2>1 DEF Files
  <2>3. processed[u] \cup {at[u]} \in SUBSET Files
    BY <2>1
  <2> HIDE DEF TypeOK, ListInv
  <2> QED
    BY <2>1, <2>2, <2>3, ListKept
<1>14. ASSUME NEW u \in Updaters, ParserThrows(u) PROVE ListInv'
  BY <1>14 DEF ParserThrows
<1>15. ASSUME NEW u \in Updaters, OpenFinish(u) PROVE ListInv'
  BY <1>15 DEF OpenFinish
<1>16. ASSUME NEW u \in Updaters, Finish(u) PROVE ListInv'
  BY <1>16 DEF Finish
<1>17. ASSUME NEW u \in Updaters, OpenFailed(u) PROVE ListInv'
  BY <1>17 DEF OpenFailed
<1>18. ASSUME NEW u \in Updaters, RecordFailed(u) PROVE ListInv'
  BY <1>18 DEF RecordFailed
<1>19. ASSUME Tick PROVE ListInv'
  BY <1>19 DEF Tick
<1>20. ASSUME Restart PROVE ListInv'
  BY <1>20 DEF Restart
<1>21. CASE UNCHANGED vars
  BY <1>21 DEF vars
<1> HIDE DEF TypeOK, Go, Fails, files, threads, ListInv, At
<1> QED
  BY <1>1, <1>2, <1>3, <1>4, <1>5, <1>6, <1>7, <1>8, <1>9, <1>10, <1>11,
     <1>12, <1>13, <1>14, <1>15, <1>16, <1>17, <1>18, <1>19, <1>20, <1>21
  DEF Next, Work

\* What a file needs, those need that cannot be made without it.
LEMMA NeedsThrough ==
    ASSUME NEW f \in Files, NEW g \in Uses[f]
    PROVE  g \in Files /\ g < f /\ Needs(g) \subseteq Needs(f)
<1>1. g \in Files /\ g < f /\ Uses[g] \subseteq Uses[f]
  BY FilesAssumption
<1>2. {g} \cup Uses[g] \subseteq {f} \cup Uses[f]
  BY <1>1
<1> QED
  BY <1>1, <1>2 DEF Needs

\* A file that cannot be made, after those before it were made or lacked something,
\* lacks something.
LEMMA CannotMake ==
    ASSUME TypeOK, NEW u \in Updaters, pc[u] = "parse", ~CanMake(u),
           \A f \in Files : f < at[u] => f \in processed[u] \/ Lacking(f)
    PROVE  Lacking(at[u])
<1>1. at[u] \in Files
  BY DEF TypeOK
<1>2. CASE \E s \in MadeOf[at[u]] : raw[s] # "whole"
  <2>1. MadeOf[at[u]] \subseteq Needs(at[u])
    BY DEF Needs
  <2> QED
    BY <1>2, <2>1 DEF Lacking
<1>3. CASE \E g \in Uses[at[u]] : g \notin processed[u]
  <2>1. PICK g \in Uses[at[u]] : g \notin processed[u]
    BY <1>3
  <2>2. g \in Files /\ g < at[u] /\ Needs(g) \subseteq Needs(at[u])
    BY <1>1, <2>1, NeedsThrough
  <2>3. Lacking(g)
    BY <2>1, <2>2
  <2> QED
    BY <2>2, <2>3 DEF Lacking
<1> QED
  BY <1>2, <1>3 DEF CanMake

\* The thread that makes a file leaves every file it has passed made or lacking.
LEMMA WholeKept ==
    ASSUME TypeOK, AloneInv, ListInv, WholeInv, "overlap" \notin odd,
           NEW u \in Updaters, pc[u] \in {"parse", "write"},
           NEW done \in SUBSET Files, NextData(u, done),
           processed[u] \subseteq done,
           \A f \in Files : f # at[u] => data'[f] = data[f] /\ (f \in cut => f \in cut'),
           \A f \in done : Made(f)', at[u] \in done \/ Lacking(at[u]),
           UNCHANGED <<raw, lastUpdate, odd>>
    PROVE  WholeInv'
<1>1. Moved(u, "parse", NumFiles, "finish")
  BY NextParse DEF NextData
<1>2. /\ processed'[u] = IF at[u] = NumFiles THEN {} ELSE done
      /\ \A v \in Updaters : v # u => processed'[v] = processed[v]
  BY NextDataList
<1>3. at[u] \in Files /\ at[u] \in Nat /\ NumFiles \in Nat
  BY FilesAssumption DEF TypeOK
<1>4. ~Recent(lastUpdate, UpdateAge) /\ \A v \in Updaters : v # u => pc[v] \notin Working
  BY DEF AloneInv, Working
<1>5. \A v \in Updaters : v # u => pc'[v] \notin Working /\ processed'[v] = {}
  BY <1>1, <1>2, <1>4 DEF Moved, ListInv, Working, TypeOK
<1>6. \A f \in Files : Lacking(f)' <=> Lacking(f)
  BY DEF Lacking
<1>7. \A f \in Files : f <= at[u] => f \in done \/ Lacking(f)
  <2>1. \A f \in Files : f <= at[u] => f = at[u] \/ f < at[u]
    BY <1>3 DEF Files
  <2> QED
    BY <2>1 DEF WholeInv
<1>8. ~Recent(lastUpdate, UpdateAge)'
  BY <1>4 DEF Recent
<1>9. CASE at[u] < NumFiles
  <2>1. pc'[u] = "parse" /\ at'[u] = at[u] + 1 /\ processed'[u] = done
    BY <1>1, <1>2, <1>3, <1>9 DEF Moved, TypeOK
  <2>2. \A f \in Files : f < at'[u] => f <= at[u]
    BY <1>3, <2>1 DEF Files
  <2> QED
    BY <1>5, <1>6, <1>7, <1>8, <2>1, <2>2 DEF WholeInv, Working
<1>10. CASE ~(at[u] < NumFiles)
  <2>1. pc'[u] = "finish" /\ processed'[u] = {} /\ at[u] = NumFiles
    BY <1>1, <1>2, <1>3, <1>10 DEF Moved, TypeOK
  <2>2. \A f \in Files : f <= at[u]
    BY <1>3, <2>1 DEF Files
  <2> QED
    BY <1>5, <1>6, <1>7, <1>8, <2>1, <2>2 DEF WholeInv, Working
<1> QED
  BY <1>9, <1>10

\* A thread that downloads leaves nothing that is to be made or recorded, and comes
\* to the first data file in the end.
LEMMA WholeFetched ==
    ASSUME TypeOK, AloneInv, ListInv, "overlap" \notin odd,
           NEW u \in Updaters, pc[u] \in {"download", "rename", "rewrite"},
           \/ Moved(u, "download", NumDownloads, "parse")
           \/ \E s \in {"rename", "rewrite"} : pc' = [pc EXCEPT ![u] = s],
           UNCHANGED <<processed, lastUpdate>>
    PROVE  WholeInv'
<1>1. ~Recent(lastUpdate, UpdateAge) /\ \A v \in Updaters : v # u => pc[v] \notin Working
  BY DEF AloneInv, Working
<1>2. \A v \in Updaters : processed'[v] = {}
  BY <1>1 DEF ListInv, Working
<1>3. \A v \in Updaters : v # u => pc'[v] = pc[v]
  BY DEF Moved, TypeOK
<1>4. pc'[u] \in {"download", "rename", "rewrite", "parse"}
  BY DEF Moved, TypeOK
<1>5. pc'[u] = "parse" => at'[u] = 1
  BY DEF Moved, TypeOK
<1>6. \A f \in Files : ~(f < 1)
  BY DEF Files
<1>7. ~Recent(lastUpdate, UpdateAge)'
  BY <1>1 DEF Recent
<1> QED
  BY <1>1, <1>2, <1>3, <1>4, <1>5, <1>6, <1>7 DEF WholeInv, Working

\* Every step keeps the lists true, and every file made or lacking.
LEMMA WholeStep == TypeOK /\ AloneInv /\ ListInv /\ WholeInv /\ [Next]_vars => WholeInv'
<1> SUFFICES ASSUME TypeOK, AloneInv, ListInv, WholeInv, [Next]_vars PROVE WholeInv'
  OBVIOUS
<1> USE ThreadsAssumption, AgesAssumption, BoundsAssumption DEF TypeOK,
        NoFile, Unreadable, Working, Go, Fails, Older, files, threads,
        AloneInv, ListInv, WholeInv, Made, Lacking, At, Recent
<1>1. ASSUME NEW u \in Updaters, PageForks(u) PROVE WholeInv'
  BY <1>1 DEF PageForks
<1>2. ASSUME NEW u \in Updaters, CheckUpdate(u) PROVE WholeInv'
  BY <1>2 DEF CheckUpdate
<1>3. ASSUME NEW u \in Updaters, ReadUpdate(u) PROVE WholeInv'
  BY <1>3 DEF ReadUpdate
<1>4. ASSUME NEW u \in Updaters, CheckAttempt(u) PROVE WholeInv'
  BY <1>4 DEF CheckAttempt
<1>5. ASSUME NEW u \in Updaters, ReadAttempt(u) PROVE WholeInv'
  BY <1>5 DEF ReadAttempt
<1>6. ASSUME NEW u \in Updaters, OpenMark(u) PROVE WholeInv'
  BY <1>6 DEF OpenMark
<1>7. ASSUME NEW u \in Updaters, Mark(u) PROVE WholeInv'
  BY <1>7 DEF Mark
<1>8. ASSUME NEW u \in Updaters, Download(u) PROVE WholeInv'
  <2> SUFFICES ASSUME "overlap" \notin odd' PROVE WholeInv'
    BY DEF WholeInv
  <2>1. /\ pc[u] \in {"download", "rename", "rewrite"} /\ "overlap" \notin odd
        /\ UNCHANGED <<processed, lastUpdate>>
    BY <1>8 DEF Download
  <2>2. \/ Moved(u, "download", NumDownloads, "parse")
        \/ \E s \in {"rename", "rewrite"} : pc' = [pc EXCEPT ![u] = s]
    <3>1. CASE NextFile(u, "download", NumDownloads, "parse")
      BY <2>1, <3>1, NextDownload
    <3>2. CASE Go(u, "rename")
      BY <3>2
    <3> QED
      BY <1>8, <3>1, <3>2 DEF Download
  <2> HIDE DEF TypeOK, AloneInv, ListInv, WholeInv
  <2> QED
    BY <2>1, <2>2, WholeFetched
<1>9. ASSUME NEW u \in Updaters, Rename(u) PROVE WholeInv'
  <2> SUFFICES ASSUME "overlap" \notin odd' PROVE WholeInv'
    BY DEF WholeInv
  <2>1. /\ pc[u] \in {"download", "rename", "rewrite"} /\ "overlap" \notin odd
        /\ UNCHANGED <<processed, lastUpdate>>
    BY <1>9 DEF Rename
  <2>2. \/ Moved(u, "download", NumDownloads, "parse")
        \/ \E s \in {"rename", "rewrite"} : pc' = [pc EXCEPT ![u] = s]
    <3>1. CASE NextFile(u, "download", NumDownloads, "parse")
      BY <2>1, <3>1, NextDownload
    <3>2. CASE Go(u, "rewrite")
      BY <3>2
    <3> QED
      BY <1>9, <3>1, <3>2 DEF Rename
  <2> HIDE DEF TypeOK, AloneInv, ListInv, WholeInv
  <2> QED
    BY <2>1, <2>2, WholeFetched
<1>10. ASSUME NEW u \in Updaters, Rewrite(u) PROVE WholeInv'
  <2> SUFFICES ASSUME "overlap" \notin odd' PROVE WholeInv'
    BY DEF WholeInv
  <2>1. /\ pc[u] \in {"download", "rename", "rewrite"} /\ "overlap" \notin odd
        /\ UNCHANGED <<processed, lastUpdate>>
    BY <1>10 DEF Rewrite
  <2>2. Moved(u, "download", NumDownloads, "parse")
    BY <1>10, <2>1, NextDownload DEF Rewrite
  <2> HIDE DEF TypeOK, AloneInv, ListInv, WholeInv
  <2> QED
    BY <2>1, <2>2, WholeFetched
<1>11. ASSUME NEW u \in Updaters, OpenData(u) PROVE WholeInv'
  BY <1>11 DEF OpenData
<1>12. ASSUME NEW u \in Updaters, SkipData(u) PROVE WholeInv'
  <2> SUFFICES ASSUME "overlap" \notin odd' PROVE WholeInv'
    BY DEF WholeInv
  <2>1. /\ pc[u] = "parse" /\ ~CanMake(u) /\ NextData(u, processed[u])
        /\ UNCHANGED <<raw, data, lastUpdate, cut, odd>>
    BY <1>12 DEF SkipData
  <2>2. Lacking(at[u])
    BY <2>1, CannotMake
  <2>3. \A f \in processed[u] : Made(f)'
    BY <2>1
  <2>4. processed[u] \in SUBSET Files
    OBVIOUS
  <2> HIDE DEF TypeOK, AloneInv, ListInv, WholeInv, Made, Lacking
  <2> QED
    BY <2>1, <2>2, <2>3, <2>4, WholeKept
<1>13. ASSUME NEW u \in Updaters, WriteData(u) PROVE WholeInv'
  <2> SUFFICES ASSUME "overlap" \notin odd' PROVE WholeInv'
    BY DEF WholeInv
  <2>1. /\ pc[u] = "write" /\ NextData(u, processed[u] \cup {at[u]}) /\ at[u] \in Files
        /\ UNCHANGED <<raw, lastUpdate, odd>>
    BY <1>13 DEF WriteData
  <2>2. \/ data' = [data EXCEPT ![at[u]] = "whole"] /\ cut' = cut \ {at[u]}
        \/ data' = data /\ cut' = cut \cup {at[u]}
    BY <1>13, <2>1 DEF WriteData
  <2>3. data'[at[u]] = "whole" \/ at[u] \in cut'
    BY <2>1, <2>2
  <2>4. \A f \in Files : f # at[u] => data'[f] = data[f] /\ (f \in cut => f \in cut')
    BY <2>1, <2>2
  <2>5. \A f \in processed[u] : f \in Files /\ f # at[u] /\ (data[f] = "whole" \/ f \in cut)
    BY <2>1 DEF Files
  <2>6. \A f \in processed[u] \cup {at[u]} : data'[f] = "whole" \/ f \in cut'
    BY <2>3, <2>4, <2>5
  <2>7. \A f \in processed[u] \cup {at[u]} : Made(f)'
    BY <2>6
  <2>8. processed[u] \cup {at[u]} \in SUBSET Files
    BY <2>1
  <2>9. "overlap" \notin odd
    BY <2>1
  <2> HIDE DEF TypeOK, AloneInv, ListInv, WholeInv, Made, Lacking
  <2> QED
    BY <2>1, <2>4, <2>7, <2>8, <2>9, WholeKept
<1>14. ASSUME NEW u \in Updaters, ParserThrows(u) PROVE WholeInv'
  BY <1>14 DEF ParserThrows
<1>15. ASSUME NEW u \in Updaters, OpenFinish(u) PROVE WholeInv'
  BY <1>15 DEF OpenFinish
<1>16. ASSUME NEW u \in Updaters, Finish(u) PROVE WholeInv'
  BY <1>16 DEF Finish
<1>17. ASSUME NEW u \in Updaters, OpenFailed(u) PROVE WholeInv'
  BY <1>17 DEF OpenFailed
<1>18. ASSUME NEW u \in Updaters, RecordFailed(u) PROVE WholeInv'
  BY <1>18 DEF RecordFailed
<1>19. ASSUME Tick PROVE WholeInv'
  BY <1>19 DEF Tick
<1>20. ASSUME Restart PROVE WholeInv'
  BY <1>20 DEF Restart
<1>21. CASE UNCHANGED vars
  BY <1>21 DEF vars
<1> HIDE DEF TypeOK, NoFile, Unreadable, Working, Go, Fails, Older, files, threads,
        AloneInv, ListInv, WholeInv, Made, Lacking, At, Recent
<1> QED
  BY <1>1, <1>2, <1>3, <1>4, <1>5, <1>6, <1>7, <1>8, <1>9, <1>10, <1>11,
     <1>12, <1>13, <1>14, <1>15, <1>16, <1>17, <1>18, <1>19, <1>20, <1>21
  DEF Next, Work

-----------------------------------------------------------------------------
(* The theorems about DataFiles.                                           *)

IInv == TypeOK /\ MarkInv /\ AttemptInv /\ AloneInv /\ ListInv /\ WholeInv

\* The inductive invariant: types, the two small files, the data files.
THEOREM Invariance == Spec => []IInv
<1>1. Init => IInv
  BY TypeInit, AttemptInit, WholeInit DEF IInv
<1>2. IInv /\ [Next]_vars => IInv'
  BY TypeStep, MarkStep, AttemptStep, AloneStep, ListStep, WholeStep DEF IInv
<1> QED
  BY <1>1, <1>2, PTL DEF Spec

\* An update on record as done less than a day ago left every data file whole, but
\* for those that lack a source file or could not be written, unless updates
\* overlapped (run_datafile_parsers, last_update).
THEOREM RecordTrue == Spec => []UpdatedWhole
<1>1. IInv => UpdatedWhole
  BY DEF IInv, WholeInv, UpdatedWhole, Made, Lacking
<1> QED
  BY Invariance, <1>1, PTL

\* The servers are asked once in two hours at most, unless two threads decide at
\* once (last_attempt).
THEOREM RarelyAsked == Spec => AsksRarely
<1>1. IInv /\ [Next]_vars =>
          [\A u \in Updaters : pc[u] = "marking" /\ pc'[u] = "download"
               => sinceMark >= AttemptAge \/ "raced" \in odd]_vars
  BY DEF IInv, AttemptInv
<1> QED
  BY Invariance, <1>1, PTL DEF Spec, AsksRarely

-----------------------------------------------------------------------------
(* LuaInstances: the invariants.                                           *)

\* The types of the table and of the threads, and those of the chats' file.
CallTypes ==
    /\ made \in Nat /\ table \in [Levels -> 0 .. made] /\ inst \in [Callers -> 0 .. made]
    /\ lock \in Callers \cup {Nobody} /\ left \subseteq Files
    /\ \A t \in Callers : InSetup(t) => lock = t
    /\ step \in [Callers -> {"idle", "table", "early", "rest", "done"} \cup Inside]
    /\ requests \in 0 .. MaxRequests

ChatTypes ==
    /\ chatFile \subseteq Chats /\ draft \in [Chats -> SUBSET Chats] /\ cleared \in BOOLEAN

\* An interpreter is set up only where there is none: the table's lock is held.
SetupInv == \A t \in Callers : InSetup(t) => table[Level(t)] = 0

\* The page's thread is at work only while its browser's thread waits for it.
PageInv == step[Proc] \in {"idle", "done"} \/ step[Seq] = "await"

\* One thread at a time runs in an interpreter.
RunInv == \A t, u \in Running : inst[t] = inst[u] => t = u

\* Scripts of one kind share the interpreter in the table, if it is not cleared.
ShareInv ==
    \A t \in Callers : step[t] \in Inside =>
        inst[t] # 0 /\ (cleared \/ inst[t] = table[Level(t)])

\* A chat that is about to write the chats' file has read what is in it.
SaveInv == ~cleared => \A t \in Chats : step[t] = "save" => draft[t] = chatFile

\* What set-up has loaded so far was there, and all of it was before an interpreter
\* came into the table or a thread was given one.
There(S) == \A f \in S : data[f] # "none"
ReadyInv ==
    /\ \A t \in Callers : step[t] = "early" => There(Early \ left)
    /\ \A t \in Callers : step[t] = "rest" => There(Early) /\ There(Late \ left)
    /\ \A k \in Levels : table[k] # 0 => There(Early \cup Late)
    /\ \A t \in Callers : step[t] \in Inside => There(Early \cup Late)

-----------------------------------------------------------------------------
(* Facts the proofs share.                                                  *)

\* The threads.
LEMMA Threads == Chats \subseteq Callers /\ Seq \in Callers /\ Proc \in Callers
BY DEF Callers

\* Every thread has one level; there are three.
LEMMA LevelType == \A t \in Callers : Level(t) \in Levels
BY DEF Level, Levels

\* What the types say of the variables that matter here.
LEMMA LuaShape ==
    ASSUME LuaTypeOK
    PROVE  /\ step = [t \in Callers |-> step[t]] /\ inst = [t \in Callers |-> inst[t]]
           /\ table = [k \in Levels |-> table[k]] /\ draft = [t \in Chats |-> draft[t]]
           /\ made \in Nat
           /\ \A k \in Levels : table[k] \in 0 .. made
           /\ \A t \in Callers : InSetup(t) => lock = t
BY DEF LuaTypeOK

-----------------------------------------------------------------------------
(* Types.                                                                   *)

\* The initial state has the types.
LEMMA LuaTypeInit == Init /\ LuaInit => LuaTypeOK
<1> SUFFICES ASSUME Init, LuaInit PROVE LuaTypeOK
  OBVIOUS
<1>1. TypeOK
  BY TypeInit
<1>2. CallTypes
  <2>1. MaxRequests \in Nat
    BY CallersAssumption
  <2>2. \A t \in Callers : step[t] \in {"idle", "done"}
    BY DEF LuaInit
  <2> QED
    BY <2>1, <2>2 DEF LuaInit, CallTypes, InSetup
<1>3. ChatTypes
  BY DEF LuaInit, ChatTypes
<1> QED
  BY <1>1, <1>2, <1>3 DEF LuaTypeOK, CallTypes, ChatTypes

\* Data files change as they do without scripts.
LEMMA Underneath == [LuaNext]_allVars => [Next]_vars
<1> SUFFICES ASSUME [LuaNext]_allVars PROVE [Next]_vars
  OBVIOUS
<1> QED
  BY DEF LuaNext, LuaRestart, Next, allVars

\* Every step of a thread keeps the table's types.
LEMMA CallStep == CallTypes /\ [LuaNext]_allVars => CallTypes'
<1> SUFFICES ASSUME CallTypes, [LuaNext]_allVars PROVE CallTypes'
  OBVIOUS
<1>f. Early \subseteq Files /\ Late \subseteq Files
  BY LoadedAssumption
<1>l. \A t \in Callers : Level(t) \in Levels
  BY LevelType
<1> USE CallersAssumption DEF CallTypes, InSetup, Inside
<1>1. ASSUME NEW t \in Callers, Request(t) PROVE CallTypes'
  BY <1>1, <1>f, <1>l DEF Request, Goes, tableVars, callVars, chatVars
<1>2. ASSUME NEW t \in Callers, Lookup(t) PROVE CallTypes'
  BY <1>2, <1>f, <1>l DEF Lookup, Goes, tableVars, callVars, chatVars
<1>3. ASSUME NEW t \in Callers, LoadFile(t) PROVE CallTypes'
  BY <1>3, <1>f, <1>l DEF LoadFile, tableVars, callVars, chatVars
<1>4. ASSUME NEW t \in Callers, ListFiles(t) PROVE CallTypes'
  BY <1>4, <1>f, <1>l DEF ListFiles, Goes, tableVars, callVars, chatVars
<1>5. ASSUME NEW t \in Callers, SetUp(t) PROVE CallTypes'
  <2>1. /\ made' = made + 1 /\ table' = [table EXCEPT ![Level(t)] = made + 1]
        /\ inst' = [inst EXCEPT ![t] = made + 1] /\ step' = [step EXCEPT ![t] = "enter"]
        /\ lock' = Nobody /\ UNCHANGED <<left, requests>> /\ step[t] = "rest"
    BY <1>5 DEF SetUp, Goes
  <2>2. 0 .. made \subseteq 0 .. (made + 1) /\ made + 1 \in 0 .. (made + 1)
    OBVIOUS
  <2>3. table' \in [Levels -> 0 .. made'] /\ inst' \in [Callers -> 0 .. made']
    BY <1>l, <2>1, <2>2
  <2> QED
    BY <2>1, <2>3
<1>6. ASSUME NEW t \in Callers, LoadFails(t) PROVE CallTypes'
  BY <1>6, <1>f, <1>l DEF LoadFails, Ended, Goes, tableVars, callVars, chatVars
<1>7. ASSUME NEW t \in Callers, Enter(t) PROVE CallTypes'
  BY <1>7, <1>f, <1>l DEF Enter, Goes, tableVars, callVars, chatVars
<1>8. ASSUME NEW t \in Callers, ScriptEnds(t) PROVE CallTypes'
  BY <1>8, <1>f, <1>l DEF ScriptEnds, Leaves, Goes, Ended, tableVars, callVars, chatVars
<1>9. ASSUME NEW t \in Callers, ReadChatState(t) PROVE CallTypes'
  BY <1>9, <1>f, <1>l DEF ReadChatState, Goes, tableVars, callVars, chatVars
<1>10. ASSUME NEW t \in Callers, WriteChatState(t) PROVE CallTypes'
  BY <1>10, <1>f, <1>l DEF WriteChatState, Leaves, Goes, Ended, tableVars, callVars, chatVars
<1>11. ASSUME SubmitPage PROVE CallTypes'
  BY <1>11, <1>f, <1>l DEF SubmitPage, tableVars, callVars, chatVars
<1>12. ASSUME PageDone PROVE CallTypes'
  BY <1>12, <1>f, <1>l DEF PageDone, Leaves, Goes, Ended, tableVars, callVars, chatVars
<1>13. ASSUME ClearCache PROVE CallTypes'
  <2>1. /\ table' = [k \in Levels |-> 0] /\ step' = [step EXCEPT ![Seq] = "idle"]
        /\ UNCHANGED <<made, lock, left, inst, requests>>
    BY <1>13 DEF ClearCache, Goes
  <2>2. 0 \in 0 .. made
    OBVIOUS
  <2>3. table' \in [Levels -> 0 .. made]
    BY <2>1, <2>2
  <2> QED
    BY <2>1, <2>3
<1>14. ASSUME LuaRestart PROVE CallTypes'
  BY <1>14, <1>f, <1>l DEF LuaRestart, Ended, tableVars, callVars, chatVars
<1>15. CASE UNCHANGED luaVars
  BY <1>15, <1>f, <1>l DEF luaVars, tableVars, callVars, chatVars
<1> HIDE DEF CallTypes, InSetup, Inside
<1> QED
  BY <1>1, <1>2, <1>3, <1>4, <1>5, <1>6, <1>7, <1>8, <1>9, <1>10, <1>11,
     <1>12, <1>13, <1>14, <1>15
  DEF LuaNext, Call, allVars

\* ... and those of the chats' file.
LEMMA ChatStep == ChatTypes /\ [LuaNext]_allVars => ChatTypes'
<1> SUFFICES ASSUME ChatTypes, [LuaNext]_allVars PROVE ChatTypes'
  OBVIOUS
<1> USE CallersAssumption DEF ChatTypes
<1>1. ASSUME NEW t \in Callers, Request(t) PROVE ChatTypes'
  BY <1>1 DEF Request, Goes, tableVars, callVars, chatVars
<1>2. ASSUME NEW t \in Callers, Lookup(t) PROVE ChatTypes'
  BY <1>2 DEF Lookup, Goes, tableVars, callVars, chatVars
<1>3. ASSUME NEW t \in Callers, LoadFile(t) PROVE ChatTypes'
  BY <1>3 DEF LoadFile, tableVars, callVars, chatVars
<1>4. ASSUME NEW t \in Callers, ListFiles(t) PROVE ChatTypes'
  BY <1>4 DEF ListFiles, Goes, tableVars, callVars, chatVars
<1>5. ASSUME NEW t \in Callers, SetUp(t) PROVE ChatTypes'
  BY <1>5 DEF SetUp, Goes, tableVars, callVars, chatVars
<1>6. ASSUME NEW t \in Callers, LoadFails(t) PROVE ChatTypes'
  BY <1>6 DEF LoadFails, Ended, Goes, tableVars, callVars, chatVars
<1>7. ASSUME NEW t \in Callers, Enter(t) PROVE ChatTypes'
  BY <1>7 DEF Enter, Goes, tableVars, callVars, chatVars
<1>8. ASSUME NEW t \in Callers, ScriptEnds(t) PROVE ChatTypes'
  BY <1>8 DEF ScriptEnds, Leaves, Goes, Ended, tableVars, callVars, chatVars
<1>9. ASSUME NEW t \in Callers, ReadChatState(t) PROVE ChatTypes'
  BY <1>9 DEF ReadChatState, Goes, tableVars, callVars, chatVars
<1>10. ASSUME NEW t \in Callers, WriteChatState(t) PROVE ChatTypes'
  BY <1>10 DEF WriteChatState, Leaves, Goes, Ended, tableVars, callVars, chatVars
<1>11. ASSUME SubmitPage PROVE ChatTypes'
  BY <1>11 DEF SubmitPage, tableVars, callVars, chatVars
<1>12. ASSUME PageDone PROVE ChatTypes'
  BY <1>12 DEF PageDone, Leaves, Goes, Ended, tableVars, callVars, chatVars
<1>13. ASSUME ClearCache PROVE ChatTypes'
  BY <1>13 DEF ClearCache, Goes, tableVars, callVars, chatVars
<1>14. ASSUME LuaRestart PROVE ChatTypes'
  BY <1>14 DEF LuaRestart, Ended, tableVars, callVars, chatVars
<1>15. CASE UNCHANGED luaVars
  BY <1>15 DEF luaVars, tableVars, callVars, chatVars
<1> HIDE DEF ChatTypes
<1> QED
  BY <1>1, <1>2, <1>3, <1>4, <1>5, <1>6, <1>7, <1>8, <1>9, <1>10, <1>11,
     <1>12, <1>13, <1>14, <1>15
  DEF LuaNext, Call, allVars

\* Every step keeps the types.
LEMMA LuaTypeStep == LuaTypeOK /\ [LuaNext]_allVars => LuaTypeOK'
<1> SUFFICES ASSUME LuaTypeOK, [LuaNext]_allVars PROVE LuaTypeOK'
  OBVIOUS
<1>1. TypeOK /\ CallTypes /\ ChatTypes
  BY DEF LuaTypeOK, CallTypes, ChatTypes
<1>2. TypeOK' /\ CallTypes' /\ ChatTypes'
  BY <1>1, TypeStep, Underneath, CallStep, ChatStep
<1> QED
  BY <1>2 DEF LuaTypeOK, CallTypes, ChatTypes

\* Every state has the types; a thread that sets up an interpreter holds the lock.
THEOREM LuaTypeCorrect == LuaSpec => []LuaTypeOK
BY LuaTypeInit, LuaTypeStep, PTL DEF LuaSpec

-----------------------------------------------------------------------------
(* Data files for scripts.                                                  *)

\* With scripts running beside them, the data files are still updated as DataFiles
\* says.
THEOREM UpdatesImplemented == LuaSpec => Spec
<1>1. Init /\ LuaInit => Init
  OBVIOUS
<1> QED
  BY <1>1, Underneath, PTL DEF LuaSpec, Spec

\* A data file that is there stays there, whatever is in it.
LEMMA FilesStay ==
    ASSUME TypeOK, [Next]_vars
    PROVE  \A f \in Files : data[f] # "none" => data'[f] # "none"
<1>1. ASSUME NEW u \in Updaters, OpenData(u)
      PROVE  \A f \in Files : data[f] # "none" => data'[f] # "none"
  BY <1>1 DEF OpenData, TypeOK
<1>2. ASSUME NEW u \in Updaters, WriteData(u)
      PROVE  \A f \in Files : data[f] # "none" => data'[f] # "none"
  <2>1. PICK c \in {"whole", "torn"} : data' \in {data, [data EXCEPT ![at[u]] = c]}
    BY <1>2 DEF WriteData
  <2> QED
    BY <2>1 DEF TypeOK
<1>3. UNCHANGED data \/ \E u \in Updaters : OpenData(u) \/ WriteData(u)
  BY DEF Next, Work, PageForks, CheckUpdate, ReadUpdate, CheckAttempt, ReadAttempt, OpenMark, Mark,
         Download, Rename, Rewrite, SkipData, ParserThrows, OpenFinish, Finish, OpenFailed,
         RecordFailed, Tick, Restart, vars, files
<1> QED
  BY <1>1, <1>2, <1>3

-----------------------------------------------------------------------------
(* Interpreters.                                                            *)

\* No thread has an interpreter at first.
LEMMA CallInit == LuaInit => SetupInv /\ PageInv /\ RunInv /\ ShareInv /\ SaveInv /\ ReadyInv
<1> SUFFICES ASSUME LuaInit
             PROVE  SetupInv /\ PageInv /\ RunInv /\ ShareInv /\ SaveInv /\ ReadyInv
  OBVIOUS
<1>1. \A t \in Callers : step[t] \in {"idle", "done"}
  BY DEF LuaInit
<1>2. \A k \in Levels : table[k] = 0
  BY DEF LuaInit
<1> QED
  BY <1>1, <1>2, Threads DEF SetupInv, PageInv, RunInv, Running, ShareInv, Inside, SaveInv, InSetup,
     ReadyInv

\* The lock keeps others from setting up the interpreter (withMVar).
LEMMA SetupStep == LuaTypeOK /\ SetupInv /\ [LuaNext]_allVars => SetupInv'
<1> SUFFICES ASSUME LuaTypeOK, SetupInv, [LuaNext]_allVars
             PROVE  SetupInv'
  OBVIOUS
<1>t. /\ step = [t \in Callers |-> step[t]] /\ inst = [t \in Callers |-> inst[t]]
      /\ table = [k \in Levels |-> table[k]] /\ draft = [t \in Chats |-> draft[t]]
      /\ made \in Nat
      /\ \A k \in Levels : table[k] \in 0 .. made
      /\ \A t \in Callers : InSetup(t) => lock = t
  BY LuaShape
<1>l. \A t \in Callers : Level(t) \in Levels
  BY LevelType
<1> USE CallersAssumption DEF SetupInv, InSetup
<1>1. ASSUME NEW t \in Callers, Request(t) PROVE SetupInv'
  BY <1>1, <1>t, <1>l DEF Request, Goes, tableVars, callVars, chatVars, LuaTypeOK
<1>2. ASSUME NEW t \in Callers, Lookup(t) PROVE SetupInv'
  BY <1>2, <1>t, <1>l DEF Lookup, Goes, tableVars, callVars, chatVars, LuaTypeOK
<1>3. ASSUME NEW t \in Callers, LoadFile(t) PROVE SetupInv'
  BY <1>3, <1>t, <1>l DEF LoadFile, tableVars, callVars, chatVars, LuaTypeOK
<1>4. ASSUME NEW t \in Callers, ListFiles(t) PROVE SetupInv'
  BY <1>4, <1>t, <1>l DEF ListFiles, Goes, tableVars, callVars, chatVars, LuaTypeOK
<1>5. ASSUME NEW t \in Callers, SetUp(t) PROVE SetupInv'
  <2>1. /\ step' = [step EXCEPT ![t] = "enter"] /\ step[t] = "rest"
    BY <1>5 DEF SetUp, Goes
  <2>2. \A u \in Callers : InSetup(u) => u = t
    BY <1>t, <2>1
  <2> QED
    BY <1>t, <2>1, <2>2
<1>6. ASSUME NEW t \in Callers, LoadFails(t) PROVE SetupInv'
  BY <1>6, <1>t, <1>l DEF LoadFails, Ended, Goes, tableVars, callVars, chatVars, LuaTypeOK
<1>7. ASSUME NEW t \in Callers, Enter(t) PROVE SetupInv'
  BY <1>7, <1>t, <1>l DEF Enter, Goes, tableVars, callVars, chatVars, LuaTypeOK
<1>8. ASSUME NEW t \in Callers, ScriptEnds(t) PROVE SetupInv'
  BY <1>8, <1>t, <1>l DEF ScriptEnds, Leaves, Goes, Ended, tableVars, callVars, chatVars, LuaTypeOK
<1>9. ASSUME NEW t \in Callers, ReadChatState(t) PROVE SetupInv'
  BY <1>9, <1>t, <1>l DEF ReadChatState, Goes, tableVars, callVars, chatVars, LuaTypeOK
<1>10. ASSUME NEW t \in Callers, WriteChatState(t) PROVE SetupInv'
  BY <1>10, <1>t, <1>l DEF WriteChatState, Leaves, Goes, Ended, tableVars, callVars, chatVars, LuaTypeOK
<1>11. ASSUME SubmitPage PROVE SetupInv'
  BY <1>11, <1>t, <1>l DEF SubmitPage, tableVars, callVars, chatVars, LuaTypeOK
<1>12. ASSUME PageDone PROVE SetupInv'
  BY <1>12, <1>t, <1>l DEF PageDone, Leaves, Goes, Ended, tableVars, callVars, chatVars, LuaTypeOK
<1>13. ASSUME ClearCache PROVE SetupInv'
  BY <1>13, <1>t, <1>l DEF ClearCache, Goes, tableVars, callVars, chatVars, LuaTypeOK
<1>14. ASSUME LuaRestart PROVE SetupInv'
  BY <1>14, <1>t, <1>l DEF LuaRestart, Ended, tableVars, callVars, chatVars, LuaTypeOK
<1>15. CASE UNCHANGED luaVars
  BY <1>15, <1>t, <1>l DEF luaVars, tableVars, callVars, chatVars, LuaTypeOK
<1> HIDE DEF SetupInv, InSetup
<1> QED
  BY <1>1, <1>2, <1>3, <1>4, <1>5, <1>6, <1>7, <1>8, <1>9, <1>10, <1>11,
     <1>12, <1>13, <1>14, <1>15
  DEF LuaNext, Call, allVars

\* A page's thread is begun by a script that waits for it, and by no other.
LEMMA PageStep == LuaTypeOK /\ PageInv /\ [LuaNext]_allVars => PageInv'
<1> SUFFICES ASSUME LuaTypeOK, PageInv, [LuaNext]_allVars
             PROVE  PageInv'
  OBVIOUS
<1>t. /\ step = [t \in Callers |-> step[t]] /\ inst = [t \in Callers |-> inst[t]]
      /\ table = [k \in Levels |-> table[k]] /\ draft = [t \in Chats |-> draft[t]]
      /\ made \in Nat
      /\ \A k \in Levels : table[k] \in 0 .. made
      /\ \A t \in Callers : InSetup(t) => lock = t
  BY LuaShape
<1>l. \A t \in Callers : Level(t) \in Levels
  BY LevelType
<1> USE CallersAssumption, Threads DEF PageInv, InSetup
<1>1. ASSUME NEW t \in Callers, Request(t) PROVE PageInv'
  BY <1>1, <1>t DEF Request, Goes, tableVars, callVars, chatVars
<1>2. ASSUME NEW t \in Callers, Lookup(t) PROVE PageInv'
  BY <1>2, <1>t DEF Lookup, Goes, tableVars, callVars, chatVars
<1>3. ASSUME NEW t \in Callers, LoadFile(t) PROVE PageInv'
  BY <1>3, <1>t DEF LoadFile, tableVars, callVars, chatVars
<1>4. ASSUME NEW t \in Callers, ListFiles(t) PROVE PageInv'
  BY <1>4, <1>t DEF ListFiles, Goes, tableVars, callVars, chatVars
<1>5. ASSUME NEW t \in Callers, SetUp(t) PROVE PageInv'
  BY <1>5, <1>t DEF SetUp, Goes, tableVars, callVars, chatVars
<1>6. ASSUME NEW t \in Callers, LoadFails(t) PROVE PageInv'
  BY <1>6, <1>t DEF LoadFails, Ended, Goes, tableVars, callVars, chatVars
<1>7. ASSUME NEW t \in Callers, Enter(t) PROVE PageInv'
  BY <1>7, <1>t DEF Enter, Goes, tableVars, callVars, chatVars
<1>8. ASSUME NEW t \in Callers, ScriptEnds(t) PROVE PageInv'
  BY <1>8, <1>t DEF ScriptEnds, Leaves, Goes, Ended, tableVars, callVars, chatVars
<1>9. ASSUME NEW t \in Callers, ReadChatState(t) PROVE PageInv'
  BY <1>9, <1>t DEF ReadChatState, Goes, tableVars, callVars, chatVars
<1>10. ASSUME NEW t \in Callers, WriteChatState(t) PROVE PageInv'
  BY <1>10, <1>t DEF WriteChatState, Leaves, Goes, Ended, tableVars, callVars, chatVars
<1>11. ASSUME SubmitPage PROVE PageInv'
  BY <1>11, <1>t DEF SubmitPage, tableVars, callVars, chatVars
<1>12. ASSUME PageDone PROVE PageInv'
  BY <1>12, <1>t DEF PageDone, Leaves, Goes, Ended, tableVars, callVars, chatVars
<1>13. ASSUME ClearCache PROVE PageInv'
  BY <1>13, <1>t DEF ClearCache, Goes, tableVars, callVars, chatVars
<1>14. ASSUME LuaRestart PROVE PageInv'
  BY <1>14, <1>t DEF LuaRestart, Ended, tableVars, callVars, chatVars
<1>15. CASE UNCHANGED luaVars
  BY <1>15, <1>t DEF luaVars, tableVars, callVars, chatVars
<1> HIDE DEF PageInv, InSetup
<1> QED
  BY <1>1, <1>2, <1>3, <1>4, <1>5, <1>6, <1>7, <1>8, <1>9, <1>10, <1>11,
     <1>12, <1>13, <1>14, <1>15
  DEF LuaNext, Call, allVars

\* One thread at a time enters an interpreter (withMVar).
LEMMA RunStep == LuaTypeOK /\ RunInv /\ [LuaNext]_allVars => RunInv'
<1> SUFFICES ASSUME LuaTypeOK, RunInv, [LuaNext]_allVars
             PROVE  RunInv'
  OBVIOUS
<1>t. /\ step = [t \in Callers |-> step[t]] /\ inst = [t \in Callers |-> inst[t]]
      /\ table = [k \in Levels |-> table[k]] /\ draft = [t \in Chats |-> draft[t]]
      /\ made \in Nat
      /\ \A k \in Levels : table[k] \in 0 .. made
      /\ \A t \in Callers : InSetup(t) => lock = t
  BY LuaShape
<1>l. \A t \in Callers : Level(t) \in Levels
  BY LevelType
<1> USE CallersAssumption DEF RunInv, Running, InSetup
<1>1. ASSUME NEW t \in Callers, Request(t) PROVE RunInv'
  BY <1>1, <1>t DEF Request, Goes, tableVars, callVars, chatVars, LuaTypeOK
<1>2. ASSUME NEW t \in Callers, Lookup(t) PROVE RunInv'
  BY <1>2, <1>t DEF Lookup, Goes, tableVars, callVars, chatVars, LuaTypeOK
<1>3. ASSUME NEW t \in Callers, LoadFile(t) PROVE RunInv'
  BY <1>3, <1>t DEF LoadFile, tableVars, callVars, chatVars, LuaTypeOK
<1>4. ASSUME NEW t \in Callers, ListFiles(t) PROVE RunInv'
  BY <1>4, <1>t DEF ListFiles, Goes, tableVars, callVars, chatVars, LuaTypeOK
<1>5. ASSUME NEW t \in Callers, SetUp(t) PROVE RunInv'
  BY <1>5, <1>t DEF SetUp, Goes, tableVars, callVars, chatVars, LuaTypeOK
<1>6. ASSUME NEW t \in Callers, LoadFails(t) PROVE RunInv'
  BY <1>6, <1>t DEF LoadFails, Ended, Goes, tableVars, callVars, chatVars, LuaTypeOK
<1>7. ASSUME NEW t \in Callers, Enter(t) PROVE RunInv'
  BY <1>7, <1>t DEF Enter, Goes, tableVars, callVars, chatVars, LuaTypeOK
<1>8. ASSUME NEW t \in Callers, ScriptEnds(t) PROVE RunInv'
  BY <1>8, <1>t DEF ScriptEnds, Leaves, Goes, Ended, tableVars, callVars, chatVars, LuaTypeOK
<1>9. ASSUME NEW t \in Callers, ReadChatState(t) PROVE RunInv'
  BY <1>9, <1>t DEF ReadChatState, Goes, tableVars, callVars, chatVars, LuaTypeOK
<1>10. ASSUME NEW t \in Callers, WriteChatState(t) PROVE RunInv'
  BY <1>10, <1>t DEF WriteChatState, Leaves, Goes, Ended, tableVars, callVars, chatVars, LuaTypeOK
<1>11. ASSUME SubmitPage PROVE RunInv'
  BY <1>11, <1>t DEF SubmitPage, tableVars, callVars, chatVars, LuaTypeOK
<1>12. ASSUME PageDone PROVE RunInv'
  BY <1>12, <1>t DEF PageDone, Leaves, Goes, Ended, tableVars, callVars, chatVars, LuaTypeOK
<1>13. ASSUME ClearCache PROVE RunInv'
  BY <1>13, <1>t DEF ClearCache, Goes, tableVars, callVars, chatVars, LuaTypeOK
<1>14. ASSUME LuaRestart PROVE RunInv'
  BY <1>14, <1>t DEF LuaRestart, Ended, tableVars, callVars, chatVars, LuaTypeOK
<1>15. CASE UNCHANGED luaVars
  BY <1>15, <1>t DEF luaVars, tableVars, callVars, chatVars, LuaTypeOK
<1> HIDE DEF RunInv, Running, InSetup
<1> QED
  BY <1>1, <1>2, <1>3, <1>4, <1>5, <1>6, <1>7, <1>8, <1>9, <1>10, <1>11,
     <1>12, <1>13, <1>14, <1>15
  DEF LuaNext, Call, allVars

\* Threads are given the interpreter in the table.
LEMMA ShareStep ==
    LuaTypeOK /\ SetupInv /\ PageInv /\ ShareInv /\ [LuaNext]_allVars => ShareInv'
<1> SUFFICES ASSUME LuaTypeOK, SetupInv, PageInv, ShareInv, [LuaNext]_allVars
             PROVE  ShareInv'
  OBVIOUS
<1>t. /\ step = [t \in Callers |-> step[t]] /\ inst = [t \in Callers |-> inst[t]]
      /\ table = [k \in Levels |-> table[k]] /\ draft = [t \in Chats |-> draft[t]]
      /\ made \in Nat
      /\ \A k \in Levels : table[k] \in 0 .. made
      /\ \A t \in Callers : InSetup(t) => lock = t
  BY LuaShape
<1>l. \A t \in Callers : Level(t) \in Levels
  BY LevelType
<1> USE CallersAssumption DEF ShareInv, Inside, InSetup
<1>1. ASSUME NEW t \in Callers, Request(t) PROVE ShareInv'
  BY <1>1, <1>t, <1>l DEF Request, Goes, tableVars, callVars, chatVars
<1>2. ASSUME NEW t \in Callers, Lookup(t) PROVE ShareInv'
  BY <1>2, <1>t, <1>l DEF Lookup, Goes, tableVars, callVars, chatVars
<1>3. ASSUME NEW t \in Callers, LoadFile(t) PROVE ShareInv'
  BY <1>3, <1>t, <1>l DEF LoadFile, tableVars, callVars, chatVars
<1>4. ASSUME NEW t \in Callers, ListFiles(t) PROVE ShareInv'
  BY <1>4, <1>t, <1>l DEF ListFiles, Goes, tableVars, callVars, chatVars
<1>5. ASSUME NEW t \in Callers, SetUp(t) PROVE ShareInv'
  <2>1. /\ table' = [table EXCEPT ![Level(t)] = made + 1] /\ UNCHANGED cleared
        /\ inst' = [inst EXCEPT ![t] = made + 1] /\ step' = [step EXCEPT ![t] = "enter"]
        /\ step[t] = "rest"
    BY <1>5 DEF SetUp, Goes, chatVars
  <2>2. /\ table'[Level(t)] = made + 1
        /\ \A k \in Levels : k # Level(t) => table'[k] = table[k]
    BY <1>t, <1>l, <2>1
  <2>3. \A u \in Callers : u # t => step'[u] = step[u] /\ inst'[u] = inst[u]
    BY <1>t, <2>1
  <2>4. inst'[t] = made + 1 /\ made + 1 # 0
    BY <1>t, <2>1
  <2>5. table[Level(t)] = 0
    BY <2>1 DEF SetupInv
  <2> QED
    BY <1>l, <2>1, <2>2, <2>3, <2>4, <2>5
<1>6. ASSUME NEW t \in Callers, LoadFails(t) PROVE ShareInv'
  BY <1>6, <1>t, <1>l DEF LoadFails, Ended, Goes, tableVars, callVars, chatVars
<1>7. ASSUME NEW t \in Callers, Enter(t) PROVE ShareInv'
  BY <1>7, <1>t, <1>l DEF Enter, Goes, tableVars, callVars, chatVars
<1>8. ASSUME NEW t \in Callers, ScriptEnds(t) PROVE ShareInv'
  BY <1>8, <1>t, <1>l DEF ScriptEnds, Leaves, Goes, Ended, tableVars, callVars, chatVars
<1>9. ASSUME NEW t \in Callers, ReadChatState(t) PROVE ShareInv'
  BY <1>9, <1>t, <1>l DEF ReadChatState, Goes, tableVars, callVars, chatVars
<1>10. ASSUME NEW t \in Callers, WriteChatState(t) PROVE ShareInv'
  BY <1>10, <1>t, <1>l DEF WriteChatState, Leaves, Goes, Ended, tableVars, callVars, chatVars
<1>11. ASSUME SubmitPage PROVE ShareInv'
  BY <1>11, <1>t, <1>l DEF SubmitPage, tableVars, callVars, chatVars
<1>12. ASSUME PageDone PROVE ShareInv'
  BY <1>12, <1>t, <1>l DEF PageDone, Leaves, Goes, Ended, tableVars, callVars, chatVars
<1>13. ASSUME ClearCache PROVE ShareInv'
  <2>1. /\ step[Seq] = "table" /\ step' = [step EXCEPT ![Seq] = "idle"] /\ UNCHANGED inst
        /\ cleared' = (cleared \/ \E t \in Chats : step[t] \in Inside)
    BY <1>13 DEF ClearCache, Goes
  <2>2. step[Proc] \in {"idle", "done"}
    BY <2>1 DEF PageInv
  <2>3. \A t \in Callers : step'[t] \in Inside => t \in Chats /\ step[t] \in Inside
    BY <1>t, <2>1, <2>2 DEF Callers
  <2> QED
    BY <2>1, <2>3
<1>14. ASSUME LuaRestart PROVE ShareInv'
  BY <1>14, <1>t, <1>l DEF LuaRestart, Ended, tableVars, callVars, chatVars
<1>15. CASE UNCHANGED luaVars
  BY <1>15, <1>t, <1>l DEF luaVars, tableVars, callVars, chatVars
<1> HIDE DEF ShareInv, Inside, InSetup
<1> QED
  BY <1>1, <1>2, <1>3, <1>4, <1>5, <1>6, <1>7, <1>8, <1>9, <1>10, <1>11,
     <1>12, <1>13, <1>14, <1>15
  DEF LuaNext, Call, allVars

\* No chat writes between another's reading and writing.
LEMMA SaveStep ==
    LuaTypeOK /\ RunInv /\ ShareInv /\ SaveInv /\ [LuaNext]_allVars => SaveInv'
<1> SUFFICES ASSUME LuaTypeOK, RunInv, ShareInv, SaveInv, [LuaNext]_allVars
             PROVE  SaveInv'
  OBVIOUS
<1>t. /\ step = [t \in Callers |-> step[t]] /\ inst = [t \in Callers |-> inst[t]]
      /\ table = [k \in Levels |-> table[k]] /\ draft = [t \in Chats |-> draft[t]]
      /\ made \in Nat
      /\ \A k \in Levels : table[k] \in 0 .. made
      /\ \A t \in Callers : InSetup(t) => lock = t
  BY LuaShape
<1>l. \A t \in Callers : Level(t) \in Levels
  BY LevelType
<1> USE CallersAssumption, Threads DEF SaveInv, InSetup
<1>1. ASSUME NEW t \in Callers, Request(t) PROVE SaveInv'
  BY <1>1, <1>t DEF Request, Goes, tableVars, callVars, chatVars
<1>2. ASSUME NEW t \in Callers, Lookup(t) PROVE SaveInv'
  BY <1>2, <1>t DEF Lookup, Goes, tableVars, callVars, chatVars
<1>3. ASSUME NEW t \in Callers, LoadFile(t) PROVE SaveInv'
  BY <1>3, <1>t DEF LoadFile, tableVars, callVars, chatVars
<1>4. ASSUME NEW t \in Callers, ListFiles(t) PROVE SaveInv'
  BY <1>4, <1>t DEF ListFiles, Goes, tableVars, callVars, chatVars
<1>5. ASSUME NEW t \in Callers, SetUp(t) PROVE SaveInv'
  BY <1>5, <1>t DEF SetUp, Goes, tableVars, callVars, chatVars
<1>6. ASSUME NEW t \in Callers, LoadFails(t) PROVE SaveInv'
  BY <1>6, <1>t DEF LoadFails, Ended, Goes, tableVars, callVars, chatVars
<1>7. ASSUME NEW t \in Callers, Enter(t) PROVE SaveInv'
  BY <1>7, <1>t DEF Enter, Goes, tableVars, callVars, chatVars
<1>8. ASSUME NEW t \in Callers, ScriptEnds(t) PROVE SaveInv'
  BY <1>8, <1>t DEF ScriptEnds, Leaves, Goes, Ended, tableVars, callVars, chatVars
<1>9. ASSUME NEW t \in Callers, ReadChatState(t) PROVE SaveInv'
  BY <1>9, <1>t DEF ReadChatState, Goes, tableVars, callVars, chatVars
<1>10. ASSUME NEW t \in Callers, WriteChatState(t) PROVE SaveInv'
  <2>1. /\ t \in Chats /\ step[t] = "save" /\ step' = [step EXCEPT ![t] = Ended(t)]
        /\ UNCHANGED <<draft, cleared>>
    BY <1>10 DEF WriteChatState, Leaves, Goes
  <2>2. Ended(t) # "save" /\ \A u \in Callers : u # t => step'[u] = step[u]
    BY <1>t, <2>1 DEF Ended
  <2>3. ~cleared => \A u \in Chats : u # t => step[u] # "save"
    <3> SUFFICES ASSUME ~cleared, NEW u \in Chats, step[u] = "save" PROVE u = t
      OBVIOUS
    <3>1. inst[u] = table["chat"] /\ inst[t] = table["chat"] /\ u \in Running /\ t \in Running
      BY <2>1, Threads DEF ShareInv, Inside, Running, Level
    <3> QED
      BY <3>1 DEF RunInv
  <2>4. step'[t] = Ended(t)
    BY <1>t, <2>1
  <2> QED
    BY <2>1, <2>2, <2>3, <2>4, Threads
<1>11. ASSUME SubmitPage PROVE SaveInv'
  BY <1>11, <1>t DEF SubmitPage, tableVars, callVars, chatVars
<1>12. ASSUME PageDone PROVE SaveInv'
  BY <1>12, <1>t DEF PageDone, Leaves, Goes, Ended, tableVars, callVars, chatVars
<1>13. ASSUME ClearCache PROVE SaveInv'
  <2>1. /\ step' = [step EXCEPT ![Seq] = "idle"] /\ UNCHANGED <<chatFile, draft>>
        /\ cleared => cleared'
    BY <1>13 DEF ClearCache, Goes
  <2> QED
    BY <1>t, <2>1
<1>14. ASSUME LuaRestart PROVE SaveInv'
  BY <1>14, <1>t DEF LuaRestart, Ended, tableVars, callVars, chatVars
<1>15. CASE UNCHANGED luaVars
  BY <1>15, <1>t DEF luaVars, tableVars, callVars, chatVars
<1> HIDE DEF SaveInv, InSetup
<1> QED
  BY <1>1, <1>2, <1>3, <1>4, <1>5, <1>6, <1>7, <1>8, <1>9, <1>10, <1>11,
     <1>12, <1>13, <1>14, <1>15
  DEF LuaNext, Call, allVars

\* Set-up goes on only with a file that is there, and files stay there.
LEMMA ReadyStep == LuaTypeOK /\ ReadyInv /\ [LuaNext]_allVars => ReadyInv'
<1> SUFFICES ASSUME LuaTypeOK, ReadyInv, [LuaNext]_allVars
             PROVE  ReadyInv'
  OBVIOUS
<1>t. /\ step = [t \in Callers |-> step[t]] /\ inst = [t \in Callers |-> inst[t]]
      /\ table = [k \in Levels |-> table[k]] /\ draft = [t \in Chats |-> draft[t]]
      /\ made \in Nat
      /\ \A k \in Levels : table[k] \in 0 .. made
      /\ \A t \in Callers : InSetup(t) => lock = t
  BY LuaShape
<1>l. \A t \in Callers : Level(t) \in Levels
  BY LevelType
<1>d. \A f \in Files : data[f] # "none" => data'[f] # "none"
  BY FilesStay, Underneath DEF LuaTypeOK
<1>f. Early \subseteq Files /\ Late \subseteq Files
  BY LoadedAssumption
<1>s. \A S \in SUBSET Files : There(S) => There(S)'
  BY <1>d DEF There
<1> USE CallersAssumption DEF ReadyInv, There, Inside, InSetup
<1>1. ASSUME NEW t \in Callers, Request(t) PROVE ReadyInv'
  BY <1>1, <1>t, <1>l, <1>d, <1>f DEF Request, Goes, tableVars, callVars, chatVars
<1>2. ASSUME NEW t \in Callers, Lookup(t) PROVE ReadyInv'
  BY <1>2, <1>t, <1>l, <1>d, <1>f DEF Lookup, Goes, tableVars, callVars, chatVars
<1>3. ASSUME NEW t \in Callers, LoadFile(t) PROVE ReadyInv'
  BY <1>3, <1>t, <1>l, <1>d, <1>f DEF LoadFile, tableVars, callVars, chatVars
<1>4. ASSUME NEW t \in Callers, ListFiles(t) PROVE ReadyInv'
  BY <1>4, <1>t, <1>l, <1>d, <1>f DEF ListFiles, Goes, tableVars, callVars, chatVars
<1>5. ASSUME NEW t \in Callers, SetUp(t) PROVE ReadyInv'
  BY <1>5, <1>t, <1>l, <1>d, <1>f DEF SetUp, Goes, tableVars, callVars, chatVars
<1>6. ASSUME NEW t \in Callers, LoadFails(t) PROVE ReadyInv'
  BY <1>6, <1>t, <1>l, <1>d, <1>f DEF LoadFails, Ended, Goes, tableVars, callVars, chatVars
<1>7. ASSUME NEW t \in Callers, Enter(t) PROVE ReadyInv'
  BY <1>7, <1>t, <1>l, <1>d, <1>f DEF Enter, Goes, tableVars, callVars, chatVars
<1>8. ASSUME NEW t \in Callers, ScriptEnds(t) PROVE ReadyInv'
  BY <1>8, <1>t, <1>l, <1>d, <1>f DEF ScriptEnds, Leaves, Goes, Ended, tableVars, callVars, chatVars
<1>9. ASSUME NEW t \in Callers, ReadChatState(t) PROVE ReadyInv'
  BY <1>9, <1>t, <1>l, <1>d, <1>f DEF ReadChatState, Goes, tableVars, callVars, chatVars
<1>10. ASSUME NEW t \in Callers, WriteChatState(t) PROVE ReadyInv'
  BY <1>10, <1>t, <1>l, <1>d, <1>f DEF WriteChatState, Leaves, Goes, Ended, tableVars, callVars, chatVars
<1>11. ASSUME SubmitPage PROVE ReadyInv'
  BY <1>11, <1>t, <1>l, <1>d, <1>f DEF SubmitPage, tableVars, callVars, chatVars
<1>12. ASSUME PageDone PROVE ReadyInv'
  BY <1>12, <1>t, <1>l, <1>d, <1>f DEF PageDone, Leaves, Goes, Ended, tableVars, callVars, chatVars
<1>13. ASSUME ClearCache PROVE ReadyInv'
  BY <1>13, <1>t, <1>l, <1>d, <1>f DEF ClearCache, Goes, tableVars, callVars, chatVars
<1>14. ASSUME LuaRestart PROVE ReadyInv'
  BY <1>14, <1>t, <1>l, <1>d, <1>f DEF LuaRestart, Ended, tableVars, callVars, chatVars
<1>15. CASE UNCHANGED luaVars
  BY <1>15, <1>t, <1>l, <1>d, <1>f DEF luaVars, tableVars, callVars, chatVars
<1> HIDE DEF ReadyInv, There, Inside, InSetup
<1> QED
  BY <1>1, <1>2, <1>3, <1>4, <1>5, <1>6, <1>7, <1>8, <1>9, <1>10, <1>11,
     <1>12, <1>13, <1>14, <1>15
  DEF LuaNext, Call, allVars

-----------------------------------------------------------------------------
(* The theorems about LuaInstances.                                         *)

LInv ==
    /\ LuaTypeOK /\ SetupInv /\ PageInv /\ RunInv /\ ShareInv /\ SaveInv /\ ReadyInv

\* The inductive invariant: types, the table and its lock, the interpreters, the
\* chats' file, and the data files that have been loaded.
THEOREM LuaInvariance == LuaSpec => []LInv
<1>1. Init /\ LuaInit => LInv
  BY LuaTypeInit, CallInit DEF LInv
<1>2. LInv /\ [LuaNext]_allVars => LInv'
  BY LuaTypeStep, SetupStep, PageStep, RunStep, ShareStep, SaveStep, ReadyStep DEF LInv
<1> QED
  BY <1>1, <1>2, PTL DEF LuaSpec

\* A script runs only after the data files it cannot do without have been made, in the
\* interpreter that is in the table (get_lua_instance_for_code, load_datafile).
THEOREM ReadyScripts == LuaSpec => []ScriptsReady
<1>1. LInv => ScriptsReady
  BY DEF LInv, ReadyInv, ShareInv, ScriptsReady, There
<1> QED
  BY LuaInvariance, <1>1, PTL

\* What a chat script has stored stays stored, unless the script cache was cleared
\* with a chat at work: chats enter the one interpreter one by one.
THEOREM ChatsKept == LuaSpec => ChatStateKept
<1>1. LInv /\ [LuaNext]_allVars => [chatFile \subseteq chatFile' \/ cleared]_allVars
  <2> SUFFICES ASSUME LInv, LuaNext PROVE chatFile \subseteq chatFile' \/ cleared
    OBVIOUS
  <2>1. ASSUME NEW t \in Callers, WriteChatState(t) PROVE chatFile \subseteq chatFile' \/ cleared
    BY <2>1 DEF WriteChatState, LInv, SaveInv
  <2>2. UNCHANGED chatFile \/ \E t \in Callers : WriteChatState(t)
    BY DEF LuaNext, Request, Call, Lookup, LoadFile, ListFiles, SetUp, LoadFails, Enter, ScriptEnds,
           ReadChatState, SubmitPage, PageDone, ClearCache, LuaRestart, luaVars, chatVars
  <2> QED
    BY <2>1, <2>2
<1> QED
  BY LuaInvariance, <1>1, PTL DEF LuaSpec, ChatStateKept
================================================================================
