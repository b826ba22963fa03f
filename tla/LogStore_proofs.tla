---------------------------- MODULE LogStore_proofs ----------------------------
(***************************************************************************)
(* Proofs about LogStore, for any number of pages, of logins and of looks  *)
(* at the log, and whatever fails: no entry is lost, and the browser is    *)
(* shown a whole log.                                                      *)
(***************************************************************************)
EXTENDS LogStore, SequenceTheorems, TLAPS

-----------------------------------------------------------------------------
(* The parts of the inductive invariant.                                    *)

\* One thread writes the compressed file; who removes the log has one.
WriterInv ==
    /\ \A c, d \in Compressors : Writing(c) /\ Writing(d) => c = d
    /\ \A c \in Compressors : pc[c] = "remove" => copy # None

\* The compressed file the browser looks at is there.
LookInv == pc[Show] = "copy" => copy # None

\* A log that is not there has not been begun, or has been compressed: that one's
\* database may still be open.
GoneInv ==
    /\ writer # "none" /\ ~attached => copy # None
    /\ log = None => copy # None \/ (writer = "none" /\ saved = {} /\ filed = {})

\* If one thread compresses the log, and nothing is written to it later, the
\* compressed file is whole once it has been written, and equal to the log when
\* the log is removed.
WholeInv ==
    odd = {} => \A c \in Compressors :
        /\ Writing(c) => ~copy.whole
        /\ pc[c] \in {"reread", "compare", "remove"} => copy.whole
        /\ pc[c] = "remove" => log \in {None, copy.pages}

\* Nothing that was inserted is lost.
KeptInv ==
    odd = {} => /\ saved \subseteq PagesOf(log) \cup wal \cup PagesOfCopy
                /\ filed \subseteq PagesOf(log) \cup PagesOfCopy

\* If nothing is written to the log once it is being compressed, whatever has been
\* in the log's file is in it, in what has been read of it and in a compressed
\* file that is whole.
FiledInv ==
    "late" \notin odd =>
        /\ log # None => filed \subseteq log
        /\ \A c \in Compressors : data[c] # None => filed \subseteq data[c]
        /\ copy # None => (copy.whole => filed \subseteq copy.pages)

-----------------------------------------------------------------------------
(* Facts the proofs share.                                                  *)

\* A file is not nothing.
LEMMA Files ==
    /\ {} \in File /\ \A P \in File : P # None
    /\ \A P, Q \in File : P \cup Q \in File
    /\ \A P \in File, p \in Pages : P \cup {p} \in File
    /\ \A P, Q \in File, p \in Pages : P \cup (Q \cup {p}) \in File
BY NamesAreDistinct DEF File

LEMMA Copies ==
    /\ \A file \in Copy : file # None /\ file.whole \in BOOLEAN /\ file.pages \in File
    /\ \A w \in BOOLEAN, P \in File : [whole |-> w, pages |-> P] \in Copy
BY NamesAreDistinct DEF Copy

\* Threads of different kinds do not meet.
LEMMA Threads ==
    /\ Show \notin Compressors /\ Show \in Thread
    /\ \A c \in Compressors : c \in Thread /\ c # Show /\ c \notin Pages
    /\ \A p \in Pages : p \in Thread /\ p \notin Compressors /\ p # Show
BY NamesAreDistinct DEF Thread

-----------------------------------------------------------------------------
(* Types.                                                                   *)

\* The initial state has the types.
LEMMA TypeInit == Init => TypeOK
<1> SUFFICES ASSUME Init PROVE TypeOK
  OBVIOUS
<1>1. chan \in Seq(Entry)
  BY DEF Init
<1>2. \A c \in Compressors : pc[c] = "idle"
  BY Threads DEF Init
<1>3. /\ ascended \in BOOLEAN /\ writer \in {"none", "running", "dead"}
      /\ attached \in BOOLEAN /\ (attached => log # None /\ writer # "none")
      /\ log \in File \cup {None} /\ wal \in File
      /\ copy \in Copy \cup {None}
  BY Files DEF Init
<1>4. /\ pc \in [Thread -> {"idle", "log", "check", "read", "open", "write", "reread",
                            "compare", "remove", "copy", "plain", "done"}]
      /\ data \in [Compressors -> File \cup {None}]
  BY DEF Init
<1> QED
  BY <1>1, <1>2, <1>3, <1>4 DEF TypeOK

\* Every step keeps the types.
LEMMA TypeStep == TypeOK /\ [Next]_vars => TypeOK'
<1> SUFFICES ASSUME TypeOK, [Next]_vars PROVE TypeOK'
  OBVIOUS
<1> USE Files, Copies, Threads DEF TypeOK
<1>1. ASSUME NEW p \in Pages, ChooseLog(p) PROVE TypeOK'
  BY <1>1 DEF ChooseLog, Goto, logVars, copyVars, historyVars
<1>2. ASSUME NEW p \in Pages, SendEntry(p) PROVE TypeOK'
  <2>1. PICK state \in BOOLEAN : chan' = Append(chan, [page |-> p, state |-> state])
    BY <1>2 DEF SendEntry
  <2>2. [page |-> p, state |-> state] \in Entry
    BY DEF Entry
  <2>3. chan' \in Seq(Entry)
    BY <2>1, <2>2, AppendProperties
  <2>4. UNCHANGED <<ascended, copy, data>> /\ Goto(p, "done")
    BY <1>2 DEF SendEntry, copyVars
  <2>5. CASE writer = "none"
    <3>1. /\ attached' = TRUE /\ writer' = "running"
          /\ log' = IF log = None THEN {} ELSE log
          /\ wal' = IF log = None THEN {} ELSE wal
      BY <1>2, <2>5 DEF SendEntry
    <3> QED
      BY <2>3, <2>4, <3>1 DEF Goto
  <2>6. CASE writer # "none"
    <3>1. UNCHANGED <<writer, attached, log, wal>>
      BY <1>2, <2>6 DEF SendEntry, logVars
    <3> QED
      BY <2>3, <2>4, <3>1 DEF Goto
  <2> QED
    BY <2>5, <2>6
<1>3. ASSUME NEW p \in Pages, OpenFails(p) PROVE TypeOK'
  BY <1>3 DEF OpenFails, Goto, logVars, copyVars, historyVars
<1>4. ASSUME WriteEntry PROVE TypeOK'
  <2>1. /\ chan # <<>> /\ chan' = Tail(chan) /\ chan' \in Seq(Entry)
        /\ Head(chan) \in Entry /\ Head(chan).page \in Pages
    <3>1. chan # <<>> /\ chan' = Tail(chan)
      BY <1>4 DEF WriteEntry
    <3>2. Head(chan) \in Entry /\ Tail(chan) \in Seq(Entry)
      BY <3>1, HeadTailProperties
    <3> QED
      BY <3>1, <3>2 DEF Entry
  <2>2. UNCHANGED <<ascended, pc, writer, attached, copy, data>>
    BY <1>4 DEF WriteEntry, copyVars
  <2>3. /\ wal' \in {wal \cup {Head(chan).page}, {}}
        /\ log' = log \/ (attached /\ log' = log \cup (wal \cup {Head(chan).page}))
    BY <1>4 DEF WriteEntry, Checkpoint
  <2>4. wal' \in File /\ wal \cup {Head(chan).page} \in File
    <3>1. wal \cup {Head(chan).page} \in File
      BY <2>1
    <3> QED
      BY <2>3, <3>1
  <2>5. log' \in File \cup {None} /\ (attached => log' # None)
    <3>1. CASE log' = log
      BY <3>1
    <3>2. CASE attached /\ log' = log \cup (wal \cup {Head(chan).page})
      <4>1. log' \in File
        BY <2>4, <3>2
      <4> QED
        BY <4>1
    <3> QED
      BY <2>3, <3>1, <3>2
  <2> QED
    BY <2>1, <2>2, <2>4, <2>5
<1>5. ASSUME WriterDies PROVE TypeOK'
  BY <1>5 DEF WriterDies, Goto, logVars, copyVars, historyVars
<1>6. ASSUME NEW c \in Compressors, Login(c) PROVE TypeOK'
  BY <1>6 DEF Login, Goto, logVars, copyVars, historyVars
<1>7. ASSUME NEW c \in Compressors, CheckFiles(c) PROVE TypeOK'
  BY <1>7 DEF CheckFiles, Goto, logVars, copyVars, historyVars
<1>8. ASSUME NEW c \in Compressors, ReadLog(c) PROVE TypeOK'
  BY <1>8 DEF ReadLog, Goto, logVars, copyVars, historyVars
<1>9. ASSUME NEW c \in Compressors, OpenCopy(c) PROVE TypeOK'
  <2>1. /\ copy' = copy \/ copy' = [whole |-> FALSE, pages |-> {}]
        /\ UNCHANGED <<ascended, chan, writer, attached, log, wal, data>>
    BY <1>9 DEF OpenCopy, logVars
  <2>2. copy' \in Copy \cup {None} /\ (copy # None => copy' # None)
    BY <2>1
  <2>3. \/ Goto(c, "done")
        \/ Goto(c, "write") /\ copy' = [whole |-> FALSE, pages |-> {}] /\ pc[c] = "open"
    BY <1>9 DEF OpenCopy
  <2>4. CASE Goto(c, "done")
    BY <2>1, <2>2, <2>4 DEF Goto
  <2>5. CASE Goto(c, "write") /\ copy' = [whole |-> FALSE, pages |-> {}] /\ pc[c] = "open"
    <3>1. copy' # None
      BY <2>5
    <3> QED
      BY <2>1, <2>2, <2>5, <3>1 DEF Goto
  <2> QED
    BY <2>3, <2>4, <2>5
<1>10. ASSUME NEW c \in Compressors, WriteCopy(c) PROVE TypeOK'
  <2>1. data[c] \in File
    BY <1>10 DEF WriteCopy
  <2>2. copy' \in Copy /\ copy' # None
    BY <1>10, <2>1 DEF WriteCopy
  <2>3. UNCHANGED <<ascended, chan, writer, attached, log, wal, data>> /\ Goto(c, "reread")
    BY <1>10 DEF WriteCopy, logVars
  <2> QED
    BY <2>2, <2>3 DEF Goto
<1>11. ASSUME NEW c \in Compressors, WriteFails(c) PROVE TypeOK'
  BY <1>11 DEF WriteFails, Goto, logVars, copyVars, historyVars
<1>12. ASSUME NEW c \in Compressors, Reread(c) PROVE TypeOK'
  BY <1>12 DEF Reread, Goto, logVars, copyVars, historyVars
<1>13. ASSUME NEW c \in Compressors, Compare(c) PROVE TypeOK'
  BY <1>13 DEF Compare, Goto, logVars, copyVars, historyVars
<1>14. ASSUME NEW c \in Compressors, RemoveLog(c) PROVE TypeOK'
  <2>1. UNCHANGED <<ascended, chan, writer, wal, copy, data>> /\ Goto(c, "done")
    BY <1>14 DEF RemoveLog, copyVars
  <2>2. log' = None /\ attached' = FALSE
    BY <1>14 DEF RemoveLog
  <2> QED
    BY <2>1, <2>2 DEF Goto
<1>15. ASSUME PickFile PROVE TypeOK'
  BY <1>15 DEF PickFile, Goto, logVars, copyVars, historyVars
<1>16. ASSUME ShowFails PROVE TypeOK'
  BY <1>16 DEF ShowFails, Goto, logVars, copyVars, historyVars
<1>17. ASSUME NEW P \in File, ShowCopy(P) PROVE TypeOK'
  BY <1>17 DEF ShowCopy, Goto, logVars, copyVars, historyVars
<1>18. ASSUME NEW P \in File, ShowPlain(P) PROVE TypeOK'
  BY <1>18 DEF ShowPlain, Goto, logVars, copyVars, historyVars
<1>19. ASSUME Ascend PROVE TypeOK'
  BY <1>19 DEF Ascend, Goto, logVars, copyVars, historyVars
<1>20. ASSUME Crash PROVE TypeOK'
  <2>1. chan' \in Seq(Entry) /\ writer' = "none" /\ attached' = FALSE
    BY <1>20 DEF Crash
  <2>2. /\ data' = [c \in Compressors |-> None] /\ UNCHANGED <<ascended, log, wal, copy>>
        /\ pc' = [t \in Thread |->
                     IF pc[t] = "idle" \/ t = Show THEN "idle" ELSE "done"]
    BY <1>20 DEF Crash
  <2>3. \A c \in Compressors : pc'[c] \in {"idle", "done"}
    BY <2>2
  <2>4. pc' \in [Thread -> {"idle", "log", "check", "read", "open", "write", "reread",
                            "compare", "remove", "copy", "plain", "done"}]
    BY <2>2
  <2> QED
    BY <2>1, <2>2, <2>3, <2>4
<1>21. ASSUME Rest PROVE TypeOK'
  BY <1>21 DEF Rest, vars, logVars, copyVars, historyVars
<1>22. CASE UNCHANGED vars
  BY <1>22 DEF vars, logVars, copyVars, historyVars
<1> HIDE DEF TypeOK
<1> QED
  BY <1>1, <1>2, <1>3, <1>4, <1>5, <1>6, <1>7, <1>8, <1>9, <1>10, <1>11,
     <1>12, <1>13, <1>14, <1>15, <1>16, <1>17, <1>18, <1>19, <1>20, <1>21,
     <1>22
  DEF Next, LogPage, Compress, ShowLogs

-----------------------------------------------------------------------------
(* Who has which file.                                                      *)

\* One thread writes the compressed file.
LEMMA WriterStep == TypeOK /\ WriterInv /\ [Next]_vars => WriterInv'
<1> SUFFICES ASSUME TypeOK, WriterInv, [Next]_vars PROVE WriterInv'
  OBVIOUS
<1> USE Files, Copies, Threads DEF TypeOK, WriterInv, Writing
<1>1. ASSUME NEW p \in Pages, ChooseLog(p) PROVE WriterInv'
  BY <1>1 DEF ChooseLog, Goto, logVars, copyVars, historyVars
<1>2. ASSUME NEW p \in Pages, SendEntry(p) PROVE WriterInv'
  BY <1>2 DEF SendEntry, Goto, logVars, copyVars, historyVars
<1>3. ASSUME NEW p \in Pages, OpenFails(p) PROVE WriterInv'
  BY <1>3 DEF OpenFails, Goto, logVars, copyVars, historyVars
<1>4. ASSUME WriteEntry PROVE WriterInv'
  BY <1>4 DEF WriteEntry, Checkpoint, logVars, copyVars, historyVars
<1>5. ASSUME WriterDies PROVE WriterInv'
  BY <1>5 DEF WriterDies, Goto, logVars, copyVars, historyVars
<1>6. ASSUME NEW c \in Compressors, Login(c) PROVE WriterInv'
  BY <1>6 DEF Login, Goto, logVars, copyVars, historyVars
<1>7. ASSUME NEW c \in Compressors, CheckFiles(c) PROVE WriterInv'
  BY <1>7 DEF CheckFiles, Goto, logVars, copyVars, historyVars
<1>8. ASSUME NEW c \in Compressors, ReadLog(c) PROVE WriterInv'
  BY <1>8 DEF ReadLog, Goto, logVars, copyVars, historyVars
<1>9. ASSUME NEW c \in Compressors, OpenCopy(c) PROVE WriterInv'
  <2>1. /\ copy' = copy \/ copy' = [whole |-> FALSE, pages |-> {}]
        /\ \A d \in Compressors : d # c => pc'[d] = pc[d]
        /\ pc'[c] \in {"done", "write"}
    BY <1>9 DEF OpenCopy, Goto
  <2>2. copy # None => copy' # None
    BY <2>1
  <2>3. pc'[c] = "write" => \A d \in Compressors : pc[d] # "write"
    <3>1. CASE Goto(c, "done")
      BY <3>1 DEF Goto
    <3>2. CASE Goto(c, "write")
      BY <1>9, <3>2 DEF OpenCopy, Goto
    <3> QED
      BY <1>9, <3>1, <3>2 DEF OpenCopy
  <2> QED
    BY <2>1, <2>2, <2>3
<1>10. ASSUME NEW c \in Compressors, WriteCopy(c) PROVE WriterInv'
  <2>1. data[c] \in File
    BY <1>10 DEF WriteCopy
  <2>2. copy' # None
    BY <1>10, <2>1 DEF WriteCopy
  <2>3. pc'[c] = "reread" /\ \A d \in Compressors : d # c => pc'[d] = pc[d]
    BY <1>10 DEF WriteCopy, Goto
  <2> QED
    BY <2>2, <2>3
<1>11. ASSUME NEW c \in Compressors, WriteFails(c) PROVE WriterInv'
  BY <1>11 DEF WriteFails, Goto, logVars, copyVars, historyVars
<1>12. ASSUME NEW c \in Compressors, Reread(c) PROVE WriterInv'
  BY <1>12 DEF Reread, Goto, logVars, copyVars, historyVars
<1>13. ASSUME NEW c \in Compressors, Compare(c) PROVE WriterInv'
  BY <1>13 DEF Compare, Goto, logVars, copyVars, historyVars
<1>14. ASSUME NEW c \in Compressors, RemoveLog(c) PROVE WriterInv'
  BY <1>14 DEF RemoveLog, Goto, logVars, copyVars, historyVars
<1>15. ASSUME PickFile PROVE WriterInv'
  BY <1>15 DEF PickFile, Goto, logVars, copyVars, historyVars
<1>16. ASSUME ShowFails PROVE WriterInv'
  BY <1>16 DEF ShowFails, Goto, logVars, copyVars, historyVars
<1>17. ASSUME NEW P \in File, ShowCopy(P) PROVE WriterInv'
  BY <1>17 DEF ShowCopy, Goto, logVars, copyVars, historyVars
<1>18. ASSUME NEW P \in File, ShowPlain(P) PROVE WriterInv'
  BY <1>18 DEF ShowPlain, Goto, logVars, copyVars, historyVars
<1>19. ASSUME Ascend PROVE WriterInv'
  BY <1>19 DEF Ascend, Goto, logVars, copyVars, historyVars
<1>20. ASSUME Crash PROVE WriterInv'
  BY <1>20 DEF Crash, Goto, logVars, copyVars, historyVars
<1>21. ASSUME Rest PROVE WriterInv'
  BY <1>21 DEF Rest, vars, logVars, copyVars, historyVars
<1>22. CASE UNCHANGED vars
  BY <1>22 DEF vars, logVars, copyVars, historyVars
<1> HIDE DEF TypeOK, WriterInv, Writing
<1> QED
  BY <1>1, <1>2, <1>3, <1>4, <1>5, <1>6, <1>7, <1>8, <1>9, <1>10, <1>11,
     <1>12, <1>13, <1>14, <1>15, <1>16, <1>17, <1>18, <1>19, <1>20, <1>21,
     <1>22
  DEF Next, LogPage, Compress, ShowLogs

\* A compressed file stays.
LEMMA LookStep == TypeOK /\ LookInv /\ [Next]_vars => LookInv'
<1> SUFFICES ASSUME TypeOK, LookInv, [Next]_vars PROVE LookInv'
  OBVIOUS
<1> USE Files, Copies, Threads DEF TypeOK, LookInv
<1>1. ASSUME NEW p \in Pages, ChooseLog(p) PROVE LookInv'
  BY <1>1 DEF ChooseLog, Goto, logVars, copyVars, historyVars
<1>2. ASSUME NEW p \in Pages, SendEntry(p) PROVE LookInv'
  BY <1>2 DEF SendEntry, Goto, logVars, copyVars, historyVars
<1>3. ASSUME NEW p \in Pages, OpenFails(p) PROVE LookInv'
  BY <1>3 DEF OpenFails, Goto, logVars, copyVars, historyVars
<1>4. ASSUME WriteEntry PROVE LookInv'
  BY <1>4 DEF WriteEntry, Checkpoint, logVars, copyVars, historyVars
<1>5. ASSUME WriterDies PROVE LookInv'
  BY <1>5 DEF WriterDies, Goto, logVars, copyVars, historyVars
<1>6. ASSUME NEW c \in Compressors, Login(c) PROVE LookInv'
  BY <1>6 DEF Login, Goto, logVars, copyVars, historyVars
<1>7. ASSUME NEW c \in Compressors, CheckFiles(c) PROVE LookInv'
  BY <1>7 DEF CheckFiles, Goto, logVars, copyVars, historyVars
<1>8. ASSUME NEW c \in Compressors, ReadLog(c) PROVE LookInv'
  BY <1>8 DEF ReadLog, Goto, logVars, copyVars, historyVars
<1>9. ASSUME NEW c \in Compressors, OpenCopy(c) PROVE LookInv'
  BY <1>9 DEF OpenCopy, Goto, logVars, copyVars, historyVars
<1>10. ASSUME NEW c \in Compressors, WriteCopy(c) PROVE LookInv'
  <2>1. data[c] \in File
    BY <1>10 DEF WriteCopy
  <2>2. copy' # None
    BY <1>10, <2>1 DEF WriteCopy
  <2>3. pc'[Show] = pc[Show]
    BY <1>10 DEF WriteCopy, Goto
  <2> QED
    BY <2>2, <2>3
<1>11. ASSUME NEW c \in Compressors, WriteFails(c) PROVE LookInv'
  BY <1>11 DEF WriteFails, Goto, logVars, copyVars, historyVars
<1>12. ASSUME NEW c \in Compressors, Reread(c) PROVE LookInv'
  BY <1>12 DEF Reread, Goto, logVars, copyVars, historyVars
<1>13. ASSUME NEW c \in Compressors, Compare(c) PROVE LookInv'
  BY <1>13 DEF Compare, Goto, logVars, copyVars, historyVars
<1>14. ASSUME NEW c \in Compressors, RemoveLog(c) PROVE LookInv'
  BY <1>14 DEF RemoveLog, Goto, logVars, copyVars, historyVars
<1>15. ASSUME PickFile PROVE LookInv'
  BY <1>15 DEF PickFile, Goto, logVars, copyVars, historyVars
<1>16. ASSUME ShowFails PROVE LookInv'
  BY <1>16 DEF ShowFails, Goto, logVars, copyVars, historyVars
<1>17. ASSUME NEW P \in File, ShowCopy(P) PROVE LookInv'
  BY <1>17 DEF ShowCopy, Goto, logVars, copyVars, historyVars
<1>18. ASSUME NEW P \in File, ShowPlain(P) PROVE LookInv'
  BY <1>18 DEF ShowPlain, Goto, logVars, copyVars, historyVars
<1>19. ASSUME Ascend PROVE LookInv'
  BY <1>19 DEF Ascend, Goto, logVars, copyVars, historyVars
<1>20. ASSUME Crash PROVE LookInv'
  BY <1>20 DEF Crash, Goto, logVars, copyVars, historyVars
<1>21. ASSUME Rest PROVE LookInv'
  BY <1>21 DEF Rest, vars, logVars, copyVars, historyVars
<1>22. CASE UNCHANGED vars
  BY <1>22 DEF vars, logVars, copyVars, historyVars
<1> HIDE DEF TypeOK, LookInv
<1> QED
  BY <1>1, <1>2, <1>3, <1>4, <1>5, <1>6, <1>7, <1>8, <1>9, <1>10, <1>11,
     <1>12, <1>13, <1>14, <1>15, <1>16, <1>17, <1>18, <1>19, <1>20, <1>21,
     <1>22
  DEF Next, LogPage, Compress, ShowLogs

\* A log that is not there has not been begun, or has been compressed.
LEMMA GoneStep == TypeOK /\ WriterInv /\ GoneInv /\ [Next]_vars => GoneInv'
<1> SUFFICES ASSUME TypeOK, WriterInv, GoneInv, [Next]_vars PROVE GoneInv'
  OBVIOUS
<1> USE Files, Copies, Threads DEF TypeOK, WriterInv, GoneInv
<1>1. ASSUME NEW p \in Pages, ChooseLog(p) PROVE GoneInv'
  BY <1>1 DEF ChooseLog, Goto, logVars, copyVars, historyVars
<1>2. ASSUME NEW p \in Pages, SendEntry(p) PROVE GoneInv'
  BY <1>2 DEF SendEntry, Goto, logVars, copyVars, historyVars
<1>3. ASSUME NEW p \in Pages, OpenFails(p) PROVE GoneInv'
  BY <1>3 DEF OpenFails, Goto, logVars, copyVars, historyVars
<1>4. ASSUME WriteEntry PROVE GoneInv'
  <2>1. UNCHANGED <<writer, attached, copy>> /\ writer = "running"
    BY <1>4 DEF WriteEntry, copyVars
  <2>2. log' = None => copy # None
    <3>1. log' = log \/ attached
      BY <1>4 DEF WriteEntry, Checkpoint
    <3>2. ~attached => copy # None
      BY <2>1
    <3>3. log = None => ~attached
      BY <2>1
    <3>4. CASE attached
      <4>1. /\ log \in File /\ wal \in File
            /\ Head(chan).page \in Pages
        <5>1. chan # <<>> /\ Head(chan) \in Entry
          BY <1>4, HeadTailProperties DEF WriteEntry
        <5> QED
          BY <3>3, <3>4, <5>1 DEF Entry
      <4>2. log' = log \/ log' = log \cup (wal \cup {Head(chan).page})
        BY <1>4 DEF WriteEntry, Checkpoint
      <4>3. log' \in File
        BY <4>1, <4>2
      <4> QED
        BY <4>3
    <3> QED
      BY <3>1, <3>2, <3>4
  <2> QED
    BY <2>1, <2>2
<1>5. ASSUME WriterDies PROVE GoneInv'
  BY <1>5 DEF WriterDies, Goto, logVars, copyVars, historyVars
<1>6. ASSUME NEW c \in Compressors, Login(c) PROVE GoneInv'
  BY <1>6 DEF Login, Goto, logVars, copyVars, historyVars
<1>7. ASSUME NEW c \in Compressors, CheckFiles(c) PROVE GoneInv'
  BY <1>7 DEF CheckFiles, Goto, logVars, copyVars, historyVars
<1>8. ASSUME NEW c \in Compressors, ReadLog(c) PROVE GoneInv'
  BY <1>8 DEF ReadLog, Goto, logVars, copyVars, historyVars
<1>9. ASSUME NEW c \in Compressors, OpenCopy(c) PROVE GoneInv'
  BY <1>9 DEF OpenCopy, Goto, logVars, copyVars, historyVars
<1>10. ASSUME NEW c \in Compressors, WriteCopy(c) PROVE GoneInv'
  <2>1. data[c] \in File
    BY <1>10 DEF WriteCopy
  <2>2. copy' # None
    BY <1>10, <2>1 DEF WriteCopy
  <2> QED
    BY <1>10, <2>2 DEF WriteCopy, logVars, historyVars
<1>11. ASSUME NEW c \in Compressors, WriteFails(c) PROVE GoneInv'
  BY <1>11 DEF WriteFails, Goto, logVars, copyVars, historyVars
<1>12. ASSUME NEW c \in Compressors, Reread(c) PROVE GoneInv'
  BY <1>12 DEF Reread, Goto, logVars, copyVars, historyVars
<1>13. ASSUME NEW c \in Compressors, Compare(c) PROVE GoneInv'
  BY <1>13 DEF Compare, Goto, logVars, copyVars, historyVars
<1>14. ASSUME NEW c \in Compressors, RemoveLog(c) PROVE GoneInv'
  BY <1>14 DEF RemoveLog, Goto, logVars, copyVars, historyVars
<1>15. ASSUME PickFile PROVE GoneInv'
  BY <1>15 DEF PickFile, Goto, logVars, copyVars, historyVars
<1>16. ASSUME ShowFails PROVE GoneInv'
  BY <1>16 DEF ShowFails, Goto, logVars, copyVars, historyVars
<1>17. ASSUME NEW P \in File, ShowCopy(P) PROVE GoneInv'
  BY <1>17 DEF ShowCopy, Goto, logVars, copyVars, historyVars
<1>18. ASSUME NEW P \in File, ShowPlain(P) PROVE GoneInv'
  BY <1>18 DEF ShowPlain, Goto, logVars, copyVars, historyVars
<1>19. ASSUME Ascend PROVE GoneInv'
  BY <1>19 DEF Ascend, Goto, logVars, copyVars, historyVars
<1>20. ASSUME Crash PROVE GoneInv'
  BY <1>20 DEF Crash, Goto, logVars, copyVars, historyVars
<1>21. ASSUME Rest PROVE GoneInv'
  BY <1>21 DEF Rest, vars, logVars, copyVars, historyVars
<1>22. CASE UNCHANGED vars
  BY <1>22 DEF vars, logVars, copyVars, historyVars
<1> HIDE DEF TypeOK, WriterInv, GoneInv
<1> QED
  BY <1>1, <1>2, <1>3, <1>4, <1>5, <1>6, <1>7, <1>8, <1>9, <1>10, <1>11,
     <1>12, <1>13, <1>14, <1>15, <1>16, <1>17, <1>18, <1>19, <1>20, <1>21,
     <1>22
  DEF Next, LogPage, Compress, ShowLogs

-----------------------------------------------------------------------------
(* Where the entries are.                                                   *)

\* The compressed file is whole, and equal to the log when that is removed.
LEMMA WholeStep == TypeOK /\ WriterInv /\ WholeInv /\ [Next]_vars => WholeInv'
<1> SUFFICES ASSUME TypeOK, WriterInv, WholeInv, [Next]_vars PROVE WholeInv'
  OBVIOUS
<1> USE Files, Copies, Threads DEF TypeOK, WriterInv, WholeInv, Writing
<1>1. ASSUME NEW p \in Pages, ChooseLog(p) PROVE WholeInv'
  BY <1>1 DEF ChooseLog, Goto, logVars, copyVars, historyVars
<1>2. ASSUME NEW p \in Pages, SendEntry(p) PROVE WholeInv'
  <2>1. UNCHANGED copy /\ pc' = [pc EXCEPT ![p] = "done"]
    BY <1>2 DEF SendEntry, Goto, copyVars
  <2>2. \A d \in Compressors : pc'[d] = pc[d]
    BY <2>1
  <2>3. odd' = {} => odd = {} /\ (log = None => copy = None \/ UNCHANGED log)
    BY <1>2 DEF SendEntry, logVars
  <2>4. log # None => UNCHANGED log
    BY <1>2 DEF SendEntry, logVars
  <2> QED
    BY <2>1, <2>2, <2>3, <2>4
<1>3. ASSUME NEW p \in Pages, OpenFails(p) PROVE WholeInv'
  BY <1>3 DEF OpenFails, Goto, logVars, copyVars, historyVars
<1>4. ASSUME WriteEntry PROVE WholeInv'
  BY <1>4 DEF WriteEntry, Checkpoint, logVars, copyVars, historyVars
<1>5. ASSUME WriterDies PROVE WholeInv'
  BY <1>5 DEF WriterDies, Goto, logVars, copyVars, historyVars
<1>6. ASSUME NEW c \in Compressors, Login(c) PROVE WholeInv'
  BY <1>6 DEF Login, Goto, logVars, copyVars, historyVars
<1>7. ASSUME NEW c \in Compressors, CheckFiles(c) PROVE WholeInv'
  BY <1>7 DEF CheckFiles, Goto, logVars, copyVars, historyVars
<1>8. ASSUME NEW c \in Compressors, ReadLog(c) PROVE WholeInv'
  BY <1>8 DEF ReadLog, Goto, logVars, copyVars, historyVars
<1>9. ASSUME NEW c \in Compressors, OpenCopy(c) PROVE WholeInv'
  BY <1>9 DEF OpenCopy, Goto, logVars, copyVars, historyVars
<1>10. ASSUME NEW c \in Compressors, WriteCopy(c) PROVE WholeInv'
  BY <1>10 DEF WriteCopy, Goto, logVars, copyVars, historyVars
<1>11. ASSUME NEW c \in Compressors, WriteFails(c) PROVE WholeInv'
  BY <1>11 DEF WriteFails, Goto, logVars, copyVars, historyVars
<1>12. ASSUME NEW c \in Compressors, Reread(c) PROVE WholeInv'
  BY <1>12 DEF Reread, Goto, logVars, copyVars, historyVars
<1>13. ASSUME NEW c \in Compressors, Compare(c) PROVE WholeInv'
  BY <1>13 DEF Compare, Goto, logVars, copyVars, historyVars
<1>14. ASSUME NEW c \in Compressors, RemoveLog(c) PROVE WholeInv'
  BY <1>14 DEF RemoveLog, Goto, logVars, copyVars, historyVars
<1>15. ASSUME PickFile PROVE WholeInv'
  BY <1>15 DEF PickFile, Goto, logVars, copyVars, historyVars
<1>16. ASSUME ShowFails PROVE WholeInv'
  BY <1>16 DEF ShowFails, Goto, logVars, copyVars, historyVars
<1>17. ASSUME NEW P \in File, ShowCopy(P) PROVE WholeInv'
  BY <1>17 DEF ShowCopy, Goto, logVars, copyVars, historyVars
<1>18. ASSUME NEW P \in File, ShowPlain(P) PROVE WholeInv'
  BY <1>18 DEF ShowPlain, Goto, logVars, copyVars, historyVars
<1>19. ASSUME Ascend PROVE WholeInv'
  BY <1>19 DEF Ascend, Goto, logVars, copyVars, historyVars
<1>20. ASSUME Crash PROVE WholeInv'
  BY <1>20 DEF Crash, Goto, logVars, copyVars, historyVars
<1>21. ASSUME Rest PROVE WholeInv'
  BY <1>21 DEF Rest, vars, logVars, copyVars, historyVars
<1>22. CASE UNCHANGED vars
  BY <1>22 DEF vars, logVars, copyVars, historyVars
<1> HIDE DEF TypeOK, WriterInv, WholeInv, Writing
<1> QED
  BY <1>1, <1>2, <1>3, <1>4, <1>5, <1>6, <1>7, <1>8, <1>9, <1>10, <1>11,
     <1>12, <1>13, <1>14, <1>15, <1>16, <1>17, <1>18, <1>19, <1>20, <1>21,
     <1>22
  DEF Next, LogPage, Compress, ShowLogs

\* Nothing that was inserted is lost.
LEMMA KeptStep ==
    TypeOK /\ WriterInv /\ GoneInv /\ WholeInv /\ KeptInv /\ [Next]_vars
        => KeptInv'
<1> SUFFICES ASSUME TypeOK, WriterInv, GoneInv, WholeInv, KeptInv, [Next]_vars
             PROVE  KeptInv'
  OBVIOUS
<1> USE Files, Copies, Threads DEF TypeOK, KeptInv, PagesOf, PagesOfCopy
<1>1. ASSUME NEW p \in Pages, ChooseLog(p) PROVE KeptInv'
  BY <1>1 DEF ChooseLog, Goto, logVars, copyVars, historyVars
<1>2. ASSUME NEW p \in Pages, SendEntry(p) PROVE KeptInv'
  <2>1. UNCHANGED <<copy, saved, filed>>
    BY <1>2 DEF SendEntry, copyVars
  <2>2. CASE log # None \/ writer # "none"
    <3>1. UNCHANGED <<log, wal, odd>>
      BY <1>2, <2>2 DEF SendEntry, logVars
    <3> QED
      BY <2>1, <3>1
  <2>3. CASE log = None /\ writer = "none"
    <3>1. odd' = {} => copy = None
      BY <1>2, <2>3 DEF SendEntry
    <3>2. copy = None => saved = {} /\ filed = {}
      BY <2>3 DEF GoneInv
    <3> QED
      BY <2>1, <3>1, <3>2
  <2> QED
    BY <2>2, <2>3
<1>3. ASSUME NEW p \in Pages, OpenFails(p) PROVE KeptInv'
  BY <1>3 DEF OpenFails, Goto, logVars, copyVars, historyVars
<1>4. ASSUME WriteEntry PROVE KeptInv'
  <2> DEFINE new == wal \cup {Head(chan).page}
  <2>1. saved' = saved \cup {Head(chan).page} /\ UNCHANGED copy /\ writer = "running"
    BY <1>4 DEF WriteEntry, copyVars
  <2>2. CASE wal' = new /\ UNCHANGED <<log, filed, odd>>
    BY <2>1, <2>2
  <2>3. CASE Checkpoint(new)
    <3>1. odd' = {} => odd = {} /\ copy = None
      BY <2>3 DEF Checkpoint
    <3>2. copy = None => attached /\ log # None
      BY <2>1 DEF GoneInv
    <3>3. ASSUME odd' = {}
          PROVE  /\ log \in File /\ saved \subseteq log \cup wal /\ filed \subseteq log
                 /\ log' = log \cup new /\ filed' = filed \cup new
      BY <2>3, <3>1, <3>2, <3>3 DEF Checkpoint
    <3>4. Head(chan).page \in Pages
      <4>1. chan # <<>>
        BY <1>4 DEF WriteEntry
      <4>2. Head(chan) \in Entry
        BY <4>1, HeadTailProperties
      <4> QED
        BY <4>2 DEF Entry
    <3>5. odd' = {} => log' # None
      <4>1. odd' = {} => log' \in File
        BY <3>3, <3>4, Files
      <4> QED
        BY <4>1
    <3> HIDE DEF new
    <3>6. new = wal \cup {Head(chan).page}
      BY DEF new
    <3>7. odd' = {} => saved' \subseteq log' /\ filed' \subseteq log'
      BY <2>1, <3>3, <3>6
    <3> QED
      BY <3>5, <3>7
  <2> QED
    BY <1>4, <2>2, <2>3 DEF WriteEntry
<1>5. ASSUME WriterDies PROVE KeptInv'
  BY <1>5 DEF WriterDies, Goto, logVars, copyVars, historyVars
<1>6. ASSUME NEW c \in Compressors, Login(c) PROVE KeptInv'
  BY <1>6 DEF Login, Goto, logVars, copyVars, historyVars
<1>7. ASSUME NEW c \in Compressors, CheckFiles(c) PROVE KeptInv'
  BY <1>7 DEF CheckFiles, Goto, logVars, copyVars, historyVars
<1>8. ASSUME NEW c \in Compressors, ReadLog(c) PROVE KeptInv'
  BY <1>8 DEF ReadLog, Goto, logVars, copyVars, historyVars
<1>9. ASSUME NEW c \in Compressors, OpenCopy(c) PROVE KeptInv'
  BY <1>9 DEF OpenCopy, Goto, logVars, copyVars, historyVars
<1>10. ASSUME NEW c \in Compressors, WriteCopy(c) PROVE KeptInv'
  <2>1. UNCHANGED <<log, wal, odd, saved, filed>> /\ pc[c] = "write"
    BY <1>10 DEF WriteCopy, logVars, historyVars
  <2>2. odd = {} => PagesOfCopy = {}
    BY <2>1 DEF WholeInv, Writing
  <2> QED
    BY <2>1, <2>2
<1>11. ASSUME NEW c \in Compressors, WriteFails(c) PROVE KeptInv'
  BY <1>11 DEF WriteFails, Goto, logVars, copyVars, historyVars
<1>12. ASSUME NEW c \in Compressors, Reread(c) PROVE KeptInv'
  BY <1>12 DEF Reread, Goto, logVars, copyVars, historyVars
<1>13. ASSUME NEW c \in Compressors, Compare(c) PROVE KeptInv'
  BY <1>13 DEF Compare, Goto, logVars, copyVars, historyVars
<1>14. ASSUME NEW c \in Compressors, RemoveLog(c) PROVE KeptInv'
  <2>1. /\ UNCHANGED <<wal, copy, odd, saved, filed>> /\ pc[c] = "remove"
        /\ log' = None
    BY <1>14 DEF RemoveLog, copyVars, historyVars
  <2>2. odd = {} => PagesOf(log) \subseteq PagesOfCopy
    BY <2>1 DEF WholeInv, WriterInv
  <2> QED
    BY <2>1, <2>2
<1>15. ASSUME PickFile PROVE KeptInv'
  BY <1>15 DEF PickFile, Goto, logVars, copyVars, historyVars
<1>16. ASSUME ShowFails PROVE KeptInv'
  BY <1>16 DEF ShowFails, Goto, logVars, copyVars, historyVars
<1>17. ASSUME NEW P \in File, ShowCopy(P) PROVE KeptInv'
  BY <1>17 DEF ShowCopy, Goto, logVars, copyVars, historyVars
<1>18. ASSUME NEW P \in File, ShowPlain(P) PROVE KeptInv'
  BY <1>18 DEF ShowPlain, Goto, logVars, copyVars, historyVars
<1>19. ASSUME Ascend PROVE KeptInv'
  BY <1>19 DEF Ascend, Goto, logVars, copyVars, historyVars
<1>20. ASSUME Crash PROVE KeptInv'
  BY <1>20 DEF Crash, Goto, logVars, copyVars, historyVars
<1>21. ASSUME Rest PROVE KeptInv'
  BY <1>21 DEF Rest, vars, logVars, copyVars, historyVars
<1>22. CASE UNCHANGED vars
  BY <1>22 DEF vars, logVars, copyVars, historyVars
<1> HIDE DEF TypeOK, KeptInv, PagesOf, PagesOfCopy
<1> QED
  BY <1>1, <1>2, <1>3, <1>4, <1>5, <1>6, <1>7, <1>8, <1>9, <1>10, <1>11,
     <1>12, <1>13, <1>14, <1>15, <1>16, <1>17, <1>18, <1>19, <1>20, <1>21,
     <1>22
  DEF Next, LogPage, Compress, ShowLogs

\* Whatever has been in the log's file stays in it and in its copies.
LEMMA FiledStep == TypeOK /\ GoneInv /\ FiledInv /\ [Next]_vars => FiledInv'
<1> SUFFICES ASSUME TypeOK, GoneInv, FiledInv, [Next]_vars PROVE FiledInv'
  OBVIOUS
<1> USE Files, Copies, Threads DEF TypeOK, FiledInv
<1>1. ASSUME NEW p \in Pages, ChooseLog(p) PROVE FiledInv'
  BY <1>1 DEF ChooseLog, Goto, logVars, copyVars, historyVars
<1>2. ASSUME NEW p \in Pages, SendEntry(p) PROVE FiledInv'
  <2>1. UNCHANGED <<copy, data, filed>>
    BY <1>2 DEF SendEntry, copyVars
  <2>2. CASE log # None \/ writer # "none"
    <3>1. UNCHANGED <<log, odd>>
      BY <1>2, <2>2 DEF SendEntry, logVars
    <3> QED
      BY <2>1, <3>1
  <2>3. CASE log = None /\ writer = "none"
    <3>1. /\ log' = {}
          /\ "late" \notin odd' => "late" \notin odd /\ copy = None
      BY <1>2, <2>3 DEF SendEntry
    <3>2. copy = None => filed = {}
      BY <2>3 DEF GoneInv
    <3> QED
      BY <2>1, <3>1, <3>2
  <2> QED
    BY <2>2, <2>3
<1>3. ASSUME NEW p \in Pages, OpenFails(p) PROVE FiledInv'
  BY <1>3 DEF OpenFails, Goto, logVars, copyVars, historyVars
<1>4. ASSUME WriteEntry PROVE FiledInv'
  BY <1>4 DEF WriteEntry, Checkpoint, logVars, copyVars, historyVars
<1>5. ASSUME WriterDies PROVE FiledInv'
  BY <1>5 DEF WriterDies, Goto, logVars, copyVars, historyVars
<1>6. ASSUME NEW c \in Compressors, Login(c) PROVE FiledInv'
  BY <1>6 DEF Login, Goto, logVars, copyVars, historyVars
<1>7. ASSUME NEW c \in Compressors, CheckFiles(c) PROVE FiledInv'
  BY <1>7 DEF CheckFiles, Goto, logVars, copyVars, historyVars
<1>8. ASSUME NEW c \in Compressors, ReadLog(c) PROVE FiledInv'
  BY <1>8 DEF ReadLog, Goto, logVars, copyVars, historyVars
<1>9. ASSUME NEW c \in Compressors, OpenCopy(c) PROVE FiledInv'
  BY <1>9 DEF OpenCopy, Goto, logVars, copyVars, historyVars
<1>10. ASSUME NEW c \in Compressors, WriteCopy(c) PROVE FiledInv'
  BY <1>10 DEF WriteCopy, Goto, logVars, copyVars, historyVars
<1>11. ASSUME NEW c \in Compressors, WriteFails(c) PROVE FiledInv'
  BY <1>11 DEF WriteFails, Goto, logVars, copyVars, historyVars
<1>12. ASSUME NEW c \in Compressors, Reread(c) PROVE FiledInv'
  BY <1>12 DEF Reread, Goto, logVars, copyVars, historyVars
<1>13. ASSUME NEW c \in Compressors, Compare(c) PROVE FiledInv'
  BY <1>13 DEF Compare, Goto, logVars, copyVars, historyVars
<1>14. ASSUME NEW c \in Compressors, RemoveLog(c) PROVE FiledInv'
  BY <1>14 DEF RemoveLog, Goto, logVars, copyVars, historyVars
<1>15. ASSUME PickFile PROVE FiledInv'
  BY <1>15 DEF PickFile, Goto, logVars, copyVars, historyVars
<1>16. ASSUME ShowFails PROVE FiledInv'
  BY <1>16 DEF ShowFails, Goto, logVars, copyVars, historyVars
<1>17. ASSUME NEW P \in File, ShowCopy(P) PROVE FiledInv'
  BY <1>17 DEF ShowCopy, Goto, logVars, copyVars, historyVars
<1>18. ASSUME NEW P \in File, ShowPlain(P) PROVE FiledInv'
  BY <1>18 DEF ShowPlain, Goto, logVars, copyVars, historyVars
<1>19. ASSUME Ascend PROVE FiledInv'
  BY <1>19 DEF Ascend, Goto, logVars, copyVars, historyVars
<1>20. ASSUME Crash PROVE FiledInv'
  BY <1>20 DEF Crash, Goto, logVars, copyVars, historyVars
<1>21. ASSUME Rest PROVE FiledInv'
  BY <1>21 DEF Rest, vars, logVars, copyVars, historyVars
<1>22. CASE UNCHANGED vars
  BY <1>22 DEF vars, logVars, copyVars, historyVars
<1> HIDE DEF TypeOK, FiledInv
<1> QED
  BY <1>1, <1>2, <1>3, <1>4, <1>5, <1>6, <1>7, <1>8, <1>9, <1>10, <1>11,
     <1>12, <1>13, <1>14, <1>15, <1>16, <1>17, <1>18, <1>19, <1>20, <1>21,
     <1>22
  DEF Next, LogPage, Compress, ShowLogs

-----------------------------------------------------------------------------
(* The theorems.                                                            *)

\* The inductive invariant.
IInv ==
    /\ TypeOK /\ WriterInv /\ LookInv /\ GoneInv /\ WholeInv /\ KeptInv /\ FiledInv

\* It holds before the first page.
LEMMA InitInv == Init => IInv
<1> SUFFICES ASSUME Init PROVE IInv
  OBVIOUS
<1>1. TypeOK
  BY TypeInit
<1>2. \A c \in Compressors : pc[c] = "idle" /\ data[c] = None
  BY Threads DEF Init
<1>3. WriterInv /\ WholeInv
  BY <1>2 DEF WriterInv, WholeInv, Writing
<1>4. LookInv /\ GoneInv
  BY Threads DEF Init, LookInv, GoneInv
<1>5. KeptInv
  BY DEF Init, KeptInv
<1>6. FiledInv
  BY <1>2 DEF Init, FiledInv
<1> QED
  BY <1>1, <1>3, <1>4, <1>5, <1>6 DEF IInv

\* Every step keeps it.
LEMMA StepInv == IInv /\ [Next]_vars => IInv'
BY TypeStep, WriterStep, LookStep, GoneStep, WholeStep, KeptStep, FiledStep DEF IInv

\* The database's thread, the logins' threads and the browser keep to their files
\* whenever steps fail or the program is stopped, however many there are.
THEOREM Invariance == Spec => []IInv
BY InitInv, StepInv, PTL DEF Spec

\* Whenever the program is stopped, an entry that was inserted is found (LogParser.hs,
\* compressFile; Logging.hs, dblogstuff), unless the log was written to after it had
\* been compressed or two threads compressed it.
THEOREM NothingLost == Spec => []LogKept
<1>1. IInv => LogKept
  BY DEF IInv, KeptInv, LogKept
<1> QED
  BY <1>1, Invariance, PTL

\* The browser is shown every entry that has been in the log's file, or an error
\* (showLogs), unless the log was written to after it had been read to be
\* compressed: also if two threads compress it, or one is stopped half-way.
THEOREM ShowsAll == Spec => ShownWhole
<1>1. ASSUME IInv, NEW P \in File, ShowCopy(P) \/ ShowPlain(P), "late" \notin odd
      PROVE  filed \subseteq P
  <2>1. CASE ShowCopy(P)
    <3>1. copy.whole /\ P = copy.pages /\ pc[Show] = "copy"
      BY <2>1 DEF ShowCopy, Readable
    <3>2. copy # None
      BY <1>1, <3>1 DEF IInv, LookInv
    <3> QED
      BY <1>1, <3>1, <3>2 DEF IInv, FiledInv
  <2>2. CASE ShowPlain(P)
    BY <1>1, <2>2 DEF ShowPlain, IInv, FiledInv
  <2> QED
    BY <1>1, <2>1, <2>2
<1>2. IInv /\ [Next]_vars =>
        [\A P \in File :
            (ShowCopy(P) \/ ShowPlain(P)) /\ "late" \notin odd => filed \subseteq P]_vars
  BY <1>1
<1> QED
  BY <1>2, Invariance, PTL DEF Spec, ShownWhole

=============================================================================
