-------------------------- MODULE SqliteWal_proofs --------------------------
(***************************************************************************)
(* Proofs about SqliteWal, for any pages, frames, transactions, failures   *)
(* and losses of power: what is read is what was committed, and the        *)
(* database keeps the promise of DurableStore.                             *)
(***************************************************************************)
EXTENDS SqliteWal, FiniteSetTheorems, WellFoundedInduction, TLAPS

-----------------------------------------------------------------------------
(* Logs and chains.                                                        *)

\* What a checksum is made of: the salt of the log's header, and frames.
Link == Nat \cup (Pages \X Nat \X BOOLEAN)
Frame == [salt : Nat \ {0}, pg : Pages, txn : Nat, commit : BOOLEAN, sum : Seq(Link)]

\* A frame's checksum has the frame itself at its end.
IsFrame(f, i) ==
    \/ f = NoFrame
    \/ /\ f \in Frame /\ Len(f.sum) = i + 1 /\ f.sum[1] = f.salt
       /\ f.sum[i + 1] = <<f.pg, f.txn, f.commit>>

IsLog(log) == \A i \in 1 .. MaxFrames : IsFrame(log[i], i)

\* No transaction after t has a frame in the chain that ends in f.
UpTo(f, t) == \A x \in 2 .. Len(f.sum) : f.sum[x][2] \in 0 .. t

Valid(log, k) == \A i \in 1 .. k : ValidFrame(log, i)

\* What a start finds that takes k frames of the log.
Content(log, k, db) == [p \in Pages |-> PageAt([db |-> db, log |-> log], k, p)]

\* What a loss of power can make of the log, if it does not keep an old header.
Mix(log) ==
    /\ \A i \in Slots : /\ log[i] \in {disk.log[i], file.log[i], NoFrame}
                        /\ disk.log[i] = file.log[i] => log[i] = file.log[i]
    /\ log[0] \in {file.log[0], NoFrame}

\* What may be found: what was told of, or what a commit under way would make of it.
Good == pending \cup {current}

-----------------------------------------------------------------------------
(* The parts of the inductive invariant.                                   *)

Txn == {"write", "header", "frame", "spilled", "sync", "publish"}

\* The last frame of the chain in the connection's header.
End == Len(hdr.sum) - 1

\* The connection's header is that of the log in the file.
Begun == pc \in {"frame", "spilled", "sync", "publish"} \/ (pc = "write" /\ hdr.mx > 0)

Header == [mx : Slots, salt : Nat, sum : Seq(Link)]

FilesType ==
    /\ file = [db |-> file.db, log |-> file.log] /\ disk = [db |-> disk.db, log |-> disk.log]
    /\ file.db \in [Pages -> {Torn} \cup 0 .. txns] /\ disk.db \in [Pages -> {Torn} \cup 0 .. txns]
    /\ file.log = [i \in Slots |-> file.log[i]] /\ disk.log = [i \in Slots |-> disk.log[i]]
    /\ IsLog(file.log) /\ IsLog(disk.log)
    /\ \A i \in Slots : file.log[i].salt \in 0 .. salts /\ disk.log[i].salt \in 0 .. salts
    /\ txns \in 0 .. MaxTxns /\ salts \in Nat
    /\ Good \subseteq [Pages -> 0 .. txns]
    /\ broken \subseteq {"spilled", "overtaken"}

HeadersType ==
    /\ index = [hdr |-> index.hdr, backfill |-> index.backfill]
    /\ index.hdr \in Header /\ hdr \in Header
    /\ Len(index.hdr.sum) <= MaxFrames + 1 /\ Len(hdr.sum) <= MaxFrames + 1
    /\ index.backfill \in {0, index.hdr.mx}

PagerType ==
    /\ pc \in {"closed", "idle", "read", "checkpoint", "copy"} \cup Txn
    /\ usesLog \in BOOLEAN
    /\ cache \in [Pages -> {None} \cup 0 .. txns]
    /\ dirty \subseteq mods /\ mods \subseteq Pages
    /\ list \in Seq(Pages) /\ commit \in BOOLEAN
    /\ toCopy \in [Pages -> {None} \cup Slots]
    /\ callback \in Nat
    /\ pc \notin Txn => mods = {}
    /\ pc = "closed" => cache = NoPages

TypeInv == FilesType /\ HeadersType /\ PagerType

\* Chains have no later transactions than the one under way, and its own frames are
\* in the connection's chain.
FreshInv ==
    /\ \A i \in 1 .. MaxFrames : UpTo(file.log[i], txns) /\ UpTo(disk.log[i], txns)
    /\ pc \in Txn =>
          \A i \in 1 .. MaxFrames : (Begun /\ i \in index.hdr.mx + 1 .. End) \/ UpTo(file.log[i], txns - 1)
    /\ pc \in Txn \ {"publish"} =>
          \A i \in 1 .. MaxFrames : UpTo(disk.log[i], txns - 1)

\* The wal-index is about frames that are in the file, and these make what the
\* program was told; a log that is wholly in the database is not needed.
IndexInv ==
    pc # "closed" =>
        /\ index.hdr.mx > 0 =>
              /\ Valid(file.log, index.hdr.mx) /\ file.log[index.hdr.mx].commit
              /\ index.hdr.salt = file.log[0].salt
              /\ index.hdr.sum = file.log[index.hdr.mx].sum
        /\ Content(file.log, index.hdr.mx, file.db) = current
        /\ index.backfill = index.hdr.mx => file.db = current /\ disk.db = current

\* The connection's header is the index's, or ahead of it by the frames of the
\* transaction under way.
HeaderInv ==
    /\ pc \in {"read", "checkpoint", "copy", "header"} => hdr = index.hdr
    /\ pc = "write" /\ (hdr.mx = 0 \/ ~usesLog) => hdr = index.hdr
    /\ pc = "header" => hdr.mx = 0
    /\ pc \in Txn \ {"write"} => usesLog
    /\ pc \in {"read"} \cup Txn => index.backfill = IF usesLog THEN 0 ELSE index.hdr.mx

ChainInv ==
    Begun =>
        /\ hdr.salt = file.log[0].salt /\ hdr.salt > 0
        /\ Len(hdr.sum) > 0 /\ hdr.sum[1] = hdr.salt
        /\ index.hdr.mx <= hdr.mx /\ hdr.mx <= End
        /\ End > 0 => Valid(file.log, End) /\ file.log[End].sum = hdr.sum
        /\ \A i \in index.hdr.mx + 1 .. End :
              /\ file.log[i].txn = txns /\ file.log[i].pg \in mods
              /\ i < End \/ pc \notin {"sync", "publish"} => ~file.log[i].commit
        /\ pc = "write" => End = hdr.mx
        /\ pc \in {"spilled", "sync", "publish"} => End > hdr.mx
        /\ pc \in {"sync", "publish"} => commit /\ file.log[End].commit

\* Page p has been written by this transaction to the log, up to frame k.
Logged(p, k) == \E i \in index.hdr.mx + 1 .. k : file.log[i].pg = p

\* Every page the transaction has changed is in the log, or is going to be.
ModsInv ==
    pc \in Txn =>
        /\ \A p \in mods \ dirty : Logged(p, hdr.mx)
        /\ pc \in {"header", "frame"} =>
              /\ list # <<>> /\ \A i \in 1 .. Len(list) : list[i] \in dirty
              /\ ~commit => Len(list) = 1
        /\ pc = "header" /\ commit =>
              \A p \in dirty : \E i \in 1 .. Len(list) : list[i] = p
        /\ pc = "frame" /\ commit =>
              \A p \in dirty : Logged(p, End) \/ \E i \in 1 .. Len(list) : list[i] = p
        /\ pc \in {"sync", "publish"} => \A p \in dirty : Logged(p, End)

\* Pages in the cache are as the program was told, or as it has changed them.
CacheInv ==
    /\ (pc = "idle" /\ hdr = index.hdr) \/ pc \in {"read", "checkpoint", "copy"} =>
          \A p \in Pages : cache[p] \in {None, current[p]}
    /\ pc \in Txn =>
          \A p \in Pages : IF p \in dirty THEN cache[p] = txns ELSE cache[p] \in {None, Result[p]}

\* The first g frames of the log will be found whatever happens, and with them all
\* that the database file does not have; and any commit found behind them is good.
Guaranteed(g) ==
    /\ g > 0 => Valid(file.log, g) /\ file.log[g].commit
    /\ g > 0 => \A i \in 0 .. g : disk.log[i] = file.log[i]
    /\ \A p \in Pages : \/ \E i \in 1 .. g : file.log[i].pg = p
                        \/ disk.db[p] = file.db[p] /\ file.db[p] # Torn
    /\ \A log : Mix(log) => \A k \in g .. MaxFrames :
          Valid(log, k) /\ (k = g \/ log[k].commit) => Content(log, k, file.db) \in Good

\* The log in the file has not been given up for a new one.
LogInUse == pc # "closed" /\ (index.hdr.mx > 0 \/ Begun)

GuaranteedInv == \E g \in Slots : Guaranteed(g) /\ (LogInUse => g <= index.hdr.mx)

\* A header that has been replaced, but for a loss of power, is that of a log that
\* is wholly in the database.
OldHeaderInv ==
    disk.log[0] # file.log[0] => Found([db |-> file.db, log |-> disk.log]) \in Good

\* While a checkpoint copies, the log is on the disk.
CopyInv ==
    pc = "copy" =>
        /\ disk.log = file.log /\ index.backfill = 0 /\ index.hdr.mx > 0
        /\ Guaranteed(index.hdr.mx)
        /\ \A p \in Pages :
              LET f == LastFrame(file.log, index.hdr.mx, p)
              IN  toCopy[p] = f \/ (toCopy[p] = None /\ f > 0 /\ file.db[p] = file.log[f].txn)

\* A commit is on the disk before it is reported.
SyncedInv == pc = "publish" => disk.log = file.log

\* All of it: the types whatever happens, the rest until a defect has occurred.
WalInv ==
    /\ FreshInv /\ IndexInv /\ HeaderInv /\ ChainInv /\ ModsInv /\ CacheInv
    /\ GuaranteedInv /\ OldHeaderInv /\ CopyInv /\ SyncedInv
IInv == TypeInv /\ (broken = {} => WalInv)
-----------------------------------------------------------------------------
(* Least and greatest numbers.                                             *)

\* A set of numbers that is not empty has a least one.
LEMMA Least ==
    ASSUME NEW S \in SUBSET Nat, S # {}
    PROVE  \E m \in S : \A x \in S : m <= x
<1> DEFINE R == OpToRel(<, Nat)
<1>1. IsWellFoundedOn(R, Nat)
  BY NatLessThanWellFounded, Zenon
<1>2. \E m \in S : \A x \in S : ~ (<<x, m>> \in R)
  <2> HIDE DEF R
  <2> QED
    BY <1>1, WFMin
<1>3. \A x, y \in Nat : x < y => <<x, y>> \in R
  BY DEF OpToRel
<1>4. PICK m \in S : \A x \in S : ~ (<<x, m>> \in R)
  BY <1>2, Zenon
<1> HIDE DEF R
<1>5. ASSUME NEW x \in S PROVE m <= x
  <2>1. m \in Nat /\ x \in Nat
    OBVIOUS
  <2>2. ~(x < m)
    BY <1>3, <1>4, <2>1
  <2> QED
    BY <2>1, <2>2
<1> QED
  BY <1>5

\* Max of the community modules is the greatest of a bounded set of numbers.
LEMMA Greatest ==
    ASSUME NEW n \in Nat, NEW S \in SUBSET (0 .. n), S # {}
    PROVE  Max(S) \in S /\ \A x \in S : Max(S) >= x
<1> DEFINE U == {u \in Nat : \A x \in S : u >= x}
<1>1. n \in U
  OBVIOUS
<1>2. PICK u \in U : \A v \in U : u <= v
  BY <1>1, Least
<1>3. u \in S
  <2> SUFFICES ASSUME u \notin S PROVE FALSE
    OBVIOUS
  <2>1. \A x \in S : u > x
    OBVIOUS
  <2>2. PICK y \in S : TRUE
    OBVIOUS
  <2>3. u \in Nat /\ u - 1 \in Nat
    BY <2>1, <2>2
  <2>4. ASSUME NEW x \in S PROVE u - 1 >= x
    <3>1. x \in Nat /\ u > x
      BY <2>1
    <3> QED
      BY <2>3, <3>1
  <2>5. u - 1 \in U
    BY <2>3, <2>4
  <2> QED
    BY <1>2, <2>3, <2>5
<1>4. \E m \in S : \A x \in S : m >= x
  BY <1>3
<1> QED
  BY <1>4 DEF Max

-----------------------------------------------------------------------------
(* What a log says.                                                        *)

\* The last frame of a page among the first k.
LEMMA LastFrameIs ==
    ASSUME NEW log, NEW k \in Nat, NEW p
    PROVE  /\ LastFrame(log, k, p) \in 0 .. k
           /\ LastFrame(log, k, p) > 0 => log[LastFrame(log, k, p)].pg = p
           /\ \A i \in LastFrame(log, k, p) + 1 .. k : log[i].pg # p
<1> DEFINE fs == {f \in 1 .. k : log[f].pg = p}
<1>1. CASE fs = {}
  <2>1. LastFrame(log, k, p) = 0
    BY <1>1 DEF LastFrame
  <2>2. 0 \in 0 .. k /\ \A i \in 0 + 1 .. k : log[i].pg # p
    BY <1>1
  <2> QED
    BY <2>1, <2>2
<1>2. CASE fs # {}
  <2>1. LastFrame(log, k, p) = Max(fs)
    BY <1>2 DEF LastFrame
  <2>2. fs \in SUBSET (0 .. k)
    OBVIOUS
  <2>3. Max(fs) \in fs /\ \A x \in fs : Max(fs) >= x
    BY <1>2, <2>2, Greatest
  <2>4. \A i \in Max(fs) + 1 .. k : log[i].pg # p
    <3> SUFFICES ASSUME NEW i \in Max(fs) + 1 .. k, log[i].pg = p PROVE FALSE
      OBVIOUS
    <3>1. Max(fs) \in 1 .. k
      BY <2>3
    <3>2. i \in fs
      BY <3>1
    <3> QED
      BY <2>3, <3>1, <3>2
  <2>5. Max(fs) \in 0 .. k /\ log[Max(fs)].pg = p
    BY <2>2, <2>3
  <2> QED
    BY <2>1, <2>4, <2>5
<1> QED
  BY <1>1, <1>2

\* It is the only one.
LEMMA LastFrameOnly ==
    ASSUME NEW log, NEW k \in Nat, NEW p, NEW f \in 0 .. k,
           f > 0 => log[f].pg = p,
           \A i \in f + 1 .. k : log[i].pg # p
    PROVE  LastFrame(log, k, p) = f
<1> DEFINE g == LastFrame(log, k, p)
<1>1. g \in 0 .. k /\ (g > 0 => log[g].pg = p) /\ \A i \in g + 1 .. k : log[i].pg # p
  BY LastFrameIs
<1> HIDE DEF g
<1>2. ~(g < f)
  <2> SUFFICES ASSUME g < f PROVE FALSE
    OBVIOUS
  <2>1. f \in g + 1 .. k /\ f > 0
    BY <1>1
  <2> QED
    BY <1>1, <2>1
<1>3. ~(f < g)
  <2> SUFFICES ASSUME f < g PROVE FALSE
    OBVIOUS
  <2>1. g \in f + 1 .. k /\ g > 0
    BY <1>1
  <2> QED
    BY <1>1, <2>1
<1>4. g = f
  BY <1>1, <1>2, <1>3
<1> QED
  BY <1>4 DEF g

\* A page's content is that of its last frame, or that in the database.
LEMMA ContentIs ==
    ASSUME NEW log, NEW k \in Nat, NEW db, NEW p \in Pages
    PROVE  /\ (\A i \in 1 .. k : log[i].pg # p) => Content(log, k, db)[p] = db[p]
           /\ \A f \in 1 .. k :
                 log[f].pg = p /\ (\A i \in f + 1 .. k : log[i].pg # p)
                     => Content(log, k, db)[p] = log[f].txn
<1> DEFINE f == LastFrame(log, k, p)
<1>1. Content(log, k, db)[p] = IF f = 0 THEN db[p] ELSE log[f].txn
  BY DEF Content, PageAt
<1>2. ASSUME \A i \in 1 .. k : log[i].pg # p PROVE f = 0
  <2>1. 0 \in 0 .. k /\ ~(0 > 0) /\ \A i \in 0 + 1 .. k : log[i].pg # p
    BY <1>2
  <2> QED
    BY <2>1, LastFrameOnly
<1>3. ASSUME NEW g \in 1 .. k, log[g].pg = p, \A i \in g + 1 .. k : log[i].pg # p
      PROVE f = g
  BY <1>3, LastFrameOnly
<1> HIDE DEF f
<1> QED
  BY <1>1, <1>2, <1>3

\* Of a page without a frame the database file is read (readDbPage).
LEMMA ContentNone ==
    ASSUME NEW log, NEW k \in Nat, NEW db, NEW p \in Pages,
           \A i \in 1 .. k : log[i].pg # p
    PROVE  Content(log, k, db)[p] = db[p]
<1>1. LastFrame(log, k, p) = 0
  <2> DEFINE f == LastFrame(log, k, p)
  <2>1. f \in 0 .. k /\ (f > 0 => log[f].pg = p)
    BY LastFrameIs
  <2> HIDE DEF f
  <2>2. f = 0
    BY <2>1
  <2> QED
    BY <2>2 DEF f
<1> QED
  BY <1>1 DEF Content, PageAt

\* Logs with the same frames have the same content, if the databases have the same
\* pages that are in no frame.
LEMMA ContentSame ==
    \A log, log2, db, db2 : \A k \in Nat :
        /\ \A i \in 1 .. k : log[i].pg = log2[i].pg /\ log[i].txn = log2[i].txn
        /\ \A p \in Pages : (\A i \in 1 .. k : log[i].pg # p) => db[p] = db2[p]
        => Content(log, k, db) = Content(log2, k, db2)
<1> SUFFICES ASSUME NEW log, NEW log2, NEW db, NEW db2, NEW k \in Nat,
                    \A i \in 1 .. k : log[i].pg = log2[i].pg /\ log[i].txn = log2[i].txn,
                    \A p \in Pages : (\A i \in 1 .. k : log[i].pg # p) => db[p] = db2[p]
             PROVE  Content(log, k, db) = Content(log2, k, db2)
  OBVIOUS
<1>1. ASSUME NEW p \in Pages PROVE Content(log, k, db)[p] = Content(log2, k, db2)[p]
  <2> DEFINE f == LastFrame(log, k, p)
  <2>1. f \in 0 .. k /\ (f > 0 => log[f].pg = p) /\ \A i \in f + 1 .. k : log[i].pg # p
    BY LastFrameIs
  <2> HIDE DEF f
  <2>2. CASE f = 0
    <3>1. \A i \in 1 .. k : log[i].pg # p /\ log2[i].pg # p
      BY <2>1, <2>2
    <3>2. Content(log, k, db)[p] = db[p] /\ Content(log2, k, db2)[p] = db2[p]
      BY <3>1, ContentIs
    <3>3. db[p] = db2[p]
      BY <3>1
    <3> QED
      BY <3>2, <3>3
  <2>3. CASE f > 0
    <3>1. f \in 1 .. k /\ log[f].pg = p /\ log2[f].pg = p /\ log[f].txn = log2[f].txn
      BY <2>1, <2>3
    <3>2. \A i \in f + 1 .. k : log[i].pg # p /\ log2[i].pg # p
      <4> SUFFICES ASSUME NEW i \in f + 1 .. k PROVE log[i].pg # p /\ log2[i].pg # p
        OBVIOUS
      <4>1. i \in 1 .. k
        BY <3>1
      <4> QED
        BY <2>1, <4>1
    <3> QED
      BY <3>1, <3>2, ContentIs
  <2> QED
    BY <2>1, <2>2, <2>3
<1>2. /\ Content(log, k, db) = [p \in Pages |-> Content(log, k, db)[p]]
      /\ Content(log2, k, db2) = [p \in Pages |-> Content(log2, k, db2)[p]]
  BY DEF Content
<1> QED
  BY <1>1, <1>2

\* The database file matters only for pages without a frame.
LEMMA ContentDb ==
    ASSUME NEW log, NEW k \in Nat, NEW db, NEW db2,
           \A p \in Pages : (\A i \in 1 .. k : log[i].pg # p) => db[p] = db2[p]
    PROVE  Content(log, k, db) = Content(log, k, db2)
<1>1. ASSUME NEW p \in Pages PROVE Content(log, k, db)[p] = Content(log, k, db2)[p]
  <2> DEFINE f == LastFrame(log, k, p)
  <2>1. f \in 0 .. k /\ (f > 0 => log[f].pg = p) /\ \A i \in f + 1 .. k : log[i].pg # p
    BY LastFrameIs
  <2>2. /\ Content(log, k, db)[p] = IF f = 0 THEN db[p] ELSE log[f].txn
        /\ Content(log, k, db2)[p] = IF f = 0 THEN db2[p] ELSE log[f].txn
    BY DEF Content, PageAt
  <2> HIDE DEF f
  <2>3. f = 0 => db[p] = db2[p]
    BY <2>1
  <2> QED
    BY <2>2, <2>3
<1>2. /\ Content(log, k, db) = [p \in Pages |-> Content(log, k, db)[p]]
      /\ Content(log, k, db2) = [p \in Pages |-> Content(log, k, db2)[p]]
  BY DEF Content
<1> QED
  BY <1>1, <1>2

\* Frames behind the first n add the pages they have.
LEMMA ContentMore ==
    ASSUME NEW log, NEW k \in Nat, NEW n \in 0 .. k, NEW db, NEW p \in Pages,
           \A i \in n + 1 .. k : log[i].pg # p
    PROVE  Content(log, k, db)[p] = Content(log, n, db)[p]
<1> DEFINE f == LastFrame(log, n, p)
<1>1. f \in 0 .. n /\ (f > 0 => log[f].pg = p) /\ \A i \in f + 1 .. n : log[i].pg # p
  BY LastFrameIs
<1> HIDE DEF f
<1>2. \A i \in f + 1 .. k : log[i].pg # p
  <2> SUFFICES ASSUME NEW i \in f + 1 .. k PROVE log[i].pg # p
    OBVIOUS
  <2>1. i \in f + 1 .. n \/ i \in n + 1 .. k
    OBVIOUS
  <2> QED
    BY <1>1, <2>1
<1>3. CASE f = 0
  BY <1>1, <1>2, <1>3, ContentIs
<1>4. CASE f > 0
  <2>1. f \in 1 .. n /\ f \in 1 .. k /\ n \in Nat
    BY <1>1, <1>4
  <2> QED
    BY <1>1, <1>2, <1>4, <2>1, ContentIs
<1> QED
  BY <1>1, <1>3, <1>4

\* If these frames are all of one transaction, it is that one's content.
LEMMA ContentOf ==
    ASSUME NEW log, NEW k \in Nat, NEW n \in 0 .. k, NEW db, NEW p \in Pages,
           \A i \in n + 1 .. k : log[i].txn = log[k].txn,
           \E i \in n + 1 .. k : log[i].pg = p
    PROVE  Content(log, k, db)[p] = log[k].txn
<1> DEFINE f == LastFrame(log, k, p)
<1>1. f \in 0 .. k /\ (f > 0 => log[f].pg = p) /\ \A i \in f + 1 .. k : log[i].pg # p
  BY LastFrameIs
<1> HIDE DEF f
<1>2. PICK j \in n + 1 .. k : log[j].pg = p
  OBVIOUS
<1>3. ~(j > f)
  <2> SUFFICES ASSUME j > f PROVE FALSE
    OBVIOUS
  <2>1. j \in f + 1 .. k
    BY <1>1
  <2> QED
    BY <1>1, <1>2, <2>1
<1>4. f \in n + 1 .. k /\ f \in 1 .. k
  BY <1>1, <1>3
<1> QED
  BY <1>1, <1>4, ContentIs
-----------------------------------------------------------------------------
(* Chains.                                                                 *)

\* The places of a log: its header, and MaxFrames frames.
LEMMA SlotsAre == MaxFrames \in Nat \ {0} /\ Slots = 0 .. MaxFrames
BY WalAssumption DEF Slots

\* Append, place by place.
LEMMA AppendAt ==
    ASSUME NEW S, NEW s \in Seq(S), NEW e
    PROVE  /\ Len(s) \in Nat /\ Len(Append(s, e)) = Len(s) + 1
           /\ \A x \in 1 .. Len(s) : Append(s, e)[x] = s[x]
           /\ Append(s, e)[Len(s) + 1] = e
OBVIOUS

\* Checksums with the same entries are the same.
LEMMA SameSum ==
    ASSUME NEW S, NEW s \in Seq(S), NEW t \in Seq(S), Len(s) = Len(t),
           \A x \in 1 .. Len(s) : s[x] = t[x]
    PROVE  s = t
OBVIOUS

\* A valid frame is a frame, and has the salt of the log.
LEMMA ValidIs ==
    ASSUME NEW log, IsLog(log), NEW k \in 0 .. MaxFrames, Valid(log, k), NEW i \in 1 .. k
    PROVE  /\ log[i] \in Frame /\ Len(log[i].sum) = i + 1
           /\ log[i].sum \in Seq(Link)
           /\ log[i].sum[i + 1] = <<log[i].pg, log[i].txn, log[i].commit>>
           /\ log[i].sum[1] = log[0].salt /\ log[i].salt = log[0].salt /\ log[0].salt > 0
           /\ \A x \in 1 .. i : i > 1 => log[i].sum[x] = log[i - 1].sum[x]
<1>1. i \in 1 .. MaxFrames /\ IsFrame(log[i], i) /\ ValidFrame(log, i)
  BY SlotsAre DEF IsLog, Valid
<1>2. log[i].salt = log[0].salt /\ log[i].salt > 0
  BY <1>1 DEF ValidFrame
<1>3. log[i] # NoFrame
  BY <1>2 DEF NoFrame
<1>4. /\ log[i] \in Frame /\ Len(log[i].sum) = i + 1 /\ log[i].sum[1] = log[i].salt
      /\ log[i].sum[i + 1] = <<log[i].pg, log[i].txn, log[i].commit>>
  BY <1>1, <1>3 DEF IsFrame
<1>5. log[i].sum \in Seq(Link)
  BY <1>4 DEF Frame
<1>6. ASSUME i > 1, NEW x \in 1 .. i PROVE log[i].sum[x] = log[i - 1].sum[x]
  <2>1. i - 1 \in 1 .. MaxFrames /\ IsFrame(log[i - 1], i - 1) /\ ValidFrame(log, i - 1)
    BY <1>1, <1>6, SlotsAre DEF IsLog, Valid
  <2>2. log[i - 1].salt > 0
    BY <2>1 DEF ValidFrame
  <2>3. log[i - 1] \in Frame /\ Len(log[i - 1].sum) = i
    BY <2>1, <2>2 DEF IsFrame, NoFrame
  <2>4. log[i - 1].sum \in Seq(Link)
    BY <2>3 DEF Frame
  <2>5. log[i].sum = Append(log[i - 1].sum, <<log[i].pg, log[i].txn, log[i].commit>>)
    BY <1>1, <1>6 DEF ValidFrame, Checksum
  <2> QED
    BY <2>3, <2>4, <2>5, AppendAt
<1> QED
  BY <1>2, <1>4, <1>5, <1>6

\* The chain of a valid frame begins with those of the frames before it.
LEMMA ChainPrefix ==
    ASSUME NEW log, IsLog(log), NEW k \in 0 .. MaxFrames, Valid(log, k)
    PROVE  \A i \in 1 .. k : \A j \in 1 .. i : \A x \in 1 .. j + 1 :
              log[i].sum[x] = log[j].sum[x]
<1> DEFINE P(i) == \A j \in 1 .. i : \A x \in 1 .. j + 1 : log[i].sum[x] = log[j].sum[x]
           T == {i \in 1 .. k : ~P(i)}
<1>1. SUFFICES ASSUME T # {} PROVE FALSE
  OBVIOUS
<1>2. PICK m \in T : \A y \in T : m <= y
  <2>1. T \in SUBSET Nat
    OBVIOUS
  <2> HIDE DEF T
  <2> QED
    BY <1>1, <2>1, Least
<1>3. m \in 1 .. k /\ ~P(m)
  OBVIOUS
<1>4. m > 1
  <2> SUFFICES ASSUME m = 1 PROVE FALSE
    BY <1>3
  <2> QED
    BY <1>3
<1>5. P(m - 1)
  <2>1. m - 1 \in 1 .. k /\ ~(m <= m - 1)
    BY <1>3, <1>4
  <2>2. m - 1 \notin T
    BY <1>2, <2>1
  <2> QED
    BY <2>1, <2>2
<1>6. ASSUME NEW j \in 1 .. m, NEW x \in 1 .. j + 1 PROVE log[m].sum[x] = log[j].sum[x]
  <2>1. CASE j = m
    BY <2>1
  <2>2. CASE j < m
    <3>1. j \in 1 .. m - 1 /\ x \in 1 .. m
      BY <2>2, <1>3
    <3>2. log[m - 1].sum[x] = log[j].sum[x]
      BY <1>5, <3>1
    <3>3. log[m].sum[x] = log[m - 1].sum[x]
      BY <1>3, <1>4, <3>1, ValidIs
    <3> QED
      BY <3>2, <3>3
  <2> QED
    BY <2>1, <2>2, <1>3
<1> QED
  BY <1>3, <1>6

\* So the frames can be read off the checksum of the last.
LEMMA ChainLinks ==
    ASSUME NEW log, IsLog(log), NEW k \in 0 .. MaxFrames, Valid(log, k), NEW i \in 1 .. k
    PROVE  log[k].sum[i + 1] = <<log[i].pg, log[i].txn, log[i].commit>>
<1>1. k \in 1 .. k /\ i \in 1 .. k /\ i + 1 \in 1 .. i + 1
  BY SlotsAre
<1>2. log[k].sum[i + 1] = log[i].sum[i + 1]
  BY <1>1, ChainPrefix
<1> QED
  BY <1>1, <1>2, ValidIs

\* Two logs with the same checksum at k have the same frames up to k.
LEMMA SameChain ==
    ASSUME NEW log, NEW log2, IsLog(log), IsLog(log2), NEW k \in 1 .. MaxFrames,
           Valid(log, k), Valid(log2, k), log[k].sum = log2[k].sum
    PROVE  \A i \in 1 .. k : /\ log[i].pg = log2[i].pg /\ log[i].txn = log2[i].txn
                             /\ log[i].commit = log2[i].commit
<1> SUFFICES ASSUME NEW i \in 1 .. k
             PROVE  /\ log[i].pg = log2[i].pg /\ log[i].txn = log2[i].txn
                    /\ log[i].commit = log2[i].commit
  OBVIOUS
<1>1. k \in 0 .. MaxFrames
  BY SlotsAre
<1>2. /\ log[k].sum[i + 1] = <<log[i].pg, log[i].txn, log[i].commit>>
      /\ log2[k].sum[i + 1] = <<log2[i].pg, log2[i].txn, log2[i].commit>>
  BY <1>1, ChainLinks
<1> QED
  BY <1>2

\* Validity is about the header and the frames up to k.
LEMMA ValidSame ==
    ASSUME NEW log, NEW log2, NEW k \in 0 .. MaxFrames, Valid(log, k),
           \A i \in 0 .. k : log2[i] = log[i]
    PROVE  Valid(log2, k)
<1> SUFFICES ASSUME NEW i \in 1 .. k PROVE ValidFrame(log2, i)
  BY DEF Valid
<1>1. ValidFrame(log, i)
  BY DEF Valid
<1>2. i \in 0 .. k /\ i - 1 \in 0 .. k /\ 0 \in 0 .. k
  BY SlotsAre
<1>3. log2[i] = log[i] /\ log2[i - 1] = log[i - 1] /\ log2[0] = log[0]
  BY <1>2
<1> QED
  BY <1>1, <1>3 DEF ValidFrame

\* A log that is valid to k is valid to any frame before.
LEMMA ValidLess ==
    ASSUME NEW log, NEW k \in 0 .. MaxFrames, Valid(log, k), NEW j \in 0 .. k
    PROVE  Valid(log, j)
BY SlotsAre DEF Valid

\* No valid frame follows one of a transaction, if all behind it are older.
LEMMA Followed ==
    ASSUME NEW log, IsLog(log), NEW k \in 1 .. MaxFrames, Valid(log, k),
           NEW j \in 1 .. k, NEW t \in Int, log[j].txn > t, UpTo(log[k], t)
    PROVE  FALSE
<1>1. k \in 0 .. MaxFrames
  BY SlotsAre
<1>2. log[k].sum[j + 1] = <<log[j].pg, log[j].txn, log[j].commit>>
  BY <1>1, ChainLinks
<1>3. Len(log[k].sum) = k + 1
  <2>1. k \in 1 .. k
    OBVIOUS
  <2> QED
    BY <1>1, <2>1, ValidIs
<1>4. j + 1 \in 2 .. Len(log[k].sum)
  BY <1>3
<1>5. log[k].sum[j + 1][2] <= t
  BY <1>4 DEF UpTo
<1>6. log[j] \in Frame
  BY <1>1, ValidIs
<1>7. log[j].txn \in Nat
  BY <1>6 DEF Frame
<1> QED
  BY <1>2, <1>5, <1>7

-----------------------------------------------------------------------------
(* Recovery.                                                               *)

\* A start takes frames up to a commit, and no commit behind it is valid.
LEMMA RecoveredIs ==
    ASSUME NEW log
    PROVE  /\ Recovered(log).mx \in Slots
           /\ Recovered(log).mx > 0 => /\ Valid(log, Recovered(log).mx)
                                       /\ log[Recovered(log).mx].commit
                                       /\ Recovered(log).salt = log[0].salt
                                       /\ Recovered(log).sum = log[Recovered(log).mx].sum
           /\ Recovered(log).mx = 0 => Recovered(log) = NoHdr
           /\ \A k \in 1 .. MaxFrames :
                 Valid(log, k) /\ log[k].commit => k <= Recovered(log).mx
<1> DEFINE ends == {i \in 1 .. MaxFrames : log[i].commit /\ \A j \in 1 .. i : ValidFrame(log, j)}
<1>1. CASE ends = {}
  <2>1. Recovered(log) = NoHdr
    BY <1>1 DEF Recovered
  <2>2. \A k \in 1 .. MaxFrames : ~(Valid(log, k) /\ log[k].commit)
    BY <1>1 DEF Valid
  <2> QED
    BY <2>1, <2>2, SlotsAre DEF NoHdr
<1>2. CASE ends # {}
  <2>1. Recovered(log) = [mx |-> Max(ends), salt |-> log[0].salt, sum |-> log[Max(ends)].sum]
    BY <1>2 DEF Recovered
  <2>2. Max(ends) \in ends /\ \A x \in ends : Max(ends) >= x
    <3>1. ends \in SUBSET (0 .. MaxFrames) /\ MaxFrames \in Nat
      BY SlotsAre
    <3> QED
      BY <1>2, <3>1, Greatest
  <2>3. Max(ends) \in 1 .. MaxFrames /\ log[Max(ends)].commit /\ Valid(log, Max(ends))
    BY <2>2 DEF Valid
  <2>4. \A k \in 1 .. MaxFrames : Valid(log, k) /\ log[k].commit => k \in ends
    BY DEF Valid
  <2> HIDE DEF ends
  <2> QED
    BY <2>1, <2>2, <2>3, <2>4, SlotsAre
<1> QED
  BY <1>1, <1>2

\* A start finds what it takes of the log, over the database file (walIndexRecover).
LEMMA FoundIs ==
    ASSUME NEW log, NEW db
    PROVE  Found([db |-> db, log |-> log]) = Content(log, Recovered(log).mx, db)
BY DEF Found, Content
-----------------------------------------------------------------------------
(* What a state's files say.                                               *)

\* Frames of the transaction add its pages to what is in the log.
LEMMA TxnContent ==
    \A log, db : \A n, e \in Nat : \A p \in Pages :
        /\ n <= e /\ Content(log, n, db)[p] = current[p]
        /\ \A i \in n + 1 .. e : log[i].txn = txns /\ log[i].pg \in mods
        /\ p \in mods => \E i \in n + 1 .. e : log[i].pg = p
        => Content(log, e, db)[p] = Result[p]
<1> SUFFICES ASSUME NEW log, NEW db, NEW n \in Nat, NEW e \in Nat, n <= e, NEW p \in Pages,
                    Content(log, n, db)[p] = current[p],
                    \A i \in n + 1 .. e : log[i].txn = txns /\ log[i].pg \in mods,
                    p \in mods => \E i \in n + 1 .. e : log[i].pg = p
             PROVE  Content(log, e, db)[p] = Result[p]
  OBVIOUS
<1>1. n \in 0 .. e
  OBVIOUS
<1>2. CASE p \in mods
  <2>1. \E i \in n + 1 .. e : log[i].pg = p
    BY <1>2
  <2>2. log[e].txn = txns /\ \A i \in n + 1 .. e : log[i].txn = log[e].txn
    BY <2>1
  <2>3. Content(log, e, db)[p] = txns
    BY <1>1, <2>1, <2>2, ContentOf
  <2> QED
    BY <1>2, <2>3 DEF Result
<1>3. CASE p \notin mods
  <2>1. \A i \in n + 1 .. e : log[i].pg # p
    BY <1>3
  <2>2. Content(log, e, db)[p] = Content(log, n, db)[p]
    BY <1>1, <2>1, ContentMore
  <2> QED
    BY <1>3, <2>2 DEF Result
<1> QED
  BY <1>2, <1>3

\* A log with frames of the transaction for all that it changed makes its result.
LEMMA CommitContent ==
    \A log, db : \A n, e \in Nat :
        /\ n <= e /\ Content(log, n, db) = current
        /\ \A i \in n + 1 .. e : log[i].txn = txns /\ log[i].pg \in mods
        /\ \A p \in mods : \E i \in n + 1 .. e : log[i].pg = p
        => Content(log, e, db) = Result
<1> SUFFICES ASSUME NEW log, NEW db, NEW n \in Nat, NEW e \in Nat, n <= e,
                    Content(log, n, db) = current,
                    \A i \in n + 1 .. e : log[i].txn = txns /\ log[i].pg \in mods,
                    \A p \in mods : \E i \in n + 1 .. e : log[i].pg = p
             PROVE  Content(log, e, db) = Result
  OBVIOUS
<1>1. ASSUME NEW p \in Pages PROVE Content(log, e, db)[p] = Result[p]
  <2>1. Content(log, n, db)[p] = current[p]
    OBVIOUS
  <2>2. p \in mods => \E i \in n + 1 .. e : log[i].pg = p
    OBVIOUS
  <2> QED
    BY <2>1, <2>2, TxnContent
<1>2. /\ Content(log, e, db) = [p \in Pages |-> Content(log, e, db)[p]]
      /\ Result = [p \in Pages |-> Result[p]]
  BY DEF Content, Result
<1> QED
  BY <1>1, <1>2

\* With no frame it is the database.
LEMMA NoContent ==
    ASSUME NEW log, NEW S, NEW db \in [Pages -> S]
    PROVE  Content(log, 0, db) = db
<1>1. ASSUME NEW p \in Pages PROVE Content(log, 0, db)[p] = db[p]
  <2>1. (\A i \in 1 .. 0 : log[i].pg # p) => Content(log, 0, db)[p] = db[p]
    BY ContentIs
  <2> QED
    BY <2>1
<1>2. Content(log, 0, db) = [p \in Pages |-> Content(log, 0, db)[p]]
  BY DEF Content
<1> QED
  BY <1>1, <1>2

\* A transaction that has changed nothing leaves what the program was told.
LEMMA NoMods ==
    ASSUME TypeInv, mods = {}
    PROVE  Result = current
<1>1. current \in [Pages -> 0 .. txns]
  BY DEF TypeInv, FilesType, Good
<1>2. Result = [p \in Pages |-> current[p]]
  BY DEF Result
<1> QED
  BY <1>1, <1>2

\* A write transaction that has nothing in the log has the header of the index.
LEMMA SameHeader ==
    ASSUME TypeInv, IndexInv, HeaderInv, ChainInv, pc = "write", hdr.mx <= index.hdr.mx
    PROVE  hdr = index.hdr
<1>1. /\ hdr \in Header /\ index.hdr \in Header
      /\ hdr.mx \in 0 .. MaxFrames /\ index.hdr.mx \in 0 .. MaxFrames /\ MaxFrames \in Nat
  BY SlotsAre DEF TypeInv, HeadersType, Header
<1>2. CASE hdr.mx = 0
  BY <1>2 DEF HeaderInv
<1>3. CASE hdr.mx > 0
  <2>1. Begun
    BY <1>3 DEF Begun
  <2>2. /\ hdr.salt = file.log[0].salt /\ index.hdr.mx <= hdr.mx /\ End = hdr.mx
        /\ End > 0 => file.log[End].sum = hdr.sum
    BY <2>1 DEF ChainInv
  <2>3. index.hdr.mx = hdr.mx /\ index.hdr.mx > 0
    BY <1>1, <1>3, <2>2
  <2>4. index.hdr.salt = file.log[0].salt /\ index.hdr.sum = file.log[index.hdr.mx].sum
    BY <2>3 DEF IndexInv
  <2>5. hdr.salt = index.hdr.salt /\ hdr.sum = index.hdr.sum
    BY <2>2, <2>3, <2>4
  <2> QED
    BY <1>1, <2>3, <2>5 DEF Header
<1> QED
  BY <1>1, <1>2, <1>3

\* What is read of a page that the transaction has not changed, or has spilled.
LEMMA FetchIs ==
    ASSUME TypeInv, IndexInv, HeaderInv, ChainInv, ModsInv, pc \in {"read", "write"},
           NEW p \in Pages, p \notin dirty
    PROVE  Fetch(p) = Result[p]
<1>1. /\ hdr.mx \in Nat /\ index.hdr.mx \in Nat
      /\ hdr.mx \in 0 .. MaxFrames /\ index.hdr.mx \in 0 .. MaxFrames
  BY SlotsAre DEF TypeInv, HeadersType, Header
<1>2. /\ Content(file.log, index.hdr.mx, file.db) = current
      /\ index.backfill = index.hdr.mx => file.db = current
  BY DEF IndexInv
<1>3. CASE p \in mods
  <2>1. pc = "write"
    BY <1>3 DEF TypeInv, PagerType, Txn
  <2>2. Logged(p, hdr.mx)
    BY <1>3, <2>1 DEF ModsInv, Txn
  <2>3. hdr.mx > index.hdr.mx
    BY <1>1, <2>2 DEF Logged
  <2>4. usesLog
    BY <1>1, <2>1, <2>3 DEF HeaderInv
  <2>5. Begun
    BY <1>1, <2>1, <2>3 DEF Begun
  <2>6. /\ End = hdr.mx
        /\ \A i \in index.hdr.mx + 1 .. End : file.log[i].txn = txns /\ file.log[i].pg \in mods
    BY <2>1, <2>5 DEF ChainInv
  <2>7. Content(file.log, hdr.mx, file.db)[p] = Result[p]
    BY <1>1, <1>2, <2>2, <2>3, <2>6, TxnContent DEF Logged
  <2>8. file = [db |-> file.db, log |-> file.log]
    BY DEF TypeInv, FilesType
  <2>9. Content(file.log, hdr.mx, file.db)[p] = PageAt(file, hdr.mx, p)
    BY <2>8 DEF Content
  <2> QED
    BY <2>4, <2>7, <2>9 DEF Fetch
<1>4. CASE p \notin mods
  <2>1. Result[p] = current[p]
    BY <1>4 DEF Result
  <2>2. CASE ~usesLog
    <3>1. index.backfill = index.hdr.mx
      BY <2>2 DEF HeaderInv, Txn
    <3> QED
      BY <1>2, <2>1, <2>2, <3>1 DEF Fetch
  <2>3. CASE usesLog
    <3>1. Content(file.log, hdr.mx, file.db)[p] = Result[p]
      <4>1. CASE hdr.mx = index.hdr.mx
        BY <1>2, <2>1, <4>1
      <4>2. CASE hdr.mx # index.hdr.mx
        <5>1. pc = "write" /\ hdr.mx > 0
          BY <1>1, <4>2 DEF HeaderInv
        <5>2. Begun
          BY <5>1 DEF Begun
        <5>3. /\ End = hdr.mx /\ index.hdr.mx <= hdr.mx
              /\ \A i \in index.hdr.mx + 1 .. End : file.log[i].txn = txns /\ file.log[i].pg \in mods
          BY <5>1, <5>2 DEF ChainInv
        <5> QED
          BY <1>1, <1>2, <1>4, <5>3, TxnContent
      <4> QED
        BY <4>1, <4>2
    <3>2. file = [db |-> file.db, log |-> file.log]
      BY DEF TypeInv, FilesType
    <3>3. Content(file.log, hdr.mx, file.db)[p] = PageAt(file, hdr.mx, p)
      BY <3>2 DEF Content
    <3> QED
      BY <2>3, <3>1, <3>3 DEF Fetch
  <2> QED
    BY <2>2, <2>3
<1> QED
  BY <1>3, <1>4

-----------------------------------------------------------------------------
(* What is found whatever happens.                                         *)

\* A loss of power may leave the log as it is.
LEMMA MixSelf == FilesType => Mix(file.log)
BY DEF Mix

\* A log that has been synced is all there.
LEMMA MixSynced ==
    ASSUME disk.log = file.log, NEW log, Mix(log)
    PROVE  \A i \in Slots : log[i] = file.log[i]
BY DEF Mix

\* What is guaranteed of a log is still there, and valid, after a loss of power.
LEMMA MixPrefix ==
    ASSUME NEW g \in Slots, Guaranteed(g), NEW log, Mix(log)
    PROVE  /\ \A i \in 1 .. g : log[i] = file.log[i]
           /\ g > 0 => /\ \A i \in 0 .. g : log[i] = file.log[i]
                       /\ Valid(log, g) /\ log[g].commit
<1>1. g \in 0 .. MaxFrames /\ MaxFrames \in Nat /\ \A i \in 0 .. g : i \in Slots
  BY SlotsAre
<1>2. ASSUME g > 0 PROVE \A i \in 0 .. g : log[i] = file.log[i]
  BY <1>1, <1>2 DEF Guaranteed, Mix
<1>3. ASSUME g > 0 PROVE Valid(log, g) /\ log[g].commit
  <2>1. Valid(file.log, g) /\ file.log[g].commit
    BY <1>3 DEF Guaranteed
  <2>2. Valid(log, g)
    BY <1>1, <1>2, <1>3, <2>1, ValidSame
  <2>3. g \in 0 .. g
    BY <1>1
  <2> QED
    BY <1>2, <1>3, <2>1, <2>2, <2>3
<1> QED
  BY <1>1, <1>2, <1>3

\* Whatever is left of the files, a start finds what was told of, or the commit that
\* is under way.
LEMMA FoundGood ==
    ASSUME FilesType, NEW g \in Slots, Guaranteed(g), NEW log, Mix(log),
           NEW db, \A p \in Pages : disk.db[p] = file.db[p] => db[p] = file.db[p]
    PROVE  Found([db |-> db, log |-> log]) \in Good
<1> DEFINE k == Recovered(log).mx
<1>1. g \in 0 .. MaxFrames /\ k \in 0 .. MaxFrames /\ MaxFrames \in Nat
  BY SlotsAre, RecoveredIs
<1>2. g <= k
  <2>1. CASE g = 0
    BY <1>1, <2>1
  <2>2. CASE g > 0
    <3>1. Valid(log, g) /\ log[g].commit
      BY <2>2, MixPrefix
    <3>2. g \in 1 .. MaxFrames
      BY <1>1, <2>2
    <3> QED
      BY <3>1, <3>2, RecoveredIs
  <2> QED
    BY <1>1, <2>1, <2>2
<1>3. Valid(log, k) /\ (k = g \/ log[k].commit)
  <2>1. CASE k = 0
    <3>1. g = 0
      BY <1>1, <1>2, <2>1
    <3>2. Valid(log, 0)
      BY DEF Valid
    <3> QED
      BY <2>1, <3>1, <3>2
  <2>2. CASE k > 0
    BY <2>2, RecoveredIs
  <2> QED
    BY <1>1, <2>1, <2>2
<1> HIDE DEF k
<1>4. Content(log, k, file.db) \in Good
  <2>1. k \in g .. MaxFrames
    BY <1>1, <1>2
  <2> QED
    BY <1>3, <2>1 DEF Guaranteed
<1>5. ASSUME NEW p \in Pages, \A i \in 1 .. k : log[i].pg # p PROVE db[p] = file.db[p]
  <2>1. \A i \in 1 .. g : file.log[i].pg # p
    <3> SUFFICES ASSUME NEW i \in 1 .. g PROVE file.log[i].pg # p
      OBVIOUS
    <3>1. i \in 1 .. k
      BY <1>1, <1>2
    <3>2. log[i] = file.log[i]
      BY MixPrefix
    <3> QED
      BY <1>5, <3>1, <3>2
  <2>2. disk.db[p] = file.db[p]
    BY <2>1 DEF Guaranteed
  <2> QED
    BY <2>2
<1>6. Content(log, k, db) = Content(log, k, file.db)
  <2>1. k \in Nat
    BY <1>1
  <2>2. \A p \in Pages : (\A i \in 1 .. k : log[i].pg # p) => db[p] = file.db[p]
    BY <1>5
  <2> QED
    BY <2>1, <2>2, ContentDb
<1>7. Found([db |-> db, log |-> log]) = Content(log, k, db)
  BY FoundIs DEF k
<1> QED
  BY <1>4, <1>6, <1>7

\* The end of the process leaves files in which a start finds no less.
LEMMA FoundFile ==
    ASSUME FilesType, GuaranteedInv
    PROVE  Found(file) \in Good
<1>1. PICK g \in Slots : Guaranteed(g)
  BY DEF GuaranteedInv
<1>2. Found([db |-> file.db, log |-> file.log]) \in Good
  BY <1>1, MixSelf, FoundGood
<1>3. file = [db |-> file.db, log |-> file.log]
  BY DEF FilesType
<1> QED
  BY <1>2, <1>3
-----------------------------------------------------------------------------
(* What the actions do to the records.                                     *)

\* The two headers are records with these fields.
LEMMA HeadersAre ==
    ASSUME HeadersType
    PROVE  /\ hdr = [mx |-> hdr.mx, salt |-> hdr.salt, sum |-> hdr.sum]
           /\ index.hdr = [mx |-> index.hdr.mx, salt |-> index.hdr.salt, sum |-> index.hdr.sum]
           /\ hdr.mx \in 0 .. MaxFrames /\ index.hdr.mx \in 0 .. MaxFrames /\ MaxFrames \in Nat \ {0}
           /\ hdr.salt \in Nat /\ index.hdr.salt \in Nat
           /\ hdr.sum \in Seq(Link) /\ index.hdr.sum \in Seq(Link)
           /\ Len(hdr.sum) \in 0 .. MaxFrames + 1 /\ Len(index.hdr.sum) \in 0 .. MaxFrames + 1
           /\ End \in -1 .. MaxFrames /\ Len(hdr.sum) = End + 1
<1>1. hdr \in Header /\ index.hdr \in Header
  BY DEF HeadersType
<1>2. /\ hdr = [mx |-> hdr.mx, salt |-> hdr.salt, sum |-> hdr.sum]
      /\ index.hdr = [mx |-> index.hdr.mx, salt |-> index.hdr.salt, sum |-> index.hdr.sum]
      /\ hdr.mx \in 0 .. MaxFrames /\ index.hdr.mx \in 0 .. MaxFrames /\ MaxFrames \in Nat \ {0}
      /\ hdr.salt \in Nat /\ index.hdr.salt \in Nat
      /\ hdr.sum \in Seq(Link) /\ index.hdr.sum \in Seq(Link)
  BY <1>1, SlotsAre DEF Header
<1>3. Len(hdr.sum) \in Nat /\ Len(index.hdr.sum) \in Nat
  BY <1>2
<1>4. Len(hdr.sum) \in 0 .. MaxFrames + 1 /\ Len(index.hdr.sum) \in 0 .. MaxFrames + 1
  BY <1>2, <1>3 DEF HeadersType
<1>5. End \in -1 .. MaxFrames /\ Len(hdr.sum) = End + 1
  BY <1>2, <1>4 DEF End
<1> QED
  BY <1>2, <1>4, <1>5

\* walRestartLog: the log is begun anew, or nothing happens to the headers.
LEMMA StartFramesDoes ==
    ASSUME HeadersType, NEW pages, NEW ends, StartFrames(pages, ends)
    PROVE  \/ /\ ~usesLog /\ index.backfill > 0 /\ pc' = "header"
              /\ hdr' = [mx |-> 0, salt |-> hdr.salt, sum |-> hdr.sum]
              /\ hdr'.mx = 0 /\ hdr'.salt = hdr.salt /\ hdr'.sum = hdr.sum
              /\ index'.hdr = hdr' /\ index'.backfill = 0
              /\ index' = [hdr |-> index'.hdr, backfill |-> index'.backfill]
           \/ /\ usesLog \/ ~(index.backfill > 0)
              /\ hdr' = hdr /\ index' = index
              /\ pc' = IF hdr.mx = 0 THEN "header" ELSE "frame"
<1>1. hdr = [mx |-> hdr.mx, salt |-> hdr.salt, sum |-> hdr.sum]
  BY HeadersAre
<1>2. CASE ~usesLog /\ index.backfill > 0
  <2>1. hdr' = [hdr EXCEPT !.mx = 0] /\ index' = [hdr |-> hdr', backfill |-> 0]
        /\ pc' = IF hdr'.mx = 0 THEN "header" ELSE "frame"
    BY <1>2 DEF StartFrames
  <2>2. hdr' = [mx |-> 0, salt |-> hdr.salt, sum |-> hdr.sum]
    BY <1>1, <2>1
  <2>3. hdr'.mx = 0 /\ hdr'.salt = hdr.salt /\ hdr'.sum = hdr.sum
    BY <2>2
  <2>4. index'.hdr = hdr' /\ index'.backfill = 0
    BY <2>1
  <2>5. index' = [hdr |-> index'.hdr, backfill |-> index'.backfill]
    BY <2>1, <2>4
  <2>6. pc' = "header"
    BY <2>1, <2>3
  <2> QED
    BY <1>2, <2>2, <2>3, <2>4, <2>5, <2>6
<1>3. CASE ~(~usesLog /\ index.backfill > 0)
  <2>1. hdr' = hdr /\ index' = index /\ pc' = IF hdr'.mx = 0 THEN "header" ELSE "frame"
    BY <1>3 DEF StartFrames
  <2>2. pc' = IF hdr.mx = 0 THEN "header" ELSE "frame"
    BY <2>1
  <2> QED
    BY <1>3, <2>1, <2>2
<1> QED
  BY <1>2, <1>3

\* sqlite3WalFrames writes the header of a new log, under a new salt.
LEMMA WriteHeaderDoes ==
    ASSUME TypeInv, WriteHeader
    PROVE  /\ file'.db = file.db /\ file' = [db |-> file'.db, log |-> file'.log]
           /\ file'.log = [i \in Slots |-> file'.log[i]]
           /\ \A i \in 1 .. MaxFrames : file'.log[i] = file.log[i]
           /\ file'.log[0].salt = salts + 1 /\ file'.log[0] # NoFrame
           /\ salts' = salts + 1 /\ salts + 1 \in Nat \ {0}
           /\ hdr' = [mx |-> hdr.mx, salt |-> salts + 1, sum |-> <<salts + 1>>]
           /\ hdr'.mx = hdr.mx /\ hdr'.salt = salts + 1 /\ hdr'.sum = <<salts + 1>>
           /\ Len(hdr'.sum) = 1 /\ hdr'.sum[1] = salts + 1 /\ End' = 0
<1> DEFINE H == [NoFrame EXCEPT !.salt = salts + 1]
<1>1. salts' = salts + 1 /\ salts \in Nat
  BY DEF TypeInv, FilesType, WriteHeader
<1>2. H.salt = salts + 1
  BY DEF NoFrame
<1>3. NoFrame.salt = 0
  BY DEF NoFrame
<1> HIDE DEF H
<1>4. /\ file' = [file EXCEPT !.log[0] = H]
      /\ hdr' = [hdr EXCEPT !.salt = salts', !.sum = <<salts'>>]
  BY <1>1 DEF WriteHeader, H
<1>5. /\ file = [db |-> file.db, log |-> file.log] /\ file.log = [i \in Slots |-> file.log[i]]
      /\ MaxFrames \in Nat \ {0} /\ Slots = 0 .. MaxFrames
  BY SlotsAre DEF TypeInv, FilesType
<1>6. file' = [db |-> file.db, log |-> [file.log EXCEPT ![0] = H]]
  BY <1>4, <1>5
<1>7. file'.db = file.db /\ file'.log = [file.log EXCEPT ![0] = H]
  BY <1>6
<1>8. file'.log[0] = H /\ \A i \in 1 .. MaxFrames : file'.log[i] = file.log[i]
  <2>1. 0 \in Slots /\ \A i \in 1 .. MaxFrames : i \in Slots /\ i # 0
    BY <1>5
  <2> QED
    BY <1>5, <1>7, <2>1
<1>9. file'.log = [i \in Slots |-> file'.log[i]]
  BY <1>5, <1>7
<1>10. hdr' = [mx |-> hdr.mx, salt |-> salts + 1, sum |-> <<salts + 1>>]
  <2>1. hdr = [mx |-> hdr.mx, salt |-> hdr.salt, sum |-> hdr.sum]
    BY HeadersAre DEF TypeInv
  <2>2. hdr' = [hdr EXCEPT !.salt = salts + 1, !.sum = <<salts + 1>>]
    BY <1>1, <1>4
  <2> QED
    BY <2>1, <2>2
<1>11. hdr'.mx = hdr.mx /\ hdr'.salt = salts + 1 /\ hdr'.sum = <<salts + 1>>
  BY <1>10
<1>12. Len(hdr'.sum) = 1 /\ hdr'.sum[1] = salts + 1
  BY <1>11
<1>13. End' = 0
  BY <1>12 DEF End
<1>14. file' = [db |-> file'.db, log |-> file'.log]
  BY <1>6, <1>7
<1>15. H # NoFrame
  BY <1>1, <1>2, <1>3
<1> QED
  BY <1>1, <1>2, <1>3, <1>7, <1>8, <1>9, <1>10, <1>11, <1>12, <1>13, <1>14,
     <1>15

\* The frame that is written next.
NextFrame ==
    LET mark == commit /\ Len(list) = 1
    IN  [salt |-> hdr.salt, pg |-> Head(list), txn |-> txns, commit |-> mark,
         sum |-> Checksum(hdr.sum, Head(list), txns, mark)]

\* sqlite3WalFrames writes one frame behind the chain, and the chain goes on from it.
LEMMA WriteFrameDoes ==
    ASSUME TypeInv, ChainInv, ModsInv, WriteFrame
    PROVE  /\ file'.db = file.db /\ file' = [db |-> file'.db, log |-> file'.log]
           /\ file'.log = [i \in Slots |-> file'.log[i]]
           /\ End \in 0 .. MaxFrames - 1 /\ End + 1 \in 1 .. MaxFrames
           /\ \A i \in Slots : i # End + 1 => file'.log[i] = file.log[i]
           /\ file'.log[End + 1] = NextFrame /\ NextFrame \in Frame
           /\ NextFrame.salt = hdr.salt /\ NextFrame.txn = txns /\ NextFrame.pg = list[1]
           /\ NextFrame.commit = (commit /\ Len(list) = 1)
           /\ NextFrame.sum = Append(hdr.sum, <<list[1], txns, NextFrame.commit>>)
           /\ NextFrame.sum \in Seq(Link) /\ Len(NextFrame.sum) = End + 2
           /\ NextFrame.sum[1] = hdr.salt
           /\ NextFrame.sum[End + 2] = <<list[1], txns, NextFrame.commit>>
           /\ \A x \in 1 .. End + 1 : NextFrame.sum[x] = hdr.sum[x]
           /\ hdr' = [mx |-> hdr.mx, salt |-> hdr.salt, sum |-> NextFrame.sum]
           /\ hdr'.mx = hdr.mx /\ hdr'.salt = hdr.salt /\ hdr'.sum = NextFrame.sum
           /\ End' = End + 1
           /\ list[1] \in dirty /\ list[1] \in mods /\ list[1] \in Pages
           /\ list \in Seq(Pages) /\ Len(list) \in Nat \ {0} /\ list # <<>>
<1>1. /\ pc = "frame" /\ Len(hdr.sum) <= MaxFrames
      /\ Begun
  BY DEF WriteFrame, Begun
<1>2. /\ hdr = [mx |-> hdr.mx, salt |-> hdr.salt, sum |-> hdr.sum]
      /\ hdr.salt \in Nat /\ hdr.sum \in Seq(Link) /\ MaxFrames \in Nat \ {0}
      /\ Len(hdr.sum) \in Nat /\ Len(hdr.sum) = End + 1 /\ End \in Int
  BY HeadersAre DEF TypeInv
<1>3. hdr.salt > 0 /\ Len(hdr.sum) > 0 /\ hdr.sum[1] = hdr.salt
  BY <1>1 DEF ChainInv
<1>4. /\ list \in Seq(Pages) /\ Len(list) \in Nat \ {0} /\ list # <<>>
      /\ list[1] \in dirty /\ list[1] \in mods /\ list[1] \in Pages
  <2>1. list \in Seq(Pages) /\ dirty \subseteq mods /\ mods \subseteq Pages
    BY DEF TypeInv, PagerType
  <2>2. list # <<>> /\ \A i \in 1 .. Len(list) : list[i] \in dirty
    BY <1>1 DEF ModsInv, Txn
  <2>3. Len(list) \in Nat \ {0}
    BY <2>1, <2>2
  <2> QED
    BY <2>1, <2>2, <2>3
<1>5. txns \in Nat /\ commit \in BOOLEAN /\ Head(list) = list[1]
  BY <1>4 DEF TypeInv, FilesType, PagerType
<1> DEFINE mark == commit /\ Len(list) = 1
           sum == Append(hdr.sum, <<list[1], txns, mark>>)
<1>6. mark \in BOOLEAN /\ <<list[1], txns, mark>> \in Link
  BY <1>4, <1>5 DEF Link
<1>7. NextFrame = [salt |-> hdr.salt, pg |-> list[1], txn |-> txns, commit |-> mark, sum |-> sum]
  BY <1>5 DEF NextFrame, Checksum
<1>8. /\ sum \in Seq(Link) /\ Len(sum) = Len(hdr.sum) + 1
      /\ sum[Len(hdr.sum) + 1] = <<list[1], txns, mark>>
      /\ \A x \in 1 .. Len(hdr.sum) : sum[x] = hdr.sum[x]
  BY <1>2, <1>6
<1>9. /\ file' = [file EXCEPT !.log[Len(hdr.sum)] = NextFrame]
      /\ hdr' = [hdr EXCEPT !.sum = NextFrame.sum]
  BY <1>5, <1>7 DEF WriteFrame, Checksum
<1> HIDE DEF mark, sum
<1>10. /\ NextFrame.salt = hdr.salt /\ NextFrame.pg = list[1] /\ NextFrame.txn = txns
       /\ NextFrame.commit = mark /\ NextFrame.sum = sum
  BY <1>7
<1>11. NextFrame \in Frame
  BY <1>2, <1>3, <1>4, <1>5, <1>6, <1>7, <1>8 DEF Frame
<1>12. hdr' = [mx |-> hdr.mx, salt |-> hdr.salt, sum |-> NextFrame.sum]
  BY <1>2, <1>9
<1>13. hdr'.mx = hdr.mx /\ hdr'.salt = hdr.salt /\ hdr'.sum = NextFrame.sum
  BY <1>12
<1>14. End \in 0 .. MaxFrames - 1 /\ End + 1 \in 1 .. MaxFrames
  BY <1>1, <1>2, <1>3
<1>15. End' = End + 1
  <2>1. Len(hdr'.sum) = Len(hdr.sum) + 1
    BY <1>8, <1>10, <1>13
  <2> QED
    BY <1>2, <2>1 DEF End
<1>16. /\ file = [db |-> file.db, log |-> file.log] /\ file.log = [i \in Slots |-> file.log[i]]
       /\ Slots = 0 .. MaxFrames
  BY SlotsAre DEF TypeInv, FilesType
<1>17. file' = [db |-> file.db, log |-> [file.log EXCEPT ![End + 1] = NextFrame]]
  BY <1>2, <1>9, <1>16
<1>18. file'.db = file.db /\ file'.log = [file.log EXCEPT ![End + 1] = NextFrame]
  BY <1>17
<1>19. /\ file' = [db |-> file'.db, log |-> file'.log]
       /\ file'.log = [i \in Slots |-> file'.log[i]]
  BY <1>16, <1>17, <1>18
<1>20. /\ file'.log[End + 1] = NextFrame
       /\ \A i \in Slots : i # End + 1 => file'.log[i] = file.log[i]
  <2>1. End + 1 \in Slots
    BY <1>2, <1>14, <1>16
  <2> QED
    BY <1>16, <1>18, <2>1
<1>21. /\ NextFrame.commit = (commit /\ Len(list) = 1)
       /\ NextFrame.sum = Append(hdr.sum, <<list[1], txns, NextFrame.commit>>)
  BY <1>10 DEF mark, sum
<1>22. /\ NextFrame.sum \in Seq(Link) /\ Len(NextFrame.sum) = End + 2
       /\ NextFrame.sum[1] = hdr.salt
       /\ NextFrame.sum[End + 2] = <<list[1], txns, NextFrame.commit>>
       /\ \A x \in 1 .. End + 1 : NextFrame.sum[x] = hdr.sum[x]
  <2>1. Len(hdr.sum) + 1 = End + 2 /\ 1 \in 1 .. Len(hdr.sum)
    BY <1>2, <1>3
  <2> QED
    BY <1>2, <1>3, <1>8, <1>10, <2>1
<1> QED
  BY <1>4, <1>10, <1>11, <1>12, <1>13, <1>14, <1>15, <1>18, <1>19, <1>20, <1>21, <1>22

\* The connection's header catches up with the chain after a spill.
LEMMA SpilledDoes ==
    ASSUME HeadersType, Spilled
    PROVE  /\ hdr' = [mx |-> End, salt |-> hdr.salt, sum |-> hdr.sum]
           /\ hdr'.mx = End /\ hdr'.salt = hdr.salt /\ hdr'.sum = hdr.sum /\ End' = End
           /\ dirty' = dirty \ {file.log[End].pg}
           /\ cache' = [cache EXCEPT ![file.log[End].pg] = None]
<1>1. /\ hdr = [mx |-> hdr.mx, salt |-> hdr.salt, sum |-> hdr.sum]
      /\ hdr' = [hdr EXCEPT !.mx = End]
  BY HeadersAre DEF Spilled, End
<1>2. hdr' = [mx |-> End, salt |-> hdr.salt, sum |-> hdr.sum]
  BY <1>1
<1>3. hdr'.mx = End /\ hdr'.salt = hdr.salt /\ hdr'.sum = hdr.sum
  BY <1>2
<1>4. /\ dirty' = dirty \ {file.log[hdr'.mx].pg}
      /\ cache' = [cache EXCEPT ![file.log[hdr'.mx].pg] = None]
  BY DEF Spilled
<1>5. End' = End
  BY <1>3 DEF End
<1> QED
  BY <1>2, <1>3, <1>4, <1>5

\* The wal-index gets the connection's header, caught up with the chain.
LEMMA PublishDoes ==
    ASSUME HeadersType, Publish
    PROVE  /\ hdr' = [mx |-> End, salt |-> hdr.salt, sum |-> hdr.sum]
           /\ hdr'.mx = End /\ hdr'.salt = hdr.salt /\ hdr'.sum = hdr.sum
           /\ index'.hdr = hdr' /\ index'.backfill = index.backfill
           /\ index' = [hdr |-> index'.hdr, backfill |-> index'.backfill]
           /\ index'.hdr.mx = End /\ index'.hdr.salt = hdr.salt /\ index'.hdr.sum = hdr.sum
<1>1. /\ hdr = [mx |-> hdr.mx, salt |-> hdr.salt, sum |-> hdr.sum]
      /\ hdr' = [hdr EXCEPT !.mx = End]
  BY HeadersAre DEF Publish, End
<1>2. hdr' = [mx |-> End, salt |-> hdr.salt, sum |-> hdr.sum]
  BY <1>1
<1>3. hdr'.mx = End /\ hdr'.salt = hdr.salt /\ hdr'.sum = hdr.sum
  BY <1>2
<1>4. /\ index = [hdr |-> index.hdr, backfill |-> index.backfill]
      /\ index' = [index EXCEPT !.hdr = hdr']
  BY DEF HeadersType, Publish
<1>5. index' = [hdr |-> hdr', backfill |-> index.backfill]
  BY <1>4
<1>6. /\ index'.hdr = hdr' /\ index'.backfill = index.backfill
      /\ index' = [hdr |-> index'.hdr, backfill |-> index'.backfill]
  BY <1>5
<1> QED
  BY <1>2, <1>3, <1>6

\* walCheckpoint syncs the database and notes what has been copied.
LEMMA EndCheckpointDoes ==
    ASSUME TypeInv, EndCheckpoint
    PROVE  /\ index'.hdr = index.hdr /\ index'.backfill = index.hdr.mx
           /\ index' = [hdr |-> index'.hdr, backfill |-> index'.backfill]
           /\ disk'.log = disk.log /\ disk'.db = file.db
           /\ disk' = [db |-> disk'.db, log |-> disk'.log]
<1>1. /\ index = [hdr |-> index.hdr, backfill |-> index.backfill]
      /\ disk = [db |-> disk.db, log |-> disk.log]
  BY DEF TypeInv, HeadersType, FilesType
<1>2. /\ index' = [index EXCEPT !.backfill = index.hdr.mx]
      /\ disk' = [disk EXCEPT !.db = file.db]
  BY DEF EndCheckpoint
<1>3. /\ index' = [hdr |-> index.hdr, backfill |-> index.hdr.mx]
      /\ disk' = [db |-> file.db, log |-> disk.log]
  BY <1>1, <1>2
<1>4. index'.hdr = index.hdr /\ index'.backfill = index.hdr.mx
  BY <1>3
<1>5. disk'.log = disk.log /\ disk'.db = file.db
  BY <1>3
<1> QED
  BY <1>3, <1>4, <1>5

\* A sync of the log, before a commit is reported or a checkpoint copies.
LEMMA SyncDoes ==
    ASSUME FilesType, SyncLog \/ StartCheckpoint
    PROVE  /\ disk'.log = file.log /\ disk'.db = disk.db /\ file' = file
           /\ disk' = [db |-> disk'.db, log |-> disk'.log]
<1>1. /\ disk = [db |-> disk.db, log |-> disk.log]
      /\ disk' = [disk EXCEPT !.log = file.log] /\ file' = file
  BY DEF FilesType, SyncLog, StartCheckpoint
<1>2. disk' = [db |-> disk.db, log |-> file.log]
  BY <1>1
<1>3. disk'.log = file.log /\ disk'.db = disk.db
  BY <1>2
<1> QED
  BY <1>1, <1>2, <1>3

\* A page that is copied has a frame in the log, and its content there.
LEMMA CopyPageDoes ==
    ASSUME TypeInv, CopyInv, CopyPage
    PROVE  \E p \in Pages :
              LET f == LastFrame(file.log, index.hdr.mx, p)
              IN  /\ f \in 1 .. index.hdr.mx /\ file.log[f].pg = p
                  /\ \A i \in f + 1 .. index.hdr.mx : file.log[i].pg # p
                  /\ file'.db = [file.db EXCEPT ![p] = file.log[f].txn]
                  /\ file'.log = file.log /\ file' = [db |-> file'.db, log |-> file'.log]
                  /\ toCopy' = [toCopy EXCEPT ![p] = None]
<1>1. PICK p \in LeftToCopy :
         /\ file' = [file EXCEPT !.db[p] = file.log[toCopy[p]].txn]
         /\ toCopy' = [toCopy EXCEPT ![p] = None]
  BY DEF CopyPage
<1>2. pc = "copy" /\ index.backfill = 0
  BY DEF CopyPage, CopyInv
<1>3. p \in Pages /\ toCopy[p] > 0
  BY <1>1, <1>2 DEF LeftToCopy
<1>4. toCopy[p] = LastFrame(file.log, index.hdr.mx, p)
  <2>1. toCopy[p] # None
    BY <1>3 DEF None
  <2> QED
    BY <1>2, <1>3, <2>1 DEF CopyInv
<1>5. index.hdr.mx \in Nat
  BY HeadersAre DEF TypeInv
<1>6. /\ LastFrame(file.log, index.hdr.mx, p) \in 1 .. index.hdr.mx
      /\ file.log[LastFrame(file.log, index.hdr.mx, p)].pg = p
      /\ \A i \in LastFrame(file.log, index.hdr.mx, p) + 1 .. index.hdr.mx : file.log[i].pg # p
  <2> DEFINE f == LastFrame(file.log, index.hdr.mx, p)
  <2>1. f \in 0 .. index.hdr.mx /\ f > 0
    BY <1>3, <1>4, <1>5, LastFrameIs
  <2>2. /\ f > 0 => file.log[f].pg = p
        /\ \A i \in f + 1 .. index.hdr.mx : file.log[i].pg # p
    BY <1>5, LastFrameIs
  <2> QED
    BY <2>1, <2>2
<1>7. file = [db |-> file.db, log |-> file.log]
  BY DEF TypeInv, FilesType
<1>8. file' = [db |-> [file.db EXCEPT ![p] = file.log[toCopy[p]].txn], log |-> file.log]
  BY <1>1, <1>7
<1>9. file'.db = [file.db EXCEPT ![p] = file.log[toCopy[p]].txn] /\ file'.log = file.log
  BY <1>8
<1>10. file' = [db |-> file'.db, log |-> file'.log]
  BY <1>8, <1>9
<1> QED
  BY <1>1, <1>3, <1>4, <1>6, <1>9, <1>10

\* Each slot and page that a loss of power leaves.
LEMMA SurvivorsAre ==
    ASSUME NEW S, NEW old, old = [i \in S |-> old[i]], NEW new, NEW torn,
           NEW x \in Survivors(old, new, torn)
    PROVE  /\ x = [i \in S |-> x[i]]
           /\ \A i \in S : x[i] \in {old[i], new[i], torn} /\ (old[i] = new[i] => x[i] = new[i])
<1>1. DOMAIN old = S
  OBVIOUS
<1> DEFINE U == {i \in DOMAIN old : old[i] # new[i]}
<1>2. PICK g \in [U -> {"old", "new", "torn"}] :
         x = [i \in DOMAIN old |-> IF i \notin U \/ g[i] = "old" THEN old[i]
                                   ELSE IF g[i] = "new" THEN new[i] ELSE torn]
  BY DEF Survivors
<1>3. x = [i \in S |-> IF i \notin U \/ g[i] = "old" THEN old[i]
                       ELSE IF g[i] = "new" THEN new[i] ELSE torn]
  BY <1>1, <1>2
<1>4. x = [i \in S |-> x[i]]
  BY <1>3
<1>5. ASSUME NEW i \in S
      PROVE  x[i] \in {old[i], new[i], torn} /\ (old[i] = new[i] => x[i] = new[i])
  <2>1. x[i] = IF i \notin U \/ g[i] = "old" THEN old[i]
               ELSE IF g[i] = "new" THEN new[i] ELSE torn
    BY <1>3
  <2>2. i \in U <=> old[i] # new[i]
    BY <1>1
  <2> QED
    BY <2>1, <2>2
<1> QED
  BY <1>4, <1>5

\* After a loss of power each place has an old, a new or a torn content.
LEMMA PowerLossDoes ==
    ASSUME FilesType, PowerLoss
    PROVE  /\ disk' = file' /\ file' = [db |-> file'.db, log |-> file'.log]
           /\ file'.log = [i \in Slots |-> file'.log[i]]
           /\ file'.db = [p \in Pages |-> file'.db[p]]
           /\ \A i \in Slots : /\ file'.log[i] \in {disk.log[i], file.log[i], NoFrame}
                               /\ disk.log[i] = file.log[i] => file'.log[i] = file.log[i]
           /\ \A p \in Pages : /\ file'.db[p] \in {disk.db[p], file.db[p], Torn}
                               /\ disk.db[p] = file.db[p] => file'.db[p] = file.db[p]
           /\ broken' = IF Overtaken(file'.log) THEN broken \cup {"overtaken"} ELSE broken
<1>1. PICK log \in Survivors(disk.log, file.log, NoFrame), db \in Survivors(disk.db, file.db, Torn) :
         /\ file' = [db |-> db, log |-> log]
         /\ broken' = IF Overtaken(log) THEN broken \cup {"overtaken"} ELSE broken
  BY DEF PowerLoss
<1>2. disk.log = [i \in Slots |-> disk.log[i]] /\ disk.db = [p \in Pages |-> disk.db[p]]
  BY DEF FilesType
<1>3. /\ log = [i \in Slots |-> log[i]]
      /\ \A i \in Slots : /\ log[i] \in {disk.log[i], file.log[i], NoFrame}
                          /\ disk.log[i] = file.log[i] => log[i] = file.log[i]
  BY <1>2, SurvivorsAre
<1>4. /\ db = [p \in Pages |-> db[p]]
      /\ \A p \in Pages : /\ db[p] \in {disk.db[p], file.db[p], Torn}
                          /\ disk.db[p] = file.db[p] => db[p] = file.db[p]
  BY <1>2, SurvivorsAre
<1>5. file'.db = db /\ file'.log = log
  BY <1>1
<1>6. disk' = file' /\ file' = [db |-> file'.db, log |-> file'.log]
  BY <1>1, <1>5 DEF PowerLoss
<1> QED
  BY <1>1, <1>3, <1>4, <1>5, <1>6

\* Without the process there is no wal-index.
LEMMA MemoryLostDoes ==
    ASSUME MemoryLost
    PROVE  /\ index'.hdr = NoHdr /\ index'.hdr.mx = 0 /\ index'.backfill = 0
           /\ index' = [hdr |-> index'.hdr, backfill |-> index'.backfill]
           /\ hdr' = NoHdr /\ pc' = "closed"
BY DEF MemoryLost, NoHdr
-----------------------------------------------------------------------------
(* Types.                                                                  *)

\* A transaction's result is a content of the database.
LEMMA ResultType == TypeInv => Result \in [Pages -> 0 .. txns]
<1> SUFFICES ASSUME TypeInv PROVE Result \in [Pages -> 0 .. txns]
  OBVIOUS
<1>0. Good \subseteq [Pages -> 0 .. txns] /\ txns \in 0 .. MaxTxns
  BY DEF TypeInv, FilesType
<1>1. current \in [Pages -> 0 .. txns] /\ txns \in Nat
  BY <1>0, WalAssumption DEF Good
<1>2. \A p \in Pages : current[p] \in 0 .. txns /\ txns \in 0 .. txns
  BY <1>1
<1> QED
  BY <1>2 DEF Result

\* The files' types hold as long as nothing is written.
LEMMA FilesQuiet ==
    ASSUME FilesType, UNCHANGED <<files, txns, salts, history>>
    PROVE  FilesType'
BY DEF FilesType, files, history, Good

\* Every step keeps the types of the files and of what may be found in them.
LEMMA FilesStep == TypeInv /\ WalInv /\ Next => FilesType'
<1> SUFFICES ASSUME TypeInv, WalInv, Next PROVE FilesType'
  OBVIOUS
<1>a. FilesType /\ HeadersType /\ PagerType
  BY DEF TypeInv
<1>b. /\ txns \in Nat /\ txns \in 0 .. MaxTxns /\ salts \in Nat /\ MaxTxns \in Nat
      /\ MaxFrames \in Nat \ {0} /\ Slots = 0 .. MaxFrames
  BY <1>a, SlotsAre, WalAssumption DEF FilesType
<1>c. /\ file = [db |-> file.db, log |-> file.log] /\ disk = [db |-> disk.db, log |-> disk.log]
      /\ file.db \in [Pages -> {Torn} \cup 0 .. txns] /\ disk.db \in [Pages -> {Torn} \cup 0 .. txns]
      /\ file.log = [i \in Slots |-> file.log[i]] /\ disk.log = [i \in Slots |-> disk.log[i]]
      /\ IsLog(file.log) /\ IsLog(disk.log)
      /\ \A i \in Slots : file.log[i].salt \in 0 .. salts /\ disk.log[i].salt \in 0 .. salts
  BY <1>a DEF FilesType
<1>d. Good \subseteq [Pages -> 0 .. txns] /\ broken \subseteq {"spilled", "overtaken"}
  BY <1>a DEF FilesType
<1>e. current \in [Pages -> 0 .. txns]
  BY <1>d DEF Good
<1>f. \A i \in Slots : file.log[i].salt \in 0 .. salts /\ disk.log[i].salt \in 0 .. salts
  BY <1>a DEF FilesType
<1>g. \A i \in 1 .. MaxFrames : i \in Slots /\ IsFrame(file.log[i], i) /\ IsFrame(disk.log[i], i)
  <2>1. IsLog(file.log) /\ IsLog(disk.log)
    BY <1>a DEF FilesType
  <2> QED
    BY <1>b, <2>1 DEF IsLog
<1>1. ASSUME Recover PROVE FilesType'
  <2>1. Found(file) \in Good
    BY <1>a, FoundFile DEF WalInv
  <2>2. Good' \subseteq Good \cup {Found(file)}
    BY <1>1 DEF Recover, Good
  <2>3. Good' \subseteq [Pages -> 0 .. txns]
    BY <1>d, <2>1, <2>2
  <2>4. UNCHANGED <<file, disk, txns, salts, broken>>
    BY <1>1 DEF Recover, files, bounds
  <2> QED
    BY <1>a, <2>3, <2>4 DEF FilesType
<1>2. ASSUME BeginRead \/ ReadPage \/ EndRead \/ Modify \/ Spill \/ Commit PROVE FilesType'
  BY <1>2, <1>a, FilesQuiet
     DEF BeginRead, ReadPage, EndRead, Modify, Spill, Commit, StartFrames, bounds
<1>3. ASSUME Spilled \/ Rollback \/ WriteFails \/ CheckpointFails \/ Kill PROVE FilesType'
  BY <1>3, <1>a, FilesQuiet DEF Spilled, Rollback, WriteFails, CheckpointFails, Kill, bounds
<1>4. ASSUME BeginWrite PROVE FilesType'
  <2>1. UNCHANGED <<file, disk, salts, current, pending, broken>> /\ txns' = txns + 1 /\ txns < MaxTxns
    BY <1>4 DEF BeginWrite, files, history
  <2>2. txns' \in 0 .. MaxTxns /\ 0 .. txns \subseteq 0 .. txns'
    BY <1>b, <2>1
  <2>3. /\ file.db \in [Pages -> {Torn} \cup 0 .. txns'] /\ disk.db \in [Pages -> {Torn} \cup 0 .. txns']
        /\ Good \subseteq [Pages -> 0 .. txns']
    BY <1>c, <1>d, <2>2
  <2>4. Good' = Good
    BY <2>1 DEF Good
  <2> QED
    BY <1>a, <2>1, <2>2, <2>3, <2>4 DEF FilesType
<1>5. ASSUME CommitNothing PROVE FilesType'
  <2>1. UNCHANGED <<file, disk, txns, salts, pending>> /\ current' = Result
    BY <1>5 DEF CommitNothing, files, bounds
  <2>2. broken' \subseteq {"spilled", "overtaken"}
    BY <1>5, <1>d DEF CommitNothing
  <2>3. Good' \subseteq [Pages -> 0 .. txns]
    BY <2>1, <1>d, ResultType DEF Good
  <2> QED
    BY <1>a, <2>1, <2>2, <2>3 DEF FilesType
<1>6. ASSUME WriteHeader PROVE FilesType'
  <2>1. UNCHANGED <<disk, txns, current, pending, broken>>
    BY <1>6 DEF WriteHeader, history
  <2>2. /\ file'.db = file.db /\ file' = [db |-> file'.db, log |-> file'.log]
        /\ file'.log = [i \in Slots |-> file'.log[i]]
        /\ \A i \in 1 .. MaxFrames : file'.log[i] = file.log[i]
        /\ file'.log[0].salt = salts + 1 /\ salts' = salts + 1
    BY <1>6, WriteHeaderDoes
  <2>3. IsLog(file'.log)
    BY <1>c, <2>2 DEF IsLog
  <2>4. \A i \in Slots : file'.log[i].salt \in 0 .. salts' /\ disk.log[i].salt \in 0 .. salts'
    <3> SUFFICES ASSUME NEW i \in Slots
                 PROVE  file'.log[i].salt \in 0 .. salts' /\ disk.log[i].salt \in 0 .. salts'
      OBVIOUS
    <3>1. i = 0 \/ i \in 1 .. MaxFrames
      BY <1>b
    <3>2. file.log[i].salt \in 0 .. salts /\ disk.log[i].salt \in 0 .. salts
      BY <1>c
    <3>3. file'.log[i].salt = file.log[i].salt \/ file'.log[i].salt = salts + 1
      BY <2>2, <3>1
    <3> QED
      BY <1>b, <2>2, <3>2, <3>3
  <2>5. salts' \in Nat /\ Good' = Good
    BY <1>b, <2>1, <2>2 DEF Good
  <2> QED
    BY <1>a, <1>b, <1>c, <2>1, <2>2, <2>3, <2>4, <2>5 DEF FilesType
<1>7. ASSUME WriteFrame PROVE FilesType'
  <2>1. UNCHANGED <<disk, txns, salts, current, broken>>
    BY <1>7 DEF WriteFrame, bounds
  <2> DEFINE s == End + 1
  <2>2. /\ file'.db = file.db /\ file' = [db |-> file'.db, log |-> file'.log]
        /\ file'.log = [i \in Slots |-> file'.log[i]]
        /\ s \in 1 .. MaxFrames
        /\ \A i \in Slots : i # s => file'.log[i] = file.log[i]
        /\ file'.log[s] = NextFrame /\ NextFrame \in Frame
        /\ NextFrame.salt = hdr.salt /\ NextFrame.pg = list[1] /\ NextFrame.txn = txns
        /\ Len(NextFrame.sum) = s + 1 /\ NextFrame.sum[1] = hdr.salt
        /\ NextFrame.sum[s + 1] = <<list[1], txns, NextFrame.commit>>
    <3>1. /\ Len(NextFrame.sum) = End + 2
          /\ NextFrame.sum[End + 2] = <<list[1], txns, NextFrame.commit>>
          /\ End \in Int
      BY <1>7, WriteFrameDoes DEF WalInv
    <3>2. End + 2 = s + 1
      BY <3>1
    <3>3. /\ file'.db = file.db /\ file' = [db |-> file'.db, log |-> file'.log]
          /\ file'.log = [i \in Slots |-> file'.log[i]]
          /\ s \in 1 .. MaxFrames
          /\ \A i \in Slots : i # s => file'.log[i] = file.log[i]
          /\ file'.log[s] = NextFrame /\ NextFrame \in Frame
          /\ NextFrame.salt = hdr.salt /\ NextFrame.pg = list[1] /\ NextFrame.txn = txns
          /\ NextFrame.sum[1] = hdr.salt
      BY <1>7, WriteFrameDoes DEF WalInv
    <3> QED
      BY <3>1, <3>2, <3>3
  <2> HIDE DEF s
  <2>3. IsFrame(NextFrame, s)
    BY <2>2 DEF IsFrame
  <2>4. IsLog(file'.log)
    <3> SUFFICES ASSUME NEW i \in 1 .. MaxFrames PROVE IsFrame(file'.log[i], i)
      BY DEF IsLog
    <3>1. CASE i = s
      BY <2>2, <2>3, <3>1
    <3>2. CASE i # s
      <4>1. i \in Slots /\ IsFrame(file.log[i], i)
        BY <1>g
      <4>2. file'.log[i] = file.log[i]
        BY <2>2, <3>2, <4>1
      <4> QED
        BY <4>1, <4>2
    <3> QED
      BY <3>1, <3>2
  <2>5. hdr.salt = file.log[0].salt
    BY <1>7 DEF WriteFrame, WalInv, ChainInv, Begun
  <2>6. \A i \in Slots : file'.log[i].salt \in 0 .. salts
    <3> SUFFICES ASSUME NEW i \in Slots PROVE file'.log[i].salt \in 0 .. salts
      OBVIOUS
    <3>1. 0 \in Slots
      BY <1>b
    <3>2. CASE i = s
      BY <1>f, <2>2, <2>5, <3>1, <3>2
    <3>3. CASE i # s
      BY <1>f, <2>2, <3>3
    <3> QED
      BY <3>2, <3>3
  <2>7. pending' = pending \/ pending' = pending \cup {Result}
    BY <1>7 DEF WriteFrame
  <2>8. Good' \subseteq [Pages -> 0 .. txns]
    BY <1>d, <2>1, <2>7, ResultType DEF Good
  <2> QED
    BY <1>a, <1>c, <2>1, <2>2, <2>4, <2>6, <2>8 DEF FilesType
<1>8. ASSUME SyncLog \/ StartCheckpoint PROVE FilesType'
  <2>1. UNCHANGED <<file, txns, salts, current, pending, broken>>
    BY <1>8 DEF SyncLog, StartCheckpoint, bounds, history
  <2>2. /\ disk'.log = file.log /\ disk'.db = disk.db
        /\ disk' = [db |-> disk'.db, log |-> disk'.log]
    BY <1>8, <1>a, SyncDoes
  <2>3. Good' = Good
    BY <2>1 DEF Good
  <2> QED
    BY <1>a, <2>1, <2>2, <2>3 DEF FilesType
<1>9. ASSUME Publish PROVE FilesType'
  <2>1. UNCHANGED <<file, disk, txns, salts, broken>> /\ current' = Result /\ pending' = {}
    BY <1>9 DEF Publish, files, bounds
  <2>2. Good' \subseteq [Pages -> 0 .. txns]
    BY <2>1, ResultType DEF Good
  <2> QED
    BY <1>a, <2>1, <2>2 DEF FilesType
<1>10. ASSUME CopyPage PROVE FilesType'
  <2>1. UNCHANGED <<disk, txns, salts, current, pending, broken>>
    BY <1>10 DEF CopyPage, bounds, history
  <2>2. \E p \in Pages :
           LET f == LastFrame(file.log, index.hdr.mx, p)
           IN  /\ f \in 1 .. index.hdr.mx /\ file.log[f].pg = p
               /\ \A i \in f + 1 .. index.hdr.mx : file.log[i].pg # p
               /\ file'.db = [file.db EXCEPT ![p] = file.log[f].txn]
               /\ file'.log = file.log /\ file' = [db |-> file'.db, log |-> file'.log]
    BY <1>10, CopyPageDoes DEF WalInv
  <2>3. PICK p \in Pages, f \in 1 .. index.hdr.mx :
           /\ file.log[f].pg = p /\ \A i \in f + 1 .. index.hdr.mx : file.log[i].pg # p
           /\ file'.db = [file.db EXCEPT ![p] = file.log[f].txn]
           /\ file'.log = file.log /\ file' = [db |-> file'.db, log |-> file'.log]
    BY <2>2
  <2>4. index.hdr.mx \in Nat /\ pc # "closed"
    BY <1>10, <1>a, HeadersAre DEF CopyPage
  <2>5. file.log[f].txn = current[p]
    <3>1. Content(file.log, index.hdr.mx, file.db) = current
      BY <2>4 DEF WalInv, IndexInv
    <3> QED
      BY <2>3, <2>4, <3>1, ContentIs
  <2>6. file'.db \in [Pages -> {Torn} \cup 0 .. txns]
    BY <1>c, <1>e, <2>3, <2>5
  <2>7. Good' = Good
    BY <2>1 DEF Good
  <2> QED
    BY <1>a, <2>1, <2>3, <2>6, <2>7 DEF FilesType
<1>11. ASSUME EndCheckpoint PROVE FilesType'
  <2>1. UNCHANGED <<file, txns, salts, current, pending, broken>>
    BY <1>11 DEF EndCheckpoint, bounds, history
  <2>2. /\ disk'.log = disk.log /\ disk'.db = file.db
        /\ disk' = [db |-> disk'.db, log |-> disk'.log]
    BY <1>11, EndCheckpointDoes
  <2>3. Good' = Good
    BY <2>1 DEF Good
  <2> QED
    BY <1>a, <2>1, <2>2, <2>3 DEF FilesType
<1>12. ASSUME PowerLoss PROVE FilesType'
  <2>1. UNCHANGED <<txns, salts, current, pending>>
    BY <1>12 DEF PowerLoss
  <2>2. /\ disk' = file' /\ file' = [db |-> file'.db, log |-> file'.log]
        /\ file'.log = [i \in Slots |-> file'.log[i]]
        /\ file'.db = [p \in Pages |-> file'.db[p]]
        /\ \A i \in Slots : file'.log[i] \in {disk.log[i], file.log[i], NoFrame}
        /\ \A p \in Pages : file'.db[p] \in {disk.db[p], file.db[p], Torn}
        /\ broken' \in {broken, broken \cup {"overtaken"}}
    BY <1>12, <1>a, PowerLossDoes
  <2>3. \A p \in Pages : file'.db[p] \in {Torn} \cup 0 .. txns
    BY <1>c, <2>2
  <2>4. file'.db \in [Pages -> {Torn} \cup 0 .. txns]
    BY <2>2, <2>3
  <2>5. IsLog(file'.log)
    <3> SUFFICES ASSUME NEW i \in 1 .. MaxFrames PROVE IsFrame(file'.log[i], i)
      BY DEF IsLog
    <3>1. i \in Slots /\ IsFrame(file.log[i], i) /\ IsFrame(disk.log[i], i)
      BY <1>g
    <3>2. IsFrame(NoFrame, i)
      BY DEF IsFrame
    <3> QED
      BY <2>2, <3>1, <3>2
  <2>6. \A i \in Slots : file'.log[i].salt \in 0 .. salts
    <3>1. NoFrame.salt = 0
      BY DEF NoFrame
    <3> QED
      BY <1>b, <1>f, <2>2, <3>1
  <2>7. Good' = Good /\ broken' \subseteq {"spilled", "overtaken"}
    BY <1>d, <2>1, <2>2 DEF Good
  <2>8. file'.log = [i \in Slots |-> file'.log[i]] /\ file' = [db |-> file'.db, log |-> file'.log]
    BY <2>2
  <2> QED
    BY <1>a, <2>1, <2>2, <2>4, <2>5, <2>6, <2>7, <2>8 DEF FilesType
<1> QED
  BY <1>1, <1>2, <1>3, <1>4, <1>5, <1>6, <1>7, <1>8, <1>9, <1>10, <1>11, <1>12 DEF Next

\* The header of an empty log.
LEMMA NoHdrIs == NoHdr \in Header /\ NoHdr.mx = 0 /\ Len(NoHdr.sum) = 0
<1>1. 0 \in Slots /\ 0 \in Nat /\ <<>> \in Seq(Link) /\ Len(<<>>) = 0
  BY SlotsAre
<1>2. NoHdr = [mx |-> 0, salt |-> 0, sum |-> <<>>]
  BY DEF NoHdr
<1> QED
  BY <1>1, <1>2 DEF Header

\* What walIndexRecover makes is a header.
LEMMA RecoveredHeader ==
    ASSUME NEW log, IsLog(log), log[0].salt \in Nat
    PROVE  Recovered(log) \in Header /\ Len(Recovered(log).sum) \in 0 .. MaxFrames + 1
<1> DEFINE r == Recovered(log)
<1>1. r.mx \in 0 .. MaxFrames /\ MaxFrames \in Nat /\ Slots = 0 .. MaxFrames
  BY RecoveredIs, SlotsAre
<1>2. CASE r.mx = 0
  <2>1. r = NoHdr
    BY <1>2, RecoveredIs
  <2> QED
    BY <1>1, <2>1, NoHdrIs
<1>3. CASE r.mx > 0
  <2>1. Valid(log, r.mx) /\ r.salt = log[0].salt /\ r.sum = log[r.mx].sum
    BY <1>3, RecoveredIs
  <2>2. r.sum \in Seq(Link) /\ Len(r.sum) = r.mx + 1
    <3> HIDE DEF r
    <3>1. r.mx \in 1 .. r.mx
      BY <1>1, <1>3
    <3> QED
      BY <1>1, <2>1, <3>1, ValidIs
  <2>3. r = [mx |-> r.mx, salt |-> r.salt, sum |-> r.sum]
    BY DEF Recovered, NoHdr
  <2> HIDE DEF r
  <2>4. r.mx \in Slots /\ r.salt \in Nat /\ r.sum \in Seq(Link) /\ Len(r.sum) \in 0 .. MaxFrames + 1
    BY <1>1, <2>1, <2>2
  <2>5. r \in Header
    BY <2>3, <2>4 DEF Header
  <2> QED
    BY <2>4, <2>5 DEF r
<1> QED
  BY <1>1, <1>2, <1>3

\* Every step keeps the types of the wal-index and of the connection's header.
LEMMA HeadersStep == TypeInv /\ WalInv /\ Next => HeadersType'
<1> SUFFICES ASSUME TypeInv, WalInv, Next PROVE HeadersType'
  OBVIOUS
<1>a. FilesType /\ HeadersType
  BY DEF TypeInv
<1>b. /\ index = [hdr |-> index.hdr, backfill |-> index.backfill]
      /\ index.hdr \in Header /\ hdr \in Header
      /\ Len(index.hdr.sum) <= MaxFrames + 1 /\ Len(hdr.sum) <= MaxFrames + 1
      /\ index.backfill \in {0, index.hdr.mx}
  BY <1>a DEF HeadersType
<1>c. /\ hdr = [mx |-> hdr.mx, salt |-> hdr.salt, sum |-> hdr.sum]
      /\ hdr.mx \in 0 .. MaxFrames /\ index.hdr.mx \in 0 .. MaxFrames /\ MaxFrames \in Nat \ {0}
      /\ Slots = 0 .. MaxFrames
      /\ hdr.salt \in Nat /\ hdr.sum \in Seq(Link)
      /\ End \in -1 .. MaxFrames /\ Len(hdr.sum) = End + 1
  BY <1>a, HeadersAre, SlotsAre
<1>1. ASSUME Recover PROVE HeadersType'
  <2>1. hdr' = Recovered(file.log) /\ index' = [hdr |-> hdr', backfill |-> 0]
    BY <1>1 DEF Recover
  <2>2. IsLog(file.log) /\ file.log[0].salt \in Nat
    BY <1>a, <1>c DEF FilesType
  <2>3. hdr' \in Header /\ Len(hdr'.sum) <= MaxFrames + 1
    BY <1>c, <2>1, <2>2, RecoveredHeader
  <2>4. /\ index'.hdr = hdr' /\ index'.backfill = 0
        /\ index' = [hdr |-> index'.hdr, backfill |-> index'.backfill]
    BY <2>1
  <2> QED
    BY <2>3, <2>4 DEF HeadersType
<1>2. ASSUME UNCHANGED <<index, hdr>> PROVE HeadersType'
  BY <1>2, <1>a DEF HeadersType
<1>3. ASSUME UNCHANGED index, hdr' = index.hdr PROVE HeadersType'
  BY <1>3, <1>a DEF HeadersType
<1>4. ASSUME NEW pages, NEW ends, StartFrames(pages, ends) PROVE HeadersType'
  <2>1. CASE hdr' = hdr /\ index' = index
    BY <1>2, <2>1
  <2>2. CASE ~(hdr' = hdr /\ index' = index)
    <3>1. /\ hdr' = [mx |-> 0, salt |-> hdr.salt, sum |-> hdr.sum]
          /\ hdr'.sum = hdr.sum
          /\ index'.hdr = hdr' /\ index'.backfill = 0
          /\ index' = [hdr |-> index'.hdr, backfill |-> index'.backfill]
      BY <1>4, <1>a, <2>2, StartFramesDoes
    <3>2. hdr' \in Header
      <4>1. 0 \in Slots
        BY <1>c
      <4> QED
        BY <1>c, <3>1, <4>1 DEF Header
    <3> QED
      BY <1>b, <3>1, <3>2 DEF HeadersType
  <2> QED
    BY <2>1, <2>2
<1>5. ASSUME WriteHeader PROVE HeadersType'
  <2>1. /\ hdr' = [mx |-> hdr.mx, salt |-> salts + 1, sum |-> <<salts + 1>>]
        /\ hdr'.sum = <<salts + 1>> /\ Len(hdr'.sum) = 1 /\ salts + 1 \in Nat
        /\ index' = index
    BY <1>5, WriteHeaderDoes DEF WriteHeader
  <2>2. <<salts + 1>> \in Seq(Link) /\ hdr.mx \in Slots
    BY <1>c, <2>1 DEF Link
  <2>3. hdr' \in Header /\ Len(hdr'.sum) <= MaxFrames + 1
    BY <1>c, <2>1, <2>2 DEF Header
  <2> QED
    BY <1>b, <2>1, <2>3 DEF HeadersType
<1>6. ASSUME WriteFrame PROVE HeadersType'
  <2>1. /\ hdr' = [mx |-> hdr.mx, salt |-> hdr.salt, sum |-> NextFrame.sum]
        /\ hdr'.sum = NextFrame.sum /\ NextFrame.sum \in Seq(Link) /\ Len(NextFrame.sum) = End + 2
        /\ End \in 0 .. MaxFrames - 1
    BY <1>6, WriteFrameDoes DEF WalInv
  <2>2. hdr.mx \in Slots /\ index' = index
    BY <1>6, <1>c DEF WriteFrame
  <2>3. hdr' \in Header
    BY <1>c, <2>1, <2>2 DEF Header
  <2>4. Len(hdr'.sum) <= MaxFrames + 1
    BY <1>c, <2>1
  <2> QED
    BY <1>b, <2>2, <2>3, <2>4 DEF HeadersType
<1>7. ASSUME Spilled PROVE HeadersType'
  <2>1. /\ hdr' = [mx |-> End, salt |-> hdr.salt, sum |-> hdr.sum]
        /\ hdr'.sum = hdr.sum /\ index' = index
    BY <1>7, <1>a, SpilledDoes DEF Spilled
  <2>2. End > hdr.mx
    BY <1>7 DEF Spilled, WalInv, ChainInv, Begun
  <2>3. End \in Slots
    BY <1>c, <2>2
  <2>4. hdr' \in Header
    BY <1>c, <2>1, <2>3 DEF Header
  <2> QED
    BY <1>b, <2>1, <2>4 DEF HeadersType
<1>8. ASSUME Publish PROVE HeadersType'
  <2>1. /\ hdr' = [mx |-> End, salt |-> hdr.salt, sum |-> hdr.sum]
        /\ hdr'.sum = hdr.sum
        /\ index'.hdr = hdr' /\ index'.backfill = index.backfill
        /\ index' = [hdr |-> index'.hdr, backfill |-> index'.backfill]
    BY <1>8, <1>a, PublishDoes
  <2>2. End > hdr.mx /\ index.hdr.mx <= hdr.mx
    BY <1>8 DEF Publish, WalInv, ChainInv, Begun
  <2>3. End \in Slots
    BY <1>c, <2>2
  <2>4. hdr' \in Header
    BY <1>c, <2>1, <2>3 DEF Header
  <2>5. index.backfill = 0
    BY <1>8 DEF Publish, WalInv, HeaderInv, Txn
  <2> QED
    BY <1>b, <2>1, <2>4, <2>5 DEF HeadersType
<1>9. ASSUME EndCheckpoint PROVE HeadersType'
  <2>1. /\ index'.hdr = index.hdr /\ index'.backfill = index.hdr.mx /\ hdr' = hdr
        /\ index' = [hdr |-> index'.hdr, backfill |-> index'.backfill]
    BY <1>9, EndCheckpointDoes DEF EndCheckpoint
  <2> QED
    BY <1>b, <2>1 DEF HeadersType
<1>10. ASSUME MemoryLost PROVE HeadersType'
  <2>1. /\ index'.hdr = NoHdr /\ index'.backfill = 0 /\ hdr' = NoHdr
        /\ index' = [hdr |-> index'.hdr, backfill |-> index'.backfill]
    BY <1>10, MemoryLostDoes
  <2> QED
    BY <1>c, <2>1, NoHdrIs DEF HeadersType
<1>11. ASSUME ReadPage \/ EndRead \/ BeginWrite \/ Modify \/ CommitNothing PROVE HeadersType'
  BY <1>11, <1>2 DEF ReadPage, EndRead, BeginWrite, Modify, CommitNothing
<1>12. ASSUME SyncLog \/ StartCheckpoint \/ CopyPage \/ CheckpointFails PROVE HeadersType'
  BY <1>12, <1>2 DEF SyncLog, StartCheckpoint, CopyPage, CheckpointFails
<1>13. ASSUME BeginRead \/ Rollback \/ WriteFails PROVE HeadersType'
  BY <1>13, <1>2, <1>3 DEF BeginRead, Rollback, WriteFails, Undo
<1>14. ASSUME Spill \/ Commit PROVE HeadersType'
  BY <1>14, <1>4 DEF Spill, Commit
<1>15. ASSUME Kill \/ PowerLoss PROVE HeadersType'
  BY <1>15, <1>10 DEF Kill, PowerLoss
<1> QED
  BY <1>1, <1>5, <1>6, <1>7, <1>8, <1>9, <1>11, <1>12, <1>13, <1>14, <1>15 DEF Next

\* The pages of a commit are the dirty ones, each in its place.
LEMMA AscendingIs ==
    ASSUME PagerType, dirty # {}, NEW pages \in Ascending(dirty)
    PROVE  /\ pages \in Seq(Pages) /\ pages # <<>>
           /\ \A i \in 1 .. Len(pages) : pages[i] \in dirty
           /\ \A p \in dirty : \E i \in 1 .. Len(pages) : pages[i] = p
<1> DEFINE n == Cardinality(dirty)
<1>1. n \in Nat
  <2>1. IsFiniteSet(Pages) /\ dirty \subseteq Pages
    BY WalAssumption DEF PagerType
  <2>2. IsFiniteSet(dirty)
    BY <2>1, FS_Subset
  <2> QED
    BY <2>2, FS_CardinalityType
<1> HIDE DEF n
<1>2. pages \in [1 .. n -> dirty] /\ Range(pages) = dirty
  BY DEF Ascending, n
<1>3. pages \in Seq(dirty) /\ Len(pages) = n /\ DOMAIN pages = 1 .. n
  BY <1>1, <1>2
<1>4. \A p \in dirty : \E i \in 1 .. Len(pages) : pages[i] = p
  BY <1>2, <1>3 DEF Range
<1>5. pages # <<>>
  <2>1. PICK p \in dirty : TRUE
    OBVIOUS
  <2>2. PICK i \in 1 .. n : pages[i] = p
    BY <1>3, <1>4
  <2> QED
    BY <1>1, <1>3, <2>2
<1>6. pages \in Seq(Pages)
  BY <1>3 DEF PagerType
<1> QED
  BY <1>2, <1>3, <1>4, <1>5, <1>6

\* Every step keeps the types of the pager's variables.
LEMMA PagerStep == TypeInv /\ WalInv /\ Next => PagerType'
<1> SUFFICES ASSUME TypeInv, WalInv, Next PROVE PagerType'
  OBVIOUS
<1>a. FilesType /\ HeadersType /\ PagerType
  BY DEF TypeInv
<1>b. /\ txns \in Nat /\ MaxFrames \in Nat \ {0} /\ Slots = 0 .. MaxFrames
      /\ index.hdr.mx \in 0 .. MaxFrames
  BY <1>a, SlotsAre, WalAssumption, HeadersAre DEF FilesType
<1>c. /\ usesLog \in BOOLEAN
      /\ cache \in [Pages -> {None} \cup 0 .. txns]
      /\ dirty \subseteq mods /\ mods \subseteq Pages
      /\ list \in Seq(Pages) /\ commit \in BOOLEAN
      /\ toCopy \in [Pages -> {None} \cup Slots]
      /\ callback \in Nat
      /\ pc \notin Txn => mods = {}
  BY <1>a DEF PagerType
<1>d. NoPages \in [Pages -> {None} \cup 0 .. txns] /\ NoPages \in [Pages -> {None} \cup Slots]
  BY DEF NoPages
<1>e. <<>> \in Seq(Pages)
  OBVIOUS
<1>1. ASSUME Recover PROVE PagerType'
  BY <1>1, <1>a DEF Recover, PagerType, Txn, reader, writer, checkpointer, bounds
<1>2. ASSUME BeginRead PROVE PagerType'
  <2>1. cache' \in [Pages -> {None} \cup 0 .. txns] /\ usesLog' \in BOOLEAN /\ txns' = txns
    BY <1>2, <1>c, <1>d DEF BeginRead, bounds
  <2>2. pc' = "read" /\ pc = "idle" /\ UNCHANGED <<dirty, list, commit, mods, toCopy, callback>>
    BY <1>2 DEF BeginRead, writer, checkpointer
  <2> QED
    BY <1>a, <1>c, <2>1, <2>2 DEF PagerType, Txn
<1>3. ASSUME ReadPage PROVE PagerType'
  <2>1. PICK p \in Pages : cache[p] = None /\ cache' = [cache EXCEPT ![p] = Fetch(p)]
    BY <1>3 DEF ReadPage
  <2>2. pc \in {"read", "write"} /\ UNCHANGED <<pc, usesLog, writer, checkpointer, txns>>
    BY <1>3 DEF ReadPage, bounds
  <2>3. p \notin dirty
    <3>1. pc = "write" => (p \in dirty => cache[p] = txns)
      BY DEF WalInv, CacheInv, Txn
    <3>2. pc = "read" => dirty = {}
      BY <1>c DEF Txn
    <3>3. txns # None
      BY <1>b DEF None
    <3> QED
      BY <2>1, <2>2, <3>1, <3>2, <3>3
  <2>4. Fetch(p) = Result[p] /\ Result[p] \in 0 .. txns
    BY <2>2, <2>3, FetchIs, ResultType DEF WalInv
  <2>5. cache' \in [Pages -> {None} \cup 0 .. txns]
    BY <1>c, <2>1, <2>4
  <2> QED
    BY <1>a, <2>2, <2>5 DEF PagerType, writer, checkpointer
<1>4. ASSUME EndRead PROVE PagerType'
  <2>1. /\ pc = "read" /\ pc' \in {"checkpoint", "idle"} /\ callback' = 0 /\ usesLog' = FALSE
        /\ UNCHANGED <<cache, writer, toCopy, txns>>
    BY <1>4 DEF EndRead, bounds
  <2> QED
    BY <1>a, <2>1 DEF PagerType, Txn, writer
<1>5. ASSUME BeginWrite PROVE PagerType'
  <2>1. pc' = "write" /\ txns' = txns + 1 /\ UNCHANGED <<reader, writer, checkpointer>>
    BY <1>5 DEF BeginWrite
  <2>2. cache \in [Pages -> {None} \cup 0 .. txns']
    <3>1. 0 .. txns \subseteq 0 .. txns'
      BY <1>b, <2>1
    <3> QED
      BY <1>c, <3>1
  <2> QED
    BY <1>a, <2>1, <2>2 DEF PagerType, Txn, reader, writer, checkpointer
<1>6. ASSUME Modify PROVE PagerType'
  <2>1. PICK p \in Pages \ dirty :
           /\ dirty' = dirty \cup {p} /\ mods' = mods \cup {p}
           /\ cache' = [cache EXCEPT ![p] = txns]
    BY <1>6 DEF Modify
  <2>2. pc = "write" /\ UNCHANGED <<pc, usesLog, list, commit, checkpointer, txns>>
    BY <1>6 DEF Modify, bounds
  <2>3. cache' \in [Pages -> {None} \cup 0 .. txns]
    BY <1>b, <1>c, <2>1
  <2>4. dirty' \subseteq mods' /\ mods' \subseteq Pages
    BY <1>c, <2>1
  <2> QED
    BY <1>a, <2>2, <2>3, <2>4 DEF PagerType, Txn, checkpointer
<1>7. ASSUME Spill \/ Commit PROVE PagerType'
  <2>1. \E pages \in Seq(Pages), ends \in BOOLEAN : StartFrames(pages, ends)
    <3>1. CASE Spill
      <4>1. PICK p \in dirty \ {1} : StartFrames(<<p>>, FALSE)
        BY <3>1 DEF Spill
      <4>2. <<p>> \in Seq(Pages)
        BY <1>c, <4>1
      <4> QED
        BY <4>1, <4>2
    <3>2. CASE Commit
      <4>1. PICK pages \in Ascending(dirty) : dirty # {} /\ StartFrames(pages, TRUE)
        BY <3>2 DEF Commit
      <4>2. pages \in Seq(Pages)
        BY <1>a, <4>1, AscendingIs
      <4> QED
        BY <4>1, <4>2
    <3> QED
      BY <1>7, <3>1, <3>2
  <2>2. PICK pages \in Seq(Pages), ends \in BOOLEAN : StartFrames(pages, ends)
    BY <2>1
  <2>3. /\ list' = pages /\ commit' = ends /\ usesLog' = TRUE /\ pc' \in {"header", "frame"}
        /\ UNCHANGED <<cache, dirty, mods, checkpointer, txns>>
    BY <2>2 DEF StartFrames, bounds
  <2> QED
    BY <1>a, <2>3 DEF PagerType, Txn, checkpointer
<1>8. ASSUME CommitNothing PROVE PagerType'
  <2>1. /\ pc' = "read" /\ dirty' = {} /\ list' = <<>> /\ commit' = FALSE /\ mods' = {}
        /\ UNCHANGED <<reader, checkpointer, txns>>
    BY <1>8 DEF CommitNothing, TxnOver, bounds
  <2> QED
    BY <1>a, <1>e, <2>1 DEF PagerType, reader, checkpointer
<1>9. ASSUME WriteHeader PROVE PagerType'
  <2>1. pc' = "frame" /\ UNCHANGED <<reader, writer, checkpointer, txns>>
    BY <1>9 DEF WriteHeader
  <2> QED
    BY <1>a, <2>1 DEF PagerType, Txn, reader, writer, checkpointer
<1>10. ASSUME WriteFrame PROVE PagerType'
  <2>1. /\ pc' \in {"frame", "sync", "spilled"} /\ list' = Tail(list)
        /\ UNCHANGED <<reader, dirty, commit, mods, checkpointer, txns>>
    BY <1>10 DEF WriteFrame, bounds
  <2>2. list \in Seq(Pages) /\ list # <<>>
    BY <1>10, WriteFrameDoes DEF WalInv
  <2>3. Tail(list) \in Seq(Pages)
    BY <2>2
  <2> QED
    BY <1>a, <2>1, <2>3 DEF PagerType, Txn, reader, checkpointer
<1>11. ASSUME Spilled PROVE PagerType'
  <2>1. /\ dirty' = dirty \ {file.log[End].pg}
        /\ cache' = [cache EXCEPT ![file.log[End].pg] = None]
        /\ pc' = "write" /\ UNCHANGED <<usesLog, list, commit, mods, checkpointer, txns>>
    BY <1>11, <1>a, SpilledDoes DEF Spilled, bounds
  <2>2. cache' \in [Pages -> {None} \cup 0 .. txns]
    BY <1>c, <2>1
  <2>3. dirty' \subseteq mods
    BY <1>c, <2>1
  <2> QED
    BY <1>a, <2>1, <2>2, <2>3 DEF PagerType, Txn, checkpointer
<1>12. ASSUME SyncLog PROVE PagerType'
  <2>1. pc' = "publish" /\ UNCHANGED <<reader, writer, checkpointer, txns>>
    BY <1>12 DEF SyncLog, bounds
  <2> QED
    BY <1>a, <2>1 DEF PagerType, Txn, reader, writer, checkpointer
<1>13. ASSUME Publish PROVE PagerType'
  <2>1. /\ pc' = "read" /\ dirty' = {} /\ list' = <<>> /\ commit' = FALSE /\ mods' = {}
        /\ callback' = hdr'.mx /\ UNCHANGED <<reader, toCopy, txns>>
    BY <1>13 DEF Publish, TxnOver, bounds
  <2>2. hdr'.mx \in Nat
    <3>1. HeadersType'
      BY HeadersStep
    <3>2. hdr'.mx \in Slots
      BY <3>1 DEF HeadersType, Header
    <3> QED
      BY <1>b, <3>2
  <2> QED
    BY <1>a, <1>e, <2>1, <2>2 DEF PagerType, reader
<1>14. ASSUME Undo, UNCHANGED <<checkpointer, txns>> PROVE PagerType'
  <2>1. /\ pc' = "read" /\ dirty' = {} /\ list' = <<>> /\ commit' = FALSE /\ mods' = {}
        /\ usesLog' = usesLog
    BY <1>14 DEF Undo, TxnOver
  <2>2. cache' \in [Pages -> {None} \cup 0 .. txns]
    BY <1>c, <1>14 DEF Undo
  <2> QED
    BY <1>a, <1>e, <1>14, <2>1, <2>2 DEF PagerType, checkpointer
<1>15. ASSUME Rollback PROVE PagerType'
  BY <1>14, <1>15 DEF Rollback, bounds
<1>16. ASSUME WriteFails PROVE PagerType'
  <2>1. UNCHANGED <<checkpointer, txns>>
    BY <1>16 DEF WriteFails
  <2>2. CASE Undo
    BY <1>14, <2>1, <2>2
  <2>3. CASE ~Undo
    <3>1. /\ pc' = "idle" /\ dirty' = {} /\ list' = <<>> /\ commit' = FALSE /\ mods' = {}
          /\ cache' = NoPages /\ usesLog' = FALSE
      BY <1>16, <2>3 DEF WriteFails, TxnOver
    <3> QED
      BY <1>a, <1>d, <1>e, <2>1, <3>1 DEF PagerType, checkpointer
  <2> QED
    BY <2>2, <2>3
<1>17. ASSUME StartCheckpoint PROVE PagerType'
  <2>1. /\ pc = "checkpoint" /\ pc' = "copy"
        /\ toCopy' = [p \in Pages |-> LastFrame(file.log, index.hdr.mx, p)]
        /\ UNCHANGED <<reader, writer, callback, txns>>
    BY <1>17 DEF StartCheckpoint, bounds
  <2>2. \A p \in Pages : LastFrame(file.log, index.hdr.mx, p) \in Slots
    <3> SUFFICES ASSUME NEW p \in Pages PROVE LastFrame(file.log, index.hdr.mx, p) \in Slots
      OBVIOUS
    <3>1. LastFrame(file.log, index.hdr.mx, p) \in 0 .. index.hdr.mx
      <4>1. index.hdr.mx \in Nat
        BY <1>b
      <4> QED
        BY <4>1, LastFrameIs
    <3> QED
      BY <1>b, <3>1
  <2>3. toCopy' \in [Pages -> {None} \cup Slots]
    BY <2>1, <2>2
  <2> QED
    BY <1>a, <2>1, <2>3 DEF PagerType, Txn, reader, writer
<1>18. ASSUME CopyPage PROVE PagerType'
  <2>1. PICK p \in Pages : toCopy' = [toCopy EXCEPT ![p] = None]
    BY <1>18 DEF CopyPage, LeftToCopy
  <2>2. UNCHANGED <<pc, reader, writer, callback, txns>>
    BY <1>18 DEF CopyPage, bounds
  <2>3. toCopy' \in [Pages -> {None} \cup Slots]
    BY <1>c, <2>1
  <2> QED
    BY <1>a, <2>2, <2>3 DEF PagerType, reader, writer
<1>19. ASSUME EndCheckpoint \/ CheckpointFails PROVE PagerType'
  <2>1. /\ pc \in {"checkpoint", "copy"} /\ pc' = "idle" /\ toCopy' = NoPages
        /\ UNCHANGED <<reader, writer, callback, txns>>
    BY <1>19 DEF EndCheckpoint, CheckpointFails, bounds
  <2> QED
    BY <1>a, <1>d, <2>1 DEF PagerType, Txn, reader, writer
<1>20. ASSUME Kill \/ PowerLoss PROVE PagerType'
  <2>1. MemoryLost /\ txns' = txns
    BY <1>20 DEF Kill, PowerLoss
  <2>2. /\ pc' = "closed" /\ usesLog' = FALSE /\ cache' = NoPages
        /\ dirty' = {} /\ list' = <<>> /\ commit' = FALSE /\ mods' = {}
        /\ toCopy' = NoPages /\ callback' = 0
    BY <2>1 DEF MemoryLost, TxnOver
  <2>3. NoPages' = NoPages
    BY DEF NoPages
  <2> QED
    BY <1>d, <1>e, <2>1, <2>2, <2>3 DEF PagerType
<1> QED
  BY <1>1, <1>2, <1>3, <1>4, <1>5, <1>6, <1>7, <1>8, <1>9, <1>10, <1>11, <1>12, <1>13,
     <1>15, <1>16, <1>17, <1>18, <1>19, <1>20
     DEF Next

\* The invariant's first part: the types.
LEMMA TypeStep == TypeInv /\ WalInv /\ Next => TypeInv'
BY FilesStep, HeadersStep, PagerStep DEF TypeInv

-----------------------------------------------------------------------------
(* The headers and the chain.                                              *)

\* A transaction that has changed nothing has nothing in the log.
LEMMA NothingLogged ==
    ASSUME TypeInv, IndexInv, HeaderInv, ChainInv, pc = "write", mods = {}
    PROVE  hdr = index.hdr
<1>1. /\ hdr.mx \in 0 .. MaxFrames /\ index.hdr.mx \in 0 .. MaxFrames /\ MaxFrames \in Nat
      /\ End \in Int
  BY HeadersAre DEF TypeInv
<1>2. CASE hdr.mx > index.hdr.mx
  <2>1. Begun
    BY <1>1, <1>2 DEF Begun
  <2>2. End = hdr.mx /\ \A i \in index.hdr.mx + 1 .. End : file.log[i].pg \in mods
    BY <2>1 DEF ChainInv
  <2>3. hdr.mx \in index.hdr.mx + 1 .. End
    BY <1>1, <1>2, <2>2
  <2> QED
    BY <2>2, <2>3
<1>3. CASE hdr.mx <= index.hdr.mx
  BY <1>3, SameHeader
<1> QED
  BY <1>1, <1>2, <1>3

\* A commit without frames is right only if nothing was changed.
LEMMA CommitNothingIs ==
    ASSUME TypeInv, CommitNothing, broken' = {}
    PROVE  mods = {} /\ current' = current
<1>1. mods = {}
  BY DEF CommitNothing
<1> QED
  BY <1>1, NoMods DEF CommitNothing

\* pagerStress writes one dirty page, a commit all of them.
LEMMA StartsFrames ==
    ASSUME TypeInv, Spill \/ Commit
    PROVE  \E pages \in Seq(Pages), ends \in BOOLEAN :
              /\ StartFrames(pages, ends)
              /\ pages # <<>> /\ \A i \in 1 .. Len(pages) : pages[i] \in dirty
              /\ ~ends => Len(pages) = 1
              /\ ends => \A p \in dirty : \E i \in 1 .. Len(pages) : pages[i] = p
<1>a. PagerType /\ dirty \subseteq Pages
  BY DEF TypeInv, PagerType
<1>1. CASE Spill
  <2>1. PICK p \in dirty \ {1} : StartFrames(<<p>>, FALSE)
    BY <1>1 DEF Spill
  <2>2. <<p>> \in Seq(Pages) /\ <<p>> # <<>> /\ Len(<<p>>) = 1 /\ <<p>>[1] = p
    BY <1>a, <2>1
  <2>3. \A i \in 1 .. Len(<<p>>) : <<p>>[i] \in dirty
    BY <2>1, <2>2
  <2> QED
    BY <2>1, <2>2, <2>3
<1>2. CASE Commit
  <2>1. PICK pages \in Ascending(dirty) : dirty # {} /\ StartFrames(pages, TRUE)
    BY <1>2 DEF Commit
  <2>2. /\ pages \in Seq(Pages) /\ pages # <<>>
        /\ \A i \in 1 .. Len(pages) : pages[i] \in dirty
        /\ \A p \in dirty : \E i \in 1 .. Len(pages) : pages[i] = p
    BY <1>a, <2>1, AscendingIs
  <2> QED
    BY <2>1, <2>2
<1> QED
  BY <1>1, <1>2

\* Every step keeps the connection's header in step with the index (HeaderInv).
LEMMA HeaderStep == TypeInv /\ WalInv /\ Next /\ broken' = {} => HeaderInv'
<1> SUFFICES ASSUME TypeInv, WalInv, Next, broken' = {} PROVE HeaderInv'
  OBVIOUS
<1>a. HeadersType /\ HeaderInv /\ IndexInv /\ ChainInv
  BY DEF TypeInv, WalInv
<1>b. /\ hdr.mx \in 0 .. MaxFrames /\ index.hdr.mx \in 0 .. MaxFrames /\ MaxFrames \in Nat
      /\ index.backfill \in {0, index.hdr.mx} /\ usesLog \in BOOLEAN
  BY <1>a, HeadersAre DEF HeadersType, TypeInv, PagerType
<1>1. ASSUME Recover PROVE HeaderInv'
  BY <1>1 DEF Recover, HeaderInv, Txn
<1>2. ASSUME BeginRead PROVE HeaderInv'
  BY <1>2, <1>b DEF BeginRead, HeaderInv, Txn
<1>3. ASSUME ReadPage PROVE HeaderInv'
  BY <1>3, <1>a DEF ReadPage, HeaderInv, Txn
<1>4. ASSUME EndRead PROVE HeaderInv'
  BY <1>4, <1>a DEF EndRead, HeaderInv, Txn
<1>5. ASSUME BeginWrite PROVE HeaderInv'
  BY <1>5, <1>a DEF BeginWrite, HeaderInv, Txn, reader
<1>6. ASSUME Modify PROVE HeaderInv'
  BY <1>6, <1>a DEF Modify, HeaderInv, Txn
<1>7. ASSUME Spill \/ Commit PROVE HeaderInv'
  <2>1. PICK pages \in Seq(Pages), ends \in BOOLEAN : StartFrames(pages, ends)
    BY <1>7, StartsFrames
  <2>2. pc = "write" /\ usesLog' = TRUE
    BY <2>1 DEF StartFrames
  <2>3. \/ /\ pc' = "header" /\ hdr'.mx = 0 /\ index'.hdr = hdr' /\ index'.backfill = 0
        \/ /\ usesLog \/ ~(index.backfill > 0)
           /\ hdr' = hdr /\ index' = index
           /\ pc' = IF hdr.mx = 0 THEN "header" ELSE "frame"
    BY <1>a, <2>1, StartFramesDoes
  <2>4. CASE /\ pc' = "header" /\ hdr'.mx = 0 /\ index'.hdr = hdr' /\ index'.backfill = 0
    BY <2>2, <2>4 DEF HeaderInv, Txn
  <2>5. CASE /\ usesLog \/ ~(index.backfill > 0)
             /\ hdr' = hdr /\ index' = index
             /\ pc' = IF hdr.mx = 0 THEN "header" ELSE "frame"
    <3>1. index'.backfill = 0
      BY <1>a, <1>b, <2>2, <2>5 DEF HeaderInv, Txn
    <3>2. pc' = "header" => hdr' = index'.hdr /\ hdr'.mx = 0
      BY <1>a, <2>2, <2>5 DEF HeaderInv
    <3>3. pc' \in {"header", "frame"}
      BY <2>5
    <3> QED
      BY <2>2, <3>1, <3>2, <3>3 DEF HeaderInv, Txn
  <2> QED
    BY <2>3, <2>4, <2>5
<1>8. ASSUME CommitNothing PROVE HeaderInv'
  <2>1. mods = {}
    BY <1>8, CommitNothingIs
  <2>2. pc = "write" /\ pc' = "read" /\ UNCHANGED <<index, hdr, usesLog>>
    BY <1>8 DEF CommitNothing, reader
  <2>3. hdr = index.hdr
    BY <1>a, <2>1, <2>2, NothingLogged
  <2> QED
    BY <1>a, <2>2, <2>3 DEF HeaderInv, Txn
<1>9. ASSUME WriteHeader PROVE HeaderInv'
  BY <1>9, <1>a DEF WriteHeader, HeaderInv, Txn, reader
<1>10. ASSUME WriteFrame PROVE HeaderInv'
  BY <1>10, <1>a DEF WriteFrame, HeaderInv, Txn, reader
<1>11. ASSUME Spilled PROVE HeaderInv'
  <2>1. hdr'.mx = End /\ pc' = "write" /\ pc = "spilled" /\ UNCHANGED <<index, usesLog>>
    BY <1>11, <1>a, SpilledDoes DEF Spilled
  <2>2. End > hdr.mx /\ End \in Int
    BY <1>a, <2>1, HeadersAre DEF ChainInv, Begun
  <2>3. hdr'.mx # 0 /\ usesLog
    BY <1>a, <1>b, <2>1, <2>2 DEF HeaderInv, Txn
  <2> QED
    BY <1>a, <2>1, <2>3 DEF HeaderInv, Txn
<1>12. ASSUME SyncLog PROVE HeaderInv'
  BY <1>12, <1>a DEF SyncLog, HeaderInv, Txn, reader
<1>13. ASSUME Publish PROVE HeaderInv'
  <2>1. index'.hdr = hdr' /\ index'.backfill = index.backfill
    BY <1>13, <1>a, PublishDoes
  <2>2. pc = "publish" /\ pc' = "read" /\ usesLog' = usesLog
    BY <1>13 DEF Publish, reader
  <2>3. usesLog /\ index.backfill = 0
    BY <1>a, <2>2 DEF HeaderInv, Txn
  <2> QED
    BY <2>1, <2>2, <2>3 DEF HeaderInv, Txn
<1>14. ASSUME Rollback \/ WriteFails PROVE HeaderInv'
  <2>1. pc \in Txn /\ UNCHANGED index
    BY <1>14 DEF Rollback, WriteFails, Txn
  <2>2. (pc' = "read" /\ hdr' = index.hdr /\ usesLog' = usesLog) \/ pc' = "idle"
    BY <1>14 DEF Rollback, WriteFails, Undo
  <2> QED
    BY <1>a, <2>1, <2>2 DEF HeaderInv, Txn
<1>15. ASSUME StartCheckpoint \/ CopyPage \/ EndCheckpoint \/ CheckpointFails PROVE HeaderInv'
  BY <1>15, <1>a DEF StartCheckpoint, CopyPage, EndCheckpoint, CheckpointFails, HeaderInv, Txn
<1>16. ASSUME Kill \/ PowerLoss PROVE HeaderInv'
  BY <1>16 DEF Kill, PowerLoss, MemoryLost, HeaderInv, Txn
<1> QED
  BY <1>1, <1>2, <1>3, <1>4, <1>5, <1>6, <1>7, <1>8, <1>9, <1>10, <1>11, <1>12, <1>13,
     <1>14, <1>15, <1>16
     DEF Next

\* Every step keeps the connection's chain valid in the file (ChainInv).
LEMMA ChainStep == TypeInv /\ WalInv /\ Next /\ broken' = {} => ChainInv'
<1> SUFFICES ASSUME TypeInv, WalInv, Next, broken' = {} PROVE ChainInv'
  OBVIOUS
<1>a. HeadersType /\ FilesType /\ PagerType /\ HeaderInv /\ IndexInv /\ ChainInv
  BY DEF TypeInv, WalInv
<1>b. /\ hdr.mx \in 0 .. MaxFrames /\ index.hdr.mx \in 0 .. MaxFrames
      /\ MaxFrames \in Nat \ {0} /\ Slots = 0 .. MaxFrames
      /\ End \in -1 .. MaxFrames /\ Len(hdr.sum) = End + 1
  BY <1>a, HeadersAre, SlotsAre
<1>c. IsLog(file.log)
  BY <1>a DEF FilesType
<1>1. ASSUME pc' \notin Txn PROVE ChainInv'
  <2>1. ~Begun'
    BY <1>1 DEF Begun, Txn
  <2> QED
    BY <2>1 DEF ChainInv
<1>2. ASSUME Recover \/ BeginRead \/ EndRead \/ CommitNothing \/ Publish \/ Rollback PROVE ChainInv'
  <2>1. pc' \notin Txn
    BY <1>2 DEF Recover, BeginRead, EndRead, CommitNothing, Publish, Rollback, Undo, Txn
  <2> QED
    BY <1>1, <2>1
<1>3. ASSUME \/ WriteFails \/ StartCheckpoint \/ CopyPage \/ EndCheckpoint \/ CheckpointFails
             \/ Kill \/ PowerLoss
      PROVE ChainInv'
  <2>1. pc' \notin Txn
    BY <1>3 DEF WriteFails, Undo, StartCheckpoint, CopyPage, EndCheckpoint, CheckpointFails,
                Kill, PowerLoss, MemoryLost, Txn
  <2> QED
    BY <1>1, <2>1
<1>4. ASSUME ReadPage \/ Modify PROVE ChainInv'
  <2>1. UNCHANGED <<file, pc, index, hdr, commit, txns>> /\ mods \subseteq mods'
    BY <1>4 DEF ReadPage, Modify, files, writer, bounds
  <2> QED
    BY <1>a, <2>1 DEF ChainInv, Begun, End
<1>5. ASSUME BeginWrite PROVE ChainInv'
  <2>1. pc = "read" /\ pc' = "write" /\ UNCHANGED <<file, index, hdr>>
    BY <1>5 DEF BeginWrite, files
  <2>2. hdr = index.hdr /\ End' = End
    BY <1>a, <2>1 DEF HeaderInv, End
  <2>3. CASE hdr.mx = 0
    <3>1. ~Begun'
      BY <2>1, <2>3 DEF Begun
    <3> QED
      BY <3>1 DEF ChainInv
  <2>4. CASE hdr.mx > 0
    <3>1. /\ Valid(file.log, hdr.mx) /\ file.log[hdr.mx].commit
          /\ hdr.salt = file.log[0].salt /\ hdr.sum = file.log[hdr.mx].sum
      BY <1>a, <2>1, <2>2, <2>4 DEF IndexInv
    <3>2. hdr.mx \in 1 .. hdr.mx
      BY <1>b, <2>4
    <3>3. /\ Len(hdr.sum) = hdr.mx + 1 /\ hdr.sum[1] = hdr.salt /\ hdr.salt > 0
      <4>1. /\ Len(file.log[hdr.mx].sum) = hdr.mx + 1 /\ file.log[hdr.mx].sum[1] = file.log[0].salt
            /\ file.log[0].salt > 0
        BY <1>b, <1>c, <3>1, <3>2, ValidIs
      <4> QED
        BY <3>1, <4>1
    <3>4. End = hdr.mx
      BY <1>b, <3>3
    <3>5. /\ hdr'.salt = file'.log[0].salt /\ hdr'.salt > 0
          /\ Len(hdr'.sum) > 0 /\ hdr'.sum[1] = hdr'.salt
          /\ index'.hdr.mx <= hdr'.mx /\ hdr'.mx <= End' /\ pc' = "write" /\ End' = hdr'.mx
          /\ Valid(file'.log, End') /\ file'.log[End'].sum = hdr'.sum
          /\ ~(\E i \in index'.hdr.mx + 1 .. End' : TRUE)
      BY <1>b, <2>1, <2>2, <2>4, <3>1, <3>3, <3>4
    <3> QED
      BY <3>5 DEF ChainInv
  <2> QED
    BY <1>b, <2>3, <2>4
<1>6. ASSUME Spill \/ Commit PROVE ChainInv'
  <2>1. PICK pages \in Seq(Pages), ends \in BOOLEAN : StartFrames(pages, ends)
    BY <1>6, StartsFrames
  <2>2. pc = "write" /\ UNCHANGED <<file, mods, txns>>
    BY <2>1 DEF StartFrames, files, bounds
  <2>3. CASE pc' = "header"
    <3>1. ~Begun'
      BY <2>3 DEF Begun
    <3> QED
      BY <3>1 DEF ChainInv
  <2>4. CASE pc' # "header"
    <3>1. hdr' = hdr /\ index' = index /\ pc' = "frame" /\ hdr.mx # 0
      BY <1>a, <2>1, <2>4, StartFramesDoes
    <3>2. Begun
      BY <1>b, <2>2, <3>1 DEF Begun
    <3> QED
      BY <1>a, <2>2, <3>1, <3>2 DEF ChainInv, End
  <2> QED
    BY <2>3, <2>4
<1>7. ASSUME WriteHeader PROVE ChainInv'
  <2>1. /\ file'.log[0].salt = salts + 1 /\ salts + 1 \in Nat \ {0}
        /\ hdr'.mx = hdr.mx /\ hdr'.salt = salts + 1
        /\ Len(hdr'.sum) = 1 /\ hdr'.sum[1] = salts + 1 /\ End' = 0
    BY <1>7, WriteHeaderDoes
  <2>2. pc' = "frame" /\ index' = index /\ pc = "header"
    BY <1>7 DEF WriteHeader
  <2>3. hdr.mx = 0 /\ index.hdr.mx = 0
    BY <1>a, <2>2 DEF HeaderInv
  <2>4. /\ hdr'.salt = file'.log[0].salt /\ hdr'.salt > 0
        /\ Len(hdr'.sum) > 0 /\ hdr'.sum[1] = hdr'.salt
        /\ index'.hdr.mx <= hdr'.mx /\ hdr'.mx <= End' /\ ~(End' > 0)
        /\ ~(\E i \in index'.hdr.mx + 1 .. End' : TRUE)
    BY <2>1, <2>2, <2>3
  <2> QED
    BY <2>2, <2>4 DEF ChainInv
<1>8. ASSUME WriteFrame PROVE ChainInv'
  <2>1. /\ End \in 0 .. MaxFrames - 1 /\ End + 1 \in 1 .. MaxFrames
        /\ \A i \in Slots : i # End + 1 => file'.log[i] = file.log[i]
        /\ file'.log[End + 1] = NextFrame
        /\ NextFrame.salt = hdr.salt /\ NextFrame.txn = txns /\ NextFrame.pg = list[1]
        /\ NextFrame.commit = (commit /\ Len(list) = 1)
        /\ Len(NextFrame.sum) = End + 2 /\ NextFrame.sum[1] = hdr.salt
        /\ hdr'.mx = hdr.mx /\ hdr'.salt = hdr.salt /\ hdr'.sum = NextFrame.sum
        /\ End' = End + 1 /\ list[1] \in mods /\ Len(list) \in Nat \ {0}
    BY <1>8, WriteFrameDoes DEF WalInv
  <2>2. /\ pc = "frame"
        /\ pc' = IF Len(list) > 1 THEN "frame" ELSE IF commit THEN "sync" ELSE "spilled"
        /\ UNCHANGED <<index, commit, mods, txns>>
    BY <1>8 DEF WriteFrame, bounds
  <2>3. /\ hdr.salt = file.log[0].salt /\ hdr.salt > 0
        /\ index.hdr.mx <= hdr.mx /\ hdr.mx <= End
        /\ End > 0 => Valid(file.log, End) /\ file.log[End].sum = hdr.sum
        /\ \A i \in index.hdr.mx + 1 .. End :
              file.log[i].txn = txns /\ file.log[i].pg \in mods /\ ~file.log[i].commit
    BY <1>a, <2>2 DEF ChainInv, Begun
  <2>a. \/ pc' = "frame" /\ ~(Len(list) = 1)
        \/ pc' = "sync" /\ commit /\ Len(list) = 1
        \/ pc' = "spilled" /\ ~commit
    <3>0. Len(list) \in Nat \ {0}
      BY <2>1, Zenon
    <3>1. \A n \in Nat \ {0} : (n > 1 \/ n = 1) /\ (n > 1 => ~(n = 1))
      OBVIOUS
    <3>2. (Len(list) > 1 \/ Len(list) = 1) /\ (Len(list) > 1 => ~(Len(list) = 1))
      BY <3>0, <3>1, Zenon
    <3>3. Len(list) = 1 => ~(Len(list) > 1)
      OBVIOUS
    <3> QED
      BY <2>2, <3>2, <3>3, Zenon
  <2>b. NextFrame.commit = (commit /\ Len(list) = 1)
    BY <2>1
  <2>4. \A i \in 0 .. End : file'.log[i] = file.log[i]
    <3> SUFFICES ASSUME NEW i \in 0 .. End PROVE file'.log[i] = file.log[i]
      OBVIOUS
    <3>1. i \in Slots /\ i # End + 1
      BY <1>b, <2>1
    <3> QED
      BY <2>1, <3>1
  <2>5. file'.log[0] = file.log[0] /\ file'.log[End] = file.log[End]
    BY <2>1, <2>4
  <2>6. Valid(file'.log, End)
    <3>1. Valid(file.log, End)
      <4>1. CASE End = 0
        BY <4>1 DEF Valid
      <4>2. CASE End > 0
        BY <2>3, <4>2
      <4> QED
        BY <2>1, <4>1, <4>2
    <3>2. End \in 0 .. MaxFrames
      BY <1>b, <2>1
    <3> QED
      BY <2>4, <3>1, <3>2, ValidSame
  <2>7. ValidFrame(file'.log, End + 1)
    <3>1. hdr.sum = IF End + 1 = 1 THEN <<file.log[0].salt>> ELSE file.log[End].sum
      <4>1. CASE End = 0
        <5>1. Len(hdr.sum) = 1 /\ hdr.sum[1] = hdr.salt /\ hdr.sum \in Seq(Link)
          BY <1>a, <1>b, <2>2, <4>1, HeadersAre DEF ChainInv, Begun
        <5>2. hdr.sum = <<file.log[0].salt>>
          BY <2>3, <5>1
        <5> QED
          BY <4>1, <5>2
      <4>2. CASE End > 0
        BY <2>1, <2>3, <4>2
      <4> QED
        BY <2>1, <4>1, <4>2
    <3>2. NextFrame.sum = Checksum(hdr.sum, NextFrame.pg, NextFrame.txn, NextFrame.commit)
      BY DEF NextFrame
    <3>3. (End + 1) - 1 = End
      BY <2>1
    <3> QED
      BY <2>1, <2>3, <2>5, <3>1, <3>2, <3>3 DEF ValidFrame
  <2>8. Valid(file'.log, End + 1)
    <3> SUFFICES ASSUME NEW i \in 1 .. End + 1 PROVE ValidFrame(file'.log, i)
      BY DEF Valid
    <3>1. i \in 1 .. End \/ i = End + 1
      BY <2>1
    <3> QED
      BY <2>6, <2>7, <3>1 DEF Valid
  <2>9. ASSUME NEW i \in index.hdr.mx + 1 .. End + 1
        PROVE  /\ file'.log[i].txn = txns /\ file'.log[i].pg \in mods
               /\ i < End + 1 \/ pc' \notin {"sync", "publish"} => ~file'.log[i].commit
    <3>1. CASE i = End + 1
      <4>1. pc' \notin {"sync", "publish"} => ~NextFrame.commit
        BY <2>a, <2>b, Zenon
      <4> QED
        BY <2>1, <3>1, <4>1
    <3>2. CASE i < End + 1
      <4>1. i \in 0 .. End /\ i \in index.hdr.mx + 1 .. End
        BY <1>b, <2>1, <3>2
      <4> QED
        BY <2>3, <2>4, <4>1
    <3> QED
      BY <1>b, <2>1, <3>1, <3>2
  <2>10. pc' # "write" /\ (pc' = "sync" => commit /\ NextFrame.commit)
    BY <2>a, <2>b
  <2>11. /\ hdr'.salt = file'.log[0].salt /\ hdr'.salt > 0
         /\ Len(hdr'.sum) > 0 /\ hdr'.sum[1] = hdr'.salt
         /\ index'.hdr.mx <= hdr'.mx /\ hdr'.mx <= End' /\ End' > hdr'.mx
    BY <1>b, <2>1, <2>2, <2>3, <2>5
  <2>12. file'.log[End'].sum = hdr'.sum /\ Valid(file'.log, End')
    BY <2>1, <2>8
  <2>13. pc' # "publish" /\ (pc' = "sync" => commit' /\ file'.log[End'].commit)
    BY <2>1, <2>2, <2>10
  <2> QED
    BY <2>1, <2>2, <2>9, <2>10, <2>11, <2>12, <2>13 DEF ChainInv
<1>9. ASSUME Spilled PROVE ChainInv'
  <2>1. /\ hdr'.mx = End /\ hdr'.salt = hdr.salt /\ hdr'.sum = hdr.sum /\ End' = End
        /\ pc = "spilled" /\ pc' = "write" /\ UNCHANGED <<file, index, mods, txns>>
    BY <1>9, <1>a, SpilledDoes DEF Spilled, files, bounds
  <2>2. /\ hdr.salt = file.log[0].salt /\ hdr.salt > 0
        /\ Len(hdr.sum) > 0 /\ hdr.sum[1] = hdr.salt
        /\ index.hdr.mx <= hdr.mx /\ hdr.mx <= End
        /\ End > 0 => Valid(file.log, End) /\ file.log[End].sum = hdr.sum
        /\ \A i \in index.hdr.mx + 1 .. End :
              file.log[i].txn = txns /\ file.log[i].pg \in mods /\ ~file.log[i].commit
    BY <1>a, <2>1 DEF ChainInv, Begun
  <2>3. index'.hdr.mx <= hdr'.mx /\ hdr'.mx <= End'
    BY <1>b, <2>1, <2>2
  <2> QED
    BY <2>1, <2>2, <2>3 DEF ChainInv
<1>10. ASSUME SyncLog PROVE ChainInv'
  <2>1. pc = "sync" /\ pc' = "publish" /\ UNCHANGED <<file, index, hdr, commit, mods, txns>>
    BY <1>10 DEF SyncLog, writer, bounds
  <2>2. Begun /\ End' = End
    BY <2>1 DEF Begun, End
  <2> QED
    BY <1>a, <2>1, <2>2 DEF ChainInv
<1> QED
  BY <1>2, <1>3, <1>4, <1>5, <1>6, <1>7, <1>8, <1>9, <1>10 DEF Next

-----------------------------------------------------------------------------
(* What the transaction has in the log.                                    *)

\* A later transaction does not disturb a bound on a chain's transactions.
LEMMA UpToMore ==
    ASSUME NEW f, NEW t \in Nat, UpTo(f, t)
    PROVE  UpTo(f, t + 1)
BY DEF UpTo

\* A slot that was torn has no chain.
LEMMA UpToNone == ASSUME NEW t PROVE UpTo(NoFrame, t)
<1>1. NoFrame.sum = <<>>
  BY DEF NoFrame
<1>2. ~(\E x \in 2 .. Len(NoFrame.sum) : TRUE)
  BY <1>1
<1> QED
  BY <1>2 DEF UpTo

\* Every step keeps old chains free of the transaction under way (FreshInv).
LEMMA FreshStep == TypeInv /\ WalInv /\ Next /\ broken' = {} => FreshInv'
<1> SUFFICES ASSUME TypeInv, WalInv, Next, broken' = {} PROVE FreshInv'
  OBVIOUS
<1>a. HeadersType /\ FilesType /\ HeaderInv /\ IndexInv /\ ChainInv /\ FreshInv
  BY DEF TypeInv, WalInv
<1>b. /\ hdr.mx \in 0 .. MaxFrames /\ index.hdr.mx \in 0 .. MaxFrames
      /\ MaxFrames \in Nat \ {0} /\ Slots = 0 .. MaxFrames /\ txns \in Nat
      /\ End \in -1 .. MaxFrames /\ Len(hdr.sum) = End + 1
  BY <1>a, HeadersAre, SlotsAre, WalAssumption DEF FilesType
<1>c. \A i \in 1 .. MaxFrames : UpTo(file.log[i], txns) /\ UpTo(disk.log[i], txns)
  BY <1>a DEF FreshInv
<1>d. pc \in Txn =>
         \A i \in 1 .. MaxFrames : (Begun /\ i \in index.hdr.mx + 1 .. End) \/ UpTo(file.log[i], txns - 1)
  BY <1>a DEF FreshInv
<1>e. pc \in Txn \ {"publish"} => \A i \in 1 .. MaxFrames : UpTo(disk.log[i], txns - 1)
  BY <1>a DEF FreshInv
<1>1. ASSUME UNCHANGED <<files, txns>>, pc' \notin Txn PROVE FreshInv'
  BY <1>1, <1>c DEF FreshInv, files
<1>2. ASSUME Recover \/ BeginRead \/ EndRead \/ CommitNothing \/ Publish \/ Rollback PROVE FreshInv'
  <2>1. pc' \notin Txn /\ UNCHANGED <<files, txns>>
    BY <1>2 DEF Recover, BeginRead, EndRead, CommitNothing, Publish, Rollback, Undo, Txn, bounds
  <2> QED
    BY <1>1, <2>1
<1>3. ASSUME WriteFails \/ CheckpointFails \/ Kill PROVE FreshInv'
  <2>1. pc' \notin Txn /\ UNCHANGED <<files, txns>>
    BY <1>3 DEF WriteFails, Undo, CheckpointFails, Kill, MemoryLost, Txn
  <2> QED
    BY <1>1, <2>1
<1>4. ASSUME ReadPage \/ Modify PROVE FreshInv'
  <2>1. UNCHANGED <<file, disk, pc, index, hdr, txns>>
    BY <1>4 DEF ReadPage, Modify, files, bounds
  <2> QED
    BY <1>a, <2>1 DEF FreshInv, Begun, End
<1>5. ASSUME BeginWrite PROVE FreshInv'
  <2>1. UNCHANGED <<file, disk>> /\ txns' = txns + 1
    BY <1>5 DEF BeginWrite, files
  <2>2. \A i \in 1 .. MaxFrames : UpTo(file.log[i], txns + 1) /\ UpTo(disk.log[i], txns + 1)
    BY <1>b, <1>c, UpToMore
  <2>3. txns' - 1 = txns
    BY <1>b, <2>1
  <2> QED
    BY <1>c, <2>1, <2>2, <2>3 DEF FreshInv
<1>6. ASSUME Spill \/ Commit PROVE FreshInv'
  <2>1. PICK pages \in Seq(Pages), ends \in BOOLEAN : StartFrames(pages, ends)
    BY <1>6, StartsFrames
  <2>2. pc = "write" /\ UNCHANGED <<file, disk, txns>>
    BY <2>1 DEF StartFrames, files, bounds
  <2>3. \/ /\ ~usesLog /\ pc' = "header"
        \/ /\ hdr' = hdr /\ index' = index
           /\ pc' = IF hdr.mx = 0 THEN "header" ELSE "frame"
    BY <1>a, <2>1, StartFramesDoes
  <2>4. pc' \in Txn \ {"publish"}
    BY <2>3 DEF Txn
  <2>5. CASE pc' = "header"
    <3>1. ~usesLog \/ hdr.mx = 0
      BY <2>3, <2>5
    <3>2. ~(Begun /\ \E i \in index.hdr.mx + 1 .. End : TRUE)
      <4> SUFFICES ASSUME Begun PROVE ~(\E i \in index.hdr.mx + 1 .. End : TRUE)
        OBVIOUS
      <4>1. hdr = index.hdr /\ End = hdr.mx
        BY <1>a, <2>2, <3>1 DEF HeaderInv, ChainInv
      <4> QED
        BY <1>b, <4>1
    <3>3. \A i \in 1 .. MaxFrames : UpTo(file.log[i], txns - 1)
      BY <1>d, <2>2, <3>2 DEF Txn
    <3> QED
      BY <1>c, <1>e, <2>2, <3>3 DEF FreshInv, Txn
  <2>6. CASE pc' # "header"
    <3>1. hdr' = hdr /\ index' = index /\ pc' = "frame"
      BY <2>3, <2>6
    <3>2. Begun' /\ End' = End
      BY <3>1 DEF Begun, End
    <3>3. \A i \in 1 .. MaxFrames : i \in index.hdr.mx + 1 .. End \/ UpTo(file.log[i], txns - 1)
      BY <1>d, <2>2 DEF Txn
    <3> QED
      BY <1>c, <1>e, <2>2, <3>1, <3>2, <3>3 DEF FreshInv, Txn
  <2> QED
    BY <2>5, <2>6
<1>7. ASSUME WriteHeader PROVE FreshInv'
  <2>1. \A i \in 1 .. MaxFrames : file'.log[i] = file.log[i]
    BY <1>7, WriteHeaderDoes
  <2>2. pc = "header" /\ UNCHANGED <<disk, txns>> /\ pc' = "frame"
    BY <1>7 DEF WriteHeader
  <2>3. \A i \in 1 .. MaxFrames : UpTo(file.log[i], txns - 1)
    BY <1>d, <2>2 DEF Begun, Txn
  <2> QED
    BY <1>c, <1>e, <2>1, <2>2, <2>3 DEF FreshInv, Txn
<1>8. ASSUME WriteFrame PROVE FreshInv'
  <2>1. /\ End \in 0 .. MaxFrames - 1 /\ End' = End + 1
        /\ \A i \in Slots : i # End + 1 => file'.log[i] = file.log[i]
        /\ file'.log[End + 1] = NextFrame
        /\ Len(NextFrame.sum) = End + 2
        /\ NextFrame.sum[End + 2] = <<list[1], txns, NextFrame.commit>>
        /\ \A x \in 1 .. End + 1 : NextFrame.sum[x] = hdr.sum[x]
    BY <1>8, WriteFrameDoes DEF WalInv
  <2>2. pc = "frame" /\ UNCHANGED <<disk, index, txns>> /\ pc' \in {"frame", "sync", "spilled"}
    BY <1>8 DEF WriteFrame, bounds
  <2>3. index.hdr.mx <= hdr.mx /\ hdr.mx <= End /\ (End > 0 => file.log[End].sum = hdr.sum)
    BY <1>a, <2>2 DEF ChainInv, Begun
  <2>4. UpTo(NextFrame, txns)
    <3> SUFFICES ASSUME NEW x \in 2 .. End + 2 PROVE NextFrame.sum[x][2] \in 0 .. txns
      BY <2>1 DEF UpTo
    <3>1. CASE x = End + 2
      BY <1>b, <2>1, <3>1
    <3>2. CASE x # End + 2
      <4>1. End > 0 /\ End \in 1 .. MaxFrames /\ x \in 2 .. Len(hdr.sum) /\ x \in 1 .. End + 1
        BY <1>b, <2>1, <3>2
      <4>2. UpTo(file.log[End], txns)
        BY <1>c, <4>1
      <4>3. hdr.sum[x][2] \in 0 .. txns
        BY <2>3, <4>1, <4>2 DEF UpTo
      <4> QED
        BY <2>1, <4>1, <4>3
    <3> QED
      BY <3>1, <3>2
  <2>5. ASSUME NEW i \in 1 .. MaxFrames
        PROVE  UpTo(file'.log[i], txns) /\ (i \in index.hdr.mx + 1 .. End + 1 \/ UpTo(file'.log[i], txns - 1))
    <3>1. CASE i = End + 1
      <4>1. i \in index.hdr.mx + 1 .. End + 1
        BY <1>b, <2>1, <2>3, <3>1
      <4> QED
        BY <2>1, <2>4, <3>1, <4>1
    <3>2. CASE i # End + 1
      <4>1. file'.log[i] = file.log[i]
        BY <1>b, <2>1, <3>2
      <4>2. i \in index.hdr.mx + 1 .. End \/ UpTo(file.log[i], txns - 1)
        BY <1>d, <2>2 DEF Txn
      <4>3. i \in index.hdr.mx + 1 .. End => i \in index.hdr.mx + 1 .. End + 1
        BY <1>b, <2>1
      <4> QED
        BY <1>c, <4>1, <4>2, <4>3
    <3> QED
      BY <3>1, <3>2
  <2>6. Begun'
    BY <2>2 DEF Begun
  <2> QED
    BY <1>c, <1>e, <2>1, <2>2, <2>5, <2>6 DEF FreshInv, Txn
<1>9. ASSUME Spilled PROVE FreshInv'
  <2>1. /\ hdr'.mx = End /\ End' = End /\ pc = "spilled" /\ pc' = "write"
        /\ UNCHANGED <<file, disk, index, txns>>
    BY <1>9, <1>a, SpilledDoes DEF Spilled, files, bounds
  <2>2. End > hdr.mx
    BY <1>a, <2>1 DEF ChainInv, Begun
  <2>3. Begun'
    BY <1>b, <2>1, <2>2 DEF Begun
  <2>4. \A i \in 1 .. MaxFrames : i \in index.hdr.mx + 1 .. End \/ UpTo(file.log[i], txns - 1)
    BY <1>d, <2>1 DEF Txn
  <2> QED
    BY <1>c, <1>e, <2>1, <2>3, <2>4 DEF FreshInv, Txn
<1>10. ASSUME SyncLog \/ StartCheckpoint PROVE FreshInv'
  <2>1. disk'.log = file.log /\ file' = file
    BY <1>10, <1>a, SyncDoes
  <2>2. txns' = txns /\ hdr' = hdr /\ index' = index
    BY <1>10 DEF SyncLog, StartCheckpoint, bounds
  <2>3. (pc = "sync" /\ pc' = "publish") \/ pc' = "copy"
    BY <1>10 DEF SyncLog, StartCheckpoint
  <2>4. pc' = "publish" =>
           \A i \in 1 .. MaxFrames : (Begun' /\ i \in index.hdr.mx + 1 .. End) \/ UpTo(file.log[i], txns - 1)
    BY <1>d, <2>3 DEF Begun, Txn
  <2>5. End' = End
    BY <2>2 DEF End
  <2> QED
    BY <1>c, <2>1, <2>2, <2>3, <2>4, <2>5 DEF FreshInv, Txn
<1>11. ASSUME CopyPage \/ EndCheckpoint PROVE FreshInv'
  <2>1. file'.log = file.log /\ disk'.log = disk.log
    <3>1. CASE CopyPage
      <4>1. \E p \in Pages : file'.log = file.log
        BY <3>1, CopyPageDoes DEF WalInv
      <4> QED
        BY <3>1, <4>1 DEF CopyPage
    <3>2. CASE EndCheckpoint
      BY <3>2, EndCheckpointDoes DEF EndCheckpoint
    <3> QED
      BY <1>11, <3>1, <3>2
  <2>2. pc' \notin Txn /\ txns' = txns
    BY <1>11 DEF CopyPage, EndCheckpoint, Txn, bounds
  <2> QED
    BY <1>c, <2>1, <2>2 DEF FreshInv
<1>12. ASSUME PowerLoss PROVE FreshInv'
  <2>1. disk' = file' /\ \A i \in Slots : file'.log[i] \in {disk.log[i], file.log[i], NoFrame}
    BY <1>12, <1>a, PowerLossDoes
  <2>2. pc' = "closed" /\ txns' = txns
    BY <1>12 DEF PowerLoss, MemoryLost
  <2>3. \A i \in 1 .. MaxFrames : UpTo(file'.log[i], txns)
    <3> SUFFICES ASSUME NEW i \in 1 .. MaxFrames PROVE UpTo(file'.log[i], txns)
      OBVIOUS
    <3>1. i \in Slots
      BY <1>b
    <3> QED
      BY <1>c, <2>1, <3>1, UpToNone
  <2> QED
    BY <2>1, <2>2, <2>3 DEF FreshInv, Txn
<1> QED
  BY <1>2, <1>3, <1>4, <1>5, <1>6, <1>7, <1>8, <1>9, <1>10, <1>11, <1>12 DEF Next

\* Every step keeps track of what the transaction has changed: a page is dirty, going
\* to the log, or in it (ModsInv).
LEMMA ModsStep == TypeInv /\ WalInv /\ Next /\ broken' = {} => ModsInv'
<1> SUFFICES ASSUME TypeInv, WalInv, Next, broken' = {} PROVE ModsInv'
  OBVIOUS
<1>a. HeadersType /\ FilesType /\ PagerType /\ HeaderInv /\ IndexInv /\ ChainInv /\ ModsInv
  BY DEF TypeInv, WalInv
<1>b. /\ hdr.mx \in 0 .. MaxFrames /\ index.hdr.mx \in 0 .. MaxFrames
      /\ MaxFrames \in Nat \ {0} /\ Slots = 0 .. MaxFrames
      /\ End \in -1 .. MaxFrames
  BY <1>a, HeadersAre, SlotsAre
<1>1. ASSUME pc' \notin Txn PROVE ModsInv'
  BY <1>1 DEF ModsInv
<1>2. ASSUME Recover \/ BeginRead \/ EndRead \/ CommitNothing \/ Publish \/ Rollback PROVE ModsInv'
  <2>1. pc' \notin Txn
    BY <1>2 DEF Recover, BeginRead, EndRead, CommitNothing, Publish, Rollback, Undo, Txn
  <2> QED
    BY <1>1, <2>1
<1>3. ASSUME \/ WriteFails \/ StartCheckpoint \/ CopyPage \/ EndCheckpoint \/ CheckpointFails
             \/ Kill \/ PowerLoss
      PROVE ModsInv'
  <2>1. pc' \notin Txn
    BY <1>3 DEF WriteFails, Undo, StartCheckpoint, CopyPage, EndCheckpoint, CheckpointFails,
                Kill, PowerLoss, MemoryLost, Txn
  <2> QED
    BY <1>1, <2>1
<1>4. ASSUME ReadPage PROVE ModsInv'
  <2>1. UNCHANGED <<file, pc, index, hdr, dirty, mods, list, commit>>
    BY <1>4 DEF ReadPage, files, writer
  <2> QED
    BY <1>a, <2>1 DEF ModsInv, Logged, End
<1>5. ASSUME BeginWrite PROVE ModsInv'
  <2>1. pc' = "write" /\ mods' = mods /\ mods = {}
    BY <1>5, <1>a DEF BeginWrite, writer, PagerType, Txn
  <2> QED
    BY <2>1 DEF ModsInv
<1>6. ASSUME Modify PROVE ModsInv'
  <2>1. PICK p \in Pages \ dirty : dirty' = dirty \cup {p} /\ mods' = mods \cup {p}
    BY <1>6 DEF Modify
  <2>2. pc = "write" /\ UNCHANGED <<file, pc, index, hdr>>
    BY <1>6 DEF Modify, files
  <2>3. mods' \ dirty' \subseteq mods \ dirty
    BY <2>1
  <2>4. \A q \in mods \ dirty : Logged(q, hdr.mx)
    BY <1>a, <2>2 DEF ModsInv, Txn
  <2> QED
    BY <2>2, <2>3, <2>4 DEF ModsInv, Logged
<1>7. ASSUME Spill \/ Commit PROVE ModsInv'
  <2>1. PICK pages \in Seq(Pages), ends \in BOOLEAN :
           /\ StartFrames(pages, ends)
           /\ pages # <<>> /\ \A i \in 1 .. Len(pages) : pages[i] \in dirty
           /\ ~ends => Len(pages) = 1
           /\ ends => \A p \in dirty : \E i \in 1 .. Len(pages) : pages[i] = p
    BY <1>7, StartsFrames
  <2>2. /\ pc = "write" /\ list' = pages /\ commit' = ends /\ pc' \in {"header", "frame"}
        /\ UNCHANGED <<file, dirty, mods>>
    BY <2>1 DEF StartFrames, files
  <2>3. \/ /\ ~usesLog
        \/ /\ hdr' = hdr /\ index' = index
    BY <1>a, <2>1, StartFramesDoes
  <2>4. \A q \in mods \ dirty : Logged(q, hdr.mx)
    BY <1>a, <2>2 DEF ModsInv, Txn
  <2>5. \A q \in mods \ dirty : Logged(q, hdr.mx)'
    <3>1. CASE ~usesLog
      <4>1. hdr = index.hdr
        BY <1>a, <2>2, <3>1 DEF HeaderInv
      <4>2. \A q \in mods \ dirty : FALSE
        BY <1>b, <2>4, <4>1 DEF Logged
      <4> QED
        BY <4>2
    <3>2. CASE hdr' = hdr /\ index' = index
      BY <2>2, <2>4, <3>2 DEF Logged
    <3> QED
      BY <2>3, <3>1, <3>2
  <2>6. /\ list' # <<>> /\ \A i \in 1 .. Len(list') : list'[i] \in dirty'
        /\ ~commit' => Len(list') = 1
        /\ commit' => \A p \in dirty' : \E i \in 1 .. Len(list') : list'[i] = p
    BY <2>1, <2>2
  <2> QED
    BY <2>2, <2>5, <2>6 DEF ModsInv
<1>8. ASSUME WriteHeader PROVE ModsInv'
  <2>1. hdr'.mx = hdr.mx
    BY <1>8, WriteHeaderDoes
  <2>2. /\ pc = "header" /\ pc' = "frame" /\ UNCHANGED <<index, dirty, mods, list, commit>>
    BY <1>8 DEF WriteHeader, writer
  <2>3. hdr.mx = 0 /\ index.hdr.mx = 0
    BY <1>a, <2>2 DEF HeaderInv
  <2>4. \A q \in mods \ dirty : Logged(q, hdr.mx)
    BY <1>a, <2>2 DEF ModsInv, Txn
  <2>5. \A q \in mods \ dirty : FALSE
    BY <2>3, <2>4 DEF Logged
  <2>6. /\ list # <<>> /\ \A i \in 1 .. Len(list) : list[i] \in dirty
        /\ ~commit => Len(list) = 1
        /\ commit => \A p \in dirty : \E i \in 1 .. Len(list) : list[i] = p
    BY <1>a, <2>2 DEF ModsInv, Txn
  <2> QED
    BY <2>2, <2>5, <2>6 DEF ModsInv
<1>9. ASSUME WriteFrame PROVE ModsInv'
  <2> DEFINE Has(q, k) == \E i \in index.hdr.mx + 1 .. k : file'.log[i].pg = q
  <2>1. /\ End \in 0 .. MaxFrames - 1 /\ End' = End + 1
        /\ \A i \in Slots : i # End + 1 => file'.log[i] = file.log[i]
        /\ file'.log[End + 1] = NextFrame /\ NextFrame.pg = list[1]
        /\ hdr'.mx = hdr.mx
        /\ list \in Seq(Pages) /\ Len(list) \in Nat \ {0} /\ list # <<>>
    BY <1>9, WriteFrameDoes DEF WalInv
  <2>2. /\ pc = "frame" /\ list' = Tail(list)
        /\ pc' = IF Len(list) > 1 THEN "frame" ELSE IF commit THEN "sync" ELSE "spilled"
        /\ UNCHANGED <<index, dirty, commit, mods>>
    BY <1>9 DEF WriteFrame
  <2>3. index.hdr.mx <= hdr.mx /\ hdr.mx <= End
    BY <1>a, <2>2 DEF ChainInv, Begun
  <2>4. ASSUME NEW q, NEW k \in 0 .. End, Logged(q, k) PROVE Has(q, k) /\ Has(q, End + 1)
    <3>1. PICK i \in index.hdr.mx + 1 .. k : file.log[i].pg = q
      BY <2>4 DEF Logged
    <3>2. i \in Slots /\ i # End + 1 /\ i \in index.hdr.mx + 1 .. End + 1
      BY <1>b, <2>1
    <3>3. file'.log[i].pg = q
      BY <2>1, <3>1, <3>2
    <3> QED
      BY <3>1, <3>2, <3>3
  <2>5. Has(list[1], End + 1)
    <3>1. End + 1 \in index.hdr.mx + 1 .. End + 1
      BY <1>b, <2>1, <2>3
    <3> QED
      BY <2>1, <3>1
  <2> HIDE DEF Has
  <2>6. \A q \in mods \ dirty : Has(q, hdr.mx)
    <3>1. hdr.mx \in 0 .. End
      BY <1>b, <2>1, <2>3
    <3> QED
      BY <1>a, <2>2, <2>4, <3>1 DEF ModsInv, Txn
  <2>7. /\ \A i \in 1 .. Len(list) : list[i] \in dirty
        /\ ~commit => Len(list) = 1
        /\ commit => \A p \in dirty : Logged(p, End) \/ \E i \in 1 .. Len(list) : list[i] = p
    BY <1>a, <2>2 DEF ModsInv, Txn
  <2>8. /\ Tail(list) \in Seq(Pages) /\ Len(Tail(list)) = Len(list) - 1
        /\ \A i \in 1 .. Len(list) - 1 : Tail(list)[i] = list[i + 1]
    BY <2>1
  <2>9. ASSUME NEW p \in dirty, commit
        PROVE  Has(p, End + 1) \/ \E i \in 1 .. Len(Tail(list)) : Tail(list)[i] = p
    <3>1. CASE Logged(p, End)
      <4>1. End \in 0 .. End
        BY <2>1
      <4> QED
        BY <2>4, <3>1, <4>1
    <3>2. CASE \E i \in 1 .. Len(list) : list[i] = p
      <4>1. PICK i \in 1 .. Len(list) : list[i] = p
        BY <3>2
      <4>2. CASE i = 1
        <5>1. p = list[1]
          BY <4>1, <4>2
        <5> QED
          BY <2>5, <5>1
      <4>3. CASE i # 1
        <5>1. i - 1 \in 1 .. Len(list) - 1 /\ (i - 1) + 1 = i
          BY <2>1, <4>3
        <5>2. Tail(list)[i - 1] = p
          BY <2>8, <4>1, <5>1
        <5> QED
          BY <2>8, <5>1, <5>2
      <4> QED
        BY <4>2, <4>3
    <3> QED
      BY <2>7, <2>9, <3>1, <3>2
  <2>10. CASE Len(list) > 1
    <3>1. pc' = "frame" /\ commit
      BY <2>2, <2>7, <2>10
    <3>2. list' # <<>> /\ \A i \in 1 .. Len(list') : list'[i] \in dirty
      <4>1. Len(Tail(list)) > 0
        BY <2>1, <2>8, <2>10
      <4>2. ASSUME NEW i \in 1 .. Len(Tail(list)) PROVE Tail(list)[i] \in dirty
        <5>1. i + 1 \in 1 .. Len(list) /\ i \in 1 .. Len(list) - 1
          BY <2>1, <2>8
        <5> QED
          BY <2>7, <2>8, <5>1
      <4>3. Tail(list) # <<>>
        BY <4>1
      <4> QED
        BY <2>2, <4>2, <4>3
    <3>3. \A p \in dirty : Has(p, End + 1) \/ \E i \in 1 .. Len(list') : list'[i] = p
      BY <2>1, <2>2, <2>9, <3>1
    <3> QED
      BY <2>1, <2>2, <2>6, <3>1, <3>2, <3>3 DEF ModsInv, Logged, Has
  <2>11. CASE ~(Len(list) > 1)
    <3>1. pc' = (IF commit THEN "sync" ELSE "spilled")
      BY <2>2, <2>11
    <3>2. Len(Tail(list)) = 0
      BY <2>1, <2>8, <2>11
    <3>3. ASSUME commit, NEW p \in dirty PROVE Has(p, End + 1)
      <4>1. ~(\E i \in 1 .. Len(Tail(list)) : Tail(list)[i] = p)
        BY <3>2
      <4> QED
        BY <2>9, <3>3, <4>1
    <3> QED
      BY <2>1, <2>2, <2>6, <3>1, <3>3 DEF ModsInv, Logged, Has
  <2> QED
    BY <2>10, <2>11
<1>10. ASSUME Spilled PROVE ModsInv'
  <2>1. /\ hdr'.mx = End /\ dirty' = dirty \ {file.log[End].pg} /\ pc = "spilled" /\ pc' = "write"
        /\ UNCHANGED <<file, index, mods>>
    BY <1>10, <1>a, SpilledDoes DEF Spilled, files
  <2>2. index.hdr.mx <= hdr.mx /\ hdr.mx < End
    BY <1>a, <1>b, <2>1 DEF ChainInv, Begun
  <2>3. ASSUME NEW p \in mods' \ dirty' PROVE Logged(p, End)
    <3>1. CASE p = file.log[End].pg
      <4>1. End \in index.hdr.mx + 1 .. End
        BY <1>b, <2>2
      <4> QED
        BY <3>1, <4>1 DEF Logged
    <3>2. CASE p # file.log[End].pg
      <4>1. p \in mods \ dirty
        BY <2>1, <3>2
      <4>2. Logged(p, hdr.mx)
        BY <1>a, <2>1, <4>1 DEF ModsInv, Txn
      <4>3. index.hdr.mx + 1 .. hdr.mx \subseteq index.hdr.mx + 1 .. End
        BY <1>b, <2>2
      <4> QED
        BY <4>2, <4>3 DEF Logged
    <3> QED
      BY <3>1, <3>2
  <2>4. \A p \in mods' \ dirty' : Logged(p, hdr.mx)'
    BY <2>1, <2>3 DEF Logged
  <2> QED
    BY <2>1, <2>4 DEF ModsInv
<1>11. ASSUME SyncLog PROVE ModsInv'
  <2>1. pc = "sync" /\ pc' = "publish" /\ UNCHANGED <<file, index, hdr, dirty, mods>>
    BY <1>11 DEF SyncLog, writer
  <2> QED
    BY <1>a, <2>1 DEF ModsInv, Logged, End, Txn
<1> QED
  BY <1>2, <1>3, <1>4, <1>5, <1>6, <1>7, <1>8, <1>9, <1>10, <1>11 DEF Next

-----------------------------------------------------------------------------
(* The cache.                                                              *)

\* sqlite3WalUndo drops from the cache what the transaction changed, spilled pages too.
LEMMA CacheUndone ==
    ASSUME TypeInv, HeaderInv, ModsInv, CacheInv, pc \in Txn, Undo, NEW p \in Pages
    PROVE  cache'[p] \in {None, current[p]}
<1> DEFINE logged == {file.log[f].pg : f \in index.hdr.mx + 1 .. hdr.mx}
<1>1. cache' = [q \in Pages |-> IF q \in dirty \cup logged THEN None ELSE cache[q]]
  BY DEF Undo
<1>2. CASE p \in dirty \cup logged
  BY <1>1, <1>2
<1>3. CASE p \notin dirty \cup logged
  <2>1. ~Logged(p, hdr.mx)
    BY <1>3 DEF Logged
  <2>2. p \notin mods
    BY <1>3, <2>1 DEF ModsInv
  <2>3. cache[p] \in {None, Result[p]} /\ Result[p] = current[p]
    BY <1>3, <2>2 DEF CacheInv, Result
  <2> QED
    BY <1>1, <1>3, <2>3
<1> QED
  BY <1>2, <1>3

\* Every step keeps the cache true (CacheInv).
LEMMA CacheStep == TypeInv /\ WalInv /\ Next /\ broken' = {} => CacheInv'
<1> SUFFICES ASSUME TypeInv, WalInv, Next, broken' = {} PROVE CacheInv'
  OBVIOUS
<1>a. PagerType /\ HeadersType /\ HeaderInv /\ IndexInv /\ ChainInv /\ ModsInv /\ CacheInv
  BY DEF TypeInv, WalInv
<1>b. txns \in Nat /\ cache \in [Pages -> {None} \cup 0 .. txns] /\ dirty \subseteq mods /\ mods \subseteq Pages
  BY <1>a, WalAssumption DEF PagerType, TypeInv, FilesType
<1>c. \A p \in Pages : NoPages[p] = None
  BY DEF NoPages
<1>d. (pc = "idle" /\ hdr = index.hdr) \/ pc \in {"read", "checkpoint", "copy"} =>
         \A p \in Pages : cache[p] \in {None, current[p]}
  BY <1>a DEF CacheInv
<1>e. pc \in Txn =>
         \A p \in Pages : IF p \in dirty THEN cache[p] = txns ELSE cache[p] \in {None, Result[p]}
  BY <1>a DEF CacheInv
<1>1. ASSUME Recover PROVE CacheInv'
  <2>1. pc = "closed" /\ pc' = "idle" /\ cache' = cache
    BY <1>1 DEF Recover, reader
  <2>2. cache = NoPages
    BY <1>a, <2>1 DEF PagerType
  <2> QED
    BY <1>c, <2>1, <2>2 DEF CacheInv, Txn
<1>2. ASSUME BeginRead PROVE CacheInv'
  <2>1. /\ pc = "idle" /\ pc' = "read" /\ cache' = IF hdr = index.hdr THEN cache ELSE NoPages
        /\ current' = current
    BY <1>2 DEF BeginRead, history
  <2>2. \A p \in Pages : cache'[p] \in {None, current[p]}
    BY <1>c, <1>d, <2>1
  <2> QED
    BY <2>1, <2>2 DEF CacheInv, Txn
<1>3. ASSUME ReadPage PROVE CacheInv'
  <2>1. PICK p \in Pages : cache[p] = None /\ cache' = [cache EXCEPT ![p] = Fetch(p)]
    BY <1>3 DEF ReadPage
  <2>2. pc \in {"read", "write"} /\ UNCHANGED <<pc, index, hdr, dirty, mods, txns, current>>
    BY <1>3 DEF ReadPage, writer, bounds, history
  <2>3. p \notin dirty
    <3>1. txns # None
      BY <1>b DEF None
    <3>2. pc = "read" => dirty = {}
      BY <1>a DEF PagerType, Txn
    <3> QED
      BY <1>e, <2>1, <2>2, <3>1, <3>2 DEF Txn
  <2>4. Fetch(p) = Result[p]
    BY <1>a, <2>2, <2>3, FetchIs
  <2>5. \A q \in Pages : cache'[q] = IF q = p THEN Result[p] ELSE cache[q]
    BY <1>b, <2>1, <2>4
  <2>6. Result' = Result
    BY <2>2 DEF Result
  <2>7. CASE pc = "read"
    <3>1. Result = current
      BY <1>a, <2>7, NoMods DEF PagerType, Txn
    <3> QED
      BY <1>d, <2>2, <2>5, <2>7, <3>1 DEF CacheInv, Txn
  <2>8. CASE pc = "write"
    <3>1. \A q \in Pages : IF q \in dirty THEN cache'[q] = txns ELSE cache'[q] \in {None, Result[q]}
      BY <1>e, <2>3, <2>5, <2>8 DEF Txn
    <3> QED
      BY <2>2, <2>6, <2>8, <3>1 DEF CacheInv, Txn
  <2> QED
    BY <2>2, <2>7, <2>8
<1>4. ASSUME EndRead PROVE CacheInv'
  <2>1. pc = "read" /\ pc' \in {"checkpoint", "idle"} /\ UNCHANGED <<cache, current>>
    BY <1>4 DEF EndRead, history
  <2> QED
    BY <1>d, <2>1 DEF CacheInv, Txn
<1>5. ASSUME BeginWrite PROVE CacheInv'
  <2>1. pc = "read" /\ pc' = "write" /\ UNCHANGED <<cache, current, dirty, mods>>
    BY <1>5 DEF BeginWrite, reader, writer, history
  <2>2. mods = {} /\ dirty = {}
    BY <1>a, <2>1 DEF PagerType, Txn
  <2>3. \A p \in Pages : Result'[p] = current[p]
    BY <2>1, <2>2 DEF Result
  <2> QED
    BY <1>d, <2>1, <2>2, <2>3 DEF CacheInv
<1>6. ASSUME Modify PROVE CacheInv'
  <2>1. PICK p \in Pages \ dirty :
           /\ dirty' = dirty \cup {p} /\ mods' = mods \cup {p}
           /\ cache' = [cache EXCEPT ![p] = txns]
    BY <1>6 DEF Modify
  <2>2. pc = "write" /\ UNCHANGED <<pc, txns, current>>
    BY <1>6 DEF Modify, bounds, history
  <2>3. \A q \in Pages : /\ cache'[q] = IF q = p THEN txns ELSE cache[q]
                         /\ q # p => Result'[q] = Result[q]
    BY <1>b, <2>1, <2>2 DEF Result
  <2>4. \A q \in Pages : IF q \in dirty' THEN cache'[q] = txns ELSE cache'[q] \in {None, Result'[q]}
    BY <1>e, <2>1, <2>2, <2>3 DEF Txn
  <2> QED
    BY <2>2, <2>4 DEF CacheInv
<1>7. ASSUME Spill \/ Commit PROVE CacheInv'
  <2>1. PICK pages \in Seq(Pages), ends \in BOOLEAN : StartFrames(pages, ends)
    BY <1>7, StartsFrames
  <2>2. pc = "write" /\ pc' \in {"header", "frame"} /\ UNCHANGED <<cache, dirty, mods, txns, current>>
    BY <2>1 DEF StartFrames, bounds, history
  <2>3. Result' = Result
    BY <2>2 DEF Result
  <2> QED
    BY <1>e, <2>2, <2>3 DEF CacheInv, Txn
<1>8. ASSUME CommitNothing PROVE CacheInv'
  <2>1. pc = "write" /\ dirty = {} /\ pc' = "read" /\ current' = Result /\ cache' = cache
    BY <1>8 DEF CommitNothing, reader
  <2>2. \A p \in Pages : cache[p] \in {None, Result[p]}
    BY <1>e, <2>1 DEF Txn
  <2> QED
    BY <2>1, <2>2 DEF CacheInv, Txn
<1>9. ASSUME WriteHeader \/ WriteFrame \/ SyncLog PROVE CacheInv'
  <2>1. /\ pc \in Txn /\ pc' \in {"frame", "spilled", "sync", "publish"}
        /\ UNCHANGED <<cache, dirty, mods, txns, current>>
    BY <1>9 DEF WriteHeader, WriteFrame, SyncLog, Txn, reader, writer, bounds, history
  <2>2. Result' = Result
    BY <2>1 DEF Result
  <2> QED
    BY <1>e, <2>1, <2>2 DEF CacheInv
<1>10. ASSUME Spilled PROVE CacheInv'
  <2>1. /\ dirty' = dirty \ {file.log[End].pg} /\ cache' = [cache EXCEPT ![file.log[End].pg] = None]
        /\ pc = "spilled" /\ pc' = "write" /\ UNCHANGED <<mods, txns, current>>
    BY <1>10, <1>a, SpilledDoes DEF Spilled, bounds, history
  <2>2. Result' = Result
    BY <2>1 DEF Result
  <2>3. \A q \in Pages : cache'[q] = IF q = file.log[End].pg THEN None ELSE cache[q]
    BY <1>b, <2>1
  <2>4. \A q \in Pages : IF q \in dirty' THEN cache'[q] = txns ELSE cache'[q] \in {None, Result[q]}
    BY <1>e, <2>1, <2>3 DEF Txn
  <2> QED
    BY <2>1, <2>2, <2>4 DEF CacheInv
<1>11. ASSUME Publish PROVE CacheInv'
  <2>1. pc = "publish" /\ pc' = "read" /\ current' = Result /\ cache' = cache
    BY <1>11 DEF Publish, reader
  <2>2. \A p \in Pages : cache[p] \in {None, Result[p]}
    <3> SUFFICES ASSUME NEW p \in Pages PROVE cache[p] \in {None, Result[p]}
      OBVIOUS
    <3>1. CASE p \in dirty
      <4>1. p \in mods /\ cache[p] = txns
        BY <1>b, <1>e, <2>1, <3>1 DEF Txn
      <4> QED
        BY <4>1 DEF Result
    <3>2. CASE p \notin dirty
      BY <1>e, <2>1, <3>2 DEF Txn
    <3> QED
      BY <3>1, <3>2
  <2> QED
    BY <2>1, <2>2 DEF CacheInv, Txn
<1>12. ASSUME Undo, pc \in Txn, current' = current PROVE CacheInv'
  <2>1. pc' = "read"
    BY <1>12 DEF Undo
  <2>2. \A p \in Pages : cache'[p] \in {None, current[p]}
    BY <1>12, <1>a, CacheUndone
  <2> QED
    BY <1>12, <2>1, <2>2 DEF CacheInv, Txn
<1>13. ASSUME Rollback PROVE CacheInv'
  BY <1>12, <1>13 DEF Rollback, Txn, history
<1>14. ASSUME WriteFails PROVE CacheInv'
  <2>1. pc \in Txn /\ current' = current
    BY <1>14 DEF WriteFails, Txn, history
  <2>2. CASE Undo
    BY <1>12, <2>1, <2>2
  <2>3. CASE ~Undo
    <3>1. pc' = "idle" /\ cache' = NoPages
      BY <1>14, <2>3 DEF WriteFails
    <3> QED
      BY <1>c, <3>1 DEF CacheInv, Txn
  <2> QED
    BY <2>2, <2>3
<1>15. ASSUME StartCheckpoint \/ CopyPage \/ EndCheckpoint \/ CheckpointFails PROVE CacheInv'
  <2>1. pc \in {"checkpoint", "copy"} /\ pc' \in {"copy", "idle"} /\ UNCHANGED <<cache, current>>
    BY <1>15 DEF StartCheckpoint, CopyPage, EndCheckpoint, CheckpointFails, reader, history
  <2> QED
    BY <1>d, <2>1 DEF CacheInv, Txn
<1>16. ASSUME Kill \/ PowerLoss PROVE CacheInv'
  BY <1>16 DEF Kill, PowerLoss, MemoryLost, CacheInv, Txn
<1> QED
  BY <1>1, <1>2, <1>3, <1>4, <1>5, <1>6, <1>7, <1>8, <1>9, <1>10, <1>11, <1>13, <1>14,
     <1>15, <1>16
     DEF Next

-----------------------------------------------------------------------------
(* The wal-index.                                                          *)

\* All of a commit is in the log before it is synced.
LEMMA CommitMade ==
    ASSUME TypeInv, IndexInv, ChainInv, ModsInv, pc \in {"sync", "publish"}
    PROVE  Content(file.log, End, file.db) = Result
<1>1. /\ hdr.mx \in 0 .. MaxFrames /\ index.hdr.mx \in 0 .. MaxFrames /\ MaxFrames \in Nat
      /\ End \in Int
  BY HeadersAre DEF TypeInv
<1>2. Begun
  BY DEF Begun
<1>3. /\ index.hdr.mx <= hdr.mx /\ hdr.mx < End
      /\ \A i \in index.hdr.mx + 1 .. End : file.log[i].txn = txns /\ file.log[i].pg \in mods
  BY <1>1, <1>2 DEF ChainInv
<1>4. ASSUME NEW p \in mods PROVE \E i \in index.hdr.mx + 1 .. End : file.log[i].pg = p
  <2>1. CASE p \in dirty
    BY <2>1 DEF ModsInv, Logged, Txn
  <2>2. CASE p \notin dirty
    <3>1. PICK i \in index.hdr.mx + 1 .. hdr.mx : file.log[i].pg = p
      BY <1>4, <2>2 DEF ModsInv, Logged, Txn
    <3>2. i \in index.hdr.mx + 1 .. End
      BY <1>1, <1>3
    <3> QED
      BY <3>1, <3>2
  <2> QED
    BY <2>1, <2>2
<1>5. Content(file.log, index.hdr.mx, file.db) = current
  BY DEF IndexInv
<1>6. index.hdr.mx \in Nat /\ End \in Nat /\ index.hdr.mx <= End
  BY <1>1, <1>3
<1> QED
  BY <1>3, <1>4, <1>5, <1>6, CommitContent

\* What is in the index is not touched by frames behind it, nor by what is copied.
LEMMA IndexKept ==
    ASSUME TypeInv, IndexInv, pc # "closed", index' = index, current' = current, disk'.db = disk.db,
           \A i \in 0 .. index.hdr.mx : file'.log[i] = file.log[i],
           \A p \in Pages : (\A i \in 1 .. index.hdr.mx : file.log[i].pg # p) => file'.db[p] = file.db[p],
           index.backfill = index.hdr.mx => file'.db = file.db
    PROVE  IndexInv'
<1> DEFINE n == index.hdr.mx
<1>1. n \in 0 .. MaxFrames /\ n \in Nat /\ MaxFrames \in Nat
  BY HeadersAre DEF TypeInv
<1>2. /\ n > 0 => /\ Valid(file.log, n) /\ file.log[n].commit
                  /\ index.hdr.salt = file.log[0].salt /\ index.hdr.sum = file.log[n].sum
      /\ Content(file.log, n, file.db) = current
      /\ index.backfill = n => file.db = current /\ disk.db = current
  BY DEF IndexInv
<1>3. n > 0 => /\ Valid(file'.log, n) /\ file'.log[n].commit
               /\ index.hdr.salt = file'.log[0].salt /\ index.hdr.sum = file'.log[n].sum
  <2> SUFFICES ASSUME n > 0
               PROVE  /\ Valid(file'.log, n) /\ file'.log[n].commit
                      /\ index.hdr.salt = file'.log[0].salt /\ index.hdr.sum = file'.log[n].sum
    OBVIOUS
  <2>1. n \in 0 .. n /\ 0 \in 0 .. n
    BY <1>1
  <2>2. file'.log[n] = file.log[n] /\ file'.log[0] = file.log[0]
    BY <2>1
  <2>3. Valid(file'.log, n)
    <3> HIDE DEF n
    <3>1. \A i \in 0 .. n : file'.log[i] = file.log[i]
      BY DEF n
    <3> QED
      BY <1>1, <1>2, <3>1, ValidSame
  <2> QED
    BY <1>2, <2>2, <2>3
<1>4. Content(file'.log, n, file'.db) = current
  <2>1. \A i \in 1 .. n : file.log[i].pg = file'.log[i].pg /\ file.log[i].txn = file'.log[i].txn
    BY <1>1
  <2>2. \A p \in Pages : (\A i \in 1 .. n : file.log[i].pg # p) => file.db[p] = file'.db[p]
    OBVIOUS
  <2>3. n \in Nat
    BY <1>1
  <2> HIDE DEF n
  <2>4. Content(file.log, n, file.db) = Content(file'.log, n, file'.db)
    BY <2>1, <2>2, <2>3, ContentSame
  <2> QED
    BY <1>2, <2>4
<1>5. index.backfill = n => file'.db = current /\ disk'.db = current
  BY <1>2
<1> QED
  BY <1>3, <1>4, <1>5 DEF IndexInv

\* Every step keeps the wal-index true of the files (IndexInv).
LEMMA IndexStep == TypeInv /\ WalInv /\ Next /\ broken' = {} => IndexInv'
<1> SUFFICES ASSUME TypeInv, WalInv, Next, broken' = {} PROVE IndexInv'
  OBVIOUS
<1>a. /\ FilesType /\ HeadersType /\ PagerType /\ HeaderInv /\ IndexInv /\ ChainInv /\ ModsInv
      /\ GuaranteedInv /\ CopyInv
  BY DEF TypeInv, WalInv
<1>b. /\ hdr.mx \in 0 .. MaxFrames /\ index.hdr.mx \in 0 .. MaxFrames
      /\ MaxFrames \in Nat \ {0} /\ Slots = 0 .. MaxFrames
      /\ End \in -1 .. MaxFrames /\ index.backfill \in {0, index.hdr.mx}
  BY <1>a, HeadersAre, SlotsAre DEF HeadersType
<1>c. file.db \in [Pages -> {Torn} \cup 0 .. txns] /\ disk.db \in [Pages -> {Torn} \cup 0 .. txns]
  BY <1>a DEF FilesType
<1>d. pc # "closed" =>
         /\ Content(file.log, index.hdr.mx, file.db) = current
         /\ index.backfill = index.hdr.mx => file.db = current /\ disk.db = current
  BY <1>a DEF IndexInv
<1>1. ASSUME pc # "closed", UNCHANGED <<files, index, current>> PROVE IndexInv'
  BY <1>1, <1>a DEF IndexInv, files
<1>2. ASSUME Recover PROVE IndexInv'
  <2> DEFINE r == Recovered(file.log)
  <2>1. /\ index'.hdr = r /\ index'.backfill = 0 /\ current' = Found(file)
        /\ file' = file /\ disk' = disk
    BY <1>2 DEF Recover, files
  <2>2. r.mx > 0 => /\ Valid(file.log, r.mx) /\ file.log[r.mx].commit
                    /\ r.salt = file.log[0].salt /\ r.sum = file.log[r.mx].sum
    BY RecoveredIs
  <2>3. Content(file.log, r.mx, file.db) = Found(file)
    <3>1. file = [db |-> file.db, log |-> file.log]
      BY <1>a DEF FilesType
    <3> QED
      BY <3>1, FoundIs
  <2>4. r.mx \in Slots
    BY RecoveredIs
  <2>5. ASSUME r.mx = 0 PROVE file.db = current' /\ disk.db = current'
    <3>1. PICK g \in Slots : Guaranteed(g)
      BY <1>a DEF GuaranteedInv
    <3>2. g = 0
      <4> SUFFICES ASSUME g # 0 PROVE FALSE
        OBVIOUS
      <4>1. g \in 1 .. MaxFrames /\ g > 0
        BY <1>b, <3>1
      <4>2. Valid(file.log, g) /\ file.log[g].commit
        BY <3>1, <4>1 DEF Guaranteed
      <4>3. g <= Recovered(file.log).mx
        BY <4>1, <4>2, RecoveredIs
      <4> QED
        BY <2>5, <4>1, <4>3
    <3>3. \A p \in Pages : disk.db[p] = file.db[p]
      BY <3>1, <3>2 DEF Guaranteed
    <3>4. disk.db = file.db
      BY <1>c, <3>3
    <3>5. Content(file.log, 0, file.db) = file.db
      BY <1>c, NoContent
    <3> QED
      BY <2>1, <2>3, <2>5, <3>4, <3>5
  <2> HIDE DEF r
  <2> QED
    BY <2>1, <2>2, <2>3, <2>5 DEF IndexInv
<1>3. ASSUME BeginRead \/ ReadPage \/ EndRead \/ BeginWrite \/ Modify PROVE IndexInv'
  <2>1. pc # "closed" /\ UNCHANGED <<files, index, current>>
    BY <1>3 DEF BeginRead, ReadPage, EndRead, BeginWrite, Modify, history
  <2> QED
    BY <1>1, <2>1
<1>4. ASSUME Spilled \/ Rollback \/ WriteFails \/ CheckpointFails PROVE IndexInv'
  <2>1. pc # "closed" /\ UNCHANGED <<files, index, current>>
    BY <1>4 DEF Spilled, Rollback, WriteFails, CheckpointFails, history
  <2> QED
    BY <1>1, <2>1
<1>5. ASSUME Spill \/ Commit PROVE IndexInv'
  <2>1. PICK pages \in Seq(Pages), ends \in BOOLEAN : StartFrames(pages, ends)
    BY <1>5, StartsFrames
  <2>2. pc = "write" /\ UNCHANGED <<files, current>>
    BY <2>1 DEF StartFrames, history
  <2>3. CASE index' = index
    BY <1>1, <2>2, <2>3
  <2>4. CASE index' # index
    <3>1. ~usesLog /\ hdr'.mx = 0 /\ index'.hdr = hdr' /\ index'.backfill = 0
      BY <1>a, <2>1, <2>4, StartFramesDoes
    <3>2. index.backfill = index.hdr.mx
      BY <1>a, <2>2, <3>1 DEF HeaderInv, Txn
    <3>3. file.db = current /\ disk.db = current
      BY <1>d, <2>2, <3>2
    <3>4. Content(file.log, 0, file.db) = current
      BY <1>c, <3>3, NoContent
    <3> QED
      BY <2>2, <3>1, <3>3, <3>4 DEF IndexInv, files
  <2> QED
    BY <2>3, <2>4
<1>6. ASSUME CommitNothing PROVE IndexInv'
  <2>1. current' = current
    BY <1>6, CommitNothingIs
  <2>2. pc # "closed" /\ UNCHANGED <<files, index>>
    BY <1>6 DEF CommitNothing
  <2> QED
    BY <1>1, <2>1, <2>2
<1>7. ASSUME WriteHeader PROVE IndexInv'
  <2>1. pc = "header" /\ UNCHANGED <<disk, index, current>>
    BY <1>7 DEF WriteHeader, history
  <2>2. index.hdr.mx = 0
    BY <1>a, <2>1 DEF HeaderInv
  <2>3. file'.db = file.db
    BY <1>7, WriteHeaderDoes
  <2>4. file.db = current /\ disk.db = current
    BY <1>b, <1>d, <2>1, <2>2
  <2>5. Content(file'.log, 0, file'.db) = current
    BY <1>c, <2>3, <2>4, NoContent
  <2> QED
    BY <2>1, <2>2, <2>3, <2>4, <2>5 DEF IndexInv
<1>8. ASSUME WriteFrame PROVE IndexInv'
  <2>1. /\ file'.db = file.db /\ End \in 0 .. MaxFrames - 1
        /\ \A i \in Slots : i # End + 1 => file'.log[i] = file.log[i]
    BY <1>8, WriteFrameDoes DEF WalInv
  <2>2. pc = "frame" /\ UNCHANGED <<disk, index, current>>
    BY <1>8 DEF WriteFrame
  <2>3. index.hdr.mx <= End
    BY <1>a, <1>b, <2>2 DEF ChainInv, Begun
  <2>4. \A i \in 0 .. index.hdr.mx : file'.log[i] = file.log[i]
    <3> SUFFICES ASSUME NEW i \in 0 .. index.hdr.mx PROVE file'.log[i] = file.log[i]
      OBVIOUS
    <3>1. i \in Slots /\ i # End + 1
      BY <1>b, <2>1, <2>3
    <3> QED
      BY <2>1, <3>1
  <2> QED
    BY <1>a, <2>1, <2>2, <2>4, IndexKept
<1>9. ASSUME SyncLog \/ StartCheckpoint PROVE IndexInv'
  <2>1. disk'.db = disk.db /\ file' = file
    BY <1>9, <1>a, SyncDoes
  <2>2. pc # "closed" /\ index' = index /\ current' = current
    BY <1>9 DEF SyncLog, StartCheckpoint, history
  <2> QED
    BY <1>a, <2>1, <2>2, IndexKept
<1>10. ASSUME Publish PROVE IndexInv'
  <2>1. /\ index'.hdr.mx = End /\ index'.hdr.salt = hdr.salt /\ index'.hdr.sum = hdr.sum
        /\ index'.backfill = index.backfill
    BY <1>10, <1>a, PublishDoes
  <2>2. pc = "publish" /\ current' = Result /\ UNCHANGED <<file, disk>>
    BY <1>10 DEF Publish, files
  <2>3. /\ hdr.salt = file.log[0].salt /\ hdr.mx < End /\ index.hdr.mx <= hdr.mx
        /\ End > 0 => Valid(file.log, End) /\ file.log[End].sum = hdr.sum
        /\ file.log[End].commit
    BY <1>a, <1>b, <2>2 DEF ChainInv, Begun
  <2>4. Content(file.log, End, file.db) = Result
    BY <1>a, <2>2, CommitMade
  <2>5. index.backfill # End
    BY <1>b, <2>3
  <2> QED
    BY <2>1, <2>2, <2>3, <2>4, <2>5 DEF IndexInv
<1>11. ASSUME CopyPage PROVE IndexInv'
  <2>1. /\ pc = "copy" /\ UNCHANGED <<disk, index, current>>
    BY <1>11 DEF CopyPage, history
  <2>2. PICK p \in Pages, f \in 1 .. index.hdr.mx :
           /\ file.log[f].pg = p
           /\ file'.db = [file.db EXCEPT ![p] = file.log[f].txn] /\ file'.log = file.log
    BY <1>11, <1>a, CopyPageDoes
  <2>3. \A q \in Pages : (\A i \in 1 .. index.hdr.mx : file.log[i].pg # q) => file'.db[q] = file.db[q]
    <3> SUFFICES ASSUME NEW q \in Pages, \A i \in 1 .. index.hdr.mx : file.log[i].pg # q
                 PROVE  file'.db[q] = file.db[q]
      OBVIOUS
    <3>1. q # p
      BY <2>2
    <3> QED
      BY <1>c, <2>2, <3>1
  <2>4. index.backfill # index.hdr.mx
    BY <1>a, <1>b, <2>1 DEF CopyInv
  <2> QED
    BY <1>a, <2>1, <2>2, <2>3, <2>4, IndexKept
<1>12. ASSUME EndCheckpoint PROVE IndexInv'
  <2>1. /\ index'.hdr = index.hdr /\ index'.backfill = index.hdr.mx /\ disk'.db = file.db
        /\ file' = file /\ current' = current /\ pc = "copy" /\ LeftToCopy = {}
    BY <1>12, EndCheckpointDoes DEF EndCheckpoint, history
  <2>2. file.db = current
    <3>1. ASSUME NEW p \in Pages PROVE file.db[p] = current[p]
      <4> DEFINE f == LastFrame(file.log, index.hdr.mx, p)
      <4>1. f \in 0 .. index.hdr.mx /\ (f > 0 => file.log[f].pg = p)
            /\ \A i \in f + 1 .. index.hdr.mx : file.log[i].pg # p
        <5>1. index.hdr.mx \in Nat
          BY <1>b
        <5> QED
          BY <5>1, LastFrameIs
      <4>2. index.backfill = 0 /\ (toCopy[p] = f \/ (toCopy[p] = None /\ f > 0 /\ file.db[p] = file.log[f].txn))
        BY <1>a, <2>1 DEF CopyInv
      <4>3. ~(toCopy[p] > index.backfill)
        BY <2>1 DEF LeftToCopy
      <4> HIDE DEF f
      <4>4. Content(file.log, index.hdr.mx, file.db)[p] = file.db[p]
        <5>1. CASE f = 0
          <6>1. \A i \in 1 .. index.hdr.mx : file.log[i].pg # p
            BY <4>1, <5>1
          <6>2. index.hdr.mx \in Nat
            BY <1>b
          <6> QED
            BY <6>1, <6>2, ContentNone
        <5>2. CASE f > 0
          <6>1. file.db[p] = file.log[f].txn
            BY <4>1, <4>2, <4>3, <5>2
          <6>2. f \in 1 .. index.hdr.mx /\ index.hdr.mx \in Nat
            BY <1>b, <4>1, <5>2
          <6> QED
            BY <4>1, <5>2, <6>1, <6>2, ContentIs
        <5> QED
          BY <4>1, <5>1, <5>2
      <4> QED
        BY <1>d, <2>1, <4>4
    <3>2. current \in [Pages -> 0 .. txns]
      BY <1>a DEF FilesType, Good
    <3> QED
      BY <1>c, <3>1, <3>2
  <2> QED
    BY <1>a, <2>1, <2>2 DEF IndexInv
<1>13. ASSUME Kill \/ PowerLoss PROVE IndexInv'
  BY <1>13 DEF Kill, PowerLoss, MemoryLost, IndexInv
<1> QED
  BY <1>2, <1>3, <1>4, <1>5, <1>6, <1>7, <1>8, <1>9, <1>10, <1>11, <1>12, <1>13 DEF Next

-----------------------------------------------------------------------------
(* What is guaranteed stays so.                                            *)

\* What is guaranteed stays so while nothing is written.
LEMMA GuaranteedKept ==
    ASSUME NEW g \in Slots, Guaranteed(g), UNCHANGED <<file, disk>>, Good' = Good
    PROVE  Guaranteed(g)'
BY DEF Guaranteed, Mix

\* What is guaranteed of a log that has been synced goes up to the index.
LEMMA GuaranteedSynced ==
    ASSUME NEW g \in Slots, Guaranteed(g), file' = file, disk'.log = file.log, disk'.db = disk.db,
           Good' = Good, NEW n \in Slots, g <= n, n > 0 => Valid(file.log, n) /\ file.log[n].commit
    PROVE  Guaranteed(n)'
<1>1. g \in 0 .. MaxFrames /\ n \in 0 .. MaxFrames /\ MaxFrames \in Nat /\ Slots = 0 .. MaxFrames
  BY SlotsAre
<1>3. /\ n > 0 => Valid(file'.log, n) /\ file'.log[n].commit
      /\ n > 0 => \A i \in 0 .. n : disk'.log[i] = file'.log[i]
  OBVIOUS
<1>4. \A p \in Pages : \/ \E i \in 1 .. n : file'.log[i].pg = p
                       \/ disk'.db[p] = file'.db[p] /\ file'.db[p] # Torn
  <2> SUFFICES ASSUME NEW p \in Pages, ~(disk.db[p] = file.db[p] /\ file.db[p] # Torn)
               PROVE  \E i \in 1 .. n : file.log[i].pg = p
    OBVIOUS
  <2>1. PICK i \in 1 .. g : file.log[i].pg = p
    BY DEF Guaranteed
  <2>2. i \in 1 .. n
    BY <1>1
  <2> QED
    BY <2>1, <2>2
<1>5. ASSUME NEW log, Mix(log)', NEW k \in n .. MaxFrames, Valid(log, k), k = n \/ log[k].commit
      PROVE  Content(log, k, file'.db) \in Good'
  <2>1. \A i \in Slots : log[i] = file.log[i]
    BY <1>5 DEF Mix
  <2>2. Mix(log)
    <3>1. 0 \in Slots
      BY <1>1
    <3> QED
      BY <2>1, <3>1 DEF Mix
  <2>3. k \in g .. MaxFrames /\ n \in Slots
    BY <1>1
  <2>4. k = g \/ log[k].commit
    <3>1. CASE n > 0
      BY <1>5, <2>1, <2>3, <3>1
    <3>2. CASE n = 0
      BY <1>1, <1>5, <3>2
    <3> QED
      BY <1>1, <3>1, <3>2
  <2>5. Content(log, k, file.db) \in Good
    BY <1>5, <2>2, <2>3, <2>4 DEF Guaranteed
  <2> QED
    BY <2>5
<1> QED
  BY <1>3, <1>4, <1>5 DEF Guaranteed

\* A new header is written only when the database file, synced, has everything.
LEMMA GuaranteedHeader ==
    ASSUME TypeInv, HeaderInv, IndexInv, WriteHeader
    PROVE  Guaranteed(0)'
<1>1. /\ file'.db = file.db
      /\ \A i \in 1 .. MaxFrames : file'.log[i] = file.log[i]
      /\ file'.log[0].salt = salts + 1
  BY WriteHeaderDoes
<1>2. pc = "header" /\ UNCHANGED <<disk, current, pending>>
  BY DEF WriteHeader, history
<1>3. index.hdr.mx = 0 /\ index.backfill = 0
  BY <1>2 DEF HeaderInv, TypeInv, HeadersType
<1>4. file.db = current /\ disk.db = current
  BY <1>2, <1>3 DEF IndexInv
<1>5. /\ current \in [Pages -> 0 .. txns] /\ file.db \in [Pages -> {Torn} \cup 0 .. txns]
      /\ salts \in Nat /\ MaxFrames \in Nat /\ Slots = 0 .. MaxFrames
  BY SlotsAre DEF TypeInv, FilesType, Good
<1>6. \A p \in Pages : disk'.db[p] = file'.db[p] /\ file'.db[p] # Torn
  BY <1>1, <1>2, <1>4, <1>5 DEF Torn
<1>7. ASSUME NEW log, Mix(log)', NEW k \in 0 .. MaxFrames, Valid(log, k)
      PROVE  Content(log, k, file'.db) \in Good'
  <2>1. NoFrame.salt = 0
    BY DEF NoFrame
  <2>2. k = 0
    <3> SUFFICES ASSUME k # 0 PROVE FALSE
      OBVIOUS
    <3>1. 1 \in 1 .. k /\ 1 \in 1 .. MaxFrames /\ 1 \in Slots /\ 0 \in Slots
      BY <1>5
    <3>2. ValidFrame(log, 1)
      BY <1>7, <3>1 DEF Valid
    <3>3. log[1].salt = log[0].salt /\ log[0].salt > 0
      BY <3>2 DEF ValidFrame
    <3>4. log[0] \in {file'.log[0], NoFrame} /\ log[1] \in {disk.log[1], file.log[1], NoFrame}
      BY <1>1, <1>2, <1>7, <3>1 DEF Mix
    <3>5. file.log[1].salt \in 0 .. salts /\ disk.log[1].salt \in 0 .. salts
      BY <3>1 DEF TypeInv, FilesType
    <3>6. log[1].salt \in 0 .. salts
      BY <1>5, <2>1, <3>4, <3>5
    <3>7. log[0].salt = salts + 1
      BY <1>1, <2>1, <3>3, <3>4
    <3> QED
      BY <1>5, <3>3, <3>6, <3>7
  <2>3. Content(log, 0, file.db) = file.db
    BY <1>5, NoContent
  <2>4. Content(log, k, file'.db) = current
    BY <1>1, <1>4, <2>2, <2>3
  <2> QED
    BY <1>2, <2>4 DEF Good
<1> QED
  BY <1>6, <1>7 DEF Guaranteed

\* A frame behind the guaranteed ones does not disturb them: a start finds it with a
\* whole commit or not at all.
LEMMA GuaranteedFrame ==
    ASSUME TypeInv, WalInv, WriteFrame, TypeInv', IndexInv', ChainInv', ModsInv',
           NEW g \in Slots, Guaranteed(g), g <= index.hdr.mx
    PROVE  Guaranteed(g)'
<1> DEFINE s == End + 1
<1>1. /\ file'.db = file.db /\ End \in 0 .. MaxFrames - 1 /\ s \in 1 .. MaxFrames /\ End' = s
      /\ \A i \in Slots : i # s => file'.log[i] = file.log[i]
      /\ file'.log[s] = NextFrame /\ NextFrame.txn = txns
      /\ NextFrame.commit = (commit /\ Len(list) = 1)
      /\ Len(NextFrame.sum) = s + 1
      /\ NextFrame.sum[s + 1] = <<list[1], txns, NextFrame.commit>>
  <2>1. /\ End \in Int
        /\ Len(NextFrame.sum) = End + 2
        /\ NextFrame.sum[End + 2] = <<list[1], txns, NextFrame.commit>>
    BY WriteFrameDoes DEF WalInv
  <2>2. s + 1 = End + 2
    BY <2>1
  <2> QED
    BY <2>1, <2>2, WriteFrameDoes DEF WalInv
<1>2. /\ pc = "frame" /\ UNCHANGED <<disk, index, current, mods, txns, dirty>>
      /\ pc' = IF Len(list) > 1 THEN "frame" ELSE IF commit THEN "sync" ELSE "spilled"
      /\ pending' = IF commit /\ Len(list) = 1 THEN pending \cup {Result} ELSE pending
  BY DEF WriteFrame, bounds
<1>3. index.hdr.mx <= End /\ index.hdr.mx \in 0 .. MaxFrames /\ MaxFrames \in Nat /\ Slots = 0 .. MaxFrames
      /\ txns \in Nat
  <2>1. index.hdr.mx <= hdr.mx /\ hdr.mx <= End
    BY <1>2 DEF WalInv, ChainInv, Begun
  <2>2. hdr.mx \in 0 .. MaxFrames /\ index.hdr.mx \in 0 .. MaxFrames /\ MaxFrames \in Nat
    BY HeadersAre DEF TypeInv
  <2>3. txns \in Nat
    BY WalAssumption DEF TypeInv, FilesType
  <2> QED
    BY <1>1, <2>1, <2>2, <2>3, SlotsAre
<1>4. \A i \in 1 .. MaxFrames : UpTo(disk.log[i], txns - 1)
  BY <1>2 DEF WalInv, FreshInv, Txn
<1>5. \A i \in 1 .. MaxFrames : i > End => UpTo(file.log[i], txns - 1)
  <2>1. \A i \in 1 .. MaxFrames : i \in index.hdr.mx + 1 .. End \/ UpTo(file.log[i], txns - 1)
    BY <1>2 DEF WalInv, FreshInv, Txn
  <2> QED
    BY <1>1, <1>3, <2>1
<1>6. Good \subseteq Good'
  BY <1>2 DEF Good
<1>7. IsLog(disk.log) /\ IsLog(file'.log)
  BY DEF TypeInv, FilesType
<1>8. Begun' /\ Valid(file'.log, s)
  <2>1. Begun'
    BY <1>2 DEF Begun
  <2> QED
    BY <1>1, <2>1 DEF ChainInv
<1>9. ASSUME NextFrame.commit PROVE Content(file'.log, s, file.db) = Result /\ Result \in Good'
  <2>1. commit /\ Len(list) = 1
    BY <1>1, <1>9, Zenon
  <2>2. pc' = "sync" /\ pending' = pending \cup {Result}
    BY <1>2, <2>1
  <2>3. Content(file'.log, index.hdr.mx, file.db) = current
    BY <1>1, <1>2, <2>2 DEF IndexInv
  <2>4. \A i \in index.hdr.mx + 1 .. s : file'.log[i].txn = txns /\ file'.log[i].pg \in mods
    BY <1>1, <1>2, <1>8 DEF ChainInv
  <2>5. ASSUME NEW p \in mods PROVE \E i \in index.hdr.mx + 1 .. s : file'.log[i].pg = p
    <3>1. CASE p \in dirty
      BY <1>1, <1>2, <2>2, <3>1 DEF ModsInv, Logged, Txn
    <3>2. CASE p \notin dirty
      <4>1. PICK i \in index.hdr.mx + 1 .. hdr'.mx : file'.log[i].pg = p
        BY <1>2, <2>2, <3>2 DEF ModsInv, Logged, Txn
      <4>2. hdr'.mx \in 0 .. MaxFrames /\ hdr'.mx <= s
        <5>1. hdr'.mx \in Slots
          BY DEF TypeInv, HeadersType, Header
        <5> QED
          BY <1>1, <1>3, <1>8, <5>1 DEF ChainInv
      <4>3. i \in index.hdr.mx + 1 .. s
        BY <1>1, <1>3, <4>2
      <4> QED
        BY <4>1, <4>3
    <3> QED
      BY <3>1, <3>2
  <2>6. index.hdr.mx \in Nat /\ s \in Nat /\ index.hdr.mx <= s
    BY <1>1, <1>3
  <2>8. \A p \in mods : \E i \in index.hdr.mx + 1 .. s : file'.log[i].pg = p
    BY <2>5
  <2> HIDE DEF s
  <2>7. Content(file'.log, s, file.db) = Result
    BY <2>3, <2>4, <2>6, <2>8, CommitContent
  <2> QED
    BY <2>2, <2>7 DEF Good
<1>10. g < s /\ g \in 0 .. MaxFrames
  BY <1>1, <1>3
<1>11. \A i \in 0 .. g : file'.log[i] = file.log[i]
  <2> SUFFICES ASSUME NEW i \in 0 .. g PROVE file'.log[i] = file.log[i]
    OBVIOUS
  <2>1. i \in Slots /\ i # s
    BY <1>1, <1>3, <1>10
  <2> QED
    BY <1>1, <2>1
<1>12. g > 0 => Valid(file'.log, g) /\ file'.log[g].commit
  <2> SUFFICES ASSUME g > 0 PROVE Valid(file'.log, g) /\ file'.log[g].commit
    OBVIOUS
  <2>1. Valid(file.log, g) /\ file.log[g].commit
    BY DEF Guaranteed
  <2>2. Valid(file'.log, g)
    BY <1>10, <1>11, <2>1, ValidSame
  <2>3. g \in 0 .. g
    BY <1>10
  <2> QED
    BY <1>11, <2>1, <2>2, <2>3
<1>13. g > 0 => \A i \in 0 .. g : disk'.log[i] = file'.log[i]
  BY <1>2, <1>11 DEF Guaranteed
<1>14. \A p \in Pages : \/ \E i \in 1 .. g : file'.log[i].pg = p
                        \/ disk'.db[p] = file'.db[p] /\ file'.db[p] # Torn
  <2> SUFFICES ASSUME NEW p \in Pages, ~(disk.db[p] = file.db[p] /\ file.db[p] # Torn)
               PROVE  \E i \in 1 .. g : file'.log[i].pg = p
    BY <1>1, <1>2
  <2>1. PICK i \in 1 .. g : file.log[i].pg = p
    BY DEF Guaranteed
  <2>2. i \in 0 .. g
    BY <1>10
  <2> QED
    BY <1>11, <2>1, <2>2
<1> HIDE DEF s
<1>15. ASSUME NEW log, Mix(log)', NEW k \in g .. MaxFrames, Valid(log, k), k = g \/ log[k].commit
       PROVE  Content(log, k, file'.db) \in Good'
  <2>1. /\ \A i \in Slots : /\ log[i] \in {disk.log[i], file'.log[i], NoFrame}
                            /\ disk.log[i] = file'.log[i] => log[i] = file'.log[i]
        /\ log[0] \in {file'.log[0], NoFrame}
    BY <1>2, <1>15 DEF Mix
  <2>2. k \in 0 .. MaxFrames /\ k \in Nat /\ g <= k /\ 0 \in Slots /\ s \in Slots /\ s # 0
    BY <1>1, <1>3, <1>10
  <2>3. CASE k < s \/ log[s] = disk.log[s]
    <3> DEFINE m == [i \in Slots |-> IF i = s THEN disk.log[s] ELSE log[i]]
    <3>1. \A i \in Slots : m[i] = IF i = s THEN disk.log[s] ELSE log[i]
      OBVIOUS
    <3> HIDE DEF m
    <3>2. Mix(m)
      <4>1. ASSUME NEW i \in Slots
            PROVE  /\ m[i] \in {disk.log[i], file.log[i], NoFrame}
                   /\ disk.log[i] = file.log[i] => m[i] = file.log[i]
        <5>1. CASE i = s
          BY <3>1, <5>1
        <5>2. CASE i # s
          BY <1>1, <2>1, <3>1, <5>2
        <5> QED
          BY <5>1, <5>2
      <4>2. m[0] \in {file.log[0], NoFrame}
        BY <1>1, <2>1, <2>2, <3>1
      <4> QED
        BY <4>1, <4>2 DEF Mix
    <3>3. \A i \in 0 .. k : m[i] = log[i]
      <4> SUFFICES ASSUME NEW i \in 0 .. k PROVE m[i] = log[i]
        OBVIOUS
      <4>1. i \in Slots
        BY <1>3, <2>2
      <4>2. i = s => ~(k < s)
        BY <2>2, <1>1
      <4> QED
        BY <2>3, <3>1, <4>1, <4>2
    <3>4. Valid(m, k)
      BY <1>15, <2>2, <3>3, ValidSame
    <3>5. k = g \/ m[k].commit
      <4>1. k \in 0 .. k
        BY <2>2
      <4> QED
        BY <1>15, <3>3, <4>1
    <3>6. Content(m, k, file.db) \in Good
      BY <3>2, <3>4, <3>5 DEF Guaranteed
    <3>7. Content(m, k, file.db) = Content(log, k, file.db)
      <4>1. \A i \in 1 .. k : m[i].pg = log[i].pg /\ m[i].txn = log[i].txn
        BY <2>2, <3>3
      <4> QED
        BY <2>2, <4>1, ContentSame
    <3> QED
      BY <1>1, <1>6, <3>6, <3>7
  <2>4. CASE ~(k < s) /\ log[s] # disk.log[s]
    <3>1. s \in 1 .. k /\ k \in 1 .. MaxFrames
      BY <1>1, <2>2, <2>4
    <3>2. log[s] = NextFrame
      <4>1. ValidFrame(log, s)
        BY <1>15, <3>1 DEF Valid
      <4>2. log[s] # NoFrame
        BY <4>1 DEF ValidFrame, NoFrame
      <4> QED
        BY <1>1, <2>1, <2>2, <2>4, <4>2
    <3>3. IsLog(log)
      <4> SUFFICES ASSUME NEW i \in 1 .. MaxFrames PROVE IsFrame(log[i], i)
        BY DEF IsLog
      <4>1. i \in Slots /\ IsFrame(disk.log[i], i) /\ IsFrame(file'.log[i], i)
        BY <1>3, <1>7 DEF IsLog
      <4>2. IsFrame(NoFrame, i)
        BY DEF IsFrame
      <4> QED
        BY <2>1, <4>1, <4>2
    <3>4. k = s
      <4> SUFFICES ASSUME k # s PROVE FALSE
        OBVIOUS
      <4>1. k > s /\ k > End /\ k \in Slots
        BY <1>1, <1>3, <2>2, <3>1 DEF s
      <4>2. log[k] \in {disk.log[k], file.log[k], NoFrame}
        BY <1>1, <2>1, <4>1
      <4>3. UpTo(log[k], txns - 1)
        BY <1>4, <1>5, <3>1, <4>1, <4>2, UpToNone
      <4>4. log[s].txn > txns - 1 /\ txns - 1 \in Int
        BY <1>1, <1>3, <3>2
      <4> QED
        BY <1>15, <3>1, <3>3, <4>3, <4>4, Followed
    <3>5. NextFrame.commit
      BY <1>10, <1>15, <2>2, <3>2, <3>4
    <3>6. Content(file'.log, s, file.db) = Result /\ Result \in Good'
      BY <1>9, <3>5
    <3>7. \A i \in 1 .. s : log[i].pg = file'.log[i].pg /\ log[i].txn = file'.log[i].txn
      <4>1. log[s].sum = file'.log[s].sum /\ Valid(log, s)
        BY <1>1, <1>15, <3>2, <3>4
      <4> QED
        BY <1>1, <1>7, <1>8, <3>3, <4>1, SameChain
    <3>8. Content(log, s, file.db) = Content(file'.log, s, file.db)
      BY <2>2, <3>4, <3>7, ContentSame
    <3> QED
      BY <1>1, <3>4, <3>6, <3>8
  <2> QED
    BY <2>3, <2>4
<1> QED
  BY <1>12, <1>13, <1>14, <1>15 DEF Guaranteed

\* A page that a checkpoint copies is still in the log that was synced before.
LEMMA GuaranteedCopied ==
    ASSUME TypeInv, CopyInv, CopyPage
    PROVE  Guaranteed(index.hdr.mx)'
<1> DEFINE n == index.hdr.mx
<1>1. /\ pc = "copy" /\ index' = index /\ disk' = disk /\ Good' = Good
  BY DEF CopyPage, history, Good
<1>2. Guaranteed(n) /\ n \in 0 .. MaxFrames /\ MaxFrames \in Nat /\ Slots = 0 .. MaxFrames
  BY <1>1, SlotsAre, HeadersAre DEF CopyInv, TypeInv
<1>3. PICK p \in Pages :
        LET f == LastFrame(file.log, index.hdr.mx, p)
        IN  /\ f \in 1 .. index.hdr.mx /\ file.log[f].pg = p
            /\ \A i \in f + 1 .. index.hdr.mx : file.log[i].pg # p
            /\ file'.db = [file.db EXCEPT ![p] = file.log[f].txn]
            /\ file'.log = file.log /\ file' = [db |-> file'.db, log |-> file'.log]
            /\ toCopy' = [toCopy EXCEPT ![p] = None]
  BY CopyPageDoes
<1>4. PICK f \in 1 .. n : file.log[f].pg = p
  BY <1>3
<1>5. file'.log = file.log
  BY <1>3
<1>6. \A q \in Pages \ {p} : file'.db[q] = file.db[q]
  <2>1. DOMAIN file.db = Pages
    BY DEF TypeInv, FilesType
  <2> QED
    BY <1>3, <2>1
<1> HIDE DEF n
<1>7. /\ n > 0 => Valid(file'.log, n) /\ file'.log[n].commit
      /\ n > 0 => \A i \in 0 .. n : disk'.log[i] = file'.log[i]
  BY <1>1, <1>2, <1>5 DEF Guaranteed
<1>8. \A q \in Pages : \/ \E i \in 1 .. n : file'.log[i].pg = q
                       \/ disk'.db[q] = file'.db[q] /\ file'.db[q] # Torn
  <2>1. \A q \in Pages : \/ \E i \in 1 .. n : file.log[i].pg = q
                         \/ disk.db[q] = file.db[q] /\ file.db[q] # Torn
    BY <1>2 DEF Guaranteed
  <2> QED
    BY <1>1, <1>4, <1>5, <1>6, <2>1
<1>9. ASSUME NEW log, Mix(log)', NEW k \in n .. MaxFrames, Valid(log, k), k = n \/ log[k].commit
      PROVE  Content(log, k, file'.db) \in Good'
  <2>1. Mix(log)
    BY <1>1, <1>5, <1>9 DEF Mix
  <2>2. Content(log, k, file.db) \in Good
    BY <1>2, <1>9, <2>1 DEF Guaranteed
  <2>3. k \in Nat /\ n \in Slots
    BY <1>2
  <2>4. \A i \in 1 .. n : log[i] = file.log[i]
    BY <1>2, <2>1, <2>3, MixPrefix
  <2>5. \A q \in Pages : (\A i \in 1 .. k : log[i].pg # q) => file'.db[q] = file.db[q]
    <3> SUFFICES ASSUME NEW q \in Pages, \A i \in 1 .. k : log[i].pg # q
                 PROVE  q # p
      BY <1>6
    <3>1. f \in 1 .. k
      BY <1>2
    <3> QED
      BY <1>4, <2>4, <3>1
  <2> DEFINE d == file'.db
             e == file.db
  <2> HIDE DEF d, e
  <2>6. Content(log, k, d) = Content(log, k, e)
    <3>1. \A q \in Pages : (\A i \in 1 .. k : log[i].pg # q) => d[q] = e[q]
      BY <2>5 DEF d, e
    <3> QED
      BY <2>3, <3>1, ContentSame
  <2> QED
    BY <1>1, <2>2, <2>6 DEF d, e
<1>10. Guaranteed(n)'
  <2>1. n' = n
    BY <1>1 DEF n
  <2> QED
    BY <1>7, <1>8, <1>9, <2>1 DEF Guaranteed
<1> QED
  BY <1>10 DEF n

\* The database's sync at the end of a checkpoint takes nothing away.
LEMMA GuaranteedCheckpoint ==
    ASSUME TypeInv, CopyInv, EndCheckpoint
    PROVE  Guaranteed(index.hdr.mx)'
<1> DEFINE n == index.hdr.mx
<1>1. /\ pc = "copy" /\ file' = file /\ Good' = Good
      /\ index'.hdr = index.hdr /\ disk'.log = disk.log /\ disk'.db = file.db
  BY EndCheckpointDoes DEF EndCheckpoint, history, Good
<1>2. Guaranteed(n) /\ n' = n
  BY <1>1 DEF CopyInv
<1> HIDE DEF n
<1>3. /\ n > 0 => Valid(file'.log, n) /\ file'.log[n].commit
      /\ n > 0 => \A i \in 0 .. n : disk'.log[i] = file'.log[i]
      /\ \A p \in Pages : \/ \E i \in 1 .. n : file'.log[i].pg = p
                          \/ disk'.db[p] = file'.db[p] /\ file'.db[p] # Torn
  BY <1>1, <1>2 DEF Guaranteed
<1>4. ASSUME NEW log, Mix(log)', NEW k \in n .. MaxFrames, Valid(log, k), k = n \/ log[k].commit
      PROVE  Content(log, k, file'.db) \in Good'
  <2>1. Mix(log)
    BY <1>1, <1>4 DEF Mix
  <2> QED
    BY <1>1, <1>2, <1>4, <2>1 DEF Guaranteed
<1>5. Guaranteed(n)'
  BY <1>2, <1>3, <1>4 DEF Guaranteed
<1> QED
  BY <1>5 DEF n

\* A commit that is reported has been synced: from now on it is guaranteed.
LEMMA GuaranteedPublished ==
    ASSUME TypeInv, WalInv, Publish, NEW n \in Slots, n = End
    PROVE  Guaranteed(n)'
<1>1. /\ pc = "publish" /\ file' = file /\ disk' = disk /\ Good' = {Result}
  BY DEF Publish, files, Good
<1>2. Begun /\ LogInUse
  BY <1>1 DEF Begun, LogInUse
<1>3. PICK g \in Slots : Guaranteed(g) /\ g <= index.hdr.mx
  BY <1>2 DEF WalInv, GuaranteedInv
<1>4. /\ End \in 0 .. MaxFrames /\ End > hdr.mx /\ index.hdr.mx <= hdr.mx
      /\ hdr.mx \in 0 .. MaxFrames /\ index.hdr.mx \in 0 .. MaxFrames
      /\ MaxFrames \in Nat /\ Slots = 0 .. MaxFrames /\ g \in 0 .. MaxFrames
  BY <1>1, <1>2, SlotsAre, HeadersAre DEF WalInv, ChainInv, TypeInv
<1>5. /\ n \in 1 .. MaxFrames /\ n > index.hdr.mx /\ g <= n
  BY <1>3, <1>4
<1>6. /\ Valid(file.log, n) /\ file.log[n].commit
      /\ \A i \in index.hdr.mx + 1 .. n : file.log[i].txn = txns
  BY <1>1, <1>2, <1>5 DEF WalInv, ChainInv
<1>7. disk.log = file.log
  BY <1>1 DEF WalInv, SyncedInv
<1>8. Content(file.log, n, file.db) = Result
  BY <1>1, CommitMade DEF WalInv
<1>9. \A p \in Pages : \/ \E i \in 1 .. n : file'.log[i].pg = p
                       \/ disk'.db[p] = file'.db[p] /\ file'.db[p] # Torn
  <2> SUFFICES ASSUME NEW p \in Pages, ~(disk.db[p] = file.db[p] /\ file.db[p] # Torn)
               PROVE  \E i \in 1 .. n : file.log[i].pg = p
    BY <1>1
  <2>1. PICK i \in 1 .. g : file.log[i].pg = p
    BY <1>3 DEF Guaranteed
  <2>2. i \in 1 .. n
    BY <1>4, <1>5
  <2> QED
    BY <2>1, <2>2
<1>10. \A k \in 1 .. MaxFrames : k > n => UpTo(file.log[k], txns - 1)
  <2>1. \A i \in 1 .. MaxFrames : i \in index.hdr.mx + 1 .. n \/ UpTo(file.log[i], txns - 1)
    BY <1>1 DEF WalInv, FreshInv, Txn
  <2> QED
    BY <1>4, <1>5, <2>1
<1>11. ASSUME NEW log, Mix(log)', NEW k \in n .. MaxFrames, Valid(log, k), k = n \/ log[k].commit
       PROVE  Content(log, k, file'.db) \in Good'
  <2>1. \A i \in Slots : log[i] = file.log[i]
    BY <1>1, <1>7, <1>11 DEF Mix
  <2>2. k \in 0 .. MaxFrames /\ k \in 1 .. MaxFrames /\ \A i \in 0 .. k : i \in Slots
    BY <1>4, <1>5
  <2>3. k = n
    <3> SUFFICES ASSUME k # n PROVE FALSE
      OBVIOUS
    <3>1. Valid(file.log, k)
      BY <1>11, <2>1, <2>2, ValidSame
    <3>2. k > n /\ n \in 1 .. k
      BY <1>5, <2>2
    <3>3. UpTo(file.log[k], txns - 1)
      BY <1>10, <2>2, <3>2
    <3>4. txns - 1 \in Int /\ txns > txns - 1
      BY WalAssumption DEF TypeInv, FilesType
    <3>5. file.log[n].txn > txns - 1
      <4>1. n \in index.hdr.mx + 1 .. n
        BY <1>4, <1>5
      <4> QED
        BY <1>6, <3>4, <4>1
    <3>6. IsLog(file.log)
      BY DEF TypeInv, FilesType
    <3> QED
      BY <2>2, <3>1, <3>2, <3>3, <3>4, <3>5, <3>6, Followed
  <2>4. Content(log, n, file.db) = Content(file.log, n, file.db)
    <3>1. \A i \in 1 .. n : log[i].pg = file.log[i].pg /\ log[i].txn = file.log[i].txn
      BY <2>1, <2>2, <2>3
    <3> QED
      BY <1>5, <3>1, ContentSame
  <2> QED
    BY <1>1, <1>8, <2>3, <2>4
<1>12. \A i \in 0 .. n : disk'.log[i] = file'.log[i]
  BY <1>1, <1>7
<1> QED
  BY <1>1, <1>6, <1>9, <1>11, <1>12 DEF Guaranteed

\* After a loss of power something is guaranteed again, unless frames that an old
\* header covers have been overwritten.
LEMMA GuaranteedLoss ==
    ASSUME TypeInv, WalInv, PowerLoss, broken' = {}, FilesType'
    PROVE  \E g \in Slots : Guaranteed(g)'
<1> DEFINE L == file'.log
<1>1. /\ disk' = file' /\ Good' = Good
      /\ L = [i \in Slots |-> L[i]] /\ file'.db = [p \in Pages |-> file'.db[p]]
      /\ \A i \in Slots : /\ L[i] \in {disk.log[i], file.log[i], NoFrame}
                          /\ disk.log[i] = file.log[i] => L[i] = file.log[i]
      /\ \A p \in Pages : disk.db[p] = file.db[p] => file'.db[p] = file.db[p]
  <2>1. Good' = Good
    BY DEF PowerLoss, Good
  <2> QED
    BY <2>1, PowerLossDoes DEF TypeInv
<1>2. ~Overtaken(L)
  BY PowerLossDoes DEF TypeInv
<1>3. MaxFrames \in Nat /\ Slots = 0 .. MaxFrames
  BY SlotsAre
<1>4. PICK g \in Slots : Guaranteed(g)
  BY DEF WalInv, GuaranteedInv
<1>5. g \in 0 .. MaxFrames
  BY <1>3
<1> HIDE DEF L
<1>6. \A log : Mix(log)' => \A i \in Slots : log[i] = L[i]
  BY <1>1 DEF Mix, L
<1>7. CASE Mix(L)
  <2>1. /\ \A i \in 1 .. g : L[i] = file.log[i]
        /\ g > 0 => Valid(L, g) /\ L[g].commit
    BY <1>4, <1>7, MixPrefix
  <2>2. \A p \in Pages : \/ \E i \in 1 .. g : file.log[i].pg = p
                         \/ disk.db[p] = file.db[p] /\ file.db[p] # Torn
    BY <1>4 DEF Guaranteed
  <2>3. \A p \in Pages : (\E i \in 1 .. g : L[i].pg = p) \/ file'.db[p] # Torn
    <3> SUFFICES ASSUME NEW p \in Pages
                 PROVE  (\E i \in 1 .. g : L[i].pg = p) \/ file'.db[p] # Torn
      OBVIOUS
    <3>1. CASE \E i \in 1 .. g : file.log[i].pg = p
      BY <2>1, <3>1
    <3>2. CASE disk.db[p] = file.db[p] /\ file.db[p] # Torn
      BY <1>1, <3>2
    <3> QED
      BY <2>2, <3>1, <3>2
  <2>4. ASSUME NEW log, Mix(log)', NEW k \in g .. MaxFrames, Valid(log, k), k = g \/ log[k].commit
        PROVE  Content(log, k, file'.db) \in Good'
    <3>1. \A i \in Slots : log[i] = L[i]
      BY <1>6, <2>4
    <3>2. k \in 0 .. MaxFrames /\ k \in Slots /\ k \in Nat /\ \A i \in 0 .. k : i \in Slots
      BY <1>3, <1>5
    <3>3. Valid(L, k) /\ (k = g \/ L[k].commit)
      <4>1. Valid(L, k)
        BY <2>4, <3>1, <3>2, ValidSame
      <4> QED
        BY <2>4, <3>1, <3>2, <4>1
    <3>4. Content(L, k, file.db) \in Good
      BY <1>4, <1>7, <3>3 DEF Guaranteed
    <3>5. \A i \in 1 .. k : log[i].pg = L[i].pg /\ log[i].txn = L[i].txn
      BY <3>1, <3>2
    <3>6. \A p \in Pages : (\A i \in 1 .. k : log[i].pg # p) => file'.db[p] = file.db[p]
      <4> SUFFICES ASSUME NEW p \in Pages, \A i \in 1 .. k : log[i].pg # p
                   PROVE  file'.db[p] = file.db[p]
        OBVIOUS
      <4>1. \A i \in 1 .. g : file.log[i].pg # p
        <5> SUFFICES ASSUME NEW i \in 1 .. g PROVE file.log[i].pg # p
          OBVIOUS
        <5>1. i \in 1 .. k
          BY <1>5, <3>2
        <5> QED
          BY <2>1, <3>1, <3>2, <5>1
      <4> QED
        BY <1>1, <2>2, <4>1
    <3> DEFINE d == file'.db
               e == file.db
    <3> HIDE DEF d, e
    <3>7. Content(log, k, d) = Content(L, k, e)
      <4>1. \A p \in Pages : (\A i \in 1 .. k : log[i].pg # p) => d[p] = e[p]
        BY <3>6 DEF d, e
      <4> QED
        BY <3>2, <3>5, <4>1, ContentSame
    <3> QED
      BY <1>1, <3>4, <3>7 DEF d, e
  <2>5. Guaranteed(g)'
    BY <1>1, <2>1, <2>3, <2>4 DEF Guaranteed, L
  <2> QED
    BY <2>5
<1>8. CASE ~Mix(L)
  <2>1. /\ L[0] = disk.log[0] /\ disk.log[0] # file.log[0]
        /\ \A i \in Slots : L[i] = disk.log[i]
    <3>1. 0 \in Slots
      BY <1>3
    <3>2. L[0] \notin {file.log[0], NoFrame}
      BY <1>1, <1>8 DEF Mix
    <3>3. L[0] = disk.log[0] /\ disk.log[0] # file.log[0]
      BY <1>1, <3>1, <3>2
    <3>4. \A f \in Slots \ {0} : L[f] = disk.log[f]
      BY <1>2, <3>2, <3>3 DEF Overtaken
    <3> QED
      BY <3>3, <3>4
  <2>2. L = disk.log
    <3>1. disk.log = [i \in Slots |-> disk.log[i]]
      BY DEF TypeInv, FilesType
    <3> QED
      BY <1>1, <2>1, <3>1
  <2>3. g = 0
    <3> SUFFICES ASSUME g # 0 PROVE FALSE
      OBVIOUS
    <3>1. g > 0 /\ 0 \in 0 .. g
      BY <1>5
    <3> QED
      BY <1>4, <2>1, <3>1 DEF Guaranteed
  <2>4. \A p \in Pages : disk.db[p] = file.db[p] /\ file.db[p] # Torn
    BY <1>4, <2>3 DEF Guaranteed
  <2>5. file'.db = file.db
    <3>1. file.db = [p \in Pages |-> file.db[p]]
      BY DEF TypeInv, FilesType
    <3> QED
      BY <1>1, <2>4, <3>1
  <2>10. PICK r \in Slots : r = Recovered(L).mx
    BY RecoveredIs
  <2>6. /\ r \in Slots
        /\ r > 0 => Valid(L, r) /\ L[r].commit
        /\ \A k \in 1 .. MaxFrames : Valid(L, k) /\ L[k].commit => k <= r
    BY <2>10, RecoveredIs
  <2>7. Content(L, r, file.db) \in Good
    <3>1. Found([db |-> file.db, log |-> L]) \in Good
      BY <2>1, <2>2 DEF WalInv, OldHeaderInv
    <3> QED
      BY <2>10, <3>1, FoundIs
  <2>8. ASSUME NEW log, Mix(log)', NEW k \in r .. MaxFrames, Valid(log, k), k = r \/ log[k].commit
        PROVE  Content(log, k, file'.db) \in Good'
    <3>1. \A i \in Slots : log[i] = L[i]
      BY <1>6, <2>8
    <3>2. r \in 0 .. MaxFrames /\ k \in 0 .. MaxFrames /\ k \in Slots /\ k \in Nat
          /\ \A i \in 0 .. k : i \in Slots
      BY <1>3, <2>6
    <3>3. Valid(L, k) /\ (k = r \/ L[k].commit)
      <4>1. Valid(L, k)
        BY <2>8, <3>1, <3>2, ValidSame
      <4> QED
        BY <2>8, <3>1, <3>2, <4>1
    <3>4. k = r
      <4>1. k > 0 => k \in 1 .. MaxFrames
        BY <3>2
      <4> QED
        BY <2>6, <3>2, <3>3, <4>1
    <3>5. \A i \in 1 .. k : log[i].pg = L[i].pg /\ log[i].txn = L[i].txn
      BY <3>1, <3>2
    <3>6. Content(log, k, file.db) = Content(L, k, file.db)
      BY <3>2, <3>5, ContentSame
    <3> QED
      BY <1>1, <2>5, <2>7, <3>4, <3>6
  <2>9. Guaranteed(r)'
    <3>1. \A p \in Pages : disk'.db[p] = file'.db[p] /\ file'.db[p] # Torn
      BY <1>1, <2>4, <2>5
    <3>2. /\ r > 0 => Valid(file'.log, r) /\ file'.log[r].commit
          /\ r > 0 => \A i \in 0 .. r : disk'.log[i] = file'.log[i]
      BY <1>1, <2>6 DEF L
    <3> QED
      BY <2>8, <3>1, <3>2 DEF Guaranteed
  <2> QED
    BY <2>6, <2>9
<1> QED
  BY <1>7, <1>8

\* A step that leaves the files alone, and the log in use if it was.
LEMMA GuaranteedQuiet ==
    ASSUME GuaranteedInv, UNCHANGED <<file, disk>>, Good' = Good,
           LogInUse' => LogInUse /\ index'.hdr.mx = index.hdr.mx
    PROVE  GuaranteedInv'
<1>1. PICK g \in Slots : Guaranteed(g) /\ (LogInUse => g <= index.hdr.mx)
  BY DEF GuaranteedInv
<1>2. Guaranteed(g)'
  BY <1>1, GuaranteedKept
<1> QED
  BY <1>1, <1>2 DEF GuaranteedInv

\* Every step leaves something guaranteed (GuaranteedInv).
LEMMA GuaranteedStep == TypeInv /\ WalInv /\ Next /\ broken' = {} => GuaranteedInv'
<1> SUFFICES ASSUME TypeInv, WalInv, Next, broken' = {} PROVE GuaranteedInv'
  OBVIOUS
<1> USE DEF files, reader, writer, checkpointer, bounds, history
<1>1. TypeInv' /\ IndexInv' /\ ChainInv' /\ ModsInv'
  BY TypeStep, IndexStep, ChainStep, ModsStep
<1>2. /\ index.hdr.mx \in 0 .. MaxFrames /\ hdr.mx \in 0 .. MaxFrames
      /\ index'.hdr.mx \in 0 .. MaxFrames
      /\ MaxFrames \in Nat /\ Slots = 0 .. MaxFrames
  <2>1. index'.hdr.mx \in Slots
    BY <1>1 DEF TypeInv, HeadersType, Header
  <2> QED
    BY <2>1, SlotsAre, HeadersAre DEF TypeInv
<1>3. PICK g \in Slots : Guaranteed(g) /\ (LogInUse => g <= index.hdr.mx)
  BY DEF WalInv, GuaranteedInv
<1>4. g \in 0 .. MaxFrames
  BY <1>2
<1>5. FilesType /\ GuaranteedInv
  BY DEF TypeInv, WalInv
<1>6. CASE Recover
  <2>1. /\ UNCHANGED <<file, disk>> /\ index'.hdr = Recovered(file.log)
        /\ current' = Found(file) /\ pending' = (pending \cup {current}) \ {current'}
    BY <1>6 DEF Recover
  <2>2. Good' = Good
    <3>1. Found(file) \in Good
      BY <1>5, FoundFile
    <3> QED
      BY <2>1, <3>1 DEF Good
  <2>3. Guaranteed(g)'
    BY <1>3, <2>1, <2>2, GuaranteedKept
  <2>4. g <= index'.hdr.mx
    <3>1. CASE g = 0
      BY <1>2, <3>1
    <3>2. CASE g # 0
      <4>1. g \in 1 .. MaxFrames
        BY <1>4, <3>2
      <4>2. Valid(file.log, g) /\ file.log[g].commit
        BY <1>3, <4>1 DEF Guaranteed
      <4> QED
        BY <2>1, <4>1, <4>2, RecoveredIs
    <3> QED
      BY <3>1, <3>2
  <2> QED
    BY <2>3, <2>4 DEF GuaranteedInv
<1>7. CASE BeginRead \/ ReadPage \/ EndRead \/ BeginWrite \/ Modify \/ Rollback \/ WriteFails \/ CheckpointFails
  <2>1. UNCHANGED <<file, disk, index, current, pending>>
    BY <1>7 DEF BeginRead, ReadPage, EndRead, BeginWrite, Modify, Rollback, WriteFails, CheckpointFails
  <2>2. pc # "closed"
    BY <1>7 DEF BeginRead, ReadPage, EndRead, BeginWrite, Modify, Rollback, WriteFails, CheckpointFails
  <2>3. Begun' => Begun \/ index.hdr.mx > 0
    <3>1. CASE BeginWrite
      <4>1. hdr = index.hdr /\ pc' = "write" /\ hdr' = hdr
        BY <3>1 DEF BeginWrite, WalInv, HeaderInv
      <4> QED
        BY <4>1 DEF Begun
    <3>2. CASE ReadPage \/ Modify
      BY <3>2 DEF ReadPage, Modify, Begun
    <3>3. CASE BeginRead \/ EndRead \/ Rollback \/ WriteFails \/ CheckpointFails
      <4>1. pc' \in {"read", "idle", "checkpoint"}
        BY <3>3 DEF BeginRead, EndRead, Rollback, WriteFails, CheckpointFails, Undo
      <4> QED
        BY <4>1 DEF Begun
    <3> QED
      BY <1>7, <3>1, <3>2, <3>3
  <2>4. LogInUse' => LogInUse
    BY <2>1, <2>2, <2>3 DEF LogInUse
  <2>5. Good' = Good
    BY <2>1 DEF Good
  <2> QED
    BY <1>5, <2>1, <2>4, <2>5, GuaranteedQuiet
<1>8. CASE Spill \/ Commit
  <2>1. PICK pages \in Seq(Pages), ends \in BOOLEAN : StartFrames(pages, ends)
    BY <1>8, StartsFrames
  <2>2. UNCHANGED <<file, disk, current, pending>> /\ pc = "write"
    BY <2>1 DEF StartFrames
  <2>3. Good' = Good
    BY <2>2 DEF Good
  <2>4. LogInUse' => LogInUse /\ index'.hdr.mx = index.hdr.mx
    <3>1. CASE index'.hdr.mx = 0 /\ pc' = "header"
      BY <3>1 DEF LogInUse, Begun
    <3>2. CASE index' = index /\ hdr' = hdr /\ pc' = IF hdr.mx = 0 THEN "header" ELSE "frame"
      <4>1. CASE hdr.mx = 0
        BY <2>2, <3>2, <4>1 DEF LogInUse, Begun
      <4>2. CASE hdr.mx # 0
        BY <1>2, <2>2, <3>2, <4>2 DEF LogInUse, Begun
      <4> QED
        BY <4>1, <4>2
    <3>3. HeadersType
      BY DEF TypeInv
    <3> QED
      BY <2>1, <3>1, <3>2, <3>3, StartFramesDoes
  <2> QED
    BY <1>5, <2>2, <2>3, <2>4, GuaranteedQuiet
<1>9. CASE CommitNothing
  <2>1. UNCHANGED <<file, disk, index, pending>> /\ current' = current /\ pc = "write" /\ pc' = "read"
    BY <1>9, CommitNothingIs DEF CommitNothing
  <2>2. LogInUse' => LogInUse
    BY <2>1 DEF LogInUse, Begun
  <2>3. Good' = Good
    BY <2>1 DEF Good
  <2> QED
    BY <1>5, <2>1, <2>2, <2>3, GuaranteedQuiet
<1>10. CASE WriteHeader
  <2>1. Guaranteed(0)'
    BY <1>10, GuaranteedHeader DEF WalInv
  <2>2. 0 \in Slots /\ 0 <= index'.hdr.mx
    BY <1>2
  <2> QED
    BY <2>1, <2>2 DEF GuaranteedInv
<1>11. CASE WriteFrame
  <2>1. pc = "frame" /\ index' = index
    BY <1>11 DEF WriteFrame
  <2>2. g <= index.hdr.mx
    BY <1>3, <2>1 DEF LogInUse, Begun
  <2>3. Guaranteed(g)'
    BY <1>1, <1>3, <1>11, <2>2, GuaranteedFrame
  <2> QED
    BY <2>1, <2>2, <2>3 DEF GuaranteedInv
<1>12. CASE Spilled
  <2>1. UNCHANGED <<file, disk, index, current, pending>> /\ pc = "spilled"
    BY <1>12 DEF Spilled
  <2>2. LogInUse' => LogInUse
    BY <2>1 DEF LogInUse, Begun
  <2>3. Good' = Good
    BY <2>1 DEF Good
  <2> QED
    BY <1>5, <2>1, <2>2, <2>3, GuaranteedQuiet
<1>13. CASE SyncLog
  <2>1. pc = "sync" /\ UNCHANGED <<index, current, pending>>
    BY <1>13 DEF SyncLog
  <2>2. disk'.log = file.log /\ disk'.db = disk.db /\ file' = file
    BY <1>5, <1>13, SyncDoes
  <2>3. Good' = Good /\ g <= g /\ g <= index.hdr.mx
    BY <1>3, <1>4, <2>1 DEF Good, LogInUse, Begun
  <2>4. g > 0 => Valid(file.log, g) /\ file.log[g].commit
    BY <1>3 DEF Guaranteed
  <2>5. Guaranteed(g)'
    BY <1>3, <2>2, <2>3, <2>4, GuaranteedSynced
  <2> QED
    BY <2>1, <2>3, <2>5 DEF GuaranteedInv
<1>14. CASE Publish
  <2>1. index'.hdr.mx = End
    BY <1>14, PublishDoes DEF TypeInv
  <2>2. End \in Slots /\ End <= index'.hdr.mx
    BY <1>2, <2>1
  <2>3. \A n \in Slots : n = End => Guaranteed(n)'
    BY <1>14, GuaranteedPublished
  <2> QED
    <3>1. PICK n \in Slots : n = End
      BY <2>2
    <3>2. Guaranteed(n)' /\ n <= index'.hdr.mx
      BY <2>2, <2>3, <3>1
    <3> QED
      BY <3>2 DEF GuaranteedInv
<1>15. CASE StartCheckpoint
  <2>1. pc = "checkpoint" /\ UNCHANGED <<index, current, pending>> /\ index.backfill < index.hdr.mx
    BY <1>15 DEF StartCheckpoint
  <2>2. disk'.log = file.log /\ disk'.db = disk.db /\ file' = file
    BY <1>5, <1>15, SyncDoes
  <2>3. index.hdr.mx > 0
    BY <1>2, <2>1 DEF TypeInv, HeadersType
  <2>4. Good' = Good /\ g <= g /\ g <= index.hdr.mx
    BY <1>3, <1>4, <2>1, <2>3 DEF Good, LogInUse
  <2>5. g > 0 => Valid(file.log, g) /\ file.log[g].commit
    BY <1>3 DEF Guaranteed
  <2>6. Guaranteed(g)'
    BY <1>3, <2>2, <2>4, <2>5, GuaranteedSynced
  <2> QED
    BY <2>1, <2>4, <2>6 DEF GuaranteedInv
<1>16. CASE CopyPage
  <2>1. index' = index /\ pc = "copy"
    BY <1>16 DEF CopyPage
  <2>2. Guaranteed(index.hdr.mx)'
    BY <1>16, GuaranteedCopied DEF WalInv
  <2>3. PICK n \in Slots : n = index.hdr.mx
    BY <1>2
  <2>4. Guaranteed(n)'
    BY <2>1, <2>2, <2>3
  <2>5. n <= index'.hdr.mx
    BY <1>2, <2>1, <2>3
  <2> QED
    BY <2>4, <2>5 DEF GuaranteedInv
<1>17. CASE EndCheckpoint
  <2>1. index'.hdr = index.hdr
    BY <1>17, EndCheckpointDoes
  <2>2. Guaranteed(index.hdr.mx)'
    BY <1>17, GuaranteedCheckpoint DEF WalInv
  <2>3. PICK n \in Slots : n = index.hdr.mx
    BY <1>2
  <2>4. Guaranteed(n)'
    BY <2>1, <2>2, <2>3
  <2>5. n <= index'.hdr.mx
    BY <1>2, <2>1, <2>3
  <2> QED
    BY <2>4, <2>5 DEF GuaranteedInv
<1>18. CASE Kill
  <2>1. UNCHANGED <<file, disk, current, pending>> /\ pc' = "closed"
    BY <1>18 DEF Kill, MemoryLost
  <2>2. ~LogInUse' /\ Good' = Good
    BY <2>1 DEF LogInUse, Good
  <2> QED
    BY <1>5, <2>1, <2>2, GuaranteedQuiet
<1>19. CASE PowerLoss
  <2>1. \E h \in Slots : Guaranteed(h)'
    BY <1>1, <1>19, GuaranteedLoss DEF TypeInv
  <2>2. ~LogInUse'
    BY <1>19 DEF PowerLoss, MemoryLost, LogInUse
  <2> QED
    BY <2>1, <2>2 DEF GuaranteedInv
<1> QED
  BY <1>6, <1>7, <1>8, <1>9, <1>10, <1>11, <1>12, <1>13, <1>14, <1>15, <1>16, <1>17, <1>18, <1>19
  DEF Next

-----------------------------------------------------------------------------
(* An old header, the checkpoint and the sync before a commit is reported. *)

\* What an old header finds is good as long as the files stay as they are.
LEMMA OldHeaderQuiet ==
    ASSUME OldHeaderInv, file'.db = file.db, file'.log[0] = file.log[0], disk'.log = disk.log,
           Good \subseteq Good'
    PROVE  OldHeaderInv'
BY DEF OldHeaderInv

\* Every step keeps a header that was replaced without a sync harmless (OldHeaderInv).
LEMMA OldHeaderStep == TypeInv /\ WalInv /\ Next /\ broken' = {} => OldHeaderInv'
<1> SUFFICES ASSUME TypeInv, WalInv, Next, broken' = {} PROVE OldHeaderInv'
  OBVIOUS
<1> USE DEF files, reader, writer, checkpointer, bounds, history
<1>1. OldHeaderInv /\ FilesType /\ GuaranteedInv
  BY DEF WalInv, TypeInv
<1>2. CASE Recover
  <2>1. /\ UNCHANGED <<file, disk>>
        /\ current' = Found(file) /\ pending' = (pending \cup {current}) \ {current'}
    BY <1>2 DEF Recover
  <2>2. Good \subseteq Good'
    BY <2>1 DEF Good
  <2> QED
    BY <1>1, <2>1, <2>2, OldHeaderQuiet
<1>3. CASE BeginRead \/ ReadPage \/ EndRead \/ BeginWrite \/ Modify \/ Spilled \/ Rollback
           \/ WriteFails \/ CheckpointFails \/ Kill
  <2>1. UNCHANGED <<file, disk, current, pending>>
    BY <1>3 DEF BeginRead, ReadPage, EndRead, BeginWrite, Modify, Spilled, Rollback, WriteFails,
                CheckpointFails, Kill
  <2>2. Good \subseteq Good'
    BY <2>1 DEF Good
  <2> QED
    BY <1>1, <2>1, <2>2, OldHeaderQuiet
<1>4. CASE Spill \/ Commit
  <2>1. UNCHANGED <<file, disk, current, pending>>
    BY <1>4 DEF Spill, Commit, StartFrames
  <2>2. Good \subseteq Good'
    BY <2>1 DEF Good
  <2> QED
    BY <1>1, <2>1, <2>2, OldHeaderQuiet
<1>5. CASE CommitNothing
  <2>1. UNCHANGED <<file, disk, pending>> /\ current' = current
    BY <1>5, CommitNothingIs DEF CommitNothing
  <2>2. Good \subseteq Good'
    BY <2>1 DEF Good
  <2> QED
    BY <1>1, <2>1, <2>2, OldHeaderQuiet
<1>6. CASE WriteHeader
  <2>1. file'.db = file.db /\ disk' = disk /\ Good' = Good
    BY <1>6, WriteHeaderDoes DEF WriteHeader, Good
  <2>2. Found([db |-> file.db, log |-> disk.log]) \in Good
    <3>1. CASE disk.log[0] # file.log[0]
      BY <1>1, <3>1 DEF OldHeaderInv
    <3>2. CASE disk.log[0] = file.log[0]
      <4>1. Mix(disk.log)
        BY <3>2 DEF Mix
      <4>2. PICK g \in Slots : Guaranteed(g)
        BY <1>1 DEF GuaranteedInv
      <4> QED
        BY <1>1, <4>1, <4>2, FoundGood
    <3> QED
      BY <3>1, <3>2
  <2> QED
    BY <2>1, <2>2 DEF OldHeaderInv
<1>7. CASE WriteFrame
  <2>1. /\ file'.db = file.db /\ End + 1 \in 1 .. MaxFrames
        /\ \A i \in Slots : i # End + 1 => file'.log[i] = file.log[i]
    BY <1>7, WriteFrameDoes DEF WalInv
  <2>2. 0 \in Slots /\ 0 # End + 1
    BY <2>1, SlotsAre
  <2>3. disk' = disk /\ Good \subseteq Good'
    BY <1>7 DEF WriteFrame, Good
  <2> QED
    BY <1>1, <2>1, <2>2, <2>3, OldHeaderQuiet
<1>8. CASE SyncLog \/ StartCheckpoint
  BY <1>1, <1>8, SyncDoes DEF OldHeaderInv
<1>9. CASE Publish
  BY <1>9 DEF Publish, WalInv, SyncedInv, OldHeaderInv
<1>10. CASE CopyPage
  <2>1. disk.log = file.log /\ disk' = disk
    BY <1>10 DEF CopyPage, WalInv, CopyInv
  <2>2. file'.log = file.log
    <3>1. TypeInv /\ CopyInv
      BY DEF WalInv
    <3> QED
      BY <1>10, <3>1, CopyPageDoes
  <2> QED
    BY <2>1, <2>2 DEF OldHeaderInv
<1>11. CASE EndCheckpoint
  <2>1. file' = file /\ disk'.log = disk.log /\ Good' = Good
    BY <1>11, EndCheckpointDoes DEF EndCheckpoint, Good
  <2> QED
    BY <1>1, <2>1, OldHeaderQuiet
<1>12. CASE PowerLoss
  BY <1>1, <1>12, PowerLossDoes DEF OldHeaderInv
<1> QED
  BY <1>2, <1>3, <1>4, <1>5, <1>6, <1>7, <1>8, <1>9, <1>10, <1>11, <1>12 DEF Next

\* Every step of walCheckpoint keeps the log on the disk while pages are copied (CopyInv).
LEMMA CopyStep == TypeInv /\ WalInv /\ Next /\ broken' = {} => CopyInv'
<1> SUFFICES ASSUME TypeInv, WalInv, Next, broken' = {}, pc' = "copy" PROVE CopyInv'
  BY DEF CopyInv
<1> USE DEF files, reader, writer, checkpointer, bounds, history
<1>1. /\ index.hdr.mx \in 0 .. MaxFrames /\ MaxFrames \in Nat /\ Slots = 0 .. MaxFrames
      /\ index.backfill \in {0, index.hdr.mx}
  BY SlotsAre, HeadersAre DEF TypeInv, HeadersType
<1>2. CASE StartCheckpoint
  <2>1. /\ pc = "checkpoint" /\ UNCHANGED <<index, current, pending>>
        /\ index.backfill < index.hdr.mx
        /\ toCopy' = [p \in Pages |-> LastFrame(file.log, index.hdr.mx, p)]
    BY <1>2 DEF StartCheckpoint
  <2>2. disk'.log = file.log /\ disk'.db = disk.db /\ file' = file
    BY <1>2, SyncDoes DEF TypeInv
  <2>3. index.backfill = 0 /\ index.hdr.mx > 0
    BY <1>1, <2>1
  <2>4. PICK g \in Slots : Guaranteed(g) /\ g <= index.hdr.mx
    BY <2>1, <2>3 DEF WalInv, GuaranteedInv, LogInUse
  <2>5. Valid(file.log, index.hdr.mx) /\ file.log[index.hdr.mx].commit
    BY <2>1, <2>3 DEF WalInv, IndexInv
  <2>6. PICK n \in Slots : n = index.hdr.mx
    BY <1>1
  <2>7. Guaranteed(n)'
    <3>1. Good' = Good
      BY <2>1 DEF Good
    <3>2. g <= n /\ (n > 0 => Valid(file.log, n) /\ file.log[n].commit)
      BY <2>4, <2>5, <2>6
    <3> QED
      BY <2>2, <2>4, <3>1, <3>2, GuaranteedSynced
  <2>8. n = index'.hdr.mx
    BY <2>1, <2>6
  <2>9. Guaranteed(index.hdr.mx)'
    BY <2>7, <2>8
  <2> QED
    BY <2>1, <2>2, <2>3, <2>9 DEF CopyInv
<1>3. CASE CopyPage
  <2>1. /\ pc = "copy" /\ index' = index /\ disk' = disk
        /\ disk.log = file.log /\ index.backfill = 0 /\ index.hdr.mx > 0
    BY <1>3 DEF CopyPage, WalInv, CopyInv
  <2>2. Guaranteed(index.hdr.mx)'
    BY <1>3, GuaranteedCopied DEF WalInv
  <2>3. PICK p \in Pages :
          LET f == LastFrame(file.log, index.hdr.mx, p)
          IN  /\ f \in 1 .. index.hdr.mx /\ file.log[f].pg = p
              /\ \A i \in f + 1 .. index.hdr.mx : file.log[i].pg # p
              /\ file'.db = [file.db EXCEPT ![p] = file.log[f].txn]
              /\ file'.log = file.log /\ file' = [db |-> file'.db, log |-> file'.log]
              /\ toCopy' = [toCopy EXCEPT ![p] = None]
    <3>1. TypeInv /\ CopyInv
      BY DEF WalInv
    <3> QED
      BY <1>3, <3>1, CopyPageDoes
  <2>4. DOMAIN toCopy = Pages /\ DOMAIN file.db = Pages
    BY DEF TypeInv, PagerType, FilesType
  <2>5. \A q \in Pages :
          LET f == LastFrame(file.log, index.hdr.mx, q)
          IN  toCopy[q] = f \/ (toCopy[q] = None /\ f > 0 /\ file.db[q] = file.log[f].txn)
    BY <2>1 DEF WalInv, CopyInv
  <2>6. ASSUME NEW q \in Pages
        PROVE  LET f == LastFrame(file.log, index.hdr.mx, q)
               IN  toCopy'[q] = f \/ (toCopy'[q] = None /\ f > 0 /\ file'.db[q] = file.log[f].txn)
    <3>1. CASE q = p
      <4>1. toCopy'[q] = None /\ file'.db[q] = file.log[LastFrame(file.log, index.hdr.mx, q)].txn
        BY <2>3, <2>4, <3>1
      <4>2. LastFrame(file.log, index.hdr.mx, q) > 0
        BY <1>1, <2>3, <3>1
      <4> QED
        BY <4>1, <4>2
    <3>2. CASE q # p
      BY <2>3, <2>4, <2>5, <3>2
    <3> QED
      BY <3>1, <3>2
  <2>7. file'.log = file.log
    BY <2>3
  <2> QED
    BY <2>1, <2>2, <2>6, <2>7 DEF CopyInv
<1>4. CASE ~StartCheckpoint /\ ~CopyPage
  <2>1. FALSE
    BY <1>4 DEF Next, Recover, BeginRead, ReadPage, EndRead, BeginWrite, Modify, Spill, Commit,
             StartFrames, CommitNothing, WriteHeader, WriteFrame, Spilled, SyncLog, Publish,
             Rollback, Undo, WriteFails, EndCheckpoint, CheckpointFails, Kill, PowerLoss, MemoryLost
  <2> QED
    BY <2>1
<1> QED
  BY <1>2, <1>3, <1>4

\* A commit is synced before it is reported (SyncedInv).
LEMMA SyncedStep == TypeInv /\ WalInv /\ Next /\ broken' = {} => SyncedInv'
<1> SUFFICES ASSUME TypeInv, WalInv, Next, pc' = "publish" PROVE disk'.log = file'.log
  BY DEF SyncedInv
<1>1. CASE SyncLog
  BY <1>1, SyncDoes DEF TypeInv
<1>2. CASE ~SyncLog
  BY <1>2 DEF Next, Recover, BeginRead, ReadPage, EndRead, BeginWrite, Modify, Spill, Commit,
           StartFrames, CommitNothing, WriteHeader, WriteFrame, Spilled, StartCheckpoint, CopyPage, Publish,
           Rollback, Undo, WriteFails, EndCheckpoint, CheckpointFails, Kill, PowerLoss, MemoryLost
<1> QED
  BY <1>1, <1>2

-----------------------------------------------------------------------------
(* The invariant.                                                          *)

\* An empty database satisfies the invariant.
LEMMA InitInv == Init => IInv
<1> SUFFICES ASSUME Init PROVE IInv
  OBVIOUS
<1>1. MaxFrames \in Nat \ {0} /\ Slots = 0 .. MaxFrames /\ MaxTxns \in Nat
  BY WalAssumption, SlotsAre
<1>2. /\ file = [db |-> [p \in Pages |-> 0], log |-> [f \in Slots |-> NoFrame]] /\ disk = file
      /\ pc = "closed" /\ index = [hdr |-> NoHdr, backfill |-> 0] /\ hdr = NoHdr
      /\ usesLog = FALSE /\ cache = NoPages /\ dirty = {} /\ list = <<>> /\ commit = FALSE
      /\ mods = {} /\ toCopy = NoPages /\ callback = 0
      /\ txns = 0 /\ salts = 0 /\ current = [p \in Pages |-> 0] /\ pending = {} /\ broken = {}
  BY DEF Init
<1>3. /\ file.db = [p \in Pages |-> 0] /\ disk.db = [p \in Pages |-> 0]
      /\ \A i \in Slots : file.log[i] = NoFrame /\ disk.log[i] = NoFrame
      /\ index.hdr = NoHdr /\ index.backfill = 0
      /\ Good = {[p \in Pages |-> 0]}
  BY <1>2 DEF Good
<1>4. NoFrame.salt = 0 /\ NoFrame.sum = <<>> /\ NoHdr.mx = 0 /\ NoHdr.sum = <<>> /\ NoHdr.salt = 0
  BY DEF NoFrame, NoHdr
<1>5. \A i \in 1 .. MaxFrames : i \in Slots
  BY <1>1
<1>6. TypeInv
  <2>1. FilesType
    <3>1. IsLog(file.log) /\ IsLog(disk.log)
      BY <1>3, <1>5 DEF IsLog, IsFrame
    <3>2. file = [db |-> file.db, log |-> file.log] /\ disk = [db |-> disk.db, log |-> disk.log]
      BY <1>2
    <3>3. file.log = [i \in Slots |-> file.log[i]] /\ disk.log = [i \in Slots |-> disk.log[i]]
      BY <1>2
    <3>4. Good \subseteq [Pages -> 0 .. txns]
      BY <1>2, <1>3
    <3>5. /\ file.db \in [Pages -> {Torn} \cup 0 .. txns] /\ disk.db \in [Pages -> {Torn} \cup 0 .. txns]
          /\ \A i \in Slots : file.log[i].salt \in 0 .. salts /\ disk.log[i].salt \in 0 .. salts
          /\ txns \in 0 .. MaxTxns /\ salts \in Nat
          /\ broken \subseteq {"spilled", "overtaken"}
      BY <1>1, <1>2, <1>3, <1>4
    <3> QED
      BY <3>1, <3>2, <3>3, <3>4, <3>5 DEF FilesType
  <2>2. HeadersType
    <3>1. index = [hdr |-> index.hdr, backfill |-> index.backfill]
      BY <1>2
    <3> QED
      BY <1>1, <1>2, <1>3, <1>4, <3>1, NoHdrIs DEF HeadersType
  <2>3. PagerType
    <3>1. NoPages \in [Pages -> {None} \cup 0 .. txns] /\ NoPages \in [Pages -> {None} \cup Slots]
      BY DEF NoPages
    <3>2. list \in Seq(Pages)
      BY <1>2
    <3> QED
      BY <1>2, <3>1, <3>2 DEF PagerType
  <2> QED
    BY <2>1, <2>2, <2>3 DEF TypeInv
<1>7. FreshInv
  BY <1>2, <1>3, <1>5, UpToNone DEF FreshInv, Txn
<1>8. IndexInv /\ HeaderInv /\ ModsInv /\ CacheInv /\ CopyInv /\ SyncedInv
  BY <1>2 DEF IndexInv, HeaderInv, ModsInv, CacheInv, CopyInv, SyncedInv, Txn
<1>9. ChainInv /\ ~LogInUse
  BY <1>2 DEF ChainInv, Begun, LogInUse
<1>10. OldHeaderInv
  BY <1>2 DEF OldHeaderInv
<1>11. Guaranteed(0)
  <2>1. \A p \in Pages : disk.db[p] = file.db[p] /\ file.db[p] # Torn
    BY <1>3 DEF Torn
  <2>2. ASSUME NEW log, Mix(log), NEW k \in 0 .. MaxFrames, Valid(log, k)
        PROVE  Content(log, k, file.db) \in Good
    <3>1. k = 0
      <4> SUFFICES ASSUME k # 0 PROVE FALSE
        OBVIOUS
      <4>1. 1 \in 1 .. k /\ 1 \in Slots
        BY <1>1
      <4>2. log[1] = NoFrame
        BY <1>3, <2>2, <4>1 DEF Mix
      <4>3. ValidFrame(log, 1)
        BY <2>2, <4>1 DEF Valid
      <4> QED
        BY <1>4, <4>2, <4>3 DEF ValidFrame
    <3>2. file.db \in [Pages -> {0}]
      BY <1>3
    <3>3. Content(log, 0, file.db) = file.db
      BY <3>2, NoContent
    <3> QED
      BY <1>3, <3>1, <3>3
  <2> QED
    BY <2>1, <2>2 DEF Guaranteed
<1>12. GuaranteedInv
  <2>1. 0 \in Slots
    BY <1>1
  <2> QED
    BY <1>9, <1>11, <2>1 DEF GuaranteedInv
<1> QED
  BY <1>6, <1>7, <1>8, <1>9, <1>10, <1>12 DEF IInv, WalInv

\* What is not a step of the database changes nothing.
LEMMA StutterInv == IInv /\ UNCHANGED vars => IInv'
<1> SUFFICES ASSUME IInv, UNCHANGED vars PROVE IInv'
  OBVIOUS
<1>1. UNCHANGED <<file, disk, pc, index, hdr, usesLog, cache, dirty, list, commit, mods, toCopy, callback,
                  txns, salts, current, pending, broken>>
  BY DEF vars, files, reader, writer, checkpointer, bounds, history
<1>2. Good' = Good /\ Begun' = Begun /\ End' = End /\ LogInUse' = LogInUse
  BY <1>1 DEF Good, Begun, End, LogInUse
<1>3. TypeInv => TypeInv'
  BY <1>1, <1>2 DEF TypeInv, FilesType, HeadersType, PagerType
<1>4. FreshInv => FreshInv'
  BY <1>1, <1>2 DEF FreshInv
<1>5. IndexInv /\ HeaderInv => IndexInv' /\ HeaderInv'
  BY <1>1 DEF IndexInv, HeaderInv
<1>6. ChainInv => ChainInv'
  BY <1>1, <1>2 DEF ChainInv
<1>7. ModsInv => ModsInv'
  BY <1>1, <1>2 DEF ModsInv, Logged
<1>8. CacheInv => CacheInv'
  BY <1>1 DEF CacheInv, Result
<1>9. GuaranteedInv => GuaranteedInv'
  BY <1>1, <1>2, GuaranteedQuiet
<1>10. OldHeaderInv => OldHeaderInv'
  BY <1>1, <1>2, OldHeaderQuiet
<1>11. CopyInv => CopyInv'
  <2> SUFFICES ASSUME CopyInv, pc = "copy" PROVE CopyInv'
    BY <1>1 DEF CopyInv
  <2>1. Guaranteed(index.hdr.mx)'
    BY <1>1, <1>2 DEF CopyInv, Guaranteed, Mix
  <2> QED
    BY <1>1, <2>1 DEF CopyInv
<1>12. SyncedInv => SyncedInv'
  BY <1>1 DEF SyncedInv
<1> QED
  BY <1>1, <1>3, <1>4, <1>5, <1>6, <1>7, <1>8, <1>9, <1>10, <1>11, <1>12 DEF IInv, WalInv

\* Whatever is written, spilled, rolled back, copied, begun anew, cut off or lost, the
\* files and the connection agree in the way IInv says.
THEOREM Invariance == Spec => []IInv
<1>1. IInv /\ [Next]_vars => IInv'
  <2> SUFFICES ASSUME IInv, [Next]_vars PROVE IInv'
    OBVIOUS
  <2>1. CASE Next
    <3>1. TypeInv /\ WalInv
      BY <2>1 DEF IInv, Next
    <3>2. TypeInv'
      BY <2>1, <3>1, TypeStep
    <3>3. broken' = {} => WalInv'
      BY <2>1, <3>1, FreshStep, IndexStep, HeaderStep, ChainStep, ModsStep, CacheStep, GuaranteedStep,
         OldHeaderStep, CopyStep, SyncedStep DEF WalInv
    <3> QED
      BY <3>2, <3>3 DEF IInv
  <2>2. CASE UNCHANGED vars
    BY <2>2, StutterInv
  <2> QED
    BY <2>1, <2>2
<1> QED
  BY <1>1, InitInv, PTL DEF Spec

-----------------------------------------------------------------------------
(* What is read.                                                           *)

\* The types the runs check follow.
LEMMA TypesAre == TypeInv => TypeOK
<1> SUFFICES ASSUME TypeInv PROVE TypeOK
  OBVIOUS
<1>1. /\ file.db \in [Pages -> {Torn} \cup 0..txns] /\ disk.db \in [Pages -> {Torn} \cup 0..txns]
      /\ broken \subseteq {"spilled", "overtaken"}
      /\ current \in [Pages -> 0..txns]
  BY DEF TypeInv, FilesType, Good
<1>2. DOMAIN file.log = Slots /\ DOMAIN disk.log = Slots
  <2>1. file.log = [i \in Slots |-> file.log[i]] /\ disk.log = [i \in Slots |-> disk.log[i]]
    BY DEF TypeInv, FilesType
  <2> QED
    BY <2>1, Zenon
<1>3. /\ index.backfill \in {0, index.hdr.mx} /\ index.hdr.mx \in Slots
      /\ hdr.mx \in Slots /\ Len(hdr.sum) <= MaxFrames + 1
  BY DEF TypeInv, HeadersType, Header
<1>4. /\ cache \in [Pages -> {None} \cup 0..txns]
      /\ dirty \subseteq mods /\ mods \subseteq Pages
      /\ pc \in {"closed", "idle", "read", "checkpoint", "copy"} => dirty = {} /\ mods = {}
  BY DEF TypeInv, PagerType, Txn
<1> QED
  BY <1>1, <1>2, <1>3, <1>4 DEF TypeOK

\* A page that is read, from the cache, the log or the database file, has the content the
\* program was told of or what its own transaction made of it (sqlite3PagerAcquire).
THEOREM ReadsSnapshot == Spec => []SnapshotRead
<1>1. IInv => SnapshotRead
  <2> SUFFICES ASSUME IInv PROVE SnapshotRead
    OBVIOUS
  <2>1. TypeInv /\ TypeOK
    BY TypesAre DEF IInv
  <2>2. ASSUME broken = {}, pc \in {"read", "write"}, NEW p \in Pages PROVE View(p) = Result[p]
    <3>1. IndexInv /\ HeaderInv /\ ChainInv /\ ModsInv /\ CacheInv
      BY <2>2 DEF IInv, WalInv
    <3>2. CASE p \in dirty
      <4>1. pc = "write" /\ p \in mods
        BY <2>1, <2>2, <3>2 DEF TypeInv, PagerType, Txn
      <4>2. cache[p] = txns /\ txns \in Nat
        BY <2>1, <3>1, <3>2, <4>1, WalAssumption DEF CacheInv, Txn, TypeInv, FilesType
      <4>3. View(p) = txns
        BY <4>2 DEF View, None
      <4> QED
        BY <4>1, <4>3 DEF Result
    <3>3. CASE p \notin dirty
      <4>1. Fetch(p) = Result[p]
        BY <2>1, <2>2, <3>1, <3>3, FetchIs
      <4>2. cache[p] \in {None, Result[p]}
        <5>1. CASE pc = "read"
          <6>1. mods = {}
            BY <2>1, <5>1 DEF TypeInv, PagerType, Txn
          <6> QED
            BY <2>1, <3>1, <5>1, <6>1, NoMods DEF CacheInv
        <5>2. CASE pc = "write"
          BY <3>1, <3>3, <5>2 DEF CacheInv, Txn
        <5> QED
          BY <2>2, <5>1, <5>2
      <4> QED
        BY <4>1, <4>2 DEF View
    <3> QED
      BY <3>2, <3>3
  <2> QED
    BY <2>1, <2>2 DEF SnapshotRead
<1> QED
  BY <1>1, Invariance, PTL

-----------------------------------------------------------------------------
(* What is found after a stop.                                             *)

\* Once the last frame of a commit is in the file, a start finds the commit.
LEMMA FoundCommit ==
    TypeInv /\ IndexInv /\ ChainInv /\ ModsInv /\ FreshInv /\ pc \in {"sync", "publish"}
        => Found(file) = Result
<1> SUFFICES ASSUME TypeInv, IndexInv, ChainInv, ModsInv, FreshInv, pc \in {"sync", "publish"}
             PROVE  Found(file) = Result
  OBVIOUS
<1> DEFINE r == Recovered(file.log).mx
           n == End
<1>1. Begun
  BY DEF Begun
<1>2. /\ n \in 1 .. MaxFrames /\ n > index.hdr.mx /\ index.hdr.mx \in 0 .. MaxFrames
      /\ MaxFrames \in Nat /\ Slots = 0 .. MaxFrames
  <2>1. /\ End \in -1 .. MaxFrames /\ hdr.mx \in 0 .. MaxFrames
        /\ index.hdr.mx \in 0 .. MaxFrames /\ MaxFrames \in Nat
    BY HeadersAre DEF TypeInv
  <2>2. End > hdr.mx /\ index.hdr.mx <= hdr.mx
    BY <1>1 DEF ChainInv
  <2> QED
    BY <2>1, <2>2, SlotsAre
<1>3. /\ Valid(file.log, n) /\ file.log[n].commit
      /\ \A i \in index.hdr.mx + 1 .. n : file.log[i].txn = txns
  BY <1>1, <1>2 DEF ChainInv
<1>4. \A k \in 1 .. MaxFrames : k > n => UpTo(file.log[k], txns - 1)
  <2>1. \A i \in 1 .. MaxFrames : i \in index.hdr.mx + 1 .. n \/ UpTo(file.log[i], txns - 1)
    BY DEF FreshInv, Txn
  <2> QED
    BY <1>2, <2>1
<1>5. Content(file.log, n, file.db) = Result
  BY CommitMade
<1>6. /\ r \in Slots /\ n <= r
      /\ r > 0 => Valid(file.log, r)
  BY <1>2, <1>3, RecoveredIs
<1> HIDE DEF r, n
<1>7. r = n
  <2> SUFFICES ASSUME r # n PROVE FALSE
    OBVIOUS
  <2>1. r \in 1 .. MaxFrames /\ r > n /\ n \in 1 .. r
    BY <1>2, <1>6
  <2>2. UpTo(file.log[r], txns - 1) /\ Valid(file.log, r)
    BY <1>4, <1>6, <2>1
  <2>3. txns - 1 \in Int /\ txns > txns - 1
    BY WalAssumption DEF TypeInv, FilesType
  <2>4. file.log[n].txn > txns - 1
    <3>1. n \in index.hdr.mx + 1 .. n
      BY <1>2
    <3> QED
      BY <1>3, <2>3, <3>1
  <2>5. IsLog(file.log)
    BY DEF TypeInv, FilesType
  <2> QED
    BY <2>1, <2>2, <2>3, <2>4, <2>5, Followed
<1>8. Found([db |-> file.db, log |-> file.log]) = Content(file.log, r, file.db)
  BY FoundIs DEF r
<1>9. file = [db |-> file.db, log |-> file.log]
  BY DEF TypeInv, FilesType
<1> QED
  BY <1>5, <1>7, <1>8, <1>9

\* At any moment a start would find what was told of, or the commit under way, whole.
LEMMA FoundAlways == TypeInv /\ GuaranteedInv => Found(file) \in Good
BY FoundFile DEF TypeInv

\* An empty database is an empty store.
LEMMA StoreInit == Init => Store!Init
<1> SUFFICES ASSUME Init PROVE Store!Init
  OBVIOUS
<1>1. /\ file.db = [p \in Pages |-> 0] /\ current = file.db /\ pending = {} /\ broken = {}
      /\ file = [db |-> file.db, log |-> [f \in Slots |-> NoFrame]]
  BY DEF Init
<1>2. Recovered(file.log).mx = 0
  <2> SUFFICES ASSUME Recovered(file.log).mx # 0 PROVE FALSE
    OBVIOUS
  <2>1. Recovered(file.log).mx \in 1 .. MaxFrames /\ Valid(file.log, Recovered(file.log).mx)
    BY RecoveredIs, SlotsAre
  <2>2. ValidFrame(file.log, 1) /\ 1 \in Slots
    BY <2>1, SlotsAre DEF Valid
  <2>3. file.log[1] = NoFrame
    BY <1>1, <2>2
  <2> QED
    BY <2>2, <2>3 DEF ValidFrame, NoFrame
<1>3. Found(file) = [p \in Pages |-> 0]
  <2>1. Found([db |-> file.db, log |-> file.log]) = Content(file.log, 0, file.db)
    BY <1>2, FoundIs
  <2>2. file.db \in [Pages -> {0}]
    BY <1>1
  <2>3. Content(file.log, 0, file.db) = file.db
    BY <2>2, NoContent
  <2>4. file = [db |-> file.db, log |-> file.log]
    BY <1>1
  <2> QED
    BY <1>1, <2>1, <2>3, <2>4
<1> QED
  BY <1>1, <1>3 DEF Store!Init

\* Each step is one step of DurableStore or none: the frame with the commit mark is its
\* Write, the report of the commit its Report, a start its Restart; a loss of power
\* and other writes can at most take an unreported commit back.
LEMMA StoreNext == IInv /\ IInv' /\ Next => StoreStep
<1> SUFFICES ASSUME IInv, IInv', Next PROVE StoreStep
  OBVIOUS
<1> USE DEF files, reader, writer, checkpointer, bounds, history
<1>1. broken = {} /\ TypeInv /\ WalInv
  BY DEF Next, IInv
<1>2. CASE broken' # {}
  BY <1>1, <1>2 DEF StoreStep, Store!Next
<1>3. CASE broken' = {}
  <2>1. TypeInv' /\ WalInv'
    BY <1>3 DEF IInv
  <2>2. Found(file)' \in Good'
    <3>1. (TypeInv /\ GuaranteedInv => Found(file) \in Good)'
      BY FoundAlways, PTL
    <3> QED
      BY <2>1, <3>1 DEF WalInv
  <2>3. CASE BeginRead \/ ReadPage \/ EndRead \/ BeginWrite \/ Modify \/ Spilled \/ Rollback \/ SyncLog
             \/ WriteFails \/ StartCheckpoint \/ EndCheckpoint \/ CheckpointFails \/ Kill
    <3>1. UNCHANGED <<file, current, pending, broken>>
      BY <2>3 DEF BeginRead, ReadPage, EndRead, BeginWrite, Modify, Spilled, Rollback, SyncLog,
                  WriteFails, StartCheckpoint, EndCheckpoint, CheckpointFails, Kill
    <3> QED
      BY <3>1 DEF StoreStep
  <2>4. CASE Spill \/ Commit
    BY <2>4 DEF Spill, Commit, StartFrames, StoreStep
  <2>5. CASE CommitNothing
    <3>1. UNCHANGED <<file, pending>> /\ current' = current
      BY <1>1, <1>3, <2>5, CommitNothingIs DEF CommitNothing
    <3> QED
      BY <1>1, <1>3, <3>1 DEF StoreStep
  <2>6. CASE Recover
    <3>1. /\ file' = file /\ current' = Found(file)
          /\ pending' = (pending \cup {current}) \ {Found(file)}
      BY <2>6 DEF Recover
    <3>2. Store!Restart
      BY <3>1 DEF Store!Restart
    <3> QED
      BY <1>1, <1>3, <3>2 DEF StoreStep, Store!Next
  <2>7. CASE WriteHeader \/ CopyPage \/ PowerLoss
    <3>1. current' = current /\ pending' = pending
      BY <2>7 DEF WriteHeader, CopyPage, PowerLoss
    <3>2. Store!Retract
      BY <2>2, <3>1 DEF Store!Retract, Good
    <3> QED
      BY <1>1, <1>3, <3>2 DEF StoreStep, Store!Next
  <2>8. CASE WriteFrame
    <3>1. /\ current' = current /\ mods' = mods /\ txns' = txns /\ Result' = Result
          /\ pending' = IF commit /\ Len(list) = 1 THEN pending \cup {Result} ELSE pending
          /\ pc' = IF Len(list) > 1 THEN "frame" ELSE IF commit THEN "sync" ELSE "spilled"
      BY <2>8 DEF WriteFrame, Result
    <3>2. CASE commit /\ Len(list) = 1
      <4>1. pc' = "sync" /\ pending' = pending \cup {Result}
        BY <3>1, <3>2
      <4>2. Found(file)' = Result
        <5>1. (TypeInv /\ IndexInv /\ ChainInv /\ ModsInv /\ FreshInv /\ pc \in {"sync", "publish"}
                => Found(file) = Result)'
          BY FoundCommit, PTL
        <5> QED
          BY <2>1, <3>1, <4>1, <5>1 DEF WalInv
      <4>3. \E v \in 0 .. MaxTxns : \A p \in Pages : Result[p] \in {current[p], v}
        <5>1. txns \in 0 .. MaxTxns
          BY <1>1 DEF TypeInv, FilesType
        <5>2. \A p \in Pages : Result[p] \in {current[p], txns}
          BY DEF Result
        <5> QED
          BY <5>1, <5>2
      <4>4. Store!Write
        BY <3>1, <4>1, <4>2, <4>3 DEF Store!Write
      <4> QED
        BY <1>1, <1>3, <4>4 DEF StoreStep, Store!Next
    <3>3. CASE ~(commit /\ Len(list) = 1)
      <4>1. pending' = pending
        BY <3>1, <3>3
      <4>2. Store!Retract
        BY <2>2, <3>1, <4>1 DEF Store!Retract, Good
      <4> QED
        BY <1>1, <1>3, <4>2 DEF StoreStep, Store!Next
    <3> QED
      BY <3>2, <3>3
  <2>9. CASE Publish
    <3>1. file' = file /\ current' = Result /\ pending' = {} /\ pc = "publish"
      BY <2>9 DEF Publish
    <3>2. Found(file) = Result
      BY <1>1, <3>1, FoundCommit DEF WalInv
    <3>3. Store!Report
      BY <3>1, <3>2 DEF Store!Report
    <3> QED
      BY <1>1, <1>3, <3>3 DEF StoreStep, Store!Next
  <2> QED
    BY <2>3, <2>4, <2>5, <2>6, <2>7, <2>8, <2>9 DEF Next
<1> QED
  BY <1>2, <1>3

\* The database keeps the promise of DurableStore: a commit that was reported is found at
\* every start, whole, and one under way whole or not at all.
THEOREM Durable == Spec => ImplementsStore
<1>1. IInv /\ IInv' /\ [Next]_vars => [StoreStep]_vars
  BY StoreNext
<1> QED
  BY <1>1, StoreInit, Invariance, PTL DEF Spec, ImplementsStore
=============================================================================
