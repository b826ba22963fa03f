# A verification project for kolproxy

kolproxy is a proxy between a browser and the game server of Kingdom of
Loathing. It serves browser requests on a local port, forwards pages to the
game over one connection per session, keeps a cache of the character's status,
runs Lua scripts over every page, keeps the scripts' settings in the game's
action bar, and writes logs. The program is `src/Kolproxy/*.hs`; this directory
holds TLA+ models of it, the configurations TLC checks them with, and proofs
checked by TLAPS.

## The system

One process, with the green threads of the GHC run-time, `Chan`s, `MVar`s and
`IORef`s. The threads of one session and what they share:

```
 browser -> accept loop -> mvsequence -> "kps:mvseq" (one request at a time)
                        -> mvchat     -> "kps:mvchat" -> one thread per chat request
 kps:mvseq   make_ref, login, scripts; submits pages --+
 HTTP:mv_val one per page, follows redirects ----------+--> getconn_ (Chan) --> connection
 HTTP:load   one per page, reads api.php answers       |                        thread --> game
 proxy:process one per page, process-page.lua          |
 delayedStoreSettings one per settings change ---------+
 shared: jsonStatusPageMVarRef_, latestRawJson_, latestValidJson_,
         stateData_, lastStored*_, cachedActionbar_, luaInstances_
```

### Components

**Page pipeline and status cache** (`Http.hs`, `Api.hs`, `Handlers.hs`,
`make_ref`/`handle_login` in `Server.hs`). State: the reference to the current
status `MVar`, `latestRawJson_`, `latestValidJson_`, one `MVar` per page.
Operations: issue a page, fetch the status behind it, follow a redirect, read
the status, bring a session up to date, reset the cache at a login, process a
page. Hard: an issue is several unsynchronised steps and several threads issue;
readers keep the `MVar` they found; a fetch can fail; `putMVar` blocks on a full
`MVar`, `readMVar` on an empty one. Correct means: the log pairs a page with the
statuses just before and after it, a reader sees every page already sent, and
no reader waits for an `MVar` nobody fills.

**Connection thread** (`HttpLowlevel.hs`, `fast_mkconnthing`,
`slow_mkconnthing`). State: the request channel, the connection kept with the
time of its last use. Operations: take, reuse/replace/open, send, read, answer,
forget. Hard: a connection can go down at any point, an unread answer stays in
it. Correct means: each request is answered exactly once, in order, by its own
answer, and is executed at most once by the server.

**Settings store** (`State.hs`, `set_state` in `LuaLibrary.hs`). State: the
settings maps labelled with character, ascension, day and session;
`lastStoredState_`, `lastStoredTime_`, `storedStateId_`, `cachedActionbar_`.
Operations: set and unset, the delayed store, the store at logout, load at the
first request, at a login and when the day changes. Hard: read-modify-write
without a lock, debouncing by wall-clock time, a store that fails halfway, a
store that overlaps another, a change of day under way, a load that fails after
it has relabelled the state. Correct means: every change reaches the server, and
the server's data is never replaced by less than what was loaded.

**Front end** (`Server.hs`: accept loop, `get_sessionconn`,
`setupHandlerChannels`). State: the session map, two handler channels.
Correct means: one session per cookie, one answer per accepted connection,
requests of a browser served in order.

**Log writer** (`Logging.hs`, `Setup.hs`, `create_db` in `Util.hs`). State: two
log channels, a cache of open databases. Correct means: entries are written in
the order their pages were issued, and a failing action does not stop the
writer.

**Log compression** (`LogParser.hs`). State: files. Correct means: a log is
removed only when its compressed copy is complete, at any crash point.

**Data files** (`update_data_files` in `HardcodedGameStuff.hs`,
`scripts/kolproxy-internal/update-datafiles.lua`). State: the source files
downloaded, the data files made of them, and two small files with the times of
the last update and the last attempt. Operations: decide whether an update is
due, download, parse, record. Hard: two threads may decide at once under the
run-time's file locks, failures are passed over, files are written in place, and
the program may stop anywhere. Correct means: what is on record as updated is
whole, what is damaged is replaced in the end, the servers are asked rarely.

**File writes** (`best_effort_atomic_file_write`, `PlatformLowlevel.hs`; the
read-modify-write of `set_chat_state`). Correct means: no update is lost.

**HTTP stream reading** (`HttpLowlevel.hs` lines 71-185): `connGetLine`,
`connGetBlock`, `connGetContents`, `switchResponse`. State: the receive buffer.
Correct means: the blocks the network happens to deliver make no difference, and
an answer is read to its last byte and no further.

**Lua instances** (`Lua.hs`: `get_lua_instance_for_code`, `run_lua_code`).
State: the instance table under an `MVar`, one `MVar` per interpreter. Correct
means: one interpreter is never entered twice at once and no two threads wait
for each other's.

**SQLite write-ahead log** (`src/Database/sqlite3.c`, as `create_db` in
`Util.hs` sets a database up). State: the database file, the log, the wal-index,
the pager's cache. Operations: read, modify, spill, commit, roll back,
checkpoint, recover. Hard: power may be lost between any two writes, a write or
sync may fail, a log is begun anew in place of the old one. Correct means: a
commit that was reported is found after any stop, whole, and one under way whole
or not at all; no stale page is read.

Not part of the models: the Lua library's conversions (`LuaLibrary.hs`), which
have no state of their own; the game scripts (`src/scripts`), which describe the
game; vendored Lua and the rest of SQLite (`src/Scripting`, `src/Database`);
static browser files (`src/fileserver`).

## Modules

| module | what it is |
|---|---|
| `StatusPipeline` | the page pipeline and the status cache of one session |
| `StatusPipeline_proofs` | theorems about it |
| `MCStatusPipeline` | instances for TLC |
| `ConnService` | what a connection thread promises (abstract) |
| `ConnChan` | the connection thread, both modes, with the network |
| `HttpStream` | the reading of one answer from the bytes of a connection |
| `HttpStream_proofs` | theorems about it |
| `ConnChan_proofs` | theorems about `ConnChan`, among them the refinement of `ConnService` |
| `MCConnChan` | instances of `ConnChan` and of `HttpStream` for TLC |
| `SettingsStore` | the settings of one session: scripts, delayed stores, loads |
| `SettingsStore_proofs` | theorems about it |
| `MCSettingsStore` | instances for TLC |
| `LogStore` | the log of one ascension: writing, compressing, showing |
| `LogStore_proofs` | theorems about it |
| `MCLogStore` | instances for TLC |
| `FrontEnd` | browsers' connections, sessions and handler channels |
| `FrontEnd_proofs` | theorems about it |
| `MCFrontEnd` | instances for TLC |
| `DurableStore` | what a database promises to the program (abstract) |
| `SqliteWal` | SQLite's write-ahead log and the pager above it |
| `SqliteWal_proofs` | theorems about it, among them the refinement of `DurableStore` |
| `MCSqliteWal` | instances for TLC |
| `DataFiles` | the updates of the data files |
| `LuaInstances` | the interpreters that load them, beside the updates |
| `LuaInstances_proofs` | theorems about `DataFiles`, and on top of them about `LuaInstances` |
| `MCLuaInstances` | instances of both for TLC |

The modules meet at promises. `ConnChan` implements `ConnService`, one answer
for each request in channel order, and that is what `StatusPipeline` (tickets)
and `SettingsStore` (a request to the game is one step) assume of the
connection; the steps in which `ConnChan` reads a head or a body, or fails to,
are what `HttpStream` does with the bytes. `StatusPipeline` shows that a request's
and a chat's handler ends, when its script does, which `FrontEnd` assumes;
`LuaInstances` shows that a script comes to run. A page logged by
`StatusPipeline` is an entry of `LogStore`, and the database `LogStore` inserts
it into keeps the promise `DurableStore`, which `SqliteWal` implements.
`LuaInstances` EXTENDS `DataFiles`: the data files are what the two share.

A definition with a name that ends in `_Faulty` is not part of a model. It is
the definition that follows it with a plausible mistake in it; it documents what
the properties notice and is used to try them.

### StatusPipeline and the code

Time is the place in the connection channel: requests are executed by the game
in the order they were put on it, so a page with ticket *n* is seen by a status
with a ticket above *n* and by no other. A status is represented by the ticket
of its `api.php` request.

| model | code |
|---|---|
| `IssueRef`, `IssuePage`, `IssueApi` | `privateKolRequest_pipelining`, `Http.hs` 126-159: the write of the reference, `writeChan` of the page, `writeChan` of `api.php` and the two forks. Three steps, because another thread can run between them |
| `ServePage`, `ServeApi` | the connection thread and the game: in channel order, an answer, a redirect or a failure |
| `LoadRaw`, `LoadValid`, `LoadPut` | `load_api_status_to_mv`, `Http.hs` 90-118: three writes |
| `FinishPage`, `FollowRedirect`, `FinishRedirect` | the thread `HTTP:mv_val`, 158-213 |
| `TakeRequest` .. `MakeRefDone` | `kps:mvseq` and `make_ref`, `Server.hs` 234-251 |
| `ResetRef`, `ResetRaw`, `ResetValid`, `LoginRefused` | `handle_login`, 270-304 |
| `SubmitPage`, `AwaitPage`, `PageAwaited` | `doProcessPage` and the function `async_submit_page` gives a script |
| `ProcessStart` .. `ProcessDone` | the thread `proxy:process` |
| `SetState`, `StoreWake`, `StoreStatus`, `StoreDone` | what a settings store does to the cache: it reads the status and posts the action bar, which invalidates the cache from a third kind of thread |
| `ChatRead`, `ChatDone` | a chat request's script reading the status |

`MVar`s are named by the page (or the login, or the new session) that created
them. `mv[m]` is `Empty`, `Failed` or a status.

Two history variables are needed, because without them the properties are
false of the code:

- `overlap` becomes true when an issue begins while another is between its
  write of the reference and its `api.php` request. Then the reference can be
  replaced in one order and the requests sent in the other, and a reader gets a
  status that is older than a page already sent.
- `raced` becomes true when a thread left from an earlier request gets between
  `handle_login`'s three writes and `make_ref`'s reads of them. Then two threads
  can fill the same `MVar`, and the second, which may be the thread that serves
  every request, blocks in `putMVar`; or none fills it. GHC's detection of
  blocked threads does not help, since the session map keeps the `MVar`
  reachable.

Both are hazards the code has. The properties state what it guarantees up to
them, and the histories are set by nothing else.

### ConnChan and the code

`TakeRequest` is lines 436-452 of `HttpLowlevel.hs` (the choice of reuse,
`oldkill` or a new connection), `OpenConn`, `OpenFails` and `OpenAgain`
`ensure_connection_`, which tries for ever (402-411), `Send` the
`connPut`/`connFlush` of the request, `ReadHead`, `ReadBody` and `ReadFails` the
reading of the answer, `SlowSend` and `SlowAnswer` the other mode. A connection
holds parts of answers that have not been read (`wire`). `Break` takes a
connection down at any point, with any part of what was under way lost; what
had reached the server may still be executed. `ServerExecute`, `Break` and
`Tick` are outside the code. `ConnService` states the promise without
connections: a queue whose head is answered, and executed at most once. A
request that failed may be executed later, or never; that is the most a client
of HTTP can promise without repeating requests, and the code never repeats one.

`ReadContinue` and `ServerContinue`: the game server may say `100 Continue`
before it executes a request with a body. `switchResponse` then puts the body,
which has been put with the request already (`again`). The second copy lies in
front of the next request; the server refuses it and hangs up (`ServerRefuses`),
and the next request is answered with that refusal and not executed, which
`ConnService` calls an error. `OwnAnswer` names this case. A `417` answer, to
which the code repeats the request, is not modelled: the requests carry no
`Expect` header.

In `StatusPipeline` a failed page has a ticket like any other. By `ConnService`
it may have been executed at its place, later or never, so a property about a
failed page is about its place in the channel only.

### HttpStream and the code

| model | code |
|---|---|
| `Receive`, `MeetEnd` | `recvData`, which gives the next block, cut anywhere; at the end an empty one, then it throws |
| `KeepPart`, `TakeLine` | `connGetLine` |
| `TakeBlock` | `connGetBlock` |
| `TakeContents` | `connGetContents` |
| `AfterLine`, `AfterHead` | `getResponseHead`, `read_till_empty`, `switchResponse` |

The server's answers have no body, a length, chunks, no length, or an encoding
the code does not know, and the connection may end after any byte. A byte is `CR`,
`LF`, `Field` (what a line of the head has before its end), the size of a chunk, which
is a number and one byte, or a byte of the body, which may look like any of these.
An answer (`Responses`) is its form, the number of lines of its head, its body, and
for each chunk the place in the body where it ends (`ChunkEnds`); `Bytes` is what the
server makes of it. It is said byte by byte, `ByteAt(r, k)`, with the lengths of what
lies before (`HeadLen`, `Before`), and not as a concatenation, so that it can be
reasoned about without induction. The code takes a chunk size it cannot read for the
last one (`SizeIn`); a server that writes such sizes is not modelled.

### SettingsStore and the code

| model | code |
|---|---|
| `MakeRef`, `Login`, `InitState`, `FetchBar`, `LoadRead`, `LoadWrite` | `ensureLoadedState` and `loadSettingsFromServer`, `State.hs` 253-294, as `make_ref` calls them, and `handle_login`, which loads whatever the label is (`Server.hs` 296): the label first, then the download, then the merge of kept and day settings |
| `SetRead`, `SetWrite` | `set_state` of a script, `setState`/`unsetState` and `registerUpdatedState`, 61-98: the whole state is read, changed and written back, then a thread is forked |
| `Wake` | the delayed thread's look at `lastStoredTime_` |
| `Begin` .. `KeepBar` | `storeSettings` and `writeServerSettings`, 217-251, one step for each access to something shared |
| `FailStore` | an exception in any of them; a post that fails may have been executed |
| `PostButtons`, `ForgetBar` | a page that changes the action bar, and `doProcessPage`'s reset of `cachedActionbar_` |
| `Logout` | the store at `logout.php`, on the sequence thread |
| `NewDay`, `Tick` | outside: the game's day, the clock |

`draft[t]` is what thread `t` has read and is going to write. Time is a
countdown for each delayed thread and `age`, the time since a store began,
which is kept exactly up to `Delay` and not beyond, because the code compares
it with ten seconds only. A setting of the day remembers the day on which it was
set; `Plain` takes that away again and gives what the code can compare.

`odd` collects what makes the properties false of the code, so that each is
stated up to exactly that:

- `overwritten`: a thread wrote the whole state while another had read it and
  not yet written it back (there is no lock), so that one change is lost.
- `crossed`: two stores, or a store and a load, were under way at once, or a
  store posted other settings than it had compared.
- `failed`: a step of a load or a store failed.
- `unloaded`, `mislabelled`: a store read the state between a load's new label
  and its settings; or put the day of the status on settings of another day; or
  a thread that had read the settings of an earlier day wrote them over those of a
  later one, which takes two page threads and a load between them: the settings of
  the new day are gone, under a label that no load looks at again.
- `relabelled`: `lastStoredState_` has no label, so a new day's settings that
  equal the ones stored for another day are taken to be stored.
- `buttonsRaced`: the buttons were changed while a store held old ones.

Left out: a bar that is not JSON, the settings of a fight and of the session
(never stored), `store_state_in_actionbar` off, and requests whose status cannot
be read, which run without settings. The browser's own post of the action bar is
taken to keep the settings it was served. `set_state`'s comparison with the old
value is one step with the read that follows it, and `Compare`'s read of
`lastStored*` one with its write; another thread can get between either.

### LogStore and the code

| model | code |
|---|---|
| `ChooseLog`, `SendEntry`, `OpenFails` | `dologaction` (`Server.hs` 55-58), `dblogstuff` (`Setup.hs` 113-126), `create_db` (`Util.hs`) |
| `WriteEntry`, `WriterDies` | the thread of one database, `print_log_msg` (`Logging.hs` 34-53) |
| `Login` .. `RemoveLog` | `compressLogs` and `compressFile`, `LogParser.hs` 96-123, one step for each file it opens |
| `PickFile` .. `ShowFails` | `showLogs`, `LogParser.hs` 53-81 |
| `Checkpoint` | SQLite: the database is in WAL mode and never closed, so entries wait in the file `-wal` until an insertion happens to move them |
| `Ascend`, `Crash` | outside: the character's next life; a stop of the program at any step, with what it had written so far |

GHC lets a file be open either once for writing or for reading only, and throws
otherwise; the guards on `Writing` and `Reading` are that. A file that is
written to while it is read counts as its older content, which compares unequal
in the same way. The checks at the start of `compressFile` are one step. The
order of entries is not modelled, because the code does not promise one (each
page is logged by a thread of its own). The chat log has no compression and is
left out.

`odd` is `late` when an entry was written after its log was compressed, by a
page that chose the log before the ascension, and `crossed` when a second
compression emptied a finished file. Either loses entries.

### FrontEnd and the code

| model | code |
|---|---|
| `Connect`, `BrowserSends`, `BrowserCloses` | browsers |
| `AcceptConn`, `ReceiveHTTP` | the loop of `runProxyServer` and `handleConnection`: one thread accepts, reads the whole request, and only then accepts again |
| `AnswerTest`, `UseSlowHttp`, `Shutdown` | the requests that thread executes itself |
| `GetSession`, `QueueRequest` | `get_sessionconn`, and the `writeChan` to a handler channel |
| `SeqTake`, `SeqRespond`, `ChatTake`, `ChatRespond` | `setupHandlerChannels` and `try_handling` |

What a handler does is in the other modules. A browser that leaves after it has
sent its request is served like the others: a failing write is caught.
`session[c]` numbers the sessions in the order they were made, and `era`
counts how often the session map had been emptied before `c` was given one.

### SqliteWal and the code

A page's content is the number of the transaction that wrote it. `file` is what
the process reads, `disk` what was last synced; a loss of power leaves each slot
of the log and each page of the database that differ as it was, as it is, or
torn. A frame's checksum is the sequence of what went into it since the header, so
that checksums agree only when what they sum does.

| model | code (`sqlite3.c`) |
|---|---|
| `Recover` | `walIndexReadHdr`, `walIndexRecover`: frames up to the first that is not valid, of these those up to the last commit |
| `BeginRead`, `ReadPage`, `EndRead` | `walTryBeginRead`, `sqlite3PagerAcquire`, the wal hook that starts a checkpoint |
| `BeginWrite`, `Modify`, `Rollback` | `sqlite3WalBeginWriteTransaction`, `pager_write`, `pagerRollbackWal` with `sqlite3WalUndo` |
| `Spill`, `Commit`, `CommitNothing` | `pagerStress`, `sqlite3PagerCommitPhaseOne` |
| `StartFrames` .. `Publish` | `sqlite3WalFrames`: `walRestartLog`, header, frames, sync, wal-index |
| `WriteFails` | an error of a write or a sync |
| `StartCheckpoint` .. `CheckpointFails` | `walCheckpoint` |
| `Kill`, `PowerLoss` | outside |

The database's connection is the only one (`locking_mode = EXCLUSIVE`), so locks
and read marks do nothing, the wal-index is in memory with one copy of its
header, and a checkpoint always copies all of the log. Salts never collide. Left
out: savepoints, the frames that fill a sector, a database that changes its size,
`WalClose` (the program never closes a database).

`broken` says which of two defects has occurred, and nothing after it is
explored: `overtaken` (finding 3) and `spilled`. `overtaken` is a loss of power
that keeps the header of the last sync though a new one has been written since, and
some frame of the log as it is and not as it was. It counts frames written under
any header since that sync, not only under the newest: when the first commit to a
log begun anew fails, the log is begun anew once more, and the frames of the failed
commit have taken the places of old ones too. `spilled`: if every page of a
transaction has gone to the log before the commit, the list of dirty pages is
empty, nothing is written, no frame gets the commit mark, and the commit is
reported. It needs a transaction whose first page is not modified any more when
the cache is full, which the inserts of this program do not make.

### DataFiles, LuaInstances and the code

| model | code |
|---|---|
| `PageForks` | the first page after ten minutes, `Server.hs` 253-258 |
| `CheckUpdate` .. `Mark` | the decision, `HardcodedGameStuff.hs` 16-53: `doesFileExist`, `readFile`, `writeFile` of the two small files, with GHC's file locks |
| `Download`, `Rename`, `Rewrite` | `download_data_files`, which goes over the list of downloads, and `best_effort_atomic_file_write` with its fallback |
| `CanMake`, `OpenData`, `SkipData`, `WriteData`, `ParserThrows` | `process` in `update-datafiles.lua`, called for each data file of another list; it writes in place and by C's `fopen`, without locks |
| `OpenFinish` .. `RecordFailed` | the result in `last_update`, and the handler's own write |
| `Lookup`, `SetUp`, `LoadFails` | `get_lua_instance_for_code` and `setup_lua_instance`, with the table's `MVar` taken |
| `LoadFile`, `ListFiles` | `load_datafile` and `reset_datafile_cache` of `datafile.lua`: some data files first (`Early`), then every other one that is there, then those it cannot do without either (`Late`) |
| `Enter`, `ScriptEnds`, `SubmitPage`, `PageDone` | `run_lua_code` with the interpreter's `MVar`; a browser's script waits for the page's script, which has another interpreter |
| `ReadChatState`, `WriteChatState` | `set_chat_state` |
| `ClearCache` | `/kolproxy-clear-lua-script-cache` |
| `Restart`, `LuaRestart`, `Tick` | a stop and start of the program; the clock |

Times are ages, counted no further than the code compares them. The clock does
not move while a thread looks at the small files. A file of another version of
kolproxy counts as unreadable. Two threads that have one data file open for
writing may leave a mixture.

What is downloaded and what is made are two lists. A data file is made of some
source files (`MadeOf`), and some are looked up in others that were made before in
the same run (`Uses`, `processed`: `processed_datafiles`). A source file may also be one
that is not downloaded (`Kept`): `choice-spoilers` is made of `68727.user.js`, whose
download is commented out (`HardcodedGameStuff.hs` 76-77), and `consumables` of
`consumable-advgain.json`, which nothing downloads. They are there only if they were
put there once, which `Init` leaves open; on a clean installation both data files
are passed over at every update, and the update is recorded as done. So `UpdatedWhole`
and `Repaired` are about the files whose source files are there or will be (`Needs`);
`choice-spoilers` and `consumables` are then outside both, and set-up does without
them. The message at the end of an update, "expected: 0 errors"
(`update-datafiles.lua` 1374), is not what such an installation gets.

A source file that is an error page or was cut short is taken to fail its parser or
its verification. The order in which set-up loads the files of one list is left open.

Histories: `raced`, two threads found an update due at the same time; `overlap`,
one began while another was at work; `cut`, the data files whose last write failed;
`cleared`, the script cache was cleared while a chat was in an interpreter or had
been given one, so that its script may still run in an interpreter that is not in
the table any more.

## Runs

| run | question | instance |
|---|---|---|
| `status_logins` | can a login's reset of the cache leave an `MVar` unfilled or filled twice, and do readers still see their pages, with a store on a second thread | one page, one store, one login, two requests, one failure |
| `status_live` | which statuses is a page logged and processed with; is every request and every chat request answered and every page processed | one page, a redirect, one login, one chat request, two requests, one failure |
| `conn_service` | does the connection thread implement `ConnService`, and answer every request; is an answer read whole however it is cut | three requests, one with a body, three ticks of the clock; or one answer, with one line in its head and a body of up to three bytes in up to three chunks and the empty one |
| `settings_stores` | does debouncing skip a change, does the game end up with the settings and with the browser's buttons | one setting, one page thread, two delayed stores, a logout, one change of the buttons, one failure |
| `settings_days` | a new day: what is loaded, kept and forgotten; is every change read by a store | a kept setting and one of the day, two days, three requests or logins, one delayed store, one failure |
| `settings_available` | the assertion in `set_state` (finding 1) | one delayed store, two requests, one failure |
| `log_kept` | is an entry ever in no file, is the browser shown part of a log, is a log compressed in the end | three pages, two logins, one failure, one stop |
| `log_whole` | the message "compression ok, removing file" (finding 2) | one page, one login, no failure or stop |
| `front_end` | order, sessions and answers at the front | three connections, two cookies |
| `sqlite_crash` | does the write-ahead log keep the promise `DurableStore` | two pages, three transactions, a log of three frames, a checkpoint from two frames on, one failure or kill, one loss of power |
| `sqlite_order` | the comment on leftover frames (finding 3) | the same without failures |
| `data_files` | are the data files whole, replaced and rarely asked for; do scripts come to run, and is what chats store kept | three data files, one made of a source file that is not downloaded and one that needs another, two updating threads, one failure, one stop; or one updating thread, a browser's request with its page, two chats, a clearing of the cache |

`TypeOK` is a conjunct of `OwnAnswer`, `LogKept`, `SnapshotRead` and
`OneSession`, so that each run states one type invariant; `RequestsAnswered` of
`FrontEnd` is about pages and chats. `status_logins` asks only what a store on a
second thread and a login can disturb, the cache itself; what a page is logged
with, and liveness, are asked in `status_live`. `log_kept`, `front_end`,
`conn_service`, `data_files` and `status_live` check liveness, so they have no
symmetry.

Bounds. A hazard of the status cache needs two issues, or an issue and a reset,
and a reader; two pages with a redirect give three issuing threads, a store a
fourth, and the login a reset with threads of an earlier request still running.
One failure is enough where a second meets no code the first did not. For a
connection, a left-over answer needs one request to leave it and one to be
answered with it, and a third to be queued behind; `StaleAfter = 1` with three
ticks lets a connection be young, refreshed and old. For the settings, a lost
change needs one store that begins and one whose time is up within `Delay` of
it; `Delay = 2` lets the second be forked in between. The logout is a third
store. Two days are enough, since the code compares days for equality only; three
requests let a login or a new day reload what a request has set while its store
waits, and a third see it (the thread of a page is in `settings_stores`). For the log, two pages are on either side of a checkpoint and one comes late; two
logins are two compressions of the same file, and a stop and start would follow
a stop in any case. At the front, two requests can be out of order and a third
fall between, ahead of or behind them; with two cookies there are shared and
separate sessions. For an answer, a chunk that ends with a block, one that does not,
and a chunk behind another need three bytes. For the write-ahead log, frames that are
left over need a log that was checkpointed and begun anew, which is the third
transaction; two pages make a commit that can be cut in two, and a spill beside
one. For the data files, two downloads are the least with one replaced and one
not, and three data files have one made of a single download, one that needs another,
and one whose source is not downloaded. `MCLuaInstances` spends its bounds on failures of updates or on
scripts: a script meets the files only through `LoadFile`, `ListFiles` and `LoadFails`, and an
update is not disturbed by scripts at all.

`CHECK_DEADLOCK FALSE` is said where a login can be raced (`status_logins`,
`status_live`): there the sequence thread may really block, and `NoDoubleFill`
and `NoOrphan` say that nothing else blocks it. In the other runs the `Rest`
step marks the states in which there is nothing to do, so a deadlock would be a
thread that waits for nothing. It is also said in `sqlite_crash` and
`sqlite_order`, where nothing is left to do when the bounds are reached.

Fairness. Every step of a thread that is runnable is weakly fair, as the GHC
scheduler is round-robin. `StatusPipeline`'s `FinishRequest` is strongly fair: a
script that keeps reading the status or submitting pages is still a script that
ends. The connection thread answers each request or fails it, which
`conn_service` shows up to two things. The server answers what reaches it or the
connection goes down, since the code has no time limit on reading an answer: this is
assumed as fairness. And the game can be reached in the end: while it cannot, the
thread is in the loop of `ensure_connection_` (402-411) and answers nobody. That is in
the model, where an attempt may fail any number of times, and `Answered` says that
every request is answered or the loop is come back to for ever. `StatusPipeline` and
`FrontEnd` assume what `ConnService` promises, so their liveness is that of a program
that can reach the game.
`FrontEnd` assumes the same of browsers, for the same reason: they send the
request or close the connection. There an ordinary request's script may not end,
and what is then still answered is stated; its liveness properties have the form
`<>[]` because the connections of an instance are finitely many. In
`SettingsStore` time passes and a change that was begun is written. In
`LogStore` the thread of a login runs. In `DataFiles` the updating threads run, time
passes, and the browser keeps asking for pages, since an update is only begun by
a page; in `LuaInstances` some thread goes on as long as one can. Otherwise
nothing is fair about what a browser or a script asks for, or about failures.

### Findings

1. `settings_available`: `set_state` fails with "Trying to set state ... before
   state is available" (`LuaLibrary.hs` 81) unless the state has been loaded. But
   a load writes the new label, with no settings, before the download that may
   fail (`State.hs` 276-277). After a failed download the next request finds the
   label it expects, takes the empty settings for loaded, and a script may set
   some; the store that follows replaces what the game had by those.
2. `log_whole`: a log is removed after "compression ok, removing file"
   (`LogParser.hs` 115) when the compressed file equals the database's file. The
   last entries of the ascension are not in that file but in `-wal`, and go with
   the database.
3. `sqlite_order`: "Checksums and counters attached to each frame are used to
   determine which frames within the WAL are valid and which are leftovers from
   prior checkpoints" (`sqlite3.c` 41728). When a log is begun anew, the new
   header is not synced before the frames that follow. If a power failure keeps
   some of those frames and the old header, what is left of the old log can be
   taken for a whole log, and pages go back behind commits that were reported and
   had been copied to the database.

Two observations without a run. The comment "Reuse connection if it is less than
2 minutes old" (`HttpLowlevel.hs` 447) is not what the code does: line 467 keeps
the time of the request just served, so a connection used at least every two
minutes is reused however old it is; that is sensible, an idle connection being the
one a server closes. And "Time to send the body" (137) is not: the body has been
sent (422), see `ReadContinue`.

### Hazards the histories name

The properties hold up to these. The models contain them; they are real and
rare:

- two threads issuing requests at once give a reader a status that is older than
  a page already sent (`overlap`), and a thread left from an earlier request can
  make a login's reset leave an `MVar` filled twice or not at all (`raced`);
- settings: one thread's write undoes another's; crossing stores post in the
  wrong order; a failed post is not repeated, because `lastStored*` is
  written before it; settings equal to another day's are not stored for the new
  day; a change made less than ten seconds before a reload is dropped;
- logs: an entry that arrives after the compression goes to a file nobody finds;
  two compressions and a stop lose the log; a `.bz2` cut short by a full disk
  is shown, as an error, instead of the log that is still there; a log's thread
  that has ended is not replaced;
- the connection: a body sent twice makes the server refuse the next request
  (`again`);
- data files: downloads and parsers that fail, and writes that fail (`cut`), are passed
  over and the update is recorded as done for a day; two threads that update at once may
  leave a mixture (`overlap`) and ask the servers twice (`raced`); a stop while a
  data file is written leaves scripts that cannot be loaded until the next
  attempt, two hours later;
- chats: once the script cache has been cleared with a chat at work, two chat
  interpreters may undo each other's settings (`cleared`);
- SQLite: a commit all of whose pages were spilled is not recorded (`spilled`).

Hazards that no property covers, because the code makes no promise about them or
they are a matter of values the models leave out: load threads are not ordered
among themselves, so an older answer may be written to `latestRawJson_` after a
newer one (`Http.hs` 114; `FreshRef` and the page's own `MVar` do not depend on it);
`lastStoredTime_` is wall-clock time and may be set back (`State.hs` 66); a
settings change less than ten seconds before a reload (`State.hs` 262); a
`.bz2` found different from the log is kept (`LogParser.hs` 113); a page logged
without state ends the log's thread (`Logging.hs` 38, `WriterDies`); entries are
not in the order of their pages (`Logging.hs` 93); a shutdown leaves accepted
requests unanswered (`Server.hs` 193).

## Proofs

Each `_proofs` module proves theorems about the `Spec` of its module for every
value of the constants that satisfies the module's named assumptions; a theorem is
about what a run checks on one instance. The assumptions say that things of
different kinds have different names (`IdsAreDistinct`, `NamesAreDistinct`,
`NoneIsNoSettings`, `NoneIsNoRequest`, `OutcomesAreNoRequests`, `ByteAssumption`), that
bounds and times are numbers, and little else: `Delay` is above 0 in `SettingsStore`,
`PageAge <= AttemptAge <= UpdateAge` in `DataFiles`, as ten minutes, two hours and
a day are. No theorem needs a bound, or that a set is finite, but for the pages of a
database in `SqliteWal`.

A proof module begins with the parts of its inductive invariant. Then comes, for
each part, one lemma that every step keeps it, with a step per action; a part may
use the parts before it. The theorems at the end are short.

### StatusPipeline_proofs

`TypeCorrect`, `Freshness` (`FreshRef`), `AfterPage` (`StatusAfterPage`),
`FilledOnce` (`NoDoubleFill`) from `IInv`, which is `Invariance`:

1. `TypeInv`, the types and the dependencies between a page's `step` and its
   other variables (a page has a ticket when it has been sent, and so on).
2. `OrderInv`: tickets are at most `tail`; a page's `api.php` request has a
   larger ticket than the page; `last` follows `child`.
3. `FreshInv`: without `overlap` at most one page is being issued and the
   reference is its `MVar`; otherwise the reference's fetch comes after every
   page sent. `FreshRef` follows.
4. `RedirectInv`: the page at the end of the redirects was issued after those
   before it.
5. `RaceInv`: without `raced`, a fetch fills the `MVar` of its own page or
   login and nothing else does, so an `MVar` is empty until its own fetch has
   put its result there, and what it then holds is that fetch's ticket.
   `NoDoubleFill` follows, and with 2 and 4 `StatusAfterPage`.

`BeforePage` (`StatusBeforePage`), `SeesOwnPage` (`ProcessSeesOwnPage`),
`Orphanless` (`NoOrphan`) and `DatabaseFound` (`LogHasDatabase`) need seven more
parts, about those who read a status (`ReadersInvariance`). The properties speak of
the `MVar` a reader holds, and what happens to it is the work of others, so the
parts say of each `MVar` that has been handed out (`Used`) which fetch may fill it,
when that was asked for (`Earlier`), and that it is under way (`LoadInv`).
`FilledByInv` holds even when a login is raced: whatever is in an `MVar` was put
there by a fetch meant for it, which is why `StatusBeforePage` needs no exception
for `raced`.

### ConnChan_proofs

`OwnAnswers` (`OwnAnswer`) and `ServiceKept` (`ImplementsService`), the refinement of
`ConnService`: `queue` is what is with the thread followed by the channel
(`Pending`), and a refusal read as an answer counts as an error (`Outcome`). Each
step of the thread, the server and the network is one step of `ConnService` or none.
The invariant (`Invariance`) has to say what lies unread in every connection there
has been:

- a connection that is not in use is down or has nothing more to say
  (`LeftInv`), and one kept for the next request is empty, but for the refusal
  of a second copy of a body (`QuietInv`);
- while an answer's head or body is read, what the connection holds are parts of
  that answer in order, behind them at most such a refusal (`HeadInv`, `BodyInv`),
  which takes a case for each place the request, the body and its second copy can
  be in;
- a request is executed at most once, after it was sent and before its answer is
  there (`ExecutedInv`, `AnswerInv`).

### HttpStream_proofs

`AnswersWhole` (`AnswerWhole`): however many lines the head has, whatever is in the body,
however it is divided into chunks, and wherever the network cuts the bytes and breaks.
The property speaks of the end, and of nothing being waited for in between; why it holds
is that the reader always knows as much of where it is in the answer as it needs.
The invariant (`Invariance`) says that there is such a place, `x` bytes from the
beginning:

- `Taken`: the part of a line that was kept, what is in the buffer and what is on its
  way are the bytes of the answer from `x` on, in order and with none missing, and they
  go to the end of the answer if all of it was sent; there is no `LF` in the part;
- `Place`: `x` is where what is being read begins. For a line of the head, a chunk's
  size, the line behind a chunk and the footers that is a place between lines; in a
  block the bytes that are still wanted end where the block does. What was read of
  the body is what the answer has of it before `x`.

The lemmas before it are about the bytes of an answer: where the chunks lie
(`ChunksInOrder`), which byte is at which place (`HeadBytes`, `PlainBytes`,
`ChunkBytes`), and where the first `LF` behind the beginning of a line is (`HeadLines`,
`ChunkLines`). The last is needed because a byte of the body may be an `LF`: a reader one
byte away from its place could find a line in a body. Each step of the reader then finds
its line or its block in the answer, with `LineTaken` for lines and `TakenOn` for
what is taken from the buffer, and is at the next place behind it.

### SettingsStore_proofs

1. `TypeInv`, and `TypeCorrect`: the types, and that a thread which is about to use
   `draft` or `buttons` has some.
2. `AgeInv`, for `NothingForgotten` (`NoChangeForgotten`): for a change that no
   store has read there is a store that is about to read, or a delayed thread *s*
   with `age + left[s] >= Delay`. When its time is up, `left[s] = 0`, so
   `age >= Delay` and it does not skip; when another store begins, which sets `age`
   to 0, that one is about to read. A delay shorter than the interval of the
   debouncing would break it, as would a look at the clock before the delay.
3. `ButtonsInv`, for `ButtonsSafe` (`ButtonsKept`): up to `buttonsRaced`, what the
   game has, what a store holds and what is cached are the buttons the browser
   posted last, the cache with the exception of the moment between the browser's
   post and `ForgetBar`.
4. `PhaseInv`, `LoneInv` and `DayInv`, for `DaysExpire` (`DaySettingsExpire`): up to
   what `odd` names, one store or load is under way at a time, and every copy of the
   settings (in memory, in the game, read by a thread, or about to be posted) has
   settings of its own day only.
5. `MapInv`, for `KeptStay` (`SettingsKept`): a setting the game has is in memory and
   in every copy, if it was not unset. This is an action property; the copy that a
   store posts is compared with what the game has at that moment.
6. `FreshInv`, `LastInv`, `LoadInv` and `ServedInv`, for `StoredAtRest`
   (`ServerHasSettings`). What the last store remembered is in the game or on its
   way (`LastInv`); what is being loaded is what the game has (`LoadInv`); and when
   every change has been read by a store, what is in memory is in the game or a
   store is busy with it (`ServedInv`). The hard case is a load: between its new
   label and its merge memory has nothing of the day, and a store that reads this
   must not be taken for one that has stored the settings. `AgeInv` is what ends the
   argument: at rest no change is unread.

The attempt to prove `ServerHasSettings` found a case that the runs are too small
for. With two page threads, one of them can write back what it read the day before,
during a load. The settings in memory then have the old label and are no more
loaded, although nothing of what `odd` named had happened except a lost write. The
history `mislabelled` names the case now.

### FrontEnd_proofs

`OneSessions` (`OneSession`), `InOrder` (`PagesInOrder`) and `SwitchTaken`
(`SwitchTakesEffect`). `PagesInOrder` holds because the sequence of accepted
ordinary requests is what was answered, what the handler is serving and what is in
its channel, in that order. `HandlerInv`, `OrderInv` and `AllInv` say this with
positions in the sequences (`Earlier`) rather than by an equation between
sequences, since the answers to chats and to the main thread's pages lie between
them. Sessions follow from `EraInv`: the sessions that are kept are those given out
since the map was last emptied.

### LogStore_proofs

`NothingLost` (`LogKept`) and `ShowsAll` (`ShownWhole`). `WriterInv` and `LookInv` are
what GHC's file locks give; `WholeInv` says that a thread which is past its writing
has a whole copy before it, and one about to remove the log a copy equal to the
log; `GoneInv`, `KeptInv` and `FiledInv` say where an entry is at each stage.
`ShownWhole` holds also when two threads compress the log, which `LogKept` does not:
a copy that is being written, or that a stop cut short, is shown as an error.

### LuaInstances_proofs

The first half is about `DataFiles` alone: `RecordTrue` (`UpdatedWhole`) and
`RarelyAsked` (`AsksRarely`), with the invariant `Invariance`. `MarkInv` is about the
small files' locks: one thread at most has `last_attempt` open for writing, and it
is unreadable as long; `AttemptInv` relates the time in it to when the servers were
really asked. While updates have not overlapped, one thread at most is at work, and
the record of the update before it has expired (`AloneInv`), so a file half written is
not on record as whole. Every data file the thread's parsers have passed is then made,
as their list says (`ListInv`), or lacks a source file (`WholeInv`). A file that was
not made because one it needs was not made lacks what that one lacks (`CannotMake`):
`Uses` is closed, so that this takes one step and no induction.

The second half is about `LuaSpec`. `UpdatesImplemented` says that it implements `Spec` of
`DataFiles`: a step of a script is none of an update. `ReadyScripts` (`ScriptsReady`)
and `ChatsKept` (`ChatStateKept`) follow from `LuaInvariance`. `SetupInv` has the table's
lock: an interpreter is set up only where there is none. `ReadyInv` says of each place
of set-up which files have been loaded, and so were there; that they still are when
a script runs needs `FilesStay`, since the updates write the files in place and never
remove one. `ShareInv` has the threads in the table's interpreter; when the cache is
cleared, the page's thread is at rest, because its browser's thread, which does the
clearing, would be waiting for it (`PageInv`). With `RunInv`, one thread at a time runs in
the chats' interpreter, and a chat about to write has read what is in the file
(`SaveInv`). `LuaTypeCorrect` has the types.

### SqliteWal_proofs

`ReadsSnapshot` (`SnapshotRead`) and `Durable` (`ImplementsStore`), the refinement of
`DurableStore`. The frame with the commit mark is the store's `Write`, the report of
the commit its `Report`, a start its `Restart`, and other writes to the files and a
loss of power its `Retract`, or none of its steps.

The lemmas at the beginning are about logs: the chain of checksums. A frame's
checksum repeats what was summed before it, so two valid frames with the same
checksum follow the same frames (`SameChain`), and no frame left from an earlier
transaction is valid behind one of a later (`Followed`). What recursion or induction
over the log would say is got from a least counterexample (`Least`), so that nothing
needs induction over data.

The invariant (`Invariance`) has the types and, until a defect occurs:

1. `FreshInv`, `ChainInv`: the transaction under way has its own frames behind the
   index's and before the end of the connection's chain, nowhere else, and none
   with a commit mark until the last one.
2. `IndexInv`, `HeaderInv`: what the wal-index covers of the log makes, over the
   database file, what the program was told; a log that has been copied wholly is
   not needed.
3. `ModsInv`, `CacheInv`: a page the transaction has changed is dirty and in the
   cache, or going to the log, or in it. `SnapshotRead` follows from 2 and 3.
4. `GuaranteedInv`: this is the part about losses of power. The first `g` frames of the
   log are on the disk, every page the disk does not have right is in one of them, and
   whichever of the places behind them a loss of power takes back or tears, a valid
   commit found there makes what was told of or what is pending. `g` is 0 when a log is begun
   anew, stays where it is while frames are written and goes to the end of the log
   when a commit is reported.
5. `CopyInv`, `SyncedInv`: while pages are copied, the log they come from is on the
   disk; so is a commit when it is reported.
6. `OldHeaderInv`: if the disk still has the header before the newest one, a start that
   found it with the frames it knew would find a good content. A loss of power that
   keeps both is harmless; `overtaken` is the other case.

The attempt to prove 4 and 6 found that `overtaken` counted only the frames under the
newest header, see above; TLC finds that case with four transactions and a log of two
frames.

### Only model-checked

Every invariant and every action property of the runs that pass is proved, and so are
the refinements of `ConnService`, `DurableStore` and `DataFiles`. What is left:

- Liveness, which is out of the prover's reach: `RequestsAnswered`, `ChatsAnswered`,
  `PagesProcessed`, `Answered`, `ReadingEnds`, `ChangesRead`, `LogCompressed`,
  `Repaired`, `RequestsEnd`.
- `SetsAvailableState`, `CompressedWhole` and `LeftoversIgnored`, which are violated.

## Not modelled, and why

- The body of the login request (`internalKolHttpsRequest`): a sequential https
  request on a connection of its own; `StatusPipeline` models what follows it.
- `TLS`: `recvData` at the end of the stream gives an empty block, then throws;
  both are an error to `ConnChan`.
- In slow mode an unparsable `KOLPROXY_USE_PROXY_SERVER` makes every request
  hang; the model takes the setting to be valid.
- An asynchronous exception (stack or heap overflow) in a thread.
- The chat log: one database and one thread of its own, neither compressed nor
  removed, so that none of the hazards of `LogStore` arises.
- The bot script's interpreter, which one thread uses by itself.
- Vendored C. The repository's C files are SQLite (123 thousand lines) and the Lua
  interpreter (16 thousand). Of SQLite the write-ahead log and the part of the
  pager above it are modelled, because the promise that log entries survive
  rests on them; its parser, virtual machine and b-tree, and all of Lua, run on
  one thread at a time, keep no state across a stop and are tested by their own
  projects. The share of the C lines that is modelled is therefore small by
  choice. The program itself is the 4 thousand lines of Haskell, and most of
  what changes state in them is modelled.

## Plan

Done: all modules listed above, and the theorems listed under Proofs. Still to
come: `StatusPipeline`'s and `SettingsStore`'s instances with a second page thread,
when the runs' time allows. The theorems about them hold for any number.

Runs are kept few: a new module's questions go in one run where one instance can
answer them, and a finished module's runs are merged where that costs little.
