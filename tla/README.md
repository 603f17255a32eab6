# OpenRVDAS: models, checks and proofs

OpenRVDAS keeps a ship's data loggers running. A *logger manager* runs one child process per
logger, each logger reads records from devices and networks and writes them to files,
networks and databases, and a *cached data server* keeps the recent records for web pages
and other loggers. This directory holds TLA+ models of the parts of that program in which
threads, processes and connections meet, the TLC runs that check them on small instances,
and proofs, checked by TLAPS, of what the supervisor, the logger manager, the record cache,
the connection, the listener, the cached data writer, the time-outs, the WebSocket writer,
the two database APIs, the web console and the pages of widgets guarantee for every
instance.

Paths below are relative to `src/`; `file:line` is a line of the commit that is modelled.

1. Inventory
2. Modules
3. Runs, bounds and fairness
4. Proofs
5. Where the code disagrees with its documentation, or with itself
6. What is not modelled
7. Plan

## 1. Inventory

| Part | State it keeps | Operations | What is hard about it |
|---|---|---|---|
| Logger runner, `server/logger_runner.py` | one child process, `failed`, `quit_flag` | `start`, `quit`, `is_alive`, `is_failed`, `is_runnable` | a fork that raises, a child that survives SIGKILL |
| Logger supervisor, `server/logger_supervisor.py` | configuration and runner of each logger, time and count of its restarts, `quit_flag`; one lock | `run`, `_check_loggers`, `update_configs`, `quit` | three operations on one map by different threads, exceptions in the middle of them, a flag read without the lock, the counting of crashes |
| In-memory API, `server/in_memory_server_api.py` | the cruise definition, each logger's configuration name, callbacks, messages | `load_configuration`, `set_active_mode`, `set_active_logger_config`, `delete_configuration`, `get_*`, `signal_*` | no lock: readers see the attributes of a definition change one after the other |
| Logger manager, `server/logger_manager.py`, with the console, `server/server_api_command_line.py` | `quit_flag`, `config_lock`, the definition last announced | the poller, the definition sender, the status sender, callbacks, the command loop | callbacks in the console's thread against the two loops; two locks; threads that end of an exception |
| Record cache, `RecordCache` in `server/cached_data_server.py` | a list of (timestamp, value) pairs and a lock per field; a file per field | `cache_record`, `cleanup`, `save_to_disk`, `load_from_disk` | locks made on demand, clean-up and saving against caching, crashes in the middle of a save |
| Server connections, `WebSocketConnection` in the same file, and `logger/readers/cached_data_reader.py` | what each client subscribed to, a timestamp per field up to which it has been served | `subscribe`, `ready`, `publish`, `fields`, `describe`, `status` | records, clean-up and lost connections between any two messages; where back data starts |
| CachedDataWriter, `logger/writers/cached_data_writer.py` | a bounded queue, a connection | `write`, the sending loop | a queue used from two threads, records under way when a connection breaks |
| ComposedReader, `logger/readers/composed_reader.py` | a thread and an end-of-file flag per reader, a queue, a lock, two events | `read`, `_run_reader` | threads that time out and are started again, events set and cleared on both sides, readers that raise |
| ComposedWriter, `logger/writers/composed_writer.py` | a thread and an exception per writer | `write`, `_run_writer` | threads that cannot be started, writers that raise |
| Listener, `logger/listener/listener.py` | `quit_signalled`, `last_read` | `run`, `quit` | ends at end of file, at an exception or at `quit()` |
| TimeoutReader, `logger/readers/timeout_reader.py` | a thread, `keep_reading`, `timed_out`, `last_record` | `read`, `quit`, the thread | the time-out races with the record that ends it, one flag is used for two things |
| TimeoutWriter, `logger/writers/timeout_writer.py` | a thread, `timed_out`, `last_record`, a lock | `write`, `quit`, the thread | the clock is read before the lock is taken; a client writer that raises, in the thread or in `write()` |
| WebsocketWriter, `logger/writers/websocket_writer.py` | a queue, a task and an id per client, a lock | `write`, `_put_and_trim`, the handler, the sending task | two threads and many tasks, ids used again, clients that are slow or gone |
| Web console, `django_gui/static/django_gui/index.html.js`, `websocket.js`, `stderr_log_utils.js` | the loggers shown, the mode, the times of what was shown last, a timer | `process_data_message`, subscriptions, time-outs | fields that come in any order, a list of loggers that changes the subscription, connections that are lost |
| Widgets, `display/js/widgets/*.js` | the points, markers and texts shown | `process_message`, `subscriptions` | several fields joined in one widget, points that age, a second subscription after a break |
| Django API, `django_gui/django_server_api.py`, `models.py` | the rows of the definition, a flag for each logger's current one, a time of update; a cache of both in every process | those of the API | processes that change rows one by one, caches stamped with times, errors that are retried, a load in a transaction |
| SQLite API, `server/sqlite_server_api.py` | one row with the whole definition, a time of update; a copy in every process | those of the API | every process saves its whole copy; it may have been replaced meanwhile |
| Other readers and writers, transforms, parsers, utilities | a device, a file or a connection | `read`, `write`, `transform` | sequential; what they do is text and numbers |

How they interact. The console changes the API. The API calls back into the logger manager,
which reads the desired configurations from the API and passes them to
`LoggerSupervisor.update_configs`; a poller does the same every interval, so that changes
made by other processes are noticed too. The supervisor starts and stops `LoggerRunner`s;
each runs a `Listener` in a child process, and the listener reads with a `ComposedReader`
and writes with a `ComposedWriter`. A logger's `CachedDataWriter` and the manager's own
messages (definition, mode, status, stderr) go to the cached data server as `publish`
requests; the web console, pages of widgets and `CachedDataReader`s subscribe to it. In
place of the in-memory API the manager may be given one over a database, which the workers
of the web server and command-line clients change.

What makes each part correct: the supervisor runs exactly what it was last asked to run,
restarts what dies a bounded number of times, orphans no child and leaves none running at
the end; the manager keeps the supervisor in step with the API; the cache keeps the latest
records, loses none that is young, and finds them again after a restart; a connection passes
over nothing its client asked for and repeats nothing; a writer's records arrive in order
and what is lost is bounded; a time-out is told once, and truly; a page shows the latest and
keeps asking for more; a process does not go on believing what another has changed in the
database; the composed reader hands on every record of every reader, in each reader's order,
and ends when all have ended.

`PROJECT.json` lists, under `hazards`, each place where one of these could go wrong without
a test noticing, with the properties that watch it.

## 2. Modules

| Module | Models | Used by |
|---|---|---|
| `LoggerRunner` | a runner as a record, its methods as operators | `LoggerSupervisor` (EXTENDS) |
| `LoggerSupervisor` | the supervisor, its monitor thread, callers of `update_configs` and `quit`, children that end, the clock | `LoggerManager` (EXTENDS), the proofs |
| `InMemoryServerAPI` | the writes and reads of the API's attributes, one by one | `LoggerManager` (INSTANCE) |
| `LoggerManager` | console, poller and definition sender over the API and the supervisor | `MCLoggerManager`, the proofs |
| `CacheCleanup` | what `cleanup` leaves of one list | `RecordCache`, `CachedDataServer` (EXTENDS) |
| `RecordCache` | the cache with its locks, files, crashes | `MCRecordCache` |
| `FieldSubscription` | which records of a list a subscription or a `ready` gets | `CachedDataServer`, `DataFeed` (EXTENDS) |
| `CachedDataServer` | one connection and the `CachedDataReader` at its other end | `MCCachedDataServer`, the proofs |
| `LossyChannel` | abstract: what a writer promises, records that arrive in order and once, or are given up | `CachedDataWriter` (INSTANCE, refined) |
| `CachedDataWriter` | the writer, its queue, its sending thread, the server | `MCEnds`, the proofs |
| `TimeoutReader`, `TimeoutWriter` | `read()` or `write()`, the thread, the client reader or writer, the clock | `MCEnds` (INSTANCE) |
| `WebsocketWriter` | the logger's thread, the event loop's handlers, queues and tasks | `MCEnds` (INSTANCE) |
| `ComposedReader`, `ComposedWriter` | `read()` and `write()` with their threads | `Listener` (INSTANCE) |
| `Listener` | `run()` and `quit()` over both | `MCListener` |
| `DataFeed` | the server's end of a page's connection | `WebConsole`, `WidgetPage` (EXTENDS) |
| `WebConsole` | the page that watches the loggers | `MCPages`, the proofs |
| `WidgetPage` | a page of widgets | `MCPages` (INSTANCE), the proofs |
| `DjangoServerAPI` | the rows, the processes' calls and caches | `MCStores`, the proofs |
| `SQLiteServerAPI` | the row, the processes' copies and commands | `MCStores` (INSTANCE), the proofs |
| `...Proofs` | theorems: `LoggerSupervisorProofs`, `LoggerManagerProofs`, `RecordCacheProofs`, `ListenerProofs` (with `ComposedReader` and `ComposedWriter`), `EndsProofs` (`CachedDataWriter`, time-outs and `WebsocketWriter`), `CachedDataServerProofs`, `StoresProofs` (`DjangoServerAPI` and `SQLiteServerAPI`), `PagesProofs` (`WebConsole` and `WidgetPage`) | |
| `MC...` | values of constants for TLC | |

**State and steps.** An action is as much of a method as no other thread can interrupt with
an effect on the model's state.

*LoggerSupervisor.* Each operation holds `logger_map_lock` from beginning to end, so there
is one variable for what the operation has still to do (`todo`) and one for its argument
(`target`); each logger it treats is a step, because children end and time passes meanwhile
and because a step may raise. `_start_logger` and `_delete_logger` are `Install` and
`DeleteLogger`. Time is `since_restart`, the age of a logger's last restart up to
`min_uptime`, since the code only compares it with that. `fork_failed`, `stray`, `burst` and
`tries` are history: they record what the properties talk about and guard nothing.

*InMemoryServerAPI and LoggerManager.* A console command is a sequence of steps (`script`):
each assignment to an attribute of the API, and each callback. A callback takes
`config_lock` and then reads the API attribute by attribute (`phase`, `reading`, `found`,
`fetched`), as does the poller, so every torn read the code can make is a behaviour of the
model. An exception ends what it ends in the code: the poller's thread, the rest of the
command, or the console. The supervisor's actions are those of `LoggerSupervisor`, with no
monitor, because nothing calls `run()`.

*RecordCache.* A thread that caches a record tests for the field's lock, makes it, looks it
up, acquires it, creates the list and appends in separate steps. `cleanup` reads a list and
replaces it in two; `save_to_disk` truncates a file and fills it in two. `Restart` is
possible everywhere and loads what is on disk.

*CachedDataServer.* The handler of a connection is cut at its `await`s. The reader's
messages and the server's replies are two queues; losing the connection loses both.

*CachedDataWriter.* `write` tests the queue, makes room and puts in separate steps, against
the sender's take, send and receive.

*ComposedReader.* Every test, set and clear of an event, every acquisition of the queue's
lock and every look at a thread's life is a step. `MayRace` allows the one schedule in which
a thread gives up waiting after `read()` has counted on it (section 5).

*Listener.* `run()` interleaves with the threads of both instances and with `quit()`.

*TimeoutReader, TimeoutWriter.* Time is the ticks since an event, capped above what the code
compares it with. The reader's `read()` and its thread share `keep_reading`, `timed_out` and
`last_record` without a common lock around the tests, so every test and assignment is a
step. The writer's two callers are serialised by `timeout_lock`; its thread reads the clock
*before* it waits for the lock, so `stale` counts how old that reading has become. The
client writer returns or raises; an exception ends the thread, or leaves `write()`. `told`
is what the client writer was given with how it ended, and `silence`, the ticks since a
`write()` ended in either way, is history.

*WebsocketWriter.* Both threads hold `client_map_lock` whenever they use `client_map`, so
each use is one step. `write()` hands the event loop one call of `_put_and_trim` per client;
they run in their order, but at any time among the handlers and the sending tasks. A
scheduled call finds whoever has the client's id by then. A connection that is gone is
noticed when something is sent over it.

*DataFeed, WebConsole, WidgetPage.* The page's handlers are single events, so each message
is one step; what may happen in between is at the server (a record is cached, a request is
answered) or to the connection. The console keeps, per logger, the configuration and colour
of its button and the lines of its window, and the three timestamps by which it tells news
from repetition. A widget is its kind, its fields and what it shows of each: `ShownAfter`
says what each kind makes of a message, including what goes wrong (section 5).

*DjangoServerAPI.* A call is a sequence of steps, one per row read or saved: clear the flags
of a logger, assign, flag, next logger, stamp the time of update. `load_configuration` is
one transaction, in which readers see nothing until it commits. Each process has two caches
(names with configurations, and the mode), each with the stamp that says how new it is. The
clock moves with the updates, since stamps are only compared with the time of update.
`get_logger_configs` stamps its cache before it reads the rows and may raise then
(`ReadFails`): the cache is left old with the new time, and the thread, if it is the
manager's poller, ends (`polling`). `late`, `muddled`, `unread`, `changed` and
`mode_changed` are history.

*SQLiteServerAPI.* A command is a script of loads, changes in memory, saves and stamps; a
save writes the whole of the process's copy. The row and its time of update are two
statements, so two steps.

**Data.** Loggers, configurations, fields and definitions are model values or small records;
a record is the number of its arrival with, where it matters, a timestamp. Texts, parsing,
logging and command-line options do not appear.

## 3. Runs, bounds and fairness

Several properties that are about the same state and would be checked by the same run are
conjuncts of one, whose parts keep their names and comments in their modules; the mutants
break the parts one by one. Parts of the system that share nothing (the four ends, the two
kinds of page, the two databases) are checked side by side in one run: `part` or `open` says
which of them a behaviour is about, the others stay at their initial state. This adds their
state spaces, and does not multiply them; each keeps the fairness of its own module.

| Run | Shows |
|---|---|
| `supervisor` | With forks that fail, children that cannot be killed, updates and quits at any moment: `FleetSafe` (the two maps agree between any two steps, `MapsAgree`; no runner starts a second child beside a live one, `NoStrayChild`), crash loops are bounded through all reconfigurations (`CrashLoopBounded`), a finished update has installed its argument (`UpdateInstallsTarget`), nothing runs after `quit()` (`QuitIsFinal`), and `EndIsFinal`: nothing is started after it (`NoStartAfterQuit`) and the monitor leaves alone what it gave up (`GivenUpStays`). |
| `supervisor_alone` | `logger_supervisor.py` run by itself gives up a configuration only after `max_tries` tries (`TriesHonoured`) and handles every dead logger (`DeadLoggerHandled`). |
| `manager` | After a command's update signal has returned, what runs is what the API asks for, whatever the poller read before or meanwhile (`ManagerSafe`, of which this is `SyncedIsDesired`); and in the end it is so as well after a slow poller's update or a signal that an error dropped, as long as the poller lives (`FleetFollowsAPI`); no command hangs on the two locks (`CommandsComplete`); a sound definition that stays is announced (`DefinitionAnnounced`). |
| `manager_poller` | *Violation*: the poller ends of an exception (`PollerSurvives`). |
| `manager_restart` | *Violation*: under the manager a dead logger stays dead (`DeadLoggerHandled`). |
| `cache` | `CacheSafe`: one thread at a time works on a list that has its lock (`ExclusiveField`), and a list is the end of what was cached, never shorter than the minimum (`CacheIsLatest`). Nothing young is dropped (`YoungAreKept`); a list comes back to its bound (`CacheShrinks`); a restart finds all that was saved but the file being written (`OnlyTornIsLost`). |
| `cds` | `ServerSafe`: what a client asked for is sent in order and once (`InOrderOnce`), one message at a time (`OneUnderWay`). `ExactlyAsked`: nothing of it is passed over (`NothingPassedOver`), nothing else is sent (`NothingUnasked`). And it comes in the end (`EventuallyRead`). |
| `listener` | `ReadSafe`: no record is lost, doubled or overtaken between the threads (`InOrderOnce`), no wake-up is missed (`NoMissedWakeup`). Between two records every writer has written what was read (`WritersAgree`); `None` means that all readers ended (`NoneMeansEOF`), a `read()` that does not return has no thread left to wait for (`ReadReturns`), and `run()` ends (`RunEnds`). |
| `listener_eof` | *Violation*: `run()` ends with a record still in the queue (`EOFMeansAllRead`). |
| `ends` | `CachedDataWriter`: `WriterSafe` (order, `InOrderOnce`; the oldest make room, `OldestGo`; a break costs one record at most, `OneLostPerBreak`), and with its queue, thread and server it is a lossy channel (`ChannelRefined`). `TimeoutWriter`: the two messages take turns, whichever of them raises, and silence is noticed in time by the thread, unless an exception ended it (`TimeoutsTold`: `Alternate`, `SilenceNoticed`). `TimeoutReader`: what `read()` returns is true (`ReadTellsTruth`), and it returns when its reader stays silent (`SilentReadReturns`). `WebsocketWriter`: every client gets what is written while it is attached, in order and once, but for the oldest of a full queue (`SocketSafe`: `GetsAll`, `OldestTrimmed`), whoever else comes, goes, is slow or had its id before. In the end records are settled and clients that went are let go (`EndsSettle`). |
| `pages` | `PagesSafe`: both kinds of page keep exactly one request going per connection (`KeepsAsking`, `OneUnderWay`), and the console neither loses nor doubles a line while its list of loggers stays (`LinesInOrderOnce`). `WidgetsExact`: texts and dials show the latest value given, a timeline exactly its last seconds, a map whole markers (`LatestShown`, `TimelineExact`, `MarkersComplete`). Pages catch up with what was published last (`PagesCatchUp`), lines get into their windows (`LinesShown`), and when statuses stop every button is flagged (`SilenceIsFlagged`). |
| `stores` | Django: no process answers from a cache that is out of date, but in the three windows the code leaves open (`DjangoSafe`: `ConfigsCurrent`, `ModeCurrent`), and between calls that did not overlap the flagged rows are the loggers' configurations (`OneCurrentConfig`). SQLite: what is saved is whole, and who would not load again holds what is saved (`SQLiteSafe`: `SavedIsWhole`, `HeldIsSaved`); a command undoes no other (`ChangesOneLogger`). The logger manager catches up with either (`StoresCatchUp`). |

**Bounds, and why they are enough.**

- `supervisor`: two loggers (one treated, one waiting) and two configurations, one of which
  runs nothing; `max_tries` 2 with `min_uptime` of one tick is the least for which a restart
  can be counted, forgiven, and be one too many; one unkillable child per logger. The
  loggers are interchangeable (SYMMETRY; no liveness is checked here). Nothing bounds the
  number of updates, crashes or quits. `supervisor_alone`: three tries, two ticks and two
  configurations that run.
- `manager`: two definitions that share a logger and the names of its configurations, one of
  them unsound, so that a torn read can mix old and new without an error, or with one; two
  loggers are read and installed, one of which ever runs; any number of commands.
  `max_tries` and `min_uptime` do not matter, as there is no monitor.
- `cache`: two fields, two writers that share one of them, two records on disk and two to
  come against a maximum of three and a minimum of one: lists are cut to the maximum, and
  for age behind it, down to the minimum or not as far, so each of the three limits decides
  what is left of some list; `CacheCleanup` with the age test turned round is a mutant.
  One crash: the state after it is an initial state again. The clock has two values,
  `back_seconds` is one.
- `cds`: two fields, three records, three ticks, one lost connection. Between two fields the
  handler's loop can be seen to mix them up; three records are needed for one sent, one not
  yet, and one cached in between. `FlightBound` only keeps the queues finite: `OneUnderWay`
  shows that it is not reached for named fields. `InOrder` is TRUE: each field's timestamps
  rise (section 5 says what happens otherwise).
- `listener`: two readers with two records each, one of whose calls raises; two writers, one
  filtered record, one failure anywhere. Calls of `read()` are not bounded.
- `ends`: a queue of two, five records, two breaks: the queue is full with a record under
  way, twice. A time-out of two ticks is the least with a tick between "not yet" and "too
  long"; the client writer needs up to one tick, so that the clock can be stale; three
  records are a time-out, its end, and another. Two WebSocket clients, a queue of one and
  three records: one sent, one waiting, one that trims it, while the other client comes,
  goes and leaves its id.
- `pages`: a console with two loggers, one or both of which a definition lists, a definition
  without active mode, and a clock of three: an old and a new message of one kind, and one
  of another in between. Three pages whose widgets are of every kind, fields that come
  together or not, a text behind a timeline that may throw, four records, one lost
  connection.
- `stores`: two processes that change (their calls overlap in every way), one that reads.
  Two calls with Django: a mode, a name of the logger's, a name refused, loads and
  deletions, one save or reading that fails. Two commands with SQLite over two
  definitions that share a mode's name.

**Fairness** is weak fairness of each thread that runs in a loop or is inside an operation.
The operating system's scheduler justifies it: no lock is held across an unbounded wait,
except that `update_configs` and `quit` join a child with a time-out. The environment is
never fair: records need not come, children need not end, connections need not break, nobody
has to type a command. One step is strongly fair: in `ManagerFairSpec` the console waiting
for `config_lock`, which the poller holds again and again but releases for a sleep each
time. `CachedDataWriter` assumes that a new connection is made in the end, as its loop
retries for ever. In `Listener` the readers' own `read()` return; a reader that blocks is a
parameter (`Blocking`). In `WebsocketWriter` `websocket.send()` returns or raises: a client
that takes nothing any more is closed by the keepalive time-out of the websockets library.
In the pages the server answers and the browser runs handlers and timers; the page connects
again for ever, as `websocket.js` does. The users of the databases finish a call they began;
only the logger manager has to begin one, as it polls, with Django until a reading raises.

`CHECK_DEADLOCK` is off in `stores`, where every call may have been made and the store may
be empty; it is on in every other run.

**Mutants.** For every property of a passing run `PROJECT.json` names a mutant, defined
beside the operator it replaces and marked as such (a dropped guard, an off-by-one, a flag
not looked at), under which TLC finds the property violated; for a conjunction there are
mutants for its parts.

## 4. Proofs

All theorems hold for every value of the constants; what they assume of the constants is
named, stands in the module that declares them, and is evaluated by TLC in every run of that
module. Each rests on one inductive invariant; there is one lemma per action, in the order
of the operations, with one step per conjunct the action can disturb, then a lemma for
`Next`, then the theorems with PTL.

### The supervisor

For every set of loggers, every set of configurations, every `max_tries` and `min_uptime`,
with or without monitor, outside updates, failing forks and unkillable children. Assumed:
`ConfigAssumption` (runnable and idle configurations are disjoint, NONE is no configuration
and no runner) and `SupervisorAssumption` (the types of the constants, `min_uptime` not
zero).

`LoggerSupervisorProofs`

| Theorem | Property |
|---|---|
| `TypeCorrect` | `TypeOK` |
| `MapsAlwaysAgree` | `MapsAgree` |
| `NoChildIsOrphaned` | `NoStrayChild` |
| `CrashLoopsAreBounded` | `CrashLoopBounded` |
| `UpdatesInstallTheirTarget` | `UpdateInstallsTarget` |
| `FleetIsSafe` | `FleetSafe`, the first three of these |
| `GivenUpIsFinal` | `GivenUpStays`, an action property |

All but the last are conjuncts of one inductive invariant, `IndInv`, with two more that they
need:

- `TodoHasRunner`: what a check or a quit has still to treat has a runner. Without it a step
  could index the map with a logger that is gone; it holds because only the operation that
  has the lock deletes.
- `BurstIsCounted`: while the last restart is recent, the restarts of the burst are at most
  one more than `restart_count`. `CrashLoopBounded` alone is not inductive: it compares
  `burst`, which is history, with a constant, and the code compares its own count. The
  difference of one is the first restart of a burst, which the code does not count.

The second part of the module has `QuitLeavesNothingRunning` (`QuitIsFinal`) and
`QuitStartsNothing` (`NoStartAfterQuit`), and with `GivenUpIsFinal` `EndsAreFinal`
(`EndIsFinal`). Its invariant `QuitInv` rests on `IndInv` and three facts: without a failed
fork no runner is unforked (`AllForked`), so `quit()` cannot raise; after the flag is up no
update has the lock (`NoUpdateAfterQuit`); and while or after `quit()` runs, what still has
a runner is in its `todo` (`OnlyTodoIsLeft`). A check that the monitor had already decided
on finds an empty map.

The third has `AloneHonoursTries`: where nobody calls `update_configs` but the constructor
(`~UpdatesCome`, which is how `logger_supervisor.py` runs by itself), a configuration is
given up only after `max_tries` tries (`TriesHonoured`). A given-up logger is judged by
`restart_count`, the property speaks of starts; `TriesAreCounted` says that the count stays
below the starts of a logger that is not given up, and `NoCountYet` that it begins at
nothing. With updates the property is false: a new configuration inherits the count of the
old one (section 5).

### The logger manager

`LoggerManagerProofs` proves of console, poller and definition sender over the API and the
supervisor:

| Theorem | Property |
|---|---|
| `ManagerIsSafe` | `ManagerSafe`: types, and `SyncedIsDesired` |
| `ManagedFleetIsSafe` | `FleetSafe` and `UpdateInstallsTarget`, under the manager too |

The second takes over the supervisor's theorems: every step of the manager that changes the
supervisor's variables is, as it is defined, one of the supervisor's actions (the lemma
`StepsAreSupervisors`).

Assumed further: `ManagerAssumption` (no monitor; the empty configuration runs nothing) and
`CruiseAssumption` (a definition lists at least one logger, its modes and choices name
configurations, and a sound one defines its default mode). That it lists a logger matters:
an update with no configurations at all means the constructor's
(`server/logger_supervisor.py:165`).

`SyncedIsDesired` is proved from the supervisor's `IndInv` and five parts. `FreshInv` says
that what the holder of `config_lock` has read so far agrees with the API, if the update is
the console's own or nothing was written since the last: the console, the API's only writer,
is then itself inside the method. At the end the supervisor's `UpdateInstallsTarget` turns
what was read into what runs. `SyncInv` adds that a poller's update in that time changes
nothing. `LocksInv` says who holds which lock at which step, `ReadInv` which loggers have
been read. `ScriptInv` is about the console's commands: a definition is stored or deleted
only by the first step, a mode is set only of the definition loaded by then, and the
manager's quit flag goes up before the supervisor is told to quit, so that no window of
"synced" survives into a quit.

### The record cache

`RecordCacheProofs`: `FieldIsExclusive` (`ExclusiveField`) and `LatestIsCached`
(`CacheIsLatest`), together with the types `CacheIsSafe` (`CacheSafe`), and the action
properties `YoungRecordsAreKept` (`YoungAreKept`) and `OnlyTornFilesAreLost`
(`OnlyTornIsLost`), for any fields, threads, limits, clock and number of restarts.

All have one hypothesis, `LockedFromTheStart`: a field that two threads bring records of has
a file, and so its lock, before they start. The code needs it, since it makes locks without
holding one (`server/cached_data_server.py:252`) and two threads that meet at a new field
both make one. Fields that one thread brings may be new, and so may all fields of a cache
with one thread. The instance of the run `cache` satisfies it.

`IInv` says where each thread is and what its last test still guarantees (`WriterInv`,
`CleanerInv`: the list `cleanup` read is still the list when it replaces it), that the lock
a thread has looked up is the field's only one (`LockInv`, where the hypothesis is needed),
that a list is an end of what was appended, whole or long enough (`ListInv`), and that a
file holds what was saved unless it is given up or just being written (`DiskInv`). The lemma
about `cleanup`, `CleanupCuts`, says that it returns an end of the list, cut where the code
says: none that is young is cut but to keep within the maximum, and the minimum stays.

### The connection

`CachedDataServerProofs`, for any fields, subscriptions and limits, any number of records
and of lost connections:

| Theorem | Property |
|---|---|
| `OneMessageAtATime` | the types, and `OneUnderWay`, whatever the timestamps are |
| `ServerIsSafe` | `ServerSafe`, if `InOrder` |
| `SentAsAsked` | `ExactlyAsked`, if `InOrder` and `AsksForLatest` |

`InOrder` is the constant that says that each field's timestamps rise; the server compares
nothing else, and without it both properties are false (section 5). `AsksForLatest` is about
the subscriptions of those who name fields: `seconds` 0 or -1 and no `back_records`, which
is also what the run has; a pattern may come with anything. Other subscriptions begin at
another record than the one asked for (section 5), so the hypothesis cannot be dropped.

`PhaseInv` says that nothing has been sent, and no field is requested, before the
subscription is handled, and `TurnInv` that reader and server take turns if fields are
named. `CursorInv`: what is cached rises, and `field_timestamps` is not ahead of it, since
cleanup leaves the newest record of a field: so what is cached next is later than all that
was sent. `FlowInv`: what the reader
has, each message under way, and what the server has still to send follow each other in
time. `AskedInv`: what is cached and later than the cursor is what the client is owed.

What the server selects from a list and how the reader collates it are functions over the
ascending enumeration of a set of indices (`Chosen`, `Collated`). `CanBeEnumerated` shows
that a bounded set of numbers has one, by the least bound of a set that has none, and
`AscendingEnumerates` that `Ascending` is it. From there `ChosenKeepsOrder` and
`CollatedInOrder` say that order is kept and, of a list that rises, nothing is lost.

### The listener

`ListenerProofs`, for any number of readers and writers, any supply of records, calls that
raise or block, records that are filtered and failures: `ReadIsSafe` (`ReadSafe`),
`WritersDoAgree` (`WritersAgree`) and `NoneDoesMeanEOF` (the action property
`NoneMeansEOF`). `ReaderInv` adds to the two properties of the composed reader that a reader
which has given its EOF has given all its records, and that `read()` pops only what is
there, as nobody else takes from the queue. The lemmas on sequences say that popping, adding
and the hand-over between thread and queue leave the flow of records (returned, queued, in a
thread's hand) as it was or longer by one. `WriterInv` says for each writer where `write()`
is, and that what it has written follows what was read, but for what was filtered or had no
thread.

### CachedDataWriter

`EndsProofs`: `InOrderOnceHolds`, `OldestGoHolds`, `OneLostPerBreakHolds`,
together `WriterIsSafe` (`WriterSafe`), and `ChannelImplemented`: the writer with the server
implements `LossyChannel`, for every size of the queue, any number of records and breaks,
and any records JSON refuses. `IInv` adds to the properties what is where: the record in
hand is older than all in the queue and newer than all that is cached; `LossInv` accounts
for every record that is nowhere by a break.

### The time-outs and WebsocketWriter

`EndsProofs`, about the specification of the run `ends`: `TimeoutsAreTold` (`TimeoutsTold`),
`ReadDoesTellTruth` (the action property `ReadTellsTruth`) and `EachClientGetsAll`
(`SocketSafe`), for every time-out, every delay of the client writer, any clients, queue
size and number of records.

- TimeoutReader: the clock in `last_record` is no older than the silence unless it is just
  being written, and a `read()` that is told to stop knows why.
- TimeoutWriter: `TurnsInv` relates what was told, messages that raised included, to
  `timed_out` and a message under way; `StaleInv` bounds how old the thread's reading of the
  clock can be by what the client writer takes for a message; from it `WatchInv` gets that a
  silence is noticed within `Timeout + Slow + 1` ticks while there is a thread, and
  `GoneInv` says why there is none: `quit()` was called or a time-out's message raised.
- WebsocketWriter: `IdsInv` (no two ids have the same client; that a client which comes
  finds a free one is the pigeonhole principle), `TasksInv` (a task has a record in hand
  while it sends), `CallsInv` (what is scheduled for an id is in order, whoever had it at
  the time), and `FlowInv`: of each client's records those sent, in
  hand, queued and scheduled follow each other in this order, none is missing, and what was
  trimmed is older than a full queue of what was kept. `Flow` does not mention the state, so
  its lemmas are about seven sets of numbers and are used once per action.

### The Django API

`StoresProofs`, for any number of processes, loggers, modes and names, calls, loads
and errors: `ConfigsCurrentHolds`, `ModeCurrentHolds`, together with the exclusion of
transactions `DjangoIsSafe` (`DjangoSafe`), and `OneCurrentConfigHolds`. Assumed:
`DjangoAssumption` (names belong to loggers, the default mode gives every logger one). The
invariant `Inv` has the types; `TimeInv` (no stamp is later than the clock, no change later
than the next update); `WorkInv` (what a call has still to do, and what it read); `RowsRead`
and `ModeRead` (a cache as old as its stamp holds what changed before it, unless the
reading behind the stamp raised); `RowsInv` and,
while no two calls have overlapped, `FlagsInv` (exactly the loggers not in hand have their
configuration flagged).

### The SQLite API

`StoresProofs` too, for any processes, loggers, definitions and commands: `StoreIsSafe`
(`SQLiteSafe`: what is saved is whole, and who would not load again holds what is saved) and
`NothingIsUndone` (the action property `ChangesOneLogger`), and the same of the two stores
side by side, as the run `stores` has them (`SavedStaysSafe`, `CommandsUndoNothing`).
Assumed: `SQLiteAssumption` (a definition's default mode is one of its modes and a mode
gives every logger a name, commands are of the four kinds, and the processes that change the
store are not those that only read it).

A process is somewhere in the script of its command, so the invariant begins with the shape
scripts have: `ScriptsInv` (a look before its fetch, a save before its stamp, a new
definition before its default mode; a name is set by the first step after loading). A copy
that is not whole is about to be given its mode (`WholeInv`); a copy that its process would
not load again and that is not what is saved belongs to a load that will stamp a new time
(`CopyInv`); and a name, unless another save overlapped with it, is set in what is saved
(`NameInv`).

### The pages

`PagesProofs`, for any loggers, definitions, modes and statuses, any fields, pages and
widgets, and any number of records and lost connections: `BothPagesSafe` (`PagesSafe`) and
`WidgetsShowWhatIsGiven` (`WidgetsExact`), about the two pages side by side as the run
`pages` has them. Of each by itself `ConsoleInvariant`, `ConsoleKeepsAsking` and
`ConsoleLinesInOrderOnce`, and `WidgetPageInvariant`. Assumed: `ConsoleAssumption` (loggers
are not named like the other fields; a definition's and a status's loggers are loggers) and
`PageAssumption` (a page is a sequence of widgets, what comes together are fields,
`MaxPoints` is not 0).

- Both: the cache's lists and those of every message under way are in the order of their
  times and not later than the clock (`FeedInv`, `PageFeedInv`).
- The console: `WindowsInv` counts the messages under way; `OnceInv`, while the first
  connection and the list of loggers last, says that the page has no loggers and has
  subscribed to none of their lines, or has subscribed once, and of each logger (`FlowInv`)
  that the lines shown, those of each message under way and those the server will still send
  follow each other. `SameLoggers` is needed: a definition with other loggers subscribes
  anew and doubles lines (section 5).
- Pages of widgets: `GivenInv` says the same of what the page was given (`got`), as long as
  no connection was lost. `AlikeInv`: fields that come together and of which the page asks
  the same have the same times in the cache, in the message under way and in
  `field_timestamps`; with it a D3 dial's k-th value is that of its k-th field, and the
  markers of a map are complete. What a timeline shows is the end of a list: the lemmas
  `CutExists`, `CutMovesOn` and `CutOfEnd` say where it begins, that with more points it
  begins no earlier, and that trimming an end of a list cuts it where the list is cut, or
  not at all; so `LineStep` and `LastLineStep`: trimming what is shown with what comes is
  trimming all that was given.
- What the server sends, and what a timeline shows, is chosen from a list by a set of
  indices (`Chosen`, `Ascending`); the first lemmas of the module are about these, that
  `Ascending` enumerates every finite set of numbers and is the only increasing enumeration.

The first attempts failed for reasons that the model now states. A text behind a
Highcharts timeline does not show a message on which the timeline throws, and stays behind
after the next connection, so `LatestShown` is of widgets that are `Spared`. Fields may come
together and be asked for differently by another widget of the page, so the D3 dial and the
map are judged if their fields are `Alike` in both. A timeline that gives no seconds is
never trimmed, so `Within` is the whole list then.

### Model-checked only

Every liveness property, which is out of the prover's reach: `DeadLoggerHandled`,
`FleetFollowsAPI`, `CommandsComplete`, `DefinitionAnnounced`, `CacheShrinks`,
`EventuallyRead`, `RunEnds`, `ReadReturns`, `EndsSettle`, `SilentReadReturns`,
`PagesCatchUp`, `LinesShown`, `SilenceIsFlagged`, `StoresCatchUp`.

Every invariant and every other action property of the passing runs is proved.

## 5. Where the code disagrees with its documentation, or with itself

Shown by a run:

- `manager_poller`: `load_configuration` stores a definition before its loggers have
  configurations (`server/in_memory_server_api.py:316`, `:177`). A poll in between raises,
  and nothing catches it: the poller is gone (`server/logger_manager.py:262`), and changes
  that are not signalled are no longer noticed.
- `manager_restart`: nothing calls `LoggerSupervisor.run()`
  (`server/logger_manager.py:514`), so no logger is ever restarted and `--max_tries` has no
  effect.
- `listener_eof`: `read()` tests for end of file before it looks at the queue
  (`logger/readers/composed_reader.py:158`).

Met while modelling. Each is in the model, or outside its bounds, as said:

- Supervisor. `max_tries` 0 gives up at the first death (`server/logger_supervisor.py:119`),
  where the constructor's comment says "If zero, then never stop retrying" (34-35). A new
  configuration inherits the restart count of the one it replaces (110). After a fork that
  failed, `quit()` raises at a process that was never started and leaves the other loggers
  running (84, `server/logger_runner.py:259`): in the model, and the reason for
  `~fork_failed` in `QuitIsFinal`.
- Manager. The definition sender ends of an exception when `loaded_time` is not there yet
  (`server/logger_manager.py:322`, where only KeyboardInterrupt is caught): in the model. It
  remembers a definition as sent before it tries to (341): in the model, and the reason for
  `c.sound` and `LoggersReadable` in `DefinitionAnnounced`. `reload_configuration` looks for
  the file's name where it is not and so ends the server
  (`server/server_api_command_line.py:173`, stored at 158): in the model. Between two
  assignments of a load the poller may install a mixture of two modes until the next signal:
  in the model, and the reason `SyncedIsDesired` speaks of the time after the signal.
  `get_message_log` does not move on past a message it skips
  (`server/in_memory_server_api.py:294`): not modelled.
- Cache. Two threads that see a field for the first time may each make a lock, and one
  record is lost (`server/cached_data_server.py:252`). The run `cache` starts with the
  contested field on disk, so with a lock; with no file there `ExclusiveField` and
  `CacheIsLatest` fail. A file that could not be written once is never written again
  (`failed_files`); a crash during a save loses the field, old contents included (364): in
  the model, and the exceptions in `OnlyTornIsLost`.
- Connections. A record cached later with an earlier or equal timestamp is never sent (759),
  and after an out-of-order list some records are sent twice (762): `InOrder` FALSE shows
  both. With `seconds` 0, `back_records` is ignored (658). The lock of a pattern's fields is
  looked up under the pattern, so everything cached is sent (639), and patterns are matched
  once (622, 715): in the model, and the reason `NothingUnasked` and `OneUnderWay` speak of
  named fields. A `ready` for a pattern without match is answered twice (717). What
  `seconds` -1 asks for is documented in two ways: "provide the most recent value, and then
  all future new ones" (50; so 738), and "server will only ever provide the single most
  recent value" (501-502; so 510-512, of a -1 in `field_timestamps`, which is never put
  there). The branch that sends the latest value only looks for a key `back_seconds` (741)
  in what a client subscribed with, where it is called `seconds` (629), so it is dead, and
  the code does what line 50 says. That is what `ExactlyAsked` checks; by lines 501-502 it
  would be wrong.
- CachedDataWriter. A record under way when the connection breaks is lost
  (`logger/writers/cached_data_writer.py:125`): in the model, `OneLostPerBreak` bounds it. A
  record that JSON cannot encode ends the sending thread (128): `Unencodable`, empty in the
  run.
- ComposedReader. `read()` can count on threads that are about to give up waiting
  (`logger/readers/composed_reader.py:144`, `:154`) and then waits for ever: `MayRace`,
  TRUE in `listener`, allowed for by `Deserted` in `ReadReturns`. A reader that
  raises ends its thread in silence (206).
- ComposedWriter. An exception is kept and raised again by every later write
  (`logger/writers/composed_writer.py:117`), and a thread that cannot be started is only
  logged (105): in the model.
- Listener. `quit()` is seen only between two reads (`logger/listener/listener.py:91`).
- Connections, back data. A search for the first record to send that ends at index 0 looks
  at index -1 (`server/cached_data_server.py:692`) and begins after the newest record, so
  that no back data is sent: in `FieldSubscription`; `NothingPassedOver` fails when a
  subscription of `cds` asks for one second of back data, so none does.
- TimeoutReader. The `read()` after a time-out returns the message that data is back at
  once, even if nothing came: it sets `last_record` to the present
  (`logger/readers/timeout_reader.py:135`) and then finds that recent (154). The docstring
  says "when client returns a record after having timed out" (43). A record that comes while
  timed out, before the loop tests `keep_reading` again (146), makes `read()` return `None`,
  which its callers take for end of file. Records are left unread while a thread that is
  about to end still counts as alive. All in the model; `ReadTellsTruth` says what is left.
- TimeoutWriter. The thread judges by a clock read before it waited for the lock: in the
  model, and the reason `SilenceNoticed` allows for the client writer's time. Nothing
  handles an exception of the client writer. At the time-out's message
  (`logger/writers/timeout_writer.py:101`) it ends the thread when `timed_out` is already
  set: no later silence is noticed, and the next record gives the client writer the message
  that data is back although it never got the other. At that message (126) it leaves
  `write()`, `timed_out` is reset and `last_record` still old (127), so the next time-out
  may be told at once. Both are in the model: `SilenceNoticed` exempts what follows a
  time-out's message that raised, and counts the silence since a `write()` ended, from which
  the second brings the message too early, not too late.
- WebsocketWriter. A client that is gone keeps its queue and its id until the next record is
  sent to it; a call of `_put_and_trim` scheduled for it may reach the client that has its
  id by then: in the model (more often than in the event loop, where it takes two handlers
  and the call in one iteration).
- Web console. After a lost connection it subscribes to the fields known at the start, not
  to the loggers' stderr, although the comment at `index.html.js:296` says it will: in the
  model, and the reason `LinesShown` speaks of a connection that lasts. Two changes of the
  list of loggers in a short time leave two requests under way for ever (`KeepsAsking`
  counts them), and the overlap doubles lines. "Skip duplicate messages" compares objects by
  identity (`stderr_log_utils.js:29`) and skips nothing. An older mode or status that comes
  after a newer definition overwrites what the definition said, until the next one. The
  definition is not sent again after a data server lost its cache. The timer's style is set
  back to nothing, whatever it was.
- Widgets. A dial of `d3_widgets.js` gives values to pointers by position among the fields
  that came (471), so it shows wrong values unless they come together. `this.max_points` of
  the Highcharts timeline is never assigned, so the number of points is not bounded
  (`highcharts_widget.js`). A first value that is no number makes it throw, no `ready` is
  sent, and the page stands still until the connection breaks; the widgets behind it miss
  that message for good, and show old values until a later one reaches them (`Spared`).
  After a reconnection back data is added a second time. `map_options` are written into the
  shared defaults. In the model but for the last; the properties name the conditions under
  which they hold.
- Django API. `load_configuration` stamps the time of update before its transaction commits
  (`django_gui/django_server_api.py:880`; "anything older than this time is suspect and
  should be reloaded", 879): a process that reads in between keeps the old rows as new ones
  until the next stamp. `get_active_mode` takes its stamp after it has read (252).
  `get_logger_configs` stamps its cache (334) before a query without a handler (336-337): an
  `OperationalError`, which most other reads retry, or a `Logger.DoesNotExist` leaves the
  old configurations with the new time, and they pass for fresh until the next update; in
  the logger manager the exception ends the poller (`server/logger_manager.py:262`). Two
  calls that overlap leave two configurations of a logger flagged. A name that is refused
  (474) leaves the logger without one, and no stamp; so does a mode that lacks a logger when
  there is no mode `off`. The web server runs ten processes
  (`utils/install_openrvdas.sh:1025`), so all of this can happen. All in the model: they are
  the exceptions `late`, `unread`, `muddled` and overlap in the properties, and `~polling`
  in `StoresCatchUp`. `update_status` is never called by the logger manager, and after a
  deletion `get_logger_configs` returns nothing, which `_update_configs` ignores: the
  loggers run on.
- SQLite API. `load_configuration` calls `set_active_mode`, which reads the old definition
  again if another process has stamped in between, and saves it: the load is lost. Two
  commands that overlap lose one change. Other processes never see a deletion, and may save
  the deleted definition back. In the model, and the reason `ChangesOneLogger` and
  `CopyCaughtUp` exclude overlap and deletion. `get_message_log` never moves past a
  message it skips (`server/sqlite_server_api.py:588`): not modelled.

## 6. What is not modelled

The components with status `not_modelled` in `PROJECT.json`, each with its reason. In short:
readers and writers around one device, file or library are sequential, and the composed
reader and writer model what they may do (return, end, raise, block); transforms and parsers
work on text and numbers; Django's views and the scripts are clients of what is modelled.

Most of the repository's JavaScript is third-party code it carries along: `display/js/d3`
alone is 77% of its lines, `display/js/highcharts` and the map library much of the rest. It
is used as it comes, and no property of OpenRVDAS lies in it.
`contrib/utils/JSON_YAML_Creator` is an editor for definition files, a form in one browser
with no other actor. What is OpenRVDAS's own and runs in the browser, the console, the
widgets and the pages that are served the same way, is modelled.

Within the modelled parts: the manager's status thread (it only reads), the message log,
metadata and the HTTP requests of the cached data server, drawing, colours and transforms of
widgets, and pauses, which have no state. Values that a widget cannot show are left out but
for the one that stops a timeline: a text widget that appends drops values without a length,
so plain numbers (`display/js/widgets/text_widget.js:167`), and the map throws on
coordinates that are no numbers (`display/js/widgets/map_widget.js:140`), with what a
timeline's exception brings. With Django, all loads define the same loggers,
modes and names. With SQLite no statement raises: a `_save_config` that does
(`server/sqlite_server_api.py:189-195`, `:216-219`) leaves a change in the process's copy
that is not in the row, which is undone by the next reading of it, as the message that ends
every command stamps a new time; only a second failure there would leave the copy in use.
The time of an update is taken and stored in one step, and the
backup files are left out (`DATABASE_BACKUPS`; statements commit by themselves, as
`isolation_level` is None).

## 7. Plan

Done, in this order: the runner and supervisor with their proofs; the API and the manager
over the supervisor; the cache, the connection and the writer; the composed reader and
writer and the listener; the time-outs and `WebsocketWriter`; the web console and the
widgets; the two database APIs; the proofs of `CachedDataWriter` and its channel, of the
Django API and of the manager; those of the cache, the connection, the listener, the
SQLite API, the time-outs, `WebsocketWriter` and of a supervisor alone; those of the web
console and of the pages of widgets.

Left, models:

1. The retries of `UDPWriter` and `TCPWriter`; subsampling as a pure algorithm against a
   reference definition.
2. The manager over `DjangoServerAPI` in place of the in-memory API: both are modelled,
   their composition is not.
3. An abstract fleet (the set of loggers that run, and what is asked for) that supervisor
   and manager both refine; loggers restarted by a manager that does call `run()`.

Left, proofs: none of a property the runs check, but for liveness, which is not within the
prover's reach.
