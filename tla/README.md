# Media server: specification and verification

This directory specifies the Tizen media server (`src/`): a daemon that keeps a
media database in step with the files on the phone's storage and on a memory
card, and the library its clients use. The modules are translated from the C
source and model-checked with TLC on small instances; their safety properties are
proved with TLAPS for every instance, liveness is only model-checked. Line numbers
refer to the files under `src/`.

Run from this directory, for instance

    tlc -workers 2 -config Registration.cfg MCRegistration
    tlapm RegistrationProofs.tla

`PROJECT.json` lists the runs, the source lines behind each definition (`map`), the
hazards of the code and, for each property, a *mutant*: a plausible bug (for
instance a dropped guard) under which that property is violated in its own run.
Definitions whose comment calls them a mutant exist for that purpose only.

## 1. The system

Four threads of control; the first three are started by `main`
(`common/media-server-main.c`):

| actor | code | what it does |
|---|---|---|
| main loop | `main`, `ms_read_socket`, `ms_mmc_vconf_cb`, `_power_off_cb` | answers clients, follows the card, pushes scan requests, ends the server |
| scan thread | `ms_scan_thread`, `_ms_dir_scan` | takes requests from `scan_queue`, walks a storage, validates and inserts rows |
| inotify thread | `ms_inoti_thread` | follows file events, registers, moves and deletes rows |
| clients | `lib/media-util-register.c` | one UDP request per file, one answer |

| component | state | operations | interacts with |
|---|---|---|---|
| file registration (`media-server-db-svc.c`) | `reg_list`, `queue_mutex`, `soc_queue`, `ret_queue` | `ms_register_file`, `ms_check_exist`, `ms_insert_item`, `ms_delete_item` | called by main loop and inotify thread; calls plug-ins and the DRM service |
| register socket (`media-server-socket.c`) | one request at a time, the buffer of its socket | `ms_prepare_socket`, `ms_read_socket` | registration, clients |
| client library (`media-util-register.c`) | a socket for each call | `media_file_register`, `media_files_register` | the socket; waits ten seconds |
| scan thread (`media-server-scan.c`) | `scan_queue`, `garray`, persistent database status | `_insert_array`, `ms_scan_thread` | main loop pushes, plug-ins store |
| bulk database operations (`media-server-db-svc.c`) | one connection for each plug-in, in the array `handle` | `ms_connect_db` to `ms_disconnect_db` | scan thread, `main`, inotify thread |
| directory scan (`media-server-scan-internal.c`) | the list of directories | `_ms_dir_scan` | `mmc_state`, `power_off` |
| directory walk (`media-server-scan-internal.c`, `media-server-inotify.c`) | a tree of nodes | `_ms_dir_check`, `ms_inoti_add_watch_all_directory` | fills the list of the scan, or the watch list |
| memory card (`media-server-external-storage.c`) | `mmc_state`, card key, recorded cid | `ms_mmc_vconf_cb`, `ms_mmc_removed_handler`, `ms_get_mmc_state`, `ms_update_mmc_info` | scan queue, watch and ignore list |
| start and power off (`media-server-main.c`) | `power_off`, `need_db_create` | `main`, `_db_clear`, `_power_off_cb` | all |
| inotify events (`media-server-inotify.c`, `-internal.c`) | watch list, created-file list, previous event | `ms_inoti_thread` and its helpers | registration, kernel queue |
| watch list (`media-server-inotify.c`) | `first_inoti_node`, singly linked, no lock | add, remove, modify | main loop and inotify thread |
| ignore list (`media-server-inotify.c`) | `latest_ignore_file`, doubly linked, no lock | add, find, delete, delete for the card | all three threads |
| DRM (`media-server-drm.c`) | none | register, unregister | DRM service |
| status keys (`media-server-utils.c`) | VCONF keys | get, set | survive a kill |
| D-Bus, notification library, plug-in loading | none of interest | | |

What is hard, and what makes each part correct:

* **Registration.** Two threads call `ms_register_file`; the item is looked up
  before the lock is taken; the waiting main loop sleeps on an asynchronous queue;
  results travel as pointers and zero must not become NULL; plug-ins fail one by
  one. Correct: one registrant per file, every wait ends, the answer is that of the
  client's own request, and success means stored.
* **Clients.** Requests and answers are datagrams without a number: they are lost,
  they arrive after the client has given up, the server is killed with requests
  queued. Correct: a client takes no other call's answer, what it was told stays
  true until a scan takes it away.
* **Scanning.** Cards are exchanged during a scan, requests are overlaid, the
  process is killed, plug-ins fail. Correct: at rest the database shows the card in
  the slot, each request is served once, an unfinished scan is remembered, and a
  plug-in is not harmed by the failures of another.
* **Directory walk.** The tree changes while it is walked, without a stack, with
  a counted depth. Correct: the depth is right, no directory falls between the walk
  and the events of its parent, all nodes are freed, the walk ends.
* **Inotify events.** Files and folders go on changing while older events are
  still queued; events carry a watch and a name, not a path; a file is met by its
  event, by a scan of its folder, or by both. Correct: at rest the rows are those of
  the files and of their contents, events are resolved to their own folder, and the
  thread can be ended.
* **Lists without locks.** Correct: after any sequence of operations a list holds
  what was added and not removed, and no freed node is used.

## 2. Modules

| module | lines of the program | is |
|---|---|---|
| `Registration` | `ms_register_file` and what it calls, `ms_read_socket`, the file events of the inotify thread, the scan thread's changes of the rows | the protocol in detail, one action per access to shared state |
| `SingleFlight` | the promise of `ms_register_file` | abstract specification |
| `RegistrationProofs`, `RegisterServiceProofs` | | theorems and proofs about `Registration` and `RegisterService` |
| `ScanThreadProofs` | | theorems and proofs about `ScanThread`: types and requests; the rows of the card and the repair of the phone's rows |
| `ScanPlugInsProofs`, `InotifyEventsProofs`, `DirWalkProofs`, `InotifyListsProofs` | | theorems and proofs about `ScanPlugIns`, `InotifyEvents`, `DirWalk` and `InotifyLists` |
| `QueueLemmas` | | lemmas about numbers and sequences, for these |
| `RegisterService` | the client library, the datagrams, kill and start of the server | composes clients and network with the whole of `Registration` |
| `ScanThread` | `main`, card callbacks, `ms_scan_thread`, `_ms_dir_scan`, what is committed when | main thread and scan thread, kills and restarts |
| `ScanPlugIns` | `ms_scan_thread` with the bulk database operations | the scan thread over several plug-ins, any call of which may fail |
| `DirWalk` | `_ms_dir_check`, `ms_inoti_add_watch_all_directory`, `ms_get_full_path_from_node` | the walk, node by node, while the tree changes |
| `InotifyEvents` | `ms_inoti_thread` and its helpers | the thread against a file system that does not wait for it |
| `WatchList`, `IgnoreList` | the two lists of `media-server-inotify.c` | their operations on pointers |
| `Chains` | | following and relinking pointers, used by both |
| `InotifyLists` | who calls the operations of the lists | composes both lists with the main loop and the inotify thread |
| `MC...` | | values for the constants |

### Registration

`pc[t]`, `path[t]`, `lib[t]` and `res[t]` are the locals of the call thread `t` is
in; the other variables are the globals of the same name. A call is
`CheckExist`, `Lock`, `FindRegList`, then either `AlreadyInserting` (the path is in
`reg_list`) or `InsertRegList`, `GetMime`, `InsertItem` per plug-in, after a
failure `GetMimeAgain` and `Recheck` per plug-in, `DrmRegister`, the second lock
and `Finish` (remove from `reg_list`, answer a waiting main loop). The main loop
adds `Receive`, `PopReply` and `SendReply`. The inotify thread also deletes items.

The scan thread changes the same databases without using the lists. A full scan
(`ScanBegin`) deletes every row of the storage, also those of files that still exist
(`ScanDeleteAll`, one plug-in per step), and stores the files again (`ScanInsert`,
and `ScanFile` when it is through with one, stored or not). A partial scan validates
the rows and at last deletes those that are not valid (`ScanDeleteInvalid`), which
`ms_invalidate_all_items` has made `stale` (`ScanInvalidate`). A card that is removed
stops either of them (`ScanStop`). `Scans` says which kinds are asked for. Two
variables follow the files that exist all the time (`Lasting`): `due` has those a scan
has yet to come to, and `skipped`, a history no action reads, those a scan was through
with and left without their row, until some plug-in stores them.

Plug-ins, the DRM service and the MIME library may fail at every call. A path in
`Deletable` may be deleted while the server runs, and the properties about stored
rows do not speak of it. `reg_list` is a bag, since
only how often a path occurs is ever looked at. `retQueue` entries carry the path as
a history field that no action reads.

`SingleFlight` says what callers rely on: one thread at a time works on a file, and
a caller that finds its file in work and may wait gets the result of that work.
The refinement mapping is at the end of `Registration`: a thread works on a file
from the insertion in `reg_list` to its removal.

### RegisterService

`todo[c]` is what is left of the list a client's call goes through (with the NULL
behind it, which the loop of `media_files_register` visits too), `waiting[c]` the
request it waits in `recvfrom` for, `open` the ports of open sockets. `Refused`
stands for the early returns, `SendRequest`, `TakeAnswer` and `Timeout` for the
rest of `media_file_register`: only `TakeAnswer` closes the socket, as in the code.
`requests` is the buffer of the server's socket, `answers` those of the clients'.
`ReceiveRequest` is `Receive` of `Registration` for the first datagram, `SendAnswer`
its `SendReply` with the translation of the result (`SendMsg`); every other step of
the server is one of `Registration` with everything else unchanged (`Silent`).
A port that is open cannot be given out again; that is all the model knows of the
kernel's choice. `Kill` empties the server's memory and socket and leaves the
databases; a full scan is cut off, and the files it had yet to come to are `skipped`.
`Start` invalidates the rows (`_db_clear`), may fail to bind and goes on, as `main`
does. Clients do not exit.

### ScanThread

The main thread is `main`, its program counter, with the actions `Boot...` for the
start, `CardChanged`, `CardRemoved`, `GetMmcState`, `CardMounted` for the callback,
`PowerOff`, `PowerOffPush` and `Join`. The scan thread is `scan`, with one
action per phase: `ScanMerge` (queue to `garray` by `_insert_array`), `ScanTake`,
`ScanConnect`, `ScanBegin`, `ScanDeleteAll` or `ScanInvalidate`, `ScanReadDir` and
`ScanFile` per file, `ScanEnd`, `ScanDeleteInvalid`, `ScanUpdated`,
`ScanUpdateMmcInfo`. Requests carry the address they were given by `malloc` (`id`),
which is how a doubly used pointer shows.

`db` holds the rows as the scan thread's connection sees them and `disk` what is
committed: a kill (`Crash`) loses the difference, and everything that is not in
`disk`, `dbStatus`, `mmcInfo` or `slot`. The kill may be that of `reset_mediadb.sh`,
which sets the status to updating and forgets the card first; what it does is one
step. The environment changes the card
(`ChangeCard`) and announces the end of file operations (`FileOperationEnd`).

Abstractions: a storage is a flat set of file names (`DirWalk` is about
directories); the databases of the plug-ins are one and do not fail (`ScanPlugIns`
is about that); connecting does, in the liveness run.

### ScanPlugIns

`handle[l]` is the connection of plug-in `l`: unset, open or closed, and `handleSet`
says whether the array is there. Each action is one function of
`media-server-db-svc.c` that goes through the plug-ins: it picks the first plug-in
whose call fails, or a set of them where the loop goes on, and changes the rows of
those it got to. `suspect` remembers which plug-ins missed something, `broken`
whether the last connection could not be made or closed. After a plug-in is given a
connection that is not open the model stops (`misused`). Requests are those for the
card, overlaid as in `_insert_array`; kills and commits are in `ScanThread`.

### DirWalk

The two walks have the same text, so there is one module; `watch` says which it is.
`heap` holds the nodes by address (`parent`, `Rbrother`, `next`), and `tmpRoot`,
`prvNode`, `depth`, `findFolder` are the locals. One action reads one entry
(`ReadEntry`), the others are the ends of a directory, the choice of the next node
(`NextDir`), the climb (`Climb`) with its depth, the path of a node (`GetPath`,
whose array is `depth` long) and the release (`FreeResources`). Others make and remove
directories at any time, and the card or the power may go (`Interrupt`). `readdir`
returns what was there when the directory was opened and is not removed since.

### InotifyEvents

The environment creates, opens, closes, deletes and moves files, makes, removes and
renames subfolders of one root, and moves them out of it or into it; each operation
appends its events to `events` when the folder is watched. The thread takes the head of
the queue and runs the branch for it (`Gone`, `FileMovedTo`, `FileCreated`,
`FileClosed`, `FolderCreated`, `FolderDeleted`, `FolderMovedFrom`, `FolderMovedTo`).
Reading a folder is a step for the watch (`ScanWatch`, `RenameWatch`) and one for each
file `readdir_r` returns, so the file system changes in between: a file of a new folder
is registered (`ScanEntry`), but of a file in a folder that was renamed only the row is
moved, if it has one (`MoveEntry`). A folder that arrives from elsewhere is handled as a
renamed one, from a path that is `Nowhere` or that of a folder that has left. `FolderOf`
is `_ms_inoti_get_full_path` with its fallback to the last node. Of contents the model
knows one bit: `fresh` has the files whose row was read from what they contain now;
opening a file to write takes it out, `ms_register_file` of a file without a row and
`ms_refresh_item` put it in. `hasty` remembers the files that got a row while they were
written, or were moved while they were, or onto another file.

Abstractions: subfolders are not nested; the notification folder that is the first
node of the real list is left out (`modify_watch` treats the first node
differently, but no rename can meet it); the kernel neither merges equal events nor
overflows its queue; one plug-in that does not fail; the ignore list is in
`IgnoreList`. `read` returns several events at once; taking them one by one is
equivalent, since nothing but the power-off flag is looked at between reads and the
flag is tested for each event. The test of `prev_mask` in line 630 is always zero
and is left out.

### WatchList, IgnoreList, InotifyLists

Nodes are addresses with `name` and `next` (`file`, `previous` and `following` in the
ignore list, where `following` is the code's `next`); freed addresses are remembered.
`watches` and `ignored` are what the lists should hold. Adding a watch is two steps,
the search that remembers the last node, and the link, because the code asks the
kernel in between; the other operations are one step each. With `AtOnce = FALSE` the
other thread does not use the watch list between these two steps. `InotifyLists` has
the callers: the card's folders are added and removed by the main loop, folder events
and the thread's end come from the inotify thread, and DRM files are stored by any
thread. After a use of freed memory the model stops (`dangled`).

## 3. Runs

| run | constants | properties | states |
|---|---|---|---|
| `registration` | two files, two plug-ins, one DRM file, one deletable file that no plug-in accepts, scans of all kinds | `TypeOK` `OneRegistrant` `WaiterIsServed` `AnswerIsForRequest` `OkMeansStored` `RequestAnswered` `ImplementsFairSingleFlight` | 657,635 |
| `service` | one client, a list of one file, two ports, room for one request, one kill, scans of all kinds | `ServiceTypeOK` `AnswerIsOwn` `PromiseIsKept` | 7,737,581 |
| `scan` | two files (one on the phone), two cards, 5 card changes, 2 kills or power-offs | `TypeOK` `RestShowsCard` `RequestsAreDistinct` `ScanIsMarked` `OnlyEndsForget` | 6,370,517 |
| `scan_live` | one file, 2 card changes, 1 kill or power-off, 1 failing connection, 1 file operation | `ComesToRest` `ScanThreadEnds` | 36,035 |
| `scan_plugins` | two plug-ins, a file for both and one for the second, 4 card changes, 2 failures | `TypeOK` `OthersDoNoHarm` `ConnectionsAreSound` | 225,504 |
| `dir_walk` | all trees of up to eight directories, four levels deep, 3 changes | `TypeOK` `DepthIsRight` `NothingIsMissed` `NothingLeaks` `WalkEnds` | 2,186,834 |
| `inotify` | one file name, two folder names, one inode for a subfolder, 6 operations, 1 calm rename, 1 move of a folder | `TypeOK` `RestShowsFiles` `OnlyHastyAreStale` `EventIsResolved` `InotifyThreadEnds` | 500,153 |
| `lists` | the notification folder, two folders of the phone, one of the card, two DRM files on the phone, one on the card, 4 watches, 3 ignored files | `TypeOK` `WatchesAreListed` `IgnoredAreListed` `OnlyGapsDangle` | 2,395,874 |

Why the bounds are enough:

* *Registration* has no bounds: calls repeat for ever. Two threads are all the code has.
  One path shows the contention, the second that an answer for one is not taken by the
  other; the second plug-in makes partial failure possible. A scan is a few steps, of
  which the deletion, an insertion and the end matter to a call in progress, and it may
  begin again at any time. That the second file has no rows keeps the liveness check
  short; the properties say nothing of rows of a file that may be deleted. Checked once
  besides, without the liveness: the same with a row for it (3.0 million states).
* *RegisterService*: the calls repeat for ever, too; what is bounded is the number of
  ports, and with it of calls that were given up, the buffer, and kills. Two ports are
  a socket that was left open with its answer under way, and the next call. Checked
  once besides, without scans: a list of two files (`MCTwoFiles`, 2.7 million states),
  where what is under way may be about another file than the one the client waits for.
* *ScanThread*: a scan, its interruption by a removal, the next card and its removal
  need four changes; the fifth completes the return of the first card. The first stop
  interrupts a scan at any point, the second the start that should repair it.
  `EveryChangeSeen` says that the card changes only when the callback for the last
  change has run; with FALSE (`scan_overlay`) callbacks coalesce. Cards are
  interchangeable: their symmetry is used in `scan`, not in the liveness run.
* *ScanPlugIns*: a card, its removal and its return need three changes, so a failure
  on the first can still show on the second, and both failures may fall into one
  request or into two. Checked once with 5 changes and 3 failures (1 million states).
* *DirWalk*: the walk climbs over two levels at once (from `x/x/x`), meets brothers
  with and without subfolders, and three changes can remove a directory that was
  listed, make one behind the walk and another in front of it.
* *InotifyEvents*: six operations cover a folder made, a file created, closed,
  opened again, moved and deleted in it, while no event has been handled yet.
* *InotifyLists*: four nodes have a head, an end and two in the middle; three files
  of the ignore list have a card file between two of the phone. Files of the phone are
  interchangeable.
* Deadlock is checked in `registration` only. The other systems may stop
  (`CHECK_DEADLOCK FALSE`): the server ends after a power-off or a kill, a walk ends,
  clients need not call, and once the bounds on the environment are used up everything
  rests.

What the properties say:

* `OneRegistrant`, `WaiterIsServed`, `AnswerIsForRequest`: the two threads never
  register the same file at once; whenever the main loop sleeps on an empty queue the
  inotify thread is at work on that file and will find `soc_queue` set; no answer or
  announcement outlives its request, and none is NULL.
* `OkMeansStored`: success for a media file means that at least one database has it,
  although the existence check comes before the lock and other threads insert and
  delete in between. Only a scan makes it untrue: while a full scan, which has deleted
  the row or will, has yet to come to the file (`Rescanned`), and after a scan that was
  stopped before the file or failed to store or validate it (`skipped`), until some
  plug-in stores it. The mutant drops a plug-in's failure, and its counterexample has
  no scan in it.
* `RequestAnswered`, `ImplementsFairSingleFlight`: every request is answered; the
  protocol implements the single flight including its liveness.
* `AnswerIsOwn`: at most one datagram is under way for a port on which a client waits,
  and it is about its file. Datagrams carry no number: the property rests on sockets
  that are left open after a timeout, and its mutant, which closes them, breaks it.
* `PromiseIsKept`: what any client was ever told is registered is in a database,
  across losses, repetitions and kills, with the same exceptions; a kill in a full scan
  adds one, the files the scan had yet to come to. That the next start repeats such a
  scan is what `ScanIsMarked` and `RestShowsCard` say of `ScanThread`.
* `RestShowsCard`: once all requests are served the valid rows are those of the card
  in the slot, whatever was interrupted or overlaid.
* `RequestsAreDistinct`: no request is in two places (and so freed twice), as long as
  each change is handled before the next.
* `ScanIsMarked`: while rows are incomplete, the persistent status says so, so the
  next start repairs them. `OnlyEndsForget`: the knowledge that the phone's rows are
  to be repaired is lost only when the process ends after `_db_clear` has reset the
  status (see below), and on no other path from the status to the request and the scan.
  (A connection that fails drops the request and its knowledge too; `scan` has
  `MaxFailures = 0` and `MaxFileOps = 0`.)
* `ComesToRest`, `ScanThreadEnds`: requests are served, power-off ends the thread.
* `OthersDoNoHarm`: a plug-in none of whose calls failed or was skipped shows exactly
  the files on the card that it accepts, however the others fail.
  `ConnectionsAreSound`: connections are used while they are open, with one exception.
* `DepthIsRight`: the counted depth, by which `ms_get_full_path_from_node` sizes its
  array, is the number of ancestors. `NothingIsMissed`: when the walk has ended by
  itself, each directory has been listed or was made in a directory listed by then,
  so that the inotify thread hears of it. `NothingLeaks`: the chain along `next`, which
  is not the one the walk follows, reaches every node. `WalkEnds`.
* `RestShowsFiles`: once events are handled and no file is open, the rows are those of
  the existing files, though the events were handled late. `OnlyHastyAreStale`: and
  they were read from what the files contain, with the named exceptions.
  `EventIsResolved`: the head of the queue belongs to a listed watch.
  `InotifyThreadEnds`: the power-off ends the thread main joins, even if no file ever
  changes again.
* `WatchesAreListed`, `IgnoredAreListed`: following the pointers gives what was added
  and not removed, in order. `OnlyGapsDangle`: a freed node is touched only where the
  removal of a card had freed one behind a file of the phone.

### Fairness

The threads are ordinary POSIX threads that are never suspended by the program, so
their steps are taken with `WF`. In `Registration` it is `SF`: a thread that wants
`queue_mutex` competes with one that takes it again and again, and glib's mutex lets
each waiter in eventually; for its other steps, which stay enabled until they are
taken, this says no more than `WF`. Nothing is assumed of clients, file events, the
scan thread of `Registration`, the file system, the card, kills or power-offs: they
may stop at any moment. The calls of plug-ins are assumed to return. `RegisterService`
states no liveness: nobody is bound to call or to start a killed server, and that a
request is answered once it is taken up is `RequestAnswered`. In `DirWalk` only the
walk is fair.

### Disagreements found

Four runs end with a counterexample on purpose; `PROJECT.json` quotes the sentence
each one contradicts.

| run | property | what the code does |
|---|---|---|
| `scan_overlay` | `RequestsAreDistinct` | two queued requests replaced by the same pointer: used and freed twice |
| `scan_card` | `RowsAreOfThisCard` | the cid recorded after a scan may be that of the next card |
| `inotify_stale` | `NoRowIsStale` | a file that is being written when its new folder is scanned keeps the row it got then |
| `lists_race` | `NoWatchIsLost` | two threads link behind the same node of the watch list |

More of them, met while modelling, have no run of their own. The models show those
marked (m): the property named holds only because the case is excluded or allowed.

* Registration: the recheck of a later plug-in hides the failure of an earlier one
  (`media-server-db-svc.c:517`), the result of `ms_drm_register` is dropped
  (`:528`), and a file no plug-in accepts is answered with success (`:603`, against
  `media-util-register.h:53`) (m, `OkMeansStored`).
* A full scan deletes the rows of files that still exist and stores them one by one
  (`media-server-db-svc.c:684`, `media-server-scan.c:134`): a file a client was told
  is registered has no row for a while, and none until the scan is repeated when the
  card is removed or the process killed in between (m, `Rescanned`, `skipped`).
* A result that `ms_read_socket` has no code for is answered with success
  (`media-server-socket.c`); `media_files_register` visits one element too many and
  drops the results of all; a client that gives up leaves its socket open (m,
  `SendMsg`, `FilesRegister`, `Timeout`).
* `_db_clear` sets the status to updated before the scan that repairs the rows has
  been requested (`media-server-main.c:160`): a process that ends in between, or whose
  connection then fails, forgets it (m, `OnlyEndsForget`).
* The end of a file operation (`media-server-inotify.c:516`) sets the status to
  updated in the middle of a scan. `ScanIsMarked` is therefore checked with
  `MaxFileOps = 0`; with 1 it fails at once.
* When callbacks coalesce (`media-server-external-storage.c:268`), a removal and a
  mount in quick succession are two mounts: the second scan only validates, and rows
  of files that vanished in between stay valid.
* A plug-in that fails in `ms_delete_all_items` makes the function return
  (`media-server-db-svc.c:694`): the plug-ins behind it keep the rows of the previous
  card (m, `suspect`). After a connection that failed (`:347`) the array stays with
  what `malloc` left in it, and a power-off before the next request closes it (m,
  `broken`). `main` does not look at the result of its own `ms_connect_db`
  (`media-server-main.c:223`).
* `_ms_dir_scan` frees the first node of its list only and drops the rest
  (`media-server-scan-internal.c:386`): `MS_SAFE_FREE` sets `node` to NULL.
* A folder renamed before its new file was handled loses that file
  (`media-server-inotify.c:138`): `RestShowsFiles` fails with `Calm = FALSE`.
* A folder moved in is taken for a renamed one (`:560`): the rows its files do not have
  are moved, and nothing is registered (`:149`), so `RestShowsFiles` fails with
  `Calm = FALSE`; and if another folder left before, that one's node is renamed and the
  new folder is not watched. The rows of a folder moved out stay. `Calm` lets only
  empty folders leave or arrive.
* A file moved onto another keeps the row of the one it replaced (`:604`), and a file
  moved while it is open leaves an entry in the list of created files, by which a later
  close of a file of that name is taken for that of a new one (m, `hasty`).
* With `Reuse = TRUE` and two inodes `EventIsResolved` fails: a folder made, removed
  and made again under one name before its events are handled is watched when the
  first event is read; the removal then drops the node, and later events of the
  watch are taken for those of the folder that is last in the list.
* `ms_inoti_delete_mmc_ignore_file` relinks `previous` but not `next` (`:234`): a file
  of the phone may point to a freed node, through which a later deletion writes (m,
  `gap`). Adding the first file allocates a node nobody frees.

## 4. Proofs

Every theorem is about all values of the constants that the named assumption of its
module allows; these say no more than what the code's data are (paths are not empty,
the number of plug-ins is a natural number, a marker is not one of the things it
marks the absence of, and so on), and TLC evaluates them in the runs. What a theorem
assumes beyond that is in the last column.

| module | theorem | statement | assumed |
|---|---|---|---|
| `RegistrationProofs` | `Typing` | `Spec => []TypeOK` | |
| | `Protocol` | `Spec => []ProtocolInv`, the inductive invariant below | |
| | `RegistrantIsAlone` | `Spec => []OneRegistrant` | |
| | `WaitIsSafe` | `Spec => []WaiterIsServed` | |
| | `RepliesAreOwn` | `Spec => []AnswerIsForRequest` | |
| | `OkIsStored` | `Spec => []OkMeansStored` | |
| | `Implementation` | `Spec => ImplementsSingleFlight` | |
| `RegisterServiceProofs` | `ServiceTyping` | `ServiceSpec => []ServiceTypeOK` | |
| | `AnswersAreOwn` | `ServiceSpec => []AnswerIsOwn` | |
| | `PromisesAreKept` | `ServiceSpec => []PromiseIsKept` | |
| `ScanThreadProofs` | `ScanTyping` | `Spec => []TypeOK` | |
| | `ScansAreMarked` | `Spec => [](fileOps = 0 => ScanIsMarked)` | |
| | `NoRequestTwice` | `Spec => []RequestsAreDistinct` | `EveryChangeSeen` |
| | `CardIsShown` | `Spec => [](failures = 0 => RestShowsCard)` | `EveryChangeSeen` |
| | `RepairIsRemembered` | `Spec => OnlyEndsForget` | no failing connection, no file operation |
| `ScanPlugInsProofs` | `PlugInTyping` | `Spec => []TypeOK` | |
| | `ConnectionsSound` | `Spec => []ConnectionsAreSound` | |
| | `NoHarmDone` | `Spec => []OthersDoNoHarm` | |
| `DirWalkProofs` | `WalkTyping` | `Spec => []TypeOK` | |
| | `DepthsAreRight` | `Spec => []DepthIsRight` | |
| | `NothingMissed` | `Spec => []NothingIsMissed` | |
| | `NothingLeaked` | `Spec => []NothingLeaks` | |
| `InotifyListsProofs` | `ListsTyping` | `Spec => []TypeOK` | |
| | `WatchesStayListed` | `Spec => []WatchesAreListed` | `~AtOnce` |
| | `IgnoredStayListed` | `Spec => []IgnoredAreListed` | |
| | `OnlyTheGapDangles` | `Spec => []OnlyGapsDangle` | |
| `InotifyEventsProofs` | `InotifyTyping` | `Spec => []TypeOK` | |
| | `EventsAreResolved` | `Spec => [](~Reuse /\ Within => EventIsResolved)` | no name used twice; `Within`, see below |
| | `FilesAreShown` | `Spec => [](~Reuse /\ Calm /\ Within => RestShowsFiles)` | the same, and `Calm` |
| | `OnlyHastyStay` | `Spec => [](~Reuse /\ Calm /\ Within => OnlyHastyAreStale)` | the same, and `Calm` |

The premises in the last columns are the limits of what the code does, not of the
proofs. Without `EveryChangeSeen` two changes of the card may be seen as one, and
runs `scan_overlay` and `scan_card` are what happens then (section 3). A connection
that fails drops the request it was made for and nothing asks for it again; the
event of a file operation that ends overwrites the status of a scan. With `AtOnce` a
watch is lost (run `lists_race`). A name that is
used again may stand for either folder in a queued event (`Reuse`); and `Within`,
at most one folder has crossed the border of the root folder or none is outside,
excludes that the thread takes a folder that arrives for one that has left: it
keeps the `moved_from` of the latter in `prev` until another folder moves or a file
is closed. Without `Calm` a file that is new in a folder being renamed is lost, and so
are the files of a folder that arrives (section 3): the rows at rest are then wrong.

**Registration.** `OneRegistrant` is not inductive: a thread may be anywhere between
the search of `reg_list` and its own insertion. `ProtocolInv` adds that the steps
between lock and unlock hold `queue_mutex` and no other thread does (`Exclusive`,
`HoldsMutex`), that `reg_list` lists exactly the paths in work, each once
(`Listed`), that a path found missing is still missing until the mutex is released
(`StillFree`), that only the main loop waits (`InotiNeverWaits`), and the two
properties about `soc_queue` and `ret_queue`.

`OkMeansStored` needs a second invariant, `StoredInv`, for the lasting files that some
plug-in accepts. Such a file is *covered* (`Covered`) when it is stored, or a full scan
has yet to come to it, or a scan skipped it. A call whose result is success has the
file covered, a failed insertion has turned the result into an error that only the
recheck may undo, and an answer of zero in `ret_queue` stands for a covered file. That
no step takes cover away (`CoverStays`) is shown for the registering threads
(`ThreadCovers`) and for the scan thread (`ScanCovers`) apart. The latter needs what
the scan thread knows (`ScanInv`): while a full scan deletes, it has yet to come to all
files, and a file with which a partial scan is through has a valid row, if it has any,
or was skipped, so that the rows `ms_delete_invalid_items` removes are not its last.

The refinement uses `ProtocolInv` to show that every step is one of `Begin`, `Join`,
`Complete`, `Collect` or a stutter under the mapping (`Stutter` collects the steps
that change neither work nor wait).

**The service.** A step of `RegisterService` is a step of `Registration`, a stutter
of it, a kill, or a start (`ServiceRefines`). After a kill the threads are idle again,
the databases are what they were, and what a full scan had yet to come to is skipped
(`KillRestarts`); a start makes rows stale when no scan relies on them
(`StartInvalidates`). So `ProtocolInv` and `StoredInv` hold in the service
without being proved a second time, and `ServiceInv` only adds types. `AnswerIsOwn`
speaks of the clients that wait; what makes it true is that a socket stays open when
its client gives up, so that its port is not given to the next call. `PortInv` says
so for all that is under way: of the requests in the buffer, the request in work and
the answers, at most one is for a port, that port is open, a client that waits has
it for itself, and what is under way for it is about its file. `PromiseInv` extends
`PromiseIsKept` to the answers that no client has read yet.

**The scan thread.** `RequestsAreDistinct` is a property of addresses, but what can
break it is the order of requests: `_insert_array` puts the pointer of a new request
in the place of each request it outdoes, so the same pointer is in `garray` twice as
soon as two of them are. The invariant therefore follows the requests for the card.
Between two to scan it there is one to drop it, across the request in work, `garray`
and `scan_queue` (`Alternate`), because the main loop, which is one change of the
key behind at most (`Follows`), pushes them in turns (`Asked`). The operations on
queues are reduced to what they do to six predicates on them (`PushView`,
`TailView`, `TakeView`, `InsertView`), and the steps are then propositional.
`FreshIsFree` shows that an address not in use exists and is not zero.

`RestShowsCard` adds the rows: before a scan of the card no row is valid
(`ReadyToScan`); a scan in progress that no request to drop the card follows has
validated exactly the files it has read (`Scanning`); a scan that drops the card
leaves no valid row (`Dropped`); with nothing asked and the card known to be in, the
rows are its files (`Settled`); and what is committed is what is seen outside of a
scan (`Committed`), which is what a kill needs. TLC checked these on the instance of
run `scan` before they were proved.

`OnlyEndsForget` is an action property: its proof needs what is on disk at each point
of a scan of the phone (`PhoneCommitted`, `PhoneProgress`), that the status is
"updated" outside of a scan (`Unmarked`), and that `_insert_array` never replaces a
request for the phone.

**The plug-ins.** `ConnectionsAreSound` becomes inductive with one conjunct more:
at the label of the last `ms_disconnect_db`, the connections are open or the last
operation on them failed (`Handles`). `OthersDoNoHarm` has the shape of
`RestShowsCard`, for each plug-in that is not suspect: `Asked` says which requests
follow from the card in the slot (the last one is to scan it, unless that is being
done or has been done), `Read` how much of the card a scan has read, and `Unharmed`
what the rows of the plug-in are in each phase.

**The walk.** Paths are a recursive function over the nodes, so the first lemmas are
inductions: that the function exists (`PathRecursion`), that nodes made later change
no path (`PathsKept`), and that following `next` reaches all nodes (`AllFreed`).
Induction is available for a set of numbers (`Induction` of `QueueLemmas`, from the
well-foundedness of finite subsets), which needs no operator as a parameter. What the
links are is then a few facts: parents are older (`Tree`), a right brother is the next
address and has the same parent, `next` is the next address (`Links`), and `depth` is
the level of `tmp_root`, one more once its directory is opened (`Position`).

`NothingIsMissed` speaks of the end only; the walk has no record of what is left to do.
`Awaited` supplies one: the set of nodes from `tmp_root` to the root, whose right
brothers are to be opened (`Later`), with `tmp_root` itself while it is new, and none
of these has a child yet (`Unopened`). Every directory that is neither listed nor
announced has one of them above it, or an entry of the directory being read that
`readdir` has not returned (`Covered`). Opening a directory hands its entries over,
reading one hands it to its node, the turn to a brother moves the spine (`Shifted`), a
climb shortens it (`Dropped`), and at the top nothing is left. A directory made by
others takes the cover of its parent, which is why the invariant also says that the
directories are closed under parents and that what is listed and exists is watched or
announced (`History`). TLC checked the whole invariant on the instance of run `dir_walk`
before it was proved.

**The lists.** Which nodes a list holds is no part of the state: it is what following
the pointers gives, a recursive function over a heap that changes in the middle. So
nothing is proved by unfolding it. `Chained` says, without recursion, that a sequence
of nodes, none twice, starts at a head and that each links to the next; `Followed`
shows once, by induction, that `Along` then returns that very sequence, and `Behind`
and the lemmas around it what becomes of it when a node is linked behind the last, cut
out, or when all nodes of a set are (`AmongPicks`: what remains is the elements at
ascending places). To show that an operation keeps a property of the list is then to
name the sequence it leaves behind. `WatchRight` says that the chain carries the names
of the history and no freed node; since adding is two steps, `AddRight` is needed:
only one thread is between them, and the last node its search remembered is still the
last, which is false as soon as the threads may meet there. `IgnoreRight` adds the
other direction: `next` goes back along `previous`, or, behind a card file that
`ms_inoti_delete_mmc_ignore_file` freed, to freed memory. That function follows and
mends `previous` only, so the way back stays broken, and `IgnoreInv` says that
this is the only way a freed node is reached. TLC checked the whole invariant on
the instance of run `lists` before it was proved.

**The inotify thread.** `EventIsResolved` needs to know more than that watched folders
have nodes: the thread takes nodes away, by the path that an older event names, and
renames them by paths as well, while the file system goes on. The invariant
(`Resolved`) says that one assignment `own` of a folder to each name used so far
explains at once the list of nodes (`NodesOwned`), a rename that is half done
(`ScanOwned`) and the queue: a queued `delete` is of a folder that is gone and has no
later event (`Removals`), and a `moved_from` and the next event, or `prev` and the
first event, are the two names of one folder (`Followed`, `Preceded`: the second is
needed when a folder may also arrive alone, the first when none can leave alone). A
folder that is new extends `own`; every other operation leaves it as it is. The steps
are reduced to what they do to the queue, of which the lemmas `...More`, `...Pair` and
`...Less` say what an addition at its end and the removal of its first event keep.
TLC checked the invariant on small instances before it was proved, also without the
restriction of run `inotify` to a calm file system.

**The rows at rest.** `RestShowsFiles` and `OnlyHastyAreStale` speak of states in which
nothing is left to do; an invariant must say at every moment why the row of each file
is right, or which event will make it so. `Steady` does, on top of `Resolved`:

* `Story` is about one file and the events that name it. For a file that exists, an
  event waits that registers it, with no removal behind (`Promised`: it was moved in, or
  is closed while the thread has it in the list of created files), or its writer has yet
  to close it and the thread will then still have it in that list (`CountedLast`), or no
  removal waits (`NoRemoval`) and it has its row, or the scan in progress has yet to
  come to it (`ToRead`; the scan behind a rename, `Moving`, only moves rows). For a row
  of a file that is gone a removal waits. And unless the file is in `hasty`, it is never
  listed as created twice (`Alternate`), and a row that is older than the contents will
  be refreshed (`Reread`) or the file is still open.
* `FoldersKnown` and `MovesKnown` are about folders: one that exists waits to be scanned
  (`New`), or has its node under its path (`NodeOf`), or its rename is being handled
  (`Renamed`); only one folder's `moved_to` waits at a time (`OneMove`).
* `NodesRight` (a folder has one node, and no created files before that), `ScanRight` and
  `RowsKnown` tie the rows to the nodes: each row is of a path that has a node, or one
  that the scan behind a rename has yet to move.

The lemmas `Story...` say what becomes of one file's story when an event is added for
it, when one is handled, and when its row or its contents change, whatever the
folders do. There is one lemma `...Steady` for each action, which finds the case of
`Story` it needs for every file; `RestIsRight` draws the conclusion, where the queue
is empty and all the reasons but the row itself are gone. TLC checked the whole
invariant on small instances before it was proved.

**Only model-checked.** The liveness properties (`RequestAnswered`, `ComesToRest`,
`ScanThreadEnds`, `InotifyThreadEnds`, `WalkEnds`) and the fair half of the refinement
(`ImplementsFairSingleFlight`), since fairness and `ENABLED` are out of the prover's
reach. Every invariant and every other action property of the passing runs is stated by
a theorem above.

## 5. Not modelled

* Plug-in loading (`dlopen` once at start), D-Bus and the notification library, path
  and string helpers, the power lock, `check_process`, packaging: sequential or pure
  output. `reset_mediadb.sh` appears as the kill in `ScanThread` and
  `RegisterService`.
* Memory that cannot be allocated, paths longer than the buffers, hidden names and
  directories that cannot be read for other reasons than that they are gone.
* In `InotifyEvents`: folders inside folders, the merging of equal events and an
  overflow of the kernel's queue.
* In the lists: two threads inside one operation other than the addition of a watch.
* Clients that exit while an answer to them is under way; their port may then be
  given to another process.
* In `Registration` the scan thread does not end at a power-off in the middle of a scan
  (a kill is in `RegisterService`, a power-off in `ScanThread`).
* DRM calls for the whole card: they have no state in the server.
* What remains true when card changes coalesce (`EveryChangeSeen = FALSE`), and what
  is lost when a connection fails and with it the request
  (`media-server-scan.c:127`): the liveness run shows only that the thread goes on.

## 6. Plan

Done, in this order: `Registration` with `SingleFlight` and `RegistrationProofs`,
`ScanThread`, `InotifyEvents`; then `WatchList` and `IgnoreList` with `InotifyLists`,
`RegisterService`, `DirWalk`, `ScanPlugIns`, and contents and moves in
`InotifyEvents`. Then the proofs about `RegisterService`, `ScanThread`,
`ScanPlugIns`, `InotifyEvents`, `DirWalk` and `InotifyLists`. Left:

1. An abstract specification of the scan ("the database shows what was last scanned")
   that `ScanThread` implements.
2. Folders inside folders in `InotifyEvents`, with the paths of `DirWalk`.
