----------------------------- MODULE ScanThread -----------------------------
(***************************************************************************)
(* Scanning of the two storages. The main thread boots                     *)
(* (common/media-server-main.c), follows the memory card in                *)
(* ms_mmc_vconf_cb (common/media-server-external-storage.c) and pushes     *)
(* requests on scan_queue; ms_scan_thread (common/media-server-scan.c)     *)
(* overlays them in garray and runs them one after the other, file by file *)
(* (_ms_dir_scan, common/media-server-scan-internal.c).                    *)
(*                                                                         *)
(* The process may be killed between any two steps and is started again;   *)
(* what survives is in disk, dbStatus and mmcInfo. The directory tree is a *)
(* flat set of names, and the two plug-in databases are one; the plug-ins  *)
(* are external.                                                           *)
(***************************************************************************)
EXTENDS Integers, Sequences, FiniteSets

CONSTANTS
  Names,           (* Names of files.                                      *)
  PhoneFiles,      (* The files of the internal storage.                   *)
  Cards,           (* Memory cards, by their cid.                          *)
  NoCard,          (* The cid read from an empty slot, and the initial one.*)
  Phone,           (* The medium of the internal storage.                  *)
  Absent,          (* No row.                                              *)
  InitialStatus,   (* VCONFKEY_FILEMANAGER_DB_STATUS when the model starts.*)
  EveryChangeSeen, (* The card changes only when the last change has been  *)
                   (* handled.                                             *)
  MaxChanges,      (* Bound: changes of the card.                          *)
  MaxStops,        (* Bound: kills and power-offs.                         *)
  MaxFailures,     (* Bound: failures of ms_connect_db.                    *)
  MaxFileOps       (* Bound: _FILEOPERATION_END events.                    *)

Storages == {"internal", "external"}

ASSUME ScanAssumption ==
  /\ PhoneFiles \subseteq Names
  /\ NoCard \notin Cards
  /\ Phone \notin Cards \cup {NoCard}
  /\ Absent \notin [card : Cards \cup {Phone}, valid : BOOLEAN]
  /\ InitialStatus \in {"updating", "updated"}
  /\ EveryChangeSeen \in BOOLEAN
  /\ {MaxChanges, MaxStops, MaxFailures, MaxFileOps} \subseteq Nat

(* ms_dir_scan_type_t and the value that stops the scan thread.            *)
MS_SCAN_INVALID == 0
MS_SCAN_PART    == 1
MS_SCAN_ALL     == 2
POWEROFF        == 10000

(* A request, with the address malloc gave it.                             *)
Requests == [id : Nat, storage : Storages \cup {"none"},
             type : {MS_SCAN_INVALID, MS_SCAN_PART, MS_SCAN_ALL, POWEROFF}]
NoRequest == [id |-> 0, storage |-> "none", type |-> POWEROFF]

(* A row says from which medium its metadata was read and whether it is    *)
(* valid.                                                                  *)
Rows == {Absent} \cup [card : Cards \cup {Phone}, valid : BOOLEAN]

VARIABLES
  slot,        (* The card in the slot with its files, or card NoCard.     *)
  mmcKey,      (* VCONFKEY_SYSMAN_MMC_STATUS.                              *)
  notified,    (* Calls of ms_mmc_vconf_cb that are due.                   *)
  mmcInfo,     (* MS_MMC_INFO_KEY.                                         *)
  dbStatus,    (* VCONFKEY_FILEMANAGER_DB_STATUS.                          *)
  disk,        (* External: the rows that are committed.                   *)
  main,        (* Where the main thread is.                                *)
  needDbCreate,(* need_db_create.                                          *)
  mmcState,    (* mmc_state.                                               *)
  scanType,    (* The scan_type main computed for the next request.        *)
  powerOff,    (* power_off.                                               *)
  scanQueue,   (* scan_queue.                                              *)
  garray,      (* garray of the scan thread.                               *)
  scan,        (* Where the scan thread is.                                *)
  cur,         (* Its scan_data.                                           *)
  db,          (* External: the rows as its connection sees them.          *)
  entry,       (* The directory entry it works on.                         *)
  visited,     (* The entries it has read in this scan.                    *)
  changes, stops, failures, fileOps (* What the bounds count.              *)

mmc == <<slot, mmcKey, notified>>
mainVars == <<main, needDbCreate, mmcState, scanType, powerOff>>
scanVars == <<garray, scan, cur, db, entry, visited>>
counters == <<changes, stops, failures, fileOps>>
vars == <<mmc, mmcInfo, dbStatus, disk, mainVars, scanQueue, scanVars, counters>>

TypeOK ==
  /\ slot \in [card : Cards \cup {NoCard}, files : SUBSET Names]
  /\ mmcKey \in {"removed", "not_mounted", "mounted"}
  /\ notified \in 0..MaxChanges
  /\ mmcInfo \in Cards \cup {NoCard}
  /\ dbStatus \in {"updating", "updated"}
  /\ disk \in [Storages -> [Names -> Rows]]
  /\ main \in {"clear", "mark", "threads", "phone", "mmc", "removed", "decide",
               "push", "loop", "poweroff", "join"}
  /\ needDbCreate \in BOOLEAN
  /\ mmcState \in {"removed", "not_mounted", "mounted"}
  /\ scanType \in {MS_SCAN_PART, MS_SCAN_ALL}
  /\ powerOff \in BOOLEAN
  /\ scanQueue \in Seq(Requests)
  /\ garray \in Seq(Requests)
  /\ scan \in {"off", "loop", "connect", "begin", "delete", "files", "file",
               "end", "validate", "updated", "info", "exited"}
  /\ cur \in Requests \cup {NoRequest}
  /\ scan \notin {"off", "loop", "exited"} => cur.storage \in Storages
  /\ db \in [Storages -> [Names -> Rows]]
  /\ entry \in Names \cup {Absent}
  /\ visited \subseteq Names
  /\ changes \in 0..MaxChanges /\ stops \in 0..MaxStops
  /\ failures \in 0..MaxFailures /\ fileOps \in 0..MaxFileOps

(* What a process starts with.                                             *)
Boot(d) ==
  /\ main' = "clear" /\ needDbCreate' = FALSE /\ mmcState' = "removed"
  /\ scanType' = MS_SCAN_ALL /\ powerOff' = FALSE
  /\ notified' = 0 /\ scanQueue' = <<>> /\ garray' = <<>>
  /\ scan' = "off" /\ cur' = NoRequest /\ db' = d
  /\ entry' = Absent /\ visited' = {}

Shown(s) ==
  [n \in Names |-> IF n \in PhoneFiles /\ s = "internal"
                   THEN [card |-> Phone, valid |-> TRUE] ELSE Absent]

Init ==
  /\ slot = [card |-> NoCard, files |-> {}]
  /\ mmcKey = "removed" /\ mmcInfo = NoCard
  /\ dbStatus = InitialStatus
  /\ disk = [s \in Storages |-> Shown(s)]
  /\ main = "clear" /\ needDbCreate = FALSE /\ mmcState = "removed"
  /\ scanType = MS_SCAN_ALL /\ powerOff = FALSE
  /\ notified = 0 /\ scanQueue = <<>> /\ garray = <<>>
  /\ scan = "off" /\ cur = NoRequest /\ db = disk
  /\ entry = Absent /\ visited = {}
  /\ changes = 0 /\ stops = 0 /\ failures = 0 /\ fileOps = 0

-----------------------------------------------------------------------------
(* Requests are malloc'ed: an address no live request has.                 *)
InUse == {r.id : r \in {scanQueue[i] : i \in DOMAIN scanQueue}
                       \cup {garray[i] : i \in DOMAIN garray} \cup {cur}}
Fresh == CHOOSE i \in 1..(Cardinality(InUse) + 1) : i \notin InUse

(* g_async_queue_push(scan_queue, ...).                                    *)
Push(storage, type) ==
  scanQueue' = Append(scanQueue, [id |-> Fresh, storage |-> storage, type |-> type])

(* _db_clear: the rows of the card are invalid until it has been scanned,  *)
(* and those of the phone too when the last scan was not completed.        *)
Invalid(row) == IF row = Absent THEN Absent ELSE [row EXCEPT !.valid = FALSE]
Invalidated(d, s) == [d EXCEPT ![s] = [n \in Names |-> Invalid(d[s][n])]]

(* need_db_create; in the mutant it is not set.                            *)
NeverNeeded == FALSE
NeedDbCreate == dbStatus = "updating"

BootClear ==
  /\ main = "clear"
  /\ needDbCreate' = NeedDbCreate
  /\ disk' = LET d == Invalidated(disk, "external")
             IN  IF dbStatus = "updating" THEN Invalidated(d, "internal") ELSE d
  /\ db' = disk'
  /\ main' = "mark"
  /\ UNCHANGED <<mmc, mmcInfo, dbStatus, mmcState, scanType, powerOff, scanQueue,
                 garray, scan, cur, entry, visited, counters>>

(* _db_clear: ms_set_db_status(MS_DB_UPDATED).                             *)
BootMark ==
  /\ main = "mark"
  /\ dbStatus' = "updated"
  /\ main' = "threads"
  /\ UNCHANGED <<mmc, mmcInfo, disk, needDbCreate, mmcState, scanType, powerOff,
                 scanQueue, scanVars, counters>>

(* main: the threads are created and the callback is subscribed.           *)
BootThreads ==
  /\ main = "threads"
  /\ scan' = "loop"
  /\ main' = "phone"
  /\ UNCHANGED <<mmc, mmcInfo, dbStatus, disk, needDbCreate, mmcState, scanType,
                 powerOff, scanQueue, garray, cur, db, entry, visited, counters>>

(* main: the request for the phone.                                        *)
BootPhone ==
  /\ main = "phone"
  /\ IF needDbCreate THEN Push("internal", MS_SCAN_ALL) ELSE UNCHANGED scanQueue
  /\ main' = "mmc"
  /\ UNCHANGED <<mmc, mmcInfo, dbStatus, disk, needDbCreate, mmcState, scanType,
                 powerOff, scanVars, counters>>

(* main: ms_is_mmc_inserted.                                               *)
BootMmc ==
  /\ main = "mmc"
  /\ \/ mmcKey = "mounted" /\ mmcState' = "mounted" /\ main' = "decide"
     \/ mmcKey # "mounted" /\ main' = "loop" /\ UNCHANGED mmcState
  /\ UNCHANGED <<mmc, mmcInfo, dbStatus, disk, needDbCreate, scanType, powerOff,
                 scanQueue, scanVars, counters>>

(* ms_mmc_vconf_cb reads the key: the state it was called for may be gone. *)
CardChanged ==
  /\ main = "loop" /\ notified > 0
  /\ notified' = notified - 1
  /\ mmcState' = mmcKey
  /\ main' = IF mmcKey = "mounted" THEN "decide" ELSE "removed"
  /\ UNCHANGED <<slot, mmcKey, mmcInfo, dbStatus, disk, needDbCreate, scanType,
                 powerOff, scanQueue, scanVars, counters>>

(* ms_mmc_removed_handler.                                                 *)
CardRemoved ==
  /\ main = "removed"
  /\ Push("external", MS_SCAN_INVALID)
  /\ main' = "loop"
  /\ UNCHANGED <<mmc, mmcInfo, dbStatus, disk, needDbCreate, mmcState, scanType,
                 powerOff, scanVars, counters>>

(* _ms_get_mmc_info: the cid of the card that is in the slot now, mounted  *)
(* or not.                                                                 *)
Cid == slot.card

(* ms_get_mmc_state: is it the card that was scanned last?                 *)
SameCard == Cid = mmcInfo

GetMmcState ==
  /\ main = "decide"
  /\ scanType' = IF SameCard THEN MS_SCAN_PART ELSE MS_SCAN_ALL
  /\ main' = "push"
  /\ UNCHANGED <<mmc, mmcInfo, dbStatus, disk, needDbCreate, mmcState, powerOff,
                 scanQueue, scanVars, counters>>

CardMounted ==
  /\ main = "push"
  /\ Push("external", scanType)
  /\ main' = "loop"
  /\ UNCHANGED <<mmc, mmcInfo, dbStatus, disk, needDbCreate, mmcState, scanType,
                 powerOff, scanVars, counters>>

(* _power_off_cb: the flag, then the request and the end of the main loop. *)
(* The mutant only sets the flag.                                          *)
PowerOff ==
  /\ main = "loop" /\ stops < MaxStops
  /\ powerOff' = TRUE
  /\ main' = "poweroff"
  /\ stops' = stops + 1
  /\ UNCHANGED <<mmc, mmcInfo, dbStatus, disk, needDbCreate, mmcState, scanType,
                 scanQueue, scanVars, changes, failures, fileOps>>

FlagOnly == UNCHANGED scanQueue
NotifyScanThread == Push("none", POWEROFF)

PowerOffPush ==
  /\ main = "poweroff"
  /\ NotifyScanThread
  /\ main' = "join"
  /\ UNCHANGED <<mmc, mmcInfo, dbStatus, disk, needDbCreate, mmcState, scanType,
                 powerOff, scanVars, counters>>

(* g_thread_join(scan_tid), the end of main and the next start.            *)
Join ==
  /\ main = "join" /\ scan = "exited"
  /\ Boot(disk)
  /\ UNCHANGED <<slot, mmcKey, mmcInfo, dbStatus, disk, counters>>

(* The process is killed and started again. reset_mediadb.sh, which kills  *)
(* it, first sets the status back, forgets the card, or both; the steps of *)
(* the script are taken as one.                                            *)
Crash ==
  /\ stops < MaxStops
  /\ stops' = stops + 1
  /\ dbStatus' \in {dbStatus, "updating"}
  /\ mmcInfo' \in {mmcInfo, NoCard}
  /\ Boot(disk)
  /\ UNCHANGED <<slot, mmcKey, disk, changes, failures, fileOps>>

-----------------------------------------------------------------------------
(* The card is inserted with the files it has been given, unmounted,       *)
(* mounted again, removed. The callback is called for every change of the  *)
(* key, once it is subscribed.                                             *)
Notify == IF main \in {"clear", "mark", "threads"} THEN 0 ELSE 1
MayChange ==
  /\ changes < MaxChanges
  /\ EveryChangeSeen => main = "clear" \/ (main = "loop" /\ notified = 0)

ChangeCard ==
  /\ MayChange
  /\ \/ /\ slot.card = NoCard
        /\ \E c \in Cards, F \in SUBSET Names : slot' = [card |-> c, files |-> F]
        /\ mmcKey' = "mounted"
     \/ /\ mmcKey = "not_mounted"
        /\ mmcKey' = "mounted"
        /\ UNCHANGED slot
     \/ /\ mmcKey = "mounted"
        /\ mmcKey' = "not_mounted"
        /\ UNCHANGED slot
     \/ /\ slot.card # NoCard
        /\ slot' = [card |-> NoCard, files |-> {}]
        /\ mmcKey' = "removed"
  /\ notified' = notified + Notify
  /\ changes' = changes + 1
  /\ UNCHANGED <<mmcInfo, dbStatus, disk, mainVars, scanQueue, scanVars,
                 stops, failures, fileOps>>

(* ms_inoti_thread: the file manager's _FILEOPERATION_END announces that   *)
(* the database is updated. power_off was read before, so it may be set.   *)
FileOperationEnd ==
  /\ scan # "off" /\ fileOps < MaxFileOps
  /\ fileOps' = fileOps + 1
  /\ dbStatus' = "updated"
  /\ UNCHANGED <<mmc, mmcInfo, disk, mainVars, scanQueue, scanVars, changes,
                 stops, failures>>

-----------------------------------------------------------------------------
(* _insert_array: POWEROFF goes first; any other request takes the place of*)
(* every request for the same storage whose type is greater, or is added   *)
(* at the end. The mutant adds it at the end in any case.                  *)
Outdoes(r, old) ==
  old.type # POWEROFF /\ old.storage = r.storage /\ old.type > r.type

ReplacedAndAppended(g, r) ==
  Append([i \in DOMAIN g |-> IF Outdoes(r, g[i]) THEN r ELSE g[i]], r)

InsertArray(g, r) ==
  IF r.type = POWEROFF THEN <<r>> \o g
  ELSE IF \E i \in DOMAIN g : Outdoes(r, g[i])
       THEN [i \in DOMAIN g |-> IF Outdoes(r, g[i]) THEN r ELSE g[i]]
       ELSE Append(g, r)

(* ms_scan_thread: the queue is emptied into garray first.                 *)
ScanMerge ==
  /\ scan = "loop" /\ scanQueue # <<>>
  /\ garray' = InsertArray(garray, Head(scanQueue))
  /\ scanQueue' = Tail(scanQueue)
  /\ UNCHANGED <<mmc, mmcInfo, dbStatus, disk, mainVars, scan, cur, db, entry,
                 visited, counters>>

(* The first request of garray is taken out, and served unless it is       *)
(* POWEROFF. The mutants leave it there, and serve POWEROFF too.           *)
LeftThere(g) == g
TakenOut(g) == Tail(g)
AlwaysServed(r) == "connect"
ServedAt(r) == IF r.type = POWEROFF THEN "exited" ELSE "connect"

ScanTake ==
  /\ scan = "loop" /\ scanQueue = <<>> /\ garray # <<>>
  /\ cur' = Head(garray)
  /\ garray' = TakenOut(garray)
  /\ scan' = ServedAt(Head(garray))
  /\ UNCHANGED <<mmc, mmcInfo, dbStatus, disk, mainVars, scanQueue, db, entry,
                 visited, counters>>

(* ms_connect_db: "if conneting is failed, db updating is stopped".        *)
ScanConnect ==
  /\ scan = "connect"
  /\ \/ scan' = "begin" /\ UNCHANGED <<cur, failures>>
     \/ /\ failures < MaxFailures
        /\ failures' = failures + 1
        /\ scan' = "loop" /\ cur' = NoRequest
  /\ UNCHANGED <<mmc, mmcInfo, dbStatus, disk, mainVars, scanQueue, garray, db,
                 entry, visited, changes, stops, fileOps>>

(* "start db updating"; a full scan goes on to delete all rows. The mutant *)
(* does not announce it.                                                   *)
BeginUnmarked == dbStatus
BeginStatus == "updating"

ScanBegin ==
  /\ scan = "begin"
  /\ dbStatus' = BeginStatus
  /\ scan' = IF cur.type = MS_SCAN_ALL THEN "delete" ELSE "files"
  /\ visited' = {}
  /\ UNCHANGED <<mmc, mmcInfo, disk, mainVars, scanQueue, garray, cur, db, entry,
                 counters>>

(* ms_delete_all_items.                                                    *)
ScanDeleteAll ==
  /\ scan = "delete"
  /\ db' = [db EXCEPT ![cur.storage] = [n \in Names |-> Absent]]
  /\ disk' = db'
  /\ scan' = "files"
  /\ UNCHANGED <<mmc, mmcInfo, dbStatus, mainVars, scanQueue, garray, cur, entry,
                 visited, counters>>

(* _ms_dir_scan of an invalidating request: ms_invalidate_all_items.       *)
ScanInvalidate ==
  /\ scan = "files" /\ cur.type = MS_SCAN_INVALID
  /\ db' = Invalidated(db, cur.storage)
  /\ disk' \in {disk, db'}
  /\ scan' = "end"
  /\ UNCHANGED <<mmc, mmcInfo, dbStatus, mainVars, scanQueue, garray, cur, entry,
                 visited, counters>>

(* What readdir finds of the storage at this moment.                       *)
Files ==
  IF cur.storage = "internal" THEN PhoneFiles
  ELSE IF mmcKey = "mounted" THEN slot.files ELSE {}
Medium == IF cur.storage = "internal" THEN Phone ELSE slot.card

(* "check poweroff status", "check SD card in out".                        *)
Stopped == powerOff \/ (cur.storage = "external" /\ mmcState # "mounted")

ScanReadDir ==
  /\ scan = "files" /\ cur.type # MS_SCAN_INVALID
  /\ \/ /\ Stopped \/ Files \subseteq visited
        /\ scan' = "end"
        /\ UNCHANGED <<entry, visited>>
     \/ /\ ~Stopped
        /\ \E n \in Files \ visited : entry' = n /\ visited' = visited \cup {n}
        /\ scan' = "file"
  /\ UNCHANGED <<mmc, mmcInfo, dbStatus, disk, mainVars, scanQueue, garray, cur,
                 db, counters>>

(* ms_validate_item revives a row and inserts a missing one;               *)
(* ms_insert_item_batch inserts. A file that is gone by now fails. The     *)
(* plug-ins commit when they have collected enough. The mutant of Validated*)
(* leaves an existing row as it is.                                        *)
Added(row) == IF row = Absent THEN [card |-> Medium, valid |-> TRUE] ELSE row
Validated(row) ==
  IF row # Absent /\ cur.type = MS_SCAN_PART THEN [row EXCEPT !.valid = TRUE]
  ELSE Added(row)

ScanFile ==
  /\ scan = "file"
  /\ db' = IF entry \in Files
           THEN [db EXCEPT ![cur.storage][entry] = Validated(@)]
           ELSE db
  /\ disk' \in {disk, db'}
  /\ scan' = "files"
  /\ entry' = Absent
  /\ UNCHANGED <<mmc, mmcInfo, dbStatus, mainVars, scanQueue, garray, cur,
                 visited, counters>>

(* After _ms_dir_scan: power off leaves everything as it is, otherwise     *)
(* ms_register_end and ms_validate_end commit.                             *)
ScanEnd ==
  /\ scan = "end"
  /\ \/ powerOff /\ scan' = "exited" /\ UNCHANGED disk
     \/ /\ ~powerOff
        /\ disk' = db
        /\ scan' = IF cur.type = MS_SCAN_PART THEN "validate" ELSE "updated"
  /\ UNCHANGED <<mmc, mmcInfo, dbStatus, mainVars, scanQueue, garray, cur, db,
                 entry, visited, counters>>

(* ms_delete_invalid_items.                                                *)
ScanDeleteInvalid ==
  /\ scan = "validate"
  /\ db' = [db EXCEPT ![cur.storage] =
              [n \in Names |-> IF @[n] # Absent /\ ~@[n].valid THEN Absent ELSE @[n]]]
  /\ disk' = db'
  /\ scan' = "updated"
  /\ UNCHANGED <<mmc, mmcInfo, dbStatus, mainVars, scanQueue, garray, cur, entry,
                 visited, counters>>

(* ms_set_db_status(MS_DB_UPDATED); after a full scan of a card its cid is *)
(* recorded.                                                               *)
ScanUpdated ==
  /\ scan = "updated"
  /\ dbStatus' = "updated"
  /\ IF cur.storage = "external" /\ cur.type = MS_SCAN_ALL
     THEN scan' = "info" /\ UNCHANGED cur
     ELSE scan' = "loop" /\ cur' = NoRequest
  /\ UNCHANGED <<mmc, mmcInfo, disk, mainVars, scanQueue, garray, db, entry,
                 visited, counters>>

(* ms_update_mmc_info.                                                     *)
ScanUpdateMmcInfo ==
  /\ scan = "info"
  /\ mmcInfo' = Cid
  /\ scan' = "loop" /\ cur' = NoRequest
  /\ UNCHANGED <<mmc, dbStatus, disk, mainVars, scanQueue, garray, db, entry,
                 visited, counters>>

-----------------------------------------------------------------------------
Server ==
  \/ BootClear \/ BootMark \/ BootThreads \/ BootPhone \/ BootMmc
  \/ CardChanged \/ CardRemoved \/ GetMmcState \/ CardMounted
  \/ PowerOffPush \/ Join

Scanner ==
  \/ ScanMerge \/ ScanTake \/ ScanConnect \/ ScanBegin \/ ScanDeleteAll \/ ScanInvalidate
  \/ ScanReadDir \/ ScanFile \/ ScanEnd \/ ScanDeleteInvalid \/ ScanUpdated
  \/ ScanUpdateMmcInfo

Next == Server \/ Scanner \/ ChangeCard \/ FileOperationEnd \/ PowerOff \/ Crash

Spec == Init /\ [][Next]_vars

(* The two threads keep running. Nothing is assumed of the card, of the    *)
(* file manager and of kills.                                              *)
FairSpec == Spec /\ WF_vars(Server) /\ WF_vars(Scanner)

-----------------------------------------------------------------------------
(* Everything that was asked for has been done.                            *)
Quiet ==
  /\ main = "loop" /\ notified = 0 /\ scanQueue = <<>>
  /\ scan = "loop" /\ garray = <<>>

(* When the server comes to rest, the rows that are valid are those of the *)
(* files on the card in the slot, and nothing else is left of them when it *)
(* is mounted: whatever card was in the slot before, at whichever file the *)
(* scan was interrupted, and whatever was overlaid in garray.              *)
RestShowsCard ==
  Quiet =>
    \A n \in Names :
      IF mmcState = "mounted"
      THEN IF n \in slot.files
           THEN disk["external"][n] # Absent /\ disk["external"][n].valid
           ELSE disk["external"][n] = Absent
      ELSE disk["external"][n] # Absent => ~disk["external"][n].valid

(* No request is in two places: each is processed once, and freed once.    *)
RequestsAreDistinct ==
  LET all == <<cur>> \o garray \o scanQueue
  IN  \A i, j \in DOMAIN all : i # j => all[i].id # all[j].id

(* While the rows of a scan are incomplete, the persistent status says so: *)
(* this is what the next start after a kill looks at.                      *)
ScanIsMarked ==
  scan \in {"delete", "files", "file", "end", "validate", "updated"} =>
    dbStatus = "updating"

(* The rows of the phone are complete, or somebody knows that a scan is    *)
(* due: the persistent status, unless a scan of the card has set it; main  *)
(* on its way to the request; or a request for a full scan.                *)
RescanIsPending ==
  LET Due(r) == r.storage = "internal" /\ r.type = MS_SCAN_ALL
  IN  \/ disk["internal"] = Shown("internal")
      \/ dbStatus = "updating" /\ cur.storage # "external"
      \/ needDbCreate /\ main \in {"mark", "threads", "phone"}
      \/ \E i \in DOMAIN scanQueue : Due(scanQueue[i])
      \/ \E i \in DOMAIN garray : Due(garray[i])
      \/ Due(cur) /\ scan \in {"connect", "begin"}

(* The repair of the phone's rows after an interrupted scan is never       *)
(* forgotten while the process lives. It is forgotten when the process ends*)
(* after _db_clear has set the status to updated and before the scan has   *)
(* set it back: the next start sees no trace of it.                        *)
OnlyEndsForget ==
  [][RescanIsPending => RescanIsPending' \/ (main' = "clear" /\ dbStatus = "updated")]_vars

(* Every scan ends and every request is served in the end: the server comes*)
(* to rest again and again, unless it is being switched off.               *)
ComesToRest == []<>(Quiet \/ powerOff)

(* A power-off ends the scan thread, whatever it is doing and however many *)
(* requests are still queued (unless the process is killed before).        *)
ScanThreadEnds == powerOff ~> (scan = "exited" \/ ~powerOff)

-----------------------------------------------------------------------------
(* "To reset media db when differnet mmc is inserted." (ms_delete_all_items*)
(* in media-server-db-svc.c): at rest, no row of the card in the slot has  *)
(* its metadata from another card. ms_update_mmc_info also records a card  *)
(* that arrived while the scan of its predecessor was being abandoned.     *)
RowsAreOfThisCard ==
  Quiet /\ mmcState = "mounted" =>
    \A n \in slot.files :
      disk["external"][n] # Absent => disk["external"][n].card = slot.card
=============================================================================
