---------------------------- MODULE Registration ----------------------------
(***************************************************************************)
(* Registration of one file in the media database: ms_register_file        *)
(* (common/media-server-db-svc.c) as it is called by the two threads that  *)
(* share it: the main loop, in ms_read_socket (common/media-server-        *)
(* socket.c), for a client's request, and the inotify thread               *)
(* (common/media-server-inotify.c) for file events.                        *)
(*                                                                         *)
(* A file that is already being registered is never registered twice: the  *)
(* second thread finds its path in reg_list and returns; the main loop     *)
(* then sleeps on ret_queue until the inotify thread pushes its own result.*)
(* soc_queue, a single global, says that somebody sleeps.                  *)
(*                                                                         *)
(* Every access to the shared state is a step of its own, so the two       *)
(* threads interleave as they do in the program. The plug-ins (dlopen'ed,  *)
(* one database each), the DRM service and the MIME library are external:  *)
(* each call may fail.                                                     *)
(*                                                                         *)
(* The scan thread (common/media-server-scan.c) writes the same databases  *)
(* without taking part in the protocol: a full scan first deletes every row*)
(* of its storage, a partial one at last those that are not valid. Paths   *)
(* are the files of one storage.                                           *)
(***************************************************************************)
EXTENDS Integers, Sequences

CONSTANTS
  Paths,      (* Full paths of files of one storage.                       *)
  LibNum,     (* lib_num: number of plug-ins loaded by ms_load_functions.  *)
  Category,   (* Category[p]: the plug-ins whose check_item accepts p.     *)
  Drm,        (* The paths ms_is_drm_file recognises.                      *)
  Deletable,  (* The paths that may be deleted while the server runs; the  *)
              (* other files exist all the time.                           *)
  Scans       (* The scans asked for: "all", "part" or "invalid".          *)

Libs == 1..LibNum
Lasting == Paths \ Deletable

ASSUME RegistrationAssumption ==
  /\ Paths # {}
  /\ "nobody" \notin Paths
  /\ LibNum \in Nat
  /\ Category \in [Paths -> SUBSET Libs]
  /\ Drm \subseteq Paths
  /\ Deletable \subseteq Paths
  /\ Scans \subseteq {"all", "part", "invalid"}

(* Result codes of common/include/media-server-error.h.                    *)
MS_ERR_NONE                  == 0
MS_ERR_DB_INSERT_RECORD_FAIL == -49
MS_ERR_MIME_GET_FAIL         == -100
MS_ERR_MAX                   == -255

(* The results ms_register_file computes itself.                           *)
Results == {MS_ERR_NONE, MS_ERR_DB_INSERT_RECORD_FAIL, MS_ERR_MIME_GET_FAIL}

(* The form in which they travel through ret_queue, and back.              *)
Pushed(r) == r + MS_ERR_MAX
PoppedRaw(v) == v                    (* Mutant of Popped.                  *)
Popped(v) == v - MS_ERR_MAX

Main    == "main"     (* The main loop, running ms_read_socket.            *)
Inoti   == "inoti"    (* ms_inoti_thread.                                  *)
Threads == {Main, Inoti}
Nobody  == "nobody"

VARIABLES
  pc,          (* Where each thread is in ms_register_file.                *)
  path,        (* The path argument of each thread's call.                 *)
  lib,         (* lib_index of the loop over plug-ins each thread runs.    *)
  res,         (* The result each thread has computed so far.              *)
  queueMutex,  (* The holder of queue_mutex.                               *)
  regList,     (* reg_list: how often each path occurs in the array.       *)
  socQueue,    (* soc_queue # NULL: a reply is awaited on ret_queue.       *)
  retQueue,    (* ret_queue; path is a history field, val the pointer.     *)
  db,          (* External: db[l] holds the items plug-in l has stored.    *)
  stale,       (* External: the items of db[l] whose validity is 0.        *)
  ignore,      (* The ignore file list, as a set of paths.                 *)
  drm,         (* External: files registered with the DRM service.         *)
  scan,        (* What ms_scan_thread is doing.                            *)
  scanLib,     (* lib_index of the loop over plug-ins it runs.             *)
  due,         (* Lasting files the scan has yet to come to, or whose rows *)
               (* it has not committed yet.                                *)
  skipped      (* History: files a scan left without a row it should have, *)
               (* and that no plug-in has stored since.                    *)

lists == <<regList, socQueue, retQueue>>
store == <<db, stale, ignore, drm>>
scanVars == <<scan, scanLib, due, skipped>>
vars == <<pc, path, lib, res, queueMutex, lists, store, scanVars>>

Labels == {"idle", "exist", "lock", "find", "enlist", "busy", "mime", "insert",
           "mime2", "recheck", "drm", "lock2", "finish", "pop", "send",
           "delete"}

(* Between _ms_insert_reg_list and _ms_delete_reg_list.                    *)
Registering(t) == pc[t] \in {"mime", "insert", "mime2", "recheck", "drm",
                             "lock2", "finish"}

(* What travels through ret_queue.                                         *)
Replies == [path : Paths, val : {Pushed(r) : r \in Results}]

TypeOK ==
  /\ pc \in [Threads -> Labels]
  /\ path \in [Threads -> Paths]
  /\ lib \in [Threads -> 1..(LibNum + 1)]
  /\ res \in [Threads -> Results]
  /\ queueMutex \in Threads \cup {Nobody}
  /\ regList \in [Paths -> Nat]
  /\ socQueue \in BOOLEAN
  /\ retQueue \in Seq(Replies)
  /\ db \in [Libs -> SUBSET Paths]
  /\ stale \in [Libs -> SUBSET Paths]
  /\ ignore \subseteq Paths
  /\ drm \subseteq Paths
  /\ scan \in {"idle", "delete", "insert", "validate", "clean"}
  /\ scanLib \in 1..(LibNum + 1)
  /\ due \subseteq Lasting
  /\ skipped \subseteq Lasting

Init ==
  /\ pc = [t \in Threads |-> "idle"]
  /\ path = [t \in Threads |-> CHOOSE p \in Paths : TRUE]
  /\ lib = [t \in Threads |-> 1]
  /\ res = [t \in Threads |-> MS_ERR_NONE]
  /\ queueMutex = Nobody
  /\ regList = [p \in Paths |-> 0]
  /\ socQueue = FALSE
  /\ retQueue = <<>>
  /\ db = [l \in Libs |-> {}]
  /\ stale = [l \in Libs |-> {}]
  /\ ignore = {}
  /\ drm = {}
  /\ scan = "idle"
  /\ scanLib = 1
  /\ due = {}
  /\ skipped = {}

-----------------------------------------------------------------------------
Goto(t, label) == pc' = [pc EXCEPT ![t] = label]

(* A call is over, and with it its locals.                                 *)
Over(t) ==
  /\ Goto(t, "idle")
  /\ lib' = [lib EXCEPT ![t] = 1]
  /\ res' = [res EXCEPT ![t] = MS_ERR_NONE]

(* ms_register_file returns: the inotify thread only logs the result,      *)
(* ms_read_socket goes on to g_async_queue_pop or to sendto.               *)
Leave(t, label) ==
  IF t = Main THEN Goto(Main, label) /\ UNCHANGED <<lib, res>> ELSE Over(t)

Return(t) == Leave(t, "send")

Call(t, p, label) ==
  /\ pc[t] = "idle"
  /\ Goto(t, label)
  /\ path' = [path EXCEPT ![t] = p]
  /\ lib' = [lib EXCEPT ![t] = 1]
  /\ res' = [res EXCEPT ![t] = MS_ERR_NONE]
  /\ UNCHANGED <<queueMutex, lists, store, scanVars>>

(* ms_read_socket: a request datagram is received.                         *)
Receive(p) == Call(Main, p, "exist")

(* ms_inoti_thread: IN_MOVED_TO, IN_CLOSE_WRITE of a new file, or a file   *)
(* found in a new directory.                                               *)
InotiRegister(p) == Call(Inoti, p, "exist")

(* ms_inoti_thread: IN_DELETE or IN_MOVED_FROM of a file.                  *)
InotiDelete(p) == p \in Deletable /\ Call(Inoti, p, "delete")

-----------------------------------------------------------------------------
(* ms_check_exist, one plug-in per step: the first plug-in that does not   *)
(* hold the item, or whose query fails, ends the loop.                     *)
CheckExist(t) ==
  /\ pc[t] = "exist"
  /\ \/ /\ lib[t] > LibNum
        /\ Return(t)
     \/ /\ lib[t] \in Libs
        /\ path[t] \in db[lib[t]]
        /\ lib' = [lib EXCEPT ![t] = @ + 1]
        /\ UNCHANGED <<pc, res>>
     \/ /\ lib[t] \in Libs
        /\ Goto(t, "lock")
        /\ UNCHANGED <<lib, res>>
  /\ UNCHANGED <<path, queueMutex, lists, store, scanVars>>

(* g_mutex_lock(queue_mutex), before the list is searched and before it is *)
(* cleaned up.                                                             *)
Lock(t) ==
  /\ \/ pc[t] = "lock" /\ Goto(t, "find")
     \/ pc[t] = "lock2" /\ Goto(t, "finish")
  /\ queueMutex = Nobody
  /\ queueMutex' = t
  /\ UNCHANGED <<path, lib, res, lists, store, scanVars>>

(* _ms_find_reg_list, and a mutant that compares the wrong strings.        *)
NotFound(p) == FALSE
InRegList(p) == regList[p] > 0

FindRegList(t) ==
  /\ pc[t] = "find"
  /\ Goto(t, IF InRegList(path[t]) THEN "busy" ELSE "enlist")
  /\ UNCHANGED <<path, lib, res, queueMutex, lists, store, scanVars>>

(* The first request for this file: _ms_insert_reg_list and unlock.        *)
InsertRegList(t) ==
  /\ pc[t] = "enlist"
  /\ regList' = [regList EXCEPT ![path[t]] = @ + 1]
  /\ queueMutex' = Nobody
  /\ Goto(t, "mime")
  /\ UNCHANGED <<path, lib, res, socQueue, retQueue, store, scanVars>>

(* Somebody registers this file already: unlock and return                 *)
(* MS_ERR_NOW_REGISTER_FILE. Only the main loop passes a queue; it goes on *)
(* to g_async_queue_pop. The mutant forgets that a reply is needed.        *)
AlreadyInsertingQuietly(t) ==
  /\ pc[t] = "busy"
  /\ queueMutex' = Nobody
  /\ Leave(t, "pop")
  /\ UNCHANGED <<path, lists, store, scanVars>>

AlreadyInserting(t) ==
  /\ pc[t] = "busy"
  /\ socQueue' = (socQueue \/ t = Main)
  /\ queueMutex' = Nobody
  /\ Leave(t, "pop")
  /\ UNCHANGED <<path, regList, retQueue, store, scanVars>>

-----------------------------------------------------------------------------
(* _ms_get_mime puts a DRM file on the ignore list before it asks for the  *)
(* type.                                                                   *)
AddIgnoreFile(p) == ignore' = IF p \in Drm THEN ignore \cup {p} ELSE ignore

(* ms_insert_item up to its loop.                                          *)
GetMime(t) ==
  /\ pc[t] = "mime"
  /\ AddIgnoreFile(path[t])
  /\ lib' = [lib EXCEPT ![t] = 1]
  /\ \/ /\ Goto(t, "insert")
        /\ res' = [res EXCEPT ![t] = MS_ERR_NONE]
     \/ /\ Goto(t, "mime2")
        /\ res' = [res EXCEPT ![t] = MS_ERR_MIME_GET_FAIL]
  /\ UNCHANGED <<path, queueMutex, lists, db, stale, drm, scanVars>>

(* A plug-in that fails sets the result, and a mutant that only logs it.   *)
FailureLogged(t) == res
InsertFailed(t) == [res EXCEPT ![t] = MS_ERR_DB_INSERT_RECORD_FAIL]

(* The loop of ms_insert_item. A plug-in refuses an item it holds; the item*)
(* it stores is valid.                                                     *)
InsertItem(t) ==
  /\ pc[t] = "insert"
  /\ \/ /\ lib[t] > LibNum
        /\ Goto(t, IF res[t] = MS_ERR_NONE THEN "drm" ELSE "mime2")
        /\ UNCHANGED <<lib, res, db, skipped>>
     \/ /\ lib[t] \in Libs
        /\ lib' = [lib EXCEPT ![t] = @ + 1]
        /\ \/ /\ lib[t] \notin Category[path[t]]
              /\ UNCHANGED <<res, db, skipped>>
           \/ /\ lib[t] \in Category[path[t]]
              /\ path[t] \notin db[lib[t]]
              /\ db' = [db EXCEPT ![lib[t]] = @ \cup {path[t]}]
              /\ skipped' = skipped \ {path[t]}
              /\ UNCHANGED res
           \/ /\ lib[t] \in Category[path[t]]
              /\ res' = InsertFailed(t)
              /\ UNCHANGED <<db, skipped>>
        /\ UNCHANGED pc
  /\ UNCHANGED <<path, queueMutex, lists, stale, ignore, drm, scan, scanLib, due>>

(* After a failed insertion ms_register_file asks for the type again.      *)
GetMimeAgain(t) ==
  /\ pc[t] = "mime2"
  /\ AddIgnoreFile(path[t])
  /\ lib' = [lib EXCEPT ![t] = 1]
  /\ \/ /\ Goto(t, "recheck")
        /\ res' = [res EXCEPT ![t] = MS_ERR_NONE]
     \/ /\ Goto(t, "drm")
        /\ res' = [res EXCEPT ![t] = MS_ERR_MIME_GET_FAIL]
  /\ UNCHANGED <<path, queueMutex, lists, db, stale, drm, scanVars>>

(* "check item is already inserted": every accepting plug-in overwrites    *)
(* the result of the one before.                                           *)
Recheck(t) ==
  /\ pc[t] = "recheck"
  /\ \/ /\ lib[t] > LibNum
        /\ Goto(t, "drm")
        /\ UNCHANGED <<lib, res>>
     \/ /\ lib[t] \in Libs
        /\ lib' = [lib EXCEPT ![t] = @ + 1]
        /\ \/ /\ lib[t] \notin Category[path[t]]
              /\ UNCHANGED res
           \/ /\ lib[t] \in Category[path[t]]
              /\ path[t] \in db[lib[t]]
              /\ res' = [res EXCEPT ![t] = MS_ERR_NONE]
           \/ /\ lib[t] \in Category[path[t]]
              /\ res' = InsertFailed(t)
        /\ UNCHANGED pc
  /\ UNCHANGED <<path, queueMutex, lists, store, scanVars>>

(* END: ms_drm_register, whose result is dropped.                          *)
DrmRegister(t) ==
  /\ pc[t] = "drm"
  /\ \/ path[t] \in Drm /\ drm' = drm \cup {path[t]}
     \/ UNCHANGED drm
  /\ Goto(t, "lock2")
  /\ UNCHANGED <<path, lib, res, queueMutex, lists, db, stale, ignore, scanVars>>

(* _ms_delete_reg_list removes one occurrence of the path; its mutant none.*)
DeletedNothing(p) == regList
DeletedFromRegList(p) == [regList EXCEPT ![p] = IF @ > 0 THEN @ - 1 ELSE 0]

(* The result goes to whoever soc_queue announces, shifted so that it is   *)
(* never NULL. One mutant does not ask whether anybody waits, one has no   *)
(* answer for him.                                                         *)
AlwaysAnswered(t) ==
  Append(retQueue, [path |-> path[t], val |-> Pushed(res[t])])
NeverAnswered(t) == retQueue
Answered(t) ==
  IF socQueue
  THEN Append(retQueue, [path |-> path[t], val |-> Pushed(res[t])])
  ELSE retQueue

(* The second critical section.                                            *)
Finish(t) ==
  /\ pc[t] = "finish"
  /\ regList' = DeletedFromRegList(path[t])
  /\ retQueue' = Answered(t)
  /\ socQueue' = FALSE
  /\ queueMutex' = Nobody
  /\ Return(t)
  /\ UNCHANGED <<path, store, scanVars>>

-----------------------------------------------------------------------------
(* ms_read_socket: g_async_queue_pop, which blocks, and the shift undone.  *)
PopReply ==
  /\ pc[Main] = "pop"
  /\ retQueue # <<>>
  /\ res' = [res EXCEPT ![Main] = Popped(Head(retQueue).val)]
  /\ retQueue' = Tail(retQueue)
  /\ Goto(Main, "send")
  /\ UNCHANGED <<path, lib, queueMutex, regList, socQueue, store, scanVars>>

(* ms_read_socket: sendto; the handler returns to the main loop.           *)
SendReply ==
  /\ pc[Main] = "send"
  /\ Over(Main)
  /\ UNCHANGED <<path, queueMutex, lists, store, scanVars>>

(* ms_delete_item, one plug-in per step; a file that is gone may no longer *)
(* be recognised as a DRM file.                                            *)
DeleteItem ==
  /\ pc[Inoti] = "delete"
  /\ \/ /\ lib[Inoti] \in Libs
        /\ lib' = [lib EXCEPT ![Inoti] = @ + 1]
        /\ \/ /\ db' = [db EXCEPT ![lib[Inoti]] = @ \ {path[Inoti]}]
              /\ stale' = [stale EXCEPT ![lib[Inoti]] = @ \ {path[Inoti]}]
           \/ UNCHANGED <<db, stale>>
        /\ UNCHANGED <<pc, res, ignore, drm>>
     \/ /\ lib[Inoti] > LibNum
        /\ Over(Inoti)
        /\ \/ /\ path[Inoti] \in Drm
              /\ ignore' = ignore \ {path[Inoti]}
              /\ drm' \in {drm, drm \ {path[Inoti]}}
           \/ UNCHANGED <<ignore, drm>>
        /\ UNCHANGED <<db, stale>>
  /\ UNCHANGED <<path, queueMutex, lists, scanVars>>

-----------------------------------------------------------------------------
(* The scan thread. A request is taken: a full scan begins with            *)
(* ms_delete_all_items, a partial one with the walk.                       *)
ScanBegin(type) ==
  /\ scan = "idle"
  /\ type \in Scans \cap {"all", "part"}
  /\ scan' = IF type = "all" THEN "delete" ELSE "validate"
  /\ scanLib' = 1
  /\ due' = Lasting
  /\ UNCHANGED <<pc, path, lib, res, queueMutex, lists, store, skipped>>

(* ms_delete_all_items, one plug-in per step: every row of the storage goes*)
(* or the plug-in fails, and then the loop returns. The scan goes on.      *)
ScanDeleteAll ==
  /\ scan = "delete"
  /\ \/ /\ scanLib \in Libs
        /\ db' = [db EXCEPT ![scanLib] = {}]
        /\ stale' = [stale EXCEPT ![scanLib] = {}]
        /\ scanLib' = scanLib + 1
        /\ UNCHANGED scan
     \/ scan' = "insert" /\ scanLib' = 1 /\ UNCHANGED <<db, stale>>
  /\ UNCHANGED <<pc, path, lib, res, queueMutex, lists, ignore, drm, due, skipped>>

(* A row that ms_insert_item_batch or ms_validate_item writes, for a file  *)
(* that was there when its folder was read; ms_validate_item also makes a  *)
(* row valid that is there. Rows are committed in bundles, so those of     *)
(* several files appear in any order. Like ms_insert_item the scan puts a  *)
(* DRM file on the ignore list, and it registers it with the DRM service.  *)
ScanInsert(l, p) ==
  /\ scan \in {"insert", "validate"}
  /\ p \in due \cup Deletable
  /\ l \in Category[p]
  /\ scan = "insert" => p \notin db[l]
  /\ db' = [db EXCEPT ![l] = @ \cup {p}]
  /\ stale' = [stale EXCEPT ![l] = @ \ {p}]
  /\ skipped' = skipped \ {p}
  /\ AddIgnoreFile(p)
  /\ drm' \in {drm, drm \cup ({p} \cap Drm)}
  /\ UNCHANGED <<pc, path, lib, res, queueMutex, lists, scan, scanLib, due>>

(* The files of S the scan leaves without the row it is there to write: any*)
(* row in a full scan, a valid one in a partial scan.                      *)
Missed(S) ==
  {p \in S : \A l \in Libs : p \in db[l] => scan = "validate" /\ p \in stale[l]}

(* The scan is through with a file, whatever its plug-ins said, or it stops*)
(* because the card is removed: then with all of them.                     *)
ScanPass(S) ==
  /\ scan \in {"insert", "validate"}
  /\ due' = due \ S
  /\ skipped' = skipped \cup Missed(S)
  /\ UNCHANGED <<pc, path, lib, res, queueMutex, lists, db, stale, scan, scanLib>>

ScanFile(p) ==
  /\ p \in due
  /\ ScanPass({p})
  /\ AddIgnoreFile(p)
  /\ drm' \in {drm, drm \cup ({p} \cap Drm)}

ScanStop == due # {} /\ ScanPass(due) /\ UNCHANGED <<ignore, drm>>

(* ms_register_end; a partial scan goes on to ms_delete_invalid_items.     *)
ScanEnd ==
  /\ scan \in {"insert", "validate"}
  /\ due = {}
  /\ scan' = IF scan = "insert" THEN "idle" ELSE "clean"
  /\ scanLib' = 1
  /\ UNCHANGED <<pc, path, lib, res, queueMutex, lists, store, due, skipped>>

(* ms_delete_invalid_items, one plug-in per step; the loop returns at the  *)
(* first that fails.                                                       *)
ScanDeleteInvalid ==
  /\ scan = "clean"
  /\ \/ /\ scanLib \in Libs
        /\ db' = [db EXCEPT ![scanLib] = @ \ stale[scanLib]]
        /\ stale' = [stale EXCEPT ![scanLib] = {}]
        /\ scanLib' = scanLib + 1
        /\ UNCHANGED scan
     \/ scan' = "idle" /\ scanLib' = 1 /\ UNCHANGED <<db, stale>>
  /\ UNCHANGED <<pc, path, lib, res, queueMutex, lists, ignore, drm, due, skipped>>

(* ms_invalidate_all_items for the plug-ins in L; the others fail.         *)
Invalidate(L) == stale' = [l \in Libs |-> IF l \in L THEN db[l] ELSE stale[l]]

ScanInvalidate(L) ==
  /\ scan = "idle"
  /\ "invalid" \in Scans
  /\ Invalidate(L)
  /\ UNCHANGED <<pc, path, lib, res, queueMutex, lists, db, ignore, drm, scanVars>>

Scan ==
  \/ \E type \in Scans : ScanBegin(type)
  \/ ScanDeleteAll \/ ScanStop \/ ScanEnd \/ ScanDeleteInvalid
  \/ \E p \in Paths : ScanFile(p) \/ \E l \in Libs : ScanInsert(l, p)
  \/ \E L \in SUBSET Libs : ScanInvalidate(L)

-----------------------------------------------------------------------------
Register(t) ==
  \/ CheckExist(t) \/ Lock(t) \/ FindRegList(t) \/ InsertRegList(t)
  \/ AlreadyInserting(t) \/ GetMime(t) \/ InsertItem(t) \/ GetMimeAgain(t)
  \/ Recheck(t) \/ DrmRegister(t) \/ Finish(t)

Next ==
  \/ \E p \in Paths : Receive(p) \/ InotiRegister(p) \/ InotiDelete(p)
  \/ \E t \in Threads : Register(t)
  \/ PopReply \/ SendReply \/ DeleteItem
  \/ Scan

Spec == Init /\ [][Next]_vars

(* Each thread keeps running: the scheduler is fair, and a mutex another   *)
(* thread releases again and again is taken at last. Nothing is assumed of *)
(* clients, file events or the scan thread.                                *)
Run(t) ==
  \/ Register(t)
  \/ t = Main /\ (PopReply \/ SendReply)
  \/ t = Inoti /\ DeleteItem

Fairness == \A t \in Threads : SF_vars(Run(t))

FairSpec == Spec /\ Fairness

-----------------------------------------------------------------------------
(* A path is in the hands of at most one thread between its insertion in   *)
(* reg_list and its removal, and reg_list says so: what the search of the  *)
(* list under queue_mutex is for.                                          *)
OneRegistrant ==
  \A p \in Paths :
    LET busy == {t \in Threads : Registering(t) /\ path[t] = p}
    IN  /\ \A t, u \in busy : t = u
        /\ regList[p] = IF busy = {} THEN 0 ELSE 1

(* The main loop never sleeps on ret_queue for nothing: as long as no      *)
(* answer is there, the inotify thread is registering the very file the    *)
(* client asked for and soc_queue will make it answer.                     *)
WaiterIsServed ==
  pc[Main] = "pop" /\ retQueue = <<>> =>
    /\ Registering(Inoti)
    /\ path[Inoti] = path[Main]
    /\ socQueue

(* What lies in ret_queue is the answer to the request being handled, it   *)
(* is the only one, and it is not the NULL that g_async_queue_push refuses.*)
(* An answer or an announcement left behind would be taken by the next     *)
(* client.                                                                 *)
AnswerIsForRequest ==
  /\ socQueue \/ retQueue # <<>> => pc[Main] = "pop"
  /\ ~(socQueue /\ retQueue # <<>>)
  /\ Len(retQueue) <= 1
  /\ \A i \in 1..Len(retQueue) :
        /\ retQueue[i].path = path[Main]
        /\ retQueue[i].val # 0

(* A full scan has deleted the rows of p or will, and it has not yet come  *)
(* to p again.                                                             *)
Rescanned(p) == scan \in {"delete", "insert"} /\ p \in due

(* A client that is told its media file was registered finds it in at      *)
(* least one database, unless the file was deleted meanwhile: what other   *)
(* threads do between the look-ups, the insertions and the recheck cannot  *)
(* make the answer wrong. Only the scan thread can: while a full scan has  *)
(* yet to store the file again, and when a scan failed to store or         *)
(* validate it.                                                            *)
OkMeansStored ==
  pc[Main] = "send" /\ res[Main] = MS_ERR_NONE
    /\ path[Main] \notin Deletable /\ Category[path[Main]] # {} =>
       \/ \E l \in Libs : path[Main] \in db[l]
       \/ Rescanned(path[Main]) \/ path[Main] \in skipped

(* Every request that is received is answered, whatever the inotify thread *)
(* is doing at that moment.                                                *)
RequestAnswered == pc[Main] = "exist" ~> pc[Main] = "send"
-----------------------------------------------------------------------------
(* The refinement mapping: a thread works on a file while reg_list holds   *)
(* it, the main loop waits while it is in g_async_queue_pop, and the answer*)
(* is the head of ret_queue.                                               *)
Waiting == pc[Main] = "pop"

SF == INSTANCE SingleFlight WITH
  Waiter <- Main,
  None <- Nobody,
  working <- [t \in Threads |-> IF Registering(t) THEN path[t] ELSE Nobody],
  waiting <- IF Waiting THEN path[Main] ELSE Nobody,
  answer <- IF Waiting /\ retQueue # <<>>
            THEN {Popped(Head(retQueue).val)} ELSE {}

(* Lists, mutex and queues implement the single flight: no file is worked  *)
(* on twice at once, and the waiting request gets the result of the work it*)
(* found in progress.                                                      *)
ImplementsSingleFlight == SF!Spec

(* The same with liveness: work that is begun is completed, so the wait    *)
(* ends.                                                                   *)
ImplementsFairSingleFlight == SF!FairSpec
=============================================================================
