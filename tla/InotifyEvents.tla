--------------------------- MODULE InotifyEvents ---------------------------
(***************************************************************************)
(* The inotify thread (ms_inoti_thread, common/media-server-inotify.c): it *)
(* follows file operations in the root folder and in its subfolders with   *)
(* the list of watched folders (first_inoti_node) and the list of created  *)
(* files (latest_create_file), and keeps the database in step.             *)
(*                                                                         *)
(* The file system and the kernel's event queue are external: operations   *)
(* go on while older events are still queued. Subfolders have no           *)
(* subfolders. One plug-in, which accepts every file and does not fail;    *)
(* Registration is about the rest of ms_register_file. Of a file's contents*)
(* the model knows whether its row was read from them; the ignore list is  *)
(* left out.                                                               *)
(***************************************************************************)
EXTENDS Integers, Sequences, FiniteSets, SequencesExt

CONSTANTS
  Names,       (* Names of files.                                          *)
  Folders,     (* Names of subfolders.                                     *)
  RootPath,    (* The root folder.                                         *)
  Nowhere,     (* No folder.                                               *)
  Outside,     (* A folder that is not below the root.                     *)
  Reuse,       (* The name of a removed folder may be used again.          *)
  Calm,        (* A folder is renamed when no event is left to handle, a   *)
               (* folder that leaves or arrives is empty, and nothing else *)
               (* happens until that has been handled, see Renaming.       *)
  MaxInodes,   (* Bound: subfolders made.                                  *)
  MaxRenames,  (* Bound: subfolders renamed.                               *)
  MaxMoves,    (* Bound: folders moved out of the root folder or into it.  *)
  MaxOps       (* Bound: operations on files and folders.                  *)

ASSUME InotifyAssumption ==
  /\ Names \cap Folders = {}
  /\ RootPath \notin Folders
  /\ {Nowhere, Outside} \cap (Folders \cup {RootPath}) = {} /\ Nowhere # Outside
  /\ Reuse \in BOOLEAN /\ Calm \in BOOLEAN
  /\ {MaxInodes, MaxRenames, MaxMoves, MaxOps} \subseteq Nat

Root  == 1                 (* The root folder's inode.                     *)
Dirs  == Root..Root + MaxInodes   (* Inodes; the kernel has one wd for each. *)
Paths == Folders \cup {RootPath}
Files == Dirs \X Names

VARIABLES
  where,     (* External: the path of each inode, or Outside or Nowhere.   *)
  files,     (* External: the files, by folder and name.                   *)
  writers,   (* External: the files that are open for writing.             *)
  watched,   (* External: the inodes the kernel watches.                   *)
  events,    (* External: the queue read(inoti_fd) takes from.             *)
  used,      (* External: the names of folders used so far.                *)
  made, ops, renames, moves,   (* What the bounds count.                   *)
  nodes,     (* first_inoti_node: the list of watched folders.             *)
  created,   (* latest_create_file: how often each wd and name is listed.  *)
  prev,      (* prev_wd and prev_name.                                     *)
  scan,      (* The folder the thread is reading, and why; or NoScan.      *)
  pc,        (* Where the thread is.                                       *)
  db,        (* External: the rows, by path of the folder and name.        *)
  fresh,     (* External: the files whose rows show what they contain.     *)
  hasty,     (* History: files registered while open, or moved while open  *)
             (* or onto another one.                                       *)
  powerOff   (* power_off, and whether _power_off_cb has made its folder.  *)

fs == <<where, files, writers, watched, used, made, ops, renames, moves>>
thread == <<nodes, created, prev, scan, pc>>
rows == <<db, fresh>>
vars == <<fs, hasty, events, thread, rows, powerOff>>

Kinds == {"create", "close_write", "moved_from", "moved_to", "delete"}
NoScan == [dir |-> Root, from |-> Nowhere, to |-> Nowhere, seen |-> {}]

TypeOK ==
  /\ where \in [Dirs -> Paths \cup {Nowhere, Outside}]
  /\ files \subseteq Files /\ writers \subseteq Files
  /\ watched \subseteq Dirs /\ used \subseteq Folders
  /\ made \in 0..MaxInodes /\ ops \in 0..MaxOps /\ renames \in 0..MaxRenames
  /\ moves \in 0..MaxMoves
  /\ events \in Seq([wd : Dirs, kind : Kinds \cup {"power_off"},
                     name : Names \cup Folders \cup {Nowhere}, isdir : BOOLEAN])
  /\ nodes \in Seq([wd : Dirs, path : Paths])
  /\ created \in [Files -> Nat]
  /\ prev \in [wd : Dirs \cup {-1, 0}, name : Folders \cup {Nowhere}]
  /\ scan \in [dir : Dirs, from : Paths \cup {Nowhere},
               to : Paths \cup {Nowhere}, seen : SUBSET Names]
  /\ pc \in {"read", "watch", "entries", "rename", "moves", "exited"}
  /\ db \subseteq Paths \X Names
  /\ fresh \subseteq files /\ hasty \subseteq Files
  /\ powerOff \in {"no", "flag", "folder"}

Init ==
  /\ where = [d \in Dirs |-> IF d = Root THEN RootPath ELSE Nowhere]
  /\ files = {} /\ writers = {} /\ watched = {Root} /\ used = {}
  /\ made = 0 /\ ops = 0 /\ renames = 0 /\ moves = 0 /\ events = <<>>
  /\ nodes = <<[wd |-> Root, path |-> RootPath]>>
  /\ created = [k \in Files |-> 0]
  /\ prev = [wd |-> -1, name |-> Nowhere]
  /\ scan = NoScan /\ pc = "read" /\ powerOff = "no"
  /\ db = {} /\ fresh = {} /\ hasty = {}

-----------------------------------------------------------------------------
(* The file system. A change in a watched folder queues an event.          *)
Event(d, kind, name, isdir) ==
  [wd |-> d, kind |-> kind, name |-> name, isdir |-> isdir]
Heard(e) == IF e.wd \in watched THEN <<e>> ELSE <<>>
Emit(e)  == events' = events \o Heard(e)
EmitBoth(e, after) == events' = events \o Heard(e) \o Heard(after)

(* A folder was renamed, left or arrived, and that is not handled yet.      *)
Renaming ==
  \/ pc \in {"rename", "moves"}
  \/ \E i \in DOMAIN events :
       events[i].isdir /\ events[i].kind \in {"moved_from", "moved_to"}

Operation ==
  /\ ops < MaxOps /\ ~(Calm /\ Renaming)
  /\ ops' = ops + 1
  /\ UNCHANGED <<thread, db, powerOff>>

(* Rows that no longer show what is in these files.                        *)
Outdated(K) == fresh' = fresh \ K

Exists(d) == where[d] # Nowhere

CreateFile(d, n) ==
  /\ Operation
  /\ Exists(d) /\ <<d, n>> \notin files \cup writers
  /\ files' = files \cup {<<d, n>>}
  /\ writers' = writers \cup {<<d, n>>}
  /\ Emit(Event(d, "create", n, FALSE))
  /\ UNCHANGED <<where, watched, used, made, renames, moves, fresh, hasty>>

OpenFile(d, n) ==
  /\ Operation
  /\ <<d, n>> \in files \ writers
  /\ writers' = writers \cup {<<d, n>>}
  /\ Outdated({<<d, n>>})
  /\ UNCHANGED <<where, files, watched, used, made, renames, moves, events, hasty>>

CloseFile(d, n) ==
  /\ Operation
  /\ <<d, n>> \in writers
  /\ writers' = writers \ {<<d, n>>}
  /\ Emit(Event(d, "close_write", n, FALSE))
  /\ Outdated({<<d, n>>})
  /\ UNCHANGED <<where, files, watched, used, made, renames, moves, hasty>>

(* A file that is still open is closed later.                              *)
DeleteFile(d, n) ==
  /\ Operation
  /\ <<d, n>> \in files
  /\ files' = files \ {<<d, n>>}
  /\ Emit(Event(d, "delete", n, FALSE))
  /\ Outdated({<<d, n>>})
  /\ UNCHANGED <<where, writers, watched, used, made, renames, moves, hasty>>

(* A file is moved, perhaps onto another one, with its writer.             *)
MoveFile(d, n, e, m) ==
  /\ Operation
  /\ <<d, n>> \in files /\ Exists(e)
  /\ <<d, n>> # <<e, m>> /\ <<e, m>> \notin writers
  /\ files' = (files \ {<<d, n>>}) \cup {<<e, m>>}
  /\ writers' = IF <<d, n>> \in writers
                THEN (writers \ {<<d, n>>}) \cup {<<e, m>>} ELSE writers
  /\ EmitBoth(Event(d, "moved_from", n, FALSE), Event(e, "moved_to", m, FALSE))
  /\ Outdated({<<d, n>>, <<e, m>>})
  /\ hasty' = hasty \cup ({<<d, n>>} \cap writers) \cup ({<<e, m>>} \cap files)
  /\ UNCHANGED <<where, watched, used, made, renames, moves>>

Free(p) == (\A d \in Dirs : where[d] # p) /\ (Reuse \/ p \notin used)

MakeFolder(p) ==
  /\ Operation
  /\ made < MaxInodes /\ Free(p)
  /\ made' = made + 1
  /\ where' = [where EXCEPT ![Root + made + 1] = p]
  /\ used' = used \cup {p}
  /\ Emit(Event(Root, "create", p, TRUE))
  /\ UNCHANGED <<files, writers, watched, renames, moves, fresh, hasty>>

Empty(d) == \A n \in Names : <<d, n>> \notin files

(* The kernel drops the watch of a folder that is gone.                    *)
RemoveFolder(d) ==
  /\ Operation
  /\ where[d] \in Folders /\ Empty(d)
  /\ where' = [where EXCEPT ![d] = Nowhere]
  /\ writers' = {w \in writers : w[1] # d}
  /\ watched' = watched \ {d}
  /\ Emit(Event(Root, "delete", where[d], TRUE))
  /\ UNCHANGED <<files, used, made, renames, moves, fresh, hasty>>

RenameFolder(d, p) ==
  /\ Operation
  /\ where[d] \in Folders /\ Free(p) /\ renames < MaxRenames
  /\ Calm => events = <<>> /\ pc = "read"
  /\ where' = [where EXCEPT ![d] = p]
  /\ used' = used \cup {p}
  /\ renames' = renames + 1
  /\ EmitBoth(Event(Root, "moved_from", where[d], TRUE),
              Event(Root, "moved_to", p, TRUE))
  /\ UNCHANGED <<files, writers, watched, made, moves, fresh, hasty>>

(* The kernel goes on watching a folder that is moved out.                 *)
MoveFolderOut(d) ==
  /\ Operation
  /\ where[d] \in Folders /\ moves < MaxMoves
  /\ Calm => Empty(d)
  /\ where' = [where EXCEPT ![d] = Outside]
  /\ moves' = moves + 1
  /\ Emit(Event(Root, "moved_from", where[d], TRUE))
  /\ UNCHANGED <<files, writers, watched, used, made, renames, fresh, hasty>>

(* A folder that nobody watches arrives with its files.                    *)
MoveFolderIn(p, F) ==
  /\ Operation
  /\ made < MaxInodes /\ Free(p) /\ moves < MaxMoves
  /\ Calm => F = {}
  /\ made' = made + 1
  /\ moves' = moves + 1
  /\ where' = [where EXCEPT ![Root + made + 1] = p]
  /\ files' = files \cup {<<Root + made + 1, n>> : n \in F}
  /\ used' = used \cup {p}
  /\ Emit(Event(Root, "moved_to", p, TRUE))
  /\ UNCHANGED <<writers, watched, renames, fresh, hasty>>

(* _power_off_cb: the flag, then a folder whose event wakes the thread. The*)
(* mutant makes no folder.                                                 *)
PowerOff ==
  /\ powerOff = "no"
  /\ powerOff' = "flag"
  /\ UNCHANGED <<fs, hasty, events, thread, rows>>

NoFolder == UNCHANGED events
PowerOffFolder ==
  events' = Append(events, Event(Root, "power_off", Nowhere, TRUE))

NotifyInotifyThread ==
  /\ powerOff = "flag"
  /\ powerOff' = "folder"
  /\ PowerOffFolder
  /\ UNCHANGED <<fs, hasty, thread, rows>>

-----------------------------------------------------------------------------
(* _ms_inoti_get_full_path: the folder of the first node with this wd, or  *)
(* of the last node when there is none.                                    *)
FolderOf(wd) ==
  LET found == {i \in DOMAIN nodes : nodes[i].wd = wd}
  IN  nodes[IF found = {} THEN Len(nodes)
            ELSE CHOOSE i \in found : \A j \in found : i <= j].path

Subfolder(p, name) == IF p = RootPath THEN name ELSE Nowhere

FileAt(p, n) == \E d \in Dirs : where[d] = p /\ <<d, n>> \in files
InodeAt(p) == {d \in Dirs : where[d] = p /\ p # Nowhere}

FilesAt(p, n) == {k \in files : where[k[1]] = p /\ k[2] = n}

(* ms_register_file reads a file whose row is missing; a file that has a   *)
(* row is left as it is. ms_delete_item removes a row.                     *)
Register(p, n) ==
  IF <<p, n>> \in db \/ ~FileAt(p, n)
  THEN UNCHANGED <<rows, hasty>>
  ELSE /\ db' = db \cup {<<p, n>>}
       /\ fresh' = fresh \cup FilesAt(p, n)
       /\ hasty' = hasty \cup (FilesAt(p, n) \cap writers)

(* ms_refresh_item reads the file of a row again. The mutant does not.     *)
NotRefreshed(p, n) == fresh
Refreshed(p, n) == IF <<p, n>> \in db THEN fresh \cup FilesAt(p, n) ELSE fresh

(* ms_inoti_add_watch: nothing for a path that is listed; the kernel       *)
(* refuses one that does not exist.                                        *)
AddWatch(p) ==
  IF (\E i \in DOMAIN nodes : nodes[i].path = p) \/ InodeAt(p) = {}
  THEN UNCHANGED <<nodes, watched>>
  ELSE \E d \in InodeAt(p) :
         /\ nodes' = Append(nodes, [wd |-> d, path |-> p])
         /\ watched' = watched \cup {d}

(* ms_inoti_remove_watch unlinks the node of a path; its mutant the one    *)
(* before it.                                                              *)
IndexOf(p) == {i \in DOMAIN nodes : nodes[i].path = p}
PreviousRemoved(p) ==
  IF IndexOf(p) = {} THEN nodes
  ELSE RemoveAt(nodes, (CHOOSE i \in IndexOf(p) : TRUE) - 1)
WatchRemoved(p) ==
  IF IndexOf(p) = {} THEN nodes
  ELSE RemoveAt(nodes, CHOOSE i \in IndexOf(p) : \A j \in IndexOf(p) : i <= j)

(* ms_inoti_modify_watch gives the node its new path, or adds one.         *)
ModifyWatch(from, to) ==
  IF IndexOf(from) # {}
  THEN /\ nodes' = [nodes EXCEPT ![CHOOSE i \in IndexOf(from) : TRUE].path = to]
       /\ UNCHANGED watched
  ELSE AddWatch(to)

-----------------------------------------------------------------------------
(* The head of the queue is an event of this kind and the thread has come  *)
(* to it; "check poweroff status" comes first.                             *)
Take(kind, isdir) ==
  /\ pc = "read" /\ powerOff = "no" /\ events # <<>>
  /\ Head(events).kind = kind /\ Head(events).isdir = isdir
  /\ events' = Tail(events)
Here == FolderOf(Head(events).wd)
Name == Head(events).name
Key  == <<Head(events).wd, Head(events).name>>

Gone(kind) ==
  /\ Take(kind, FALSE)
  /\ db' = db \ {<<Here, Name>>}
  /\ Outdated(FilesAt(Here, Name))
  /\ UNCHANGED <<fs, hasty, thread, powerOff>>

FileMovedTo ==
  /\ Take("moved_to", FALSE)
  /\ Register(Here, Name)
  /\ UNCHANGED <<fs, thread, powerOff>>

(* _ms_inoti_add_create_file_list.                                         *)
FileCreated ==
  /\ Take("create", FALSE)
  /\ created' = [created EXCEPT ![Key] = @ + 1]
  /\ UNCHANGED <<fs, hasty, nodes, prev, scan, pc, rows, powerOff>>

(* A file that is closed is registered when it is in the list of created   *)
(* files (_ms_inoti_find_create_file_list), otherwise it is refreshed. The *)
(* mutants find it never, or always. The thread forgets the folder that    *)
(* left last, unless ms_refresh_item fails: there is no row, or no file.   *)
NeverCreated(k) == FALSE
AlwaysCreated(k) == TRUE
WasCreated(k) == created[k] > 0

FileClosed ==
  /\ Take("close_write", FALSE)
  /\ \/ /\ WasCreated(Key)
        /\ Register(Here, Name)
        /\ created' = [created EXCEPT ![Key] = @ - 1]
        /\ prev' = [prev EXCEPT !.wd = 0]
     \/ /\ ~WasCreated(Key)
        /\ fresh' = Refreshed(Here, Name)
        /\ \/ prev' = [prev EXCEPT !.wd = 0]
           \/ (<<Here, Name>> \notin db \/ ~FileAt(Here, Name)) /\ UNCHANGED prev
        /\ UNCHANGED <<db, hasty, created>>
  /\ UNCHANGED <<fs, nodes, scan, pc, powerOff>>

(* A new folder: opendir, then _ms_inoti_directory_scan_and_register_file. *)
FolderCreated ==
  /\ Take("create", TRUE)
  /\ LET p == Subfolder(Here, Name)
     IN  \/ /\ InodeAt(p) = {}
            /\ UNCHANGED <<scan, pc>>
         \/ \E d \in InodeAt(p) :
              /\ scan' = [dir |-> d, from |-> Nowhere, to |-> p, seen |-> {}]
              /\ pc' = "watch"
  /\ UNCHANGED <<fs, hasty, nodes, created, prev, rows, powerOff>>

FolderDeleted ==
  /\ Take("delete", TRUE)
  /\ nodes' = WatchRemoved(Subfolder(Here, Name))
  /\ UNCHANGED <<fs, hasty, created, prev, scan, pc, rows, powerOff>>

FolderMovedFrom ==
  /\ Take("moved_from", TRUE)
  /\ prev' = [wd |-> Head(events).wd, name |-> Name]
  /\ UNCHANGED <<fs, hasty, nodes, created, scan, pc, rows, powerOff>>

(* _ms_inoti_scan_renamed_folder: opendir of the new path. The old one is  *)
(* what prev_wd and prev_name make: of a folder that arrives it is Nowhere,*)
(* or the path of some folder that left before.                            *)
FolderMovedTo ==
  /\ Take("moved_to", TRUE)
  /\ prev' = [prev EXCEPT !.wd = 0]
  /\ LET p == Subfolder(Here, Name)
     IN  \/ /\ InodeAt(p) = {}
            /\ UNCHANGED <<scan, pc>>
         \/ \E d \in InodeAt(p) :
              /\ scan' = [dir |-> d, from |-> Subfolder(FolderOf(prev.wd), prev.name),
                          to |-> p, seen |-> {}]
              /\ pc' = "rename"
  /\ UNCHANGED <<fs, hasty, nodes, created, rows, powerOff>>

ScanWatch ==
  /\ pc = "watch"
  /\ AddWatch(scan.to)
  /\ pc' = "entries"
  /\ UNCHANGED <<where, files, writers, used, made, ops, renames, moves,
                 hasty, events, created, prev, scan, rows, powerOff>>

RenameWatch ==
  /\ pc = "rename"
  /\ ModifyWatch(scan.from, scan.to)
  /\ pc' = "moves"
  /\ UNCHANGED <<where, files, writers, used, made, ops, renames, moves,
                 hasty, events, created, prev, scan, rows, powerOff>>

(* ms_move_item moves the row of the old path, if there is one.            *)
Move(n) ==
  IF <<scan.from, n>> \in db
  THEN /\ db' = (db \ {<<scan.from, n>>}) \cup {<<scan.to, n>>}
       /\ Outdated(FilesAt(scan.from, n))
  ELSE UNCHANGED rows

Left == {n \in Names \ scan.seen : <<scan.dir, n>> \in files}

(* readdir_r finds another file: that of a new folder is registered, the   *)
(* row of one in a folder that was renamed, or has arrived, is moved.      *)
ScanEntry ==
  /\ pc = "entries"
  /\ \E n \in Left :
       /\ Register(scan.to, n)
       /\ scan' = [scan EXCEPT !.seen = @ \cup {n}]
  /\ UNCHANGED <<fs, events, nodes, created, prev, pc, powerOff>>

MoveEntry ==
  /\ pc = "moves"
  /\ \E n \in Left :
       /\ Move(n)
       /\ scan' = [scan EXCEPT !.seen = @ \cup {n}]
  /\ UNCHANGED <<fs, hasty, events, nodes, created, prev, pc, powerOff>>

ScanDone ==
  /\ pc \in {"entries", "moves"} /\ Left = {}
  /\ scan' = NoScan /\ pc' = "read"
  /\ UNCHANGED <<fs, hasty, events, nodes, created, prev, rows, powerOff>>

(* POWER_OFF: the event is looked at only to find the flag set.            *)
Exit ==
  /\ pc = "read" /\ events # <<>> /\ powerOff # "no"
  /\ pc' = "exited"
  /\ nodes' = <<>>
  /\ UNCHANGED <<fs, hasty, events, created, prev, scan, rows, powerOff>>

-----------------------------------------------------------------------------
Thread ==
  \/ Gone("moved_from") \/ Gone("delete") \/ FileMovedTo \/ FileCreated
  \/ FileClosed \/ FolderCreated \/ FolderDeleted \/ FolderMovedFrom
  \/ FolderMovedTo \/ ScanWatch \/ RenameWatch \/ ScanEntry \/ MoveEntry
  \/ ScanDone \/ Exit

FileSystem ==
  \/ \E d \in Dirs, n \in Names :
       \/ CreateFile(d, n) \/ OpenFile(d, n) \/ CloseFile(d, n) \/ DeleteFile(d, n)
       \/ \E e \in Dirs, m \in Names : MoveFile(d, n, e, m)
  \/ \E p \in Folders :
       \/ MakeFolder(p)
       \/ \E d \in Dirs : RenameFolder(d, p)
       \/ \E F \in SUBSET Names : MoveFolderIn(p, F)
  \/ \E d \in Dirs : RemoveFolder(d) \/ MoveFolderOut(d)

Next == Thread \/ FileSystem \/ PowerOff \/ NotifyInotifyThread

Spec == Init /\ [][Next]_vars

(* The two threads keep running; nothing is assumed of the file system.    *)
FairSpec == Spec /\ WF_vars(Thread) /\ WF_vars(NotifyInotifyThread)

-----------------------------------------------------------------------------
(* The thread has handled all events and no file is open.                  *)
AtRest == pc = "read" /\ events = <<>> /\ writers = {} /\ powerOff = "no"

(* Once the thread has handled all events and no file is open, the rows are*)
(* those of the files that exist, however the operations and the handling  *)
(* of their events interleaved. It holds for calm renames and arrivals: a  *)
(* file that has no row yet when its folder is renamed, or that arrives    *)
(* with its folder, never gets one.                                        *)
RestShowsFiles ==
  AtRest =>
    db = {<<where[f[1]], f[2]>> : f \in {g \in files : where[g[1]] \in Paths}}

(* At rest the rows also show what is in the files, whatever was written   *)
(* when. The exceptions are files that got a row while they were written,  *)
(* and files that were moved while they were, or onto another file.        *)
Stale == {k \in files \ fresh : where[k[1]] \in Paths}
OnlyHastyAreStale == AtRest => Stale \subseteq hasty

(* The next event's watch is in the list, so that its file is not looked   *)
(* for in the folder that happens to be last.                              *)
EventIsResolved ==
  pc = "read" /\ events # <<>> /\ powerOff = "no" =>
    \E i \in DOMAIN nodes : nodes[i].wd = Head(events).wd

(* A power-off ends the thread, which main joins, even when no file event  *)
(* ever comes again.                                                       *)
InotifyThreadEnds == powerOff = "flag" ~> pc = "exited"

-----------------------------------------------------------------------------
(* "When you did some file operations such as Create, Copy, Move, Rename,  *)
(* and Delete in phone or mmc storage, media-server registers the result to*)
(* database automatically" (lib/include/media-util-register.h): at rest no *)
(* row shows contents the file no longer has. A file that is being written *)
(* when the scan of its new folder meets it is registered as it is then;   *)
(* when it is closed, ms_register_file finds the row and leaves it.        *)
NoRowIsStale == AtRest => Stale = {}
=============================================================================
