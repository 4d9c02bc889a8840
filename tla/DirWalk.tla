------------------------------ MODULE DirWalk ------------------------------
(***************************************************************************)
(* The walk over a storage's directories that fills a list of them. The    *)
(* program has it twice, with the same text: _ms_dir_check (common/media-  *)
(* server-scan-internal.c), run by the scan thread, fills the list whose   *)
(* files are then scanned; ms_inoti_add_watch_all_directory (common/media- *)
(* server-inotify.c), run by the main loop, fills the list of watches.     *)
(*                                                                         *)
(* The walk builds a tree of nodes as it goes, from which every path is    *)
(* made: parent, right brother, and next for freeing them all. It keeps no *)
(* stack; from a node without subfolders it climbs to the next brother of  *)
(* an ancestor and counts the depth down as it climbs.                     *)
(*                                                                         *)
(* Meanwhile directories are made and removed, the card goes and comes,    *)
(* and the power goes off.                                                 *)
(***************************************************************************)
EXTENDS Integers, Sequences, FiniteSets, SequencesExt

CONSTANTS
  Paths,        (* The directories there may be: sequences of names, the   *)
                (* path of the storage first. None is hidden.              *)
  Default,      (* Those the list may hold before a walk that watches:     *)
                (* ms_make_default_path_mmc has just made them.            *)
  MaxChanges    (* Bound: changes by others during the walk.               *)

Root  == CHOOSE p \in Paths : Len(p) = 1
Names == {Last(p) : p \in Paths}

ASSUME WalkAssumption ==
  /\ Paths \subseteq Seq(Names)
  /\ \A p \in Paths : Len(p) > 0
  /\ \E p \in Paths : Len(p) = 1
  /\ \A p, q \in Paths : Len(p) = 1 /\ Len(q) = 1 => p = q
  /\ \A p \in Paths : Len(p) > 1 => Front(p) \in Paths
  /\ Default \subseteq Paths \ {Root}
  /\ MaxChanges \in Nat

NULL == 0

VARIABLES
  dirs,        (* External: the directories there are.                     *)
  pc,          (* Where the walk is.                                       *)
  watch,       (* The walk is ms_inoti_add_watch_all_directory.            *)
  heap,        (* heap[a]: the ms_dir_scan_info at address a; 1 is root.   *)
  tmpRoot,     (* tmp_root: the node the walk is at.                       *)
  prvNode,     (* prv_node: the node made last.                            *)
  depth,
  findFolder,  (* find_folder # 0                                          *)
  path,        (* The directory being read.                                *)
  unread,      (* What readdir will still return.                          *)
  list,        (* first_scan_node, or the watches, as a sequence of names. *)
  freed,       (* Addresses of heap that have been freed.                  *)
  stop,        (* power_off, or the card being scanned is not mounted.     *)
  done,        (* The walk ended by itself.                                *)
  watched,     (* History: listed, and not removed since.                  *)
  announced,   (* History: made in a directory that was already listed.    *)
  changes

walkVars == <<pc, watch, heap, tmpRoot, prvNode, depth, findFolder, path,
              list, freed, done>>
vars == <<walkVars, dirs, unread, stop, watched, announced, changes>>

(* Addresses are handed out in order; NULL is 0.                           *)
Node == [name : Names, parent : Nat, Rbrother : Nat, next : Nat]

TypeOK ==
  /\ dirs \subseteq Paths /\ watched \subseteq Paths /\ announced \subseteq dirs
  /\ pc \in {"loop", "read", "next", "climb", "path", "free", "end"}
  /\ heap \in Seq(Node)
  /\ {tmpRoot, prvNode} \subseteq DOMAIN heap \cup {NULL}
  /\ depth \in Nat
  /\ {watch, findFolder, stop, done} \subseteq BOOLEAN
  /\ path \in Paths /\ list \in Seq(Paths)
  /\ unread \subseteq Names
  /\ freed \subseteq DOMAIN heap
  /\ changes \in 0..MaxChanges

Parent(p)   == Front(p)
Children(p) == {n \in Names : Append(p, n) \in dirs}

-----------------------------------------------------------------------------
(* ms_get_full_path_from_node for a node whose depth is right: the names   *)
(* on the way to the root. The mutant stops one node early.                *)
PathBelowRoot(h, a) ==
  LET full[b \in DOMAIN h] ==
        IF h[b].parent \in {NULL, 1} THEN <<h[b].name>>
                                     ELSE Append(full[h[b].parent], h[b].name)
  IN  full[a]
FullPath(h, a) ==
  LET full[b \in DOMAIN h] ==
        IF h[b].parent = NULL THEN <<h[b].name>>
                              ELSE Append(full[h[b].parent], h[b].name)
  IN  full[a]

Level(a) == Len(FullPath(heap, a)) - 1

(* _ms_scan_add_node, ms_inoti_add_watch_with_node: a name that is listed  *)
(* is not listed again.                                                    *)
AddNode(p) ==
  IF p \in ToSet(list)
  THEN UNCHANGED <<list, watched>>
  ELSE /\ list' = Append(list, p)
       /\ watched' = IF p \in dirs THEN watched \cup {p} ELSE watched

NewNode(name, parent) ==
  [name |-> name, parent |-> parent, Rbrother |-> NULL, next |-> NULL]

(* Up to the loop; the root is listed first.                               *)
Init ==
  /\ dirs \in {d \in SUBSET Paths :
                 /\ Root \in d
                 /\ \A p \in d \ {Root} : Parent(p) \in d}
  /\ watch \in BOOLEAN
  /\ heap = <<NewNode(Root[1], NULL)>>
  /\ tmpRoot = 1 /\ prvNode = 1
  /\ depth = 0 /\ findFolder = FALSE
  /\ path = Root /\ unread = {}
  /\ list \in {<<Root>>} \cup
              {<<p, Root>> : p \in {q \in Default \cap dirs : watch}}
  /\ watched = ToSet(list)
  /\ announced = {} /\ freed = {} /\ stop = FALSE /\ done = FALSE /\ changes = 0
  /\ pc = "loop"

-----------------------------------------------------------------------------
(* The top of the loop. The walk that watches runs in the main loop, whose *)
(* callbacks alone set power_off and mmc_state: it never sees them change. *)
OpenDir ==
  /\ pc = "loop"
  /\ \/ /\ stop
        /\ pc' = "free"
        /\ UNCHANGED <<depth, unread>>
     \/ /\ ~stop
        /\ depth' = depth + 1
        /\ unread' = IF path \in dirs THEN Children(path) ELSE {}
        /\ pc' = IF path \in dirs THEN "read" ELSE "next"
  /\ UNCHANGED <<watch, heap, tmpRoot, prvNode, findFolder, path, list,
                 freed, done, dirs, stop, watched, announced, changes>>

(* readdir_r returns no entry. In the mutant that is not noticed.          *)
NoEnd == FALSE
EndOfDir == unread = {}

EndDir ==
  /\ pc = "read" /\ ~stop /\ EndOfDir
  /\ pc' = "next"
  /\ UNCHANGED <<watch, heap, tmpRoot, prvNode, depth, findFolder, path, list,
                 freed, done, dirs, unread, stop, watched, announced,
                 changes>>

ReadStopped ==
  /\ pc = "read" /\ stop
  /\ pc' = "free"
  /\ UNCHANGED <<watch, heap, tmpRoot, prvNode, depth, findFolder, path, list,
                 freed, done, dirs, unread, stop, watched, announced,
                 changes>>

(* The links of a new node: the first folder of a directory becomes the    *)
(* child of tmp_root, the others brothers of the one before. In the mutant *)
(* the list of all nodes is linked for brothers only.                      *)
LinkedBrothersOnly(node) ==
  LET a == Len(heap) + 1
  IN  IF findFolder
      THEN Append([heap EXCEPT ![prvNode].Rbrother = a, ![prvNode].next = a], node)
      ELSE Append(heap, node)
Linked(node) ==
  LET a == Len(heap) + 1
  IN  IF findFolder
      THEN Append([heap EXCEPT ![prvNode].Rbrother = a, ![prvNode].next = a], node)
      ELSE Append([heap EXCEPT ![prvNode].next = a], node)

(* An entry is a directory. One that is gone by now cannot be opened.      *)
ReadEntry(n) ==
  /\ pc = "read" /\ ~stop
  /\ n \in unread
  /\ unread' = unread \ {n}
  /\ \/ /\ Append(path, n) \notin dirs
        /\ UNCHANGED <<heap, tmpRoot, prvNode, findFolder, list, watched>>
     \/ /\ Append(path, n) \in dirs
        /\ heap' = Linked(NewNode(n, IF findFolder THEN heap[tmpRoot].parent
                                                   ELSE tmpRoot))
        /\ tmpRoot' = IF findFolder THEN tmpRoot ELSE Len(heap')
        /\ AddNode(FullPath(heap', Len(heap')))
        /\ prvNode' = Len(heap')
        /\ findFolder' = TRUE
  /\ UNCHANGED <<pc, watch, depth, path, freed, done, dirs, stop, announced,
                 changes>>

(* _ms_scan_get_next_path_from_current_node,                               *)
(* _ms_get_path_from_current_node: the first folder found, else the right  *)
(* brother, else climb.                                                    *)
NextDir ==
  /\ pc = "next"
  /\ LET brother == heap[tmpRoot].Rbrother
     IN  \/ /\ findFolder
            /\ pc' = "path"
            /\ UNCHANGED <<tmpRoot, depth>>
         \/ /\ ~findFolder /\ brother # NULL
            /\ tmpRoot' = brother
            /\ depth' = depth - 1
            /\ pc' = "path"
         \/ /\ ~findFolder /\ brother = NULL
            /\ pc' = "climb"
            /\ UNCHANGED <<tmpRoot, depth>>
  /\ UNCHANGED <<watch, heap, prvNode, findFolder, path, list, freed,
                 done, dirs, unread, stop, watched, announced, changes>>

(* The depth after leaving the climb to a brother of the parent; the       *)
(* mutant counts the climb but not the brother.                            *)
CountedOnce(d) == d - 1
CountedDown(d) == d - 2

(* The climb ends below the root. In the mutant it ends where there is no  *)
(* brother.                                                                *)
AtTopTooSoon(parent) ==
  parent \in {1, NULL} \cup {a \in DOMAIN heap : heap[a].Rbrother = NULL}
AtTop(parent) == parent \in {1, NULL}

(* One round of the loop that climbs.                                      *)
Climb ==
  /\ pc = "climb"
  /\ LET parent == heap[tmpRoot].parent
     IN  \/ /\ AtTop(parent)
            /\ tmpRoot' = NULL /\ depth' = 0
            /\ done' = TRUE
            /\ pc' = "free"
         \/ /\ ~AtTop(parent) /\ heap[parent].Rbrother = NULL
            /\ tmpRoot' = parent /\ depth' = depth - 1
            /\ UNCHANGED <<pc, done>>
         \/ /\ ~AtTop(parent) /\ heap[parent].Rbrother # NULL
            /\ tmpRoot' = heap[parent].Rbrother
            /\ depth' = CountedDown(depth)
            /\ pc' = "path"
            /\ UNCHANGED done
  /\ UNCHANGED <<watch, heap, prvNode, findFolder, path, list, freed,
                 dirs, unread, stop, watched, announced, changes>>

GetPath ==
  /\ pc = "path"
  /\ path' = FullPath(heap, tmpRoot)
  /\ findFolder' = FALSE
  /\ pc' = "loop"
  /\ UNCHANGED <<watch, heap, tmpRoot, prvNode, depth, list, freed, done,
                 dirs, unread, stop, watched, announced, changes>>

(* FREE_RESOURCES: along next, from the root.                              *)
FreeResources ==
  /\ pc = "free"
  /\ LET after[a \in DOMAIN heap] ==
           IF heap[a].next = NULL THEN {a} ELSE {a} \cup after[heap[a].next]
     IN  freed' = after[1]
  /\ pc' = "end"
  /\ UNCHANGED <<watch, heap, tmpRoot, prvNode, depth, findFolder, path, list,
                 done, dirs, unread, stop, watched, announced, changes>>

-----------------------------------------------------------------------------
(* Others make and remove directories. Whether readdir returns an entry    *)
(* that came or went since opendir is not specified.                       *)
Change == pc # "end" /\ changes < MaxChanges
            /\ changes' = changes + 1

Reading(p) == pc = "read" /\ path = p

MakeDir(p) ==
  /\ Change
  /\ p \notin dirs /\ Parent(p) \in dirs
  /\ dirs' = dirs \cup {p}
  /\ announced' = IF Parent(p) \in watched \cup announced
                  THEN announced \cup {p} ELSE announced
  /\ \/ UNCHANGED unread
     \/ Reading(Parent(p)) /\ unread' = unread \cup {Last(p)}
  /\ UNCHANGED <<walkVars, stop, watched>>

RemoveDir(p) ==
  /\ Change
  /\ p \in dirs \ (Default \cup {Root}) /\ Children(p) = {}
  /\ dirs' = dirs \ {p}
  /\ watched' = watched \ {p}
  /\ announced' = announced \ {p}
  /\ \/ UNCHANGED unread
     \/ Reading(Parent(p)) /\ unread' = unread \ {Last(p)}
  /\ UNCHANGED <<walkVars, stop>>

(* The power goes off or the card goes, and maybe comes back.              *)
Interrupt ==
  /\ Change
  /\ ~watch
  /\ stop' = ~stop
  /\ UNCHANGED <<walkVars, dirs, unread, watched, announced>>

Walk ==
  \/ OpenDir \/ EndDir \/ ReadStopped \/ NextDir \/ Climb \/ GetPath
  \/ FreeResources
  \/ \E n \in Names : ReadEntry(n)

Next ==
  \/ Walk \/ Interrupt
  \/ \E p \in Paths \ {Root} : MakeDir(p) \/ RemoveDir(p)

Spec == Init /\ [][Next]_vars

(* The thread that walks keeps running.                                    *)
FairSpec == Spec /\ WF_vars(Walk)

-----------------------------------------------------------------------------
(* The depth counted during the walk is the number of ancestors of the node*)
(* it is used for. ms_get_full_path_from_node allocates and reads its      *)
(* array by that number and fills it by following the parents.             *)
DepthIsRight ==
  /\ pc = "path" => depth = Level(tmpRoot)
  /\ pc = "read" => depth = Level(IF findFolder THEN prvNode ELSE tmpRoot)
                            + (IF findFolder THEN 0 ELSE 1)

(* When the walk has ended by itself, every directory there is has been    *)
(* listed, or was made in a directory that was listed by then, so that its *)
(* making is an event of that directory's watch: none falls between the    *)
(* walk and the events.                                                    *)
NothingIsMissed == done => dirs \subseteq watched \cup announced

(* However the walk ends, every node it made is freed.                     *)
NothingLeaks == pc = "end" => freed = DOMAIN heap

(* The walk ends, though the directories change while it climbs.           *)
WalkEnds == <>(pc = "end")
=============================================================================
