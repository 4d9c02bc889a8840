------------------------ MODULE InotifyEventsProofs ------------------------
(***************************************************************************)
(* Proofs about InotifyEvents: types, that the thread finds the watch of   *)
(* every event, and that at rest the rows are those of the files.          *)
(*                                                                         *)
(* An event is resolved when its folder has a node. That is kept only when *)
(* no node is taken from a folder that still has events, and a node is     *)
(* taken where its path is: by the path that an event of the folder above  *)
(* it names. So the invariant relates paths to inodes, over the names that *)
(* older events still use. With one folder own[p] for every name p so far, *)
(*   - NodesOwned: a node with path p is a node of own[p];                 *)
(*   - Removals: a queued "delete" of p says that own[p] is gone, and no   *)
(*     event of own[p] follows it;                                         *)
(*   - Followed, Preceded: the two names of a rename are neighbours in the *)
(*     queue, prev included, and are of the same folder;                   *)
(*   - ScanOwned: a rename that is half done is of one folder.             *)
(* WatchesFound, that everything watched or queued has a node, follows a   *)
(* step with these.                                                        *)
(*                                                                         *)
(* That the rows are right is about every moment, so it says of each file  *)
(* and each folder why its row or its node is right now, or will be:       *)
(*   - Story: the queue still registers a file that exists (Promised), or  *)
(*     its writer will have it registered (CountedLast), or it has a row,  *)
(*     or the scan in progress will find it; and a row of a file that is   *)
(*     gone has a removal waiting (NoRemoval);                             *)
(*   - New, NodeOf, Renamed: a folder is to be scanned, or has its node, or*)
(*     its rename is being handled;                                        *)
(*   - ScanRight, RowsKnown: the rows a scan has not moved yet are those of*)
(*     the path the folder had.                                            *)
(***************************************************************************)
EXTENDS InotifyEvents, QueueLemmas, TLAPS

-----------------------------------------------------------------------------
(* The types, with what they hide: the root folder stays where it is and is*)
(* watched, its node is the first, and only its events are about folders.  *)
Node         == [wd : Dirs, path : Paths]
RootNode     == [wd |-> Root, path |-> RootPath]
FileEvents   == [wd : Dirs, kind : Kinds, name : Names, isdir : {FALSE}]
FolderEvents == [wd : {Root}, kind : Kinds, name : Folders, isdir : {TRUE}]
PowerEvents  == {e \in {Event(Root, "power_off", Nowhere, TRUE)} : powerOff = "folder"}
Queued       == FileEvents \cup FolderEvents \cup PowerEvents

FsTyped ==
  /\ where \in [Dirs -> Paths \cup {Nowhere, Outside}]
  /\ where[Root] = RootPath
  /\ \A d \in Dirs : d = Root \/ where[d] # RootPath
  /\ files \subseteq Files /\ writers \subseteq Files
  /\ watched \subseteq Dirs /\ Root \in watched /\ used \subseteq Folders
  /\ made \in 0..MaxInodes /\ ops \in 0..MaxOps /\ renames \in 0..MaxRenames
  /\ moves \in 0..MaxMoves
  /\ powerOff \in {"no", "flag", "folder"}

NodesTyped ==
  /\ nodes \in Seq(Node)
  /\ pc # "exited" =>
       /\ nodes # <<>> /\ nodes[1] = RootNode
       /\ \A i \in DOMAIN nodes : i = 1 \/ nodes[i].path \in Folders

ThreadTyped ==
  /\ NodesTyped
  /\ created \in [Files -> Nat]
  /\ prev \in [wd : {-1, 0, Root}, name : Folders \cup {Nowhere}]
  /\ scan \in [dir : Dirs, from : Folders \cup {Nowhere},
               to : Folders \cup {Nowhere}, seen : SUBSET Names]
  /\ pc \in {"read", "watch", "entries", "rename", "moves", "exited"}
  /\ pc \in {"watch", "entries", "rename", "moves"} => scan.to \in Folders

RowsTyped == db \subseteq Paths \X Names /\ fresh \subseteq files /\ hasty \subseteq Files

Typed == FsTyped /\ events \in Seq(Queued) /\ ThreadTyped /\ RowsTyped

LEMMA Numbers ==
  /\ MaxInodes \in Nat /\ MaxRenames \in Nat /\ MaxMoves \in Nat /\ MaxOps \in Nat
  /\ Dirs \subseteq Nat \ {0} /\ Root \in Dirs /\ Root = 1
  /\ \A n \in 0..MaxInodes : n < MaxInodes => Root + n + 1 \in Dirs /\ Root + n + 1 # Root
BY InotifyAssumption DEF InotifyAssumption, Dirs, Root

LEMMA TypedType ==
  Typed => TypeOK
<1> SUFFICES ASSUME Typed PROVE TypeOK
  OBVIOUS
<1>1. /\ where \in [Dirs -> Paths \cup {Nowhere, Outside}]
      /\ files \subseteq Files /\ writers \subseteq Files
      /\ watched \subseteq Dirs /\ used \subseteq Folders
      /\ made \in 0..MaxInodes /\ ops \in 0..MaxOps /\ renames \in 0..MaxRenames
      /\ moves \in 0..MaxMoves
      /\ powerOff \in {"no", "flag", "folder"}
  BY DEF Typed, FsTyped
<1>2. events \in Seq([wd : Dirs, kind : Kinds \cup {"power_off"},
                      name : Names \cup Folders \cup {Nowhere}, isdir : BOOLEAN])
  <2> DEFINE E == [wd : Dirs, kind : Kinds \cup {"power_off"},
                   name : Names \cup Folders \cup {Nowhere}, isdir : BOOLEAN]
  <2>1. FileEvents \subseteq E /\ FolderEvents \subseteq E
    BY Numbers DEF FileEvents, FolderEvents
  <2>2. Event(Root, "power_off", Nowhere, TRUE) \in E
    BY Numbers DEF Event
  <2>3. PowerEvents \subseteq E
    BY <2>2 DEF PowerEvents
  <2> HIDE DEF E
  <2>4. Queued \subseteq E
    BY <2>1, <2>3 DEF Queued
  <2>5. events \in Seq(E)
    BY <2>4, SeqMonotonic DEF Typed
  <2> QED
    BY <2>5 DEF E
<1>3. /\ nodes \in Seq([wd : Dirs, path : Paths])
      /\ created \in [Files -> Nat]
      /\ pc \in {"read", "watch", "entries", "rename", "moves", "exited"}
  BY DEF Typed, ThreadTyped, NodesTyped, Node
<1>4. prev \in [wd : Dirs \cup {-1, 0}, name : Folders \cup {Nowhere}]
  BY Numbers DEF Typed, ThreadTyped
<1>5. scan \in [dir : Dirs, from : Paths \cup {Nowhere},
                to : Paths \cup {Nowhere}, seen : SUBSET Names]
  BY DEF Typed, ThreadTyped, Paths
<1>6. db \subseteq Paths \X Names /\ fresh \subseteq files /\ hasty \subseteq Files
  BY DEF Typed, RowsTyped
<1> QED
  BY ONLY <1>1, <1>2, <1>3, <1>4, <1>5, <1>6 DEF TypeOK

LEMMA TypedInit ==
  Init => Typed
<1> SUFFICES ASSUME Init PROVE Typed
  OBVIOUS
<1>1. FsTyped
  BY InotifyAssumption, Numbers DEF InotifyAssumption, Init, FsTyped, Paths
<1>2. events \in Seq(Queued)
  BY DEF Init
<1>3. NodesTyped
  BY Numbers DEF Init, NodesTyped, RootNode, Node, Paths
<1>4. created \in [Files -> Nat] /\ prev \in [wd : {-1, 0, Root}, name : Folders \cup {Nowhere}]
  BY DEF Init
<1>5. scan \in [dir : Dirs, from : Folders \cup {Nowhere},
                to : Folders \cup {Nowhere}, seen : SUBSET Names]
  BY Numbers DEF Init, NoScan
<1>6. pc = "read"
  BY DEF Init
<1>7. RowsTyped
  BY DEF Init, RowsTyped
<1> QED
  BY <1>1, <1>2, <1>3, <1>4, <1>5, <1>6, <1>7 DEF Typed, ThreadTyped

-----------------------------------------------------------------------------
(* What emitting events adds to the queue.                                 *)
LEMMA Emitted ==
  ASSUME NEW S, events \in Seq(S), NEW e \in S, Emit(e)
  PROVE  /\ events' \in Seq(S)
         /\ \/ e.wd \notin watched /\ events' = events
            \/ e.wd \in watched /\ events' = Append(events, e)
<1>1. CASE e.wd \in watched
  <2>1. events' = events \o <<e>>
    BY <1>1 DEF Emit, Heard
  <2> QED
    BY <1>1, <2>1
<1>2. CASE e.wd \notin watched
  <2>1. events' = events \o <<>>
    BY <1>2 DEF Emit, Heard
  <2> QED
    BY <1>2, <2>1
<1> QED
  BY <1>1, <1>2

LEMMA BothEmitted ==
  ASSUME NEW S, events \in Seq(S), NEW e \in S, NEW g \in S, EmitBoth(e, g)
  PROVE  /\ events' \in Seq(S)
         /\ \/ e.wd \notin watched /\ g.wd \notin watched /\ events' = events
            \/ e.wd \in watched /\ g.wd \notin watched /\ events' = Append(events, e)
            \/ e.wd \notin watched /\ g.wd \in watched /\ events' = Append(events, g)
            \/ e.wd \in watched /\ g.wd \in watched /\ events' = Append(Append(events, e), g)
<1> DEFINE q == events \o Heard(e)
<1>1. /\ q \in Seq(S)
      /\ \/ e.wd \notin watched /\ q = events
         \/ e.wd \in watched /\ q = Append(events, e)
  <2>1. CASE e.wd \in watched
    <3>1. q = events \o <<e>>
      BY <2>1 DEF Heard
    <3> QED
      BY <2>1, <3>1
  <2>2. CASE e.wd \notin watched
    <3>1. q = events \o <<>>
      BY <2>2 DEF Heard
    <3> QED
      BY <2>2, <3>1
  <2> QED
    BY <2>1, <2>2
<1>2. events' = q \o Heard(g)
  BY DEF EmitBoth
<1> HIDE DEF q
<1>3. CASE g.wd \in watched
  <2>1. events' = q \o <<g>>
    BY <1>2, <1>3 DEF Heard
  <2> QED
    BY <1>1, <1>3, <2>1
<1>4. CASE g.wd \notin watched
  <2>1. events' = q \o <<>>
    BY <1>2, <1>4 DEF Heard
  <2> QED
    BY <1>1, <1>4, <2>1
<1> QED
  BY <1>3, <1>4

LEMMA EventsOfFolders ==
  ASSUME NEW k \in Kinds, NEW p \in Folders
  PROVE  Event(Root, k, p, TRUE) \in Queued /\ Event(Root, k, p, TRUE).wd = Root
BY DEF Queued, FolderEvents, Event

LEMMA EventsOfFiles ==
  ASSUME NEW k \in Kinds, NEW d \in Dirs, NEW n \in Names
  PROVE  Event(d, k, n, FALSE) \in Queued /\ Event(d, k, n, FALSE).wd = d
BY DEF Queued, FileEvents, Event

-----------------------------------------------------------------------------
(* The operations on files and folders keep the types.                     *)
LEMMA OperationTyped ==
  ASSUME Typed, UNCHANGED <<thread, db, powerOff>>, FsTyped',
         events' \in Seq(Queued), fresh' \subseteq files', hasty' \subseteq Files
  PROVE  Typed'
<1>1. Queued' = Queued
  BY DEF Queued, PowerEvents, FileEvents, FolderEvents
<1>2. ThreadTyped'
  BY DEF thread, Typed, ThreadTyped, NodesTyped
<1>3. RowsTyped'
  BY DEF Typed, RowsTyped
<1> QED
  BY <1>1, <1>2, <1>3 DEF Typed

LEMMA OperationFacts ==
  ASSUME Typed, Operation
  PROVE  UNCHANGED <<thread, db, powerOff>> /\ ops' \in 0..MaxOps
BY Numbers DEF Operation, Typed, FsTyped

LEMMA FileOperationTyped ==
  ASSUME Typed, NEW d \in Dirs, NEW n \in Names,
         CreateFile(d, n) \/ OpenFile(d, n) \/ CloseFile(d, n) \/ DeleteFile(d, n)
  PROVE  Typed'
<1>0. <<d, n>> \in Files /\ UNCHANGED <<thread, db, powerOff>> /\ ops' \in 0..MaxOps
  BY OperationFacts DEF Files, CreateFile, OpenFile, CloseFile, DeleteFile
<1>1. events' \in Seq(Queued)
  <2>1. CASE CreateFile(d, n)
    BY <2>1, Emitted, EventsOfFiles DEF CreateFile, Kinds, Typed
  <2>2. CASE OpenFile(d, n)
    BY <2>2 DEF OpenFile, Typed
  <2>3. CASE CloseFile(d, n)
    BY <2>3, Emitted, EventsOfFiles DEF CloseFile, Kinds, Typed
  <2>4. CASE DeleteFile(d, n)
    BY <2>4, Emitted, EventsOfFiles DEF DeleteFile, Kinds, Typed
  <2> QED
    BY <2>1, <2>2, <2>3, <2>4
<1>2. files' \subseteq Files /\ writers' \subseteq Files
  BY <1>0 DEF CreateFile, OpenFile, CloseFile, DeleteFile, Typed, FsTyped
<1>3. UNCHANGED <<where, watched, used, made, renames, moves>>
  BY DEF CreateFile, OpenFile, CloseFile, DeleteFile
<1>4. FsTyped'
  BY <1>0, <1>2, <1>3 DEF Typed, FsTyped
<1>5. fresh' \subseteq files' /\ hasty' \subseteq Files
  BY DEF CreateFile, OpenFile, CloseFile, DeleteFile, Outdated, Typed, RowsTyped
<1> QED
  BY <1>0, <1>1, <1>4, <1>5, OperationTyped

LEMMA MoveFileTyped ==
  ASSUME Typed, NEW d \in Dirs, NEW n \in Names, NEW e \in Dirs, NEW m \in Names,
         MoveFile(d, n, e, m)
  PROVE  Typed'
<1>0. /\ <<d, n>> \in Files /\ <<e, m>> \in Files
      /\ UNCHANGED <<thread, db, powerOff>> /\ ops' \in 0..MaxOps
  BY OperationFacts DEF Files, MoveFile
<1>1. events' \in Seq(Queued)
  BY BothEmitted, EventsOfFiles DEF MoveFile, Kinds, Typed
<1>2. files' \subseteq Files /\ writers' \subseteq Files
  BY <1>0 DEF MoveFile, Typed, FsTyped
<1>3. UNCHANGED <<where, watched, used, made, renames, moves>>
  BY DEF MoveFile
<1>4. FsTyped'
  BY <1>0, <1>2, <1>3 DEF Typed, FsTyped
<1>5. fresh' \subseteq files' /\ hasty' \subseteq Files
  BY <1>0 DEF MoveFile, Outdated, Typed, RowsTyped
<1> QED
  BY <1>0, <1>1, <1>4, <1>5, OperationTyped

LEMMA ArrivalTyped ==
  ASSUME Typed, NEW p \in Folders,
         MakeFolder(p) \/ \E F \in SUBSET Names : MoveFolderIn(p, F)
  PROVE  Typed'
<1>a. made \in 0..MaxInodes /\ made < MaxInodes /\ moves \in 0..MaxMoves
  BY DEF MakeFolder, MoveFolderIn, Typed, FsTyped
<1>0. /\ UNCHANGED <<thread, db, powerOff>> /\ ops' \in 0..MaxOps
      /\ Root + made + 1 \in Dirs \ {Root}
      /\ made' \in 0..MaxInodes /\ moves' \in 0..MaxMoves
  <2>1. UNCHANGED <<thread, db, powerOff>> /\ ops' \in 0..MaxOps
    BY OperationFacts DEF MakeFolder, MoveFolderIn
  <2>2. made' = made + 1 /\ (moves' = moves \/ (moves < MaxMoves /\ moves' = moves + 1))
    BY DEF MakeFolder, MoveFolderIn
  <2> QED
    BY <1>a, <2>1, <2>2, Numbers
<1>1. events' \in Seq(Queued)
  <2>1. CASE MakeFolder(p)
    BY <2>1, Emitted, EventsOfFolders DEF MakeFolder, Kinds, Typed
  <2>2. CASE \E F \in SUBSET Names : MoveFolderIn(p, F)
    BY <2>2, Emitted, EventsOfFolders DEF MoveFolderIn, Kinds, Typed
  <2> QED
    BY <2>1, <2>2
<1>2. /\ files' \subseteq Files /\ files \subseteq files' /\ writers' = writers
  <2>1. CASE MakeFolder(p)
    BY <2>1 DEF MakeFolder, Typed, FsTyped
  <2>2. ASSUME NEW F \in SUBSET Names, MoveFolderIn(p, F)
        PROVE  files' \subseteq Files /\ files \subseteq files' /\ writers' = writers
    BY <1>0, <2>2 DEF MoveFolderIn, Files, Typed, FsTyped
  <2> QED
    BY <2>1, <2>2
<1>3. /\ where' = [where EXCEPT ![Root + made + 1] = p] /\ used' = used \cup {p}
      /\ UNCHANGED <<watched, renames>>
  BY DEF MakeFolder, MoveFolderIn
<1>4. FsTyped'
  <2>1. p \in Paths /\ p # RootPath
    BY InotifyAssumption DEF InotifyAssumption, Paths
  <2>2. /\ where' \in [Dirs -> Paths \cup {Nowhere, Outside}] /\ where'[Root] = RootPath
        /\ \A d \in Dirs : d = Root \/ where'[d] # RootPath
    BY <1>0, <1>3, <2>1, Numbers DEF Typed, FsTyped
  <2> QED
    BY <1>0, <1>2, <1>3, <2>2 DEF Typed, FsTyped
<1>5. fresh' \subseteq files' /\ hasty' \subseteq Files
  BY <1>2 DEF MakeFolder, MoveFolderIn, Typed, RowsTyped
<1> QED
  BY <1>0, <1>1, <1>4, <1>5, OperationTyped

LEMMA DepartureTyped ==
  ASSUME Typed, NEW d \in Dirs,
         RemoveFolder(d) \/ MoveFolderOut(d) \/ \E p \in Folders : RenameFolder(d, p)
  PROVE  Typed'
<1>0. /\ UNCHANGED <<thread, db, powerOff>> /\ ops' \in 0..MaxOps
      /\ renames' \in 0..MaxRenames /\ moves' \in 0..MaxMoves
      /\ where[d] \in Folders
  <2>1. UNCHANGED <<thread, db, powerOff>> /\ ops' \in 0..MaxOps /\ where[d] \in Folders
    BY OperationFacts DEF RemoveFolder, MoveFolderOut, RenameFolder
  <2>2. /\ renames' = renames \/ (renames < MaxRenames /\ renames' = renames + 1)
        /\ moves' = moves \/ (moves < MaxMoves /\ moves' = moves + 1)
    BY DEF RemoveFolder, MoveFolderOut, RenameFolder
  <2>3. renames \in 0..MaxRenames /\ moves \in 0..MaxMoves
    BY DEF Typed, FsTyped
  <2> QED
    BY <2>1, <2>2, <2>3, Numbers
<1>a. d # Root
  BY <1>0, InotifyAssumption DEF InotifyAssumption, Typed, FsTyped
<1>1. events' \in Seq(Queued)
  <2>1. CASE RemoveFolder(d)
    BY <1>0, <2>1, Emitted, EventsOfFolders DEF RemoveFolder, Kinds, Typed
  <2>2. CASE MoveFolderOut(d)
    BY <1>0, <2>2, Emitted, EventsOfFolders DEF MoveFolderOut, Kinds, Typed
  <2>3. CASE \E p \in Folders : RenameFolder(d, p)
    BY <1>0, <2>3, BothEmitted, EventsOfFolders DEF RenameFolder, Kinds, Typed
  <2> QED
    BY <2>1, <2>2, <2>3
<1>2. /\ files' = files /\ writers' \subseteq writers /\ watched' \subseteq watched
      /\ Root \in watched' /\ used' \subseteq Folders /\ made' = made
  BY <1>a DEF RemoveFolder, MoveFolderOut, RenameFolder, Typed, FsTyped
<1>3. PICK p \in Folders \cup {Nowhere, Outside} : where' = [where EXCEPT ![d] = p]
  BY DEF RemoveFolder, MoveFolderOut, RenameFolder
<1>4. FsTyped'
  <2>1. p \in Paths \cup {Nowhere, Outside} /\ p # RootPath
    BY InotifyAssumption DEF InotifyAssumption, Paths
  <2>2. /\ where' \in [Dirs -> Paths \cup {Nowhere, Outside}] /\ where'[Root] = RootPath
        /\ \A c \in Dirs : c = Root \/ where'[c] # RootPath
    BY <1>a, <1>3, <2>1, Numbers DEF Typed, FsTyped
  <2> QED
    BY <1>0, <1>2, <2>2 DEF Typed, FsTyped
<1>5. fresh' \subseteq files' /\ hasty' \subseteq Files
  BY DEF RemoveFolder, MoveFolderOut, RenameFolder, Typed, RowsTyped
<1> QED
  BY <1>0, <1>1, <1>4, <1>5, OperationTyped

-----------------------------------------------------------------------------
(* The list of watched folders: what is found in it, and what the functions*)
(* that change it do.                                                      *)
LEMMA NodeFacts ==
  ASSUME Typed, pc # "exited"
  PROVE  /\ nodes \in Seq(Node) /\ nodes # <<>>
         /\ Len(nodes) \in Nat \ {0} /\ DOMAIN nodes = 1..Len(nodes)
         /\ nodes[1] = RootNode /\ 1 \in DOMAIN nodes /\ Len(nodes) \in DOMAIN nodes
         /\ \A i \in DOMAIN nodes :
              /\ nodes[i] \in Node /\ nodes[i].wd \in Dirs /\ nodes[i].path \in Paths
              /\ i = 1 \/ nodes[i].path \in Folders
<1>1. /\ nodes \in Seq(Node) /\ nodes # <<>> /\ nodes[1] = RootNode
      /\ \A i \in DOMAIN nodes : i = 1 \/ nodes[i].path \in Folders
  BY DEF Typed, ThreadTyped, NodesTyped
<1>2. /\ Len(nodes) \in Nat \ {0} /\ DOMAIN nodes = 1..Len(nodes)
      /\ 1 \in DOMAIN nodes /\ Len(nodes) \in DOMAIN nodes
      /\ \A i \in DOMAIN nodes : nodes[i] \in Node
  BY ONLY <1>1, Placed
<1>3. \A i \in DOMAIN nodes : nodes[i].wd \in Dirs /\ nodes[i].path \in Paths
  BY ONLY <1>2 DEF Node
<1> QED
  BY ONLY <1>1, <1>2, <1>3

LEMMA FolderOfFacts ==
  ASSUME Typed, pc # "exited", NEW wd
  PROVE  /\ FolderOf(wd) \in Paths
         /\ wd = Root => FolderOf(wd) = RootPath
         /\ (\A i \in DOMAIN nodes : nodes[i].wd # wd) => FolderOf(wd) = nodes[Len(nodes)].path
<1> DEFINE found == {i \in DOMAIN nodes : nodes[i].wd = wd}
           least == CHOOSE i \in found : \A j \in found : i <= j
<1>0. FolderOf(wd) = nodes[IF found = {} THEN Len(nodes) ELSE least].path
  BY DEF FolderOf
<1>1. CASE found = {}
  <2>1. FolderOf(wd) = nodes[Len(nodes)].path /\ Len(nodes) \in DOMAIN nodes
    BY <1>0, <1>1, NodeFacts
  <2>2. wd # Root
    BY <1>1, NodeFacts DEF RootNode
  <2> QED
    BY <2>1, <2>2, NodeFacts
<1>2. CASE found # {}
  <2>1. found \subseteq Nat /\ found \subseteq DOMAIN nodes
    BY NodeFacts
  <2>2. \E i \in found : \A j \in found : i <= j
    BY <1>2, <2>1, Least
  <2>3. least \in found /\ \A j \in found : least <= j
    BY <2>2
  <2>4. ASSUME wd = Root PROVE least = 1
    <3>1. 1 \in found
      BY <2>4, NodeFacts DEF RootNode
    <3>2. least \in DOMAIN nodes /\ least <= 1
      BY <2>1, <2>3, <3>1
    <3> HIDE DEF least
    <3> QED
      BY <3>2, NodeFacts
  <2> HIDE DEF least
  <2>5. FolderOf(wd) = nodes[least].path /\ least \in DOMAIN nodes
    BY <1>0, <1>2, <2>1, <2>3
  <2>6. FolderOf(wd) \in Paths
    BY <2>5, NodeFacts
  <2>7. wd = Root => FolderOf(wd) = RootPath
    BY <2>4, <2>5, NodeFacts DEF RootNode
  <2> QED
    BY <1>2, <2>6, <2>7
<1> QED
  BY <1>1, <1>2

LEMMA WatchAdded ==
  ASSUME Typed, NEW p \in Folders, AddWatch(p)
  PROVE  \/ UNCHANGED <<nodes, watched>>
         \/ \E d \in Dirs : /\ where[d] = p
                           /\ nodes' = Append(nodes, [wd |-> d, path |-> p])
                           /\ watched' = watched \cup {d}
BY DEF AddWatch, InodeAt

LEMMA WatchModified ==
  ASSUME Typed, NEW from, NEW to, ModifyWatch(from, to)
  PROVE  \/ IndexOf(from) = {} /\ AddWatch(to)
         \/ \E i \in IndexOf(from) :
              nodes' = [nodes EXCEPT ![i].path = to] /\ watched' = watched
BY DEF ModifyWatch

LEMMA WatchUnlisted ==
  ASSUME Typed, pc # "exited", NEW p \in Folders
  PROVE  \/ WatchRemoved(p) = nodes
         \/ \E i \in DOMAIN nodes :
              /\ nodes[i].path = p /\ i # 1
              /\ WatchRemoved(p) \in Seq(Node)
              /\ Len(WatchRemoved(p)) = Len(nodes) - 1
              /\ \A k \in 1..Len(WatchRemoved(p)) :
                   WatchRemoved(p)[k] = IF k < i THEN nodes[k] ELSE nodes[k + 1]
<1> DEFINE least == CHOOSE i \in IndexOf(p) : \A j \in IndexOf(p) : i <= j
<1> SUFFICES ASSUME IndexOf(p) # {}
             PROVE  \E i \in DOMAIN nodes :
                      /\ nodes[i].path = p /\ i # 1
                      /\ WatchRemoved(p) \in Seq(Node)
                      /\ Len(WatchRemoved(p)) = Len(nodes) - 1
                      /\ \A k \in 1..Len(WatchRemoved(p)) :
                           WatchRemoved(p)[k] = IF k < i THEN nodes[k] ELSE nodes[k + 1]
  BY DEF WatchRemoved
<1>1. IndexOf(p) \subseteq Nat
  BY NodeFacts DEF IndexOf
<1>2. \E i \in IndexOf(p) : \A j \in IndexOf(p) : i <= j
  BY <1>1, Least
<1>3. least \in IndexOf(p) /\ WatchRemoved(p) = RemoveAt(nodes, least)
  BY <1>2 DEF WatchRemoved
<1> HIDE DEF least
<1>4. PICK i \in IndexOf(p) : WatchRemoved(p) = RemoveAt(nodes, i)
  BY <1>3
<1>5. i \in DOMAIN nodes /\ nodes[i].path = p /\ i \in 1..Len(nodes)
  BY NodeFacts DEF IndexOf
<1>6. i # 1
  BY <1>5, NodeFacts, InotifyAssumption DEF InotifyAssumption, RootNode
<1>7. WatchRemoved(p) = SubSeq(nodes, 1, i - 1) \o SubSeq(nodes, i + 1, Len(nodes))
  BY <1>4 DEF RemoveAt
<1>8. nodes \in Seq(Node)
  BY NodeFacts
<1>9. /\ WatchRemoved(p) \in Seq(Node)
      /\ WatchRemoved(p)
           = [k \in 1..(Len(nodes) - 1) |-> IF k < i THEN nodes[k] ELSE nodes[k + 1]]
  BY ONLY <1>5, <1>7, <1>8, Removed
<1> DEFINE t == WatchRemoved(p)
<1>10. Len(nodes) \in Nat \ {0}
  BY NodeFacts
<1> HIDE DEF t
<1>11. /\ Len(t) = Len(nodes) - 1
       /\ \A k \in 1..Len(t) : t[k] = IF k < i THEN nodes[k] ELSE nodes[k + 1]
  BY ONLY <1>9, <1>10 DEF t
<1> QED
  BY <1>5, <1>6, <1>9, <1>11 DEF t

-----------------------------------------------------------------------------
(* The inotify thread keeps the types.                                     *)
LEMMA FileTaken ==
  ASSUME Typed, NEW k \in Kinds, Take(k, FALSE)
  PROVE  /\ pc = "read" /\ events' \in Seq(Queued)
         /\ Head(events) \in FileEvents /\ Head(events) = events[1] /\ events # <<>>
         /\ Head(events).wd \in Dirs /\ Name \in Names /\ Key \in Files /\ Here \in Paths
<1>1. pc = "read" /\ events # <<>> /\ events \in Seq(Queued) /\ events' = Tail(events)
      /\ Head(events).isdir = FALSE /\ Head(events).kind \in Kinds
  BY DEF Take, Typed
<1>2. Head(events) \in Queued /\ events' \in Seq(Queued) /\ Head(events) = events[1]
  BY ONLY <1>1, Tailed
<1>3. Head(events) \in FileEvents
  <2>1. \A e \in FolderEvents : e.isdir = TRUE
    BY DEF FolderEvents
  <2>2. \A e \in PowerEvents : e.isdir = TRUE
    BY DEF PowerEvents, Event
  <2> QED
    BY <1>1, <1>2, <2>1, <2>2 DEF Queued
<1>4. Head(events).wd \in Dirs /\ Name \in Names
  BY <1>3 DEF FileEvents, Name
<1> QED
  BY <1>1, <1>2, <1>3, <1>4, FolderOfFacts DEF Key, Here, Files, Name

LEMMA FolderTaken ==
  ASSUME Typed, NEW k \in Kinds, Take(k, TRUE)
  PROVE  /\ pc = "read" /\ events' \in Seq(Queued)
         /\ Head(events) = Event(Root, k, Name, TRUE) /\ Head(events).wd = Root
         /\ Head(events) = events[1] /\ events # <<>>
         /\ Name \in Folders /\ Subfolder(Here, Name) = Name
<1>1. pc = "read" /\ events # <<>> /\ events \in Seq(Queued) /\ events' = Tail(events)
      /\ Head(events).isdir = TRUE /\ Head(events).kind = k /\ powerOff = "no"
  BY DEF Take, Typed
<1>2. Head(events) \in Queued /\ events' \in Seq(Queued) /\ Head(events) = events[1]
  BY ONLY <1>1, Tailed
<1>3. Head(events) \in FolderEvents
  BY <1>1, <1>2 DEF Queued, FileEvents, PowerEvents
<1>4. Head(events) = Event(Root, k, Name, TRUE) /\ Name \in Folders
  BY <1>1, <1>3 DEF FolderEvents, Name, Event
<1>5. Head(events).wd = Root
  BY <1>4 DEF Event
<1>6. Here = RootPath
  BY <1>1, <1>5, FolderOfFacts DEF Here
<1> QED
  BY <1>1, <1>2, <1>4, <1>5, <1>6 DEF Subfolder

LEMMA Subfolders ==
  ASSUME NEW p, NEW n \in Folders \cup {Nowhere}
  PROVE  Subfolder(p, n) \in Folders \cup {Nowhere}
BY DEF Subfolder

LEMMA RegisterTyped ==
  ASSUME Typed, NEW p \in Paths, NEW n \in Names, Register(p, n)
  PROVE  db' \subseteq Paths \X Names /\ fresh' \subseteq files /\ hasty' \subseteq Files
<1>1. FilesAt(p, n) \subseteq files /\ files \subseteq Files
  BY DEF FilesAt, Typed, FsTyped
<1> QED
  BY <1>1 DEF Register, rows, Typed, RowsTyped

LEMMA FileEventTyped ==
  ASSUME Typed, Gone("moved_from") \/ Gone("delete") \/ FileMovedTo \/ FileCreated \/ FileClosed
  PROVE  Typed'
<1>1. PICK k \in Kinds : Take(k, FALSE)
  BY DEF Gone, FileMovedTo, FileCreated, FileClosed, Kinds
<1>2. /\ UNCHANGED <<fs, nodes, scan, pc, powerOff>>
      /\ prev' = prev \/ prev' = [prev EXCEPT !.wd = 0]
  BY DEF Gone, FileMovedTo, FileCreated, FileClosed, thread
<1>3. FsTyped' /\ Queued' = Queued
  BY <1>2 DEF Typed, FsTyped, fs, Queued, PowerEvents, FileEvents, FolderEvents
<1>4. created' \in [Files -> Nat]
  <2>0. created \in [Files -> Nat] /\ Key \in Files
    BY <1>1, FileTaken DEF Typed, ThreadTyped
  <2>1. CASE UNCHANGED created
    BY <2>0, <2>1
  <2>2. CASE created' = [created EXCEPT ![Key] = @ + 1]
    BY <2>0, <2>2
  <2>3. CASE WasCreated(Key) /\ created' = [created EXCEPT ![Key] = @ - 1]
    <3>1. created[Key] \in Nat /\ created[Key] > 0
      BY <2>0, <2>3 DEF WasCreated
    <3>2. created[Key] - 1 \in Nat
      BY ONLY <3>1
    <3> QED
      BY <2>0, <2>3, <3>2
  <2> QED
    BY <2>1, <2>2, <2>3 DEF Gone, FileMovedTo, FileCreated, FileClosed, thread
<1>5. ThreadTyped'
  BY <1>2, <1>4 DEF Typed, ThreadTyped, NodesTyped
<1>6. db' \subseteq Paths \X Names /\ fresh' \subseteq files /\ hasty' \subseteq Files
  <2>1. CASE Gone("moved_from") \/ Gone("delete")
    BY <2>1 DEF Gone, Outdated, Typed, RowsTyped
  <2>2. CASE FileMovedTo
    BY <1>1, <2>2, FileTaken, RegisterTyped DEF FileMovedTo
  <2>3. CASE FileCreated
    BY <2>3 DEF FileCreated, rows, Typed, RowsTyped
  <2>4. CASE FileClosed
    <3>1. CASE Register(Here, Name)
      BY <1>1, <3>1, FileTaken, RegisterTyped
    <3>2. CASE fresh' = Refreshed(Here, Name) /\ UNCHANGED <<db, hasty>>
      BY <3>2 DEF Refreshed, FilesAt, Typed, RowsTyped
    <3> QED
      BY <2>4, <3>1, <3>2 DEF FileClosed
  <2> QED
    BY <2>1, <2>2, <2>3, <2>4
<1>7. files' = files
  BY <1>2 DEF fs
<1> QED
  BY <1>1, <1>3, <1>5, <1>6, <1>7, FileTaken DEF Typed, RowsTyped

LEMMA FolderEventTyped ==
  ASSUME Typed, FolderCreated \/ FolderDeleted \/ FolderMovedFrom \/ FolderMovedTo
  PROVE  Typed'
<1>1. PICK k \in Kinds : Take(k, TRUE)
  BY DEF FolderCreated, FolderDeleted, FolderMovedFrom, FolderMovedTo, Kinds
<1>2. UNCHANGED <<fs, hasty, created, rows, powerOff>>
  BY DEF FolderCreated, FolderDeleted, FolderMovedFrom, FolderMovedTo
<1>3. FsTyped' /\ Queued' = Queued
  BY <1>2 DEF Typed, FsTyped, fs, Queued, PowerEvents, FileEvents, FolderEvents
<1>4. RowsTyped'
  BY <1>2 DEF Typed, RowsTyped, fs, rows
<1>5. prev' \in [wd : {-1, 0, Root}, name : Folders \cup {Nowhere}]
  <2>0. /\ prev \in [wd : {-1, 0, Root}, name : Folders \cup {Nowhere}]
        /\ Head(events).wd = Root /\ Name \in Folders
    BY <1>1, FolderTaken DEF Typed, ThreadTyped
  <2>1. CASE UNCHANGED prev
    BY <2>0, <2>1
  <2>2. CASE prev' = [wd |-> Head(events).wd, name |-> Name]
    BY <2>0, <2>2
  <2>3. CASE prev' = [prev EXCEPT !.wd = 0]
    BY <2>0, <2>3
  <2> QED
    BY <2>1, <2>2, <2>3 DEF FolderCreated, FolderDeleted, FolderMovedFrom, FolderMovedTo
<1>6. /\ scan' \in [dir : Dirs, from : Folders \cup {Nowhere},
                    to : Folders \cup {Nowhere}, seen : SUBSET Names]
      /\ pc' \in {"read", "watch", "rename"}
      /\ pc' # "read" => scan'.to \in Folders
  <2>0. /\ Name \in Folders /\ Subfolder(Here, Name) = Name /\ pc = "read"
        /\ scan \in [dir : Dirs, from : Folders \cup {Nowhere},
                     to : Folders \cup {Nowhere}, seen : SUBSET Names]
    BY <1>1, FolderTaken DEF Typed, ThreadTyped
  <2>1. CASE UNCHANGED <<scan, pc>>
    BY <2>0, <2>1
  <2>2. CASE \E d \in InodeAt(Name) :
               /\ scan' = [dir |-> d, from |-> Nowhere, to |-> Name, seen |-> {}]
               /\ pc' = "watch"
    BY <2>0, <2>2 DEF InodeAt
  <2>3. CASE \E d \in InodeAt(Name), p \in Folders \cup {Nowhere} :
               /\ scan' = [dir |-> d, from |-> p, to |-> Name, seen |-> {}]
               /\ pc' = "rename"
    BY <2>0, <2>3 DEF InodeAt
  <2>4. prev.name \in Folders \cup {Nowhere}
    BY DEF Typed, ThreadTyped
  <2>5. Subfolder(FolderOf(prev.wd), prev.name) \in Folders \cup {Nowhere}
    BY <2>4, Subfolders
  <2> QED
    BY <2>0, <2>1, <2>2, <2>3, <2>5
       DEF FolderCreated, FolderDeleted, FolderMovedFrom, FolderMovedTo
<1>7. NodesTyped'
  <2>1. CASE nodes' = nodes
    BY <1>1, <1>6, <2>1, FolderTaken DEF Typed, ThreadTyped, NodesTyped
  <2>2. CASE FolderDeleted
    <3>0. nodes' = WatchRemoved(Name) /\ Name \in Folders /\ pc # "exited"
      BY <1>1, <2>2, FolderTaken DEF FolderDeleted
    <3>1. CASE nodes' = nodes
      BY <2>1, <3>1
    <3>2. CASE nodes' # nodes
      <4>1. PICK i \in DOMAIN nodes :
              /\ i # 1
              /\ nodes' \in Seq(Node) /\ Len(nodes') = Len(nodes) - 1
              /\ \A j \in 1..Len(nodes') :
                   nodes'[j] = IF j < i THEN nodes[j] ELSE nodes[j + 1]
        BY <3>0, <3>2, WatchUnlisted
      <4>2. /\ Len(nodes) \in Nat \ {0} /\ i \in 2..Len(nodes) /\ DOMAIN nodes' = 1..Len(nodes')
            /\ nodes' # <<>>
        BY <3>0, <4>1, NodeFacts
      <4>3. nodes'[1] = nodes[1]
        BY <4>1, <4>2
      <4>4. \A j \in DOMAIN nodes' : j = 1 \/ nodes'[j].path \in Folders
        <5>1. \A j \in DOMAIN nodes' : j \in DOMAIN nodes /\ j + 1 \in DOMAIN nodes /\ j + 1 # 1
          BY <3>0, <4>1, <4>2, NodeFacts
        <5> QED
          BY <3>0, <4>1, <4>2, <5>1, NodeFacts
      <4> QED
        BY <3>0, <4>1, <4>2, <4>3, <4>4, NodeFacts DEF NodesTyped, RootNode
    <3> QED
      BY <3>1, <3>2
  <2> QED
    BY <2>1, <2>2 DEF FolderCreated, FolderMovedFrom, FolderMovedTo
<1>8. ThreadTyped'
  BY <1>2, <1>5, <1>6, <1>7 DEF Typed, ThreadTyped
<1> QED
  BY <1>1, <1>3, <1>4, <1>8, FolderTaken DEF Typed

LEMMA WatchTyped ==
  ASSUME Typed, ScanWatch \/ RenameWatch
  PROVE  Typed'
<1>1. /\ UNCHANGED <<where, files, writers, used, made, ops, renames, moves,
                     hasty, events, created, prev, scan, rows, powerOff>>
      /\ pc \in {"watch", "rename"} /\ pc' \in {"entries", "moves"}
  BY DEF ScanWatch, RenameWatch
<1>2. pc # "exited" /\ scan.to \in Folders
  BY <1>1 DEF Typed, ThreadTyped
<1>3. PICK q : \/ UNCHANGED <<nodes, watched>>
               \/ /\ nodes' = q /\ q \in Seq(Node) /\ q # <<>> /\ q[1] = RootNode
                  /\ \A i \in DOMAIN q : i = 1 \/ q[i].path \in Folders
                  /\ watched \subseteq watched' /\ watched' \subseteq Dirs
  <2>0. watched \subseteq Dirs
    BY DEF Typed, FsTyped
  <2>1. CASE AddWatch(scan.to)
    <3>1. CASE UNCHANGED <<nodes, watched>>
      BY <3>1
    <3>2. CASE \E d \in Dirs : /\ where[d] = scan.to
                             /\ nodes' = Append(nodes, [wd |-> d, path |-> scan.to])
                             /\ watched' = watched \cup {d}
      <4>1. PICK d \in Dirs : /\ nodes' = Append(nodes, [wd |-> d, path |-> scan.to])
                             /\ watched' = watched \cup {d}
        BY <3>2
      <4> DEFINE e == [wd |-> d, path |-> scan.to]
      <4>2. e \in Node /\ e.path \in Folders
        BY <1>2 DEF Node, Paths
      <4> HIDE DEF e
      <4>3. nodes \in Seq(Node) /\ nodes' = Append(nodes, e)
        BY <1>2, <4>1, NodeFacts DEF e
      <4>4. /\ nodes' \in Seq(Node) /\ Len(nodes') = Len(nodes) + 1
            /\ \A i \in 1..Len(nodes) : nodes'[i] = nodes[i]
            /\ nodes'[Len(nodes) + 1] = e
        BY ONLY <4>2, <4>3, Appended
      <4>5. /\ DOMAIN nodes' = 1..(Len(nodes) + 1) /\ nodes' # <<>>
        BY <1>2, <4>4, NodeFacts
      <4>6. \A i \in 1..(Len(nodes) + 1) : i \in 1..Len(nodes) \/ i = Len(nodes) + 1
        BY <1>2, NodeFacts
      <4>7. /\ nodes'[1] = RootNode
            /\ \A i \in DOMAIN nodes' : i = 1 \/ nodes'[i].path \in Folders
        BY <1>2, <4>2, <4>4, <4>5, <4>6, NodeFacts
      <4> QED
        BY <2>0, <4>1, <4>4, <4>5, <4>7
    <3> QED
      BY <1>2, <2>1, <3>1, <3>2, WatchAdded
  <2>2. CASE \E i \in IndexOf(scan.from) :
               nodes' = [nodes EXCEPT ![i].path = scan.to] /\ watched' = watched
    <3>1. PICK i \in IndexOf(scan.from) :
            nodes' = [nodes EXCEPT ![i].path = scan.to] /\ watched' = watched
      BY <2>2
    <3>2. i \in DOMAIN nodes /\ i # 1
      BY <1>2, NodeFacts, InotifyAssumption
         DEF InotifyAssumption, IndexOf, RootNode, Typed, ThreadTyped
    <3>3. [nodes[i] EXCEPT !.path = scan.to] \in Node
      BY <1>2, <3>2, NodeFacts DEF Node, Paths
    <3>4. [nodes[i] EXCEPT !.path = scan.to].path = scan.to
      BY <1>2, <3>2, NodeFacts DEF Node
    <3> DEFINE e == [nodes[i] EXCEPT !.path = scan.to]
    <3>5. nodes' = [nodes EXCEPT ![i] = e] /\ nodes \in Seq(Node)
      BY <1>2, <3>1, NodeFacts
    <3> HIDE DEF e
    <3>6. nodes' \in Seq(Node) /\ Len(nodes') = Len(nodes) /\ DOMAIN nodes' = DOMAIN nodes
      BY <3>2, <3>3, <3>5 DEF e
    <3>7. \A j \in DOMAIN nodes : nodes'[j] = IF j = i THEN e ELSE nodes[j]
      BY <3>5
    <3>8. nodes' # <<>>
      BY <1>2, <3>6, NodeFacts
    <3> QED
      BY <1>2, <2>0, <3>1, <3>2, <3>4, <3>6, <3>7, <3>8, NodeFacts DEF e
  <2> QED
    BY <2>1, <2>2, WatchModified DEF ScanWatch, RenameWatch
<1>4. NodesTyped'
  BY <1>1, <1>2, <1>3 DEF NodesTyped, Typed, ThreadTyped
<1>5. watched' \subseteq Dirs /\ Root \in watched'
  BY <1>3 DEF Typed, FsTyped
<1>6. FsTyped' /\ Queued' = Queued
  BY <1>1, <1>5 DEF Typed, FsTyped, Queued, PowerEvents, FileEvents, FolderEvents
<1>7. ThreadTyped'
  BY <1>1, <1>4, <1>2 DEF Typed, ThreadTyped
<1>8. RowsTyped' /\ events' \in Seq(Queued)
  BY <1>1 DEF Typed, RowsTyped, rows
<1> QED
  BY <1>6, <1>7, <1>8 DEF Typed

LEMMA EntriesTyped ==
  ASSUME Typed, ScanEntry \/ MoveEntry \/ ScanDone \/ Exit
  PROVE  Typed'
<1>1. UNCHANGED <<fs, events, created, prev, powerOff>>
  BY DEF ScanEntry, MoveEntry, ScanDone, Exit
<1>2. FsTyped' /\ Queued' = Queued
  BY <1>1 DEF Typed, FsTyped, fs, Queued, PowerEvents, FileEvents, FolderEvents
<1>3. NodesTyped'
  <2>1. CASE ScanEntry \/ MoveEntry \/ ScanDone
    BY <2>1 DEF ScanEntry, MoveEntry, ScanDone, Typed, ThreadTyped, NodesTyped
  <2>2. CASE Exit
    BY <2>2 DEF Exit, NodesTyped
  <2> QED
    BY <2>1, <2>2
<1>4. /\ scan' \in [dir : Dirs, from : Folders \cup {Nowhere},
                    to : Folders \cup {Nowhere}, seen : SUBSET Names]
      /\ pc' \in {"read", "watch", "entries", "rename", "moves", "exited"}
      /\ pc' \in {"watch", "entries", "rename", "moves"} => scan'.to \in Folders
  <2>0. /\ scan \in [dir : Dirs, from : Folders \cup {Nowhere},
                     to : Folders \cup {Nowhere}, seen : SUBSET Names]
        /\ pc \in {"entries", "moves"} => scan.to \in Folders
    BY DEF Typed, ThreadTyped
  <2>1. CASE ScanEntry \/ MoveEntry
    <3>1. PICK n \in Names : scan' = [scan EXCEPT !.seen = @ \cup {n}]
      BY <2>1 DEF ScanEntry, MoveEntry, Left
    <3>2. pc \in {"entries", "moves"} /\ pc' = pc
      BY <2>1 DEF ScanEntry, MoveEntry
    <3> QED
      BY <2>0, <3>1, <3>2
  <2>2. CASE ScanDone
    BY <2>2, Numbers DEF ScanDone, NoScan
  <2>3. CASE Exit
    BY <2>0, <2>3 DEF Exit
  <2> QED
    BY <2>1, <2>2, <2>3
<1>5. ThreadTyped'
  BY <1>1, <1>3, <1>4 DEF Typed, ThreadTyped
<1>6. db' \subseteq Paths \X Names /\ fresh' \subseteq files /\ hasty' \subseteq Files
  <2>1. CASE ScanEntry \/ MoveEntry
    <3>0. PICK n \in Left : Register(scan.to, n) \/ (Move(n) /\ UNCHANGED hasty)
      BY <2>1, Zenon DEF ScanEntry, MoveEntry
    <3>1. n \in Names /\ (Register(scan.to, n) \/ (Move(n) /\ UNCHANGED hasty))
      BY <3>0 DEF Left
    <3>2. scan.to \in Paths
      BY <2>1 DEF ScanEntry, MoveEntry, Typed, ThreadTyped, Paths
    <3>3. CASE Register(scan.to, n)
      BY <3>1, <3>2, <3>3, RegisterTyped
    <3>4. CASE Move(n) /\ UNCHANGED hasty
      BY <3>1, <3>2, <3>4 DEF Move, Outdated, rows, Typed, RowsTyped
    <3> QED
      BY <3>1, <3>3, <3>4
  <2>2. CASE ScanDone \/ Exit
    BY <2>2 DEF ScanDone, Exit, rows, Typed, RowsTyped
  <2> QED
    BY <2>1, <2>2
<1>7. files' = files /\ events' = events
  BY <1>1 DEF fs
<1> QED
  BY <1>2, <1>5, <1>6, <1>7 DEF Typed, RowsTyped

LEMMA PowerTyped ==
  ASSUME Typed, PowerOff \/ NotifyInotifyThread
  PROVE  Typed'
<1>1. UNCHANGED <<fs, hasty, thread, rows>>
  BY DEF PowerOff, NotifyInotifyThread
<1>2. FsTyped'
  BY <1>1 DEF Typed, FsTyped, fs, PowerOff, NotifyInotifyThread
<1>3. ThreadTyped'
  BY <1>1 DEF Typed, ThreadTyped, NodesTyped, thread
<1>4. RowsTyped'
  BY <1>1 DEF Typed, RowsTyped, fs, rows
<1>5. events' \in Seq(Queued')
  <2>1. Queued \subseteq Queued' /\ (powerOff' = "folder" =>
          Event(Root, "power_off", Nowhere, TRUE) \in Queued')
    BY DEF PowerOff, NotifyInotifyThread, Queued, PowerEvents, FileEvents, FolderEvents
  <2>2. events \in Seq(Queued')
    BY <2>1, SeqMonotonic DEF Typed
  <2>3. CASE NotifyInotifyThread
    <3>1. /\ events' = Append(events, Event(Root, "power_off", Nowhere, TRUE))
          /\ Event(Root, "power_off", Nowhere, TRUE) \in Queued'
      BY <2>1, <2>3 DEF NotifyInotifyThread, PowerOffFolder
    <3> QED
      BY ONLY <2>2, <3>1, Appended
  <2> QED
    BY <2>1, <2>2, <2>3 DEF PowerOff
<1> QED
  BY <1>2, <1>3, <1>4, <1>5 DEF Typed

LEMMA TypedStep ==
  Typed /\ [Next]_vars => Typed'
<1> SUFFICES ASSUME Typed, [Next]_vars PROVE Typed'
  OBVIOUS
<1>1. CASE Thread
  BY <1>1, FileEventTyped, FolderEventTyped, WatchTyped, EntriesTyped DEF Thread
<1>2. CASE FileSystem
  BY <1>2, FileOperationTyped, MoveFileTyped, ArrivalTyped, DepartureTyped DEF FileSystem
<1>3. CASE PowerOff \/ NotifyInotifyThread
  BY <1>3, PowerTyped
<1>4. CASE UNCHANGED vars
  BY <1>4 DEF vars, fs, thread, rows, Typed, FsTyped, ThreadTyped, NodesTyped, RowsTyped,
              Queued, PowerEvents, FileEvents, FolderEvents
<1> QED
  BY <1>1, <1>2, <1>3, <1>4 DEF Next

(* The types hold.                                                         *)
THEOREM InotifyTyping ==
  Spec => []TypeOK
<1>1. Spec => []Typed
  BY TypedInit, TypedStep, PTL DEF Spec
<1> QED
  BY <1>1, TypedType, PTL

-----------------------------------------------------------------------------
(* A folder has one inode, and a name that is not used again one folder:   *)
(* own gives the inode of every name used so far. Each clause is about a   *)
(* queue q of events, with pv for prev, where w, and used names u.         *)
From(p)    == Event(Root, "moved_from", p, TRUE)
To(p)      == Event(Root, "moved_to", p, TRUE)
Deleted(p) == Event(Root, "delete", p, TRUE)

Same(u, own, a, b) == a \in u /\ b \in u /\ own[a] = own[b]

(* The folder of a "delete" is gone, and it has no later event.            *)
Removals(w, u, own, q) ==
  \A i \in DOMAIN q, p \in Folders :
    q[i] = Deleted(p) =>
      /\ p \in u /\ w[own[p]] = Nowhere
      /\ \A j \in DOMAIN q : i <= j => q[j].wd # own[p]

(* A "moved_from", perhaps the one in prev, is at place i, and its         *)
(* "moved_to" at the next one.                                             *)
Source(q, pv, i, a) == \/ i = 0 /\ pv = [wd |-> Root, name |-> a]
                       \/ i \in DOMAIN q /\ q[i] = From(a)
Target(q, i, b) == i \in DOMAIN q /\ q[i] = To(b)

Followed(u, own, q, pv) ==
  \A i \in 0..Len(q), a \in Folders :
    Source(q, pv, i, a) => \E b \in Folders : Target(q, i + 1, b) /\ Same(u, own, a, b)
Preceded(u, own, q, pv) ==
  \A i \in 1..Len(q), b \in Folders :
    Target(q, i, b) => \E a \in Folders : Source(q, pv, i - 1, a) /\ Same(u, own, a, b)

-----------------------------------------------------------------------------
(* What is known of a queue is kept when names and folders are added to    *)
(* what it is about, and by putting events in and taking the first out.    *)
Agree(u, own, u2, own2) == u \subseteq u2 /\ \A p \in u : own2[p] = own[p]

LEMMA RemovalsKept ==
  ASSUME NEW w, NEW u, NEW own, NEW q, NEW w2, NEW u2, NEW own2,
         Removals(w, u, own, q), Agree(u, own, u2, own2),
         \A p \in u : w[own[p]] = Nowhere => w2[own[p]] = Nowhere
  PROVE  Removals(w2, u2, own2, q)
BY DEF Removals, Agree

LEMMA RenamesKept ==
  ASSUME NEW u, NEW own, NEW q, NEW u2, NEW own2, NEW pv, Agree(u, own, u2, own2)
  PROVE  /\ Followed(u, own, q, pv) => Followed(u2, own2, q, pv)
         /\ Preceded(u, own, q, pv) => Preceded(u2, own2, q, pv)
<1>1. \A a, b : Same(u, own, a, b) => Same(u2, own2, a, b)
  BY DEF Same, Agree
<1> QED
  BY <1>1 DEF Followed, Preceded

LEMMA RemovalsMore ==
  ASSUME NEW w, NEW u, NEW own, NEW S, NEW q \in Seq(S), NEW e \in S,
         Removals(w, u, own, q), u \subseteq Folders,
         \A p \in u : w[own[p]] = Nowhere => e.wd # own[p],
         \A p \in Folders : e = Deleted(p) => p \in u /\ w[own[p]] = Nowhere
  PROVE  Removals(w, u, own, Append(q, e))
<1> DEFINE t == Append(q, e)
           n == Len(q)
<1>1. /\ n \in Nat /\ DOMAIN t = 1..(n + 1) /\ DOMAIN q = 1..n
      /\ \A i \in 1..n : t[i] = q[i]
      /\ t[n + 1] = e
  OBVIOUS
<1> HIDE DEF t, n
<1>2. SUFFICES ASSUME NEW i \in 1..(n + 1), NEW p \in Folders, t[i] = Deleted(p)
               PROVE  /\ p \in u /\ w[own[p]] = Nowhere
                      /\ \A j \in 1..(n + 1) : i <= j => t[j].wd # own[p]
  BY <1>1 DEF Removals, t
<1>3. CASE i = n + 1
  <2>1. p \in u /\ w[own[p]] = Nowhere /\ e.wd # own[p]
    BY <1>1, <1>2, <1>3
  <2>2. \A j \in 1..(n + 1) : i <= j => j = n + 1
    BY <1>1, <1>3
  <2> QED
    BY <1>1, <2>1, <2>2
<1>4. CASE i # n + 1
  <2>1. i \in 1..n
    BY <1>1, <1>4
  <2>2. /\ p \in u /\ w[own[p]] = Nowhere
        /\ \A j \in 1..n : i <= j => q[j].wd # own[p]
    BY <1>1, <1>2, <2>1 DEF Removals
  <2>3. \A j \in 1..(n + 1) : j \in 1..n \/ j = n + 1
    BY <1>1
  <2> QED
    BY <1>1, <2>2, <2>3
<1> QED
  BY <1>3, <1>4

LEMMA RemovalsLess ==
  ASSUME NEW w, NEW u, NEW own, NEW S, NEW q \in Seq(S), q # <<>>, Removals(w, u, own, q)
  PROVE  Removals(w, u, own, Tail(q))
<1> DEFINE t == Tail(q)
           n == Len(t)
<1>1. /\ n \in Nat /\ DOMAIN t = 1..n /\ DOMAIN q = 1..(n + 1)
      /\ \A i \in 1..n : t[i] = q[i + 1]
  OBVIOUS
<1> HIDE DEF t, n
<1>2. \A i \in 1..n : i + 1 \in DOMAIN q
  BY <1>1
<1>3. \A i, j \in 1..n : i <= j => i + 1 <= j + 1
  BY <1>1
<1>4. SUFFICES ASSUME NEW i \in 1..n, NEW p \in Folders, t[i] = Deleted(p)
               PROVE  /\ p \in u /\ w[own[p]] = Nowhere
                      /\ \A j \in 1..n : i <= j => t[j].wd # own[p]
  BY <1>1 DEF Removals, t
<1>5. q[i + 1] = Deleted(p) /\ i + 1 \in DOMAIN q
  BY <1>1, <1>2, <1>4
<1>6. /\ p \in u /\ w[own[p]] = Nowhere
      /\ \A j \in DOMAIN q : i + 1 <= j => q[j].wd # own[p]
  BY <1>5 DEF Removals
<1>7. ASSUME NEW j \in 1..n, i <= j PROVE t[j].wd # own[p]
  <2>1. j + 1 \in DOMAIN q /\ i + 1 <= j + 1 /\ t[j] = q[j + 1]
    BY <1>1, <1>2, <1>3, <1>7
  <2> QED
    BY <1>6, <2>1
<1> QED
  BY <1>6, <1>7

LEMMA FollowedMore ==
  ASSUME NEW u, NEW own, NEW pv, NEW S, NEW q \in Seq(S), NEW e \in S,
         Followed(u, own, q, pv), \A a \in Folders : e # From(a)
  PROVE  Followed(u, own, Append(q, e), pv)
<1> DEFINE t == Append(q, e)
           n == Len(q)
<1>1. /\ n \in Nat /\ DOMAIN t = 1..(n + 1) /\ DOMAIN q = 1..n /\ Len(t) = n + 1
      /\ \A i \in 1..n : t[i] = q[i]
      /\ t[n + 1] = e
  OBVIOUS
<1> HIDE DEF t, n
<1>2. SUFFICES ASSUME NEW i \in 0..(n + 1), NEW a \in Folders, Source(t, pv, i, a)
               PROVE  \E b \in Folders : Target(t, i + 1, b) /\ Same(u, own, a, b)
  BY <1>1 DEF Followed, t
<1>3. i # n + 1
  BY <1>1, <1>2 DEF Source
<1>4. i \in 0..n /\ i \in {0} \cup 1..n
  BY <1>1, <1>3
<1>5. Source(q, pv, i, a)
  BY <1>1, <1>2, <1>4 DEF Source
<1>6. PICK b \in Folders : Target(q, i + 1, b) /\ Same(u, own, a, b)
  BY <1>1, <1>4, <1>5 DEF Followed, n
<1>7. Target(t, i + 1, b)
  BY <1>1, <1>6 DEF Target
<1> QED
  BY <1>6, <1>7

LEMMA FollowedPair ==
  ASSUME NEW u, NEW own, NEW pv, NEW S, NEW q \in Seq(S), NEW a \in Folders, NEW b \in Folders,
         From(a) \in S, To(b) \in S, Same(u, own, a, b), Followed(u, own, q, pv)
  PROVE  Followed(u, own, Append(Append(q, From(a)), To(b)), pv)
<1> DEFINE t == Append(Append(q, From(a)), To(b))
           n == Len(q)
<1>1. /\ n \in Nat /\ DOMAIN t = 1..(n + 2) /\ DOMAIN q = 1..n /\ Len(t) = n + 2
      /\ \A i \in 1..n : t[i] = q[i]
      /\ t[n + 1] = From(a) /\ t[n + 2] = To(b)
  OBVIOUS
<1>0. \A c, d : From(c) # To(d) /\ (From(c) = From(d) => c = d)
  BY DEF From, To, Event
<1> HIDE DEF t, n
<1>2. SUFFICES ASSUME NEW i \in 0..(n + 2), NEW c \in Folders, Source(t, pv, i, c)
               PROVE  \E d \in Folders : Target(t, i + 1, d) /\ Same(u, own, c, d)
  BY <1>1 DEF Followed, t
<1>3. i # n + 2
  BY <1>0, <1>1, <1>2 DEF Source
<1>4. CASE i = n + 1
  <2>1. t[n + 1] = From(c)
    BY <1>1, <1>2, <1>4 DEF Source
  <2>2. c = a
    BY <1>0, <1>1, <2>1
  <2>3. Target(t, i + 1, b)
    BY <1>1, <1>4 DEF Target
  <2> QED
    BY <2>2, <2>3
<1>5. CASE i # n + 1
  <2>1. i \in 0..n /\ i \in {0} \cup 1..n
    BY <1>1, <1>3, <1>5
  <2>2. Source(q, pv, i, c)
    BY <1>1, <1>2, <2>1 DEF Source
  <2>3. PICK d \in Folders : Target(q, i + 1, d) /\ Same(u, own, c, d)
    BY <1>1, <2>1, <2>2 DEF Followed, n
  <2>4. Target(t, i + 1, d)
    BY <1>1, <2>3 DEF Target
  <2> QED
    BY <2>3, <2>4
<1> QED
  BY <1>4, <1>5

LEMMA FollowedLess ==
  ASSUME NEW u, NEW own, NEW pv, NEW pw, NEW S, NEW q \in Seq(S), q # <<>>,
         Followed(u, own, q, pv),
         \A a \in Folders : pw = [wd |-> Root, name |-> a] => q[1] = From(a)
  PROVE  Followed(u, own, Tail(q), pw)
<1> DEFINE t == Tail(q)
           n == Len(t)
<1>1. /\ n \in Nat /\ DOMAIN t = 1..n /\ DOMAIN q = 1..(n + 1) /\ Len(q) = n + 1
      /\ \A i \in 1..n : t[i] = q[i + 1]
  OBVIOUS
<1> HIDE DEF t, n
<1>2. SUFFICES ASSUME NEW i \in 0..n, NEW a \in Folders, Source(t, pw, i, a)
               PROVE  \E b \in Folders : Target(t, i + 1, b) /\ Same(u, own, a, b)
  BY <1>1 DEF Followed, t
<1>3. i + 1 \in 0..(n + 1) /\ i + 1 \in 1..(n + 1) /\ (i = 0 \/ i \in 1..n)
  BY <1>1
<1>4. Source(q, pv, i + 1, a)
  BY <1>1, <1>2, <1>3 DEF Source
<1>5. PICK b \in Folders : Target(q, (i + 1) + 1, b) /\ Same(u, own, a, b)
  BY <1>1, <1>3, <1>4 DEF Followed
<1>6. i + 1 \in 1..n
  BY <1>1, <1>3, <1>5 DEF Target
<1>7. Target(t, i + 1, b)
  BY <1>1, <1>5, <1>6 DEF Target
<1> QED
  BY <1>5, <1>7

LEMMA PrecededMore ==
  ASSUME NEW u, NEW own, NEW pv, NEW S, NEW q \in Seq(S), NEW e \in S,
         Preceded(u, own, q, pv), \A b \in Folders : e # To(b)
  PROVE  Preceded(u, own, Append(q, e), pv)
<1> DEFINE t == Append(q, e)
           n == Len(q)
<1>1. /\ n \in Nat /\ DOMAIN t = 1..(n + 1) /\ DOMAIN q = 1..n /\ Len(t) = n + 1
      /\ \A i \in 1..n : t[i] = q[i]
      /\ t[n + 1] = e
  OBVIOUS
<1> HIDE DEF t, n
<1>2. SUFFICES ASSUME NEW i \in 1..(n + 1), NEW b \in Folders, Target(t, i, b)
               PROVE  \E a \in Folders : Source(t, pv, i - 1, a) /\ Same(u, own, a, b)
  BY <1>1 DEF Preceded, t
<1>3. i # n + 1
  BY <1>1, <1>2 DEF Target
<1>4. i \in 1..n /\ i - 1 \in {0} \cup 1..n
  BY <1>1, <1>3
<1>5. Target(q, i, b)
  BY <1>1, <1>2, <1>4 DEF Target
<1>6. PICK a \in Folders : Source(q, pv, i - 1, a) /\ Same(u, own, a, b)
  BY <1>1, <1>4, <1>5 DEF Preceded, n
<1>7. Source(t, pv, i - 1, a)
  BY <1>1, <1>4, <1>6 DEF Source
<1> QED
  BY <1>6, <1>7

LEMMA PrecededPair ==
  ASSUME NEW u, NEW own, NEW pv, NEW S, NEW q \in Seq(S), NEW a \in Folders, NEW b \in Folders,
         From(a) \in S, To(b) \in S, Same(u, own, a, b), Preceded(u, own, q, pv)
  PROVE  Preceded(u, own, Append(Append(q, From(a)), To(b)), pv)
<1> DEFINE t == Append(Append(q, From(a)), To(b))
           n == Len(q)
<1>1. /\ n \in Nat /\ DOMAIN t = 1..(n + 2) /\ DOMAIN q = 1..n /\ Len(t) = n + 2
      /\ \A i \in 1..n : t[i] = q[i]
      /\ t[n + 1] = From(a) /\ t[n + 2] = To(b)
  OBVIOUS
<1>0. \A c, d : From(c) # To(d) /\ (To(c) = To(d) => c = d)
  BY DEF From, To, Event
<1> HIDE DEF t, n
<1>2. SUFFICES ASSUME NEW i \in 1..(n + 2), NEW d \in Folders, Target(t, i, d)
               PROVE  \E c \in Folders : Source(t, pv, i - 1, c) /\ Same(u, own, c, d)
  BY <1>1 DEF Preceded, t
<1>3. i # n + 1
  BY <1>0, <1>1, <1>2 DEF Target
<1>4. CASE i = n + 2
  <2>1. t[n + 2] = To(d)
    BY <1>1, <1>2, <1>4 DEF Target
  <2>2. d = b
    BY <1>0, <1>1, <2>1
  <2>3. i - 1 = n + 1 /\ n + 1 \in DOMAIN t
    BY <1>1, <1>4
  <2>4. Source(t, pv, i - 1, a)
    BY <1>1, <2>3 DEF Source
  <2> QED
    BY <2>2, <2>4
<1>5. CASE i # n + 2
  <2>1. i \in 1..n /\ i - 1 \in {0} \cup 1..n
    BY <1>1, <1>3, <1>5
  <2>2. Target(q, i, d)
    BY <1>1, <1>2, <2>1 DEF Target
  <2>3. PICK c \in Folders : Source(q, pv, i - 1, c) /\ Same(u, own, c, d)
    BY <1>1, <2>1, <2>2 DEF Preceded, n
  <2>4. Source(t, pv, i - 1, c)
    BY <1>1, <2>1, <2>3 DEF Source
  <2> QED
    BY <2>3, <2>4
<1> QED
  BY <1>4, <1>5

LEMMA PrecededLess ==
  ASSUME NEW u, NEW own, NEW pv, NEW pw, NEW S, NEW q \in Seq(S), q # <<>>,
         Preceded(u, own, q, pv),
         \A a \in Folders : q[1] = From(a) => pw = [wd |-> Root, name |-> a]
  PROVE  Preceded(u, own, Tail(q), pw)
<1> DEFINE t == Tail(q)
           n == Len(t)
<1>1. /\ n \in Nat /\ DOMAIN t = 1..n /\ DOMAIN q = 1..(n + 1) /\ Len(q) = n + 1
      /\ \A i \in 1..n : t[i] = q[i + 1]
  OBVIOUS
<1> HIDE DEF t, n
<1>2. SUFFICES ASSUME NEW i \in 1..n, NEW b \in Folders, Target(t, i, b)
               PROVE  \E a \in Folders : Source(t, pw, i - 1, a) /\ Same(u, own, a, b)
  BY <1>1 DEF Preceded, t
<1>3. i + 1 \in 1..(n + 1) /\ (i + 1) - 1 = i /\ i # 0
  BY <1>1
<1>4. Target(q, i + 1, b)
  BY <1>1, <1>2, <1>3 DEF Target
<1>5. PICK a \in Folders : Source(q, pv, i, a) /\ Same(u, own, a, b)
  BY <1>1, <1>3, <1>4 DEF Preceded
<1>6. q[i] = From(a)
  BY <1>3, <1>5 DEF Source
<1>7. CASE i = 1
  BY <1>5, <1>6, <1>7 DEF Source
<1>8. CASE i # 1
  <2>1. i - 1 \in 1..n /\ (i - 1) + 1 = i
    BY <1>1, <1>8
  <2>2. t[i - 1] = From(a)
    BY <1>1, <1>6, <2>1
  <2>3. Source(t, pw, i - 1, a)
    BY <1>1, <2>1, <2>2 DEF Source
  <2> QED
    BY <1>5, <2>3
<1> QED
  BY <1>7, <1>8

-----------------------------------------------------------------------------
(* The invariant. Until the power goes off, what is watched or has an event*)
(* in the queue has a node, and own explains nodes, scans and events.      *)
NoneOutside == \A d \in Dirs : where[d] # Outside
Within      == moves <= 1 \/ NoneOutside

HasNode(d) == \E i \in DOMAIN nodes : nodes[i].wd = d
EventsFound(q) == \A j \in DOMAIN q : HasNode(q[j].wd)
WatchesFound ==
  /\ \A d \in watched : where[d] # Nowhere /\ HasNode(d)
  /\ EventsFound(events)

Owners(own) ==
  /\ \A p \in used : own[p] \in (Root + 1)..(Root + made)
  /\ \A d \in Dirs : where[d] \in Folders => where[d] \in used /\ own[where[d]] = d
NodesOwned(own) ==
  \A i \in DOMAIN nodes :
    i = 1 \/ (nodes[i].path \in used /\ own[nodes[i].path] = nodes[i].wd)
ScanOwned(own) ==
  pc = "rename" =>
    /\ scan.to \in used
    /\ \A i \in DOMAIN nodes : nodes[i].path = scan.from => nodes[i].wd = own[scan.to]
EventsOwned(own, q) ==
  /\ Removals(where, used, own, q)
  /\ NoneOutside => Followed(used, own, q, prev)
  /\ moves = 0 \/ ~NoneOutside => Preceded(used, own, q, prev)
Owned(own) ==
  Owners(own) /\ NodesOwned(own) /\ ScanOwned(own) /\ EventsOwned(own, events)

Unmade ==
  /\ \A d \in Dirs : d > Root + made => where[d] = Nowhere
  /\ \A d \in Dirs : where[d] = Outside => moves > 0

Resolved == pc # "exited" /\ WatchesFound /\ \E own \in [Folders -> Dirs] : Owned(own)
ResolvedInv ==
  Unmade /\ (~Reuse /\ powerOff = "no" /\ Within => Resolved)

LEMMA ResolvedInit ==
  Init => ResolvedInv
<1> SUFFICES ASSUME Init PROVE ResolvedInv
  OBVIOUS
<1>1. Unmade
  BY Numbers, InotifyAssumption DEF InotifyAssumption, Init, Unmade
<1>2. pc # "exited" /\ nodes = <<RootNode>> /\ events = <<>> /\ DOMAIN nodes = {1}
  BY DEF Init, RootNode
<1>3. WatchesFound
  <2>1. HasNode(Root)
    BY <1>2 DEF HasNode, RootNode
  <2>2. watched = {Root} /\ where[Root] # Nowhere
    BY Numbers, InotifyAssumption DEF InotifyAssumption, Init
  <2> QED
    BY <1>2, <2>1, <2>2 DEF WatchesFound, EventsFound
<1> DEFINE own == [p \in Folders |-> Root]
<1>4. own \in [Folders -> Dirs]
  BY Numbers
<1>5. Owners(own)
  <2>1. \A d \in Dirs : where[d] \notin Folders
    BY InotifyAssumption DEF InotifyAssumption, Init
  <2> QED
    BY <2>1 DEF Init, Owners
<1>6. NodesOwned(own) /\ ScanOwned(own)
  BY <1>2 DEF NodesOwned, ScanOwned, Init
<1>7. EventsOwned(own, events)
  <2>1. /\ events = <<>> /\ Len(events) = 0 /\ DOMAIN events = {}
        /\ \A p : prev # [wd |-> Root, name |-> p]
    BY Numbers DEF Init
  <2>2. Removals(where, used, own, events)
    BY <2>1 DEF Removals
  <2>3. Followed(used, own, events, prev)
    BY <2>1 DEF Followed, Source
  <2>4. Preceded(used, own, events, prev)
    BY <2>1 DEF Preceded
  <2> QED
    BY <2>2, <2>3, <2>4 DEF EventsOwned
<1> HIDE DEF own
<1>8. Owned(own)
  BY <1>5, <1>6, <1>7 DEF Owned
<1> QED
  BY <1>1, <1>2, <1>3, <1>4, <1>8 DEF ResolvedInv, Resolved

-----------------------------------------------------------------------------
(* The bounds on inodes and moves, and what they say of an earlier state.  *)
LEMMA UnmadeStep ==
  ASSUME Typed, Unmade, [Next]_vars
  PROVE  /\ Unmade' /\ (Within' => Within)
<1>n. /\ made \in Nat /\ moves \in Nat /\ Dirs \subseteq Nat /\ Root = 1
      /\ where \in [Dirs -> Paths \cup {Nowhere, Outside}]
  BY Numbers DEF Typed, FsTyped
<1>0. CASE UNCHANGED <<where, made, moves>>
  BY <1>0 DEF Unmade, Within, NoneOutside
<1>1. ASSUME NEW d \in Dirs, NEW p \in Folders \cup {Nowhere}, where[d] \in Folders,
             where' = [where EXCEPT ![d] = p], UNCHANGED <<made, moves>>
      PROVE  Unmade' /\ (Within' => Within)
  <2>1. p # Outside /\ where[d] # Outside /\ where[d] # Nowhere
    BY <1>1, InotifyAssumption DEF InotifyAssumption
  <2>2. \A e \in Dirs : where'[e] = IF e = d THEN p ELSE where[e]
    BY <1>1, <1>n
  <2>3. ~(d > Root + made)
    BY <2>1 DEF Unmade
  <2>4. Unmade'
    BY <1>1, <2>1, <2>2, <2>3 DEF Unmade
  <2>5. NoneOutside' => NoneOutside
    BY <2>1, <2>2 DEF NoneOutside
  <2> QED
    BY <1>1, <2>4, <2>5 DEF Within
<1>2. ASSUME NEW d \in Dirs, where[d] \in Folders,
             where' = [where EXCEPT ![d] = Outside], made' = made, moves' = moves + 1
      PROVE  Unmade' /\ (Within' => Within)
  <2>1. where[d] # Nowhere
    BY <1>2, InotifyAssumption DEF InotifyAssumption
  <2>2. \A e \in Dirs : where'[e] = IF e = d THEN Outside ELSE where[e]
    BY <1>2, <1>n
  <2>3. ~(d > Root + made)
    BY <2>1 DEF Unmade
  <2>4. moves' > 0 /\ (moves' <= 1 => moves <= 1)
    BY <1>2, <1>n
  <2>5. Unmade'
    BY <1>2, <2>2, <2>3, <2>4 DEF Unmade
  <2>6. ~NoneOutside'
    BY <2>2 DEF NoneOutside
  <2> QED
    BY <2>4, <2>5, <2>6 DEF Within
<1>3. ASSUME NEW p \in Folders, MakeFolder(p) \/ \E F \in SUBSET Names : MoveFolderIn(p, F)
      PROVE  Unmade' /\ (Within' => Within)
  <2>1. /\ where' = [where EXCEPT ![Root + made + 1] = p]
        /\ made' = made + 1 /\ (moves' = moves \/ moves' = moves + 1)
    BY <1>3 DEF MakeFolder, MoveFolderIn
  <2>2. p # Outside /\ p # Nowhere
    BY InotifyAssumption DEF InotifyAssumption
  <2>3. \A e \in Dirs : where'[e] = IF e = Root + made + 1 THEN p ELSE where[e]
    BY <2>1, <1>n
  <2>4. \A e \in Dirs : e > Root + made' => e > Root + made /\ e # Root + made + 1
    BY <2>1, <1>n
  <2>5. (moves > 0 => moves' > 0) /\ (moves' <= 1 => moves <= 1)
    BY <2>1, <1>n
  <2>6. Unmade'
    BY <2>2, <2>3, <2>4, <2>5 DEF Unmade
  <2>7. \A e \in Dirs : where[e] = Outside => e # Root + made + 1
    <3>1. \A e \in Dirs : e = Root + made + 1 => e > Root + made
      BY <1>n
    <3> QED
      BY <3>1, InotifyAssumption DEF InotifyAssumption, Unmade
  <2>8. NoneOutside' => NoneOutside
    BY <2>3, <2>7 DEF NoneOutside
  <2> QED
    BY <2>5, <2>6, <2>8 DEF Within
<1>4. CASE Thread \/ PowerOff \/ NotifyInotifyThread \/ UNCHANGED vars
  <2>1. CASE Thread
    BY <2>1, <1>0
       DEF Thread, Gone, FileMovedTo, FileCreated, FileClosed, FolderCreated, FolderDeleted,
           FolderMovedFrom, FolderMovedTo, ScanWatch, RenameWatch, ScanEntry, MoveEntry,
           ScanDone, Exit, fs
  <2>2. CASE PowerOff \/ NotifyInotifyThread \/ UNCHANGED vars
    BY <2>2, <1>0 DEF PowerOff, NotifyInotifyThread, fs, vars
  <2> QED
    BY <1>4, <2>1, <2>2
<1>5. CASE FileSystem
  <2>1. CASE \E d \in Dirs, n \in Names :
               \/ CreateFile(d, n) \/ OpenFile(d, n) \/ CloseFile(d, n) \/ DeleteFile(d, n)
               \/ \E e \in Dirs, m \in Names : MoveFile(d, n, e, m)
    <3>1. ASSUME NEW d \in Dirs, NEW n \in Names,
                 CreateFile(d, n) \/ OpenFile(d, n) \/ CloseFile(d, n) \/ DeleteFile(d, n)
          PROVE  UNCHANGED <<where, made, moves>>
      BY <3>1 DEF CreateFile, OpenFile, CloseFile, DeleteFile
    <3>2. ASSUME NEW d \in Dirs, NEW n \in Names, NEW e \in Dirs, NEW m \in Names,
                 MoveFile(d, n, e, m)
          PROVE  UNCHANGED <<where, made, moves>>
      BY <3>2 DEF MoveFile
    <3> QED
      BY <2>1, <1>0, <3>1, <3>2
  <2>2. CASE \E d \in Dirs : RemoveFolder(d)
    BY <2>2, <1>1 DEF RemoveFolder
  <2>3. CASE \E d \in Dirs : MoveFolderOut(d)
    BY <2>3, <1>2 DEF MoveFolderOut
  <2>4. CASE \E p \in Folders, d \in Dirs : RenameFolder(d, p)
    BY <2>4, <1>1 DEF RenameFolder
  <2> QED
    BY <1>3, <1>5, <2>1, <2>2, <2>3, <2>4 DEF FileSystem
<1> QED
  BY <1>4, <1>5 DEF Next

-----------------------------------------------------------------------------
(* The operations on files.                                                *)
LEMMA FileEventAdded ==
  ASSUME Typed, WatchesFound, NEW own, NEW q \in Seq(Queued), NEW e \in FileEvents,
         e.wd \in watched, EventsOwned(own, q), EventsFound(q)
  PROVE  EventsOwned(own, Append(q, e)) /\ EventsFound(Append(q, e))
<1>1. e \in Queued
  BY DEF Queued
<1>2. \A p : e # From(p) /\ e # To(p) /\ e # Deleted(p)
  <2>1. e.isdir = FALSE
    BY DEF FileEvents
  <2>2. \A p : From(p).isdir = TRUE /\ To(p).isdir = TRUE /\ Deleted(p).isdir = TRUE
    BY DEF From, To, Deleted, Event
  <2> QED
    BY <2>1, <2>2
<1>3. where[e.wd] # Nowhere /\ HasNode(e.wd)
  BY DEF WatchesFound
<1>4. used \subseteq Folders
  BY DEF Typed, FsTyped
<1>5. Removals(where, used, own, Append(q, e))
  BY <1>1, <1>2, <1>3, <1>4, RemovalsMore DEF EventsOwned
<1>6. NoneOutside => Followed(used, own, Append(q, e), prev)
  BY <1>1, <1>2, FollowedMore DEF EventsOwned
<1>7. moves = 0 \/ ~NoneOutside => Preceded(used, own, Append(q, e), prev)
  BY <1>1, <1>2, PrecededMore DEF EventsOwned
<1>8. EventsFound(Append(q, e))
  <2>1. /\ DOMAIN Append(q, e) = 1..(Len(q) + 1) /\ DOMAIN q = 1..Len(q) /\ Len(q) \in Nat
        /\ \A j \in 1..Len(q) : Append(q, e)[j] = q[j]
        /\ Append(q, e)[Len(q) + 1] = e
    OBVIOUS
  <2>2. \A j \in 1..(Len(q) + 1) : j \in 1..Len(q) \/ j = Len(q) + 1
    BY <2>1
  <2> QED
    BY <1>3, <2>1, <2>2 DEF EventsFound
<1> QED
  BY <1>5, <1>6, <1>7, <1>8 DEF EventsOwned

LEMMA FileOperationResolved ==
  ASSUME Typed, Resolved, NEW d \in Dirs, NEW n \in Names,
         \/ CreateFile(d, n) \/ OpenFile(d, n) \/ CloseFile(d, n) \/ DeleteFile(d, n)
         \/ \E e \in Dirs, m \in Names : MoveFile(d, n, e, m)
  PROVE  Resolved'
<1>1. UNCHANGED <<where, watched, used, made, moves, nodes, prev, scan, pc>>
  <2>1. CASE CreateFile(d, n) \/ OpenFile(d, n) \/ CloseFile(d, n) \/ DeleteFile(d, n)
    BY <2>1 DEF CreateFile, OpenFile, CloseFile, DeleteFile, Operation, thread
  <2>2. ASSUME NEW e \in Dirs, NEW m \in Names, MoveFile(d, n, e, m)
        PROVE  UNCHANGED <<where, watched, used, made, moves, nodes, prev, scan, pc>>
    BY <2>2 DEF MoveFile, Operation, thread
  <2> QED
    BY <2>1, <2>2
<1>2. PICK own \in [Folders -> Dirs] : Owned(own)
  BY DEF Resolved
<1>3. WatchesFound /\ EventsFound(events) /\ EventsOwned(own, events) /\ events \in Seq(Queued)
  BY <1>2 DEF Resolved, WatchesFound, Owned, Typed
<1>4. \A k \in Kinds, f \in Dirs, m \in Names :
        Event(f, k, m, FALSE) \in FileEvents /\ Event(f, k, m, FALSE) \in Queued
  BY DEF Event, FileEvents, Queued
<1>5. EventsOwned(own, events') /\ EventsFound(events')
  <2>1. ASSUME NEW k \in Kinds, Emit(Event(d, k, n, FALSE))
        PROVE  EventsOwned(own, events') /\ EventsFound(events')
    <3> DEFINE e == Event(d, k, n, FALSE)
    <3>1. e \in FileEvents /\ e \in Queued
      BY <1>4
    <3>2. Emit(e)
      BY <2>1
    <3> HIDE DEF e
    <3>3. events' = events \/ (e.wd \in watched /\ events' = Append(events, e))
      BY <1>3, <3>1, <3>2, Emitted
    <3> QED
      BY <1>3, <3>1, <3>3, FileEventAdded
  <2>2. ASSUME NEW f \in Dirs, NEW m \in Names,
               EmitBoth(Event(d, "moved_from", n, FALSE), Event(f, "moved_to", m, FALSE))
        PROVE  EventsOwned(own, events') /\ EventsFound(events')
    <3> DEFINE e == Event(d, "moved_from", n, FALSE)
               g == Event(f, "moved_to", m, FALSE)
    <3>1. e \in FileEvents /\ e \in Queued /\ g \in FileEvents /\ g \in Queued
      BY <1>4 DEF Kinds
    <3>2. EmitBoth(e, g)
      BY <2>2
    <3> HIDE DEF e, g
    <3>3. \/ events' = events
          \/ e.wd \in watched /\ events' = Append(events, e)
          \/ g.wd \in watched /\ events' = Append(events, g)
          \/ e.wd \in watched /\ g.wd \in watched /\ events' = Append(Append(events, e), g)
      BY <1>3, <3>1, <3>2, BothEmitted
    <3>4. e.wd \in watched => /\ EventsOwned(own, Append(events, e))
                             /\ EventsFound(Append(events, e))
                             /\ Append(events, e) \in Seq(Queued)
      BY <1>3, <3>1, FileEventAdded, Appended
    <3> QED
      BY <1>3, <3>1, <3>3, <3>4, FileEventAdded
  <2>3. CASE UNCHANGED events
    BY <1>3, <2>3
  <2> QED
    BY <2>1, <2>2, <2>3 DEF CreateFile, OpenFile, CloseFile, DeleteFile, MoveFile, Kinds
<1>6. Owned(own)'
  BY <1>1, <1>2, <1>5
     DEF Owned, Owners, NodesOwned, ScanOwned, EventsOwned, NoneOutside
<1>7. WatchesFound'
  BY <1>1, <1>3, <1>5 DEF WatchesFound, EventsFound, HasNode
<1> QED
  BY <1>1, <1>2, <1>6, <1>7 DEF Resolved

-----------------------------------------------------------------------------
(* The operations on folders. Their events are the root folder's.          *)
LEMMA FolderEventAdded ==
  ASSUME Typed, WatchesFound, NEW S, NEW q \in Seq(S), NEW e \in S, e.wd = Root, EventsFound(q)
  PROVE  EventsFound(Append(q, e))
<1>1. HasNode(e.wd)
  BY DEF WatchesFound, Typed, FsTyped
<1>2. /\ DOMAIN Append(q, e) = 1..(Len(q) + 1) /\ DOMAIN q = 1..Len(q) /\ Len(q) \in Nat
      /\ \A j \in 1..Len(q) : Append(q, e)[j] = q[j]
      /\ Append(q, e)[Len(q) + 1] = e
  OBVIOUS
<1>3. \A j \in 1..(Len(q) + 1) : j \in 1..Len(q) \/ j = Len(q) + 1
  BY <1>2
<1> QED
  BY <1>1, <1>2, <1>3 DEF EventsFound

LEMMA FolderEvent ==
  ASSUME Typed, NEW k \in Kinds, NEW p \in Folders
  PROVE  /\ Event(Root, k, p, TRUE) \in Queued /\ Event(Root, k, p, TRUE).wd = Root
         /\ Emit(Event(Root, k, p, TRUE)) => events' = Append(events, Event(Root, k, p, TRUE))
<1> DEFINE e == Event(Root, k, p, TRUE)
<1>1. e \in Queued /\ e.wd = Root
  BY EventsOfFolders
<1> HIDE DEF e
<1>2. Root \in watched /\ events \in Seq(Queued)
  BY DEF Typed, FsTyped
<1>3. Emit(e) => events' = Append(events, e)
  BY <1>1, <1>2, Emitted
<1> QED
  BY <1>1, <1>3 DEF e

(* Folders are not the root folder, which no name owns.                    *)
LEMMA NotRoot ==
  ASSUME Typed, NEW own, Owners(own), NEW p \in used
  PROVE  own[p] # Root /\ own[p] <= Root + made /\ own[p] \in Nat
<1>1. own[p] \in (Root + 1)..(Root + made) /\ Root = 1 /\ made \in Nat
  BY Numbers DEF Owners, Typed, FsTyped
<1> QED
  BY ONLY <1>1

LEMMA ArrivalResolved ==
  ASSUME Typed, Unmade, Resolved, Within', ~Reuse, NEW p \in Folders,
         MakeFolder(p) \/ \E F \in SUBSET Names : MoveFolderIn(p, F)
  PROVE  Resolved'
<1> DEFINE new == Root + made + 1
<1>1. /\ UNCHANGED <<watched, nodes, prev, scan, pc>>
      /\ p \notin used /\ used' = used \cup {p}
      /\ where' = [where EXCEPT ![new] = p]
      /\ made' = made + 1 /\ made < MaxInodes
      /\ \/ moves' = moves /\ Emit(Event(Root, "create", p, TRUE))
         \/ moves' = moves + 1 /\ Emit(Event(Root, "moved_to", p, TRUE))
  BY DEF MakeFolder, MoveFolderIn, Operation, thread, Free
<1>2. PICK own \in [Folders -> Dirs] : Owned(own)
  BY DEF Resolved
<1>3. /\ made \in Nat /\ moves \in Nat /\ new \in Dirs /\ new # Root /\ new > Root + made
      /\ where \in [Dirs -> Paths \cup {Nowhere, Outside}] /\ used \subseteq Folders
      /\ events \in Seq(Queued)
  BY <1>1, Numbers DEF Typed, FsTyped
<1>4. WatchesFound /\ EventsFound(events) /\ Owners(own) /\ NodesOwned(own) /\ ScanOwned(own)
      /\ EventsOwned(own, events)
  BY <1>2 DEF Resolved, WatchesFound, Owned
<1>5. PICK own2 \in [Folders -> Dirs] : own2[p] = new /\ \A q \in used : own2[q] = own[q]
  <2> DEFINE f == [own EXCEPT ![p] = new]
  <2>1. f \in [Folders -> Dirs] /\ f[p] = new /\ \A q \in used : f[q] = own[q]
    BY <1>1, <1>3
  <2> QED
    BY <2>1
<1>6. \A q \in used : own[q] # Root /\ own[q] # new /\ own[q] \in (Root + 1)..(Root + made)
  <2>1. \A q \in used : own[q] # Root /\ own[q] <= Root + made /\ own[q] \in Nat
    BY <1>4, NotRoot
  <2>2. \A n \in Nat : n <= Root + made => n # new
    BY <1>3, Numbers
  <2> QED
    BY <1>4, <2>1, <2>2 DEF Owners
<1>7. where[new] = Nowhere
  BY <1>3 DEF Unmade
<1>8. p # Nowhere /\ p # Outside
  BY InotifyAssumption DEF InotifyAssumption
<1>a. new = Root + 1 + made /\ Root = 1
  BY <1>3, Numbers
<1> HIDE DEF new
<1>9. \A d \in Dirs : where'[d] = IF d = new THEN p ELSE where[d]
  BY <1>1, <1>3
<1>10. Owners(own2)'
  <2>1. \A q \in used : own2[q] \in (Root + 1)..(Root + made')
    BY <1>1, <1>3, <1>5, <1>6, Numbers
  <2>2. new \in (Root + 1)..(Root + made')
    BY <1>1, <1>3, <1>a
  <2>3. \A d \in Dirs : where'[d] \in Folders => where'[d] \in used' /\ own2[where'[d]] = d
    BY <1>1, <1>4, <1>5, <1>9 DEF Owners
  <2> QED
    BY <1>1, <1>5, <2>1, <2>2, <2>3 DEF Owners
<1>11. NodesOwned(own2)' /\ ScanOwned(own2)'
  BY <1>1, <1>4, <1>5 DEF NodesOwned, ScanOwned
<1>12. Agree(used, own, used', own2)
  BY <1>1, <1>5 DEF Agree
<1>13. Removals(where', used', own2, events)
  <2>1. \A q \in used : where[own[q]] = Nowhere => where'[own[q]] = Nowhere
    BY <1>1, <1>6
  <2> QED
    BY <1>4, <1>12, <2>1, RemovalsKept DEF EventsOwned
<1>14. /\ NoneOutside => Followed(used', own2, events, prev)
       /\ moves = 0 \/ ~NoneOutside => Preceded(used', own2, events, prev)
  BY <1>4, <1>12, RenamesKept DEF EventsOwned
<1>15. NoneOutside' <=> NoneOutside
  BY <1>3, <1>7, <1>8, <1>9, InotifyAssumption DEF InotifyAssumption, NoneOutside
<1>16. /\ \A q \in Folders : \A k \in {"create", "moved_to"} :
           Event(Root, k, p, TRUE) # From(q) /\ Event(Root, k, p, TRUE) # Deleted(q)
       /\ \A q \in Folders : Event(Root, "create", p, TRUE) # To(q)
  BY DEF Event, From, To, Deleted
<1>17. PICK k \in {"create", "moved_to"} :
         /\ events' = Append(events, Event(Root, k, p, TRUE))
         /\ k = "create" => moves' = moves
         /\ k = "moved_to" => moves' = moves + 1
  BY <1>1, FolderEvent DEF Kinds
<1> DEFINE e == Event(Root, k, p, TRUE)
<1>18. e \in Queued /\ e.wd = Root /\ events' = Append(events, e)
  BY <1>17, FolderEvent DEF Kinds
<1>19. /\ \A q \in Folders : e # From(q) /\ e # Deleted(q)
       /\ k = "create" => \A q \in Folders : e # To(q)
  BY <1>16
<1> HIDE DEF e
<1>20. Removals(where', used', own2, events')
  <2>1. \A q \in used' : own2[q] # Root
    BY <1>1, <1>3, <1>5, <1>6
  <2>2. used' \subseteq Folders
    BY <1>1, <1>3
  <2> QED
    BY <1>3, <1>13, <1>18, <1>19, <2>1, <2>2, RemovalsMore
<1>21. NoneOutside' => Followed(used', own2, events', prev')
  BY <1>1, <1>3, <1>14, <1>15, <1>18, <1>19, FollowedMore
<1>22. moves' = 0 \/ ~NoneOutside' => Preceded(used', own2, events', prev')
  <2>1. CASE k = "create"
    <3>1. moves = 0 \/ ~NoneOutside => Preceded(used', own2, Append(events, e), prev)
      BY <1>3, <1>14, <1>18, <1>19, <2>1, PrecededMore
    <3> QED
      BY <1>1, <1>15, <1>17, <1>18, <2>1, <3>1
  <2>2. CASE k = "moved_to"
    <3>1. moves' # 0 /\ (moves' <= 1 => moves = 0)
      BY <1>3, <1>17, <2>2
    <3>2. moves = 0 => NoneOutside
      BY <1>3 DEF Unmade, NoneOutside
    <3> QED
      BY <1>15, <3>1, <3>2 DEF Within
  <2> QED
    BY <2>1, <2>2
<1>23. EventsOwned(own2, events)'
  BY <1>20, <1>21, <1>22 DEF EventsOwned
<1>24. WatchesFound'
  <2>1. EventsFound(events')
    BY <1>3, <1>4, <1>18, FolderEventAdded
  <2>2. \A d \in watched : where'[d] # Nowhere /\ HasNode(d)
    BY <1>4, <1>8, <1>9 DEF WatchesFound, Typed, FsTyped
  <2> QED
    BY <1>1, <2>1, <2>2 DEF WatchesFound, EventsFound, HasNode
<1>25. Owned(own2)'
  BY <1>10, <1>11, <1>23 DEF Owned
<1> QED
  BY <1>1, <1>5, <1>24, <1>25 DEF Resolved

LEMMA DepartureOwned ==
  ASSUME Typed, NEW own \in [Folders -> Dirs], NEW d \in Dirs, where[d] \in Folders,
         Owners(own)
  PROVE  /\ where[d] \in used /\ own[where[d]] = d /\ d # Root
         /\ where[d] # Nowhere /\ where[d] # Outside
         /\ where \in [Dirs -> Paths \cup {Nowhere, Outside}] /\ used \subseteq Folders
         /\ events \in Seq(Queued)
<1>1. where[d] \in used /\ own[where[d]] = d
  BY DEF Owners
<1>2. d # Root
  BY <1>1, NotRoot
<1>3. where[d] # Nowhere /\ where[d] # Outside
  BY InotifyAssumption DEF InotifyAssumption
<1> QED
  BY <1>1, <1>2, <1>3 DEF Typed, FsTyped

LEMMA RemoveFolderResolved ==
  ASSUME Typed, Resolved, NEW d \in Dirs, RemoveFolder(d)
  PROVE  Resolved'
<1>1. /\ UNCHANGED <<used, made, moves, nodes, prev, scan, pc>>
      /\ where[d] \in Folders
      /\ where' = [where EXCEPT ![d] = Nowhere] /\ watched' = watched \ {d}
      /\ Emit(Event(Root, "delete", where[d], TRUE))
  BY DEF RemoveFolder, Operation, thread
<1>2. PICK own \in [Folders -> Dirs] : Owned(own)
  BY DEF Resolved
<1>3. WatchesFound /\ EventsFound(events) /\ Owners(own) /\ NodesOwned(own) /\ ScanOwned(own)
      /\ EventsOwned(own, events)
  BY <1>2 DEF Resolved, WatchesFound, Owned
<1>4. PICK p \in Folders : p = where[d]
  BY <1>1
<1>5. /\ p \in used /\ own[p] = d /\ d # Root /\ p # Outside
      /\ where \in [Dirs -> Paths \cup {Nowhere, Outside}] /\ used \subseteq Folders
      /\ events \in Seq(Queued)
  BY <1>1, <1>3, <1>4, DepartureOwned
<1> DEFINE e == Event(Root, "delete", p, TRUE)
<1>6. e \in Queued /\ e.wd = Root /\ events' = Append(events, e)
  BY <1>1, <1>4, FolderEvent DEF Kinds
<1>7. \A q \in Folders : e # From(q) /\ e # To(q) /\ (e = Deleted(q) => q = p)
  BY DEF Event, From, To, Deleted
<1> HIDE DEF e
<1>8. \A c \in Dirs : where'[c] = IF c = d THEN Nowhere ELSE where[c]
  BY <1>1, <1>5
<1>9. Owners(own)'
  BY <1>1, <1>3, <1>8, InotifyAssumption DEF InotifyAssumption, Owners
<1>10. NodesOwned(own)' /\ ScanOwned(own)'
  BY <1>1, <1>3 DEF NodesOwned, ScanOwned
<1>11. NoneOutside' <=> NoneOutside
  BY <1>4, <1>5, <1>8, InotifyAssumption DEF InotifyAssumption, NoneOutside
<1>12. \A q \in used : own[q] # Root /\ own[q] \in Dirs
  BY <1>3, <1>5, NotRoot
<1>13. Removals(where', used, own, events)
  <2>1. \A q \in used : where[own[q]] = Nowhere => where'[own[q]] = Nowhere
    BY <1>8, <1>12
  <2> QED
    BY <1>3, <2>1, RemovalsKept DEF EventsOwned, Agree
<1>14. Removals(where', used, own, events')
  <2>1. p \in used /\ where'[own[p]] = Nowhere
    BY <1>5, <1>8
  <2> QED
    BY <1>5, <1>6, <1>7, <1>12, <1>13, <2>1, RemovalsMore
<1>15. NoneOutside => Followed(used, own, events', prev)
  BY <1>3, <1>5, <1>6, <1>7, FollowedMore DEF EventsOwned
<1>16. moves = 0 \/ ~NoneOutside => Preceded(used, own, events', prev)
  BY <1>3, <1>5, <1>6, <1>7, PrecededMore DEF EventsOwned
<1>17. EventsOwned(own, events)'
  BY <1>1, <1>11, <1>14, <1>15, <1>16 DEF EventsOwned
<1>18. WatchesFound'
  <2>1. EventsFound(events')
    BY <1>3, <1>5, <1>6, FolderEventAdded
  <2>2. \A c \in watched' : where'[c] # Nowhere /\ HasNode(c)
    BY <1>1, <1>3, <1>8 DEF WatchesFound, Typed, FsTyped
  <2> QED
    BY <1>1, <2>1, <2>2 DEF WatchesFound, EventsFound, HasNode
<1>19. Owned(own)'
  BY <1>9, <1>10, <1>17 DEF Owned
<1> QED
  BY <1>1, <1>2, <1>18, <1>19 DEF Resolved

(* Where a folder has left, no other one may have come.                    *)
LEMMA MoveFolderOutResolved ==
  ASSUME Typed, Unmade, Resolved, Within', NEW d \in Dirs, MoveFolderOut(d)
  PROVE  Resolved'
<1>1. /\ UNCHANGED <<used, made, watched, nodes, prev, scan, pc>>
      /\ where[d] \in Folders /\ moves' = moves + 1
      /\ where' = [where EXCEPT ![d] = Outside]
      /\ Emit(Event(Root, "moved_from", where[d], TRUE))
  BY DEF MoveFolderOut, Operation, thread
<1>2. PICK own \in [Folders -> Dirs] : Owned(own)
  BY DEF Resolved
<1>3. WatchesFound /\ EventsFound(events) /\ Owners(own) /\ NodesOwned(own) /\ ScanOwned(own)
      /\ EventsOwned(own, events)
  BY <1>2 DEF Resolved, WatchesFound, Owned
<1>4. PICK p \in Folders : p = where[d]
  BY <1>1
<1>5. /\ p \in used /\ own[p] = d /\ d # Root /\ p # Nowhere
      /\ where \in [Dirs -> Paths \cup {Nowhere, Outside}] /\ used \subseteq Folders
      /\ events \in Seq(Queued)
  BY <1>1, <1>3, <1>4, DepartureOwned
<1> DEFINE e == Event(Root, "moved_from", p, TRUE)
<1>6. e \in Queued /\ e.wd = Root /\ events' = Append(events, e)
  BY <1>1, <1>4, FolderEvent DEF Kinds
<1>7. \A q \in Folders : e # To(q) /\ e # Deleted(q)
  BY DEF Event, To, Deleted
<1> HIDE DEF e
<1>8. \A c \in Dirs : where'[c] = IF c = d THEN Outside ELSE where[c]
  BY <1>1, <1>5
<1>9. ~NoneOutside' /\ Outside # Nowhere /\ Outside \notin Folders
  BY <1>8, InotifyAssumption DEF InotifyAssumption, NoneOutside
<1>10. moves = 0
  BY <1>1, <1>9 DEF Within, Typed, FsTyped
<1>11. Owners(own)' /\ NodesOwned(own)' /\ ScanOwned(own)'
  BY <1>1, <1>3, <1>8, <1>9 DEF Owners, NodesOwned, ScanOwned
<1>12. \A q \in used : own[q] # Root /\ own[q] \in Dirs
  BY <1>3, <1>5, NotRoot
<1>13. Removals(where', used, own, events)
  <2>1. \A q \in used : where[own[q]] = Nowhere => where'[own[q]] = Nowhere
    BY <1>4, <1>5, <1>8, <1>12
  <2> QED
    BY <1>3, <2>1, RemovalsKept DEF EventsOwned, Agree
<1>14. Removals(where', used, own, events')
  BY <1>5, <1>6, <1>7, <1>12, <1>13, RemovalsMore
<1>15. Preceded(used, own, events', prev)
  BY <1>3, <1>5, <1>6, <1>7, <1>10, PrecededMore DEF EventsOwned
<1>16. EventsOwned(own, events)'
  BY <1>1, <1>9, <1>14, <1>15 DEF EventsOwned
<1>17. WatchesFound'
  <2>1. EventsFound(events')
    BY <1>3, <1>5, <1>6, FolderEventAdded
  <2>2. \A c \in watched : where'[c] # Nowhere /\ HasNode(c)
    BY <1>3, <1>8, <1>9 DEF WatchesFound, Typed, FsTyped
  <2> QED
    BY <1>1, <2>1, <2>2 DEF WatchesFound, EventsFound, HasNode
<1>18. Owned(own)'
  BY <1>11, <1>16 DEF Owned
<1> QED
  BY <1>1, <1>2, <1>17, <1>18 DEF Resolved

LEMMA RenameFolderResolved ==
  ASSUME Typed, Resolved, ~Reuse, NEW d \in Dirs, NEW b \in Folders, RenameFolder(d, b)
  PROVE  Resolved'
<1>1. /\ UNCHANGED <<watched, made, moves, nodes, prev, scan, pc>>
      /\ where[d] \in Folders /\ b \notin used /\ used' = used \cup {b}
      /\ where' = [where EXCEPT ![d] = b]
      /\ EmitBoth(Event(Root, "moved_from", where[d], TRUE), Event(Root, "moved_to", b, TRUE))
  BY DEF RenameFolder, Operation, thread, Free
<1>2. PICK own \in [Folders -> Dirs] : Owned(own)
  BY DEF Resolved
<1>3. WatchesFound /\ EventsFound(events) /\ Owners(own) /\ NodesOwned(own) /\ ScanOwned(own)
      /\ EventsOwned(own, events)
  BY <1>2 DEF Resolved, WatchesFound, Owned
<1>4. PICK a \in Folders : a = where[d]
  BY <1>1
<1>5. /\ a \in used /\ own[a] = d /\ d # Root /\ a # Nowhere /\ a # Outside
      /\ where \in [Dirs -> Paths \cup {Nowhere, Outside}] /\ used \subseteq Folders
      /\ events \in Seq(Queued)
  BY <1>1, <1>3, <1>4, DepartureOwned
<1>6. PICK own2 \in [Folders -> Dirs] : own2[b] = d /\ \A q \in used : own2[q] = own[q]
  <2> DEFINE f == [own EXCEPT ![b] = d]
  <2>1. f \in [Folders -> Dirs] /\ f[b] = d /\ \A q \in used : f[q] = own[q]
    BY <1>1
  <2> QED
    BY <2>1
<1>7. /\ From(a) \in Queued /\ To(b) \in Queued /\ From(a).wd = Root /\ To(b).wd = Root
  BY EventsOfFolders DEF From, To, Kinds
<1>8. events' = Append(Append(events, From(a)), To(b))
  <2>1. EmitBoth(From(a), To(b))
    BY <1>1, <1>4 DEF From, To
  <2>2. Root \in watched
    BY DEF Typed, FsTyped
  <2> QED
    BY <1>5, <1>7, <2>1, <2>2, BothEmitted
<1>9. \A c \in Dirs : where'[c] = IF c = d THEN b ELSE where[c]
  BY <1>1, <1>5
<1>10. b # Nowhere /\ b # Outside
  BY InotifyAssumption DEF InotifyAssumption
<1>11. Owners(own2)'
  <2>1. \A q \in used' : own2[q] \in (Root + 1)..(Root + made')
    BY <1>1, <1>3, <1>5, <1>6 DEF Owners
  <2>2. \A c \in Dirs : where'[c] \in Folders => where'[c] \in used' /\ own2[where'[c]] = c
    BY <1>1, <1>3, <1>6, <1>9 DEF Owners
  <2> QED
    BY <2>1, <2>2 DEF Owners
<1>12. NodesOwned(own2)' /\ ScanOwned(own2)'
  BY <1>1, <1>3, <1>6 DEF NodesOwned, ScanOwned
<1>13. Agree(used, own, used', own2)
  BY <1>1, <1>6 DEF Agree
<1>14. NoneOutside' <=> NoneOutside
  BY <1>4, <1>5, <1>9, <1>10 DEF NoneOutside
<1>15. \A q \in used' : own2[q] # Root
  BY <1>1, <1>3, <1>5, <1>6, NotRoot
<1>16. Removals(where', used', own2, events)
  <2>1. \A q \in used : where[own[q]] = Nowhere => where'[own[q]] = Nowhere
    BY <1>4, <1>5, <1>9
  <2> QED
    BY <1>3, <1>13, <2>1, RemovalsKept DEF EventsOwned
<1>17. Removals(where', used', own2, events')
  <2>1. \A q \in Folders : From(a) # Deleted(q) /\ To(b) # Deleted(q)
    BY DEF From, To, Deleted, Event
  <2>2. used' \subseteq Folders
    BY <1>1, <1>5
  <2>3. Removals(where', used', own2, Append(events, From(a)))
    BY <1>5, <1>7, <1>15, <1>16, <2>1, <2>2, RemovalsMore
  <2>4. Append(events, From(a)) \in Seq(Queued)
    BY <1>5, <1>7, Appended
  <2> QED
    BY <1>7, <1>8, <1>15, <2>1, <2>2, <2>3, <2>4, RemovalsMore
<1>18. Same(used', own2, a, b)
  BY <1>1, <1>5, <1>6 DEF Same
<1>19. NoneOutside => Followed(used', own2, events', prev)
  <2>1. NoneOutside => Followed(used', own2, events, prev)
    BY <1>3, <1>13, RenamesKept DEF EventsOwned
  <2> QED
    BY <1>5, <1>7, <1>8, <1>18, <2>1, FollowedPair
<1>20. moves = 0 \/ ~NoneOutside => Preceded(used', own2, events', prev)
  <2>1. moves = 0 \/ ~NoneOutside => Preceded(used', own2, events, prev)
    BY <1>3, <1>13, RenamesKept DEF EventsOwned
  <2> QED
    BY <1>5, <1>7, <1>8, <1>18, <2>1, PrecededPair
<1>21. EventsOwned(own2, events)'
  BY <1>1, <1>14, <1>17, <1>19, <1>20 DEF EventsOwned
<1>22. WatchesFound'
  <2>1. EventsFound(Append(events, From(a))) /\ Append(events, From(a)) \in Seq(Queued)
    BY <1>3, <1>5, <1>7, FolderEventAdded, Appended
  <2>2. EventsFound(events')
    BY <1>3, <1>7, <1>8, <2>1, FolderEventAdded
  <2>3. \A c \in watched : where'[c] # Nowhere /\ HasNode(c)
    BY <1>3, <1>9, <1>10 DEF WatchesFound, Typed, FsTyped
  <2> QED
    BY <1>1, <2>2, <2>3 DEF WatchesFound, EventsFound, HasNode
<1>23. Owned(own2)'
  BY <1>11, <1>12, <1>21 DEF Owned
<1> QED
  BY <1>1, <1>6, <1>22, <1>23 DEF Resolved

-----------------------------------------------------------------------------
(* Taking the first event. Folders' events other than moves, and files'    *)
(* events, neither begin nor end a rename.                                 *)
LEMMA EventTaken ==
  ASSUME Typed, NEW own, EventsOwned(own, events), EventsFound(events), events # <<>>,
         NEW pw,
         \A a \in Folders : pw = [wd |-> Root, name |-> a] =>
            events[1] = From(a) \/ (prev = pw /\ \A b \in Folders : events[1] # To(b)),
         \A a \in Folders : events[1] = From(a) => pw = [wd |-> Root, name |-> a]
  PROVE  /\ EventsFound(Tail(events))
         /\ Removals(where, used, own, Tail(events))
         /\ NoneOutside => Followed(used, own, Tail(events), pw)
         /\ moves = 0 \/ ~NoneOutside => Preceded(used, own, Tail(events), pw)
<1>1. events \in Seq(Queued)
  BY DEF Typed
<1>2. EventsFound(Tail(events))
  <2>1. /\ DOMAIN Tail(events) = 1..Len(Tail(events)) /\ DOMAIN events = 1..Len(events)
        /\ Len(events) \in Nat /\ Len(Tail(events)) = Len(events) - 1
        /\ \A i \in 1..Len(Tail(events)) : Tail(events)[i] = events[i + 1]
    BY <1>1
  <2>2. \A i \in 1..Len(Tail(events)) : i + 1 \in DOMAIN events
    BY <2>1
  <2> QED
    BY <2>1, <2>2 DEF EventsFound
<1>3. Removals(where, used, own, Tail(events))
  BY <1>1, RemovalsLess DEF EventsOwned
<1>4. NoneOutside => Followed(used, own, Tail(events), pw)
  <2> SUFFICES ASSUME NoneOutside PROVE Followed(used, own, Tail(events), pw)
    OBVIOUS
  <2>1. Followed(used, own, events, prev)
    BY DEF EventsOwned
  <2>2. ASSUME NEW a \in Folders, pw = [wd |-> Root, name |-> a] PROVE events[1] = From(a)
    <3>1. SUFFICES ASSUME prev = pw, \A b \in Folders : events[1] # To(b) PROVE FALSE
      BY <2>2
    <3>2. 0 \in 0..Len(events) /\ Source(events, prev, 0, a)
      BY <1>1, <2>2, <3>1 DEF Source
    <3>3. PICK b \in Folders : Target(events, 0 + 1, b)
      BY <2>1, <3>2 DEF Followed
    <3> QED
      BY <3>1, <3>3 DEF Target
  <2> QED
    BY <1>1, <2>1, <2>2, FollowedLess
<1>5. moves = 0 \/ ~NoneOutside => Preceded(used, own, Tail(events), pw)
  BY <1>1, PrecededLess DEF EventsOwned
<1> QED
  BY <1>2, <1>3, <1>4, <1>5

LEMMA KindsDiffer ==
  \A p, q : /\ From(p) # To(q) /\ From(p) # Deleted(q) /\ To(p) # Deleted(q)
           /\ Event(Root, "create", p, TRUE) # From(q) /\ Event(Root, "create", p, TRUE) # To(q)
           /\ (From(p) = From(q) => p = q) /\ (To(p) = To(q) => p = q)
BY DEF From, To, Deleted, Event

LEMMA FileEventResolved ==
  ASSUME Typed, Resolved,
         Gone("moved_from") \/ Gone("delete") \/ FileMovedTo \/ FileCreated \/ FileClosed
  PROVE  Resolved'
<1>1. PICK k \in Kinds : Take(k, FALSE)
  BY DEF Gone, FileMovedTo, FileCreated, FileClosed, Kinds
<1>2. /\ UNCHANGED <<where, watched, used, made, moves, nodes, scan, pc>>
      /\ prev' = prev \/ prev' = [prev EXCEPT !.wd = 0]
      /\ events' = Tail(events)
  BY <1>1 DEF Gone, FileMovedTo, FileCreated, FileClosed, thread, fs, Take
<1>3. PICK own \in [Folders -> Dirs] : Owned(own)
  BY DEF Resolved
<1>4. events[1] \in FileEvents /\ events # <<>>
  BY <1>1, FileTaken
<1>5. \A p : events[1] # From(p) /\ events[1] # To(p)
  <2>1. events[1].isdir = FALSE
    BY <1>4 DEF FileEvents
  <2>2. \A p : From(p).isdir = TRUE /\ To(p).isdir = TRUE
    BY DEF From, To, Event
  <2> QED
    BY <2>1, <2>2
<1>6. \A a : prev' = [wd |-> Root, name |-> a] => prev = prev'
  BY <1>2, Numbers DEF Typed, ThreadTyped
<1>7. EventsOwned(own, events) /\ EventsFound(events)
  BY <1>3 DEF Owned, Resolved, WatchesFound
<1>8. /\ EventsFound(Tail(events))
      /\ Removals(where, used, own, Tail(events))
      /\ NoneOutside => Followed(used, own, Tail(events), prev')
      /\ moves = 0 \/ ~NoneOutside => Preceded(used, own, Tail(events), prev')
  BY <1>4, <1>5, <1>6, <1>7, EventTaken
<1>9. Owned(own)'
  BY <1>2, <1>3, <1>8 DEF Owned, Owners, NodesOwned, ScanOwned, EventsOwned, NoneOutside
<1>10. WatchesFound'
  BY <1>2, <1>8 DEF Resolved, WatchesFound, EventsFound, HasNode
<1> QED
  BY <1>2, <1>3, <1>9, <1>10 DEF Resolved

(* A folder that is made or moved away: the list stays as it is.           *)
LEMMA FolderCreatedResolved ==
  ASSUME Typed, Resolved, FolderCreated \/ FolderMovedFrom
  PROVE  Resolved'
<1>1. PICK k \in {"create", "moved_from"} : Take(k, TRUE) /\ k \in Kinds
  BY DEF FolderCreated, FolderMovedFrom, Kinds
<1>2. /\ UNCHANGED <<where, watched, used, made, moves, nodes>>
      /\ events' = Tail(events) /\ events # <<>> /\ pc' \in {"read", "watch"}
  BY <1>1, FolderTaken DEF FolderCreated, FolderMovedFrom, fs, Take
<1>3. PICK own \in [Folders -> Dirs] : Owned(own)
  BY DEF Resolved
<1>4. events[1] = Event(Root, k, Name, TRUE) /\ Head(events).wd = Root
  BY <1>1, FolderTaken
<1>5. /\ \A a \in Folders : prev' = [wd |-> Root, name |-> a] =>
            events[1] = From(a) \/ (prev = prev' /\ \A b \in Folders : events[1] # To(b))
      /\ \A a \in Folders : events[1] = From(a) => prev' = [wd |-> Root, name |-> a]
  <2>1. CASE FolderCreated
    <3>1. Head(events).kind = "create" /\ prev' = prev
      BY <2>1 DEF FolderCreated, Take
    <3>2. k = "create"
      BY <1>1, <3>1 DEF Take
    <3> QED
      BY <1>4, <3>1, <3>2, KindsDiffer
  <2>2. CASE FolderMovedFrom
    <3>1. Head(events).kind = "moved_from" /\ prev' = [wd |-> Root, name |-> Name]
      BY <1>4, <2>2 DEF FolderMovedFrom, Take
    <3>2. k = "moved_from"
      BY <1>1, <3>1 DEF Take
    <3>3. events[1] = From(Name)
      BY <1>4, <3>2 DEF From
    <3> QED
      BY <3>1, <3>3, KindsDiffer
  <2> QED
    BY <2>1, <2>2
<1>6. EventsOwned(own, events) /\ EventsFound(events)
  BY <1>3 DEF Owned, Resolved, WatchesFound
<1>7. /\ EventsFound(Tail(events))
      /\ Removals(where, used, own, Tail(events))
      /\ NoneOutside => Followed(used, own, Tail(events), prev')
      /\ moves = 0 \/ ~NoneOutside => Preceded(used, own, Tail(events), prev')
  BY <1>2, <1>5, <1>6, EventTaken
<1>8. Owned(own)'
  BY <1>2, <1>3, <1>7 DEF Owned, Owners, NodesOwned, ScanOwned, EventsOwned, NoneOutside
<1>9. WatchesFound'
  BY <1>2, <1>7 DEF Resolved, WatchesFound, EventsFound, HasNode
<1> QED
  BY <1>2, <1>3, <1>8, <1>9 DEF Resolved

(* A node is taken off the list after the last event of its folder.        *)
LEMMA FolderDeletedResolved ==
  ASSUME Typed, Resolved, FolderDeleted
  PROVE  Resolved'
<1>1. Take("delete", TRUE) /\ "delete" \in Kinds
  BY DEF FolderDeleted, Kinds
<1>2. /\ UNCHANGED <<where, watched, used, made, moves, prev, scan, pc>>
      /\ events' = Tail(events) /\ events # <<>> /\ pc = "read"
      /\ nodes' = WatchRemoved(Name) /\ Name \in Folders
      /\ events[1] = Deleted(Name)
  BY <1>1, FolderTaken DEF FolderDeleted, fs, Take, Deleted
<1>3. PICK own \in [Folders -> Dirs] : Owned(own)
  BY DEF Resolved
<1>4. EventsOwned(own, events) /\ EventsFound(events) /\ NodesOwned(own) /\ WatchesFound
  BY <1>3 DEF Owned, Resolved, WatchesFound
<1>5. /\ Name \in used /\ where[own[Name]] = Nowhere
      /\ \A j \in DOMAIN events : events[j].wd # own[Name]
  <2>1. events \in Seq(Queued)
    BY DEF Typed
  <2>2. 1 \in DOMAIN events /\ \A j \in DOMAIN events : 1 <= j
    BY <1>2, <2>1
  <2> QED
    BY <1>2, <1>4, <2>2 DEF EventsOwned, Removals
<1>6. /\ EventsFound(Tail(events))
      /\ Removals(where, used, own, Tail(events))
      /\ NoneOutside => Followed(used, own, Tail(events), prev)
      /\ moves = 0 \/ ~NoneOutside => Preceded(used, own, Tail(events), prev)
  BY <1>2, <1>4, KindsDiffer, EventTaken
<1>7. /\ \A k \in DOMAIN nodes' : \E m \in DOMAIN nodes : nodes'[k] = nodes[m] /\ (m = 1 => k = 1)
      /\ \A m \in DOMAIN nodes : nodes[m].wd = own[Name] \/
            \E k \in DOMAIN nodes' : nodes'[k] = nodes[m]
  <2>0. pc # "exited"
    BY <1>2
  <2>1. CASE nodes' = nodes
    BY <2>1
  <2>2. CASE nodes' # nodes
    <3>1. PICK i \in DOMAIN nodes :
            /\ nodes[i].path = Name /\ i # 1
            /\ nodes' \in Seq(Node)
            /\ Len(nodes') = Len(nodes) - 1
            /\ \A k \in 1..Len(nodes') : nodes'[k] = IF k < i THEN nodes[k] ELSE nodes[k + 1]
      BY <1>2, <2>0, <2>2, WatchUnlisted
    <3>2. nodes[i].wd = own[Name]
      BY <1>4, <3>1 DEF NodesOwned
    <3>3. /\ Len(nodes) \in Nat /\ DOMAIN nodes = 1..Len(nodes)
          /\ DOMAIN nodes' = 1..(Len(nodes) - 1) /\ i \in 2..Len(nodes)
      BY <2>0, <3>1, NodeFacts
    <3>4. ASSUME NEW k \in DOMAIN nodes'
          PROVE  \E m \in DOMAIN nodes : nodes'[k] = nodes[m] /\ (m = 1 => k = 1)
      <4>1. k \in DOMAIN nodes /\ k + 1 \in DOMAIN nodes /\ k + 1 # 1
        BY <3>3
      <4> QED
        BY <3>1, <3>3, <4>1
    <3>5. ASSUME NEW m \in DOMAIN nodes, m # i
          PROVE  \E k \in DOMAIN nodes' : nodes'[k] = nodes[m]
      <4>1. CASE m < i
        <5>1. m \in DOMAIN nodes'
          BY <3>3, <4>1
        <5> QED
          BY <3>1, <3>3, <4>1, <5>1
      <4>2. CASE ~(m < i)
        <5>1. m - 1 \in DOMAIN nodes' /\ ~(m - 1 < i) /\ (m - 1) + 1 = m
          BY <3>3, <3>5, <4>2
        <5>2. nodes'[m - 1] = nodes[(m - 1) + 1]
          BY <3>1, <3>3, <5>1
        <5> QED
          BY <5>1, <5>2
      <4> QED
        BY <4>1, <4>2
    <3> QED
      BY <3>2, <3>4, <3>5
  <2> QED
    BY <2>1, <2>2
<1>8. \A d : d # own[Name] /\ HasNode(d) => \E k \in DOMAIN nodes' : nodes'[k].wd = d
  BY <1>7 DEF HasNode
<1>9. WatchesFound'
  <2>1. \A d \in watched : d # own[Name]
    BY <1>4, <1>5 DEF WatchesFound
  <2>2. \A j \in DOMAIN Tail(events) : Tail(events)[j].wd # own[Name]
    <3>1. /\ DOMAIN Tail(events) = 1..Len(Tail(events)) /\ DOMAIN events = 1..Len(events)
          /\ Len(events) \in Nat /\ Len(Tail(events)) = Len(events) - 1
          /\ \A i \in 1..Len(Tail(events)) : Tail(events)[i] = events[i + 1]
      BY <1>2 DEF Typed
    <3>2. \A i \in 1..Len(Tail(events)) : i + 1 \in DOMAIN events
      BY <3>1
    <3> QED
      BY <1>5, <3>1, <3>2
  <2>3. \A d \in watched : where[d] # Nowhere /\ \E k \in DOMAIN nodes' : nodes'[k].wd = d
    BY <1>4, <1>8, <2>1 DEF WatchesFound
  <2>4. \A j \in DOMAIN Tail(events) : \E k \in DOMAIN nodes' : nodes'[k].wd = Tail(events)[j].wd
    BY <1>6, <1>8, <2>2 DEF EventsFound
  <2> QED
    BY <1>2, <2>3, <2>4 DEF WatchesFound, EventsFound, HasNode
<1>10. NodesOwned(own)'
  BY <1>2, <1>4, <1>7 DEF NodesOwned
<1>11. Owned(own)'
  BY <1>2, <1>3, <1>6, <1>10 DEF Owned, Owners, ScanOwned, EventsOwned, NoneOutside
<1> QED
  BY <1>2, <1>3, <1>9, <1>11 DEF Resolved

(* The old name of a renamed folder is the one in prev, when there is one. *)
LEMMA FolderMovedToResolved ==
  ASSUME Typed, Resolved, FolderMovedTo
  PROVE  Resolved'
<1>1. Take("moved_to", TRUE) /\ "moved_to" \in Kinds
  BY DEF FolderMovedTo, Kinds
<1>2. /\ UNCHANGED <<where, watched, used, made, moves, nodes>>
      /\ events' = Tail(events) /\ events # <<>> /\ pc = "read"
      /\ Name \in Folders /\ Subfolder(Here, Name) = Name
      /\ events[1] = To(Name) /\ prev' = [prev EXCEPT !.wd = 0]
  BY <1>1, FolderTaken DEF FolderMovedTo, fs, Take, To
<1>3. PICK own \in [Folders -> Dirs] : Owned(own)
  BY DEF Resolved
<1>4. /\ EventsOwned(own, events) /\ EventsFound(events) /\ NodesOwned(own) /\ Owners(own)
      /\ prev \in [wd : {-1, 0, Root}, name : Folders \cup {Nowhere}]
  BY <1>3 DEF Owned, Resolved, WatchesFound, Typed, ThreadTyped
<1>5. \A a : prev' # [wd |-> Root, name |-> a]
  BY <1>2, <1>4, Numbers
<1>6. /\ EventsFound(Tail(events))
      /\ Removals(where, used, own, Tail(events))
      /\ NoneOutside => Followed(used, own, Tail(events), prev')
      /\ moves = 0 \/ ~NoneOutside => Preceded(used, own, Tail(events), prev')
  BY <1>2, <1>4, <1>5, KindsDiffer, EventTaken
<1> DEFINE from == Subfolder(FolderOf(prev.wd), prev.name)
<1>7. \A i \in DOMAIN nodes : nodes[i].path = from => nodes[i].wd = own[Name]
  <2>0. pc # "exited" /\ Nowhere \notin Paths
    BY <1>2, InotifyAssumption DEF InotifyAssumption, Paths
  <2>1. CASE prev.wd = Root
    <3>1. from = prev.name /\ prev = [wd |-> Root, name |-> prev.name]
      BY <1>4, <2>0, <2>1, FolderOfFacts DEF Subfolder
    <3>2. CASE prev.name = Nowhere
      BY <2>0, <3>1, <3>2, NodeFacts
    <3>3. CASE prev.name \in Folders
      <4>0. events \in Seq(Queued)
        BY DEF Typed
      <4>1. 0 \in 0..Len(events) /\ 1 \in 1..Len(events) /\ 1 \in DOMAIN events
        BY <1>2, <4>0
      <4>2. Same(used, own, prev.name, Name)
        <5>1. CASE NoneOutside
          <6>1. Source(events, prev, 0, prev.name)
            BY <3>1 DEF Source
          <6>2. NoneOutside => Followed(used, own, events, prev)
            BY <1>4 DEF EventsOwned
          <6>3. \E b \in Folders : Target(events, 0 + 1, b) /\ Same(used, own, prev.name, b)
            BY ONLY <3>3, <4>1, <5>1, <6>1, <6>2 DEF Followed
          <6>4. PICK b \in Folders : Target(events, 1, b) /\ Same(used, own, prev.name, b)
            BY ONLY <6>3
          <6>5. To(b) = To(Name)
            BY ONLY <1>2, <6>4 DEF Target
          <6>6. b = Name
            BY <6>5, KindsDiffer
          <6> QED
            BY ONLY <6>4, <6>6
        <5>2. CASE ~NoneOutside
          <6>1. Target(events, 1, Name)
            BY <1>2, <4>1 DEF Target
          <6>2. PICK a \in Folders : Source(events, prev, 1 - 1, a) /\ Same(used, own, a, Name)
            BY <1>2, <1>4, <4>1, <5>2, <6>1 DEF EventsOwned, Preceded
          <6>3. 1 - 1 = 0 /\ 0 \notin DOMAIN events
            BY <4>0
          <6>4. prev = [wd |-> Root, name |-> a]
            BY <6>2, <6>3 DEF Source
          <6> QED
            BY <6>2, <6>4
        <5> QED
          BY <5>1, <5>2
      <4>3. RootPath \notin Folders /\ nodes[1].path = RootPath
        BY <2>0, NodeFacts, InotifyAssumption DEF InotifyAssumption, RootNode
      <4> QED
        BY <1>4, <3>1, <3>3, <4>2, <4>3 DEF NodesOwned, Same
    <3> QED
      BY <1>4, <3>2, <3>3
  <2>2. CASE prev.wd # Root
    <3>1. \A i \in DOMAIN nodes : nodes[i].wd # prev.wd
      BY <1>4, <2>0, <2>2, NodeFacts, Numbers
    <3>2. FolderOf(prev.wd) = nodes[Len(nodes)].path
      BY <2>0, <3>1, FolderOfFacts
    <3>3. CASE FolderOf(prev.wd) = RootPath
      <4>1. Len(nodes) = 1 /\ DOMAIN nodes = {1} /\ nodes[1].path = RootPath
        <5>1. RootPath \notin Folders
          BY InotifyAssumption DEF InotifyAssumption
        <5>2. Len(nodes) \in DOMAIN nodes /\ nodes[Len(nodes)].path = RootPath
          BY <2>0, <3>2, <3>3, NodeFacts
        <5>3. Len(nodes) = 1
          BY <2>0, <5>1, <5>2, NodeFacts
        <5>4. DOMAIN nodes = 1..Len(nodes)
          BY <2>0, NodeFacts
        <5> QED
          BY ONLY <5>2, <5>3, <5>4
      <4>2. from # RootPath
        BY <1>4, <2>0, Subfolders, InotifyAssumption DEF InotifyAssumption, Paths
      <4> QED
        BY <4>1, <4>2
    <3>4. CASE FolderOf(prev.wd) # RootPath
      <4>1. from = Nowhere
        BY <3>4 DEF Subfolder
      <4> QED
        BY <2>0, <4>1, NodeFacts
    <3> QED
      BY <3>3, <3>4
  <2> QED
    BY <2>1, <2>2
<1>8. ScanOwned(own)' /\ pc' # "exited"
  <2>1. CASE UNCHANGED <<scan, pc>>
    BY <1>2, <2>1 DEF ScanOwned
  <2>2. ASSUME NEW d \in InodeAt(Name),
               scan' = [dir |-> d, from |-> from, to |-> Name, seen |-> {}],
               pc' = "rename"
        PROVE  ScanOwned(own)' /\ pc' # "exited"
    <3>1. d \in Dirs /\ where[d] = Name
      BY DEF InodeAt
    <3>2. Name \in used
      BY <1>2, <1>4, <3>1 DEF Owners
    <3>3. scan'.to = Name /\ scan'.from = from
      BY <2>2
    <3> HIDE DEF from
    <3> QED
      BY <1>2, <1>7, <2>2, <3>2, <3>3 DEF ScanOwned
  <2> QED
    BY <1>2, <2>1, <2>2 DEF FolderMovedTo
<1>9. Owned(own)'
  BY <1>2, <1>3, <1>6, <1>8 DEF Owned, Owners, NodesOwned, EventsOwned, NoneOutside
<1>10. WatchesFound'
  BY <1>2, <1>6 DEF Resolved, WatchesFound, EventsFound, HasNode
<1> QED
  BY <1>3, <1>8, <1>9, <1>10 DEF Resolved

(* Nodes are added for inodes that are there, or get the new name of their *)
(* folder.                                                                 *)
LEMMA WatchResolved ==
  ASSUME Typed, Resolved, ScanWatch \/ RenameWatch
  PROVE  Resolved'
<1>1. /\ UNCHANGED <<where, used, made, moves, events, prev, scan>>
      /\ pc \in {"watch", "rename"} /\ pc' \in {"entries", "moves"} /\ pc # "exited"
  BY DEF ScanWatch, RenameWatch
<1>2. PICK own \in [Folders -> Dirs] : Owned(own)
  BY DEF Resolved
<1>3. /\ WatchesFound /\ Owners(own) /\ NodesOwned(own) /\ ScanOwned(own)
      /\ scan.to \in Folders /\ nodes \in Seq(Node)
      /\ Len(nodes) \in Nat /\ DOMAIN nodes = 1..Len(nodes)
  BY <1>1, <1>2, NodeFacts DEF Resolved, Owned, Typed, ThreadTyped
<1>4. /\ \A d : HasNode(d) => \E k \in DOMAIN nodes' : nodes'[k].wd = d
      /\ \A d \in watched' : where[d] # Nowhere /\ \E k \in DOMAIN nodes' : nodes'[k].wd = d
      /\ \A i \in DOMAIN nodes' :
           i = 1 \/ (nodes'[i].path \in used /\ own[nodes'[i].path] = nodes'[i].wd)
  <2>1. CASE UNCHANGED <<nodes, watched>>
    BY <1>3, <2>1 DEF WatchesFound, HasNode, NodesOwned
  <2>2. ASSUME NEW d \in Dirs, where[d] = scan.to,
               nodes' = Append(nodes, [wd |-> d, path |-> scan.to]),
               watched' = watched \cup {d}
        PROVE  <1>4!1 /\ <1>4!2 /\ <1>4!3
    <3> DEFINE e == [wd |-> d, path |-> scan.to]
               n == Len(nodes)
    <3>1. e \in Node /\ e.wd = d /\ e.path = scan.to
      BY <1>3 DEF Node, Paths
    <3>2. scan.to \in used /\ own[scan.to] = d /\ where[d] # Nowhere
      BY <1>3, <2>2, InotifyAssumption DEF InotifyAssumption, Owners
    <3> HIDE DEF e
    <3>3. nodes' = Append(nodes, e)
      BY <2>2 DEF e
    <3>4. /\ DOMAIN nodes' = 1..(n + 1) /\ nodes'[n + 1] = e
          /\ \A i \in 1..n : nodes'[i] = nodes[i]
      BY <1>3, <3>1, <3>3
    <3>5. \A i \in 1..(n + 1) : i \in 1..n \/ i = n + 1
      BY <1>3
    <3>6. n + 1 \in 1..(n + 1) /\ \A i \in 1..n : i \in 1..(n + 1)
      BY <1>3
    <3> HIDE DEF n
    <3>7. /\ \A c : HasNode(c) => \E k \in DOMAIN nodes' : nodes'[k].wd = c
          /\ \E k \in DOMAIN nodes' : nodes'[k].wd = d
      BY <1>3, <3>1, <3>4, <3>6 DEF HasNode, n
    <3>8. \A c \in watched' : where[c] # Nowhere /\ \E k \in DOMAIN nodes' : nodes'[k].wd = c
      BY <1>3, <2>2, <3>2, <3>7 DEF WatchesFound
    <3>9. \A i \in DOMAIN nodes' :
            i = 1 \/ (nodes'[i].path \in used /\ own[nodes'[i].path] = nodes'[i].wd)
      BY <1>3, <3>1, <3>2, <3>4, <3>5 DEF NodesOwned, n
    <3> QED
      BY <3>7, <3>8, <3>9
  <2>3. ASSUME NEW i \in IndexOf(scan.from), pc = "rename",
               nodes' = [nodes EXCEPT ![i].path = scan.to], watched' = watched
        PROVE  <1>4!1 /\ <1>4!2 /\ <1>4!3
    <3>1. i \in DOMAIN nodes /\ nodes[i].path = scan.from /\ nodes[i] \in Node
      BY <1>1, NodeFacts DEF IndexOf
    <3>2. scan.to \in used /\ nodes[i].wd = own[scan.to]
      BY <1>3, <2>3, <3>1 DEF ScanOwned
    <3> DEFINE e == [nodes[i] EXCEPT !.path = scan.to]
    <3>3. e.wd = nodes[i].wd /\ e.path = scan.to
      BY <3>1 DEF Node
    <3>4. nodes' = [nodes EXCEPT ![i] = e]
      BY <2>3
    <3> HIDE DEF e
    <3>5. DOMAIN nodes' = DOMAIN nodes
          /\ \A j \in DOMAIN nodes : nodes'[j] = IF j = i THEN e ELSE nodes[j]
      BY <1>3, <3>4
    <3>6. \A j \in DOMAIN nodes : nodes'[j].wd = nodes[j].wd
      BY <3>3, <3>5
    <3>7. <1>4!1
      BY <3>5, <3>6 DEF HasNode
    <3>8. <1>4!2
      BY <1>3, <2>3, <3>7 DEF WatchesFound
    <3>9. <1>4!3
      BY <1>3, <3>2, <3>3, <3>5 DEF NodesOwned
    <3> QED
      BY <3>7, <3>8, <3>9
  <2>4. CASE ScanWatch
    <3>1. AddWatch(scan.to)
      BY <2>4 DEF ScanWatch
    <3> QED
      BY <1>3, <2>1, <2>2, <3>1, WatchAdded
  <2>5. CASE RenameWatch
    <3>1. ModifyWatch(scan.from, scan.to) /\ pc = "rename"
      BY <2>5 DEF RenameWatch
    <3> QED
      BY <1>3, <2>1, <2>2, <2>3, <3>1, WatchAdded, WatchModified
  <2> QED
    BY <2>4, <2>5
<1>5. WatchesFound'
  BY <1>1, <1>3, <1>4 DEF WatchesFound, EventsFound, HasNode
<1>6. Owned(own)'
  BY <1>1, <1>2, <1>4 DEF Owned, Owners, NodesOwned, ScanOwned, EventsOwned, NoneOutside
<1> QED
  BY <1>1, <1>2, <1>5, <1>6 DEF Resolved

LEMMA EntriesResolved ==
  ASSUME Typed, Resolved, ScanEntry \/ MoveEntry \/ ScanDone \/ UNCHANGED vars
  PROVE  Resolved'
<1>1. /\ UNCHANGED <<where, watched, used, made, moves, events, prev, nodes>>
      /\ pc' # "exited" /\ (pc' = "rename" => pc = "rename" /\ scan' = scan)
  BY DEF ScanEntry, MoveEntry, ScanDone, vars, fs, thread, Resolved
<1>2. PICK own \in [Folders -> Dirs] : Owned(own)
  BY DEF Resolved
<1>3. Owned(own)'
  BY <1>1, <1>2 DEF Owned, Owners, NodesOwned, ScanOwned, EventsOwned, NoneOutside
<1>4. WatchesFound'
  BY <1>1 DEF Resolved, WatchesFound, EventsFound, HasNode
<1> QED
  BY <1>1, <1>2, <1>3, <1>4 DEF Resolved

LEMMA PowerKept ==
  ASSUME [Next]_vars, powerOff' = "no"
  PROVE  powerOff = "no" /\ ~PowerOff /\ ~NotifyInotifyThread /\ ~Exit
<1>1. ~PowerOff /\ ~NotifyInotifyThread /\ ~Exit
  BY DEF PowerOff, NotifyInotifyThread, Exit
<1>2. CASE UNCHANGED vars
  BY <1>1, <1>2 DEF vars
<1>3. CASE Thread
  BY <1>1, <1>3 DEF Thread, Gone, FileMovedTo, FileCreated, FileClosed, FolderCreated,
       FolderDeleted, FolderMovedFrom, FolderMovedTo, ScanWatch, RenameWatch, ScanEntry,
       MoveEntry, ScanDone
<1>4. CASE FileSystem
  <2>1. ASSUME NEW d \in Dirs, NEW n \in Names,
               CreateFile(d, n) \/ OpenFile(d, n) \/ CloseFile(d, n) \/ DeleteFile(d, n)
        PROVE  powerOff' = powerOff
    BY <2>1 DEF CreateFile, OpenFile, CloseFile, DeleteFile, Operation
  <2>2. ASSUME NEW d \in Dirs, NEW n \in Names, NEW e \in Dirs, NEW m \in Names,
               MoveFile(d, n, e, m)
        PROVE  powerOff' = powerOff
    BY <2>2 DEF MoveFile, Operation
  <2>3. ASSUME NEW p \in Folders, MakeFolder(p) \/ \E F \in SUBSET Names : MoveFolderIn(p, F)
        PROVE  powerOff' = powerOff
    BY <2>3 DEF MakeFolder, MoveFolderIn, Operation
  <2>4. ASSUME NEW d \in Dirs, NEW p \in Folders, RenameFolder(d, p)
        PROVE  powerOff' = powerOff
    BY <2>4 DEF RenameFolder, Operation
  <2>5. ASSUME NEW d \in Dirs, RemoveFolder(d) \/ MoveFolderOut(d)
        PROVE  powerOff' = powerOff
    BY <2>5 DEF RemoveFolder, MoveFolderOut, Operation
  <2> QED
    BY <1>1, <1>4, <2>1, <2>2, <2>3, <2>4, <2>5 DEF FileSystem
<1> QED
  BY <1>1, <1>2, <1>3, <1>4 DEF Next

LEMMA ResolvedStep ==
  Typed /\ ResolvedInv /\ [Next]_vars => ResolvedInv'
<1> SUFFICES ASSUME Typed, ResolvedInv, [Next]_vars PROVE ResolvedInv'
  OBVIOUS
<1>1. Unmade /\ Unmade' /\ (Within' => Within)
  BY UnmadeStep DEF ResolvedInv
<1> SUFFICES ASSUME ~Reuse, powerOff' = "no", Within' PROVE Resolved'
  BY <1>1 DEF ResolvedInv
<1>2. Resolved /\ ~PowerOff /\ ~NotifyInotifyThread /\ ~Exit
  BY <1>1, PowerKept DEF ResolvedInv
<1>3. CASE ScanEntry \/ MoveEntry \/ ScanDone \/ UNCHANGED vars
  BY <1>2, <1>3, EntriesResolved
<1>4. CASE Thread /\ ~ScanEntry /\ ~MoveEntry /\ ~ScanDone
  BY <1>2, <1>4, FileEventResolved, FolderCreatedResolved, FolderDeletedResolved,
     FolderMovedToResolved, WatchResolved DEF Thread
<1>5. CASE FileSystem
  BY <1>1, <1>2, <1>5, FileOperationResolved, ArrivalResolved, RemoveFolderResolved,
     MoveFolderOutResolved, RenameFolderResolved DEF FileSystem
<1> QED
  BY <1>2, <1>3, <1>4, <1>5 DEF Next, Thread

(* The next event's watch is in the list of watched folders, however       *)
(* operations and the handling of events interleave, also when folders are *)
(* renamed while older events wait. It is proved for names of folders that *)
(* are not used twice, and as long as not both a folder has left the root  *)
(* folder and another move across its border was made: then a folder that  *)
(* arrives may be taken for the one that left.                             *)
THEOREM EventsAreResolved ==
  Spec => [](~Reuse /\ Within => EventIsResolved)
<1>1. Spec => [](Typed /\ ResolvedInv)
  BY TypedInit, TypedStep, ResolvedInit, ResolvedStep, PTL DEF Spec
<1>2. Typed /\ ResolvedInv => (~Reuse /\ Within => EventIsResolved)
  <2> SUFFICES ASSUME Typed, ResolvedInv, ~Reuse, Within,
                      pc = "read", events # <<>>, powerOff = "no"
               PROVE  \E i \in DOMAIN nodes : nodes[i].wd = Head(events).wd
    BY DEF EventIsResolved
  <2>1. events \in Seq(Queued) /\ EventsFound(events)
    BY DEF Typed, ResolvedInv, Resolved, WatchesFound
  <2>2. 1 \in DOMAIN events /\ Head(events) = events[1]
    BY <2>1
  <2> QED
    BY <2>1, <2>2 DEF EventsFound, HasNode
<1> QED
  BY <1>1, <1>2, PTL

-----------------------------------------------------------------------------
(* The events of one file, k, in a queue q, with c for created.            *)
Of(k, kind) == Event(k[1], kind, k[2], FALSE)
Removing(k) == {Of(k, "moved_from"), Of(k, "delete")}
NoneOf(q, S, i, j) == \A l \in i..j : q[l] \notin S
NoRemoval(q, k) == NoneOf(q, Removing(k), 1, Len(q))

(* At place i the file is listed as created.                               *)
Counted(q, c, k, i) ==
  \/ \E j \in 1..(i - 1) : /\ q[j] = Of(k, "create")
                           /\ NoneOf(q, {Of(k, "close_write")}, j + 1, i - 1)
  \/ c[k] > 0 /\ NoneOf(q, {Of(k, "close_write")}, 1, i - 1)
CountedLast(q, c, k) == Counted(q, c, k, Len(q) + 1)

(* The thread will register the file, and not remove its row afterwards; it*)
(* will read the file again; the file is not listed twice.                 *)
Registers(q, c, k, i) ==
  \/ q[i] = Of(k, "moved_to")
  \/ q[i] = Of(k, "close_write") /\ Counted(q, c, k, i)
Promised(q, c, k) ==
  \E i \in 1..Len(q) : Registers(q, c, k, i) /\ NoneOf(q, Removing(k), i + 1, Len(q))
Reread(q, c, k) ==
  \E i \in 1..Len(q) : q[i] = Of(k, "close_write") /\ ~Counted(q, c, k, i)
Alternate(q, c, k) ==
  /\ c[k] <= 1
  /\ \A i \in 1..Len(q) : q[i] = Of(k, "create") => ~Counted(q, c, k, i)

(* What is right of a file k: fi are the files, wr those with a writer, ha *)
(* the hasty, fr the fresh ones, sh those with a row, rd those a scan will *)
(* find.                                                                   *)
Story(q, c, k, fi, wr, ha, fr, sh, rd) ==
  /\ k \in fi => \/ Promised(q, c, k)
                 \/ k \in wr /\ CountedLast(q, c, k)
                 \/ NoRemoval(q, k) /\ (k \in sh \/ k \in rd)
  /\ k \in sh /\ k \notin fi => ~NoRemoval(q, k)
  /\ k \notin ha =>
       /\ Alternate(q, c, k)
       /\ k \notin wr => ~CountedLast(q, c, k)
       /\ k \in fi /\ k \in sh /\ NoRemoval(q, k) =>
            /\ ~CountedLast(q, c, k)
            /\ k \in fr \/ k \in wr \/ Reread(q, c, k)

-----------------------------------------------------------------------------
(* The folders. One below the root is new to the thread, or known by its   *)
(* path, or by the path it is being renamed from.                          *)
Made(p) == Event(Root, "create", p, TRUE)
In(q, e)  == \E i \in DOMAIN q : q[i] = e
Queues(e) == In(events, e)
OneMove(q) ==
  \A i, j \in DOMAIN q, p, r \in Folders : q[i] = To(p) /\ q[j] = To(r) => i = j
Scans(p)  == pc \in {"watch", "rename", "entries", "moves"} /\ scan.to = p

NodeOf(d, p) == \E i \in DOMAIN nodes : nodes[i] = [wd |-> d, path |-> p]

New(d) ==
  /\ ~HasNode(d)
  /\ \/ Queues(Made(where[d])) \/ Queues(To(where[d]))
     \/ Scans(where[d]) /\ pc \notin {"entries", "moves"}
Renamed(d, a) ==
  /\ NodeOf(d, a) /\ a # where[d]
  /\ \/ pc = "read" /\ events = <<From(a), To(where[d])>>
     \/ pc = "read" /\ events = <<To(where[d])>> /\ prev = [wd |-> Root, name |-> a]
     \/ /\ pc = "rename" /\ events = <<>>
        /\ scan.from = a /\ scan.to = where[d] /\ scan.dir = d

FoldersKnown ==
  \A d \in Dirs : where[d] \in Folders =>
    New(d) \/ NodeOf(d, where[d]) \/ \E a \in Folders : Renamed(d, a)

(* One "moved_to" waits at a time, of a folder being renamed or of one that*)
(* is empty. A name that is left is not used again.                        *)
MovesKnown ==
  /\ OneMove(events)
  /\ \A a \in Folders : Queues(From(a)) \/ prev.name = a =>
       a \in used /\ \A d \in Dirs : where[d] # a
  /\ \A p \in Folders : Queues(Made(p)) => p \in used
  /\ \A d \in Dirs : where[d] \in Folders /\ Queues(To(where[d])) =>
       \/ \E a \in Folders : Renamed(d, a)
       \/ /\ ~HasNode(d) /\ Empty(d)
          /\ ~Queues(Made(where[d])) /\ ~Scans(where[d])

NodesRight ==
  /\ \A i, j \in DOMAIN nodes : nodes[i].wd = nodes[j].wd => i = j
  /\ \A d \in Dirs : HasNode(d) /\ Exists(d) => d \in watched
  /\ \A d \in Dirs : ~HasNode(d) /\ (where[d] \in Folders \/ d > Root + made) =>
       \A n \in Names : created[<<d, n>>] = 0
  /\ \A k \in files \cup writers : Exists(k[1])

(* The scan in progress: a folder being read, or one that arrived and whose*)
(* old path is not known (it is empty), or the rows being moved.           *)
Reading == pc = "entries" \/ (pc = "moves" /\ scan.from = Nowhere)
Moving  == pc = "moves" /\ scan.from # Nowhere

ScanRight ==
  /\ pc \in {"watch", "rename", "entries", "moves"} =>
       /\ scan.to \in used /\ scan.dir <= Root + made
       /\ \A d \in Dirs : where[d] = scan.to => d = scan.dir
       /\ where[scan.dir] \in Paths \/ pc \in {"rename", "moves"} =>
            where[scan.dir] = scan.to
  /\ pc \in {"watch", "rename"} => scan.seen = {}
  /\ pc \in {"watch", "entries"} => scan.from = Nowhere
  /\ pc = "rename" => scan.from # scan.to
  /\ pc = "rename" =>
       Renamed(scan.dir, scan.from) \/ (~HasNode(scan.dir) /\ Empty(scan.dir))
  /\ pc = "moves" /\ scan.from = Nowhere => Empty(scan.dir)
  /\ Reading /\ where[scan.dir] = scan.to => HasNode(scan.dir)
  /\ Moving =>
       /\ NodeOf(scan.dir, scan.to) /\ \A d \in Dirs : ~NodeOf(d, scan.from)
       /\ \A n \in Names \ scan.seen : <<scan.to, n>> \notin db
       /\ Empty(scan.dir) \/ \A d \in Dirs : where[d] # scan.from

(* The row of a file, which for a while is that of its former path.        *)
HasRow(d, n) ==
  IF Moving /\ d = scan.dir /\ n \notin scan.seen THEN <<scan.from, n>> \in db
  ELSE \E p \in Paths : NodeOf(d, p) /\ <<p, n>> \in db

RowsKnown ==
  \A p \in Paths, n \in Names : <<p, n>> \in db =>
    \/ \E d \in Dirs : NodeOf(d, p)
    \/ Moving /\ p = scan.from /\ n \notin scan.seen /\ <<scan.dir, n>> \in files

Inside == {k \in files : where[k[1]] \in Paths}
Opened == {k \in Files : k \in writers \/ ~Exists(k[1])}
Shown  == {k \in Files : HasRow(k[1], k[2])}
ToRead == {k \in Files : Reading /\ k[1] = scan.dir /\ k[2] \notin scan.seen}

FileRight(k) ==
  HasNode(k[1]) => Story(events, created, k, Inside, Opened, hasty, fresh, Shown, ToRead)
FilesRight == \A k \in Files : FileRight(k)

Steady ==
  FoldersKnown /\ MovesKnown /\ NodesRight /\ ScanRight /\ RowsKnown /\ FilesRight
SteadyInv == ~Reuse /\ Calm /\ powerOff = "no" /\ Within => Steady

-----------------------------------------------------------------------------
(* Events of a file: which are the same, and places among them when one is *)
(* put in or the first is taken out.                                       *)
LEMMA OfApart ==
  ASSUME NEW k \in Files, NEW k2 \in Files, NEW a, NEW b
  PROVE  Of(k, a) = Of(k2, b) <=> k = k2 /\ a = b
<1>1. k = <<k[1], k[2]>> /\ k2 = <<k2[1], k2[2]>>
  BY DEF Files
<1> QED
  BY <1>1 DEF Of, Event

LEMMA OfKinds ==
  ASSUME NEW k
  PROVE  /\ Of(k, "create") # Of(k, "close_write")
         /\ Of(k, "create") \notin Removing(k)
         /\ Of(k, "close_write") \notin Removing(k)
         /\ Of(k, "moved_to") \notin Removing(k)
         /\ Of(k, "moved_to") # Of(k, "create") /\ Of(k, "moved_to") # Of(k, "close_write")
         /\ Of(k, "moved_from") \in Removing(k) /\ Of(k, "delete") \in Removing(k)
         /\ Of(k, "moved_from") # Of(k, "create") /\ Of(k, "moved_from") # Of(k, "close_write")
         /\ Of(k, "delete") # Of(k, "create") /\ Of(k, "delete") # Of(k, "close_write")
BY DEF Of, Event, Removing

LEMMA NonePut ==
  ASSUME NEW T, NEW q \in Seq(T), NEW e \in T, NEW X, NEW i \in Nat \ {0}
  PROVE  /\ Len(q) \in Nat
         /\ \A j \in 0..Len(q) : NoneOf(Append(q, e), X, i, j) <=> NoneOf(q, X, i, j)
         /\ i <= Len(q) + 1 => (NoneOf(Append(q, e), X, i, Len(q) + 1)
                                  <=> NoneOf(q, X, i, Len(q)) /\ e \notin X)
<1> DEFINE q2 == Append(q, e)
           n == Len(q)
<1>1. n \in Nat /\ (\A l \in 1..n : q2[l] = q[l]) /\ q2[n + 1] = e
  BY Appended
<1> HIDE DEF q2, n
<1>2. ASSUME NEW j \in 0..n PROVE NoneOf(q2, X, i, j) <=> NoneOf(q, X, i, j)
  <2>1. \A l \in i..j : q2[l] = q[l]
    BY <1>1
  <2> QED
    BY <2>1 DEF NoneOf
<1>3. i <= n + 1 => (NoneOf(q2, X, i, n + 1) <=> NoneOf(q2, X, i, n) /\ e \notin X)
  <2> SUFFICES ASSUME i <= n + 1
               PROVE  NoneOf(q2, X, i, n + 1) <=> NoneOf(q2, X, i, n) /\ e \notin X
    OBVIOUS
  <2>1. \A l : l \in i..(n + 1) <=> l \in i..n \/ l = n + 1
    BY <1>1
  <2> QED
    BY <1>1, <2>1 DEF NoneOf
<1>4. n \in 0..n
  BY <1>1
<1> QED
  BY <1>1, <1>2, <1>3, <1>4 DEF q2, n

LEMMA NoneTaken ==
  ASSUME NEW T, NEW q \in Seq(T), q # <<>>, NEW X, NEW i \in Nat \ {0}, NEW j \in Nat,
         j <= Len(Tail(q))
  PROVE  /\ NoneOf(Tail(q), X, i, j) <=> NoneOf(q, X, i + 1, j + 1)
         /\ i = 1 => (NoneOf(q, X, 1, j + 1) <=> q[1] \notin X /\ NoneOf(Tail(q), X, 1, j))
<1> DEFINE t == Tail(q)
           n == Len(t)
<1>1. n \in Nat /\ \A l \in 1..n : t[l] = q[l + 1]
  BY Tailed
<1>2. j <= n
  BY DEF n
<1> HIDE DEF t, n
<1>3. NoneOf(t, X, i, j) <=> NoneOf(q, X, i + 1, j + 1)
  <2>1. ASSUME NoneOf(t, X, i, j), NEW l \in (i + 1)..(j + 1) PROVE q[l] \notin X
    <3>1. l - 1 \in i..j /\ l - 1 \in 1..n /\ (l - 1) + 1 = l
      BY <1>1, <1>2
    <3> QED
      BY <1>1, <2>1, <3>1 DEF NoneOf
  <2>2. ASSUME NoneOf(q, X, i + 1, j + 1), NEW l \in i..j PROVE t[l] \notin X
    <3>1. l + 1 \in (i + 1)..(j + 1) /\ l \in 1..n
      BY <1>1, <1>2
    <3> QED
      BY <1>1, <2>2, <3>1 DEF NoneOf
  <2> QED
    BY <2>1, <2>2 DEF NoneOf
<1>4. NoneOf(q, X, 1, j + 1) <=> q[1] \notin X /\ NoneOf(q, X, 2, j + 1)
  <2>1. \A l : l \in 1..(j + 1) <=> l \in 2..(j + 1) \/ l = 1
    OBVIOUS
  <2> QED
    BY <2>1 DEF NoneOf
<1> QED
  BY <1>3, <1>4 DEF t

LEMMA CountedPut ==
  ASSUME NEW T, NEW q \in Seq(T), NEW e \in T, NEW c, NEW k
  PROVE  /\ \A i \in 1..(Len(q) + 1) : Counted(Append(q, e), c, k, i) <=> Counted(q, c, k, i)
         /\ CountedLast(Append(q, e), c, k)
              <=> \/ e = Of(k, "create")
                  \/ e # Of(k, "close_write") /\ CountedLast(q, c, k)
<1> DEFINE q2 == Append(q, e)
           n == Len(q)
           X == {Of(k, "close_write")}
<1>1. n \in Nat /\ Len(q2) = n + 1 /\ (\A l \in 1..n : q2[l] = q[l]) /\ q2[n + 1] = e
  BY Appended
<1>2. \A i \in Nat \ {0} :
        /\ \A j \in 0..n : NoneOf(q2, X, i, j) <=> NoneOf(q, X, i, j)
        /\ i <= n + 1 => (NoneOf(q2, X, i, n + 1) <=> NoneOf(q, X, i, n) /\ e \notin X)
  BY NonePut
<1>3. \A i : NoneOf(q2, X, n + 2, n + 1)
  BY <1>1 DEF NoneOf
<1> HIDE DEF q2, n, X
<1>4. ASSUME NEW i \in 1..(n + 1) PROVE Counted(q2, c, k, i) <=> Counted(q, c, k, i)
  <2>1. i - 1 \in 0..n /\ \A j \in 1..(i - 1) : j \in 1..n /\ j + 1 \in Nat \ {0}
    BY <1>1
  <2>2. \A j \in 1..(i - 1) : NoneOf(q2, X, j + 1, i - 1) <=> NoneOf(q, X, j + 1, i - 1)
    BY <1>2, <2>1
  <2>3. NoneOf(q2, X, 1, i - 1) <=> NoneOf(q, X, 1, i - 1)
    BY <1>2, <2>1
  <2> QED
    BY <1>1, <2>1, <2>2, <2>3 DEF Counted, X
<1>5. CountedLast(q2, c, k) <=> \/ e = Of(k, "create")
                                \/ e # Of(k, "close_write") /\ CountedLast(q, c, k)
  <2>1. /\ (n + 1) + 1 - 1 = n + 1 /\ (n + 1) - 1 = n
        /\ \A j : j \in 1..(n + 1) <=> j \in 1..n \/ j = n + 1
        /\ \A j \in 1..n : j + 1 \in Nat \ {0} /\ j + 1 <= n + 1
        /\ 1 <= n + 1 /\ (n + 1) + 1 = n + 2
    BY <1>1
  <2>2. \A j \in 1..n : NoneOf(q2, X, j + 1, n + 1) <=> NoneOf(q, X, j + 1, n) /\ e \notin X
    BY <1>2, <2>1
  <2>3. NoneOf(q2, X, 1, n + 1) <=> NoneOf(q, X, 1, n) /\ e \notin X
    BY <1>2, <2>1
  <2>4. CountedLast(q2, c, k)
          <=> \/ \E j \in 1..(n + 1) : q2[j] = Of(k, "create") /\ NoneOf(q2, X, j + 1, n + 1)
              \/ c[k] > 0 /\ NoneOf(q2, X, 1, n + 1)
    BY <1>1, <2>1 DEF CountedLast, Counted, X
  <2>5. CountedLast(q, c, k)
          <=> \/ \E j \in 1..n : q[j] = Of(k, "create") /\ NoneOf(q, X, j + 1, n)
              \/ c[k] > 0 /\ NoneOf(q, X, 1, n)
    BY <2>1 DEF CountedLast, Counted, X, n
  <2>6. (\E j \in 1..(n + 1) : q2[j] = Of(k, "create") /\ NoneOf(q2, X, j + 1, n + 1))
          <=> \/ e = Of(k, "create")
              \/ e \notin X /\ \E j \in 1..n : q[j] = Of(k, "create") /\ NoneOf(q, X, j + 1, n)
    BY <1>1, <1>3, <2>1, <2>2
  <2> QED
    BY <2>3, <2>4, <2>5, <2>6 DEF X
<1> QED
  BY <1>4, <1>5 DEF q2, n

(* What becomes of created when the first event has been handled.          *)
Handled(q, c, c2, k) ==
  c2[k] = IF q[1] = Of(k, "create") THEN c[k] + 1
          ELSE IF q[1] = Of(k, "close_write") /\ c[k] > 0 THEN c[k] - 1 ELSE c[k]

LEMMA CountedTaken ==
  ASSUME NEW T, NEW q \in Seq(T), q # <<>>, NEW c, NEW c2, NEW k,
         c[k] \in Nat, Handled(q, c, c2, k), NEW i \in 1..Len(q)
  PROVE  /\ Counted(q, c, k, i + 1) => Counted(Tail(q), c2, k, i)
         /\ q[1] # Of(k, "close_write") \/ c[k] <= 1 =>
              (Counted(Tail(q), c2, k, i) => Counted(q, c, k, i + 1))
<1> DEFINE t == Tail(q)
           n == Len(t)
           X == {Of(k, "close_write")}
           C == Of(k, "create")
<1>1. n \in Nat /\ Len(q) = n + 1 /\ \A l \in 1..n : t[l] = q[l + 1]
  BY Tailed
<1>2. \A a \in Nat \ {0}, b \in Nat : b <= n =>
        /\ NoneOf(t, X, a, b) <=> NoneOf(q, X, a + 1, b + 1)
        /\ a = 1 => (NoneOf(q, X, 1, b + 1) <=> q[1] \notin X /\ NoneOf(t, X, 1, b))
  BY NoneTaken
<1> HIDE DEF t, n
<1>3. /\ i - 1 \in Nat /\ i - 1 <= n /\ (i - 1) + 1 = i /\ (i + 1) - 1 = i
      /\ 1 \in Nat \ {0} /\ 1 + 1 = 2
      /\ \A j \in 1..(i - 1) : j \in 1..n /\ j + 1 \in 1..i /\ j + 1 \in Nat \ {0}
      /\ \A j \in 1..i : j = 1 \/ (j - 1 \in 1..(i - 1) /\ (j - 1) + 1 = j)
      /\ 1 \in 1..i
  BY <1>1
<1>4. /\ NoneOf(t, X, 1, i - 1) <=> NoneOf(q, X, 2, i)
      /\ NoneOf(q, X, 1, i) <=> q[1] \notin X /\ NoneOf(t, X, 1, i - 1)
      /\ \A j \in 1..(i - 1) : NoneOf(t, X, j + 1, i - 1) <=> NoneOf(q, X, (j + 1) + 1, i)
  <2>1. /\ NoneOf(t, X, 1, i - 1) <=> NoneOf(q, X, 1 + 1, (i - 1) + 1)
        /\ NoneOf(q, X, 1, (i - 1) + 1) <=> q[1] \notin X /\ NoneOf(t, X, 1, i - 1)
    BY <1>2, <1>3
  <2>2. ASSUME NEW j \in 1..(i - 1)
        PROVE  NoneOf(t, X, j + 1, i - 1) <=> NoneOf(q, X, (j + 1) + 1, (i - 1) + 1)
    BY <1>2, <1>3
  <2> QED
    BY <1>3, <2>1, <2>2
<1>5. Counted(t, c2, k, i)
        <=> \/ \E j \in 1..(i - 1) : t[j] = C /\ NoneOf(t, X, j + 1, i - 1)
            \/ c2[k] > 0 /\ NoneOf(t, X, 1, i - 1)
  BY DEF Counted
<1>6. Counted(q, c, k, i + 1)
        <=> \/ \E j \in 1..i : q[j] = C /\ NoneOf(q, X, j + 1, i)
            \/ c[k] > 0 /\ NoneOf(q, X, 1, i)
  BY <1>3 DEF Counted
<1>7. (\E j \in 1..i : q[j] = C /\ NoneOf(q, X, j + 1, i))
        <=> \/ q[1] = C /\ NoneOf(q, X, 2, i)
            \/ \E j \in 1..(i - 1) : t[j] = C /\ NoneOf(t, X, j + 1, i - 1)
  <2>1. ASSUME NEW j \in 1..i, q[j] = C, NoneOf(q, X, j + 1, i), j # 1
        PROVE  \E l \in 1..(i - 1) : t[l] = C /\ NoneOf(t, X, l + 1, i - 1)
    <3>1. j - 1 \in 1..(i - 1) /\ (j - 1) + 1 = j
      BY <1>3, <2>1
    <3>2. t[j - 1] = C /\ NoneOf(t, X, (j - 1) + 1, i - 1)
      BY <1>1, <1>3, <1>4, <2>1, <3>1
    <3> QED
      BY <3>1, <3>2
  <2>2. ASSUME NEW l \in 1..(i - 1), t[l] = C, NoneOf(t, X, l + 1, i - 1)
        PROVE  l + 1 \in 1..i /\ q[l + 1] = C /\ NoneOf(q, X, (l + 1) + 1, i)
    BY <1>1, <1>3, <1>4, <2>2
  <2> QED
    BY <1>3, <2>1, <2>2
<1> HIDE DEF X, C
<1>8. c2[k] = IF q[1] = C THEN c[k] + 1 ELSE IF q[1] \in X /\ c[k] > 0 THEN c[k] - 1 ELSE c[k]
  BY DEF Handled, X, C
<1>9. C \notin X
  BY OfKinds DEF C, X
<1>10. Counted(q, c, k, i + 1) => Counted(t, c2, k, i)
  BY <1>4, <1>5, <1>6, <1>7, <1>8, <1>9
<1>11. ASSUME q[1] \notin X \/ c[k] <= 1, Counted(t, c2, k, i)
       PROVE  Counted(q, c, k, i + 1)
  BY <1>4, <1>5, <1>6, <1>7, <1>8, <1>9, <1>11
<1> QED
  BY <1>10, <1>11 DEF t, X

About(k) == {Of(k, x) : x \in Kinds}

LEMMA AboutKinds ==
  ASSUME NEW k
  PROVE  /\ Of(k, "create") \in About(k) /\ Of(k, "close_write") \in About(k)
         /\ Of(k, "moved_to") \in About(k) /\ Removing(k) \subseteq About(k)
BY DEF About, Kinds, Removing

(* An event more.                                                          *)
LEMMA Put ==
  ASSUME NEW T, NEW q \in Seq(T), NEW e \in T, NEW c, NEW k
  PROVE  LET q2 == Append(q, e) IN
         /\ NoRemoval(q2, k) <=> NoRemoval(q, k) /\ e \notin Removing(k)
         /\ CountedLast(q2, c, k) <=> \/ e = Of(k, "create")
                                      \/ e # Of(k, "close_write") /\ CountedLast(q, c, k)
         /\ Promised(q2, c, k) <=> \/ e = Of(k, "moved_to")
                                   \/ e = Of(k, "close_write") /\ CountedLast(q, c, k)
                                   \/ e \notin Removing(k) /\ Promised(q, c, k)
         /\ Reread(q2, c, k) <=> \/ Reread(q, c, k)
                                 \/ e = Of(k, "close_write") /\ ~CountedLast(q, c, k)
         /\ Alternate(q2, c, k) <=> /\ Alternate(q, c, k)
                                    /\ e = Of(k, "create") => ~CountedLast(q, c, k)
<1> DEFINE q2 == Append(q, e)
           n == Len(q)
<1>1. n \in Nat /\ Len(q2) = n + 1 /\ (\A l \in 1..n : q2[l] = q[l]) /\ q2[n + 1] = e
  BY Appended
<1>2. \A i \in Nat \ {0} : i <= n + 1 =>
        (NoneOf(q2, Removing(k), i, n + 1)
           <=> NoneOf(q, Removing(k), i, n) /\ e \notin Removing(k))
  BY NonePut
<1>3. /\ \A i \in 1..(n + 1) : Counted(q2, c, k, i) <=> Counted(q, c, k, i)
      /\ CountedLast(q2, c, k) <=> \/ e = Of(k, "create")
                                   \/ e # Of(k, "close_write") /\ CountedLast(q, c, k)
  BY CountedPut
<1>4. CountedLast(q, c, k) <=> Counted(q, c, k, n + 1)
  BY DEF CountedLast
<1>5. NoRemoval(q2, k) <=> NoneOf(q2, Removing(k), 1, n + 1)
  BY <1>1 DEF NoRemoval
<1>6. NoRemoval(q, k) <=> NoneOf(q, Removing(k), 1, n)
  BY DEF NoRemoval
<1>7. Promised(q2, c, k)
        <=> \E i \in 1..(n + 1) : /\ Registers(q2, c, k, i)
                                  /\ NoneOf(q2, Removing(k), i + 1, n + 1)
  BY <1>1 DEF Promised
<1>8. Promised(q, c, k)
        <=> \E i \in 1..n : Registers(q, c, k, i) /\ NoneOf(q, Removing(k), i + 1, n)
  BY DEF Promised
<1>9. Reread(q2, c, k)
        <=> \E i \in 1..(n + 1) : q2[i] = Of(k, "close_write") /\ ~Counted(q2, c, k, i)
  BY <1>1 DEF Reread
<1>10. Reread(q, c, k) <=> \E i \in 1..n : q[i] = Of(k, "close_write") /\ ~Counted(q, c, k, i)
  BY DEF Reread
<1>11. Alternate(q2, c, k)
        <=> /\ c[k] <= 1
            /\ \A i \in 1..(n + 1) : q2[i] = Of(k, "create") => ~Counted(q2, c, k, i)
  BY <1>1 DEF Alternate
<1>12. Alternate(q, c, k)
        <=> c[k] <= 1 /\ \A i \in 1..n : q[i] = Of(k, "create") => ~Counted(q, c, k, i)
  BY DEF Alternate
<1>13. NoneOf(q2, Removing(k), (n + 1) + 1, n + 1)
  BY <1>1 DEF NoneOf
<1> HIDE DEF q2, n
<1>14. /\ \A i : i \in 1..(n + 1) <=> i \in 1..n \/ i = n + 1
       /\ \A i \in 1..n : i + 1 \in Nat \ {0} /\ i + 1 <= n + 1
       /\ 1 \in Nat \ {0} /\ 1 <= n + 1
  BY <1>1
<1>15. \A i \in 1..n : Registers(q2, c, k, i) <=> Registers(q, c, k, i)
  BY <1>1, <1>3, <1>14 DEF Registers
<1>16. Registers(q2, c, k, n + 1) <=> \/ e = Of(k, "moved_to")
                                      \/ e = Of(k, "close_write") /\ CountedLast(q, c, k)
  BY <1>1, <1>3, <1>4, <1>14 DEF Registers
<1>17. \A i \in 1..n : NoneOf(q2, Removing(k), i + 1, n + 1)
                         <=> NoneOf(q, Removing(k), i + 1, n) /\ e \notin Removing(k)
  BY <1>2, <1>14
<1>18. NoRemoval(q2, k) <=> NoRemoval(q, k) /\ e \notin Removing(k)
  BY <1>2, <1>5, <1>6, <1>14
<1>19. Promised(q2, c, k) <=> \/ e = Of(k, "moved_to")
                              \/ e = Of(k, "close_write") /\ CountedLast(q, c, k)
                              \/ e \notin Removing(k) /\ Promised(q, c, k)
  BY <1>7, <1>8, <1>13, <1>14, <1>15, <1>16, <1>17
<1>20. Reread(q2, c, k) <=> \/ Reread(q, c, k)
                            \/ e = Of(k, "close_write") /\ ~CountedLast(q, c, k)
  BY <1>1, <1>3, <1>4, <1>9, <1>10, <1>14
<1>21. Alternate(q2, c, k) <=> /\ Alternate(q, c, k)
                               /\ e = Of(k, "create") => ~CountedLast(q, c, k)
  BY <1>1, <1>3, <1>4, <1>11, <1>12, <1>14
<1> QED
  BY <1>3, <1>18, <1>19, <1>20, <1>21 DEF q2

(* The first event is handled.                                             *)
LEMMA Taken ==
  ASSUME NEW T, NEW q \in Seq(T), q # <<>>, NEW c, NEW c2, NEW k,
         c[k] \in Nat, Handled(q, c, c2, k)
  PROVE  LET t == Tail(q)
             e == q[1] IN
         /\ NoRemoval(q, k) <=> NoRemoval(t, k) /\ e \notin Removing(k)
         /\ CountedLast(q, c, k) => CountedLast(t, c2, k)
         /\ Promised(q, c, k) => \/ Promised(t, c2, k)
                                 \/ e = Of(k, "moved_to") /\ NoRemoval(t, k)
                                 \/ e = Of(k, "close_write") /\ c[k] > 0 /\ NoRemoval(t, k)
         /\ Alternate(q, c, k) =>
              /\ CountedLast(t, c2, k) => CountedLast(q, c, k)
              /\ Alternate(t, c2, k)
              /\ Reread(q, c, k) => Reread(t, c2, k) \/ (e = Of(k, "close_write") /\ c[k] = 0)
<1> DEFINE t == Tail(q)
           n == Len(t)
           R == Removing(k)
<1>1. n \in Nat /\ Len(q) = n + 1 /\ \A l \in 1..n : t[l] = q[l + 1]
  BY Tailed
<1>2. \A a \in Nat \ {0}, b \in Nat : b <= n =>
        /\ NoneOf(t, R, a, b) <=> NoneOf(q, R, a + 1, b + 1)
        /\ a = 1 => (NoneOf(q, R, 1, b + 1) <=> q[1] \notin R /\ NoneOf(t, R, 1, b))
  BY NoneTaken
<1>3. \A i \in 1..(n + 1) :
        /\ Counted(q, c, k, i + 1) => Counted(t, c2, k, i)
        /\ c[k] <= 1 => (Counted(t, c2, k, i) => Counted(q, c, k, i + 1))
  BY <1>1, CountedTaken
<1>4. Counted(q, c, k, 1) <=> c[k] > 0
  BY DEF Counted, NoneOf
<1>5. CountedLast(t, c2, k) <=> Counted(t, c2, k, n + 1)
  BY DEF CountedLast
<1>6. CountedLast(q, c, k) <=> Counted(q, c, k, (n + 1) + 1)
  BY <1>1 DEF CountedLast
<1>7. /\ NoRemoval(q, k) <=> NoneOf(q, R, 1, n + 1)
      /\ NoRemoval(t, k) <=> NoneOf(t, R, 1, n)
  BY <1>1 DEF NoRemoval
<1>8. /\ Promised(q, c, k)
           <=> \E i \in 1..(n + 1) : Registers(q, c, k, i) /\ NoneOf(q, R, i + 1, n + 1)
      /\ Promised(t, c2, k)
           <=> \E i \in 1..n : Registers(t, c2, k, i) /\ NoneOf(t, R, i + 1, n)
  BY <1>1 DEF Promised
<1>9. /\ Reread(q, c, k)
           <=> \E i \in 1..(n + 1) : q[i] = Of(k, "close_write") /\ ~Counted(q, c, k, i)
      /\ Reread(t, c2, k)
           <=> \E i \in 1..n : t[i] = Of(k, "close_write") /\ ~Counted(t, c2, k, i)
  BY <1>1 DEF Reread
<1>10. /\ Alternate(q, c, k)
            <=> /\ c[k] <= 1
                /\ \A i \in 1..(n + 1) : q[i] = Of(k, "create") => ~Counted(q, c, k, i)
       /\ Alternate(t, c2, k)
            <=> c2[k] <= 1 /\ \A i \in 1..n : t[i] = Of(k, "create") => ~Counted(t, c2, k, i)
  BY <1>1 DEF Alternate
<1> HIDE DEF t, n, R
<1>11. /\ \A i \in 1..n : i \in 1..(n + 1) /\ i + 1 \in 1..(n + 1) /\ i + 1 \in Nat \ {0}
       /\ \A i \in 1..(n + 1) : i = 1 \/ (i - 1 \in 1..n /\ (i - 1) + 1 = i)
       /\ 1 \in Nat \ {0} /\ n <= n /\ n + 1 \in 1..(n + 1) /\ 1 \in 1..(n + 1)
  BY <1>1
<1>12. NoRemoval(q, k) <=> NoRemoval(t, k) /\ q[1] \notin R
  BY <1>1, <1>2, <1>7, <1>11
<1>13. CountedLast(q, c, k) => CountedLast(t, c2, k)
  BY <1>3, <1>5, <1>6, <1>11
<1>14. \A i \in 1..n : NoneOf(t, R, i + 1, n) <=> NoneOf(q, R, (i + 1) + 1, n + 1)
  BY <1>1, <1>2, <1>11
<1>15. NoneOf(q, R, 1 + 1, n + 1) <=> NoRemoval(t, k)
  BY <1>1, <1>2, <1>7, <1>11
<1>16. \A i \in 1..n : Registers(q, c, k, i + 1) => Registers(t, c2, k, i)
  BY <1>1, <1>3, <1>11 DEF Registers
<1>17. Registers(q, c, k, 1) => \/ q[1] = Of(k, "moved_to")
                                \/ q[1] = Of(k, "close_write") /\ c[k] > 0
  BY <1>4 DEF Registers
<1>18. ASSUME Promised(q, c, k)
       PROVE  \/ Promised(t, c2, k)
              \/ q[1] = Of(k, "moved_to") /\ NoRemoval(t, k)
              \/ q[1] = Of(k, "close_write") /\ c[k] > 0 /\ NoRemoval(t, k)
  <2>1. PICK i \in 1..(n + 1) : Registers(q, c, k, i) /\ NoneOf(q, R, i + 1, n + 1)
    BY <1>8, <1>18
  <2>2. CASE i = 1
    BY <1>15, <1>17, <2>1, <2>2
  <2>3. CASE i # 1
    <3>1. i - 1 \in 1..n /\ (i - 1) + 1 = i
      BY <1>11, <2>3
    <3>2. Registers(t, c2, k, i - 1) /\ NoneOf(t, R, (i - 1) + 1, n)
      BY <1>14, <1>16, <2>1, <3>1
    <3> QED
      BY <1>8, <3>1, <3>2
  <2> QED
    BY <2>2, <2>3
<1>19. ASSUME Alternate(q, c, k)
       PROVE  /\ CountedLast(t, c2, k) => CountedLast(q, c, k)
              /\ Alternate(t, c2, k)
              /\ Reread(q, c, k) => Reread(t, c2, k) \/ (q[1] = Of(k, "close_write") /\ c[k] = 0)
  <2>1. c[k] <= 1 /\ (q[1] = Of(k, "create") => ~(c[k] > 0))
    BY <1>4, <1>10, <1>11, <1>19
  <2>2. \A i \in 1..(n + 1) : Counted(t, c2, k, i) <=> Counted(q, c, k, i + 1)
    BY <1>3, <2>1
  <2>3. c2[k] <= 1
    BY <2>1 DEF Handled
  <2>4. Alternate(t, c2, k)
    BY <1>1, <1>10, <1>11, <1>19, <2>2, <2>3
  <2>5. CountedLast(t, c2, k) => CountedLast(q, c, k)
    BY <1>5, <1>6, <1>11, <2>2
  <2>6. ASSUME Reread(q, c, k), ~(q[1] = Of(k, "close_write") /\ c[k] = 0)
        PROVE  Reread(t, c2, k)
    <3>1. PICK i \in 1..(n + 1) : q[i] = Of(k, "close_write") /\ ~Counted(q, c, k, i)
      BY <1>9, <2>6
    <3>2. i # 1
      BY <1>4, <2>6, <3>1
    <3>3. i - 1 \in 1..n /\ (i - 1) + 1 = i
      BY <1>11, <3>2
    <3>4. t[i - 1] = Of(k, "close_write") /\ ~Counted(t, c2, k, i - 1)
      BY <1>1, <1>11, <2>2, <3>1, <3>3
    <3> QED
      BY <1>9, <3>3, <3>4
  <2>7. Reread(q, c, k) => Reread(t, c2, k) \/ (q[1] = Of(k, "close_write") /\ c[k] = 0)
    BY <2>6
  <2> QED
    BY ONLY <2>4, <2>5, <2>7
<1> QED
  BY <1>12, <1>13, <1>18, <1>19 DEF t, R

-----------------------------------------------------------------------------
(* What each operation and each event makes of the story of a file.        *)
LEMMA StoryElse ==
  ASSUME NEW q, NEW c, NEW k, NEW fi, NEW wr, NEW ha, NEW fr, NEW sh, NEW rd,
         NEW wr2, NEW ha2, NEW fr2, NEW rd2, Story(q, c, k, fi, wr, ha, fr, sh, rd),
         (k \in wr <=> k \in wr2) \/ (k \notin fi /\ k \in wr2),
         k \in ha => k \in ha2,
         (k \in fr => k \in fr2) \/ k \notin fi,
         (k \in rd => k \in rd2) \/ k \notin fi
  PROVE  Story(q, c, k, fi, wr2, ha2, fr2, sh, rd2)
BY DEF Story

LEMMA StoryOther ==
  ASSUME NEW T, NEW q \in Seq(T), NEW e \in T, NEW c, NEW k,
         NEW fi, NEW wr, NEW ha, NEW fr, NEW sh, NEW rd,
         Story(q, c, k, fi, wr, ha, fr, sh, rd), e \notin About(k)
  PROVE  Story(Append(q, e), c, k, fi, wr, ha, fr, sh, rd)
<1> DEFINE q2 == Append(q, e)
<1>1. /\ e \notin Removing(k) /\ e # Of(k, "moved_to")
      /\ e # Of(k, "create") /\ e # Of(k, "close_write")
  BY AboutKinds
<1>2. /\ NoRemoval(q2, k) <=> NoRemoval(q, k)
      /\ CountedLast(q2, c, k) <=> CountedLast(q, c, k)
      /\ Promised(q2, c, k) <=> Promised(q, c, k)
      /\ Reread(q2, c, k) <=> Reread(q, c, k)
      /\ Alternate(q2, c, k) <=> Alternate(q, c, k)
  BY <1>1, Put
<1> HIDE DEF q2
<1>3. Story(q2, c, k, fi, wr, ha, fr, sh, rd)
  BY <1>2 DEF Story
<1> QED
  BY <1>3 DEF q2

LEMMA StoryMade ==
  ASSUME NEW T, NEW q \in Seq(T), NEW c, NEW k, Of(k, "create") \in T,
         NEW fi, NEW wr, NEW ha, NEW fr, NEW sh, NEW rd, NEW fi2, NEW wr2, NEW fr2,
         Story(q, c, k, fi, wr, ha, fr, sh, rd), k \notin fi, k \notin wr, k \in wr2
  PROVE  Story(Append(q, Of(k, "create")), c, k, fi2, wr2, ha, fr2, sh, rd)
<1> DEFINE e == Of(k, "create")
           q2 == Append(q, e)
<1>1. /\ NoRemoval(q2, k) <=> NoRemoval(q, k)
      /\ CountedLast(q2, c, k)
      /\ Alternate(q2, c, k) <=> Alternate(q, c, k) /\ ~CountedLast(q, c, k)
  BY Put, OfKinds
<1> HIDE DEF q2, e
<1>2. Story(q2, c, k, fi2, wr2, ha, fr2, sh, rd)
  BY <1>1 DEF Story
<1> QED
  BY <1>2 DEF q2, e

LEMMA StoryOpened ==
  ASSUME NEW q, NEW c, NEW k, NEW fi, NEW wr, NEW ha, NEW fr, NEW sh, NEW rd,
         NEW wr2, NEW fr2,
         Story(q, c, k, fi, wr, ha, fr, sh, rd), k \notin wr, k \in wr2
  PROVE  Story(q, c, k, fi, wr2, ha, fr2, sh, rd)
BY DEF Story

LEMMA StoryClosed ==
  ASSUME NEW T, NEW q \in Seq(T), NEW c, NEW k, Of(k, "close_write") \in T,
         NEW fi, NEW wr, NEW ha, NEW fr, NEW sh, NEW rd, NEW wr2, NEW fr2,
         Story(q, c, k, fi, wr, ha, fr, sh, rd), k \in wr
  PROVE  Story(Append(q, Of(k, "close_write")), c, k, fi, wr2, ha, fr2, sh, rd)
<1> DEFINE e == Of(k, "close_write")
           q2 == Append(q, e)
<1>1. /\ NoRemoval(q2, k) <=> NoRemoval(q, k)
      /\ ~CountedLast(q2, c, k)
      /\ Promised(q2, c, k) <=> CountedLast(q, c, k) \/ Promised(q, c, k)
      /\ Reread(q2, c, k) <=> Reread(q, c, k) \/ ~CountedLast(q, c, k)
      /\ Alternate(q2, c, k) <=> Alternate(q, c, k)
  BY Put, OfKinds
<1> HIDE DEF q2, e
<1>2. Story(q2, c, k, fi, wr2, ha, fr2, sh, rd)
  BY <1>1 DEF Story
<1> QED
  BY <1>2 DEF q2, e

LEMMA StoryRemoved ==
  ASSUME NEW T, NEW q \in Seq(T), NEW e \in T, NEW c, NEW k, e \in Removing(k),
         NEW fi, NEW wr, NEW ha, NEW fr, NEW sh, NEW rd,
         NEW fi2, NEW wr2, NEW ha2, NEW fr2,
         Story(q, c, k, fi, wr, ha, fr, sh, rd), k \notin fi2,
         k \in ha \/ (k \in wr /\ k \notin wr2) => k \in ha2
  PROVE  Story(Append(q, e), c, k, fi2, wr2, ha2, fr2, sh, rd)
<1> DEFINE q2 == Append(q, e)
<1>1. e # Of(k, "create") /\ e # Of(k, "close_write") /\ e # Of(k, "moved_to")
  BY OfKinds
<1>2. /\ ~NoRemoval(q2, k)
      /\ CountedLast(q2, c, k) <=> CountedLast(q, c, k)
      /\ Alternate(q2, c, k) <=> Alternate(q, c, k)
  BY <1>1, Put
<1> HIDE DEF q2
<1>3. Story(q2, c, k, fi2, wr2, ha2, fr2, sh, rd)
  BY <1>2 DEF Story
<1> QED
  BY <1>3 DEF q2

LEMMA StoryMovedTo ==
  ASSUME NEW T, NEW q \in Seq(T), NEW c, NEW k, Of(k, "moved_to") \in T,
         NEW fi, NEW wr, NEW ha, NEW fr, NEW sh, NEW rd,
         NEW fi2, NEW wr2, NEW ha2, NEW fr2,
         Story(q, c, k, fi, wr, ha, fr, sh, rd), k \notin wr,
         k \in ha => k \in ha2, k \in fi => k \in fi2 /\ k \in ha2
  PROVE  Story(Append(q, Of(k, "moved_to")), c, k, fi2, wr2, ha2, fr2, sh, rd)
<1> DEFINE e == Of(k, "moved_to")
           q2 == Append(q, e)
<1>1. /\ NoRemoval(q2, k) <=> NoRemoval(q, k)
      /\ CountedLast(q2, c, k) <=> CountedLast(q, c, k)
      /\ Promised(q2, c, k)
      /\ Alternate(q2, c, k) <=> Alternate(q, c, k)
  BY Put, OfKinds
<1> HIDE DEF q2, e
<1>2. Story(q2, c, k, fi2, wr2, ha2, fr2, sh, rd)
  BY <1>1 DEF Story
<1> QED
  BY <1>2 DEF q2, e

(* The thread handles an event that is not of the file, or a "create".     *)
LEMMA StoryPassed ==
  ASSUME NEW T, NEW q \in Seq(T), q # <<>>, NEW c, NEW c2, NEW k,
         c[k] \in Nat, Handled(q, c, c2, k),
         NEW fi, NEW wr, NEW ha, NEW fr, NEW sh, NEW rd,
         Story(q, c, k, fi, wr, ha, fr, sh, rd),
         q[1] \notin About(k) \/ q[1] = Of(k, "create")
  PROVE  Story(Tail(q), c2, k, fi, wr, ha, fr, sh, rd)
<1> DEFINE t == Tail(q)
<1>1. q[1] \notin Removing(k) /\ q[1] # Of(k, "close_write") /\ q[1] # Of(k, "moved_to")
  BY AboutKinds, OfKinds
<1>2. /\ NoRemoval(q, k) <=> NoRemoval(t, k)
      /\ CountedLast(q, c, k) => CountedLast(t, c2, k)
      /\ Promised(q, c, k) => Promised(t, c2, k)
      /\ Alternate(q, c, k) =>
           /\ CountedLast(t, c2, k) => CountedLast(q, c, k)
           /\ Alternate(t, c2, k)
           /\ Reread(q, c, k) => Reread(t, c2, k)
  BY <1>1, Taken
<1> HIDE DEF t
<1>3. Story(t, c2, k, fi, wr, ha, fr, sh, rd)
  BY <1>2 DEF Story
<1> QED
  BY <1>3 DEF t

LEMMA StoryGone ==
  ASSUME NEW T, NEW q \in Seq(T), q # <<>>, NEW c, NEW c2, NEW k,
         c[k] \in Nat, Handled(q, c, c2, k),
         NEW fi, NEW wr, NEW ha, NEW fr, NEW sh, NEW rd, NEW fr2, NEW sh2,
         Story(q, c, k, fi, wr, ha, fr, sh, rd), q[1] \in Removing(k), k \notin sh2
  PROVE  Story(Tail(q), c2, k, fi, wr, ha, fr2, sh2, rd)
<1> DEFINE t == Tail(q)
<1>1. q[1] # Of(k, "create") /\ q[1] # Of(k, "close_write") /\ q[1] # Of(k, "moved_to")
  BY OfKinds
<1>2. /\ ~NoRemoval(q, k)
      /\ CountedLast(q, c, k) => CountedLast(t, c2, k)
      /\ Promised(q, c, k) => Promised(t, c2, k)
      /\ Alternate(q, c, k) =>
           /\ CountedLast(t, c2, k) => CountedLast(q, c, k)
           /\ Alternate(t, c2, k)
  BY <1>1, Taken
<1> HIDE DEF t
<1>3. Story(t, c2, k, fi, wr, ha, fr2, sh2, rd)
  BY <1>2 DEF Story
<1> QED
  BY <1>3 DEF t

(* ms_register_file, as far as this file is concerned.                     *)
Registered(k, fi, wr, ha, fr, sh, ha2, fr2, sh2) ==
  /\ k \in fr => k \in fr2
  /\ k \in ha => k \in ha2
  /\ k \in sh2 <=> k \in sh \/ k \in fi
  /\ k \in fi /\ k \notin sh => k \in fr2 /\ (k \in wr => k \in ha2)

LEMMA StoryRegistered ==
  ASSUME NEW T, NEW q \in Seq(T), q # <<>>, NEW c, NEW c2, NEW k,
         c[k] \in Nat, Handled(q, c, c2, k),
         NEW fi, NEW wr, NEW ha, NEW fr, NEW sh, NEW rd, NEW ha2, NEW fr2, NEW sh2,
         Story(q, c, k, fi, wr, ha, fr, sh, rd),
         q[1] = Of(k, "moved_to") \/ (q[1] = Of(k, "close_write") /\ c[k] > 0),
         Registered(k, fi, wr, ha, fr, sh, ha2, fr2, sh2)
  PROVE  Story(Tail(q), c2, k, fi, wr, ha2, fr2, sh2, rd)
<1> DEFINE t == Tail(q)
<1>1. q[1] \notin Removing(k) /\ ~(q[1] = Of(k, "close_write") /\ c[k] = 0)
  BY OfKinds
<1>2. /\ NoRemoval(q, k) <=> NoRemoval(t, k)
      /\ CountedLast(q, c, k) => CountedLast(t, c2, k)
      /\ Promised(q, c, k) => Promised(t, c2, k) \/ NoRemoval(t, k)
      /\ Alternate(q, c, k) =>
           /\ CountedLast(t, c2, k) => CountedLast(q, c, k)
           /\ Alternate(t, c2, k)
           /\ Reread(q, c, k) => Reread(t, c2, k)
  BY <1>1, Taken
<1> HIDE DEF t
<1>3. Story(t, c2, k, fi, wr, ha2, fr2, sh2, rd)
  BY <1>2 DEF Story, Registered
<1> QED
  BY <1>3 DEF t

LEMMA StoryRefreshed ==
  ASSUME NEW T, NEW q \in Seq(T), q # <<>>, NEW c, NEW c2, NEW k,
         c[k] \in Nat, Handled(q, c, c2, k),
         NEW fi, NEW wr, NEW ha, NEW fr, NEW sh, NEW rd, NEW fr2,
         Story(q, c, k, fi, wr, ha, fr, sh, rd),
         q[1] = Of(k, "close_write"), c[k] = 0,
         k \in fr => k \in fr2, k \in fi /\ k \in sh => k \in fr2
  PROVE  Story(Tail(q), c2, k, fi, wr, ha, fr2, sh, rd)
<1> DEFINE t == Tail(q)
<1>1. q[1] \notin Removing(k) /\ q[1] # Of(k, "moved_to") /\ ~(c[k] > 0)
  BY OfKinds
<1>2. /\ NoRemoval(q, k) <=> NoRemoval(t, k)
      /\ CountedLast(q, c, k) => CountedLast(t, c2, k)
      /\ Promised(q, c, k) => Promised(t, c2, k)
      /\ Alternate(q, c, k) =>
           /\ CountedLast(t, c2, k) => CountedLast(q, c, k)
           /\ Alternate(t, c2, k)
  BY <1>1, Taken
<1> HIDE DEF t
<1>3. Story(t, c2, k, fi, wr, ha, fr2, sh, rd)
  BY <1>2 DEF Story
<1> QED
  BY <1>3 DEF t

(* A scan comes to the file, or to its folder.                             *)
LEMMA StoryScanned ==
  ASSUME NEW q, NEW c, NEW k, NEW fi, NEW wr, NEW ha, NEW fr, NEW sh, NEW rd,
         NEW ha2, NEW fr2, NEW sh2, NEW rd2, Story(q, c, k, fi, wr, ha, fr, sh, rd),
         Registered(k, fi, wr, ha, fr, sh, ha2, fr2, sh2)
  PROVE  Story(q, c, k, fi, wr, ha2, fr2, sh2, rd2)
BY DEF Story, Registered

LEMMA StoryBegun ==
  ASSUME NEW T, NEW q \in Seq(T), NEW c, NEW k, NEW fi, NEW wr, NEW ha, NEW fr, NEW sh, NEW rd,
         \A i \in 1..Len(q) : q[i] \notin About(k), c[k] = 0, k \notin sh,
         k \in fi => k \in rd
  PROVE  Story(q, c, k, fi, wr, ha, fr, sh, rd)
<1>1. \A i \in 1..Len(q) : q[i] \notin Removing(k) /\ q[i] # Of(k, "create")
  BY AboutKinds
<1>2. NoRemoval(q, k)
  BY <1>1 DEF NoRemoval, NoneOf
<1>3. Alternate(q, c, k)
  BY <1>1 DEF Alternate
<1>4. ~CountedLast(q, c, k)
  BY <1>1 DEF CountedLast, Counted
<1> QED
  BY <1>2, <1>3, <1>4 DEF Story

-----------------------------------------------------------------------------
(* What the watches say of the folders: a node, a path and a folder go     *)
(* together, and a folder that is gone has no event behind its "delete".   *)
Apart ==
  /\ \A d, e \in Dirs, p \in Paths : NodeOf(d, p) /\ (NodeOf(e, p) \/ where[e] = p) => d = e
  /\ \A d, e \in Dirs : where[d] = where[e] /\ where[d] \in Paths => d = e
Listed ==
  /\ NodeOf(Root, RootPath)
  /\ \A d, p : NodeOf(d, p) => /\ d \in Dirs /\ p \in Paths /\ HasNode(d) /\ ~(d > Root + made)
                               /\ p = RootPath <=> d = Root
  /\ \A d : HasNode(d) => \E p \in Paths : NodeOf(d, p)
Heeded ==
  /\ \A i \in DOMAIN events : HasNode(events[i].wd)
  /\ \A i \in DOMAIN events, d \in Dirs, p \in Folders :
       events[i] = Deleted(p) /\ NodeOf(d, p) =>
         where[d] = Nowhere /\ \A j \in DOMAIN events : i <= j => events[j].wd # d
Placing ==
  /\ \A d \in Dirs : where[d] \in Folders => where[d] \in used /\ d # Root /\ d <= Root + made
  /\ \A d \in Dirs : where[d] \in Paths <=> where[d] \in Folders \/ d = Root
  /\ \A d \in Dirs : d \in watched => Exists(d)
  /\ pc = "rename" =>
       \A d, e \in Dirs : NodeOf(e, scan.from) /\ where[d] = scan.to => e = d

LEMMA Grounds ==
  ASSUME Typed, Resolved
  PROVE  pc # "exited" /\ Apart /\ Listed /\ Heeded /\ Placing
<1>1. pc # "exited" /\ WatchesFound
  BY DEF Resolved
<1>2. PICK own \in [Folders -> Dirs] : Owned(own)
  BY DEF Resolved
<1>3. Owners(own) /\ NodesOwned(own) /\ ScanOwned(own) /\ Removals(where, used, own, events)
  BY <1>2 DEF Owned, EventsOwned
<1>4. /\ nodes[1] = RootNode /\ 1 \in DOMAIN nodes
      /\ \A i \in DOMAIN nodes : nodes[i] \in Node /\ nodes[i].wd \in Dirs
                                 /\ nodes[i].path \in Paths
      /\ \A i \in DOMAIN nodes : i = 1 \/ nodes[i].path \in Folders
  BY <1>1, NodeFacts
<1>5. /\ where[Root] = RootPath /\ (\A d \in Dirs : d = Root \/ where[d] # RootPath)
      /\ used \subseteq Folders
      /\ where \in [Dirs -> Paths \cup {Nowhere, Outside}]
  BY DEF Typed, FsTyped
<1>6. \A p \in used : own[p] # Root /\ own[p] <= Root + made
  BY <1>3, NotRoot
<1>7. /\ RootPath \notin Folders /\ RootPath \in Paths
      /\ Nowhere \notin Paths /\ Outside \notin Paths
  BY InotifyAssumption DEF InotifyAssumption, Paths
<1>8. \A d, p : NodeOf(d, p) <=> \E i \in DOMAIN nodes : nodes[i].wd = d /\ nodes[i].path = p
  BY <1>4 DEF NodeOf, Node
<1>9. \A d, p : NodeOf(d, p) =>
        \/ d = Root /\ p = RootPath
        \/ p \in used /\ p \in Folders /\ own[p] = d
  BY <1>3, <1>4, <1>5, <1>8 DEF NodesOwned, RootNode
<1>10. \A d \in Dirs : where[d] \in Folders => where[d] \in used /\ own[where[d]] = d
  BY <1>3 DEF Owners
<1>11. \A d \in Dirs : where[d] \in Paths <=> where[d] \in Folders \/ d = Root
  BY <1>5, <1>7 DEF Paths
<1>12. Apart
  <2>1. ASSUME NEW d \in Dirs, NEW e \in Dirs, NEW p \in Paths,
               NodeOf(d, p), NodeOf(e, p) \/ where[e] = p
        PROVE  d = e
    <3>1. CASE p = RootPath
      BY <1>5, <1>7, <1>9, <2>1, <3>1
    <3>2. CASE p # RootPath
      BY <1>5, <1>9, <1>10, <2>1, <3>2 DEF Paths
    <3> QED
      BY <3>1, <3>2
  <2>2. ASSUME NEW d \in Dirs, NEW e \in Dirs, where[d] = where[e], where[d] \in Paths
        PROVE  d = e
    BY <1>5, <1>7, <1>10, <1>11, <2>2
  <2> QED
    BY <2>1, <2>2 DEF Apart
<1>13. Listed
  <2>1. NodeOf(Root, RootPath)
    BY <1>4 DEF NodeOf, RootNode
  <2>2. ASSUME NEW d, NEW p, NodeOf(d, p)
        PROVE  /\ d \in Dirs /\ p \in Paths /\ HasNode(d) /\ ~(d > Root + made)
               /\ p = RootPath <=> d = Root
    <3>1. d \in Dirs /\ p \in Paths /\ HasNode(d)
      BY <1>4, <1>8, <2>2 DEF HasNode
    <3>2. d = Root \/ d <= Root + made
      BY <1>6, <1>9, <2>2
    <3>3. ~(d > Root + made)
      BY <3>1, <3>2, Numbers DEF Typed, FsTyped
    <3>4. p = RootPath <=> d = Root
      BY <1>6, <1>7, <1>9, <2>2
    <3> QED
      BY <3>1, <3>3, <3>4
  <2>3. \A d : HasNode(d) => \E p \in Paths : NodeOf(d, p)
    BY <1>4, <1>8 DEF HasNode
  <2> QED
    BY <2>1, <2>2, <2>3 DEF Listed
<1>14. Heeded
  <2>1. \A i \in DOMAIN events : HasNode(events[i].wd)
    BY <1>1 DEF WatchesFound, EventsFound
  <2>2. ASSUME NEW i \in DOMAIN events, NEW d \in Dirs, NEW p \in Folders,
               events[i] = Deleted(p), NodeOf(d, p)
        PROVE  where[d] = Nowhere /\ \A j \in DOMAIN events : i <= j => events[j].wd # d
    <3>1. own[p] = d
      BY <1>7, <1>9, <2>2
    <3> QED
      BY <1>3, <2>2, <3>1 DEF Removals
  <2> QED
    BY <2>1, <2>2 DEF Heeded
<1>15. Placing
  <2>1. \A d \in Dirs : where[d] \in Folders => where[d] \in used /\ d # Root /\ d <= Root + made
    BY <1>6, <1>10
  <2>2. \A d \in Dirs : d \in watched => Exists(d)
    BY <1>1 DEF WatchesFound, Exists
  <2>3. ASSUME pc = "rename", NEW d \in Dirs, NEW e \in Dirs,
               NodeOf(e, scan.from), where[d] = scan.to
        PROVE  e = d
    <3>1. scan.to \in used /\ scan.to \in Folders
      BY <1>3, <1>5, <2>3 DEF ScanOwned
    <3>2. e = own[scan.to]
      BY <1>3, <1>8, <2>3 DEF ScanOwned
    <3> QED
      BY <1>10, <2>3, <3>1, <3>2
  <2> QED
    BY <1>11, <2>1, <2>2, <2>3 DEF Placing
<1> QED
  BY <1>1, <1>12, <1>13, <1>14, <1>15

(* A folder's node is the one its events are resolved with.                *)
LEMMA OneNode ==
  ASSUME Typed, Resolved, NodesRight, NEW d, NEW p, NodeOf(d, p)
  PROVE  FolderOf(d) = p /\ \A q : NodeOf(d, q) => q = p
<1>1. \A i, j \in DOMAIN nodes : nodes[i].wd = nodes[j].wd => i = j
  BY DEF NodesRight
<1>2. PICK i \in DOMAIN nodes : nodes[i] = [wd |-> d, path |-> p]
  BY DEF NodeOf
<1>3. {j \in DOMAIN nodes : nodes[j].wd = d} = {i}
  BY <1>1, <1>2
<1>4. i <= i
  BY NodeFacts, Grounds
<1>5. (CHOOSE x \in {i} : \A y \in {i} : x <= y) = i
  BY <1>4
<1>6. FolderOf(d) = nodes[i].path
  BY <1>3, <1>5 DEF FolderOf
<1>7. ASSUME NEW q, NodeOf(d, q) PROVE q = p
  <2>1. PICK j \in DOMAIN nodes : nodes[j] = [wd |-> d, path |-> q]
    BY <1>7 DEF NodeOf
  <2>2. j = i
    BY <1>1, <1>2, <2>1
  <2> QED
    BY <1>2, <2>1, <2>2
<1> QED
  BY <1>2, <1>6, <1>7

(* When the thread takes an event, a folder that has a node and is not     *)
(* being renamed has the one of its path.                                  *)
LEMMA NodeHere ==
  ASSUME Typed, Resolved, Steady, NEW d \in Dirs, HasNode(d), where[d] \in Paths,
         \A a \in Folders : ~Renamed(d, a)
  PROVE  NodeOf(d, where[d])
<1>1. CASE d = Root
  BY <1>1, Grounds DEF Listed, Typed, FsTyped
<1>2. CASE d # Root
  <2>1. where[d] \in Folders
    BY <1>2, Grounds DEF Placing
  <2> QED
    BY <2>1 DEF Steady, FoldersKnown, New
<1> QED
  BY <1>1, <1>2

(* A story is of what its sets say of the file.                            *)
LEMMA StorySame ==
  ASSUME NEW q, NEW c, NEW k, NEW fi, NEW wr, NEW ha, NEW fr, NEW sh, NEW rd,
         NEW fi2, NEW wr2, NEW ha2, NEW fr2, NEW sh2, NEW rd2,
         Story(q, c, k, fi, wr, ha, fr, sh, rd),
         k \in fi <=> k \in fi2, k \in wr <=> k \in wr2, k \in ha <=> k \in ha2,
         k \in fr <=> k \in fr2, k \in sh <=> k \in sh2, k \in rd <=> k \in rd2
  PROVE  Story(q, c, k, fi2, wr2, ha2, fr2, sh2, rd2)
BY DEF Story

(* What is in a queue when an event is put in or taken out.                *)
LEMMA InPut ==
  ASSUME NEW T, NEW q \in Seq(T), NEW e \in T
  PROVE  /\ \A x : In(Append(q, e), x) <=> In(q, x) \/ x = e
         /\ OneMove(q) /\ ((\A p \in Folders : e # To(p)) \/ \A p \in Folders : ~In(q, To(p)))
              => OneMove(Append(q, e))
<1> DEFINE q2 == Append(q, e)
           n == Len(q)
<1>1. n \in Nat /\ Len(q2) = n + 1 /\ (\A l \in 1..n : q2[l] = q[l]) /\ q2[n + 1] = e
  BY Appended
<1>2. DOMAIN q = 1..n /\ DOMAIN q2 = 1..(n + 1)
  BY <1>1
<1> HIDE DEF q2, n
<1>3. \A i : i \in 1..(n + 1) <=> i \in 1..n \/ i = n + 1
  BY <1>1
<1>4. \A x : In(q2, x) <=> In(q, x) \/ x = e
  BY <1>1, <1>2, <1>3 DEF In
<1>5. ASSUME OneMove(q), (\A p \in Folders : e # To(p)) \/ \A p \in Folders : ~In(q, To(p))
      PROVE  OneMove(q2)
  BY <1>1, <1>2, <1>3, <1>5 DEF OneMove, In
<1> QED
  BY <1>4, <1>5 DEF q2

LEMMA InTaken ==
  ASSUME NEW T, NEW q \in Seq(T), q # <<>>
  PROVE  /\ \A x : In(q, x) <=> x = q[1] \/ In(Tail(q), x)
         /\ OneMove(q) => /\ OneMove(Tail(q))
                          /\ \A p, r \in Folders : q[1] = To(p) => ~In(Tail(q), To(r))
<1> DEFINE t == Tail(q)
           n == Len(t)
<1>1. n \in Nat /\ Len(q) = n + 1 /\ \A l \in 1..n : t[l] = q[l + 1]
  BY Tailed
<1>2. DOMAIN t = 1..n /\ DOMAIN q = 1..(n + 1)
  BY <1>1
<1> HIDE DEF t, n
<1>3. /\ \A i \in 1..n : i + 1 \in 1..(n + 1) /\ i + 1 # 1
      /\ \A i \in 1..(n + 1) : i = 1 \/ (i - 1 \in 1..n /\ (i - 1) + 1 = i)
      /\ 1 \in 1..(n + 1)
      /\ \A i, j \in 1..n : i + 1 = j + 1 => i = j
  BY <1>1
<1>4. ASSUME NEW x PROVE In(q, x) <=> x = q[1] \/ In(t, x)
  <2>1. ASSUME NEW i \in 1..(n + 1), q[i] = x, i # 1 PROVE In(t, x)
    <3>1. i - 1 \in 1..n /\ (i - 1) + 1 = i
      BY <1>3, <2>1
    <3>2. t[i - 1] = x
      BY <1>1, <2>1, <3>1
    <3> QED
      BY <1>2, <3>1, <3>2 DEF In
  <2>2. ASSUME NEW i \in 1..n, t[i] = x PROVE In(q, x)
    BY <1>1, <1>2, <1>3, <2>2 DEF In
  <2> QED
    BY <1>2, <1>3, <2>1, <2>2 DEF In
<1>5. ASSUME OneMove(q) PROVE OneMove(t)
  BY <1>1, <1>2, <1>3, <1>5 DEF OneMove
<1>6. ASSUME OneMove(q), NEW p \in Folders, NEW r \in Folders, q[1] = To(p), In(t, To(r))
      PROVE  FALSE
  <2>1. PICK i \in 1..n : t[i] = To(r)
    BY <1>2, <1>6 DEF In
  <2>2. q[i + 1] = To(r) /\ i + 1 \in 1..(n + 1) /\ i + 1 # 1
    BY <1>1, <1>3, <2>1
  <2> QED
    BY <1>2, <1>3, <1>6, <2>2 DEF OneMove
<1> QED
  BY <1>4, <1>5, <1>6 DEF t

-----------------------------------------------------------------------------
(* The thread does nothing: operations.                                    *)
LEMMA ThreadSame ==
  ASSUME UNCHANGED <<thread, db>>
  PROVE  /\ Shown' = Shown /\ ToRead' = ToRead /\ created' = created
         /\ UNCHANGED <<nodes, prev, scan, pc>>
         /\ \A d : HasNode(d)' <=> HasNode(d)
         /\ \A d, p : NodeOf(d, p)' <=> NodeOf(d, p)
<1>1. UNCHANGED <<nodes, created, prev, scan, pc, db>>
  BY DEF thread
<1>2. /\ \A d : HasNode(d)' <=> HasNode(d)
      /\ \A d, p : NodeOf(d, p)' <=> NodeOf(d, p)
  BY <1>1 DEF HasNode, NodeOf
<1>3. \A d, n : HasRow(d, n)' <=> HasRow(d, n)
  BY <1>1 DEF HasRow, NodeOf, Moving
<1>4. Shown' = Shown /\ ToRead' = ToRead
  BY <1>1, <1>3 DEF Shown, ToRead, Reading
<1> QED
  BY <1>1, <1>2, <1>4

(* No operation goes on while a folder is being renamed.                   *)
LEMMA Quiet ==
  ASSUME Typed, Calm, Operation
  PROVE  /\ UNCHANGED <<thread, db, powerOff>>
         /\ pc \notin {"rename", "moves"} /\ ~Moving
         /\ \A p : ~Queues(From(p)) /\ ~Queues(To(p))
         /\ \A d, a : a \in Folders => ~Renamed(d, a)
<1>1. UNCHANGED <<thread, db, powerOff>> /\ ~Renaming
  BY DEF Operation
<1>2. pc \notin {"rename", "moves"} /\ ~Moving
  BY <1>1 DEF Renaming, Moving
<1>3. \A p : ~Queues(From(p)) /\ ~Queues(To(p))
  BY <1>1 DEF Renaming, Queues, In, From, To, Event
<1>4. ASSUME NEW d, NEW a \in Folders, Renamed(d, a) PROVE FALSE
  <2>1. \/ events = <<From(a), To(where[d])>>
        \/ events = <<To(where[d])>>
    BY <1>2, <1>4 DEF Renamed
  <2>2. events = <<From(a), To(where[d])>> => Queues(From(a))
    BY DEF Queues, In
  <2>3. events = <<To(where[d])>> => Queues(To(where[d]))
    BY DEF Queues, In
  <2> QED
    BY <1>3, <2>1, <2>2, <2>3
<1> QED
  BY <1>1, <1>2, <1>3, <1>4

(* An operation by which no folder arrives or gets another name.           *)
LEMMA LandKept ==
  ASSUME Typed, Resolved, Steady, Calm, Operation, UNCHANGED <<used, made>>,
         \A d \in Dirs : where'[d] \in Paths => where'[d] = where[d],
         \A d \in Dirs : where'[d] # Nowhere =>
           where[d] # Nowhere /\ (d \in watched => d \in watched'),
         \A k \in files' \cup writers' : where'[k[1]] # Nowhere,
         \A x : Queues(x) => Queues(x)',
         \A p \in Folders : Queues(Made(p))' => Queues(Made(p)),
         \A p \in Folders : ~Queues(To(p))',
         \A a \in Folders : Queues(From(a))' => a \in used /\ \A d \in Dirs : where'[d] # a
  PROVE  FoldersKnown' /\ MovesKnown' /\ NodesRight' /\ ScanRight' /\ RowsKnown'
<1>1. /\ UNCHANGED <<nodes, created, prev, scan, pc, db>>
      /\ pc \notin {"rename", "moves"} /\ ~Moving
      /\ \A d, a : a \in Folders => ~Renamed(d, a)
  BY Quiet, ThreadSame
<1>2. /\ \A d : HasNode(d)' <=> HasNode(d)
      /\ \A d, p : NodeOf(d, p)' <=> NodeOf(d, p)
  BY <1>1 DEF HasNode, NodeOf
<1>3. FoldersKnown /\ MovesKnown /\ NodesRight /\ ScanRight /\ RowsKnown
  BY DEF Steady
<1>4. /\ Folders \subseteq Paths /\ Nowhere \notin Paths /\ used \subseteq Folders
      /\ where \in [Dirs -> Paths \cup {Nowhere, Outside}]
      /\ scan.dir \in Dirs
      /\ pc \in {"watch", "entries"} => scan.to \in Folders
  BY InotifyAssumption DEF InotifyAssumption, Paths, Typed, FsTyped, ThreadTyped
<1>5. FoldersKnown'
  <2> SUFFICES ASSUME NEW d \in Dirs, where'[d] \in Folders
               PROVE  New(d)' \/ NodeOf(d, where[d])'
    BY DEF FoldersKnown
  <2>1. where'[d] = where[d]
    BY <1>4
  <2>2. New(d) \/ NodeOf(d, where[d])
    BY <1>1, <1>3, <2>1 DEF FoldersKnown
  <2>3. CASE NodeOf(d, where[d])
    BY <1>1, <2>1, <2>3 DEF NodeOf
  <2>4. CASE New(d)
    <3>1. ~HasNode(d)' /\ (Scans(where[d]) => Scans(where[d])')
      BY <1>1, <1>2, <2>1, <2>4 DEF New, Scans
    <3>2. Made(where'[d]) = Made(where[d]) /\ To(where'[d]) = To(where[d])
      BY <2>1
    <3>3. Queues(Made(where[d])) => Queues(Made(where[d]))'
      BY <2>1
    <3>4. Queues(To(where[d])) => Queues(To(where[d]))'
      BY <2>1
    <3> QED
      BY <1>1, <2>4, <3>1, <3>3, <3>4 DEF New
  <2> QED
    BY <2>2, <2>3, <2>4
<1>6. MovesKnown'
  <2>1. \A d \in Dirs : where'[d] \in Folders => ~Queues(To(where[d]))'
    <3> SUFFICES ASSUME NEW d \in Dirs, where'[d] \in Folders
                 PROVE  ~Queues(To(where[d]))'
      OBVIOUS
    <3>1. where'[d] = where[d]
      BY <1>4
    <3> QED
      BY <3>1
  <2>2. \A p \in Folders : Queues(Made(p))' => p \in used'
    BY <1>3 DEF MovesKnown
  <2>3. \A a \in Folders : Queues(From(a))' \/ prev'.name = a =>
          a \in used' /\ \A d \in Dirs : where'[d] # a
    BY <1>1, <1>3, <1>4 DEF MovesKnown
  <2>4. OneMove(events')
    BY DEF OneMove, Queues, In
  <2> QED
    BY <2>1, <2>2, <2>3, <2>4 DEF MovesKnown
<1>7. NodesRight'
  <2>1. \A d \in Dirs : HasNode(d)' /\ Exists(d)' => d \in watched'
    BY <1>2, <1>3 DEF NodesRight, Exists
  <2>2. \A d \in Dirs : ~HasNode(d)' /\ (where'[d] \in Folders \/ d > Root + made') =>
          \A n \in Names : created'[<<d, n>>] = 0
    BY <1>1, <1>2, <1>3, <1>4 DEF NodesRight
  <2>3. \A k \in files' \cup writers' : Exists(k[1])'
    BY DEF Exists
  <2>4. \A i, j \in DOMAIN nodes' : nodes'[i].wd = nodes'[j].wd => i = j
    BY <1>1, <1>3 DEF NodesRight
  <2> QED
    BY <2>1, <2>2, <2>3, <2>4 DEF NodesRight
<1>8. ScanRight'
  <2>1. ~Moving'
    BY <1>1 DEF Moving
  <2>2. Reading' /\ where'[scan.dir] = scan.to => HasNode(scan.dir)'
    BY <1>1, <1>2, <1>3, <1>4 DEF Reading, ScanRight
  <2>3. pc \in {"watch", "entries"} =>
           /\ scan.to \in used /\ scan.dir <= Root + made
           /\ \A d \in Dirs : where'[d] = scan.to => d = scan.dir
           /\ where'[scan.dir] \in Paths => where'[scan.dir] = scan.to
           /\ scan.from = Nowhere
    BY <1>1, <1>3, <1>4 DEF ScanRight
  <2>4. pc = "watch" => scan.seen = {}
    BY <1>3 DEF ScanRight
  <2> QED
    BY <1>1, <2>1, <2>2, <2>3, <2>4 DEF ScanRight
<1>9. RowsKnown'
  <2>1. \A p \in Paths, n \in Names : <<p, n>> \in db' => \E d \in Dirs : NodeOf(d, p)
    BY <1>1, <1>3 DEF RowsKnown
  <2> QED
    BY <1>2, <2>1 DEF RowsKnown
<1> QED
  BY <1>5, <1>6, <1>7, <1>8, <1>9

-----------------------------------------------------------------------------
(* The operations on files.                                                *)
LEMMA StoryEmitted ==
  ASSUME NEW T, events \in Seq(T), NEW e \in T, Emit(e), NEW k, e \notin About(k),
         NEW c, NEW fi, NEW wr, NEW ha, NEW fr, NEW sh, NEW rd,
         Story(events, c, k, fi, wr, ha, fr, sh, rd)
  PROVE  Story(events', c, k, fi, wr, ha, fr, sh, rd)
<1>1. events' = events \/ events' = Append(events, e)
  BY Emitted
<1> QED
  BY <1>1, StoryOther

LEMMA StoryBothEmitted ==
  ASSUME NEW T, events \in Seq(T), NEW e \in T, NEW g \in T, EmitBoth(e, g),
         NEW k, e \notin About(k), g \notin About(k),
         NEW c, NEW fi, NEW wr, NEW ha, NEW fr, NEW sh, NEW rd,
         Story(events, c, k, fi, wr, ha, fr, sh, rd)
  PROVE  Story(events', c, k, fi, wr, ha, fr, sh, rd)
<1>1. \/ events' = events \/ events' = Append(events, e) \/ events' = Append(events, g)
      \/ events' = Append(Append(events, e), g)
  BY BothEmitted
<1>2. /\ Append(events, e) \in Seq(T)
      /\ Story(Append(events, e), c, k, fi, wr, ha, fr, sh, rd)
  BY StoryOther, Appended
<1> QED
  BY <1>1, <1>2, StoryOther

LEMMA EventsAbout ==
  ASSUME NEW d \in Dirs, NEW n \in Names, NEW x \in Kinds
  PROVE  /\ Event(d, x, n, FALSE) = Of(<<d, n>>, x) /\ Event(d, x, n, FALSE) \in Queued
         /\ \A k \in Files : k # <<d, n>> => Event(d, x, n, FALSE) \notin About(k)
         /\ Event(d, x, n, FALSE).wd = d /\ <<d, n>> \in Files
         /\ \A p : /\ Event(d, x, n, FALSE) # Made(p) /\ Event(d, x, n, FALSE) # To(p)
                   /\ Event(d, x, n, FALSE) # From(p)
<1>1. <<d, n>> \in Files
  BY DEF Files
<1>2. Event(d, x, n, FALSE) = Of(<<d, n>>, x)
  BY DEF Of
<1>3. ASSUME NEW k \in Files, k # <<d, n>> PROVE Event(d, x, n, FALSE) \notin About(k)
  <2>1. \A y : Of(k, y) # Of(<<d, n>>, x)
    BY <1>1, <1>3, OfApart
  <2> QED
    BY <1>2, <2>1 DEF About
<1>4. \A p : /\ Event(d, x, n, FALSE) # Made(p) /\ Event(d, x, n, FALSE) # To(p)
             /\ Event(d, x, n, FALSE) # From(p)
  BY DEF Event, Made, To, From
<1> QED
  BY <1>1, <1>2, <1>3, <1>4, EventsOfFiles

(* What is known of a file when an operation begins.                       *)
LEMMA BeforeOperation ==
  ASSUME Typed, Steady, Calm, Operation
  PROVE  /\ UNCHANGED <<nodes, created, prev, scan, pc, db>>
         /\ Shown' = Shown /\ ToRead' = ToRead /\ events \in Seq(Queued)
         /\ \A k \in Files : /\ HasNode(k[1])' <=> HasNode(k[1])
                             /\ k[1] \in Dirs /\ k[2] \in Names /\ k = <<k[1], k[2]>>
         /\ \A k \in Files : HasNode(k[1]) =>
              Story(events, created, k, Inside, Opened, hasty, fresh, Shown, ToRead)
         /\ \A d \in Dirs : HasNode(d) /\ Exists(d) => d \in watched
         /\ \A k \in files \cup writers : Exists(k[1]) /\ k \in Files
<1>1. UNCHANGED <<thread, db>>
  BY Quiet
<1>2. /\ UNCHANGED <<nodes, created, prev, scan, pc, db>>
      /\ Shown' = Shown /\ ToRead' = ToRead
      /\ \A d : HasNode(d)' <=> HasNode(d)
  BY <1>1, ThreadSame
<1>3. \A k \in Files : HasNode(k[1])' <=> HasNode(k[1])
  BY <1>2
<1>4. events \in Seq(Queued) /\ \A k \in files \cup writers : k \in Files
  BY DEF Typed, FsTyped
<1> QED
  BY <1>2, <1>3, <1>4 DEF Steady, FilesRight, FileRight, NodesRight, Files

LEMMA AfterOperation ==
  ASSUME Typed, Steady, Calm, Operation,
         \A k \in Files : HasNode(k[1]) =>
           Story(events', created, k, Inside', Opened', hasty', fresh', Shown, ToRead)
  PROVE  FilesRight'
BY BeforeOperation DEF FilesRight, FileRight

LEMMA CreateFileRight ==
  ASSUME Typed, Steady, Calm, NEW d \in Dirs, NEW n \in Names, CreateFile(d, n)
  PROVE  FilesRight'
<1> DEFINE e == Event(d, "create", n, FALSE)
<1>1. Operation
  BY DEF CreateFile
<1>2. /\ Exists(d) /\ <<d, n>> \notin files /\ <<d, n>> \notin writers
      /\ files' = files \cup {<<d, n>>} /\ writers' = writers \cup {<<d, n>>}
      /\ Emit(e) /\ UNCHANGED <<where, fresh, hasty>>
  BY DEF CreateFile
<1>3. /\ e = Of(<<d, n>>, "create") /\ e \in Queued /\ e.wd = d /\ <<d, n>> \in Files
      /\ \A k \in Files : k # <<d, n>> => e \notin About(k)
  BY EventsAbout DEF Kinds
<1> HIDE DEF e
<1> SUFFICES ASSUME NEW k \in Files, HasNode(k[1])
             PROVE  Story(events', created, k, Inside', Opened', hasty', fresh', Shown, ToRead)
  BY <1>1, AfterOperation
<1>4. /\ Story(events, created, k, Inside, Opened, hasty, fresh, Shown, ToRead)
      /\ events \in Seq(Queued) /\ k = <<k[1], k[2]>>
      /\ \A c \in Dirs : HasNode(c) /\ Exists(c) => c \in watched
  BY <1>1, BeforeOperation
<1>5. CASE k = <<d, n>>
  <2>1. events' = Append(events, e)
    BY <1>2, <1>3, <1>4, <1>5, Emitted
  <2>2. k \notin Inside /\ k \notin Opened /\ k \in Opened'
    BY <1>2, <1>3, <1>5 DEF Inside, Opened, Exists
  <2>3. Of(k, "create") \in Queued /\ e = Of(k, "create")
    BY <1>3, <1>5
  <2>4. Story(events', created, k, Inside', Opened', hasty, fresh', Shown, ToRead)
    BY <1>4, <2>1, <2>2, <2>3, StoryMade
  <2> QED
    BY <1>2, <2>4
<1>6. CASE k # <<d, n>>
  <2>1. Story(events', created, k, Inside, Opened, hasty, fresh, Shown, ToRead)
    BY <1>2, <1>3, <1>4, <1>6, StoryEmitted
  <2>2. (k \in Inside <=> k \in Inside') /\ (k \in Opened <=> k \in Opened')
    BY <1>2, <1>6 DEF Inside, Opened, Exists
  <2> QED
    BY <1>2, <2>1, <2>2, StorySame
<1> QED
  BY <1>5, <1>6

LEMMA OpenFileRight ==
  ASSUME Typed, Steady, Calm, NEW d \in Dirs, NEW n \in Names, OpenFile(d, n)
  PROVE  FilesRight'
<1>1. Operation
  BY DEF OpenFile
<1>2. /\ <<d, n>> \in files /\ <<d, n>> \notin writers
      /\ writers' = writers \cup {<<d, n>>} /\ fresh' = fresh \ {<<d, n>>}
      /\ UNCHANGED <<where, files, events, hasty>>
  BY DEF OpenFile, Outdated
<1> SUFFICES ASSUME NEW k \in Files, HasNode(k[1])
             PROVE  Story(events', created, k, Inside', Opened', hasty', fresh', Shown, ToRead)
  BY <1>1, AfterOperation
<1>4. /\ Story(events, created, k, Inside, Opened, hasty, fresh, Shown, ToRead)
      /\ \A f \in files \cup writers : Exists(f[1]) /\ f \in Files
  BY <1>1, BeforeOperation
<1>5. Inside' = Inside
  BY <1>2 DEF Inside
<1>6. CASE k = <<d, n>>
  <2>1. k \notin Opened /\ k \in Opened'
    BY <1>2, <1>4, <1>6 DEF Opened, Exists
  <2>2. Story(events, created, k, Inside, Opened', hasty, fresh', Shown, ToRead)
    BY <1>4, <2>1, StoryOpened
  <2> QED
    BY <1>2, <1>5, <2>2
<1>7. CASE k # <<d, n>>
  <2>1. (k \in Opened <=> k \in Opened') /\ (k \in fresh <=> k \in fresh')
    BY <1>2, <1>7 DEF Opened, Exists
  <2> QED
    BY <1>2, <1>4, <1>5, <2>1, StorySame
<1> QED
  BY <1>6, <1>7

LEMMA CloseFileRight ==
  ASSUME Typed, Steady, Calm, NEW d \in Dirs, NEW n \in Names, CloseFile(d, n)
  PROVE  FilesRight'
<1> DEFINE e == Event(d, "close_write", n, FALSE)
<1>1. Operation
  BY DEF CloseFile
<1>2. /\ <<d, n>> \in writers
      /\ writers' = writers \ {<<d, n>>} /\ fresh' = fresh \ {<<d, n>>}
      /\ Emit(e) /\ UNCHANGED <<where, files, hasty>>
  BY DEF CloseFile, Outdated
<1>3. /\ e = Of(<<d, n>>, "close_write") /\ e \in Queued /\ e.wd = d
      /\ \A k \in Files : k # <<d, n>> => e \notin About(k)
  BY EventsAbout DEF Kinds
<1> HIDE DEF e
<1> SUFFICES ASSUME NEW k \in Files, HasNode(k[1])
             PROVE  Story(events', created, k, Inside', Opened', hasty', fresh', Shown, ToRead)
  BY <1>1, AfterOperation
<1>4. /\ Story(events, created, k, Inside, Opened, hasty, fresh, Shown, ToRead)
      /\ events \in Seq(Queued) /\ k = <<k[1], k[2]>>
      /\ \A c \in Dirs : HasNode(c) /\ Exists(c) => c \in watched
      /\ \A f \in files \cup writers : Exists(f[1]) /\ f \in Files
  BY <1>1, BeforeOperation
<1>5. Inside' = Inside
  BY <1>2 DEF Inside
<1>6. CASE k = <<d, n>>
  <2>1. Exists(d)
    BY <1>2, <1>4, <1>6
  <2>2. events' = Append(events, e)
    BY <1>2, <1>3, <1>4, <1>6, <2>1, Emitted
  <2>3. k \in Opened
    BY <1>2, <1>6 DEF Opened
  <2>4. Of(k, "close_write") \in Queued /\ e = Of(k, "close_write")
    BY <1>3, <1>6
  <2>5. Story(events', created, k, Inside, Opened', hasty, fresh', Shown, ToRead)
    BY <1>4, <2>2, <2>3, <2>4, StoryClosed
  <2> QED
    BY <1>2, <1>5, <2>5
<1>7. CASE k # <<d, n>>
  <2>1. Story(events', created, k, Inside, Opened, hasty, fresh, Shown, ToRead)
    BY <1>2, <1>3, <1>4, <1>7, StoryEmitted
  <2>2. (k \in Opened <=> k \in Opened') /\ (k \in fresh <=> k \in fresh')
    BY <1>2, <1>7 DEF Opened, Exists
  <2> QED
    BY <1>2, <1>5, <2>1, <2>2, StorySame
<1> QED
  BY <1>6, <1>7

LEMMA DeleteFileRight ==
  ASSUME Typed, Steady, Calm, NEW d \in Dirs, NEW n \in Names, DeleteFile(d, n)
  PROVE  FilesRight'
<1> DEFINE e == Event(d, "delete", n, FALSE)
<1>1. Operation
  BY DEF DeleteFile
<1>2. /\ <<d, n>> \in files
      /\ files' = files \ {<<d, n>>} /\ fresh' = fresh \ {<<d, n>>}
      /\ Emit(e) /\ UNCHANGED <<where, writers, hasty>>
  BY DEF DeleteFile, Outdated
<1>3. /\ e = Of(<<d, n>>, "delete") /\ e \in Queued /\ e.wd = d
      /\ \A k \in Files : k # <<d, n>> => e \notin About(k)
  BY EventsAbout DEF Kinds
<1> HIDE DEF e
<1> SUFFICES ASSUME NEW k \in Files, HasNode(k[1])
             PROVE  Story(events', created, k, Inside', Opened', hasty', fresh', Shown, ToRead)
  BY <1>1, AfterOperation
<1>4. /\ Story(events, created, k, Inside, Opened, hasty, fresh, Shown, ToRead)
      /\ events \in Seq(Queued) /\ k = <<k[1], k[2]>>
      /\ \A c \in Dirs : HasNode(c) /\ Exists(c) => c \in watched
      /\ \A f \in files \cup writers : Exists(f[1]) /\ f \in Files
  BY <1>1, BeforeOperation
<1>5. Opened' = Opened
  BY <1>2 DEF Opened, Exists
<1>6. CASE k = <<d, n>>
  <2>1. Exists(d)
    BY <1>2, <1>4, <1>6
  <2>2. events' = Append(events, e)
    BY <1>2, <1>3, <1>4, <1>6, <2>1, Emitted
  <2>3. k \notin Inside'
    BY <1>2, <1>6 DEF Inside
  <2>4. e \in Removing(k)
    BY <1>3, <1>6, OfKinds
  <2>5. Story(events', created, k, Inside', Opened, hasty, fresh', Shown, ToRead)
    BY <1>3, <1>4, <2>2, <2>3, <2>4, StoryRemoved
  <2> QED
    BY <1>2, <1>5, <2>5
<1>7. CASE k # <<d, n>>
  <2>1. Story(events', created, k, Inside, Opened, hasty, fresh, Shown, ToRead)
    BY <1>2, <1>3, <1>4, <1>7, StoryEmitted
  <2>2. (k \in Inside <=> k \in Inside') /\ (k \in fresh <=> k \in fresh')
    BY <1>2, <1>7 DEF Inside
  <2> QED
    BY <1>2, <1>5, <2>1, <2>2, StorySame
<1> QED
  BY <1>6, <1>7

LEMMA MoveFileRight ==
  ASSUME Typed, Steady, Calm, NEW d \in Dirs, NEW n \in Names, NEW b \in Dirs, NEW m \in Names,
         MoveFile(d, n, b, m)
  PROVE  FilesRight'
<1> DEFINE e == Event(d, "moved_from", n, FALSE)
           g == Event(b, "moved_to", m, FALSE)
           K == <<d, n>>
           L == <<b, m>>
<1>1. Operation
  BY DEF MoveFile
<1>2. /\ K \in files /\ Exists(b) /\ K # L /\ L \notin writers
      /\ files' = (files \ {K}) \cup {L}
      /\ writers' = IF K \in writers THEN (writers \ {K}) \cup {L} ELSE writers
      /\ EmitBoth(e, g) /\ fresh' = fresh \ {K, L}
      /\ hasty' = hasty \cup ({K} \cap writers) \cup ({L} \cap files)
      /\ where' = where
  BY DEF MoveFile, Outdated
<1>3. /\ e = Of(K, "moved_from") /\ e \in Queued /\ e.wd = d
      /\ \A k \in Files : k # K => e \notin About(k)
  BY EventsAbout DEF Kinds
<1>4. /\ g = Of(L, "moved_to") /\ g \in Queued /\ g.wd = b
      /\ \A k \in Files : k # L => g \notin About(k)
  BY EventsAbout DEF Kinds
<1>a. K[1] = d /\ L[1] = b
  OBVIOUS
<1> HIDE DEF e, g, K, L
<1> SUFFICES ASSUME NEW k \in Files, HasNode(k[1])
             PROVE  Story(events', created, k, Inside', Opened', hasty', fresh', Shown, ToRead)
  BY <1>1, AfterOperation
<1>5. /\ Story(events, created, k, Inside, Opened, hasty, fresh, Shown, ToRead)
      /\ events \in Seq(Queued)
      /\ \A c \in Dirs : HasNode(c) /\ Exists(c) => c \in watched
      /\ \A f \in files \cup writers : Exists(f[1]) /\ f \in Files
  BY <1>1, BeforeOperation
<1>6. CASE k = K
  <2>1. /\ k \notin Inside' /\ e \in Removing(k) /\ g \notin About(k)
        /\ k \in hasty \/ (k \in Opened /\ k \notin Opened') => k \in hasty'
    BY <1>2, <1>3, <1>4, <1>5, <1>6, OfKinds DEF Inside, Opened, Exists
  <2>2. /\ Append(events, e) \in Seq(Queued)
        /\ Story(Append(events, e), created, k, Inside', Opened', hasty', fresh', Shown, ToRead)
    BY <1>3, <1>5, <2>1, StoryRemoved, Appended
  <2>3. d \in watched
    BY <1>2, <1>5, <1>6, <1>a
  <2>4. events' = Append(events, e) \/ events' = Append(Append(events, e), g)
    BY <1>2, <1>3, <1>4, <1>5, <2>3, BothEmitted
  <2> QED
    BY <1>4, <2>1, <2>2, <2>4, StoryOther
<1>7. CASE k = L
  <2>1. /\ e \notin About(k) /\ k \notin Opened /\ (k \in hasty => k \in hasty')
        /\ k \in Inside => k \in Inside' /\ k \in hasty'
    BY <1>2, <1>3, <1>4, <1>5, <1>7, <1>a DEF Inside, Opened, Exists
  <2>2. b \in watched
    BY <1>2, <1>5, <1>7, <1>a
  <2>3. events' = Append(events, g) \/ events' = Append(Append(events, e), g)
    BY <1>2, <1>3, <1>4, <1>5, <2>2, BothEmitted
  <2>4. Of(k, "moved_to") \in Queued /\ g = Of(k, "moved_to")
    BY <1>4, <1>7
  <2>5. /\ Append(events, e) \in Seq(Queued)
        /\ Story(Append(events, e), created, k, Inside, Opened, hasty, fresh, Shown, ToRead)
    BY <1>3, <1>5, <2>1, StoryOther, Appended
  <2>6. /\ Story(Append(events, g), created, k, Inside', Opened', hasty', fresh', Shown, ToRead)
        /\ Story(Append(Append(events, e), g), created, k, Inside', Opened', hasty', fresh',
                 Shown, ToRead)
    BY <1>5, <2>1, <2>4, <2>5, StoryMovedTo
  <2> QED
    BY <2>3, <2>6
<1>8. CASE k # K /\ k # L
  <2>1. Story(events', created, k, Inside, Opened, hasty, fresh, Shown, ToRead)
    BY <1>2, <1>3, <1>4, <1>5, <1>8, StoryBothEmitted
  <2>2. /\ k \in Inside <=> k \in Inside'
        /\ k \in Opened <=> k \in Opened'
        /\ k \in fresh <=> k \in fresh'
        /\ k \in hasty <=> k \in hasty'
    BY <1>2, <1>8 DEF Inside, Opened, Exists
  <2> QED
    BY <2>1, <2>2, StorySame
<1> QED
  BY <1>6, <1>7, <1>8

LEMMA QueuedMore ==
  ASSUME NEW T, events \in Seq(T), NEW e \in T, Emit(e), NEW x
  PROVE  (Queues(x) => Queues(x)') /\ (Queues(x)' => Queues(x) \/ x = e)
<1>1. events' = events \/ events' = Append(events, e)
  BY Emitted
<1>2. In(Append(events, e), x) <=> In(events, x) \/ x = e
  BY InPut
<1>3. Queues(x)' <=> In(events', x)
  BY DEF Queues, In
<1> QED
  BY <1>1, <1>2, <1>3 DEF Queues

LEMMA BothQueued ==
  ASSUME NEW T, events \in Seq(T), NEW e \in T, NEW g \in T, EmitBoth(e, g), NEW x
  PROVE  (Queues(x) => Queues(x)') /\ (Queues(x)' => Queues(x) \/ x = e \/ x = g)
<1>1. \/ events' = events \/ events' = Append(events, e) \/ events' = Append(events, g)
      \/ events' = Append(Append(events, e), g)
  BY BothEmitted
<1>2. /\ Append(events, e) \in Seq(T)
      /\ In(Append(events, e), x) <=> In(events, x) \/ x = e
  BY InPut, Appended
<1>3. /\ In(Append(events, g), x) <=> In(events, x) \/ x = g
      /\ In(Append(Append(events, e), g), x) <=> In(Append(events, e), x) \/ x = g
  BY <1>2, InPut
<1>4. Queues(x)' <=> In(events', x)
  BY DEF Queues, In
<1> QED
  BY <1>1, <1>2, <1>3, <1>4 DEF Queues

LEMMA FileOperationSteady ==
  ASSUME Typed, Resolved, Steady, Calm, NEW d \in Dirs, NEW n \in Names,
         \/ CreateFile(d, n) \/ OpenFile(d, n) \/ CloseFile(d, n) \/ DeleteFile(d, n)
         \/ \E b \in Dirs, m \in Names : MoveFile(d, n, b, m)
  PROVE  Steady'
<1>1. Operation /\ UNCHANGED <<where, watched, used, made>>
  BY DEF CreateFile, OpenFile, CloseFile, DeleteFile, MoveFile
<1>2. /\ \A x : Queues(x) => Queues(x)'
      /\ \A p : /\ Queues(Made(p))' => Queues(Made(p))
                /\ ~Queues(To(p))' /\ ~Queues(From(p))'
  <2>1. events \in Seq(Queued) /\ \A p : ~Queues(From(p)) /\ ~Queues(To(p))
    BY <1>1, Quiet DEF Typed
  <2>2. CASE events' = events
    <3>1. \A x : Queues(x)' <=> Queues(x)
      BY <2>2 DEF Queues, In
    <3>2. \A p : /\ Queues(Made(p))' <=> Queues(Made(p))
                 /\ Queues(To(p))' <=> Queues(To(p))
                 /\ Queues(From(p))' <=> Queues(From(p))
      BY <2>2 DEF Queues, In, Made, To, From
    <3> QED
      BY <2>1, <3>1, <3>2
  <2>3. ASSUME NEW e \in Queued, NEW g \in Queued,
               \A x : (Queues(x) => Queues(x)') /\ (Queues(x)' => Queues(x) \/ x = e \/ x = g),
               \A p : /\ e # Made(p) /\ e # To(p) /\ e # From(p)
                      /\ g # Made(p) /\ g # To(p) /\ g # From(p)
        PROVE  <1>2
    <3>1. ASSUME NEW p
          PROVE  /\ Queues(Made(p))' => Queues(Made(p))
                 /\ ~Queues(To(p))' /\ ~Queues(From(p))'
      <4>1. \A x : x \in {Made(p), To(p), From(p)} => (In(events', x) => In(events, x))
        BY <2>3 DEF Queues, In
      <4> QED
        BY <2>1, <4>1 DEF Queues, In, Made, To, From
    <3> QED
      BY <2>3, <3>1
  <2>4. ASSUME NEW y \in Kinds, Emit(Event(d, y, n, FALSE)) PROVE <1>2
    <3> DEFINE e == Event(d, y, n, FALSE)
    <3>1. e \in Queued /\ \A p : e # Made(p) /\ e # To(p) /\ e # From(p)
      BY EventsAbout
    <3>2. Emit(e)
      BY <2>4
    <3> HIDE DEF e
    <3> QED
      BY <2>1, <2>3, <3>1, <3>2, QueuedMore
  <2>5. ASSUME NEW b \in Dirs, NEW m \in Names,
               EmitBoth(Event(d, "moved_from", n, FALSE), Event(b, "moved_to", m, FALSE))
        PROVE  <1>2
    <3> DEFINE e == Event(d, "moved_from", n, FALSE)
               g == Event(b, "moved_to", m, FALSE)
    <3>1. /\ e \in Queued /\ \A p : e # Made(p) /\ e # To(p) /\ e # From(p)
          /\ g \in Queued /\ \A p : g # Made(p) /\ g # To(p) /\ g # From(p)
      BY EventsAbout DEF Kinds
    <3>2. EmitBoth(e, g)
      BY <2>5
    <3> HIDE DEF e, g
    <3> QED
      BY <2>1, <2>3, <3>1, <3>2, BothQueued
  <2> QED
    BY <2>2, <2>4, <2>5 DEF CreateFile, OpenFile, CloseFile, DeleteFile, MoveFile, Kinds
<1>3. \A k \in files' \cup writers' : where'[k[1]] # Nowhere
  <2>1. \A k \in files \cup writers : Exists(k[1])
    BY DEF Steady, NodesRight
  <2>2. CASE CreateFile(d, n)
    BY <2>1, <2>2 DEF CreateFile, Exists
  <2>3. CASE OpenFile(d, n) \/ CloseFile(d, n) \/ DeleteFile(d, n)
    BY <2>1, <2>3 DEF OpenFile, CloseFile, DeleteFile, Exists
  <2>4. ASSUME NEW b \in Dirs, NEW m \in Names, MoveFile(d, n, b, m)
        PROVE  \A k \in files' \cup writers' : where'[k[1]] # Nowhere
    BY <2>1, <2>4 DEF MoveFile, Exists
  <2> QED
    BY <2>2, <2>3, <2>4
<1>4. FoldersKnown' /\ MovesKnown' /\ NodesRight' /\ ScanRight' /\ RowsKnown'
  BY <1>1, <1>2, <1>3, LandKept
<1>5. FilesRight'
  BY CreateFileRight, OpenFileRight, CloseFileRight, DeleteFileRight, MoveFileRight
<1> QED
  BY <1>4, <1>5 DEF Steady

-----------------------------------------------------------------------------
(* The operations on folders.                                              *)
LEMMA EventsOfLand ==
  ASSUME NEW x, NEW p, NEW k
  PROVE  Event(Root, x, p, TRUE) \notin About(k)
BY DEF Event, About, Of

LEMMA DepartureSteady ==
  ASSUME Typed, Resolved, Steady, Calm, NEW d \in Dirs, RemoveFolder(d) \/ MoveFolderOut(d)
  PROVE  Steady'
<1>1. Operation /\ UNCHANGED <<files, used, made, fresh, hasty>> /\ where[d] \in Folders
      /\ Empty(d)
  BY DEF RemoveFolder, MoveFolderOut
<1>2. PICK w \in {Nowhere, Outside}, y \in {"delete", "moved_from"} :
        /\ where' = [where EXCEPT ![d] = w]
        /\ Emit(Event(Root, y, where[d], TRUE))
        /\ w = Nowhere => writers' = {f \in writers : f[1] # d} /\ watched' = watched \ {d}
        /\ w # Nowhere => UNCHANGED <<writers, watched>>
  <2>1. CASE RemoveFolder(d)
    BY <2>1 DEF RemoveFolder
  <2>2. CASE MoveFolderOut(d)
    BY <2>2, InotifyAssumption DEF MoveFolderOut, InotifyAssumption
  <2> QED
    BY <2>1, <2>2
<1> DEFINE e == Event(Root, y, where[d], TRUE)
<1>3. e \in Queued /\ events \in Seq(Queued) /\ events' = Append(events, e)
  BY <1>1, <1>2, FolderEvent DEF Kinds, Typed
<1>4. /\ \A p : e # Made(p) /\ e # To(p) /\ (e = From(p) => p = where[d])
      /\ \A k : e \notin About(k)
  <2>1. \A p : e # Made(p) /\ e # To(p) /\ (e = From(p) => p = where[d])
    BY DEF Event, Made, To, From
  <2> QED
    BY <2>1, EventsOfLand
<1> HIDE DEF e
<1>5. /\ where \in [Dirs -> Paths \cup {Nowhere, Outside}] /\ files \subseteq Files
      /\ Nowhere \notin Paths /\ Outside \notin Paths /\ Folders \subseteq Paths
      /\ \A b \in Dirs : where'[b] = IF b = d THEN w ELSE where[b]
  BY <1>2, InotifyAssumption DEF InotifyAssumption, Typed, FsTyped, Paths
<1>6. /\ \A k \in Files : HasNode(k[1]) =>
           Story(events, created, k, Inside, Opened, hasty, fresh, Shown, ToRead)
      /\ \A k \in files \cup writers : Exists(k[1]) /\ k \in Files
      /\ \A k \in Files : k[1] \in Dirs /\ k[2] \in Names /\ k = <<k[1], k[2]>>
  BY <1>1, BeforeOperation
<1>7. \A k \in Files : k[1] = d => k \notin files
  BY <1>1, <1>6 DEF Empty
<1>8. FoldersKnown' /\ MovesKnown' /\ NodesRight' /\ ScanRight' /\ RowsKnown'
  <2>1. \A x : Queues(x)' <=> Queues(x) \/ x = e
    BY <1>3, InPut DEF Queues, In
  <2>2. ASSUME NEW p \in Folders
        PROVE  /\ Queues(Made(p))' => Queues(Made(p))
               /\ ~Queues(To(p))'
               /\ Queues(From(p))' => p = where[d]
    <3>1. \A x : In(events', x) <=> In(events, x) \/ x = e
      BY <1>3, InPut
    <3>2. ~In(events, From(p)) /\ ~In(events, To(p))
      BY <1>1, Quiet DEF Queues
    <3> QED
      BY <1>4, <3>1, <3>2 DEF Queues, In, Made, To, From
  <2>3. where[d] \in used /\ \A b \in Dirs : where'[b] # where[d]
    <3>1. \A b \in Dirs : where[b] = where[d] => b = d
      BY <1>1, <1>5, Grounds DEF Apart
    <3> QED
      BY <1>1, <1>5, <3>1, Grounds DEF Placing
  <2>4. \A b \in Dirs : /\ where'[b] \in Paths => where'[b] = where[b]
                        /\ where'[b] # Nowhere =>
                             where[b] # Nowhere /\ (b \in watched => b \in watched')
    BY <1>1, <1>2, <1>5
  <2>5. \A k \in files' \cup writers' : where'[k[1]] # Nowhere
    BY <1>1, <1>2, <1>5, <1>6, <1>7 DEF Exists
  <2>6. \A a \in Folders : Queues(From(a))' => a \in used /\ \A b \in Dirs : where'[b] # a
    BY <2>2, <2>3
  <2> QED
    BY <1>1, <2>1, <2>2, <2>4, <2>5, <2>6, LandKept
<1>9. FilesRight'
  <2> SUFFICES ASSUME NEW k \in Files, HasNode(k[1])
               PROVE  Story(events', created, k, Inside', Opened', hasty', fresh', Shown, ToRead)
    BY <1>1, AfterOperation
  <2>1. Story(events', created, k, Inside, Opened, hasty, fresh, Shown, ToRead)
    BY <1>3, <1>4, <1>6, StoryOther
  <2>2. k \in Inside <=> k \in Inside'
    BY <1>1, <1>5, <1>6, <1>7 DEF Inside
  <2>3. \/ k \in Opened <=> k \in Opened'
        \/ k \notin Inside /\ k \in Opened'
    BY <1>1, <1>2, <1>5, <1>6, <1>7 DEF Opened, Inside, Exists
  <2>4. Story(events', created, k, Inside, Opened', hasty, fresh, Shown, ToRead)
    BY <2>1, <2>3, StoryElse
  <2> QED
    BY <1>1, <2>2, <2>4, StorySame
<1> QED
  BY <1>8, <1>9 DEF Steady

LEMMA ArrivalSteady ==
  ASSUME Typed, Unmade, Resolved, Steady, ~Reuse, Calm, NEW p \in Folders,
         MakeFolder(p) \/ \E F \in SUBSET Names : MoveFolderIn(p, F)
  PROVE  Steady'
<1> DEFINE new == Root + made + 1
<1>1. /\ Operation /\ UNCHANGED <<files, writers, watched, fresh, hasty>>
      /\ p \notin used /\ used' = used \cup {p} /\ made' = made + 1 /\ made < MaxInodes
      /\ where' = [where EXCEPT ![new] = p]
      /\ \E y \in {"create", "moved_to"} : Emit(Event(Root, y, p, TRUE))
  <2>1. CASE MakeFolder(p)
    BY <2>1 DEF MakeFolder, Free
  <2>2. ASSUME NEW F \in SUBSET Names, MoveFolderIn(p, F) PROVE <1>1
    <3>1. F = {}
      BY <2>2 DEF MoveFolderIn
    <3>2. {<<new, n>> : n \in F} = {}
      BY <3>1
    <3> QED
      BY <2>2, <3>2 DEF MoveFolderIn, Free
  <2> QED
    BY <2>1, <2>2
<1>a. /\ made \in Nat /\ new \in Dirs /\ new # Root /\ Dirs \subseteq Nat /\ Root = 1
      /\ made' = made + 1
  <2>1. made \in 0..MaxInodes /\ made' = made + 1 /\ made < MaxInodes
    BY <1>1 DEF Typed, FsTyped
  <2>2. new \in Dirs /\ new # Root
    BY <2>1, Numbers
  <2>3. made \in Nat /\ Dirs \subseteq Nat /\ Root = 1
    BY <2>1, Numbers
  <2> QED
    BY <2>1, <2>2, <2>3
<1>b. /\ new > Root + made
      /\ \A i \in Dirs : i > Root + made' => i > Root + made
      /\ \A i \in Dirs : i <= Root + made => i <= Root + made' /\ i # new
  BY ONLY <1>a DEF new
<1>2. /\ where \in [Dirs -> Paths \cup {Nowhere, Outside}] /\ used \subseteq Folders
      /\ events \in Seq(Queued) /\ scan.dir \in Dirs
      /\ pc \in {"watch", "entries"} => scan.to \in Folders
  BY DEF Typed, FsTyped, ThreadTyped
<1>3. where[new] = Nowhere
  BY <1>a, <1>b DEF Unmade
<1> HIDE DEF new
<1>4. PICK y \in {"create", "moved_to"} : Emit(Event(Root, y, p, TRUE))
  BY <1>1
<1> DEFINE e == Event(Root, y, p, TRUE)
<1>5. e \in Queued /\ events' = Append(events, e)
  BY <1>4, FolderEvent DEF Kinds
<1>6. /\ \A r : e # From(r)
      /\ \A r : e = Made(r) => y = "create" /\ r = p
      /\ \A r : e = To(r) => y = "moved_to" /\ r = p
      /\ y = "create" => e = Made(p)
      /\ y = "moved_to" => e = To(p)
      /\ \A k : e \notin About(k)
  <2>1. \A k : e \notin About(k)
    BY EventsOfLand
  <2> QED
    BY <2>1 DEF Event, Made, To, From
<1> HIDE DEF e
<1>7. /\ UNCHANGED <<nodes, created, prev, scan, pc, db>>
      /\ pc \notin {"rename", "moves"} /\ ~Moving
      /\ \A r : ~Queues(From(r)) /\ ~Queues(To(r))
      /\ \A d, a : a \in Folders => ~Renamed(d, a)
  BY <1>1, Quiet, ThreadSame
<1>8. /\ \A d : HasNode(d)' <=> HasNode(d)
      /\ \A d, r : NodeOf(d, r)' <=> NodeOf(d, r)
  BY <1>7 DEF HasNode, NodeOf
<1>9. FoldersKnown /\ MovesKnown /\ NodesRight /\ ScanRight /\ RowsKnown
  BY DEF Steady
<1>10. /\ Folders \subseteq Paths /\ Nowhere \notin Paths /\ Outside \notin Paths
       /\ \A d \in Dirs : where'[d] = IF d = new THEN p ELSE where[d]
  BY <1>1, <1>a, <1>b, <1>2, InotifyAssumption DEF InotifyAssumption, Paths
<1>11. ~HasNode(new)
  BY <1>b, Grounds DEF Listed
<1>12. \A k \in files \cup writers : k \in Files /\ Exists(k[1]) /\ k[1] # new
  BY <1>1, <1>3, BeforeOperation DEF Exists
<1>13. \A x : In(events', x) <=> In(events, x) \/ x = e
  BY <1>a, <1>b, <1>2, <1>5, InPut
<1>14. \A d \in Dirs : where[d] \in Folders => where[d] \in used
  BY Grounds DEF Placing
<1>15. \A r : /\ Queues(To(r))' <=> In(events', To(r))
              /\ Queues(Made(r))' <=> In(events', Made(r))
  BY DEF Queues, In, To, Made
<1>16. FoldersKnown'
  <2> SUFFICES ASSUME NEW d \in Dirs, where'[d] \in Folders
               PROVE  New(d)' \/ NodeOf(d, where[d])'
    BY DEF FoldersKnown
  <2>1. CASE d = new
    <3>1. where'[d] = p /\ ~HasNode(d)'
      BY <1>8, <1>10, <1>11, <2>1
    <3>2. In(events', Made(where'[d])) \/ In(events', To(where'[d]))
      BY <1>6, <1>13, <3>1
    <3> QED
      BY <3>1, <3>2 DEF New, Queues, In, To, Made
  <2>2. CASE d # new
    <3>1. where'[d] = where[d]
      BY <1>10, <2>2
    <3>2. New(d) \/ NodeOf(d, where[d])
      BY <1>7, <1>9, <3>1 DEF FoldersKnown
    <3>3. CASE NodeOf(d, where[d])
      BY <1>7, <3>1, <3>3 DEF NodeOf
    <3>4. CASE New(d)
      <4>1. ~HasNode(d)' /\ (Scans(where[d]) => Scans(where[d])')
        BY <1>7, <1>8, <3>1, <3>4 DEF New, Scans
      <4>2. In(events, Made(where[d])) => Queues(Made(where[d]))'
        BY <1>13, <3>1 DEF Queues, In, Made
      <4>3. In(events, To(where[d])) => Queues(To(where[d]))'
        BY <1>13, <3>1 DEF Queues, In, To
      <4> QED
        BY <1>7, <3>4, <4>1, <4>2, <4>3 DEF New, Queues
    <3> QED
      BY <3>2, <3>3, <3>4
  <2> QED
    BY <2>1, <2>2
<1>17. MovesKnown'
  <2>1. OneMove(events')
    BY <1>a, <1>b, <1>2, <1>5, <1>7, <1>9, InPut DEF MovesKnown, Queues
  <2>2. \A a \in Folders : Queues(From(a))' \/ prev'.name = a =>
          a \in used' /\ \A d \in Dirs : where'[d] # a
    <3>1. \A a : Queues(From(a))' => Queues(From(a))
      BY <1>6, <1>13 DEF Queues, In, From
    <3> QED
      BY <1>1, <1>7, <1>9, <1>10, <3>1 DEF MovesKnown
  <2>3. \A r \in Folders : Queues(Made(r))' => r \in used'
    BY <1>1, <1>6, <1>9, <1>13, <1>15 DEF MovesKnown, Queues
  <2>4. ASSUME NEW d \in Dirs, where'[d] \in Folders, Queues(To(where[d]))'
        PROVE  ~HasNode(d)' /\ Empty(d)' /\ ~Queues(Made(where[d]))' /\ ~Scans(where[d])'
    <3>1. In(events', To(where'[d]))
      BY <2>4 DEF Queues, In, To
    <3>2. y = "moved_to" /\ where'[d] = p
      BY <1>6, <1>7, <1>13, <3>1 DEF Queues
    <3>3. d = new
      BY <1>1, <1>10, <1>14, <3>2
    <3>4. ~HasNode(d)' /\ Empty(d)'
      BY <1>1, <1>8, <1>11, <1>12, <3>3 DEF Empty
    <3>5. ~In(events', Made(where'[d]))
      BY <1>1, <1>6, <1>9, <1>13, <3>2 DEF MovesKnown, Queues
    <3>6. ~Scans(where[d])'
      BY <1>1, <1>7, <1>9, <3>2 DEF Scans, ScanRight
    <3> QED
      BY <3>4, <3>5, <3>6 DEF Queues, In, Made
  <2> QED
    BY <2>1, <2>2, <2>3, <2>4 DEF MovesKnown
<1>18. NodesRight'
  <2>1. \A d \in Dirs : HasNode(d)' /\ Exists(d)' => d \in watched'
    BY <1>1, <1>8, <1>9, <1>10, <1>11 DEF NodesRight, Exists
  <2>2. \A d \in Dirs : ~HasNode(d)' /\ (where'[d] \in Folders \/ d > Root + made') =>
          \A n \in Names : created'[<<d, n>>] = 0
    BY <1>a, <1>b, <1>2, <1>7, <1>8, <1>9, <1>10 DEF NodesRight
  <2>3. \A k \in files' \cup writers' : Exists(k[1])'
    BY <1>1, <1>10, <1>12 DEF Exists, Files
  <2>4. \A i, j \in DOMAIN nodes' : nodes'[i].wd = nodes'[j].wd => i = j
    BY <1>7, <1>9 DEF NodesRight
  <2> QED
    BY <2>1, <2>2, <2>3, <2>4 DEF NodesRight
<1>19. ScanRight'
  <2>1. ~Moving'
    BY <1>7 DEF Moving
  <2>2. pc \in {"watch", "entries"} =>
          /\ scan.to \in used' /\ scan.dir <= Root + made' /\ scan.dir # new
          /\ \A d \in Dirs : where'[d] = scan.to => d = scan.dir
          /\ where'[scan.dir] \in Paths => where'[scan.dir] = scan.to
          /\ scan.from = Nowhere
    BY <1>1, <1>a, <1>b, <1>2, <1>7, <1>9, <1>10 DEF ScanRight
  <2>3. Reading' /\ where'[scan.dir] = scan.to => HasNode(scan.dir)'
    BY <1>a, <1>b, <1>2, <1>7, <1>8, <1>9, <1>10, <2>2 DEF Reading, ScanRight
  <2>4. pc = "watch" => scan.seen = {}
    BY <1>9 DEF ScanRight
  <2> QED
    BY <1>7, <2>1, <2>2, <2>3, <2>4 DEF ScanRight
<1>20. RowsKnown'
  <2>1. \A r \in Paths, n \in Names : <<r, n>> \in db' => \E d \in Dirs : NodeOf(d, r)
    BY <1>7, <1>9 DEF RowsKnown
  <2> QED
    BY <1>8, <2>1 DEF RowsKnown
<1>21. FilesRight'
  <2> SUFFICES ASSUME NEW k \in Files, HasNode(k[1])
               PROVE  Story(events', created, k, Inside', Opened', hasty', fresh', Shown, ToRead)
    BY <1>1, AfterOperation
  <2>1. /\ Story(events, created, k, Inside, Opened, hasty, fresh, Shown, ToRead)
        /\ k[1] # new /\ k[1] \in Dirs
    BY <1>1, <1>11, BeforeOperation
  <2>2. Story(events', created, k, Inside, Opened, hasty, fresh, Shown, ToRead)
    BY <1>a, <1>b, <1>2, <1>5, <1>6, <2>1, StoryOther
  <2>3. (k \in Inside <=> k \in Inside') /\ (k \in Opened <=> k \in Opened')
    BY <1>1, <1>10, <2>1 DEF Inside, Opened, Exists
  <2> QED
    BY <1>1, <2>2, <2>3, StorySame
<1> QED
  BY <1>16, <1>17, <1>18, <1>19, <1>20, <1>21 DEF Steady

LEMMA Pair ==
  ASSUME NEW T, NEW e \in T, NEW g \in T
  PROVE  Append(Append(<<>>, e), g) = <<e, g>>
<1> DEFINE s == Append(Append(<<>>, e), g)
<1>1. s \in Seq(T) /\ Len(s) = 2 /\ s[1] = e /\ s[2] = g
  OBVIOUS
<1>2. <<e, g>> \in Seq(T) /\ Len(<<e, g>>) = 2 /\ <<e, g>>[1] = e /\ <<e, g>>[2] = g
  OBVIOUS
<1> HIDE DEF s
<1>3. \A i \in 1..Len(s) : s[i] = <<e, g>>[i]
  BY <1>1, <1>2
<1>4. s = <<e, g>>
  BY <1>1, <1>2, <1>3, SeqEqual
<1> QED
  BY <1>4 DEF s

(* A folder that is renamed: nothing else is left to handle.               *)
LEMMA RenameFolderSteady ==
  ASSUME Typed, Resolved, Steady, ~Reuse, Calm, NEW d \in Dirs, NEW p \in Folders,
         RenameFolder(d, p)
  PROVE  Steady'
<1>0. PICK a \in Folders : where[d] = a
  BY DEF RenameFolder
<1> DEFINE e == From(a)
           g == To(p)
<1>1. /\ Operation /\ UNCHANGED <<files, writers, watched, made, fresh, hasty>>
      /\ p \notin used /\ used' = used \cup {p}
      /\ events = <<>> /\ pc = "read" /\ (\A b \in Dirs : where[b] # p)
      /\ where' = [where EXCEPT ![d] = p]
      /\ EmitBoth(e, g)
  BY <1>0 DEF RenameFolder, Free, From, To
<1>2. /\ where \in [Dirs -> Paths \cup {Nowhere, Outside}] /\ events \in Seq(Queued)
      /\ Folders \subseteq Paths /\ Nowhere \notin Paths /\ used \subseteq Folders
      /\ Root \in watched
  BY InotifyAssumption DEF InotifyAssumption, Paths, Typed, FsTyped
<1>3. /\ e \in Queued /\ g \in Queued /\ e.wd = Root /\ g.wd = Root
      /\ \A r : e # Made(r) /\ e # To(r) /\ g # Made(r) /\ g # From(r)
      /\ \A r : (e = From(r) => r = a) /\ (g = To(r) => r = p)
  BY <1>0, EventsOfFolders DEF Kinds, From, To, Event, Made
<1>4. events' = <<From(a), To(p)>>
  <2> HIDE DEF e, g
  <2>1. events' = Append(Append(events, e), g)
    BY <1>2, <1>1, <1>3, BothEmitted
  <2>2. events' = <<e, g>>
    BY <1>1, <1>3, <2>1, Pair
  <2> QED
    BY <2>2 DEF e, g
<1>a. \A k : e \notin About(k) /\ g \notin About(k)
  BY EventsOfLand DEF From, To
<1>5. /\ UNCHANGED <<nodes, created, prev, scan, pc, db>>
      /\ ~Moving
  BY <1>1, Quiet, ThreadSame
<1>6. /\ \A b : HasNode(b)' <=> HasNode(b)
      /\ \A b, r : NodeOf(b, r)' <=> NodeOf(b, r)
  BY <1>5 DEF HasNode, NodeOf
<1>7. FoldersKnown /\ MovesKnown /\ NodesRight /\ ScanRight /\ RowsKnown
  BY DEF Steady
<1>8. \A b \in Dirs : where'[b] = IF b = d THEN p ELSE where[b]
  BY <1>1, <1>2
<1>9. /\ a \in used /\ \A b \in Dirs : where[b] = a => b = d
  BY <1>0, <1>1, <1>2, Grounds DEF Apart, Placing
<1>10. \A b \in Dirs : where[b] \in Folders => NodeOf(b, where[b])
  <2> SUFFICES ASSUME NEW b \in Dirs, where[b] \in Folders PROVE NodeOf(b, where[b])
    OBVIOUS
  <2>1. ~New(b)
    BY <1>1 DEF New, Queues, In, Scans
  <2>2. \A r : ~Renamed(b, r)
    BY <1>1 DEF Renamed
  <2> QED
    BY <1>7, <2>1, <2>2 DEF FoldersKnown
<1>11. Renamed(d, a)'
  <2>1. NodeOf(d, a)'
    BY <1>0, <1>5, <1>10 DEF NodeOf
  <2>2. where'[d] = p /\ a # p
    BY <1>0, <1>1, <1>8
  <2>3. To(where[d])' = To(p)
    BY <2>2 DEF To
  <2> QED
    BY <1>1, <1>4, <1>5, <2>1, <2>2, <2>3 DEF Renamed, From
<1>12. \A x : In(events', x) <=> x = e \/ x = g
  <2> HIDE DEF e, g
  <2>1. events' = <<e, g>>
    BY <1>4 DEF e, g
  <2> QED
    BY <2>1 DEF In
<1> HIDE DEF e, g
<1>13. FoldersKnown'
  <2> SUFFICES ASSUME NEW b \in Dirs, where'[b] \in Folders, b # d PROVE NodeOf(b, where[b])'
    BY <1>11 DEF FoldersKnown
  <2> QED
    BY <1>5, <1>8, <1>10 DEF NodeOf
<1>14. MovesKnown'
  <2>1. OneMove(events')
    <3>1. /\ OneMove(events)
          /\ \A r \in Folders : ~In(events, To(r))
      BY <1>1, <1>7 DEF MovesKnown, In
    <3>2. Append(events, e) \in Seq(Queued) /\ OneMove(Append(events, e))
      BY <1>2, <1>3, <3>1, InPut, Appended
    <3>3. \A r \in Folders : ~In(Append(events, e), To(r))
      BY <1>2, <1>3, <3>1, InPut
    <3>4. OneMove(Append(Append(events, e), g))
      BY <1>3, <3>2, <3>3, InPut
    <3>5. events' = Append(Append(events, e), g)
      BY <1>1, <1>2, <1>3, BothEmitted
    <3> QED
      BY <3>4, <3>5
  <2>2. ASSUME NEW b \in Folders, Queues(From(b))' \/ prev'.name = b
        PROVE  b \in used' /\ \A c \in Dirs : where'[c] # b
    <3>1. Queues(From(b))' => b = a
      BY <1>3, <1>12 DEF Queues, In, From
    <3>2. b = a \/ prev.name = b
      BY <1>5, <2>2, <3>1
    <3> QED
      BY <1>1, <1>7, <1>8, <1>9, <3>2 DEF MovesKnown
  <2>3. \A r \in Folders : ~Queues(Made(r))'
    BY <1>3, <1>12 DEF Queues, In, Made
  <2>4. ASSUME NEW b \in Dirs, where'[b] \in Folders, Queues(To(where[b]))' PROVE b = d
    <3>1. In(events', To(where'[b]))
      BY <2>4 DEF Queues, In, To
    <3>2. where'[b] = p
      BY <1>3, <1>12, <3>1
    <3> QED
      BY <1>1, <1>8, <3>2
  <2> QED
    BY <1>11, <2>1, <2>2, <2>3, <2>4 DEF MovesKnown
<1>15. NodesRight'
  <2>1. \A b \in Dirs : HasNode(b)' /\ Exists(b)' => b \in watched'
    BY <1>0, <1>1, <1>2, <1>6, <1>7, <1>8 DEF NodesRight, Exists
  <2>2. \A b \in Dirs : ~HasNode(b)' /\ (where'[b] \in Folders \/ b > Root + made') =>
          \A n \in Names : created'[<<b, n>>] = 0
    BY <1>0, <1>1, <1>5, <1>6, <1>7, <1>8 DEF NodesRight
  <2>3. \A k \in files' \cup writers' : Exists(k[1])'
    <3>1. \A k \in files \cup writers : k \in Files /\ Exists(k[1])
      BY <1>1, BeforeOperation
    <3> QED
      BY <1>1, <1>2, <1>8, <3>1 DEF Exists, Files
  <2>4. \A i, j \in DOMAIN nodes' : nodes'[i].wd = nodes'[j].wd => i = j
    BY <1>5, <1>7 DEF NodesRight
  <2> QED
    BY <2>1, <2>2, <2>3, <2>4 DEF NodesRight
<1>16. ScanRight'
  BY <1>1, <1>5 DEF ScanRight, Reading, Moving
<1>17. RowsKnown'
  <2>1. \A r \in Paths, n \in Names : <<r, n>> \in db' => \E b \in Dirs : NodeOf(b, r)
    BY <1>5, <1>7 DEF RowsKnown
  <2> QED
    BY <1>6, <2>1 DEF RowsKnown
<1>18. FilesRight'
  <2> SUFFICES ASSUME NEW k \in Files, HasNode(k[1])
               PROVE  Story(events', created, k, Inside', Opened', hasty', fresh', Shown, ToRead)
    BY <1>1, AfterOperation
  <2>1. /\ Story(events, created, k, Inside, Opened, hasty, fresh, Shown, ToRead)
        /\ k[1] \in Dirs
    BY <1>1, BeforeOperation
  <2>2. Story(events', created, k, Inside, Opened, hasty, fresh, Shown, ToRead)
    BY <1>1, <1>2, <1>3, <1>a, <2>1, StoryBothEmitted
  <2>3. (k \in Inside <=> k \in Inside') /\ (k \in Opened <=> k \in Opened')
    BY <1>0, <1>1, <1>2, <1>8, <2>1 DEF Inside, Opened, Exists
  <2> QED
    BY <1>1, <2>2, <2>3, StorySame
<1> QED
  BY <1>13, <1>14, <1>15, <1>16, <1>17, <1>18 DEF Steady

-----------------------------------------------------------------------------
(* The thread takes an event.                                              *)
LEMMA TakenFacts ==
  ASSUME Typed, Resolved, NEW y, NEW b, Take(y, b)
  PROVE  /\ events \in Seq(Queued) /\ events # <<>> /\ events' = Tail(events) /\ pc = "read"
         /\ Head(events) = events[1] /\ HasNode(events[1].wd) /\ 1 \in DOMAIN events
         /\ ~Moving /\ ~Reading
         /\ \A x : In(events, x) <=> x = events[1] \/ In(events', x)
         /\ OneMove(events) => /\ OneMove(events')
                               /\ \A p, r \in Folders : events[1] = To(p) => ~In(events', To(r))
         /\ \A p : /\ Queues(Made(p))' <=> In(events', Made(p))
                   /\ Queues(To(p))' <=> In(events', To(p))
                   /\ Queues(From(p))' <=> In(events', From(p))
<1>1. events \in Seq(Queued) /\ events # <<>> /\ events' = Tail(events) /\ pc = "read"
  BY DEF Take, Typed
<1>2. Head(events) = events[1] /\ 1 \in DOMAIN events
  BY <1>1, Tailed, Placed
<1>3. HasNode(events[1].wd)
  BY <1>2, Grounds DEF Heeded
<1>4. ~Moving /\ ~Reading
  BY <1>1 DEF Moving, Reading
<1>5. \A p : /\ Queues(Made(p))' <=> In(events', Made(p))
             /\ Queues(To(p))' <=> In(events', To(p))
             /\ Queues(From(p))' <=> In(events', From(p))
  BY DEF Queues, In, Made, To, From
<1> QED
  BY <1>1, <1>2, <1>3, <1>4, <1>5, InTaken

LEMMA ShownPlain ==
  ASSUME ~Moving, NEW k \in Files
  PROVE  k \in Shown <=> \E p \in Paths : NodeOf(k[1], p) /\ <<p, k[2]>> \in db
BY DEF Shown, HasRow

LEMMA NodesUnchanged ==
  ASSUME UNCHANGED nodes
  PROVE  /\ \A d : HasNode(d)' <=> HasNode(d)
         /\ \A d, p : NodeOf(d, p)' <=> NodeOf(d, p)
BY DEF HasNode, NodeOf

LEMMA NodesRightKept ==
  ASSUME NodesRight, UNCHANGED <<where, files, writers, nodes, watched, made>>,
         \A d \in Dirs : ~HasNode(d) => \A n \in Names : created'[<<d, n>>] = created[<<d, n>>]
  PROVE  NodesRight'
<1>1. \A d : HasNode(d)' <=> HasNode(d)
  BY NodesUnchanged
<1>2. \A d \in Dirs : HasNode(d)' /\ Exists(d)' => d \in watched'
  BY <1>1 DEF NodesRight, Exists
<1>3. \A d \in Dirs : ~HasNode(d)' /\ (where'[d] \in Folders \/ d > Root + made') =>
        \A n \in Names : created'[<<d, n>>] = 0
  BY <1>1 DEF NodesRight
<1>4. \A k \in files' \cup writers' : Exists(k[1])'
  BY DEF NodesRight, Exists
<1>5. \A i, j \in DOMAIN nodes' : nodes'[i].wd = nodes'[j].wd => i = j
  BY DEF NodesRight
<1> QED
  BY <1>2, <1>3, <1>4, <1>5 DEF NodesRight

(* ms_register_file, when the path is that of the folder's node.           *)
LEMMA RegisterAt ==
  ASSUME Typed, Resolved, Steady, ~Moving, ~Moving',
         UNCHANGED <<where, files, writers, nodes>>,
         NEW d \in Dirs, NEW n \in Names, NEW p \in Paths, NodeOf(d, p),
         where[d] \in Paths => where[d] = p, Register(p, n)
  PROVE  /\ Registered(<<d, n>>, Inside, Opened, hasty, fresh, Shown, hasty', fresh', Shown')
         /\ \A k \in Files : k # <<d, n>> => /\ k \in hasty <=> k \in hasty'
                                             /\ k \in fresh <=> k \in fresh'
                                             /\ k \in Shown <=> k \in Shown'
         /\ RowsKnown'
<1>1. \A e, q : NodeOf(e, q)' <=> NodeOf(e, q)
  BY NodesUnchanged
<1>2. \A k \in Files : k \in Shown <=> \E q \in Paths : NodeOf(k[1], q) /\ <<q, k[2]>> \in db
  BY ShownPlain
<1>3. \A k \in Files : k \in Shown' <=> \E q \in Paths : NodeOf(k[1], q) /\ <<q, k[2]>> \in db'
  <2>1. \A k \in Files :
          k \in Shown' <=> \E q \in Paths : NodeOf(k[1], q)' /\ <<q, k[2]>> \in db'
    BY DEF Shown, HasRow
  <2> QED
    BY <1>1, <2>1
<1>4. \A q : NodeOf(d, q) => q = p
  BY OneNode DEF Steady
<1>5. /\ \A e \in Dirs : NodeOf(e, p) \/ where[e] = p => e = d
      /\ \A k \in Files : k[1] \in Dirs /\ k[2] \in Names /\ k = <<k[1], k[2]>>
      /\ <<d, n>> \in Files /\ files \subseteq Files /\ Nowhere \notin Paths
  BY Grounds, InotifyAssumption DEF Apart, Files, Typed, FsTyped, InotifyAssumption, Paths
<1>6. \A q \in Paths, m \in Names : <<q, m>> \in db => \E e \in Dirs : NodeOf(e, q)
  BY DEF Steady, RowsKnown
<1> DEFINE K == <<d, n>>
<1>7. FilesAt(p, n) = IF K \in files /\ where[d] = p THEN {K} ELSE {}
  <2>1. \A k \in files : where[k[1]] = p /\ k[2] = n => k = K
    BY <1>5
  <2> QED
    BY <2>1 DEF FilesAt
<1>8. FileAt(p, n) <=> K \in files /\ where[d] = p
  BY <1>5 DEF FileAt
<1>9. K \in Inside <=> K \in files /\ where[d] = p
  BY DEF Inside
<1>10. K \in Inside /\ K \in Opened => K \in writers
  BY <1>5 DEF Inside, Opened, Exists
<1>11. K \in Shown <=> <<p, n>> \in db
  BY <1>2, <1>4, <1>5
<1>12. K \in Shown' <=> <<p, n>> \in db'
  BY <1>3, <1>4, <1>5
<1>13. CASE <<p, n>> \in db \/ ~FileAt(p, n)
  <2>1. UNCHANGED <<db, fresh, hasty>>
    BY <1>13 DEF Register, rows
  <2>2. RowsKnown'
    BY <1>1, <1>6, <2>1 DEF RowsKnown
  <2>3. Registered(K, Inside, Opened, hasty, fresh, Shown, hasty', fresh', Shown')
    BY <1>8, <1>9, <1>11, <1>12, <1>13, <2>1 DEF Registered
  <2> QED
    BY <1>2, <1>3, <2>1, <2>2, <2>3
<1>14. CASE <<p, n>> \notin db /\ FileAt(p, n)
  <2>1. /\ db' = db \cup {<<p, n>>} /\ fresh' = fresh \cup {K}
        /\ hasty' = hasty \cup ({K} \cap writers)
    BY <1>7, <1>8, <1>14 DEF Register
  <2>2. RowsKnown'
    BY <1>1, <1>6, <2>1 DEF RowsKnown
  <2>3. Registered(K, Inside, Opened, hasty, fresh, Shown, hasty', fresh', Shown')
    BY <1>8, <1>9, <1>10, <1>11, <1>12, <1>14, <2>1 DEF Registered
  <2>4. ASSUME NEW k \in Files, k # K PROVE k \in Shown <=> k \in Shown'
    <3>1. ASSUME NEW q \in Paths, NodeOf(k[1], q) PROVE <<q, k[2]>> \in db' <=> <<q, k[2]>> \in db
      <4>1. q = p /\ k[2] = n => k = K
        BY <1>5, <2>4, <3>1
      <4> QED
        BY <2>1, <2>4, <4>1
    <3> QED
      BY <1>2, <1>3, <3>1
  <2> QED
    BY <2>1, <2>2, <2>3, <2>4
<1> QED
  BY <1>13, <1>14

(* The events of files.                                                    *)
LEMMA FileEventLand ==
  ASSUME Typed, Resolved, Steady, NEW y \in Kinds, Take(y, FALSE),
         UNCHANGED <<where, watched, used, made, files, writers, nodes, scan, pc>>,
         prev' = prev \/ prev' = [prev EXCEPT !.wd = 0],
         \A k \in Files : k # Key => created'[k] = created[k]
  PROVE  /\ FoldersKnown' /\ MovesKnown' /\ NodesRight' /\ ScanRight'
         /\ \A d, a : ~Renamed(d, a)
<1>1. /\ events # <<>> /\ pc = "read" /\ Head(events) = events[1] /\ HasNode(events[1].wd)
      /\ \A x : In(events, x) <=> x = events[1] \/ In(events', x)
      /\ OneMove(events) => OneMove(events')
      /\ \A p : /\ Queues(Made(p))' <=> In(events', Made(p))
                /\ Queues(To(p))' <=> In(events', To(p))
                /\ Queues(From(p))' <=> In(events', From(p))
  BY TakenFacts
<1>2. events[1].isdir = FALSE /\ events[1] \in FileEvents /\ Key \in Files
  BY <1>1, FileTaken DEF Take
<1>3. \A p : events[1] # Made(p) /\ events[1] # To(p) /\ events[1] # From(p)
  BY <1>2 DEF Made, To, From, Event
<1>4. /\ \A p : Queues(Made(p))' <=> Queues(Made(p))
      /\ \A p : Queues(To(p))' <=> Queues(To(p))
      /\ \A p : Queues(From(p))' <=> Queues(From(p))
  BY <1>1, <1>3 DEF Queues
<1>5. ASSUME NEW d, NEW a PROVE ~Renamed(d, a)
  <2>1. events # <<From(a), To(where[d])>> /\ events # <<To(where[d])>>
    BY <1>3
  <2> QED
    BY <1>1, <2>1 DEF Renamed
<1>6. FoldersKnown /\ MovesKnown /\ NodesRight /\ ScanRight
  BY DEF Steady
<1>7. /\ \A d : HasNode(d)' <=> HasNode(d)
      /\ \A d, p : NodeOf(d, p)' <=> NodeOf(d, p)
  BY NodesUnchanged
<1>8. FoldersKnown'
  <2> SUFFICES ASSUME NEW d \in Dirs, where[d] \in Folders
               PROVE  New(d)' \/ NodeOf(d, where[d])'
    BY DEF FoldersKnown
  <2>1. CASE NodeOf(d, where[d])
    BY <2>1 DEF NodeOf
  <2>2. CASE New(d)
    <3>1. ~HasNode(d)' /\ (Queues(Made(where[d])) \/ Queues(To(where[d])))
      BY <1>1, <1>7, <2>2 DEF New, Scans
    <3>2. In(events', Made(where[d])) \/ In(events', To(where[d]))
      BY <1>1, <1>3, <3>1 DEF Queues
    <3> QED
      BY <3>1, <3>2 DEF New, Queues, In, Made, To
  <2> QED
    BY <1>5, <1>6, <2>1, <2>2 DEF FoldersKnown
<1>9. MovesKnown'
  <2>1. OneMove(events')
    BY <1>1, <1>6 DEF MovesKnown
  <2>2. \A a \in Folders : Queues(From(a))' \/ prev'.name = a =>
          a \in used' /\ \A d \in Dirs : where'[d] # a
    <3>1. prev'.name = prev.name
      BY DEF Typed, ThreadTyped
    <3> QED
      BY <1>4, <1>6, <3>1 DEF MovesKnown
  <2>3. \A p \in Folders : Queues(Made(p))' => p \in used'
    BY <1>4, <1>6 DEF MovesKnown
  <2>4. ASSUME NEW d \in Dirs, where[d] \in Folders, Queues(To(where[d]))'
        PROVE  ~HasNode(d)' /\ Empty(d)' /\ ~Queues(Made(where[d]))' /\ ~Scans(where[d])'
    <3>1. In(events', To(where[d]))
      BY <2>4 DEF Queues, In, To
    <3>2. Queues(To(where[d]))
      BY <1>1, <3>1 DEF Queues
    <3>3. ~HasNode(d) /\ Empty(d) /\ ~Queues(Made(where[d])) /\ ~Scans(where[d])
      BY <1>5, <1>6, <2>4, <3>2 DEF MovesKnown
    <3>4. ~In(events', Made(where[d]))
      BY <1>1, <3>3 DEF Queues
    <3>5. ~Scans(where[d])'
      BY <1>1 DEF Scans
    <3> QED
      BY <1>7, <3>3, <3>4, <3>5 DEF Empty, Queues, In, Made
  <2> QED
    BY <2>1, <2>2, <2>3, <2>4 DEF MovesKnown
<1>10. NodesRight'
  <2>1. \A d \in Dirs : ~HasNode(d) => \A n \in Names : created'[<<d, n>>] = created[<<d, n>>]
    <3>1. Key[1] = events[1].wd
      BY <1>1 DEF Key
    <3> QED
      BY <1>1, <3>1 DEF Files
  <2> QED
    BY <1>6, <2>1, NodesRightKept
<1>11. ScanRight'
  BY <1>1 DEF ScanRight, Reading, Moving
<1> QED
  BY <1>5, <1>8, <1>9, <1>10, <1>11

(* What the thread knows of the event's file.                              *)
LEMMA TakenFile ==
  ASSUME Typed, Resolved, Steady, NEW y \in Kinds, Take(y, FALSE), \A d, a : ~Renamed(d, a)
  PROVE  /\ Key \in Files /\ Key = <<Key[1], Name>> /\ Name \in Names /\ Here \in Paths
         /\ events[1] = Of(Key, y)
         /\ \A k \in Files : k # Key => events[1] \notin About(k)
         /\ NodeOf(Key[1], Here) /\ (where[Key[1]] \in Paths => where[Key[1]] = Here)
<1>1. /\ Head(events) = events[1] /\ HasNode(events[1].wd)
  BY TakenFacts
<1>2. /\ events[1] \in FileEvents /\ Key \in Files /\ Name \in Names /\ Here \in Paths
      /\ events[1].wd \in Dirs /\ events[1].kind = y
  BY <1>1, FileTaken DEF Take
<1> DEFINE d == events[1].wd
<1>3. Key = <<d, Name>> /\ Here = FolderOf(d) /\ Key[1] = d
  BY <1>1 DEF Key, Here, Name
<1>4. events[1] = Event(d, y, Name, FALSE)
  BY <1>1, <1>2 DEF FileEvents, Event, Name
<1>5. events[1] = Of(Key, y) /\ \A k \in Files : k # Key => events[1] \notin About(k)
  <2>1. PICK D \in Dirs : D = events[1].wd
    BY <1>2
  <2>2. /\ Event(D, y, Name, FALSE) = Of(<<D, Name>>, y)
        /\ \A k \in Files : k # <<D, Name>> => Event(D, y, Name, FALSE) \notin About(k)
    BY <1>2, EventsAbout
  <2>3. Key = <<D, Name>> /\ events[1] = Event(D, y, Name, FALSE)
    BY <1>3, <1>4, <2>1
  <2> QED
    BY <2>2, <2>3
<1>6. PICK p \in Paths : NodeOf(d, p)
  BY <1>1, Grounds DEF Listed
<1>7. Here = p /\ \A q : NodeOf(d, q) => q = p
  BY <1>3, <1>6, OneNode DEF Steady
<1>8. where[d] \in Paths => where[d] = Here
  BY <1>1, <1>2, <1>7, NodeHere
<1> QED
  BY <1>2, <1>3, <1>5, <1>6, <1>7, <1>8

LEMMA GoneSteady ==
  ASSUME Typed, Resolved, Steady, NEW y \in {"moved_from", "delete"}, Gone(y)
  PROVE  Steady'
<1>1. /\ Take(y, FALSE) /\ y \in Kinds
      /\ db' = db \ {<<Here, Name>>} /\ fresh' = fresh \ FilesAt(Here, Name)
      /\ UNCHANGED <<where, watched, used, made, files, writers, hasty, nodes, scan, pc>>
      /\ UNCHANGED <<created, prev>>
  BY DEF Gone, fs, thread, Outdated, Kinds
<1>2. /\ FoldersKnown' /\ MovesKnown' /\ NodesRight' /\ ScanRight'
      /\ \A d, a : ~Renamed(d, a)
  BY <1>1, FileEventLand
<1>3. /\ Key \in Files /\ Key = <<Key[1], Name>> /\ Name \in Names /\ Here \in Paths
      /\ events[1] = Of(Key, y)
      /\ \A k \in Files : k # Key => events[1] \notin About(k)
      /\ NodeOf(Key[1], Here)
  BY <1>1, <1>2, TakenFile
<1>4. /\ events \in Seq(Queued) /\ events # <<>> /\ events' = Tail(events) /\ pc = "read"
      /\ ~Moving /\ ~Reading
  BY <1>1, TakenFacts
<1>5. /\ \A d : HasNode(d)' <=> HasNode(d)
      /\ \A d, p : NodeOf(d, p)' <=> NodeOf(d, p)
      /\ ~Moving' /\ ~Reading'
  BY <1>1, <1>4, NodesUnchanged DEF Moving, Reading
<1>6. RowsKnown'
  BY <1>1, <1>4, <1>5 DEF RowsKnown, Steady
<1>7. /\ \A k \in Files : k \in Shown <=> \E q \in Paths : NodeOf(k[1], q) /\ <<q, k[2]>> \in db
      /\ \A k \in Files :
           k \in Shown' <=> \E q \in Paths : NodeOf(k[1], q) /\ <<q, k[2]>> \in db'
  BY <1>4, <1>5, ShownPlain DEF Shown, HasRow
<1>8. FilesRight'
  <2> SUFFICES ASSUME NEW k \in Files, HasNode(k[1])
               PROVE  Story(events', created', k,
                            Inside', Opened', hasty', fresh', Shown', ToRead')
    BY <1>5 DEF FilesRight, FileRight
  <2>1. Story(events, created, k, Inside, Opened, hasty, fresh, Shown, ToRead)
    BY DEF Steady, FilesRight, FileRight
  <2>2. Inside' = Inside /\ Opened' = Opened /\ ToRead' = ToRead
    BY <1>1, <1>4, <1>5 DEF Inside, Opened, ToRead, Exists
  <2>3. k[1] \in Dirs /\ k[2] \in Names /\ k = <<k[1], k[2]>> /\ created[k] \in Nat
    BY DEF Files, Typed, ThreadTyped
  <2>4. CASE k = Key
    <3>1. events[1] \in Removing(k) /\ Handled(events, created, created', k)
      BY <1>1, <1>3, <2>4, OfKinds DEF Handled
    <3>2. k \notin Shown'
      <4>1. \A q : NodeOf(k[1], q) => q = Here
        BY <1>3, <2>4, OneNode DEF Steady
      <4>2. k[2] = Name
        BY <1>3, <2>3, <2>4
      <4> QED
        BY <1>1, <1>7, <4>1, <4>2
    <3>3. Story(Tail(events), created', k, Inside, Opened, hasty, fresh', Shown', ToRead)
      BY <1>4, <2>1, <2>3, <3>1, <3>2, StoryGone
    <3> QED
      BY <1>1, <1>4, <2>2, <3>3
  <2>5. CASE k # Key
    <3>1. events[1] \notin About(k) /\ Handled(events, created, created', k)
      BY <1>1, <1>3, <2>5, AboutKinds DEF Handled
    <3>2. Story(Tail(events), created', k, Inside, Opened, hasty, fresh, Shown, ToRead)
      BY <1>4, <2>1, <2>3, <3>1, StoryPassed
    <3>3. \A e \in Dirs : NodeOf(e, Here) \/ where[e] = Here => e = Key[1]
      BY <1>3, Grounds DEF Apart, Listed
    <3>4. ~(NodeOf(k[1], Here) /\ k[2] = Name) /\ ~(where[k[1]] = Here /\ k[2] = Name)
      BY <1>3, <2>3, <2>5, <3>3
    <3>5. (k \in Shown <=> k \in Shown') /\ (k \in fresh <=> k \in fresh')
      BY <1>1, <1>7, <3>4 DEF FilesAt
    <3> QED
      BY <1>1, <1>4, <2>2, <3>2, <3>5, StorySame
  <2> QED
    BY <2>4, <2>5
<1> QED
  BY <1>2, <1>6, <1>8 DEF Steady

(* What an event of a file does to that file is left to show.              *)
LEMMA OtherFiles ==
  ASSUME Typed, Resolved, Steady, NEW y \in Kinds, Take(y, FALSE), \A d, a : ~Renamed(d, a),
         UNCHANGED <<where, files, writers, nodes, scan, pc>>,
         \A k \in Files : k # Key => /\ created'[k] = created[k]
                                     /\ k \in hasty <=> k \in hasty'
                                     /\ k \in fresh <=> k \in fresh'
                                     /\ k \in Shown <=> k \in Shown',
         Story(events, created, Key, Inside, Opened, hasty, fresh, Shown, ToRead) =>
           Story(Tail(events), created', Key, Inside, Opened, hasty', fresh', Shown', ToRead)
  PROVE  FilesRight'
<1>1. /\ Key \in Files /\ events[1] = Of(Key, y)
      /\ \A k \in Files : k # Key => events[1] \notin About(k)
  BY TakenFile
<1>2. /\ events \in Seq(Queued) /\ events # <<>> /\ events' = Tail(events) /\ pc = "read"
      /\ ~Moving /\ ~Reading
  BY TakenFacts
<1>3. /\ \A d : HasNode(d)' <=> HasNode(d)
      /\ Inside' = Inside /\ Opened' = Opened /\ ToRead' = ToRead
  BY <1>2, NodesUnchanged DEF Inside, Opened, ToRead, Exists, Reading
<1> SUFFICES ASSUME NEW k \in Files, HasNode(k[1])
             PROVE  Story(events', created', k, Inside', Opened', hasty', fresh', Shown', ToRead')
  BY <1>3 DEF FilesRight, FileRight
<1>4. Story(events, created, k, Inside, Opened, hasty, fresh, Shown, ToRead)
  BY DEF Steady, FilesRight, FileRight
<1>5. CASE k = Key
  BY <1>2, <1>3, <1>4, <1>5
<1>6. CASE k # Key
  <2>1. events[1] \notin About(k) /\ Handled(events, created, created', k)
    BY <1>1, <1>6, AboutKinds DEF Handled
  <2>2. created[k] \in Nat
    BY DEF Typed, ThreadTyped
  <2>3. Story(Tail(events), created', k, Inside, Opened, hasty, fresh, Shown, ToRead)
    BY <1>2, <1>4, <2>1, <2>2, StoryPassed
  <2> QED
    BY <1>2, <1>3, <1>6, <2>3, StorySame
<1> QED
  BY <1>5, <1>6

LEMMA NoMoving ==
  ASSUME pc = "read", UNCHANGED <<nodes, db, pc>>
  PROVE  ~Moving /\ ~Moving' /\ Shown' = Shown /\ (RowsKnown => RowsKnown')
<1>1. ~Moving /\ ~Moving'
  BY DEF Moving
<1>2. \A d, p : NodeOf(d, p)' <=> NodeOf(d, p)
  BY NodesUnchanged
<1>3. \A d, n : HasRow(d, n)' <=> HasRow(d, n)
  BY <1>1, <1>2 DEF HasRow
<1>4. Shown' = Shown
  BY <1>3 DEF Shown
<1>5. RowsKnown => RowsKnown'
  BY <1>1, <1>2 DEF RowsKnown
<1> QED
  BY <1>1, <1>4, <1>5

LEMMA FileMovedToSteady ==
  ASSUME Typed, Resolved, Steady, FileMovedTo
  PROVE  Steady'
<1>1. /\ Take("moved_to", FALSE) /\ "moved_to" \in Kinds /\ Register(Here, Name)
      /\ UNCHANGED <<where, watched, used, made, files, writers, nodes, scan, pc>>
      /\ UNCHANGED <<created, prev>>
  BY DEF FileMovedTo, fs, thread, Kinds
<1>2. /\ FoldersKnown' /\ MovesKnown' /\ NodesRight' /\ ScanRight'
      /\ \A d, a : ~Renamed(d, a)
  BY <1>1, FileEventLand
<1>3. /\ Key \in Files /\ Key = <<Key[1], Name>> /\ Name \in Names /\ Here \in Paths
      /\ events[1] = Of(Key, "moved_to")
      /\ NodeOf(Key[1], Here) /\ (where[Key[1]] \in Paths => where[Key[1]] = Here)
  BY <1>1, <1>2, TakenFile
<1>4. /\ events \in Seq(Queued) /\ events # <<>> /\ pc = "read" /\ ~Moving /\ ~Moving'
      /\ Key[1] \in Dirs /\ created[Key] \in Nat
  BY <1>1, <1>3, TakenFacts DEF Moving, Files, Typed, ThreadTyped
<1>5. /\ Registered(Key, Inside, Opened, hasty, fresh, Shown, hasty', fresh', Shown')
      /\ \A k \in Files : k # Key => /\ k \in hasty <=> k \in hasty'
                                     /\ k \in fresh <=> k \in fresh'
                                     /\ k \in Shown <=> k \in Shown'
      /\ RowsKnown'
  <2>1. PICK d \in Dirs : d = Key[1]
    BY <1>4
  <2>2. /\ Registered(<<d, Name>>, Inside, Opened, hasty, fresh, Shown, hasty', fresh', Shown')
        /\ \A k \in Files : k # <<d, Name>> => /\ k \in hasty <=> k \in hasty'
                                               /\ k \in fresh <=> k \in fresh'
                                               /\ k \in Shown <=> k \in Shown'
        /\ RowsKnown'
    BY <1>1, <1>3, <1>4, <2>1, RegisterAt
  <2> QED
    BY <1>3, <2>1, <2>2
<1>6. ASSUME Story(events, created, Key, Inside, Opened, hasty, fresh, Shown, ToRead)
      PROVE  Story(Tail(events), created', Key, Inside, Opened, hasty', fresh', Shown', ToRead)
  <2>1. Handled(events, created, created', Key)
    BY <1>1, <1>3, OfKinds DEF Handled
  <2> QED
    BY <1>3, <1>4, <1>5, <1>6, <2>1, StoryRegistered
<1>7. FilesRight'
  BY <1>1, <1>2, <1>5, <1>6, OtherFiles
<1> QED
  BY <1>2, <1>5, <1>7 DEF Steady

LEMMA FileCreatedSteady ==
  ASSUME Typed, Resolved, Steady, FileCreated
  PROVE  Steady'
<1>1. /\ Take("create", FALSE) /\ "create" \in Kinds
      /\ created' = [created EXCEPT ![Key] = @ + 1]
      /\ UNCHANGED <<where, watched, used, made, files, writers, nodes, scan, pc>>
      /\ UNCHANGED <<hasty, fresh, db, prev>>
  BY DEF FileCreated, fs, rows, Kinds
<1>2. created \in [Files -> Nat] /\ Key \in Files
  BY <1>1, FileTaken DEF Typed, ThreadTyped
<1>3. created'[Key] = created[Key] + 1 /\ \A k \in Files : k # Key => created'[k] = created[k]
  BY <1>1, <1>2
<1>4. /\ FoldersKnown' /\ MovesKnown' /\ NodesRight' /\ ScanRight'
      /\ \A d, a : ~Renamed(d, a)
  BY <1>1, <1>3, FileEventLand
<1>5. events[1] = Of(Key, "create")
  BY <1>1, <1>4, TakenFile
<1>6. /\ events \in Seq(Queued) /\ events # <<>> /\ pc = "read"
  BY <1>1, TakenFacts
<1>7. Shown' = Shown /\ RowsKnown'
  BY <1>1, <1>6, NoMoving DEF Steady
<1>8. ASSUME Story(events, created, Key, Inside, Opened, hasty, fresh, Shown, ToRead)
      PROVE  Story(Tail(events), created', Key, Inside, Opened, hasty', fresh', Shown', ToRead)
  <2>1. Handled(events, created, created', Key)
    BY <1>3, <1>5 DEF Handled
  <2> QED
    BY <1>1, <1>2, <1>5, <1>6, <1>7, <1>8, <2>1, StoryPassed
<1>9. FilesRight'
  BY <1>1, <1>3, <1>4, <1>7, <1>8, OtherFiles
<1> QED
  BY <1>4, <1>7, <1>9 DEF Steady

LEMMA FileClosedSteady ==
  ASSUME Typed, Resolved, Steady, FileClosed
  PROVE  Steady'
<1>1. /\ Take("close_write", FALSE) /\ "close_write" \in Kinds
      /\ prev' = prev \/ prev' = [prev EXCEPT !.wd = 0]
      /\ UNCHANGED <<where, watched, used, made, files, writers, nodes, scan, pc>>
  BY DEF FileClosed, fs, Kinds
<1>2. created \in [Files -> Nat] /\ Key \in Files
  BY <1>1, FileTaken DEF Typed, ThreadTyped
<1>3. \A k \in Files : k # Key => created'[k] = created[k]
  BY <1>2 DEF FileClosed
<1>4. /\ FoldersKnown' /\ MovesKnown' /\ NodesRight' /\ ScanRight'
      /\ \A d, a : ~Renamed(d, a)
  BY <1>1, <1>3, FileEventLand
<1>5. /\ Key = <<Key[1], Name>> /\ Name \in Names /\ Here \in Paths
      /\ events[1] = Of(Key, "close_write")
      /\ NodeOf(Key[1], Here) /\ (where[Key[1]] \in Paths => where[Key[1]] = Here)
  BY <1>1, <1>4, TakenFile
<1>6. /\ events \in Seq(Queued) /\ events # <<>> /\ pc = "read" /\ ~Moving /\ ~Moving'
      /\ Key[1] \in Dirs /\ created[Key] \in Nat
  BY <1>1, <1>2, TakenFacts DEF Moving, Files
<1>7. PICK d \in Dirs : d = Key[1]
  BY <1>6
<1>8. CASE WasCreated(Key)
  <2>1. /\ Register(Here, Name) /\ created' = [created EXCEPT ![Key] = @ - 1]
        /\ created[Key] > 0
    BY <1>8 DEF FileClosed, WasCreated
  <2>2. /\ Registered(<<d, Name>>, Inside, Opened, hasty, fresh, Shown, hasty', fresh', Shown')
        /\ \A k \in Files : k # <<d, Name>> => /\ k \in hasty <=> k \in hasty'
                                               /\ k \in fresh <=> k \in fresh'
                                               /\ k \in Shown <=> k \in Shown'
        /\ RowsKnown'
    BY <1>1, <1>5, <1>6, <1>7, <2>1, RegisterAt
  <2>3. <<d, Name>> = Key
    BY <1>5, <1>7
  <2>4. ASSUME Story(events, created, Key, Inside, Opened, hasty, fresh, Shown, ToRead)
        PROVE  Story(Tail(events), created', Key, Inside, Opened, hasty', fresh', Shown', ToRead)
    <3>1. Handled(events, created, created', Key)
      BY <1>2, <1>5, <2>1, OfKinds DEF Handled
    <3>2. Registered(Key, Inside, Opened, hasty, fresh, Shown, hasty', fresh', Shown')
      BY <2>2, <2>3
    <3> QED
      BY <1>5, <1>6, <2>1, <2>4, <3>1, <3>2, StoryRegistered
  <2>5. FilesRight'
    BY <1>1, <1>3, <1>4, <2>2, <2>3, <2>4, OtherFiles
  <2> QED
    BY <1>4, <2>2, <2>5 DEF Steady
<1>9. CASE ~WasCreated(Key)
  <2>1. /\ fresh' = Refreshed(Here, Name) /\ UNCHANGED <<db, hasty, created>>
        /\ created[Key] = 0
    BY <1>6, <1>9 DEF FileClosed, WasCreated
  <2>2. Shown' = Shown /\ RowsKnown'
    BY <1>1, <1>6, <2>1, NoMoving DEF Steady
  <2>3. FilesAt(Here, Name) \subseteq {Key}
    <3>1. \A e \in Dirs : where[e] = Here => e = d
      BY <1>5, <1>7, Grounds DEF Apart
    <3>2. \A k \in files : k[1] \in Dirs /\ k = <<k[1], k[2]>>
      BY DEF Typed, FsTyped, Files
    <3> QED
      BY <1>5, <1>7, <3>1, <3>2 DEF FilesAt
  <2>4. \A k \in Files : k # Key => (k \in fresh <=> k \in fresh')
    BY <2>1, <2>3 DEF Refreshed
  <2>5. ASSUME Story(events, created, Key, Inside, Opened, hasty, fresh, Shown, ToRead)
        PROVE  Story(Tail(events), created', Key, Inside, Opened, hasty', fresh', Shown', ToRead)
    <3>1. Handled(events, created, created', Key)
      BY <1>5, <2>1, OfKinds DEF Handled
    <3>2. Key \in fresh => Key \in fresh'
      BY <2>1 DEF Refreshed
    <3>3. ASSUME Key \in Inside, Key \in Shown PROVE Key \in fresh'
      <4>1. Key \in FilesAt(Here, Name)
        BY <1>5, <3>3 DEF FilesAt, Inside
      <4>2. <<Here, Name>> \in db
        <5>1. PICK q \in Paths : NodeOf(Key[1], q) /\ <<q, Key[2]>> \in db
          BY <1>2, <1>6, <3>3, ShownPlain
        <5>2. q = Here
          BY <1>5, <5>1, OneNode DEF Steady
        <5> QED
          BY <1>5, <5>1, <5>2
      <4> QED
        BY <2>1, <4>1, <4>2 DEF Refreshed
    <3>4. Story(Tail(events), created', Key, Inside, Opened, hasty, fresh', Shown, ToRead)
      BY <1>5, <1>6, <2>1, <2>5, <3>1, <3>2, <3>3, StoryRefreshed
    <3> QED
      BY <2>1, <2>2, <3>4
  <2>6. FilesRight'
    BY <1>1, <1>3, <1>4, <2>1, <2>2, <2>4, <2>5, OtherFiles
  <2> QED
    BY <1>4, <2>2, <2>6 DEF Steady
<1> QED
  BY <1>8, <1>9

(* The events of folders leave the files alone.                            *)
LEMMA FilesLeftAlone ==
  ASSUME Typed, Resolved, Steady, NEW y \in Kinds, Take(y, TRUE),
         UNCHANGED <<where, files, writers, hasty, fresh, created, db>>,
         pc' \notin {"entries", "moves"},
         \A d, p : NodeOf(d, p)' => NodeOf(d, p),
         \A d : HasNode(d)' => HasNode(d) /\ \A p : NodeOf(d, p) => NodeOf(d, p)'
  PROVE  FilesRight'
<1>1. /\ events \in Seq(Queued) /\ events # <<>> /\ events' = Tail(events) /\ pc = "read"
      /\ ~Moving /\ ~Reading /\ ~Moving' /\ ~Reading'
  BY TakenFacts DEF Moving, Reading
<1>2. \A k : events[1] \notin About(k)
  BY <1>1, FolderTaken, EventsOfLand
<1>3. Inside' = Inside /\ Opened' = Opened /\ ToRead' = ToRead
  BY <1>1 DEF Inside, Opened, ToRead, Exists
<1> SUFFICES ASSUME NEW k \in Files, HasNode(k[1])'
             PROVE  Story(events', created', k, Inside', Opened', hasty', fresh', Shown', ToRead')
  BY DEF FilesRight, FileRight
<1>4. Story(events, created, k, Inside, Opened, hasty, fresh, Shown, ToRead)
  BY DEF Steady, FilesRight, FileRight
<1>5. Handled(events, created, created', k) /\ created[k] \in Nat
  BY <1>2, AboutKinds DEF Handled, Typed, ThreadTyped
<1>6. Story(Tail(events), created', k, Inside, Opened, hasty, fresh, Shown, ToRead)
  BY <1>1, <1>2, <1>4, <1>5, StoryPassed
<1>7. k \in Shown <=> k \in Shown'
  <2>1. k \in Shown <=> \E q \in Paths : NodeOf(k[1], q) /\ <<q, k[2]>> \in db
    BY <1>1, ShownPlain
  <2>2. k \in Shown' <=> \E q \in Paths : NodeOf(k[1], q)' /\ <<q, k[2]>> \in db
    BY <1>1 DEF Shown, HasRow
  <2> QED
    BY <2>1, <2>2
<1> QED
  BY <1>1, <1>3, <1>6, <1>7, StorySame

LEMMA LandTaken ==
  ASSUME Typed, Resolved, Steady, NEW y \in Kinds, Take(y, TRUE)
  PROVE  /\ events \in Seq(Queued) /\ events # <<>> /\ events' = Tail(events) /\ pc = "read"
         /\ events[1] = Event(Root, y, Name, TRUE)
         /\ Name \in Folders /\ Subfolder(Here, Name) = Name
         /\ \A x : Queues(x) <=> x = events[1] \/ In(events', x)
         /\ OneMove(events')
         /\ \A p, r \in Folders : events[1] = To(p) => ~In(events', To(r))
         /\ \A p : /\ Queues(Made(p))' <=> In(events', Made(p))
                   /\ Queues(To(p))' <=> In(events', To(p))
                   /\ Queues(From(p))' <=> In(events', From(p))
         /\ \A p : ~Scans(p) /\ ~Moving /\ ~Reading
         /\ FoldersKnown /\ MovesKnown /\ NodesRight /\ RowsKnown
<1>1. FoldersKnown /\ MovesKnown /\ NodesRight /\ RowsKnown /\ OneMove(events)
  BY DEF Steady, MovesKnown
<1>2. /\ Name \in Folders /\ Subfolder(Here, Name) = Name
      /\ events[1] = Event(Root, y, Name, TRUE)
  BY FolderTaken
<1>3. pc = "read"
  BY TakenFacts
<1> QED
  BY <1>1, <1>2, <1>3, TakenFacts DEF Queues, Scans

LEMMA NodesStay ==
  ASSUME Typed, UNCHANGED <<nodes, db, files>>, ~Moving, ~Moving', RowsKnown
  PROVE  /\ \A d, p : NodeOf(d, p)' <=> NodeOf(d, p)
         /\ \A d : HasNode(d)' => HasNode(d) /\ \A p : NodeOf(d, p) => NodeOf(d, p)'
         /\ \A d : HasNode(d)' <=> HasNode(d)
         /\ RowsKnown'
<1>1. /\ \A d, p : NodeOf(d, p)' <=> NodeOf(d, p)
      /\ \A d : HasNode(d)' <=> HasNode(d)
  BY NodesUnchanged
<1>2. RowsKnown'
  BY <1>1 DEF RowsKnown
<1> QED
  BY <1>1, <1>2

(* A scan begins in the folder that has the path.                          *)
LEMMA ScanFound ==
  ASSUME Typed, Resolved, NEW p \in Folders, NEW d \in InodeAt(p), NEW a,
         scan' = [dir |-> d, from |-> a, to |-> p, seen |-> {}], UNCHANGED <<where, used, made>>
  PROVE  /\ d \in Dirs /\ where[d] = p /\ where'[d] = p /\ d # Root
         /\ \A e \in Dirs : where[e] = p => e = d
         /\ scan'.dir = d /\ scan'.from = a /\ scan'.to = p /\ scan'.seen = {}
         /\ scan'.to \in used' /\ scan'.dir <= Root + made'
<1>1. d \in Dirs /\ where[d] = p
  BY DEF InodeAt
<1>2. p \in Paths
  BY DEF Paths
<1> QED
  BY <1>1, <1>2, Grounds DEF Placing, Apart

LEMMA FolderCreatedSteady ==
  ASSUME Typed, Resolved, Steady, FolderCreated
  PROVE  Steady'
<1>1. /\ Take("create", TRUE) /\ "create" \in Kinds
      /\ UNCHANGED <<where, watched, used, made, files, writers, nodes>>
      /\ UNCHANGED <<hasty, fresh, db, created, prev>>
  BY DEF FolderCreated, fs, rows, Kinds
<1> DEFINE p == Name
<1>2. /\ pc = "read" /\ events[1] = Made(p) /\ p \in Folders /\ Subfolder(Here, Name) = p
      /\ \A x : Queues(x) <=> x = events[1] \/ In(events', x)
      /\ OneMove(events')
      /\ \A r : /\ Queues(Made(r))' <=> In(events', Made(r))
                /\ Queues(To(r))' <=> In(events', To(r))
                /\ Queues(From(r))' <=> In(events', From(r))
      /\ ~Moving
      /\ FoldersKnown /\ MovesKnown /\ NodesRight /\ RowsKnown
  BY <1>1, LandTaken DEF Made
<1>3. \/ InodeAt(p) = {} /\ UNCHANGED <<scan, pc>>
      \/ \E d \in InodeAt(p) :
           /\ scan' = [dir |-> d, from |-> Nowhere, to |-> p, seen |-> {}]
           /\ pc' = "watch"
  BY <1>2 DEF FolderCreated
<1>4. pc' \notin {"entries", "moves"} /\ ~Moving' /\ ~Reading' /\ pc' # "rename"
  BY <1>2, <1>3 DEF Moving, Reading
<1>5. /\ \A d, q : NodeOf(d, q)' <=> NodeOf(d, q)
      /\ \A d : HasNode(d)' => HasNode(d) /\ \A q : NodeOf(d, q) => NodeOf(d, q)'
      /\ \A d : HasNode(d)' <=> HasNode(d)
      /\ RowsKnown'
  BY <1>1, <1>2, <1>4, NodesStay
<1>6. FilesRight'
  BY <1>1, <1>4, <1>5, FilesLeftAlone
<1>7. \A r : events[1] # To(r) /\ events[1] # From(r) /\ (events[1] = Made(r) => r = p)
  BY <1>2, KindsDiffer DEF Made, Event
<1>8. ASSUME NEW d, NEW a PROVE ~Renamed(d, a)
  <2>1. events # <<From(a), To(where[d])>> /\ events # <<To(where[d])>>
    BY <1>7
  <2> QED
    BY <1>2, <2>1 DEF Renamed
<1>9. \A d \in Dirs : where[d] = p => pc' = "watch" /\ scan'.to = where[d]
  <2> SUFFICES ASSUME NEW d \in Dirs, where[d] = p PROVE pc' = "watch" /\ scan'.to = where[d]
    OBVIOUS
  <2>1. d \in InodeAt(p)
    BY <1>2, InotifyAssumption DEF InodeAt, InotifyAssumption
  <2> QED
    BY <1>3, <2>1
<1>10. FoldersKnown'
  <2> SUFFICES ASSUME NEW d \in Dirs, where[d] \in Folders, New(d) PROVE New(d)'
    BY <1>1, <1>2, <1>5, <1>8 DEF FoldersKnown
  <2>1. ~HasNode(d)' /\ (Queues(Made(where[d])) \/ Queues(To(where[d])))
    BY <1>2, <1>5 DEF New, Scans
  <2>2. CASE where[d] = p
    BY <1>1, <1>9, <2>1, <2>2 DEF New, Scans
  <2>3. CASE where[d] # p
    <3>1. In(events', Made(where[d])) \/ In(events', To(where[d]))
      BY <1>2, <1>7, <2>1, <2>3
    <3> QED
      BY <1>1, <2>1, <3>1 DEF New, Queues, In, Made, To
  <2> QED
    BY <2>2, <2>3
<1>11. MovesKnown'
  <2>1. \A a \in Folders : Queues(From(a))' \/ prev'.name = a =>
          a \in used' /\ \A d \in Dirs : where'[d] # a
    BY <1>1, <1>2 DEF MovesKnown
  <2>2. \A r \in Folders : Queues(Made(r))' => r \in used'
    BY <1>1, <1>2 DEF MovesKnown
  <2>3. ASSUME NEW d \in Dirs, where[d] \in Folders, Queues(To(where[d]))'
        PROVE  ~HasNode(d)' /\ Empty(d)' /\ ~Queues(Made(where[d]))' /\ ~Scans(where[d])'
    <3>1. In(events', To(where[d]))
      BY <1>1, <2>3 DEF Queues, In, To
    <3>2. Queues(To(where[d]))
      BY <1>2, <3>1
    <3>3. ~HasNode(d) /\ Empty(d) /\ ~Queues(Made(where[d]))
      BY <1>2, <1>8, <2>3, <3>2 DEF MovesKnown
    <3>4. ~In(events', Made(where[d])) /\ where[d] # p
      BY <1>2, <3>3
    <3>5. ~Scans(where[d])'
      <4>1. pc' = "read" \/ scan'.to = p
        BY <1>2, <1>3
      <4> QED
        BY <1>1, <3>4, <4>1 DEF Scans
    <3> QED
      BY <1>1, <1>5, <3>3, <3>4, <3>5 DEF Empty, Queues, In, Made
  <2> QED
    BY <1>1, <1>2, <2>1, <2>2, <2>3 DEF MovesKnown
<1>12. NodesRight'
  BY <1>1, <1>2, NodesRightKept
<1>13. ScanRight'
  <2>1. CASE pc' = "read"
    BY <2>1 DEF ScanRight, Reading, Moving
  <2>2. CASE pc' # "read"
    <3>1. PICK d \in InodeAt(p) : scan' = [dir |-> d, from |-> Nowhere, to |-> p, seen |-> {}]
      BY <1>2, <1>3, <2>2
    <3> HIDE DEF p
    <3>2. /\ d \in Dirs /\ where'[d] = p /\ \A e \in Dirs : where[e] = p => e = d
          /\ scan'.dir = d /\ scan'.from = Nowhere /\ scan'.to = p /\ scan'.seen = {}
          /\ scan'.to \in used' /\ scan'.dir <= Root + made'
      BY <1>1, <1>2, <3>1, ScanFound
    <3> QED
      BY <1>1, <1>4, <3>2 DEF ScanRight
  <2> QED
    BY <2>1, <2>2
<1> QED
  BY <1>5, <1>6, <1>10, <1>11, <1>12, <1>13 DEF Steady

LEMMA FolderMovedFromSteady ==
  ASSUME Typed, Resolved, Steady, FolderMovedFrom
  PROVE  Steady'
<1>1. /\ Take("moved_from", TRUE) /\ "moved_from" \in Kinds
      /\ UNCHANGED <<where, watched, used, made, files, writers, nodes>>
      /\ UNCHANGED <<hasty, fresh, db, created, scan, pc>>
      /\ prev' = [wd |-> Head(events).wd, name |-> Name]
  BY DEF FolderMovedFrom, fs, rows, Kinds
<1>2. /\ pc = "read" /\ events[1] = From(Name) /\ Name \in Folders
      /\ \A x : Queues(x) <=> x = events[1] \/ In(events', x)
      /\ OneMove(events')
      /\ \A r : /\ Queues(Made(r))' <=> In(events', Made(r))
                /\ Queues(To(r))' <=> In(events', To(r))
                /\ Queues(From(r))' <=> In(events', From(r))
      /\ ~Moving /\ events \in Seq(Queued) /\ events # <<>> /\ events' = Tail(events)
      /\ FoldersKnown /\ MovesKnown /\ NodesRight /\ RowsKnown
  BY <1>1, LandTaken DEF From
<1>3. pc' = "read" /\ ~Moving' /\ ~Reading' /\ prev' = [wd |-> Root, name |-> Name]
  <2>1. Head(events).wd = Root
    BY <1>1, FolderTaken
  <2> QED
    BY <1>1, <1>2, <2>1 DEF Moving, Reading
<1>4. /\ \A d, q : NodeOf(d, q)' <=> NodeOf(d, q)
      /\ \A d : HasNode(d)' => HasNode(d) /\ \A q : NodeOf(d, q) => NodeOf(d, q)'
      /\ \A d : HasNode(d)' <=> HasNode(d)
      /\ RowsKnown'
  BY <1>1, <1>2, <1>3, NodesStay
<1>5. FilesRight'
  BY <1>1, <1>3, <1>4, FilesLeftAlone
<1>6. \A r : events[1] # To(r) /\ events[1] # Made(r) /\ (events[1] = From(r) => r = Name)
  BY <1>2, KindsDiffer DEF Made
<1>7. ASSUME NEW d \in Dirs, NEW a \in Folders, Renamed(d, a) PROVE Renamed(d, a)'
  <2>1. events # <<To(where[d])>>
    BY <1>6
  <2>2. events = <<From(a), To(where[d])>> /\ NodeOf(d, a) /\ a # where[d]
    BY <1>2, <1>7, <2>1 DEF Renamed
  <2>3. a = Name
    BY <1>6, <2>2
  <2>4. events' = <<To(where[d])>>
    BY <1>2, <2>2
  <2>5. NodeOf(d, a)' /\ To(where[d])' = To(where[d])
    BY <1>1, <2>2 DEF To, NodeOf
  <2>6. events' = <<To(where'[d])>>
    BY <1>1, <2>4
  <2> QED
    BY <1>1, <1>3, <2>2, <2>3, <2>5, <2>6 DEF Renamed, To
<1>8. FoldersKnown'
  <2> SUFFICES ASSUME NEW d \in Dirs, where[d] \in Folders, New(d) PROVE New(d)'
    BY <1>1, <1>2, <1>4, <1>7 DEF FoldersKnown
  <2>1. ~HasNode(d)' /\ (Queues(Made(where[d])) \/ Queues(To(where[d])))
    BY <1>2, <1>4 DEF New, Scans
  <2>2. In(events', Made(where[d])) \/ In(events', To(where[d]))
    BY <1>2, <1>6, <2>1
  <2> QED
    BY <1>1, <2>1, <2>2 DEF New, Queues, In, Made, To
<1>9. MovesKnown'
  <2>1. ASSUME NEW a \in Folders, Queues(From(a))' \/ prev'.name = a
        PROVE  a \in used' /\ \A d \in Dirs : where'[d] # a
    <3>1. Queues(From(a))
      BY <1>2, <1>3, <2>1
    <3> QED
      BY <1>1, <1>2, <3>1 DEF MovesKnown
  <2>2. \A r \in Folders : Queues(Made(r))' => r \in used'
    BY <1>1, <1>2 DEF MovesKnown
  <2>3. ASSUME NEW d \in Dirs, where[d] \in Folders, Queues(To(where[d]))'
        PROVE  \/ \E a \in Folders : Renamed(d, a)'
               \/ ~HasNode(d)' /\ Empty(d)' /\ ~Queues(Made(where[d]))' /\ ~Scans(where[d])'
    <3>1. In(events', To(where[d]))
      BY <1>1, <2>3 DEF Queues, In, To
    <3>2. Queues(To(where[d]))
      BY <1>2, <3>1
    <3>3. CASE \E a \in Folders : Renamed(d, a)
      BY <1>7, <3>3
    <3>4. CASE ~HasNode(d) /\ Empty(d) /\ ~Queues(Made(where[d]))
      <4>1. ~In(events', Made(where[d]))
        BY <1>2, <3>4
      <4>2. ~Scans(where[d])'
        BY <1>3 DEF Scans
      <4> QED
        BY <1>1, <1>4, <3>4, <4>1, <4>2 DEF Empty, Queues, In, Made
    <3> QED
      BY <1>2, <2>3, <3>2, <3>3, <3>4 DEF MovesKnown
  <2> QED
    BY <1>1, <1>2, <2>1, <2>2, <2>3 DEF MovesKnown
<1>10. NodesRight'
  BY <1>1, <1>2, NodesRightKept
<1>11. ScanRight'
  BY <1>3 DEF ScanRight, Reading, Moving
<1> QED
  BY <1>4, <1>5, <1>8, <1>9, <1>10, <1>11 DEF Steady

LEMMA FolderMovedToSteady ==
  ASSUME Typed, Resolved, Steady, FolderMovedTo
  PROVE  Steady'
<1>1. /\ Take("moved_to", TRUE) /\ "moved_to" \in Kinds
      /\ UNCHANGED <<where, watched, used, made, files, writers, nodes>>
      /\ UNCHANGED <<hasty, fresh, db, created>>
      /\ prev' = [prev EXCEPT !.wd = 0]
  BY DEF FolderMovedTo, fs, rows, Kinds
<1> DEFINE p == Name
           a0 == Subfolder(FolderOf(prev.wd), prev.name)
<1>2. /\ pc = "read" /\ events[1] = To(p) /\ p \in Folders /\ Subfolder(Here, Name) = p
      /\ \A x : Queues(x) <=> x = events[1] \/ In(events', x)
      /\ OneMove(events')
      /\ \A r \in Folders : ~In(events', To(r))
      /\ \A r : /\ Queues(Made(r))' <=> In(events', Made(r))
                /\ Queues(To(r))' <=> In(events', To(r))
                /\ Queues(From(r))' <=> In(events', From(r))
      /\ ~Moving /\ events \in Seq(Queued) /\ events # <<>> /\ events' = Tail(events)
      /\ FoldersKnown /\ MovesKnown /\ NodesRight /\ RowsKnown
  BY <1>1, LandTaken DEF To
<1>3. \/ InodeAt(p) = {} /\ UNCHANGED <<scan, pc>>
      \/ \E d \in InodeAt(p) :
           /\ scan' = [dir |-> d, from |-> a0, to |-> p, seen |-> {}]
           /\ pc' = "rename"
  BY <1>2 DEF FolderMovedTo
<1>4. pc' \notin {"entries", "moves"} /\ ~Moving' /\ ~Reading' /\ pc' # "watch"
  BY <1>2, <1>3 DEF Moving, Reading
<1>5. /\ \A d, q : NodeOf(d, q)' <=> NodeOf(d, q)
      /\ \A d : HasNode(d)' => HasNode(d) /\ \A q : NodeOf(d, q) => NodeOf(d, q)'
      /\ \A d : HasNode(d)' <=> HasNode(d)
      /\ RowsKnown'
  BY <1>1, <1>2, <1>4, NodesStay
<1>6. FilesRight'
  BY <1>1, <1>4, <1>5, FilesLeftAlone
<1>7. \A r : events[1] # Made(r) /\ events[1] # From(r) /\ (events[1] = To(r) => r = p)
  BY <1>2, KindsDiffer DEF Made
<1>8. \A d \in Dirs : where[d] = p =>
        /\ pc' = "rename" /\ scan'.to = where[d] /\ scan'.dir = d /\ scan'.from = a0
  <2> SUFFICES ASSUME NEW d \in Dirs, where[d] = p
               PROVE  /\ pc' = "rename" /\ scan'.to = where[d] /\ scan'.dir = d
                      /\ scan'.from = a0
    OBVIOUS
  <2>1. d \in InodeAt(p)
    BY <1>2, InotifyAssumption DEF InodeAt, InotifyAssumption
  <2>2. PICK e \in InodeAt(p) : /\ scan' = [dir |-> e, from |-> a0, to |-> p, seen |-> {}]
                                /\ pc' = "rename"
    BY <1>3, <2>1
  <2>3. e = d
    BY <1>2, <2>1, <2>2, Grounds DEF InodeAt, Apart, Paths
  <2> QED
    BY <2>2, <2>3
<1>9. ASSUME NEW d \in Dirs, NEW a \in Folders, Renamed(d, a)
      PROVE  Renamed(d, a)' /\ where[d] = p /\ a0 = a
  <2>1. events # <<From(a), To(where[d])>>
    BY <1>7
  <2>2. /\ events = <<To(where[d])>> /\ prev = [wd |-> Root, name |-> a]
        /\ NodeOf(d, a) /\ a # where[d]
    BY <1>2, <1>9, <2>1 DEF Renamed
  <2>3. where[d] = p
    BY <1>7, <2>2
  <2>4. a0 = a
    <3>1. FolderOf(Root) = RootPath
      BY <1>2, FolderOfFacts
    <3> QED
      BY <2>2, <3>1 DEF Subfolder
  <2>5. events' = <<>>
    BY <1>2, <2>2
  <2> HIDE DEF p, a0
  <2>6. pc' = "rename" /\ scan'.from = a /\ scan'.to = where'[d] /\ scan'.dir = d
    BY <1>1, <1>8, <2>3, <2>4
  <2>7. NodeOf(d, a)'
    BY <1>5, <2>2
  <2> QED
    BY <1>1, <2>2, <2>3, <2>4, <2>5, <2>6, <2>7 DEF Renamed
<1>10. FoldersKnown'
  <2> SUFFICES ASSUME NEW d \in Dirs, where[d] \in Folders, New(d) PROVE New(d)'
    BY <1>1, <1>2, <1>5, <1>9 DEF FoldersKnown
  <2>1. ~HasNode(d)' /\ (Queues(Made(where[d])) \/ Queues(To(where[d])))
    BY <1>2, <1>5 DEF New, Scans
  <2>2. CASE where[d] = p
    BY <1>1, <1>8, <2>1, <2>2 DEF New, Scans
  <2>3. CASE where[d] # p
    <3>1. In(events', Made(where[d])) \/ In(events', To(where[d]))
      BY <1>2, <1>7, <2>1, <2>3
    <3> QED
      BY <1>1, <2>1, <3>1 DEF New, Queues, In, Made, To
  <2> QED
    BY <2>2, <2>3
<1>11. MovesKnown'
  <2>1. ASSUME NEW a \in Folders, Queues(From(a))' \/ prev'.name = a
        PROVE  a \in used' /\ \A d \in Dirs : where'[d] # a
    <3>1. prev'.name = prev.name
      BY <1>1 DEF Typed, ThreadTyped
    <3> QED
      BY <1>1, <1>2, <2>1, <3>1 DEF MovesKnown
  <2>2. \A r \in Folders : Queues(Made(r))' => r \in used'
    BY <1>1, <1>2 DEF MovesKnown
  <2>3. \A d \in Dirs : where[d] \in Folders => ~Queues(To(where[d]))'
    BY <1>1, <1>2 DEF Queues, In, To
  <2> QED
    BY <1>1, <1>2, <2>1, <2>2, <2>3 DEF MovesKnown
<1>12. NodesRight'
  BY <1>1, <1>2, NodesRightKept
<1>13. ScanRight'
  <2>1. CASE pc' = "read"
    BY <2>1 DEF ScanRight, Reading, Moving
  <2>2. CASE pc' # "read"
    <3>1. PICK d \in InodeAt(p) : scan' = [dir |-> d, from |-> a0, to |-> p, seen |-> {}]
      BY <1>2, <1>3, <2>2
    <3>2. a0 # p
      <4>1. a0 = prev.name \/ a0 = Nowhere
        BY DEF Subfolder
      <4>2. where[d] = p
        BY <3>1 DEF InodeAt
      <4>3. prev.name = p => \A e \in Dirs : where[e] # p
        BY <1>2 DEF MovesKnown
      <4> QED
        BY <1>2, <3>1, <4>1, <4>2, <4>3, InotifyAssumption DEF InodeAt, InotifyAssumption
    <3> HIDE DEF p, a0
    <3>3. /\ d \in Dirs /\ where[d] = p /\ where'[d] = p /\ \A e \in Dirs : where[e] = p => e = d
          /\ scan'.dir = d /\ scan'.from = a0 /\ scan'.to = p /\ scan'.seen = {}
          /\ scan'.to \in used' /\ scan'.dir <= Root + made'
      BY <1>1, <1>2, <3>1, ScanFound
    <3>4. Queues(To(p))
      BY <1>2
    <3>5. \/ \E a \in Folders : Renamed(d, a)
          \/ ~HasNode(d) /\ Empty(d)
      BY <1>2, <3>3, <3>4 DEF MovesKnown
    <3>6. \/ \E a \in Folders : a = a0 /\ Renamed(d, a)'
          \/ ~HasNode(d)' /\ Empty(d)'
      BY <1>1, <1>5, <1>9, <3>3, <3>5 DEF Empty
    <3>7. pc' = "rename"
      BY <1>2, <1>3, <2>2
    <3>8. \/ Renamed(scan.dir, scan.from)'
          \/ ~HasNode(scan.dir)' /\ Empty(scan.dir)'
      <4>1. CASE \E a \in Folders : a = a0 /\ Renamed(d, a)'
        <5>1. PICK a \in Folders : a = a0 /\ Renamed(d, a)'
          BY <4>1
        <5>2. scan'.dir = d /\ scan'.from = a
          BY <3>3, <5>1
        <5> QED
          BY <5>1, <5>2 DEF Renamed, NodeOf
      <4>2. CASE ~HasNode(d)' /\ Empty(d)'
        BY <3>3, <4>2 DEF HasNode, Empty
      <4> QED
        BY <3>6, <4>1, <4>2
    <3> QED
      BY <1>1, <1>4, <3>2, <3>3, <3>7, <3>8 DEF ScanRight
  <2> QED
    BY <2>1, <2>2
<1> QED
  BY <1>5, <1>6, <1>10, <1>11, <1>12, <1>13 DEF Steady

(* Unlinking the node of a path takes that node away and no other.         *)
LEMMA Unlinked ==
  ASSUME Typed, Resolved, NodesRight, NEW p \in Folders, nodes' = WatchRemoved(p)
  PROVE  /\ \A d, q : NodeOf(d, q)' => NodeOf(d, q)
         /\ \A d, q : NodeOf(d, q) /\ ~NodeOf(d, q)' => q = p
         /\ \A d : HasNode(d)' => HasNode(d) /\ \A q : NodeOf(d, q) => NodeOf(d, q)'
         /\ \A i, j \in DOMAIN nodes' : nodes'[i].wd = nodes'[j].wd => i = j
<1>1. pc # "exited"
  BY Grounds
<1>2. /\ nodes \in Seq(Node) /\ Len(nodes) \in Nat /\ DOMAIN nodes = 1..Len(nodes)
      /\ \A i, j \in DOMAIN nodes : nodes[i].wd = nodes[j].wd => i = j
  BY <1>1, NodeFacts DEF NodesRight
<1>3. CASE nodes' = nodes
  BY <1>2, <1>3 DEF NodeOf, HasNode
<1>4. CASE \E h \in DOMAIN nodes :
             /\ nodes[h].path = p /\ h # 1
             /\ nodes' \in Seq(Node) /\ Len(nodes') = Len(nodes) - 1
             /\ \A i \in 1..Len(nodes') : nodes'[i] = IF i < h THEN nodes[i] ELSE nodes[i + 1]
  <2>1. PICK h \in DOMAIN nodes :
             /\ nodes[h].path = p
             /\ nodes' \in Seq(Node) /\ Len(nodes') = Len(nodes) - 1
             /\ \A i \in 1..Len(nodes') : nodes'[i] = IF i < h THEN nodes[i] ELSE nodes[i + 1]
    BY <1>4
  <2> DEFINE m == nodes'
             n == Len(nodes)
             at(i) == IF i < h THEN i ELSE i + 1
  <2>2. DOMAIN m = 1..(n - 1) /\ n \in Nat /\ h \in 1..n
    BY <1>2, <2>1
  <2>3. \A i \in DOMAIN m : at(i) \in 1..n /\ at(i) # h /\ m[i] = nodes[at(i)]
    BY <2>1, <2>2
  <2>4. \A i, j \in DOMAIN m : at(i) = at(j) => i = j
    BY <2>2
  <2>5. \A i \in 1..n : i # h => \E j \in DOMAIN m : at(j) = i
    <3> SUFFICES ASSUME NEW i \in 1..n, i # h PROVE \E j \in DOMAIN m : at(j) = i
      OBVIOUS
    <3>1. CASE i < h
      BY <2>2, <3>1
    <3>2. CASE i > h
      <4>1. i - 1 \in DOMAIN m /\ at(i - 1) = i
        BY <2>2, <3>2
      <4> QED
        BY <4>1
    <3> QED
      BY <2>2, <3>1, <3>2
  <2> HIDE DEF at
  <2>6. \A d, q : NodeOf(d, q)' => NodeOf(d, q)
    BY <1>2, <2>3 DEF NodeOf
  <2>7. ASSUME NEW d, NEW q, NodeOf(d, q), ~NodeOf(d, q)' PROVE nodes[h] = [wd |-> d, path |-> q]
    <3>1. PICK i \in 1..n : nodes[i] = [wd |-> d, path |-> q]
      BY <1>2, <2>7 DEF NodeOf
    <3>2. i = h
      <4>1. CASE i # h
        <5>1. PICK j \in DOMAIN m : at(j) = i
          BY <2>5, <4>1
        <5>2. m[j] = [wd |-> d, path |-> q]
          BY <2>3, <3>1, <5>1
        <5> QED
          BY <2>7, <5>2 DEF NodeOf
      <4> QED
        BY <4>1
    <3> QED
      BY <3>1, <3>2
  <2>8. ASSUME NEW d, HasNode(d)' PROVE HasNode(d) /\ \A q : NodeOf(d, q) => NodeOf(d, q)'
    <3>1. PICK i \in DOMAIN m : m[i].wd = d
      BY <2>8 DEF HasNode
    <3>2. at(i) \in 1..n /\ at(i) # h /\ nodes[at(i)].wd = d
      BY <2>3, <3>1
    <3>3. nodes[h].wd # d
      BY <1>2, <2>2, <3>2
    <3> QED
      BY <1>2, <2>7, <3>2, <3>3 DEF HasNode
  <2>9. \A i, j \in DOMAIN m : m[i].wd = m[j].wd => i = j
    BY <1>2, <2>3, <2>4
  <2>10. \A d, q : NodeOf(d, q) /\ ~NodeOf(d, q)' => q = p
    BY <2>1, <2>7
  <2> QED
    BY <2>6, <2>8, <2>9, <2>10
<1> QED
  BY <1>1, <1>3, <1>4, WatchUnlisted

LEMMA FolderDeletedSteady ==
  ASSUME Typed, Resolved, Steady, FolderDeleted
  PROVE  Steady'
<1>1. /\ Take("delete", TRUE) /\ "delete" \in Kinds
      /\ UNCHANGED <<where, watched, used, made, files, writers>>
      /\ UNCHANGED <<hasty, fresh, db, created, prev, scan, pc>>
      /\ nodes' = WatchRemoved(Subfolder(Here, Name))
  BY DEF FolderDeleted, fs, rows, Kinds
<1>2. /\ pc = "read" /\ events[1] = Deleted(Name) /\ Name \in Folders
      /\ Subfolder(Here, Name) = Name
      /\ \A x : Queues(x) <=> x = events[1] \/ In(events', x)
      /\ OneMove(events')
      /\ \A r : /\ Queues(Made(r))' <=> In(events', Made(r))
                /\ Queues(To(r))' <=> In(events', To(r))
                /\ Queues(From(r))' <=> In(events', From(r))
      /\ ~Moving /\ events \in Seq(Queued) /\ events # <<>> /\ events' = Tail(events)
      /\ FoldersKnown /\ MovesKnown /\ NodesRight /\ RowsKnown
  BY <1>1, LandTaken DEF Deleted
<1>3. pc' = "read" /\ ~Moving' /\ ~Reading'
  BY <1>1, <1>2 DEF Moving, Reading
<1>4. /\ \A d, q : NodeOf(d, q)' => NodeOf(d, q)
      /\ \A d, q : NodeOf(d, q) /\ ~NodeOf(d, q)' => q = Name
      /\ \A d : HasNode(d)' => HasNode(d) /\ \A q : NodeOf(d, q) => NodeOf(d, q)'
      /\ \A i, j \in DOMAIN nodes' : nodes'[i].wd = nodes'[j].wd => i = j
  BY <1>1, <1>2, Unlinked
<1>5. FilesRight'
  BY <1>1, <1>3, <1>4, FilesLeftAlone
<1>6. \A r : events[1] # To(r) /\ events[1] # Made(r) /\ events[1] # From(r)
  BY <1>2, KindsDiffer DEF Made, Deleted, Event
<1>7. ASSUME NEW d, NEW a PROVE ~Renamed(d, a)
  <2>1. events # <<From(a), To(where[d])>> /\ events # <<To(where[d])>>
    BY <1>6
  <2> QED
    BY <1>2, <2>1 DEF Renamed
<1>8. ASSUME NEW d, NEW q, NodeOf(d, q), ~NodeOf(d, q)'
      PROVE  d \in Dirs /\ where[d] = Nowhere /\ \A i \in DOMAIN events : events[i].wd # d
  <2>1. q = Name /\ d \in Dirs
    BY <1>4, <1>8, Grounds DEF Listed
  <2>2. 1 \in DOMAIN events /\ \A i \in DOMAIN events : 1 <= i
    BY <1>2
  <2> QED
    BY <1>2, <1>8, <2>1, <2>2, Grounds DEF Heeded
<1>9. FoldersKnown'
  <2> SUFFICES ASSUME NEW d \in Dirs, where[d] \in Folders PROVE New(d)' \/ NodeOf(d, where[d])'
    BY <1>1 DEF FoldersKnown
  <2>1. CASE NodeOf(d, where[d])
    <3>1. PICK q \in Folders : q = where[d]
      OBVIOUS
    <3>2. NodeOf(d, q)'
      BY <1>8, <2>1, <3>1, InotifyAssumption DEF InotifyAssumption
    <3>3. where'[d] = q
      BY <1>1, <3>1
    <3> QED
      BY <3>2, <3>3 DEF NodeOf
  <2>2. CASE New(d)
    <3>1. ~HasNode(d)' /\ (Queues(Made(where[d])) \/ Queues(To(where[d])))
      BY <1>2, <1>4, <2>2 DEF New, Scans
    <3>2. In(events', Made(where[d])) \/ In(events', To(where[d]))
      BY <1>2, <1>6, <3>1
    <3> QED
      BY <1>1, <3>1, <3>2 DEF New, Queues, In, Made, To
  <2> QED
    BY <1>2, <1>7, <2>1, <2>2 DEF FoldersKnown
<1>10. MovesKnown'
  <2>1. ASSUME NEW a \in Folders, Queues(From(a))' \/ prev'.name = a
        PROVE  a \in used' /\ \A d \in Dirs : where'[d] # a
    BY <1>1, <1>2, <2>1 DEF MovesKnown
  <2>2. \A r \in Folders : Queues(Made(r))' => r \in used'
    BY <1>1, <1>2 DEF MovesKnown
  <2>3. ASSUME NEW d \in Dirs, where[d] \in Folders, Queues(To(where[d]))'
        PROVE  ~HasNode(d)' /\ Empty(d)' /\ ~Queues(Made(where[d]))' /\ ~Scans(where[d])'
    <3>1. In(events', To(where[d]))
      BY <1>1, <2>3 DEF Queues, In, To
    <3>2. Queues(To(where[d]))
      BY <1>2, <3>1
    <3>3. ~HasNode(d) /\ Empty(d) /\ ~Queues(Made(where[d]))
      BY <1>2, <1>7, <2>3, <3>2 DEF MovesKnown
    <3>4. ~In(events', Made(where[d])) /\ ~Scans(where[d])'
      BY <1>2, <1>3, <3>3 DEF Scans
    <3> QED
      BY <1>1, <1>4, <3>3, <3>4 DEF Empty, Queues, In, Made
  <2> QED
    BY <1>1, <1>2, <2>1, <2>2, <2>3 DEF MovesKnown
<1>11. NodesRight'
  <2>1. \A d \in Dirs : HasNode(d)' /\ Exists(d)' => d \in watched'
    BY <1>1, <1>2, <1>4 DEF NodesRight, Exists
  <2>2. ASSUME NEW d \in Dirs, ~HasNode(d)', where[d] \in Folders \/ d > Root + made,
               NEW n \in Names
        PROVE  created[<<d, n>>] = 0
    <3>1. CASE HasNode(d)
      <4>1. PICK q \in Paths : NodeOf(d, q)
        BY <3>1, Grounds DEF Listed
      <4>2. ~NodeOf(d, q)'
        BY <2>2 DEF NodeOf, HasNode
      <4>3. where[d] = Nowhere /\ ~(d > Root + made)
        BY <1>8, <4>1, <4>2, Grounds DEF Listed
      <4> QED
        BY <2>2, <4>3, InotifyAssumption DEF InotifyAssumption
    <3>2. CASE ~HasNode(d)
      BY <1>2, <2>2, <3>2 DEF NodesRight
    <3> QED
      BY <3>1, <3>2
  <2>3. \A k \in files' \cup writers' : Exists(k[1])'
    BY <1>1, <1>2 DEF NodesRight, Exists
  <2> QED
    BY <1>1, <1>4, <2>1, <2>2, <2>3 DEF NodesRight
<1>12. ScanRight'
  BY <1>3 DEF ScanRight, Reading, Moving
<1>13. RowsKnown'
  <2> SUFFICES ASSUME NEW q \in Paths, NEW n \in Names, <<q, n>> \in db
               PROVE  \E d \in Dirs : NodeOf(d, q)'
    BY <1>1 DEF RowsKnown
  <2>1. PICK d \in Dirs : NodeOf(d, q)
    BY <1>2 DEF RowsKnown
  <2>2. ASSUME ~NodeOf(d, q)' PROVE FALSE
    <3> DEFINE k == <<d, n>>
    <3>1. where[d] = Nowhere /\ \A i \in DOMAIN events : events[i].wd # d
      BY <1>8, <2>1, <2>2
    <3>2. k \in Files /\ k \in Shown /\ HasNode(k[1])
      BY <1>2, <2>1, ShownPlain, Grounds DEF Files, Listed
    <3>3. k \notin Inside
      BY <3>1, InotifyAssumption DEF Inside, Paths, InotifyAssumption
    <3>4. ~NoRemoval(events, k)
      <4>1. Story(events, created, k, Inside, Opened, hasty, fresh, Shown, ToRead)
        BY <3>2 DEF Steady, FilesRight, FileRight
      <4> QED
        BY <3>2, <3>3, <4>1 DEF Story
    <3>5. PICK i \in 1..Len(events) : events[i] \in Removing(k)
      BY <3>4 DEF NoRemoval, NoneOf
    <3>6. events[i].wd = d
      BY <3>5 DEF Removing, Of, Event
    <3> QED
      BY <1>2, <3>1, <3>5, <3>6
  <2> QED
    BY <2>1, <2>2
<1> QED
  BY <1>5, <1>9, <1>10, <1>11, <1>12, <1>13 DEF Steady

LEMMA NodePut ==
  ASSUME NEW q \in Seq(Node), NEW x \in Node
  PROVE  /\ Append(q, x) # q
         /\ \A y : In(Append(q, x), y) <=> In(q, y) \/ x = y
         /\ \A d : (\E i \in DOMAIN Append(q, x) : Append(q, x)[i].wd = d)
                   <=> (\E i \in DOMAIN q : q[i].wd = d) \/ x.wd = d
<1> DEFINE t == Append(q, x)
           n == Len(q)
<1>1. /\ n \in Nat /\ DOMAIN q = 1..n /\ DOMAIN t = 1..(n + 1) /\ Len(t) = n + 1
      /\ t[n + 1] = x /\ \A i \in 1..n : t[i] = q[i]
  OBVIOUS
<1> HIDE DEF t, n
<1>2. t # q
  BY <1>1 DEF n
<1>3. \A y : In(t, y) <=> In(q, y) \/ x = y
  BY InPut DEF t
<1>4. \A d : (\E i \in DOMAIN t : t[i].wd = d) <=> (\E i \in DOMAIN q : q[i].wd = d) \/ x.wd = d
  <2> SUFFICES ASSUME NEW d
               PROVE  (\E i \in DOMAIN t : t[i].wd = d)
                        <=> (\E i \in DOMAIN q : q[i].wd = d) \/ x.wd = d
    OBVIOUS
  <2>1. ASSUME NEW i \in DOMAIN t, t[i].wd = d PROVE (\E j \in DOMAIN q : q[j].wd = d) \/ x.wd = d
    BY <1>1, <2>1
  <2>2. ASSUME NEW i \in DOMAIN q, q[i].wd = d PROVE \E j \in DOMAIN t : t[j].wd = d
    BY <1>1, <2>2
  <2>3. ASSUME x.wd = d PROVE \E j \in DOMAIN t : t[j].wd = d
    BY <1>1, <2>3
  <2> QED
    BY <2>1, <2>2, <2>3
<1> QED
  BY <1>2, <1>3, <1>4 DEF t

(* A watch is added for the folder that is about to be read.               *)
LEMMA Watching ==
  ASSUME Typed, Resolved, Steady, pc \in {"watch", "rename"}, AddWatch(scan.to),
         \A d \in Dirs, a \in Folders : ~Renamed(d, a)
  PROVE  /\ scan.dir \in Dirs /\ scan.to \in Folders
         /\ \/ /\ UNCHANGED <<nodes, watched>>
               /\ where[scan.dir] = scan.to => NodeOf(scan.dir, scan.to)
            \/ /\ nodes' = Append(nodes, [wd |-> scan.dir, path |-> scan.to])
               /\ watched' = watched \cup {scan.dir} /\ where[scan.dir] = scan.to
               /\ ~HasNode(scan.dir) /\ \A d : ~NodeOf(d, scan.to)
         /\ \A d, q : NodeOf(d, q) => HasNode(d)
         /\ \A d, q : NodeOf(d, q)' <=> \/ NodeOf(d, q)
                                        \/ nodes' # nodes /\ d = scan.dir /\ q = scan.to
         /\ \A d : HasNode(d)' <=> HasNode(d) \/ (nodes' # nodes /\ d = scan.dir)
<1> DEFINE D == scan.dir
           P == scan.to
<1>1. /\ D \in Dirs /\ P \in Folders /\ \A d \in Dirs : where[d] = P => d = D
      /\ nodes \in Seq(Node)
  BY DEF Typed, ThreadTyped, NodesTyped, Steady, ScanRight
<1>2. P \in Paths /\ P # Nowhere
  BY <1>1, InotifyAssumption DEF Paths, InotifyAssumption
<1>3. \A d, q : NodeOf(d, q) => HasNode(d)
  BY Grounds DEF Listed
<1>4. CASE (\E i \in DOMAIN nodes : nodes[i].path = P) \/ InodeAt(P) = {}
  <2>1. UNCHANGED <<nodes, watched>>
    BY <1>4 DEF AddWatch
  <2>2. ASSUME where[D] = P PROVE NodeOf(D, P)
    <3>1. D \in InodeAt(P)
      BY <1>1, <1>2, <2>2 DEF InodeAt
    <3>2. PICK i \in DOMAIN nodes : nodes[i].path = P
      BY <1>4, <3>1
    <3>3. nodes[i] \in Node
      BY <1>1
    <3>4. PICK e \in Dirs : nodes[i] = [wd |-> e, path |-> P]
      BY <3>2, <3>3 DEF Node
    <3>5. NodeOf(e, P)
      BY <3>4 DEF NodeOf
    <3> QED
      BY <1>1, <1>2, <2>2, <3>5, Grounds DEF Apart
  <2>3. /\ \A d, q : NodeOf(d, q)' <=> NodeOf(d, q)
        /\ \A d : HasNode(d)' <=> HasNode(d)
    BY <2>1, NodesUnchanged
  <2> QED
    BY <1>1, <1>3, <2>1, <2>2, <2>3
<1>5. CASE ~(\E i \in DOMAIN nodes : nodes[i].path = P) /\ InodeAt(P) # {}
  <2>1. PICK d \in InodeAt(P) : /\ nodes' = Append(nodes, [wd |-> d, path |-> P])
                                /\ watched' = watched \cup {d}
    BY <1>5 DEF AddWatch
  <2>2. d = D /\ where[D] = P
    BY <1>1, <2>1 DEF InodeAt
  <2>3. \A e : ~NodeOf(e, P)
    BY <1>5 DEF NodeOf
  <2>4. ~HasNode(D)
    BY <1>1, <2>2, <2>3 DEF Steady, FoldersKnown, New
  <2> DEFINE x == [wd |-> D, path |-> P]
  <2>5. /\ nodes' = Append(nodes, x) /\ x \in Node /\ x.wd = D
    BY <1>1, <1>2, <2>1, <2>2 DEF Node
  <2> HIDE DEF x
  <2>6. nodes' # nodes
    BY <1>1, <2>5, NodePut
  <2>7. \A e, q : NodeOf(e, q)' <=> NodeOf(e, q) \/ x = [wd |-> e, path |-> q]
    BY <1>1, <2>5, NodePut DEF NodeOf, In
  <2>8. \A e : HasNode(e)' <=> HasNode(e) \/ x.wd = e
    BY <1>1, <2>5, NodePut DEF HasNode
  <2>9. \A e, q : x = [wd |-> e, path |-> q] <=> e = D /\ q = P
    BY DEF x
  <2> QED
    BY <1>1, <1>3, <2>1, <2>2, <2>3, <2>4, <2>5, <2>6, <2>7, <2>8, <2>9
<1> QED
  BY <1>4, <1>5

(* The folder gets its node, and then its files are looked at.             *)
LEMMA WatchBegun ==
  ASSUME Typed, Resolved, Steady, AddWatch(scan.to),
         (pc = "watch" /\ pc' = "entries") \/ (pc = "rename" /\ pc' = "moves"),
         UNCHANGED <<where, files, writers, used, made, hasty, events, created, prev, scan,
                     fresh, db>>,
         \A d \in Dirs, a \in Folders : ~Renamed(d, a),
         pc = "rename" => /\ \A d : ~NodeOf(d, scan.from)
                          /\ ~HasNode(scan.dir) /\ Empty(scan.dir)
  PROVE  Steady'
<1> DEFINE D == scan.dir
           P == scan.to
<1>1. /\ D \in Dirs /\ P \in Folders /\ D <= Root + made /\ P \in used
      /\ \/ /\ UNCHANGED <<nodes, watched>>
            /\ where[D] = P => NodeOf(D, P)
         \/ /\ watched' = watched \cup {D} /\ where[D] = P
            /\ nodes' = Append(nodes, [wd |-> D, path |-> P])
            /\ ~HasNode(D) /\ \A d : ~NodeOf(d, P)
      /\ \A d, q : NodeOf(d, q)' <=> NodeOf(d, q) \/ (nodes' # nodes /\ d = D /\ q = P)
      /\ \A d : HasNode(d)' <=> HasNode(d) \/ (nodes' # nodes /\ d = D)
      /\ \A d, q : NodeOf(d, q) => HasNode(d)
      /\ \A d \in Dirs : where[d] = P => d = D
      /\ where[D] \in Paths \/ pc = "rename" => where[D] = P
      /\ pc = "watch" => scan.from = Nowhere
      /\ pc = "rename" => scan.from # P
      /\ scan.seen = {}
  BY Watching DEF Steady, ScanRight
<1>2. \/ /\ UNCHANGED <<nodes, watched>>
         /\ where[D] = P => NodeOf(D, P)
      \/ /\ watched' = watched \cup {D} /\ where[D] = P /\ nodes' # nodes
         /\ nodes' = Append(nodes, [wd |-> D, path |-> P])
         /\ ~HasNode(D) /\ \A d : ~NodeOf(d, P)
  <2>1. nodes \in Seq(Node) /\ [wd |-> D, path |-> P] \in Node
    BY <1>1 DEF Typed, ThreadTyped, NodesTyped, Node, Paths
  <2>2. Append(nodes, [wd |-> D, path |-> P]) # nodes
    BY <2>1, NodePut
  <2> QED
    BY <1>1, <2>2
<1>3. /\ P \in Paths /\ P # Nowhere /\ scan.from \in Folders \cup {Nowhere}
      /\ FoldersKnown /\ MovesKnown /\ NodesRight /\ RowsKnown
      /\ ~Moving /\ ~Reading
  BY <1>1, InotifyAssumption
    DEF Paths, InotifyAssumption, Steady, Moving, Reading, Typed, ThreadTyped
<1>4. \A d \in Dirs : where[d] \in Folders => HasNode(d) \/ New(d)
  BY <1>1, <1>3 DEF FoldersKnown
<1>5. where[D] = P => NodeOf(D, P)' /\ HasNode(D)'
  <2>1. PICK d \in Dirs, p \in Paths : d = D /\ p = P
    BY <1>1, <1>3
  <2>2. where[D] = P => NodeOf(d, p)' /\ HasNode(d)'
    BY <1>1, <1>2, <2>1
  <2> QED
    BY <2>1, <2>2 DEF NodeOf, HasNode
<1>6. FoldersKnown'
  <2> SUFFICES ASSUME NEW d \in Dirs, where[d] \in Folders
               PROVE  New(d)' \/ NodeOf(d, where[d])'
    BY DEF FoldersKnown
  <2>1. CASE NodeOf(d, where[d])
    <3>1. PICK q : q = where[d]
      OBVIOUS
    <3>2. NodeOf(d, q)'
      BY <1>1, <2>1, <3>1
    <3> QED
      BY <3>1, <3>2 DEF NodeOf
  <2>2. CASE New(d) /\ d = D
    <3>1. CASE where[D] = P
      BY <1>5, <2>2, <3>1 DEF NodeOf
    <3>2. CASE where[D] # P
      <4>1. FALSE
        BY <1>1, <2>2, <3>2 DEF Paths
      <4> QED
        BY <4>1
    <3> QED
      BY <3>1, <3>2
  <2>3. CASE New(d) /\ d # D
    <3>1. ~HasNode(d)' /\ where[d] # P
      BY <1>1, <2>3 DEF New
    <3>2. Queues(Made(where[d])) \/ Queues(To(where[d]))
      BY <2>3, <3>1 DEF New, Scans
    <3> QED
      BY <3>1, <3>2 DEF New, Queues, In, Made, To
  <2> QED
    BY <1>3, <2>1, <2>2, <2>3 DEF FoldersKnown
<1>7. MovesKnown'
  <2>1. \A a \in Folders : Queues(From(a))' \/ prev'.name = a =>
          a \in used' /\ \A d \in Dirs : where'[d] # a
    BY <1>3 DEF MovesKnown, Queues, In, From
  <2>2. \A r \in Folders : Queues(Made(r))' => r \in used'
    BY <1>3 DEF MovesKnown, Queues, In, Made
  <2>3. ASSUME NEW d \in Dirs, where[d] \in Folders, Queues(To(where[d]))'
        PROVE  ~HasNode(d)' /\ Empty(d)' /\ ~Queues(Made(where[d]))' /\ ~Scans(where[d])'
    <3>1. Queues(To(where[d]))
      BY <2>3 DEF Queues, In, To
    <3>2. ~HasNode(d) /\ Empty(d) /\ ~Queues(Made(where[d])) /\ ~Scans(where[d])
      BY <1>3, <2>3, <3>1 DEF MovesKnown
    <3>3. where[d] # P
      BY <3>2 DEF Scans
    <3>4. ~HasNode(d)'
      <4>1. d = D => UNCHANGED nodes
        BY <1>2, <3>3
      <4> QED
        BY <1>1, <3>2, <4>1
    <3> QED
      BY <3>2, <3>3, <3>4 DEF Empty, Queues, In, Made, Scans
  <2> QED
    BY <1>3, <2>1, <2>2, <2>3 DEF MovesKnown
<1>8. NodesRight'
  <2>1. \A i, j \in DOMAIN nodes' : nodes'[i].wd = nodes'[j].wd => i = j
    <3>1. CASE nodes' = nodes
      BY <1>3, <3>1 DEF NodesRight
    <3>2. CASE nodes' # nodes
      <4> DEFINE x == [wd |-> D, path |-> P]
                 t == Append(nodes, x)
      <4>1. nodes' = t /\ ~HasNode(D) /\ nodes \in Seq(Node) /\ x \in Node /\ x.wd = D
        BY <1>1, <1>2, <3>2 DEF Typed, ThreadTyped, NodesTyped, Node, Paths
      <4> HIDE DEF x
      <4>2. /\ DOMAIN t = 1..(Len(nodes) + 1) /\ Len(nodes) \in Nat /\ t[Len(nodes) + 1] = x
            /\ DOMAIN nodes = 1..Len(nodes)
            /\ \A i \in DOMAIN nodes : t[i] = nodes[i] /\ nodes[i].wd # x.wd
        BY <4>1 DEF HasNode
      <4> HIDE DEF t
      <4>3. \A i, j \in DOMAIN t : t[i].wd = t[j].wd => i = j
        BY <1>3, <4>2 DEF NodesRight
      <4> QED
        BY <4>1, <4>3
    <3> QED
      BY <3>1, <3>2
  <2>2. \A d \in Dirs : HasNode(d)' /\ Exists(d)' => d \in watched'
    <3> SUFFICES ASSUME NEW d \in Dirs, HasNode(d)', Exists(d) PROVE d \in watched'
      BY DEF Exists
    <3>1. HasNode(d) => d \in watched
      BY <1>3 DEF NodesRight
    <3> QED
      BY <1>1, <1>2, <3>1
  <2>3. \A d \in Dirs : ~HasNode(d)' /\ (where'[d] \in Folders \/ d > Root + made') =>
          \A n \in Names : created'[<<d, n>>] = 0
    BY <1>1, <1>3 DEF NodesRight
  <2>4. \A k \in files' \cup writers' : Exists(k[1])'
    BY <1>3 DEF NodesRight, Exists
  <2> QED
    BY <2>1, <2>2, <2>3, <2>4 DEF NodesRight
<1>9. ASSUME pc = "rename"
      PROVE  /\ where[D] = P /\ ~HasNode(D) /\ Empty(D) /\ nodes' # nodes
             /\ \A n \in Names : <<P, n>> \notin db
             /\ scan.from # Nowhere => /\ \A n \in Names : <<scan.from, n>> \notin db
                                      /\ \A d \in Dirs : ~NodeOf(d, scan.from)'
  <2>1. where[D] = P /\ ~HasNode(D) /\ Empty(D) /\ \A d : ~NodeOf(d, scan.from)
    BY <1>1, <1>9
  <2>2. nodes' # nodes /\ \A d : ~NodeOf(d, P)
    BY <1>1, <1>2, <2>1
  <2>3. scan.from # Nowhere => scan.from \in Paths
    BY <1>3 DEF Paths
  <2>4. \A n \in Names : /\ <<P, n>> \notin db
                         /\ scan.from # Nowhere => <<scan.from, n>> \notin db
    BY <1>3, <2>1, <2>2, <2>3 DEF RowsKnown
  <2>5. ASSUME scan.from # Nowhere, NEW d \in Dirs, NodeOf(d, scan.from)' PROVE FALSE
    <3>1. PICK q \in Paths : q = scan.from
      BY <2>3, <2>5
    <3>2. NodeOf(d, q)'
      BY <2>5, <3>1 DEF NodeOf
    <3> QED
      BY <1>1, <1>9, <2>1, <3>1, <3>2
  <2> QED
    BY <2>1, <2>2, <2>4, <2>5
<1>10. ScanRight'
  <2>1. ASSUME Reading', where[D] = P PROVE HasNode(scan.dir)'
    BY <1>5, <2>1 DEF HasNode
  <2>2. ASSUME Moving'
        PROVE  /\ NodeOf(scan.dir, scan.to)' /\ \A d \in Dirs : ~NodeOf(d, scan.from)'
               /\ \A n \in Names \ scan.seen : <<scan.to, n>> \notin db
               /\ Empty(scan.dir)
    <3>1. pc = "rename" /\ scan.from # Nowhere
      BY <2>2 DEF Moving
    <3> QED
      BY <1>5, <1>9, <3>1 DEF NodeOf
  <2>3. pc' = "moves" => where[D] = P /\ Empty(scan.dir)
    BY <1>9
  <2> QED
    BY <1>1, <2>1, <2>2, <2>3 DEF ScanRight, Empty
<1>11. RowsKnown'
  BY <1>1, <1>3 DEF RowsKnown
<1>12. FilesRight'
  <2> SUFFICES ASSUME NEW k \in Files, HasNode(k[1])'
               PROVE  Story(events, created, k, Inside', Opened', hasty, fresh, Shown', ToRead')
    BY DEF FilesRight, FileRight
  <2>1. Inside' = Inside /\ Opened' = Opened
    BY DEF Inside, Opened, Exists
  <2>2. k \in Shown <=> \E q \in Paths : NodeOf(k[1], q) /\ <<q, k[2]>> \in db
    BY <1>3, ShownPlain
  <2>3. CASE HasNode(k[1])
    <3>1. Story(events, created, k, Inside, Opened, hasty, fresh, Shown, ToRead)
      BY <2>3 DEF Steady, FilesRight, FileRight
    <3>2. k[1] = D => scan.from = Nowhere /\ nodes' = nodes
      BY <1>1, <1>2, <1>9, <2>3
    <3>3. ~(Moving' /\ k[1] = scan'.dir)
      BY <3>2 DEF Moving
    <3>4. k \in Shown' <=> \E q \in Paths : NodeOf(k[1], q)' /\ <<q, k[2]>> \in db
      BY <3>3 DEF Shown, HasRow
    <3>5. \A q : NodeOf(k[1], q)' <=> NodeOf(k[1], q)
      BY <1>1, <3>2
    <3>6. k \in Shown <=> k \in Shown'
      BY <2>2, <3>4, <3>5
    <3>7. k \notin ToRead
      BY <1>3 DEF ToRead
    <3>8. Story(events, created, k, Inside, Opened, hasty, fresh, Shown, ToRead')
      BY <3>1, <3>7, StoryElse
    <3> QED
      BY <2>1, <3>6, <3>8, StorySame
  <2>4. CASE ~HasNode(k[1])
    <3>1. k[1] = D /\ nodes' # nodes /\ where[D] = P /\ \A d : ~NodeOf(d, P)
      BY <1>1, <1>2, <2>4
    <3>2. k[2] \in Names /\ k = <<D, k[2]>>
      BY <3>1 DEF Files
    <3>3. \A i \in 1..Len(events) : events[i] \notin About(k)
      <4>1. \A e \in About(k) : e.wd = k[1]
        BY DEF About, Of, Event
      <4>2. \A i \in DOMAIN events : HasNode(events[i].wd)
        BY Grounds DEF Heeded
      <4>3. DOMAIN events = 1..Len(events)
        BY DEF Typed
      <4> QED
        BY <2>4, <4>1, <4>2, <4>3
    <3>4. created[k] = 0
      BY <1>1, <1>3, <2>4, <3>1, <3>2 DEF NodesRight
    <3>5. k \notin Shown'
      <4>1. CASE Moving'
        <5>1. pc = "rename" /\ scan.from # Nowhere /\ scan'.seen = {} /\ k[1] = scan'.dir
          BY <1>1, <3>1, <4>1 DEF Moving
        <5>2. <<scan'.from, k[2]>> \notin db'
          BY <1>9, <3>2, <5>1
        <5> QED
          BY <3>2, <4>1, <5>1, <5>2 DEF Shown, HasRow
      <4>2. CASE ~Moving'
        <5>1. k \in Shown' => \E q \in Paths : NodeOf(k[1], q)' /\ <<q, k[2]>> \in db
          BY <4>2 DEF Shown, HasRow
        <5>2. \A q \in Paths : NodeOf(k[1], q)' => q = P
          BY <1>1, <2>4
        <5>3. <<P, k[2]>> \notin db
          BY <1>3, <3>1, <3>2 DEF RowsKnown
        <5> QED
          BY <5>1, <5>2, <5>3
      <4> QED
        BY <4>1, <4>2
    <3>6. k \in Inside' => k \in ToRead'
      <4>1. CASE pc = "watch"
        BY <1>1, <3>1, <4>1 DEF ToRead, Reading
      <4>2. CASE pc = "rename"
        BY <1>9, <3>1, <3>2, <4>2 DEF Empty, Inside
      <4> QED
        BY <4>1, <4>2
    <3>7. events \in Seq(Queued)
      BY DEF Typed
    <3> QED
      BY <3>3, <3>4, <3>5, <3>6, <3>7, StoryBegun
  <2> QED
    BY <2>3, <2>4
<1> QED
  BY <1>6, <1>7, <1>8, <1>10, <1>11, <1>12 DEF Steady

LEMMA ScanWatchSteady ==
  ASSUME Typed, Resolved, Steady, ScanWatch
  PROVE  Steady'
<1>1. /\ pc = "watch" /\ AddWatch(scan.to) /\ pc' = "entries"
      /\ UNCHANGED <<where, files, writers, used, made, hasty, events, created, prev, scan,
                     fresh, db>>
  BY DEF ScanWatch, rows
<1>2. \A d \in Dirs, a \in Folders : ~Renamed(d, a)
  BY <1>1 DEF Renamed
<1> QED
  BY <1>1, <1>2, WatchBegun

(* The node of a renamed folder gets its new path.                         *)
LEMMA Repathed ==
  ASSUME Typed, Resolved, NodesRight, NEW i \in DOMAIN nodes, NEW D \in Dirs, NEW a, NEW p,
         nodes[i] = [wd |-> D, path |-> a], \A d \in Dirs : NodeOf(d, a) => d = D,
         DOMAIN nodes' = DOMAIN nodes, nodes'[i] = [wd |-> D, path |-> p],
         \A j \in DOMAIN nodes : j # i => nodes'[j] = nodes[j]
  PROVE  /\ \A d \in Dirs : \A q :
              NodeOf(d, q)' <=> (NodeOf(d, q) /\ q # a) \/ (d = D /\ q = p)
         /\ \A d : HasNode(d)' <=> HasNode(d)
         /\ \A g, h \in DOMAIN nodes' : nodes'[g].wd = nodes'[h].wd => g = h
<1>1. /\ nodes \in Seq(Node) /\ DOMAIN nodes' = DOMAIN nodes
      /\ nodes'[i] = [wd |-> D, path |-> p]
      /\ \A j \in DOMAIN nodes : j # i => nodes'[j] = nodes[j]
      /\ \A g, h \in DOMAIN nodes : nodes[g].wd = nodes[h].wd => g = h
  BY DEF Typed, ThreadTyped, NodesTyped, NodesRight
<1>2. \A j \in DOMAIN nodes : nodes'[j].wd = nodes[j].wd
  BY <1>1
<1>3. \A d : HasNode(d)' <=> HasNode(d)
  BY <1>1, <1>2 DEF HasNode
<1>4. ASSUME NEW d \in Dirs, NEW q
      PROVE  NodeOf(d, q)' <=> (NodeOf(d, q) /\ q # a) \/ (d = D /\ q = p)
  <2>1. ASSUME NEW j \in DOMAIN nodes, nodes'[j] = [wd |-> d, path |-> q]
        PROVE  (NodeOf(d, q) /\ q # a) \/ (d = D /\ q = p)
    <3>1. CASE j = i
      BY <1>1, <2>1, <3>1
    <3>2. CASE j # i
      <4>1. nodes[j] = [wd |-> d, path |-> q] /\ NodeOf(d, q)
        BY <1>1, <2>1, <3>2 DEF NodeOf
      <4>2. d # D
        BY <1>1, <3>2, <4>1
      <4>3. q # a
        BY <4>1, <4>2
      <4> QED
        BY <4>1, <4>3
    <3> QED
      BY <3>1, <3>2
  <2>2. ASSUME NEW j \in DOMAIN nodes, nodes[j] = [wd |-> d, path |-> q], q # a
        PROVE  NodeOf(d, q)'
    <3>1. j # i
      BY <2>2
    <3> QED
      BY <1>1, <2>2, <3>1 DEF NodeOf
  <2>3. d = D /\ q = p => NodeOf(d, q)'
    BY <1>1 DEF NodeOf
  <2>4. NodeOf(d, q)' => (NodeOf(d, q) /\ q # a) \/ (d = D /\ q = p)
    BY <1>1, <2>1 DEF NodeOf
  <2>5. NodeOf(d, q) /\ q # a => NodeOf(d, q)'
    <3> SUFFICES ASSUME NodeOf(d, q), q # a PROVE NodeOf(d, q)'
      OBVIOUS
    <3>1. PICK j \in DOMAIN nodes : nodes[j] = [wd |-> d, path |-> q]
      BY DEF NodeOf
    <3> QED
      BY <2>2, <3>1
  <2> QED
    BY <2>3, <2>4, <2>5
<1>5. \A g, h \in DOMAIN nodes' : nodes'[g].wd = nodes'[h].wd => g = h
  BY <1>1, <1>2
<1> QED
  BY <1>3, <1>4, <1>5

LEMMA RenameWatchSteady ==
  ASSUME Typed, Resolved, Steady, RenameWatch
  PROVE  Steady'
<1>1. /\ pc = "rename" /\ ModifyWatch(scan.from, scan.to) /\ pc' = "moves"
      /\ UNCHANGED <<where, files, writers, used, made, hasty, events, created, prev, scan,
                     fresh, db>>
  BY DEF RenameWatch, rows
<1> DEFINE D == scan.dir
           P == scan.to
           A == scan.from
<1>2. /\ D \in Dirs /\ P \in Folders /\ P \in Paths /\ P \in used /\ D <= Root + made
      /\ \A d \in Dirs : where[d] = P => d = D
      /\ where[D] = P
      /\ scan.seen = {} /\ A # P /\ A \in Folders \cup {Nowhere}
      /\ Renamed(D, A) \/ (~HasNode(D) /\ Empty(D))
      /\ nodes \in Seq(Node)
      /\ FoldersKnown /\ MovesKnown /\ NodesRight /\ RowsKnown
      /\ ~Moving /\ ~Reading
  BY <1>1 DEF Steady, ScanRight, Typed, ThreadTyped, NodesTyped, Paths, Moving, Reading
<1>3. CASE IndexOf(A) = {}
  <2>1. \A d : ~NodeOf(d, A)
    BY <1>3 DEF IndexOf, NodeOf
  <2>2. AddWatch(P)
    BY <1>1, <1>3 DEF ModifyWatch
  <2>3. \A d \in Dirs, a \in Folders : ~Renamed(d, a)
    BY <1>1, <2>1 DEF Renamed
  <2>4. ~HasNode(D) /\ Empty(D)
    BY <1>2, <2>1 DEF Renamed
  <2> QED
    BY <1>1, <2>1, <2>2, <2>3, <2>4, WatchBegun
<1>4. CASE IndexOf(A) # {}
  <2>1. PICK i \in IndexOf(A) : nodes' = [nodes EXCEPT ![i].path = P] /\ watched' = watched
    BY <1>1, <1>4, WatchModified
  <2>2. /\ i \in DOMAIN nodes /\ nodes[i].path = A /\ nodes[i] \in Node
        /\ A \in Paths /\ A # Nowhere /\ where[D] = P /\ A \in Folders
    <3>1. i \in DOMAIN nodes /\ nodes[i].path = A
      BY <2>1 DEF IndexOf
    <3>2. nodes[i] \in Node
      BY <1>2, <3>1
    <3> QED
      BY <1>2, <3>1, <3>2, InotifyAssumption DEF Node, Paths, InotifyAssumption
  <2>3. PICK e \in Dirs : nodes[i] = [wd |-> e, path |-> A]
    BY <2>2 DEF Node
  <2>4. NodeOf(e, A)
    BY <2>2, <2>3 DEF NodeOf
  <2>5. e = D /\ \A d \in Dirs : NodeOf(d, A) \/ where[d] = A => d = D
    <3>1. e = D
      BY <1>1, <1>2, <2>2, <2>4, Grounds DEF Placing
    <3>2. \A d \in Dirs : NodeOf(d, A) \/ where[d] = A => d = D
      BY <1>2, <2>2, <2>4, <3>1, Grounds DEF Apart
    <3> QED
      BY <3>1, <3>2
  <2>6. /\ NodeOf(D, A) /\ HasNode(D) /\ events = <<>>
        /\ \A q : NodeOf(D, q) => q = A
    <3>1. NodeOf(D, A) /\ HasNode(D)
      BY <2>4, <2>5, Grounds DEF Listed
    <3>2. Renamed(D, A)
      BY <1>2, <2>2, <3>1
    <3>3. \A q : NodeOf(D, q) => q = A
      BY <1>2, <3>1, OneNode
    <3> QED
      BY <1>1, <3>1, <3>2, <3>3 DEF Renamed
  <2>7. /\ \A d \in Dirs : \A q :
             NodeOf(d, q)' <=> (NodeOf(d, q) /\ q # A) \/ (d = D /\ q = P)
        /\ \A d : HasNode(d)' <=> HasNode(d)
        /\ \A g, h \in DOMAIN nodes' : nodes'[g].wd = nodes'[h].wd => g = h
    <3>1. PICK a, p : a = A /\ p = P
      OBVIOUS
    <3>2. /\ \A d \in Dirs : NodeOf(d, a) => d = e
          /\ nodes[i] = [wd |-> e, path |-> a] /\ nodes'[i] = [wd |-> e, path |-> p]
          /\ i \in DOMAIN nodes /\ DOMAIN nodes' = DOMAIN nodes
          /\ \A j \in DOMAIN nodes : j # i => nodes'[j] = nodes[j]
      BY <1>2, <2>1, <2>2, <2>3, <2>5, <3>1
    <3>3. /\ \A d \in Dirs : \A q :
                NodeOf(d, q)' <=> (NodeOf(d, q) /\ q # a) \/ (d = e /\ q = p)
          /\ \A d : HasNode(d)' <=> HasNode(d)
          /\ \A g, h \in DOMAIN nodes' : nodes'[g].wd = nodes'[h].wd => g = h
      <4>1. NodesRight
        BY <1>2
      <4> QED
        BY <3>2, <4>1, Repathed
    <3> QED
      BY <2>5, <3>1, <3>3
  <2>8. Moving' /\ ~Reading' /\ scan'.dir = D /\ scan'.from = A /\ scan'.to = P /\ scan'.seen = {}
    BY <1>1, <1>2, <2>2 DEF Moving, Reading
  <2>9. \A x : ~Queues(x)
    BY <2>6 DEF Queues, In
  <2>10. FoldersKnown'
    <3> SUFFICES ASSUME NEW d \in Dirs, where[d] \in Folders PROVE NodeOf(d, where[d])'
      BY <1>1 DEF FoldersKnown
    <3>1. NodeOf(d, where[d]) \/ d = D
      BY <1>2, <2>6, <2>9 DEF FoldersKnown, New, Renamed, Scans
    <3>2. PICK q \in Folders : q = where[d]
      OBVIOUS
    <3>3. NodeOf(d, q)'
      BY <2>2, <2>5, <2>7, <3>1, <3>2
    <3> QED
      BY <1>1, <3>2, <3>3 DEF NodeOf
  <2>11. MovesKnown'
    <3>1. \A x : ~In(events', x)
      BY <1>1, <2>6 DEF In
    <3>2. /\ \A r : ~Queues(From(r))' /\ ~Queues(Made(r))' /\ ~Queues(To(r))'
          /\ \A d : ~Queues(To(where[d]))'
      BY <3>1 DEF Queues
    <3>3. OneMove(events')
      BY <1>1, <2>6 DEF OneMove
    <3>4. \A a \in Folders : prev'.name = a => a \in used' /\ \A d \in Dirs : where'[d] # a
      BY <1>1, <1>2 DEF MovesKnown
    <3> QED
      BY <3>2, <3>3, <3>4 DEF MovesKnown
  <2>12. NodesRight'
    <3>1. \A d \in Dirs : HasNode(d)' /\ Exists(d)' => d \in watched'
      BY <1>1, <1>2, <2>1, <2>7 DEF NodesRight, Exists
    <3>2. \A d \in Dirs : ~HasNode(d)' /\ (where'[d] \in Folders \/ d > Root + made') =>
            \A n \in Names : created'[<<d, n>>] = 0
      BY <1>1, <1>2, <2>7 DEF NodesRight
    <3>3. \A k \in files' \cup writers' : Exists(k[1])'
      BY <1>1, <1>2 DEF NodesRight, Exists
    <3> QED
      BY <2>7, <3>1, <3>2, <3>3 DEF NodesRight
  <2>13. ScanRight'
    <3>1. NodeOf(scan.dir, scan.to)' /\ \A d \in Dirs : ~NodeOf(d, scan.from)'
      <4>1. PICK d1 \in Dirs, p1 \in Folders, a1 \in Folders : d1 = D /\ p1 = P /\ a1 = A
        BY <1>2, <2>2
      <4>2. NodeOf(d1, p1)' /\ \A d \in Dirs : ~NodeOf(d, a1)'
        BY <1>2, <2>7, <4>1
      <4>3. scan'.dir = d1 /\ scan'.to = p1 /\ scan'.from = a1
        BY <2>8, <4>1
      <4> QED
        BY <4>2, <4>3 DEF NodeOf
    <3>2. ASSUME NEW n \in Names, <<P, n>> \in db PROVE FALSE
      <4>1. PICK d \in Dirs : NodeOf(d, P)
        BY <1>2, <3>2 DEF RowsKnown
      <4>2. d = D
        BY <1>2, <2>2, <4>1, Grounds DEF Apart
      <4> QED
        BY <1>2, <2>6, <4>1, <4>2
    <3>3. \A d \in Dirs : where[d] # A
      BY <1>2, <2>2, <2>5
    <3> HIDE DEF D, P, A
    <3> QED
      BY <1>1, <1>2, <2>2, <2>8, <3>1, <3>2, <3>3 DEF ScanRight
  <2>14. RowsKnown'
    <3> SUFFICES ASSUME NEW q \in Paths, NEW n \in Names, <<q, n>> \in db
                 PROVE  \/ \E d \in Dirs : NodeOf(d, q)'
                        \/ q = A /\ <<D, n>> \in files
      BY <1>1, <2>8 DEF RowsKnown
    <3>1. PICK d \in Dirs : NodeOf(d, q)
      BY <1>2 DEF RowsKnown
    <3>2. CASE q = A
      <4> DEFINE k == <<D, n>>
      <4>1. k \in Files /\ k \in Shown /\ HasNode(k[1])
        BY <1>2, <2>2, <2>6, <3>2, ShownPlain DEF Files
      <4>2. NoRemoval(events, k)
        BY <2>6 DEF NoRemoval, NoneOf
      <4>3. Story(events, created, k, Inside, Opened, hasty, fresh, Shown, ToRead)
        BY <4>1 DEF Steady, FilesRight, FileRight
      <4> QED
        BY <3>2, <4>1, <4>2, <4>3 DEF Story, Inside
    <3>3. CASE q # A
      BY <2>7, <3>1, <3>3
    <3> QED
      BY <3>2, <3>3
  <2>15. FilesRight'
    <3> SUFFICES ASSUME NEW k \in Files, HasNode(k[1])
                 PROVE  Story(events, created, k, Inside', Opened', hasty, fresh, Shown', ToRead')
      BY <1>1, <2>7 DEF FilesRight, FileRight
    <3>1. Inside' = Inside /\ Opened' = Opened /\ ToRead' = ToRead
      BY <1>1, <1>2, <2>8 DEF Inside, Opened, Exists, ToRead
    <3>2. Story(events, created, k, Inside, Opened, hasty, fresh, Shown, ToRead)
      BY DEF Steady, FilesRight, FileRight
    <3>3. k \in Shown <=> \E q \in Paths : NodeOf(k[1], q) /\ <<q, k[2]>> \in db
      BY <1>2, ShownPlain
    <3>4. k[1] \in Dirs /\ k[2] \in Names
      BY DEF Files
    <3>5. CASE k[1] = D
      <4>1. k \in Shown' <=> <<A, k[2]>> \in db
        BY <1>1, <2>8, <3>4, <3>5 DEF Shown, HasRow
      <4>2. k \in Shown <=> <<A, k[2]>> \in db
        BY <2>2, <2>6, <3>3, <3>5
      <4> QED
        BY <3>1, <3>2, <4>1, <4>2, StorySame
    <3>6. CASE k[1] # D
      <4>1. k \in Shown' <=> \E q \in Paths : NodeOf(k[1], q)' /\ <<q, k[2]>> \in db
        BY <1>1, <2>8, <3>6 DEF Shown, HasRow
      <4>2. \A q : NodeOf(k[1], q)' <=> NodeOf(k[1], q)
        BY <2>5, <2>7, <3>4, <3>6
      <4> QED
        BY <3>1, <3>2, <3>3, <4>1, <4>2, StorySame
    <3> QED
      BY <3>5, <3>6
  <2> QED
    BY <2>10, <2>11, <2>12, <2>13, <2>14, <2>15 DEF Steady
<1> QED
  BY <1>3, <1>4

(* A folder is read; nothing else happens to the folders.                  *)
LEMMA EntriesLand ==
  ASSUME Typed, Steady, pc \in {"entries", "moves"},
         UNCHANGED <<where, files, writers, watched, used, made, events, nodes, created, prev>>,
         pc' = "read" \/ (pc' = pc /\ scan'.to = scan.to)
  PROVE  /\ FoldersKnown' /\ MovesKnown' /\ NodesRight'
         /\ \A d \in Dirs : where[d] \in Folders /\ HasNode(d) => NodeOf(d, where[d])
         /\ \A d : HasNode(d)' <=> HasNode(d)
         /\ \A d, p : NodeOf(d, p)' <=> NodeOf(d, p)
         /\ Inside' = Inside /\ Opened' = Opened
<1>1. FoldersKnown /\ MovesKnown /\ NodesRight
  BY DEF Steady
<1>2. /\ \A d : HasNode(d)' <=> HasNode(d)
      /\ \A d, p : NodeOf(d, p)' <=> NodeOf(d, p)
  BY NodesUnchanged
<1>3. \A d, a : ~Renamed(d, a)
  BY DEF Renamed
<1>4. FoldersKnown'
  <2> SUFFICES ASSUME NEW d \in Dirs, where[d] \in Folders
               PROVE  New(d)' \/ NodeOf(d, where[d])'
    BY DEF FoldersKnown
  <2>1. NodeOf(d, where[d]) => NodeOf(d, where[d])'
    BY DEF NodeOf
  <2>2. New(d) => New(d)'
    BY <1>2 DEF New, Scans, Queues, In, Made, To
  <2> QED
    BY <1>1, <1>3, <2>1, <2>2 DEF FoldersKnown
<1>5. MovesKnown'
  <2>1. \A a \in Folders : Queues(From(a))' \/ prev'.name = a =>
          a \in used' /\ \A d \in Dirs : where'[d] # a
    BY <1>1 DEF MovesKnown, Queues, In, From
  <2>2. \A r \in Folders : Queues(Made(r))' => r \in used'
    BY <1>1 DEF MovesKnown, Queues, In, Made
  <2>3. ASSUME NEW d \in Dirs, where[d] \in Folders, Queues(To(where[d]))'
        PROVE  ~HasNode(d)' /\ Empty(d)' /\ ~Queues(Made(where[d]))' /\ ~Scans(where[d])'
    <3>1. Queues(To(where[d]))
      BY <2>3 DEF Queues, In, To
    <3>2. ~HasNode(d) /\ Empty(d) /\ ~Queues(Made(where[d])) /\ ~Scans(where[d])
      BY <1>1, <1>3, <2>3, <3>1 DEF MovesKnown
    <3> QED
      BY <1>2, <3>2 DEF Empty, Queues, In, Made, Scans
  <2> QED
    BY <1>1, <2>1, <2>2, <2>3 DEF MovesKnown
<1>6. NodesRight'
  BY <1>1, NodesRightKept
<1>7. \A d \in Dirs : where[d] \in Folders /\ HasNode(d) => NodeOf(d, where[d])
  BY <1>1, <1>3 DEF FoldersKnown, New
<1>8. Inside' = Inside /\ Opened' = Opened
  BY DEF Inside, Opened, Exists
<1> QED
  BY <1>2, <1>4, <1>5, <1>6, <1>7, <1>8

LEMMA ReadEntrySteady ==
  ASSUME Typed, Resolved, Steady, ScanEntry
  PROVE  Steady'
<1>1. PICK n \in Left : /\ Register(scan.to, n)
                        /\ scan' = [scan EXCEPT !.seen = @ \cup {n}]
  BY DEF ScanEntry
<1>2. /\ pc = "entries" /\ pc' = "entries"
      /\ UNCHANGED <<where, files, writers, watched, used, made, events, nodes, created, prev>>
  BY DEF ScanEntry, fs
<1> DEFINE D == scan.dir
           P == scan.to
<1>3. /\ D \in Dirs /\ P \in Folders /\ P \in Paths /\ n \in Names /\ n \notin scan.seen
      /\ scan'.dir = D /\ scan'.to = P /\ scan'.from = Nowhere
      /\ scan'.seen = scan.seen \cup {n}
      /\ \A d \in Dirs : where[d] = P => d = D
      /\ where[D] \in Paths => where[D] = P
      /\ where[D] = P => HasNode(D)
      /\ P \in used /\ D <= Root + made /\ RowsKnown
  BY <1>1, <1>2 DEF Left, Typed, ThreadTyped, Paths, Steady, ScanRight, Reading
<1>4. ~Moving /\ ~Moving' /\ Reading /\ Reading'
  BY <1>2, <1>3 DEF Moving, Reading
<1>5. /\ FoldersKnown' /\ MovesKnown' /\ NodesRight'
      /\ \A d \in Dirs : where[d] \in Folders /\ HasNode(d) => NodeOf(d, where[d])
      /\ \A d : HasNode(d)' <=> HasNode(d)
      /\ \A d, p : NodeOf(d, p)' <=> NodeOf(d, p)
      /\ Inside' = Inside /\ Opened' = Opened
  BY <1>2, <1>3, EntriesLand
<1>6. ScanRight'
  <2>1. where[D] = P => HasNode(scan.dir)'
    BY <1>2, <1>3 DEF HasNode
  <2> QED
    BY <1>2, <1>3, <1>4, <2>1 DEF ScanRight
<1>7. \A k \in Files : k[1] \in Dirs /\ k[2] \in Names /\ k = <<k[1], k[2]>>
  BY DEF Files
<1>8. \A k \in Files : k \in ToRead' <=> k \in ToRead /\ k # <<D, n>>
  BY <1>3, <1>4, <1>7 DEF ToRead
<1>9. \A k \in Files : HasNode(k[1]) =>
        Story(events, created, k, Inside, Opened, hasty, fresh, Shown, ToRead)
  BY DEF Steady, FilesRight, FileRight
<1>10. CASE where[D] = P
  <2>1. PICK d \in Dirs, p \in Paths : d = D /\ p = P
    BY <1>3
  <2>2. NodeOf(d, p) /\ where[d] = p
    BY <1>3, <1>5, <1>10, <2>1
  <2>3. Register(p, n)
    BY <1>1, <2>1
  <2>4. /\ Registered(<<d, n>>, Inside, Opened, hasty, fresh, Shown, hasty', fresh', Shown')
        /\ \A k \in Files : k # <<d, n>> => /\ k \in hasty <=> k \in hasty'
                                            /\ k \in fresh <=> k \in fresh'
                                            /\ k \in Shown <=> k \in Shown'
        /\ RowsKnown'
    BY <1>2, <1>3, <1>4, <2>2, <2>3, RegisterAt
  <2>5. ASSUME NEW k \in Files, HasNode(k[1])
        PROVE  Story(events, created, k, Inside, Opened, hasty', fresh', Shown', ToRead')
    <3>1. CASE k = <<d, n>>
      BY <1>9, <2>4, <2>5, <3>1, StoryScanned
    <3>2. CASE k # <<d, n>>
      BY <1>8, <1>9, <2>1, <2>4, <2>5, <3>2, StorySame
    <3> QED
      BY <3>1, <3>2
  <2>6. FilesRight'
    BY <1>2, <1>5, <2>5 DEF FilesRight, FileRight
  <2> QED
    BY <1>5, <1>6, <2>4, <2>6 DEF Steady
<1>11. CASE where[D] # P
  <2>1. ~FileAt(P, n)
    BY <1>3, <1>11 DEF FileAt
  <2>2. UNCHANGED <<db, fresh, hasty>>
    BY <1>1, <2>1 DEF Register, rows
  <2>3. RowsKnown'
    BY <1>2, <1>3, <1>4, <1>5, <2>2 DEF RowsKnown
  <2>4. \A k \in Files : k \in Shown <=> k \in Shown'
    <3>1. \A k \in Files :
            k \in Shown' <=> \E q \in Paths : NodeOf(k[1], q)' /\ <<q, k[2]>> \in db'
      BY <1>4 DEF Shown, HasRow
    <3> QED
      BY <1>4, <1>5, <2>2, <3>1, ShownPlain
  <2>5. ASSUME NEW k \in Files, HasNode(k[1])
        PROVE  Story(events, created, k, Inside, Opened, hasty', fresh', Shown', ToRead')
    <3>1. k \in ToRead => k \in ToRead' \/ k \notin Inside
      BY <1>3, <1>8, <1>11 DEF Inside
    <3>2. Story(events, created, k, Inside, Opened, hasty, fresh, Shown, ToRead')
      BY <1>9, <2>5, <3>1, StoryElse
    <3> QED
      BY <2>2, <2>4, <3>2, StorySame
  <2>6. FilesRight'
    BY <1>2, <1>5, <2>5 DEF FilesRight, FileRight
  <2> QED
    BY <1>5, <1>6, <2>3, <2>6 DEF Steady
<1> QED
  BY <1>10, <1>11

LEMMA MoveEntrySteady ==
  ASSUME Typed, Resolved, Steady, MoveEntry
  PROVE  Steady'
<1>1. PICK n \in Left : /\ Move(n) /\ UNCHANGED hasty
                        /\ scan' = [scan EXCEPT !.seen = @ \cup {n}]
  BY DEF MoveEntry
<1>2. /\ pc = "moves" /\ pc' = "moves"
      /\ UNCHANGED <<where, files, writers, watched, used, made, events, nodes, created, prev>>
  BY DEF MoveEntry, fs
<1>0. scan.from # Nowhere
  <2>1. scan.from = Nowhere => Empty(scan.dir)
    BY <1>2 DEF Steady, ScanRight
  <2>2. n \in Names /\ <<scan.dir, n>> \in files
    BY <1>1 DEF Left
  <2> QED
    BY <2>1, <2>2 DEF Empty
<1> DEFINE D == scan.dir
           P == scan.to
           A == scan.from
<1>3. /\ D \in Dirs /\ P \in Folders /\ P \in Paths /\ n \in Names /\ n \notin scan.seen
      /\ scan'.dir = D /\ scan'.to = P /\ scan'.from = A
      /\ scan'.seen = scan.seen \cup {n} /\ <<D, n>> \in files
      /\ A \in Folders /\ A \in Paths
  <2>1. /\ D \in Dirs /\ A \in Folders \cup {Nowhere} /\ P \in Folders
        /\ scan \in [dir : Dirs, from : Folders \cup {Nowhere},
                     to : Folders \cup {Nowhere}, seen : SUBSET Names]
    BY <1>0, <1>2 DEF Typed, ThreadTyped
  <2>2. n \in Names /\ n \notin scan.seen /\ <<D, n>> \in files
    BY <1>1 DEF Left
  <2>3. /\ scan'.dir = D /\ scan'.to = P /\ scan'.from = A
        /\ scan'.seen = scan.seen \cup {n}
    BY <1>1, <2>1
  <2> QED
    BY <1>0, <2>1, <2>2, <2>3 DEF Paths
<1>4. Moving /\ Moving' /\ ~Reading /\ ~Reading' /\ A # Nowhere
  BY <1>0, <1>2, <1>3 DEF Moving, Reading
<1>5. /\ \A d \in Dirs : where[d] = P => d = D
      /\ where[D] = P /\ NodeOf(D, P) /\ \A d \in Dirs : ~NodeOf(d, A)
      /\ \A m \in Names \ scan.seen : <<P, m>> \notin db
      /\ \A d \in Dirs : where[d] # A
      /\ P \in used /\ D <= Root + made /\ RowsKnown
  BY <1>2, <1>3, <1>4 DEF Steady, ScanRight, Empty
<1>6. /\ FoldersKnown' /\ MovesKnown' /\ NodesRight'
      /\ \A d : HasNode(d)' <=> HasNode(d)
      /\ \A d, p : NodeOf(d, p)' <=> NodeOf(d, p)
      /\ Inside' = Inside /\ Opened' = Opened
  BY <1>2, <1>3, EntriesLand
<1>7. A # P /\ \A q : NodeOf(D, q) => q = P
  BY <1>3, <1>5, OneNode DEF Steady
<1>8. /\ fresh' = fresh
      /\ db' = IF <<A, n>> \in db THEN (db \ {<<A, n>>}) \cup {<<P, n>>} ELSE db
  <2>1. FilesAt(A, n) = {}
    <3>1. \A k \in files : k[1] \in Dirs
      BY DEF Typed, FsTyped, Files
    <3> QED
      BY <1>5, <3>1 DEF FilesAt
  <2> QED
    BY <1>1, <2>1 DEF Move, Outdated, rows
<1>9. ScanRight'
  <2>1. NodeOf(scan.dir, scan.to)' /\ \A d \in Dirs : ~NodeOf(d, scan.from)'
    BY <1>2, <1>3, <1>5 DEF NodeOf
  <2>2. \A m \in Names \ scan'.seen : <<P, m>> \notin db'
    BY <1>3, <1>5, <1>8
  <2> HIDE DEF D, P, A
  <2> QED
    BY <1>2, <1>3, <1>4, <1>5, <2>1, <2>2 DEF ScanRight
<1>10. RowsKnown'
  <2> SUFFICES ASSUME NEW q \in Paths, NEW m \in Names, <<q, m>> \in db'
               PROVE  \/ \E d \in Dirs : NodeOf(d, q)
                      \/ q = A /\ m \notin scan'.seen /\ <<D, m>> \in files
    BY <1>2, <1>3, <1>4, <1>6 DEF RowsKnown
  <2>1. CASE q = P
    BY <1>3, <1>5, <2>1
  <2>2. CASE q # P
    <3>1. <<q, m>> \in db /\ ~(q = A /\ m = n)
      BY <1>8, <2>2
    <3>2. \/ \E d \in Dirs : NodeOf(d, q)
          \/ q = A /\ m \notin scan.seen /\ <<D, m>> \in files
      BY <1>5, <3>1 DEF RowsKnown
    <3> QED
      BY <1>3, <3>1, <3>2
  <2> QED
    BY <2>1, <2>2
<1>11. ASSUME NEW k \in Files PROVE k \in Shown <=> k \in Shown'
  <2>1. k[1] \in Dirs /\ k[2] \in Names
    BY DEF Files
  <2>2. k \in Shown <=> IF k[1] = D /\ k[2] \notin scan.seen THEN <<A, k[2]>> \in db
                        ELSE \E q \in Paths : NodeOf(k[1], q) /\ <<q, k[2]>> \in db
    BY <1>4 DEF Shown, HasRow
  <2>3. k \in Shown' <=> IF k[1] = D /\ k[2] \notin scan'.seen THEN <<A, k[2]>> \in db'
                         ELSE \E q \in Paths : NodeOf(k[1], q)' /\ <<q, k[2]>> \in db'
    BY <1>3, <1>4 DEF Shown, HasRow
  <2>4. CASE k[1] = D /\ k[2] = n
    <3>1. k \in Shown <=> <<A, n>> \in db
      BY <1>3, <2>2, <2>4
    <3>2. k \in Shown' <=> <<P, n>> \in db'
      BY <1>3, <1>5, <1>6, <1>7, <2>3, <2>4
    <3> QED
      BY <1>3, <1>5, <1>8, <3>1, <3>2
  <2>5. CASE k[2] # n
    BY <1>3, <1>6, <1>8, <2>2, <2>3, <2>5
  <2>6. CASE k[1] # D
    <3>1. ~NodeOf(k[1], A) /\ ~NodeOf(k[1], P)
      BY <1>3, <1>5, <2>1, <2>6, Grounds DEF Apart
    <3> QED
      BY <1>6, <1>8, <2>2, <2>3, <2>6, <3>1
  <2> QED
    BY <2>4, <2>5, <2>6
<1>12. FilesRight'
  <2>1. ToRead' = ToRead
    BY <1>4 DEF ToRead
  <2>2. ASSUME NEW k \in Files, HasNode(k[1])
        PROVE  Story(events, created, k, Inside, Opened, hasty, fresh, Shown', ToRead)
    <3>1. Story(events, created, k, Inside, Opened, hasty, fresh, Shown, ToRead)
      BY <2>2 DEF Steady, FilesRight, FileRight
    <3> QED
      BY <1>11, <3>1, StorySame
  <2> QED
    BY <1>1, <1>2, <1>6, <1>8, <2>1, <2>2 DEF FilesRight, FileRight
<1> QED
  BY <1>6, <1>9, <1>10, <1>12 DEF Steady

LEMMA ScanDoneSteady ==
  ASSUME Typed, Resolved, Steady, ScanDone
  PROVE  Steady'
<1>1. /\ pc \in {"entries", "moves"} /\ pc' = "read" /\ Left = {}
      /\ UNCHANGED <<where, files, writers, watched, used, made, events, nodes, created, prev>>
      /\ UNCHANGED <<hasty, db, fresh>>
  BY DEF ScanDone, fs, rows
<1>2. ~Moving' /\ ~Reading'
  BY <1>1 DEF Moving, Reading
<1>3. /\ FoldersKnown' /\ MovesKnown' /\ NodesRight'
      /\ \A d : HasNode(d)' <=> HasNode(d)
      /\ \A d, p : NodeOf(d, p)' <=> NodeOf(d, p)
      /\ Inside' = Inside /\ Opened' = Opened
  BY <1>1, EntriesLand
<1>4. ScanRight'
  BY <1>1, <1>2 DEF ScanRight
<1>5. \A m \in Names : <<scan.dir, m>> \in files => m \in scan.seen
  BY <1>1 DEF Left
<1>6. RowsKnown'
  BY <1>1, <1>3, <1>5 DEF RowsKnown, Steady
<1>7. ASSUME NEW k \in Files PROVE k \in Shown <=> k \in Shown'
  <2>1. k[1] \in Dirs /\ k[2] \in Names
    BY DEF Files
  <2>2. k \in Shown' <=> \E q \in Paths : NodeOf(k[1], q) /\ <<q, k[2]>> \in db
    BY <1>1, <1>2, <1>3 DEF Shown, HasRow
  <2>3. CASE Moving /\ k[1] = scan.dir /\ k[2] \notin scan.seen
    <3>1. /\ NodeOf(scan.dir, scan.to) /\ \A d \in Dirs : ~NodeOf(d, scan.from)
          /\ <<scan.to, k[2]>> \notin db
      BY <2>1, <2>3 DEF Steady, ScanRight
    <3>2. \A q : NodeOf(scan.dir, q) => q = scan.to
      BY <3>1, OneNode DEF Steady
    <3>3. k \notin Shown'
      BY <2>2, <2>3, <3>1, <3>2
    <3>4. scan.from \in Paths
      BY <2>3 DEF Moving, Typed, ThreadTyped, Paths
    <3>5. <<scan.from, k[2]>> \notin db
      BY <1>5, <2>1, <2>3, <3>1, <3>4 DEF RowsKnown, Steady
    <3>6. k \notin Shown
      BY <2>3, <3>5 DEF Shown, HasRow
    <3> QED
      BY <3>3, <3>6
  <2>4. CASE ~(Moving /\ k[1] = scan.dir /\ k[2] \notin scan.seen)
    BY <2>2, <2>4 DEF Shown, HasRow
  <2> QED
    BY <2>3, <2>4
<1>8. FilesRight'
  <2> SUFFICES ASSUME NEW k \in Files, HasNode(k[1])
               PROVE  Story(events, created, k, Inside, Opened, hasty, fresh, Shown', ToRead')
    BY <1>1, <1>3 DEF FilesRight, FileRight
  <2>1. Story(events, created, k, Inside, Opened, hasty, fresh, Shown, ToRead)
    BY DEF Steady, FilesRight, FileRight
  <2>2. k \in ToRead => k \notin Inside
    <3>1. k[2] \in Names /\ k = <<k[1], k[2]>>
      BY DEF Files
    <3> QED
      BY <1>5, <3>1 DEF ToRead, Inside
  <2>3. Story(events, created, k, Inside, Opened, hasty, fresh, Shown, ToRead')
    BY <2>1, <2>2, StoryElse
  <2> QED
    BY <1>7, <2>3, StorySame
<1> QED
  BY <1>3, <1>4, <1>6, <1>8 DEF Steady

-----------------------------------------------------------------------------
(* What is right of the folders and of the files stays right.              *)
LEMMA SteadyInit ==
  Init => SteadyInv
<1> SUFFICES ASSUME Init PROVE Steady
  BY DEF SteadyInv
<1>1. /\ events = <<>> /\ nodes = <<RootNode>> /\ pc = "read" /\ DOMAIN nodes = {1}
      /\ prev.name = Nowhere /\ db = {} /\ files = {} /\ writers = {} /\ hasty = {}
      /\ watched = {Root} /\ \A k \in Files : created[k] = 0
      /\ \A d \in Dirs : where[d] \notin Folders
  BY InotifyAssumption DEF Init, RootNode, InotifyAssumption
<1>2. \A x : ~In(events, x)
  BY <1>1 DEF In
<1>3. \A d : HasNode(d) <=> d = Root
  BY <1>1 DEF HasNode, RootNode
<1>4. FoldersKnown
  BY <1>1 DEF FoldersKnown
<1>5. MovesKnown
  <2>1. OneMove(events)
    BY <1>1 DEF OneMove
  <2>2. Nowhere \notin Folders
    BY InotifyAssumption DEF InotifyAssumption
  <2> QED
    BY <1>1, <1>2, <2>1, <2>2 DEF MovesKnown, Queues
<1>6. NodesRight
  BY <1>1, <1>3 DEF NodesRight, Files
<1>7. ScanRight
  BY <1>1 DEF ScanRight, Reading, Moving
<1>8. RowsKnown
  BY <1>1 DEF RowsKnown
<1>9. FilesRight
  <2> SUFFICES ASSUME NEW k \in Files
               PROVE  Story(events, created, k, Inside, Opened, hasty, fresh, Shown, ToRead)
    BY DEF FilesRight, FileRight
  <2>1. k \notin Inside /\ k \notin Shown
    BY <1>1 DEF Inside, Shown, HasRow
  <2>2. events \in Seq(Queued) /\ \A i \in 1..Len(events) : events[i] \notin About(k)
    BY <1>1
  <2> QED
    BY <1>1, <2>1, <2>2, StoryBegun
<1> QED
  BY <1>4, <1>5, <1>6, <1>7, <1>8, <1>9 DEF Steady

LEMMA FileSystemSteady ==
  ASSUME Typed, Unmade, Resolved, Steady, ~Reuse, Calm, FileSystem
  PROVE  Steady'
<1>1. ASSUME NEW d \in Dirs, NEW n \in Names,
             \/ CreateFile(d, n) \/ OpenFile(d, n) \/ CloseFile(d, n) \/ DeleteFile(d, n)
             \/ \E e \in Dirs, m \in Names : MoveFile(d, n, e, m)
      PROVE  Steady'
  BY <1>1, FileOperationSteady
<1>2. ASSUME NEW p \in Folders, MakeFolder(p) \/ \E F \in SUBSET Names : MoveFolderIn(p, F)
      PROVE  Steady'
  BY <1>2, ArrivalSteady
<1>3. ASSUME NEW d \in Dirs, NEW p \in Folders, RenameFolder(d, p)
      PROVE  Steady'
  BY <1>3, RenameFolderSteady
<1>4. ASSUME NEW d \in Dirs, RemoveFolder(d) \/ MoveFolderOut(d)
      PROVE  Steady'
  BY <1>4, DepartureSteady
<1> QED
  BY <1>1, <1>2, <1>3, <1>4 DEF FileSystem

LEMMA SteadyStays ==
  ASSUME Steady, UNCHANGED vars
  PROVE  Steady'
<1>1. UNCHANGED <<where, files, writers, watched, used, made, hasty, events, nodes, created,
                  prev, scan, pc, db, fresh>>
  BY DEF vars, fs, thread, rows
<1>2. /\ FoldersKnown /\ MovesKnown /\ NodesRight /\ ScanRight /\ RowsKnown /\ FilesRight
  BY DEF Steady
<1>3. \A d, a : Renamed(d, a)' <=> Renamed(d, a)
  BY <1>1 DEF Renamed, NodeOf, From, To
<1>4. /\ \A d : New(d)' <=> New(d)
      /\ \A p : /\ Queues(Made(p))' <=> Queues(Made(p))
                /\ Queues(From(p))' <=> Queues(From(p))
                /\ Scans(p)' <=> Scans(p)
      /\ \A d : /\ Queues(To(where[d]))' <=> Queues(To(where[d]))
                /\ Queues(Made(where[d]))' <=> Queues(Made(where[d]))
                /\ Scans(where[d])' <=> Scans(where[d])
                /\ NodeOf(d, where[d])' <=> NodeOf(d, where[d])
                /\ HasNode(d)' <=> HasNode(d)
                /\ Empty(d)' <=> Empty(d)
  BY <1>1 DEF New, HasNode, NodeOf, Queues, In, Made, To, From, Scans, Empty
<1>5. FoldersKnown'
  BY <1>1, <1>2, <1>3, <1>4 DEF FoldersKnown
<1>6. MovesKnown'
  BY <1>1, <1>2, <1>3, <1>4 DEF MovesKnown
<1>7. NodesRight'
  BY <1>1, <1>2, NodesRightKept
<1>8. ScanRight'
  BY <1>1, <1>2 DEF ScanRight, HasNode, NodeOf, Renamed, From, To, Empty, Reading, Moving
<1>9. RowsKnown'
  BY <1>1, <1>2 DEF RowsKnown, NodeOf, Moving
<1>10. FilesRight'
  <2>1. /\ Inside' = Inside /\ Opened' = Opened /\ Shown' = Shown /\ ToRead' = ToRead
        /\ \A d : HasNode(d)' <=> HasNode(d)
    BY <1>1 DEF Inside, Opened, Exists, Shown, HasRow, Moving, NodeOf, ToRead, Reading, HasNode
  <2> QED
    BY <1>1, <1>2, <2>1 DEF FilesRight, FileRight
<1> QED
  BY <1>5, <1>6, <1>7, <1>8, <1>9, <1>10 DEF Steady

LEMMA SteadyStep ==
  Typed /\ ResolvedInv /\ SteadyInv /\ [Next]_vars => SteadyInv'
<1> SUFFICES ASSUME Typed, ResolvedInv, SteadyInv, [Next]_vars PROVE SteadyInv'
  OBVIOUS
<1> SUFFICES ASSUME ~Reuse, Calm, powerOff' = "no", Within' PROVE Steady'
  BY DEF SteadyInv
<1>1. Unmade /\ Within /\ powerOff = "no" /\ ~PowerOff /\ ~NotifyInotifyThread /\ ~Exit
  BY UnmadeStep, PowerKept DEF ResolvedInv
<1>2. Resolved /\ Steady
  BY <1>1 DEF ResolvedInv, SteadyInv
<1>3. CASE UNCHANGED vars
  BY <1>2, <1>3, SteadyStays
<1>4. CASE FileSystem
  BY <1>1, <1>2, <1>4, FileSystemSteady
<1>5. CASE Gone("moved_from") \/ Gone("delete")
  BY <1>2, <1>5, GoneSteady
<1>6. CASE FileMovedTo \/ FileCreated \/ FileClosed
  BY <1>2, <1>6, FileMovedToSteady, FileCreatedSteady, FileClosedSteady
<1>7. CASE FolderCreated \/ FolderDeleted \/ FolderMovedFrom \/ FolderMovedTo
  BY <1>2, <1>7, FolderCreatedSteady, FolderDeletedSteady, FolderMovedFromSteady,
     FolderMovedToSteady
<1>8. CASE ScanWatch \/ RenameWatch
  BY <1>2, <1>8, ScanWatchSteady, RenameWatchSteady
<1>9. CASE ScanEntry \/ MoveEntry \/ ScanDone
  BY <1>2, <1>9, ReadEntrySteady, MoveEntrySteady, ScanDoneSteady
<1> QED
  BY <1>1, <1>3, <1>4, <1>5, <1>6, <1>7, <1>8, <1>9 DEF Next, Thread

(* Nothing is left to happen: every folder below the root has its node.    *)
LEMMA RestFacts ==
  ASSUME Typed, Resolved, Steady, AtRest
  PROVE  /\ ~Moving /\ ToRead = {}
         /\ \A d \in Dirs : where[d] \in Paths => NodeOf(d, where[d]) /\ HasNode(d)
         /\ \A k \in Files : \A c, w, h, f, s, r : Story(events, c, k, Inside, w, h, f, s, r) =>
              /\ k \in Inside => k \in w \/ k \in s \/ k \in r
              /\ k \in s => k \in Inside
              /\ k \in Inside /\ k \in s /\ k \notin h => k \in f \/ k \in w
         /\ \A k \in Inside : k \notin Opened
<1>1. pc = "read" /\ events = <<>> /\ writers = {} /\ Len(events) = 0
  BY DEF AtRest
<1>2. ~Moving /\ ToRead = {}
  BY <1>1 DEF Moving, ToRead, Reading
<1>3. \A d, a : ~Renamed(d, a)
  <2>1. \A a, p : events # <<From(a), To(p)>> /\ events # <<To(p)>>
    BY <1>1
  <2> QED
    BY <1>1, <2>1 DEF Renamed
<1>4. \A d : ~New(d)
  BY <1>1 DEF New, Queues, In, Scans
<1>5. ASSUME NEW d \in Dirs, where[d] \in Paths PROVE NodeOf(d, where[d]) /\ HasNode(d)
  <2>1. NodeOf(d, where[d])
    <3>1. CASE d = Root
      <4>1. where[Root] = RootPath /\ NodeOf(Root, RootPath)
        BY Grounds DEF Typed, FsTyped, Listed
      <4> QED
        BY <3>1, <4>1
    <3>2. CASE d # Root
      BY <1>3, <1>4, <1>5, <3>2, Grounds DEF Placing, Steady, FoldersKnown
    <3> QED
      BY <3>1, <3>2
  <2> QED
    BY <2>1, Grounds DEF Listed
<1>6. ASSUME NEW k \in Files, NEW c, NEW w, NEW h, NEW f, NEW s, NEW r,
             Story(events, c, k, Inside, w, h, f, s, r)
      PROVE  /\ k \in Inside => k \in w \/ k \in s \/ k \in r
             /\ k \in s => k \in Inside
             /\ k \in Inside /\ k \in s /\ k \notin h => k \in f \/ k \in w
  BY <1>1, <1>6 DEF Story, Promised, Reread, NoRemoval, NoneOf
<1>7. \A k \in Inside : k \notin Opened
  BY <1>1, InotifyAssumption DEF Inside, Opened, Exists, Paths, InotifyAssumption
<1> QED
  BY <1>2, <1>5, <1>6, <1>7

LEMMA RowsAtRest ==
  ASSUME Typed, Resolved, Steady, AtRest
  PROVE  /\ db = {<<where[f[1]], f[2]>> : f \in {g \in files : where[g[1]] \in Paths}}
         /\ Stale \subseteq hasty
<1>1. /\ ~Moving /\ ToRead = {}
      /\ \A d \in Dirs : where[d] \in Paths => NodeOf(d, where[d]) /\ HasNode(d)
      /\ \A k \in Inside : k \notin Opened
  BY RestFacts
<1>2. \A k \in Files : HasNode(k[1]) =>
        /\ k \in Inside => k \in Shown
        /\ k \in Shown => k \in Inside
        /\ k \in Inside /\ k \notin hasty => k \in fresh
  <2> SUFFICES ASSUME NEW k \in Files, HasNode(k[1])
               PROVE  /\ k \in Inside => k \in Shown
                      /\ k \in Shown => k \in Inside
                      /\ k \in Inside /\ k \notin hasty => k \in fresh
    OBVIOUS
  <2>1. Story(events, created, k, Inside, Opened, hasty, fresh, Shown, ToRead)
    BY DEF Steady, FilesRight, FileRight
  <2>2. /\ k \in Inside => k \in Opened \/ k \in Shown \/ k \in ToRead
        /\ k \in Shown => k \in Inside
        /\ k \in Inside /\ k \in Shown /\ k \notin hasty => k \in fresh \/ k \in Opened
    BY <2>1, RestFacts
  <2> QED
    BY <1>1, <2>2
<1>3. /\ files \subseteq Files /\ db \subseteq Paths \X Names
      /\ \A k \in Files : k[1] \in Dirs /\ k[2] \in Names /\ k = <<k[1], k[2]>>
  BY DEF Typed, FsTyped, RowsTyped, Files
<1>4. ASSUME NEW k \in files, where[k[1]] \in Paths
      PROVE  k \in Inside /\ HasNode(k[1]) /\ <<where[k[1]], k[2]>> \in db
  <2>1. k \in Inside /\ HasNode(k[1]) /\ k \in Files
    BY <1>1, <1>3, <1>4 DEF Inside
  <2>2. PICK q \in Paths : NodeOf(k[1], q) /\ <<q, k[2]>> \in db
    BY <1>1, <1>2, <2>1, ShownPlain
  <2>3. NodeOf(k[1], where[k[1]])
    BY <1>1, <1>3, <1>4
  <2>4. q = where[k[1]]
    BY <2>2, <2>3, OneNode DEF Steady
  <2> QED
    BY <2>1, <2>2, <2>4
<1>5. ASSUME NEW x \in db
      PROVE  \E f \in files : where[f[1]] \in Paths /\ x = <<where[f[1]], f[2]>>
  <2>1. PICK p \in Paths, n \in Names : x = <<p, n>>
    BY <1>3
  <2>2. PICK d \in Dirs : NodeOf(d, p)
    BY <1>1, <1>5, <2>1 DEF Steady, RowsKnown
  <2> DEFINE k == <<d, n>>
  <2>3. k \in Files /\ HasNode(k[1]) /\ k \in Shown
    BY <1>1, <1>5, <2>1, <2>2, ShownPlain, Grounds DEF Files, Listed
  <2>4. k \in files /\ where[d] \in Paths
    BY <1>2, <2>3 DEF Inside
  <2>5. NodeOf(d, where[d])
    BY <1>1, <2>4
  <2>6. where[d] = p
    BY <2>2, <2>5, OneNode DEF Steady
  <2> QED
    BY <2>1, <2>4, <2>6
<1>6. Stale \subseteq hasty
  BY <1>2, <1>3, <1>4 DEF Stale
<1>7. db = {<<where[f[1]], f[2]>> : f \in {g \in files : where[g[1]] \in Paths}}
  BY <1>4, <1>5
<1> QED
  BY <1>6, <1>7

LEMMA RestIsRight ==
  Typed /\ ResolvedInv /\ SteadyInv /\ ~Reuse /\ Calm /\ Within =>
    RestShowsFiles /\ OnlyHastyAreStale
<1> SUFFICES ASSUME Typed, ResolvedInv, SteadyInv, ~Reuse, Calm, Within, AtRest
             PROVE  /\ db = {<<where[f[1]], f[2]>> : f \in {g \in files : where[g[1]] \in Paths}}
                    /\ Stale \subseteq hasty
  BY DEF RestShowsFiles, OnlyHastyAreStale
<1>1. Resolved /\ Steady
  BY DEF ResolvedInv, SteadyInv, AtRest
<1> QED
  BY <1>1, RowsAtRest

LEMMA AlwaysSteady ==
  Spec => [](Typed /\ ResolvedInv /\ SteadyInv)
<1>1. Init => Typed /\ ResolvedInv /\ SteadyInv
  BY TypedInit, ResolvedInit, SteadyInit
<1>2. Typed /\ ResolvedInv /\ SteadyInv /\ [Next]_vars => (Typed /\ ResolvedInv /\ SteadyInv)'
  BY TypedStep, ResolvedStep, SteadyStep
<1> QED
  BY <1>1, <1>2, PTL DEF Spec

(* Once the thread has handled all events and no file is open, the rows    *)
(* are those of the files that exist, however the operations and the       *)
(* handling of their events interleaved. It is proved for calm renames,    *)
(* for names of folders that are not used twice, and as long as not both a *)
(* folder has left the root folder and another move across its border was  *)
(* made.                                                                   *)
THEOREM FilesAreShown ==
  Spec => [](~Reuse /\ Calm /\ Within => RestShowsFiles)
BY AlwaysSteady, RestIsRight, PTL

(* In the same cases the rows also show what is in the files, but for the  *)
(* files that got a row while they were written, or were moved while they  *)
(* were, or onto another one.                                              *)
THEOREM OnlyHastyStay ==
  Spec => [](~Reuse /\ Calm /\ Within => OnlyHastyAreStale)
BY AlwaysSteady, RestIsRight, PTL
=============================================================================
