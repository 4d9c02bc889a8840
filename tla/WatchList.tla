----------------------------- MODULE WatchList -----------------------------
(***************************************************************************)
(* The list of watches of common/media-server-inotify.c: singly linked     *)
(* from first_inoti_node, changed by the inotify thread and the main loop  *)
(* without a lock. ms_inoti_add_watch is two steps: the search, which      *)
(* remembers the last node, and, after malloc and a system call, the link. *)
(* The other operations are one step each.                                 *)
(***************************************************************************)
EXTENDS Chains

CONSTANTS
  Noti,          (* MS_DB_UPDATE_NOTI_PATH, the first watch of all.        *)
  PhoneFolders,
  CardFolders,
  AtOnce,        (* One thread uses the list between the two steps of the  *)
                 (* other; with FALSE it happens never to do so.           *)
  MaxWatches     (* Bound: nodes that are allocated.                       *)

Folders == {Noti} \cup PhoneFolders \cup CardFolders

ASSUME WatchListAssumption ==
  /\ Noti \notin PhoneFolders \cup CardFolders
  /\ PhoneFolders \cap CardFolders = {}
  /\ AtOnce \in BOOLEAN
  /\ MaxWatches \in Nat

Threads == {"main", "inoti"}

VARIABLES
  firstNode,   (* first_inoti_node                                         *)
  name,        (* name[a] of the ms_inoti_dir_data at address a.           *)
  next,        (* next[a]                                                  *)
  nodeFreed,   (* Addresses that have been freed.                          *)
  adding,      (* What each thread's ms_inoti_add_watch is about to link:  *)
               (* a set with at most one path and last node.               *)
  watches      (* History: what the list should hold, in its order.        *)

watchVars == <<firstNode, name, next, nodeFreed, adding, watches>>

WatchTypeOK ==
  /\ firstNode \in DOMAIN next \cup {NULL}
  /\ name \in Seq(Folders) /\ next \in Seq(Nat) /\ Len(name) = Len(next)
  /\ nodeFreed \subseteq DOMAIN next
  /\ \A t \in Threads :
        adding[t] \subseteq [path : Folders, last : DOMAIN next \cup {NULL}]
  /\ watches \in Seq(Folders)

WatchInit ==
  /\ firstNode = 1 /\ name = <<Noti>> /\ next = <<NULL>>
  /\ nodeFreed = {} /\ adding = [t \in Threads |-> {}]
  /\ watches = <<Noti>>

Listed == Along(next, firstNode)

(* Thread t may use the list.                                              *)
MayUse(t) == AtOnce \/ \A u \in Threads \ {t} : adding[u] = {}

-----------------------------------------------------------------------------
(* The search of ms_inoti_add_watch and ms_inoti_add_watch_with_node; a    *)
(* path that is listed is not added.                                       *)
AddWatch(t, path) ==
  /\ MayUse(t)
  /\ FoundIn(Listed, name, path) = NULL
  /\ Len(next) < MaxWatches
  /\ adding' = [adding EXCEPT ![t] = {[path |-> path, last |-> LastOrNull(Listed)]}]
  /\ UNCHANGED <<firstNode, name, next, nodeFreed, watches>>

(* The node is made and linked, or the kernel grants no watch.             *)
LinkWatch(t) ==
  \E new \in adding[t] :
    /\ adding' = [adding EXCEPT ![t] = {}]
    /\ \/ /\ name' = Append(name, new.path)
          /\ next' = Append([a \in DOMAIN next |->
                               IF firstNode # NULL /\ a = new.last
                               THEN Len(next) + 1 ELSE next[a]], NULL)
          /\ firstNode' = IF firstNode = NULL THEN Len(next') ELSE firstNode
          /\ watches' = Append(watches, new.path)
       \/ UNCHANGED <<firstNode, name, next, watches>>
    /\ UNCHANGED nodeFreed

(* The link to a removed node moves behind it. The mutant skips a node.    *)
UnlinkedTwo(before, a) == [next EXCEPT ![before] = IF next[a] = NULL THEN NULL
                                                   ELSE next[next[a]]]
Unlinked(before, a) == [next EXCEPT ![before] = next[a]]

(* ms_inoti_remove_watch. A first node is unlinked but not freed.          *)
RemoveWatch(t, path) ==
  /\ MayUse(t)
  /\ LET a == FoundIn(Listed, name, path)
     IN  IF a = firstNode
         THEN /\ firstNode' = next[a]
              /\ UNCHANGED <<next, nodeFreed>>
         ELSE /\ next' = IF a = NULL THEN next
                         ELSE Unlinked(CHOOSE b \in ToSet(Listed) : next[b] = a, a)
              /\ nodeFreed' = nodeFreed \cup ({a} \ {NULL})
              /\ UNCHANGED firstNode
  /\ watches' = RemoveFirst(watches, path)
  /\ UNCHANGED <<name, adding>>

(* ms_inoti_remove_watch_recursive: all paths below a storage.             *)
RemoveWatchRecursive(t, below) ==
  /\ MayUse(t)
  /\ LET kept == Among(Listed, {a \in DOMAIN name : name[a] \notin below})
     IN  /\ firstNode' = HeadOrNull(kept)
         /\ next' = Relinked(next, kept)
         /\ nodeFreed' = nodeFreed \cup (ToSet(Listed) \ ToSet(kept))
  /\ watches' = Among(watches, Folders \ below)
  /\ UNCHANGED <<name, adding>>

(* ms_inoti_modify_watch: the name of a node other than the first changes; *)
(* a path that is not listed is added under its new name.                  *)
ModifyWatch(t, from, to) ==
  LET a == FoundIn(Listed, name, from)
  IN  \/ /\ a \notin {NULL, firstNode}
         /\ name' = [name EXCEPT ![a] = to]
         /\ watches' = [watches EXCEPT ![CHOOSE i \in DOMAIN Listed : Listed[i] = a] = to]
         /\ UNCHANGED <<firstNode, next, nodeFreed, adding>>
      \/ /\ a \in {NULL, firstNode}
         /\ AddWatch(t, to)

-----------------------------------------------------------------------------
(* Following the pointers gives the paths that were added and neither      *)
(* removed nor renamed, in that order, and no freed node among them.       *)
WatchesAreListed ==
  /\ [i \in DOMAIN Listed |-> name[Listed[i]]] = watches
  /\ ToSet(Listed) \cap nodeFreed = {}

(* A folder that was added is listed, whatever the other thread does in    *)
(* the meantime: without its node its events have no path, and the files   *)
(* in it are not registered.                                               *)
NoWatchIsLost == ToSet(watches) \subseteq {name[a] : a \in ToSet(Listed)}
=============================================================================
