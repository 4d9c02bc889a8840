----------------------------- MODULE IgnoreList -----------------------------
(***************************************************************************)
(* The list of DRM files whose changes are ignored, of common/media-server-*)
(* inotify.c: doubly linked, walked along previous from latest_ignore_file.*)
(* Each operation is one step. ms_inoti_delete_mmc_ignore_file sets the    *)
(* links along previous only: the next of a file that stays may go on      *)
(* pointing to the freed node of a card file that was added after it.      *)
(***************************************************************************)
EXTENDS Chains

CONSTANTS
  PhoneFiles, CardFiles,   (* DRM files of the phone and of the card.      *)
  MaxIgnored               (* Bound: nodes that are allocated.             *)

Files == PhoneFiles \cup CardFiles

ASSUME IgnoreListAssumption ==
  /\ PhoneFiles \cap CardFiles = {}
  /\ MaxIgnored \in Nat

VARIABLES
  latest,      (* latest_ignore_file                                       *)
  file,        (* file[a]: path of the ms_ignore_file_info at address a.   *)
  previous,    (* previous[a]                                              *)
  following,   (* next[a] of the same node.                                *)
  fileFreed,   (* Addresses that have been freed.                          *)
  dangled,     (* A freed node was read or written.                        *)
  gap,         (* History: a card file was freed behind a phone file.      *)
  ignored      (* History: what the list should hold, oldest first.        *)

ignoreVars == <<latest, file, previous, following, fileFreed, dangled, gap,
                ignored>>

IgnoreTypeOK ==
  /\ latest \in DOMAIN file \cup {NULL}
  /\ file \in Seq(Files)
  /\ \A link \in {previous, following} :
        link \in Seq(Nat) /\ Len(link) = Len(file)
  /\ fileFreed \subseteq DOMAIN file
  /\ dangled \in BOOLEAN /\ gap \in BOOLEAN
  /\ ignored \in Seq(Files)

IgnoreInit ==
  /\ latest = NULL /\ file = <<>> /\ previous = <<>> /\ following = <<>>
  /\ fileFreed = {} /\ dangled = FALSE /\ gap = FALSE /\ ignored = <<>>

IgnoreChain == Along(previous, latest)

(* ms_inoti_find_ignore_file reads the nodes up to the one it finds.       *)
FindIgnoreFile(path) == FoundIn(IgnoreChain, file, path)

Touching(nodes) == dangled' = (nodes \cap fileFreed # {})

-----------------------------------------------------------------------------
(* ms_inoti_add_ignore_file. For an empty list it allocates a second node, *)
(* which nothing points to in the end; the mutant leaves latest there.     *)
StrayNode(a) == IF latest = NULL THEN a + 1 ELSE a
NewLatest(a) == a

AddIgnoreFile(path) ==
  /\ Touching(Searched(IgnoreChain, file, path))
  /\ IF FindIgnoreFile(path) # NULL
     THEN UNCHANGED <<latest, file, previous, following, ignored>>
     ELSE LET a == Len(file) + 1
          IN  /\ a <= MaxIgnored
              /\ file' = Append(file, path)
              /\ previous' = Append(previous, latest)
              /\ following' = Append([b \in DOMAIN following |->
                                 IF b = latest THEN a ELSE following[b]], NULL)
              /\ latest' = NewLatest(a)
              /\ ignored' = Append(ignored, path)
  /\ UNCHANGED <<fileFreed, gap>>

(* The links along next when a node is unlinked; the mutant forgets them.  *)
NextForgotten(a) == following
NextUnlinked(a) ==
  [b \in DOMAIN following |->
     IF b = previous[a] THEN following[a] ELSE following[b]]

(* ms_inoti_delete_ignore_file                                             *)
DeleteIgnoreFile(path) ==
  LET a == FindIgnoreFile(path)
  IN  /\ a # NULL
      /\ LET neighbours == {previous[a], following[a]} \ {NULL}
         IN  Touching(Searched(IgnoreChain, file, path) \cup neighbours)
      /\ following' = NextUnlinked(a)
      /\ previous' = [b \in DOMAIN previous |->
                        IF b = following[a] THEN previous[a] ELSE previous[b]]
      /\ latest' = IF a = latest THEN previous[a] ELSE latest
      /\ fileFreed' = fileFreed \cup {a}
      /\ ignored' = RemoveFirst(ignored, path)
      /\ UNCHANGED <<file, gap>>

(* The links along previous after the card's files were taken out. In the  *)
(* mutant they are left as they are.                                       *)
NotUnlinked(kept) == previous
UnlinkedFiles(kept) == Relinked(previous, kept)

(* ms_inoti_delete_mmc_ignore_file                                         *)
DeleteMmcIgnoreFile ==
  LET kept    == Among(IgnoreChain, {a \in DOMAIN file : file[a] \notin CardFiles})
      removed == ToSet(IgnoreChain) \ ToSet(kept)
  IN  /\ Touching(ToSet(IgnoreChain))
      /\ latest' = HeadOrNull(kept)
      /\ previous' = UnlinkedFiles(kept)
      /\ fileFreed' = fileFreed \cup removed
      /\ gap' = (gap \/ \E a \in ToSet(kept) : following[a] \in removed)
      /\ ignored' = Among(ignored, Files \ CardFiles)
      /\ UNCHANGED <<file, following>>

-----------------------------------------------------------------------------
(* Until freed memory is touched, following the pointers gives the files   *)
(* that were added and not deleted, latest first.                          *)
IgnoredAreListed ==
  ~dangled => [i \in DOMAIN IgnoreChain |-> file[IgnoreChain[i]]] = Reverse(ignored)

(* Freed memory is touched only where a card file had been freed behind a  *)
(* phone file: neither the deletion of files nor the removal of the card   *)
(* does it alone.                                                          *)
OnlyGapsDangle == dangled => gap
=============================================================================
