---------------------------- MODULE InotifyLists ----------------------------
(***************************************************************************)
(* Who changes the list of watches and the ignore list: the main loop when *)
(* the memory card comes and goes (common/media-server-external-storage.c),*)
(* the inotify thread for its events and in its end, and every thread that *)
(* stores a DRM file.                                                      *)
(*                                                                         *)
(* After a use of freed memory the program's behaviour is undefined; the   *)
(* model stops there.                                                      *)
(***************************************************************************)
EXTENDS WatchList, IgnoreList

VARIABLES
  main,      (* "out", "in": where the card is for the main loop, or       *)
             (* "removing": in ms_mmc_removed_handler, between its calls.  *)
  inoti      (* "run", or how far the end of the inotify thread is.        *)

vars == <<watchVars, ignoreVars, main, inoti>>

TypeOK ==
  /\ WatchTypeOK /\ IgnoreTypeOK
  /\ main \in {"out", "in", "removing"}
  /\ inoti \in {"run", "phone", "card", "end"}

Init == WatchInit /\ IgnoreInit /\ main = "out" /\ inoti = "run"

-----------------------------------------------------------------------------
(* ms_mmc_vconf_cb: the card is mounted. ms_make_default_path_mmc and      *)
(* ms_inoti_add_watch_all_directory then add its folders one by one.       *)
CardMounted ==
  /\ main = "out"
  /\ main' = "in"
  /\ UNCHANGED <<watchVars, ignoreVars, inoti>>

AddCardWatch(path) ==
  /\ main = "in" /\ adding["main"] = {}
  /\ AddWatch("main", path)
  /\ UNCHANGED <<ignoreVars, main, inoti>>

(* ms_mmc_removed_handler, two of its calls.                               *)
CardRemoved ==
  /\ main \in {"out", "in"} /\ adding["main"] = {}
  /\ RemoveWatchRecursive("main", CardFolders)
  /\ main' = "removing"
  /\ UNCHANGED <<ignoreVars, inoti>>

CardFilesDropped ==
  /\ main = "removing"
  /\ DeleteMmcIgnoreFile
  /\ main' = "out"
  /\ UNCHANGED <<watchVars, inoti>>

-----------------------------------------------------------------------------
InotiIdle == inoti = "run" /\ adding["inoti"] = {}

(* ms_inoti_thread: a folder was made, deleted or renamed.                 *)
FolderMade(path) ==
  /\ InotiIdle
  /\ AddWatch("inoti", path)
  /\ UNCHANGED <<ignoreVars, main, inoti>>

FolderDeleted(path) ==
  /\ InotiIdle
  /\ RemoveWatch("inoti", path)
  /\ UNCHANGED <<ignoreVars, main, inoti>>

FolderRenamed(from, to) ==
  /\ InotiIdle
  /\ ModifyWatch("inoti", from, to)
  /\ UNCHANGED <<ignoreVars, main, inoti>>

Link(t) ==
  /\ LinkWatch(t)
  /\ UNCHANGED <<ignoreVars, main, inoti>>

(* A DRM file is stored, by any of the three threads, or deleted, by the   *)
(* inotify thread.                                                         *)
FileStored(path) ==
  /\ AddIgnoreFile(path)
  /\ UNCHANGED <<watchVars, main, inoti>>

FileDeleted(path) ==
  /\ InotiIdle
  /\ DeleteIgnoreFile(path)
  /\ UNCHANGED <<watchVars, main, inoti>>

(* The end of ms_inoti_thread, call by call.                               *)
InotiEnd ==
  /\ adding["inoti"] = {}
  /\ \/ inoti = "run" /\ inoti' = "phone" /\ RemoveWatch("inoti", Noti)
     \/ /\ inoti = "phone" /\ inoti' = "card"
        /\ RemoveWatchRecursive("inoti", PhoneFolders)
     \/ /\ inoti = "card" /\ inoti' = "end"
        /\ RemoveWatchRecursive("inoti", CardFolders)
  /\ UNCHANGED <<ignoreVars, main>>

-----------------------------------------------------------------------------
Next ==
  /\ ~dangled
  /\ \/ CardMounted \/ CardRemoved \/ CardFilesDropped \/ InotiEnd
     \/ \E path \in CardFolders : AddCardWatch(path)
     \/ \E path \in Folders \ {Noti} : FolderMade(path) \/ FolderDeleted(path)
     \/ \E from, to \in Folders \ {Noti} : from # to /\ FolderRenamed(from, to)
     \/ \E t \in Threads : Link(t)
     \/ \E path \in Files : FileStored(path) \/ FileDeleted(path)

Spec == Init /\ [][Next]_vars
=============================================================================
