---------------------------- MODULE ScanPlugIns ----------------------------
(***************************************************************************)
(* The scan thread and its plug-ins (ms_scan_thread, common/media-server-  *)
(* scan.c, and the bulk operations of common/media-server-db-svc.c). Each  *)
(* plug-in has a database and a connection of its own, and any call of one *)
(* may fail. Some operations go on to the next plug-in then, some return.  *)
(* The scan thread goes on with the request in any case, except when it is *)
(* not connected.                                                          *)
(*                                                                         *)
(* The requests are those for the memory card. Which request a card gets,  *)
(* kills and uncommitted rows are in ScanThread. What a plug-in does with a*)
(* connection it has not made, or has closed, is undefined; the model stops*)
(* there.                                                                  *)
(***************************************************************************)
EXTENDS Integers, Sequences, FiniteSets

CONSTANTS
  Files,         (* The files a card may have.                             *)
  LibNum,        (* lib_num                                                *)
  Category,      (* The plug-ins that accept each file.                    *)
  MaxChanges,    (* Bound: the card is inserted or removed.                *)
  MaxFailures    (* Bound: calls of plug-ins that fail.                    *)

Libs == 1..LibNum

ASSUME PlugInAssumption ==
  /\ LibNum \in Nat
  /\ Category \in [Files -> SUBSET Libs]
  /\ {MaxChanges, MaxFailures} \subseteq Nat

MS_SCAN_INVALID == 0
MS_SCAN_PART    == 1
MS_SCAN_ALL     == 2
POWEROFF        == 10000
Types == {MS_SCAN_INVALID, MS_SCAN_PART, MS_SCAN_ALL, POWEROFF}

VARIABLES
  card,       (* External: {the files on the mounted card}, or {}.         *)
  requests,   (* scan_queue and garray: the types, in the order of garray. *)
  pc,         (* Where the scan thread is.                                 *)
  type,       (* scan_type                                                 *)
  handle,     (* handle[l]: "open", "closed", or "unset" after malloc.     *)
  handleSet,  (* handle # NULL                                             *)
  rows,       (* External: rows[l] for each file, as plug-in l shows them. *)
  visited,    (* The files of this scan that have been read.               *)
  powerOff,   (* power_off                                                 *)
  misused,    (* A plug-in was given a connection that is not open.        *)
  broken,     (* History: the last connection could not be made or closed. *)
  suspect,    (* History: plug-ins whose rows may be wrong, because one of *)
              (* their calls failed or was never made.                     *)
  changes, failures   (* What the bounds count.                            *)

vars == <<card, requests, pc, type, handle, handleSet, rows, visited, powerOff,
          misused, broken, suspect, changes, failures>>

TypeOK ==
  /\ card \in {{}} \cup {{F} : F \in SUBSET Files}
  /\ requests \in Seq(Types)
  /\ pc \in {"loop", "connect", "delete", "start", "validate", "scan", "end",
             "validated", "clean", "disconnect", "last", "exited"}
  /\ type \in Types
  /\ handle \in [Libs -> {"unset", "open", "closed"}]
  /\ rows \in [Libs -> [Files -> {"absent", "invalid", "valid"}]]
  /\ visited \subseteq Files
  /\ {handleSet, powerOff, misused, broken} \subseteq BOOLEAN
  /\ suspect \subseteq Libs
  /\ changes \in 0..MaxChanges /\ failures \in 0..MaxFailures

(* The slot is empty and _db_clear has made all rows invalid.              *)
Init ==
  /\ card = {} /\ requests = <<>>
  /\ pc = "loop" /\ type = POWEROFF
  /\ handle = [l \in Libs |-> "unset"] /\ handleSet = FALSE
  /\ rows \in [Libs -> [Files -> {"absent", "invalid"}]]
  /\ visited = {} /\ powerOff = FALSE
  /\ misused = FALSE /\ broken = FALSE /\ suspect = {}
  /\ changes = 0 /\ failures = 0

-----------------------------------------------------------------------------
(* The main loop. A request takes the place of those for more, POWEROFF    *)
(* comes first (_insert_array).                                            *)
InsertArray(new) ==
  requests' = IF new = POWEROFF THEN <<new>> \o requests
              ELSE IF \E i \in DOMAIN requests : requests[i] \in (new + 1)..MS_SCAN_ALL
              THEN [i \in DOMAIN requests |->
                      IF requests[i] \in (new + 1)..MS_SCAN_ALL THEN new
                                                               ELSE requests[i]]
              ELSE Append(requests, new)

(* ms_mmc_vconf_cb                                                         *)
ChangeCard ==
  /\ changes < MaxChanges /\ ~powerOff
  /\ changes' = changes + 1
  /\ \/ /\ card = {}
        /\ \E F \in SUBSET Files : card' = {F}
        /\ \E new \in {MS_SCAN_PART, MS_SCAN_ALL} : InsertArray(new)
     \/ /\ card # {}
        /\ card' = {}
        /\ InsertArray(MS_SCAN_INVALID)
  /\ UNCHANGED <<pc, type, handle, handleSet, rows, visited, powerOff, misused,
                 broken, suspect, failures>>

(* _power_off_cb                                                           *)
PowerOff ==
  /\ ~powerOff
  /\ powerOff' = TRUE
  /\ InsertArray(POWEROFF)
  /\ UNCHANGED <<card, pc, type, handle, handleSet, rows, visited, misused,
                 broken, suspect, changes, failures>>

-----------------------------------------------------------------------------
(* An operation that calls every plug-in whatever happens: F fail.         *)
SomeFail(F) ==
  /\ failures + Cardinality(F) <= MaxFailures
  /\ failures' = failures + Cardinality(F)

(* An operation that returns at the first failure: plug-in k fails, or none*)
(* when k is LibNum + 1.                                                   *)
FirstFailure == 1..(LibNum + 1)
FailsAt(k) == SomeFail(Libs \cap {k})
Called(k)  == 1..(k - 1)

(* The next request, without waiting for its connection.                   *)
Take ==
  /\ pc = "loop" /\ requests # <<>>
  /\ type' = Head(requests) /\ requests' = Tail(requests)
  /\ pc' = IF Head(requests) # POWEROFF THEN "connect"
           ELSE IF handleSet THEN "last" ELSE "exited"
  /\ UNCHANGED <<card, handle, handleSet, rows, visited, powerOff, misused,
                 broken, suspect, changes, failures>>

(* ms_connect_db: the array is new; when a connection fails, the rest of it*)
(* is as malloc left it, and the request is dropped. One mutant leaves out *)
(* the rest, one does not look at the result.                              *)
ConnectedOnly(k) == [l \in Called(k) |-> "open"]
Connected(k) == [l \in Libs |-> IF l < k THEN "open" ELSE "unset"]

ConnectDb ==
  /\ pc = "connect"
  /\ handleSet' = TRUE
  /\ \E k \in FirstFailure :
       /\ FailsAt(k)
       /\ handle' = Connected(k)
       /\ broken' = (k \in Libs)
       /\ suspect' = IF k \in Libs THEN Libs ELSE suspect
       /\ pc' = IF k \in Libs THEN "loop"
                ELSE IF type = MS_SCAN_ALL THEN "delete" ELSE "start"
  /\ UNCHANGED <<card, requests, type, rows, visited, powerOff, misused, changes>>

(* ms_delete_all_items: the plug-ins behind a failure keep their rows.     *)
DeleteAllItems ==
  /\ pc = "delete"
  /\ \E k \in FirstFailure :
       /\ FailsAt(k)
       /\ rows' = [l \in Libs |-> IF l < k THEN [f \in Files |-> "absent"] ELSE rows[l]]
       /\ suspect' = (suspect \ Called(k)) \cup (Libs \ Called(k))
  /\ pc' = "start"
  /\ UNCHANGED <<card, requests, type, handle, handleSet, visited, powerOff,
                 misused, broken, changes>>

(* "call for bundle commit": a plug-in that does not open or close its     *)
(* bundle may lose what is in it.                                          *)
Bundle ==
  /\ \E F \in SUBSET Libs : SomeFail(F) /\ suspect' = suspect \cup F
  /\ UNCHANGED <<card, requests, type, handle, handleSet, rows, powerOff,
                 misused, broken, changes>>

RegisterStart ==
  /\ pc = "start"
  /\ Bundle
  /\ visited' = {}
  /\ pc' = IF type = MS_SCAN_PART THEN "validate" ELSE "scan"

ValidateStart ==
  /\ pc = "validate"
  /\ Bundle
  /\ pc' = "scan"
  /\ UNCHANGED visited

(* ms_invalidate_all_items                                                 *)
InvalidateAllItems ==
  /\ pc = "scan" /\ type = MS_SCAN_INVALID
  /\ \E F \in SUBSET Libs :
       /\ SomeFail(F)
       /\ rows' = [l \in Libs |->
                     IF l \in F THEN rows[l]
                     ELSE [f \in Files |-> IF rows[l][f] = "absent" THEN "absent"
                                                                    ELSE "invalid"]]
       /\ suspect' = F
  /\ pc' = "end"
  /\ UNCHANGED <<card, requests, type, handle, handleSet, visited, powerOff,
                 misused, broken, changes>>

(* The plug-ins that are called for a file: all that accept it. The mutant *)
(* returns at a failure.                                                   *)
CalledUntil(f, F) == {l \in Category[f] : \A k \in F : l < k}
CalledFor(f, F) == Category[f]

(* What a call makes of a row: ms_validate_item inserts what is missing and*)
(* revives the rest, ms_insert_item_batch is refused where there is a row. *)
Stored(row) ==
  IF type = MS_SCAN_PART \/ row = "absent" THEN "valid" ELSE row

Stopped == powerOff \/ card = {}

(* One file of _ms_dir_scan. Without its MIME type no plug-in is called.   *)
ScanFile(f) ==
  /\ pc = "scan" /\ type # MS_SCAN_INVALID
  /\ ~Stopped /\ \A on \in card : f \in on
  /\ f \notin visited
  /\ visited' = visited \cup {f}
  /\ \/ \E F \in SUBSET Category[f] :
          /\ SomeFail(F)
          /\ rows' = [l \in Libs |->
                        IF l \in CalledFor(f, F) \ F
                        THEN [rows[l] EXCEPT ![f] = Stored(@)] ELSE rows[l]]
          /\ suspect' = suspect \cup F
     \/ /\ failures < MaxFailures /\ failures' = failures + 1
        /\ suspect' = suspect \cup Category[f]
        /\ UNCHANGED rows
  /\ UNCHANGED <<card, requests, pc, type, handle, handleSet, powerOff, misused,
                 broken, changes>>

(* The end of _ms_dir_scan.                                                *)
ScanEnd ==
  /\ pc = "scan" /\ type # MS_SCAN_INVALID
  /\ Stopped \/ \A on \in card : on \subseteq visited
  /\ pc' = "end"
  /\ UNCHANGED <<card, requests, type, handle, handleSet, rows, visited, powerOff,
                 misused, broken, suspect, changes, failures>>

(* power_off is looked at once more.                                       *)
RegisterEnd ==
  /\ pc = "end"
  /\ \/ /\ powerOff
        /\ pc' = "last"
        /\ UNCHANGED <<card, requests, type, handle, handleSet, rows, visited,
                       powerOff, misused, broken, suspect, changes, failures>>
     \/ /\ ~powerOff
        /\ Bundle
        /\ pc' = IF type = MS_SCAN_PART THEN "validated" ELSE "disconnect"
        /\ UNCHANGED visited

ValidateEnd ==
  /\ pc = "validated"
  /\ Bundle
  /\ pc' = "clean"
  /\ UNCHANGED visited

(* ms_delete_invalid_items                                                 *)
DeleteInvalidItems ==
  /\ pc = "clean"
  /\ \E k \in FirstFailure :
       /\ FailsAt(k)
       /\ rows' = [l \in Libs |->
                     IF l < k
                     THEN [f \in Files |-> IF rows[l][f] = "valid" THEN "valid" ELSE "absent"]
                     ELSE rows[l]]
  /\ pc' = "disconnect"
  /\ UNCHANGED <<card, requests, type, handle, handleSet, visited, powerOff,
                 misused, broken, suspect, changes>>

(* ms_disconnect_db: after a failure the array and the connections from    *)
(* there on stay. In the mutant the array always stays.                    *)
StaysSet(k) == TRUE
StillSet(k) == k \in Libs

DisconnectDb ==
  /\ pc \in {"disconnect", "last"}
  /\ \E k \in FirstFailure :
       /\ FailsAt(k)
       /\ misused' = (\E l \in Called(k) \cup (Libs \cap {k}) : handle[l] # "open")
       /\ handle' = [l \in Libs |-> IF l < k THEN "closed" ELSE handle[l]]
       /\ handleSet' = StillSet(k)
       /\ broken' = IF pc = "last" THEN broken ELSE k \in Libs
  /\ pc' = IF pc = "last" THEN "exited" ELSE "loop"
  /\ UNCHANGED <<card, requests, type, rows, visited, powerOff, suspect, changes>>

-----------------------------------------------------------------------------
Scanner ==
  \/ Take \/ ConnectDb \/ DeleteAllItems \/ RegisterStart \/ ValidateStart
  \/ InvalidateAllItems
  \/ \E f \in Files : ScanFile(f)
  \/ ScanEnd \/ RegisterEnd \/ ValidateEnd \/ DeleteInvalidItems \/ DisconnectDb

Next == ~misused /\ (ChangeCard \/ PowerOff \/ Scanner)

Spec == Init /\ [][Next]_vars

-----------------------------------------------------------------------------
Shown(l)   == {f \in Files : rows[l][f] = "valid"}
Wanted(l)  == {f \in UNION card : l \in Category[f]}

(* A plug-in is not harmed by the failures of others: when all requests are*)
(* served, the rows it shows are the files on the card that it accepts,    *)
(* unless one of its own calls has failed since its rows were last deleted *)
(* or made invalid, the deletion did not get to it, or a request was       *)
(* dropped because the databases were not connected.                       *)
OthersDoNoHarm ==
  pc = "loop" /\ requests = <<>> =>
    \A l \in Libs \ suspect : Shown(l) = Wanted(l)

(* Plug-ins are called with the connections they have made: all of them are*)
(* open during a scan, none is kept after it, and at a power-off none is   *)
(* closed twice or unmade. The one exception is a power-off that comes     *)
(* right after a connection could not be made or closed: the array is then *)
(* still there.                                                            *)
ConnectionsAreSound ==
  /\ pc \notin {"loop", "connect", "last", "exited"} =>
       \A l \in Libs : handle[l] = "open"
  /\ pc = "loop" /\ handleSet => broken
  /\ misused => broken
=============================================================================
