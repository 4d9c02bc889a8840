-------------------------- MODULE ScanThreadProofs --------------------------
(***************************************************************************)
(* Proofs about ScanThread, for any files, any cards and any bounds: the   *)
(* types, that an unfinished scan is marked in the persistent status, and  *)
(* that no request is in two places. The last one needs to know how many   *)
(* requests for the card there can be, and so the order in which the main  *)
(* loop pushes them: between two requests to scan a card there is one to   *)
(* drop it, across the request in work, garray and scan_queue (Alternate), *)
(* because the main loop is behind the key by one change at most (Follows, *)
(* Asked). Then the rows of the database after scans: those of the memory  *)
(* card, at rest, are those of the card in the slot (RestShowsCard), and   *)
(* the repair of the phone's rows after an interrupted scan is forgotten   *)
(* only by the end of the process (OnlyEndsForget).                        *)
(***************************************************************************)
EXTENDS ScanThread, QueueLemmas, FiniteSetTheorems, TLAPS

USE ScanAssumption DEF ScanAssumption

(* The requests main pushes: to stop, to scan the phone in full, and to    *)
(* scan or to drop a card. Their address is not NULL.                      *)
Mount(r) == r.storage = "external" /\ r.type \in {MS_SCAN_PART, MS_SCAN_ALL}
Drop(r)  == r.storage = "external" /\ r.type = MS_SCAN_INVALID
Repair(r) == r.storage = "internal" /\ r.type = MS_SCAN_ALL
Stop(r)  == r.storage = "none" /\ r.type = POWEROFF

Live == {r \in Requests : r.id # 0 /\ (Mount(r) \/ Drop(r) \/ Repair(r) \/ Stop(r))}

-----------------------------------------------------------------------------
(* malloc finds an address.                                                *)
LEMMA FiniteIds ==
  ASSUME NEW S, NEW q \in Seq(S)
  PROVE  IsFiniteSet({q[i].id : i \in DOMAIN q})
<1> DEFINE f == [i \in 1..Len(q) |-> q[i].id]
           T == {q[i].id : i \in DOMAIN q}
<1>1. Len(q) \in Nat /\ DOMAIN q = 1..Len(q)
  OBVIOUS
<1>2. f \in Surjection(1..Len(q), T)
  BY <1>1 DEF Surjection
<1>3. IsFiniteSet(1..Len(q))
  BY <1>1, Interval
<1> QED
  BY <1>2, <1>3, FS_Surjection

LEMMA FreshIsFree ==
  ASSUME NEW S, scanQueue \in Seq(S), garray \in Seq(S)
  PROVE  /\ Fresh \in Nat \ {0}
         /\ \A i \in 1..Len(scanQueue) : scanQueue[i].id # Fresh
         /\ \A i \in 1..Len(garray) : garray[i].id # Fresh
         /\ cur.id # Fresh
<1> DEFINE n == Cardinality(InUse)
<1>1. InUse = {scanQueue[i].id : i \in DOMAIN scanQueue}
                \cup {garray[i].id : i \in DOMAIN garray} \cup {cur.id}
  BY DEF InUse
<1>2. IsFiniteSet(InUse) /\ n \in Nat
  <2>1. /\ IsFiniteSet({scanQueue[i].id : i \in DOMAIN scanQueue})
        /\ IsFiniteSet({garray[i].id : i \in DOMAIN garray})
    BY FiniteIds
  <2>2. IsFiniteSet(InUse)
    BY <1>1, <2>1, FS_AddElement, FS_Union
  <2> QED
    BY <2>2, FS_CardinalityType
<1>3. \E i \in 1..(n + 1) : i \notin InUse
  <2>1. IsFiniteSet(1..(n + 1)) /\ Cardinality(1..(n + 1)) = n + 1
    BY <1>2, Interval
  <2>2. ~(1..(n + 1) \subseteq InUse)
    BY <1>2, <2>1, FS_Subset
  <2> QED
    BY <2>2
<1>4. Fresh \in 1..(n + 1) /\ Fresh \notin InUse
  BY <1>3 DEF Fresh
<1> QED
  BY <1>1, <1>2, <1>4

-----------------------------------------------------------------------------
(* The part of the invariant that typing rests on: the slot agrees with the*)
(* key, and each label of the scan thread has the request it needs.        *)
SlotOK ==
  /\ mmcKey = "removed" <=> slot.card = NoCard
  /\ slot.card = NoCard => slot.files = {}
  /\ notified <= changes

ScanOK ==
  /\ main \in {"clear", "mark", "threads"} => scan = "off"
  /\ scan \in {"off", "loop"} => cur = NoRequest
  /\ scan \notin {"off", "loop", "exited"} => cur.type # POWEROFF
  /\ scan = "file" => entry \in Names /\ cur.type # MS_SCAN_INVALID
  /\ scan = "delete" => cur.type = MS_SCAN_ALL
  /\ scan = "validate" => cur.type = MS_SCAN_PART
  /\ scan = "info" => cur.type = MS_SCAN_ALL /\ cur.storage = "external"

QueuesOK ==
  /\ scanQueue \in Seq(Live) /\ garray \in Seq(Live)
  /\ cur \in Live \cup {NoRequest}

Typed == TypeOK /\ SlotOK /\ ScanOK /\ QueuesOK


LEMMA ConstantsInRange ==
  /\ {MS_SCAN_INVALID, MS_SCAN_PART, MS_SCAN_ALL, POWEROFF} \subseteq Nat
  /\ MS_SCAN_INVALID # MS_SCAN_PART /\ MS_SCAN_INVALID # MS_SCAN_ALL
  /\ MS_SCAN_PART # MS_SCAN_ALL
  /\ POWEROFF \notin {MS_SCAN_INVALID, MS_SCAN_PART, MS_SCAN_ALL}
  /\ NoRequest \in Requests /\ NoRequest.id = 0 /\ NoRequest.storage = "none"
  /\ NoRequest.type = POWEROFF
BY DEF MS_SCAN_INVALID, MS_SCAN_PART, MS_SCAN_ALL, POWEROFF, NoRequest, Requests

(* A row stays a row.                                                      *)
LEMMA RowsOK ==
  ASSUME NEW d \in [Storages -> [Names -> Rows]], NEW s \in Storages
  PROVE  Invalidated(d, s) \in [Storages -> [Names -> Rows]]
<1>1. \A row \in Rows : Invalid(row) \in Rows
  BY DEF Invalid, Rows
<1>2. [n \in Names |-> Invalid(d[s][n])] \in [Names -> Rows]
  BY <1>1
<1> QED
  BY <1>2 DEF Invalidated

(* What Push puts on the queue.                                            *)
LEMMA PushOK ==
  ASSUME QueuesOK, NEW storage \in Storages \cup {"none"},
         NEW type \in {MS_SCAN_INVALID, MS_SCAN_PART, MS_SCAN_ALL, POWEROFF},
         storage = "none" <=> type = POWEROFF,
         storage = "internal" => type = MS_SCAN_ALL, Push(storage, type)
  PROVE  \E r \in Live :
           /\ r.storage = storage /\ r.type = type
           /\ scanQueue' = Append(scanQueue, r)
           /\ scanQueue' \in Seq(Live) /\ scanQueue' # <<>>
           /\ \A i \in 1..Len(scanQueue) : scanQueue[i].id # r.id
           /\ \A i \in 1..Len(garray) : garray[i].id # r.id
           /\ cur.id # r.id
<1> DEFINE r == [id |-> Fresh, storage |-> storage, type |-> type]
<1>1. scanQueue \in Seq(Live) /\ garray \in Seq(Live)
  BY DEF QueuesOK
<1>2. r \in Live /\ r.id = Fresh /\ r.storage = storage /\ r.type = type
  <2>1. r \in Requests /\ r.id # 0
    BY <1>1, FreshIsFree DEF Requests
  <2>2. Mount(r) \/ Drop(r) \/ Repair(r) \/ Stop(r)
    BY DEF Mount, Drop, Repair, Stop, Storages
  <2> QED
    BY <2>1, <2>2 DEF Live
<1>3. scanQueue' = Append(scanQueue, r)
  BY DEF Push
<1> HIDE DEF r
<1>4. scanQueue' \in Seq(Live) /\ scanQueue' # <<>>
  BY <1>1, <1>2, <1>3
<1> QED
  BY <1>1, <1>2, <1>3, <1>4, FreshIsFree

(* What _insert_array does to garray.                                      *)
LEMMA InsertOK ==
  ASSUME NEW g \in Seq(Live), NEW r \in Live
  PROVE  /\ InsertArray(g, r) \in Seq(Live)
         /\ \/ InsertArray(g, r) = <<r>> \o g /\ r.type = POWEROFF
            \/ /\ InsertArray(g, r) = Append(g, r) /\ r.type # POWEROFF
               /\ \A i \in 1..Len(g) : ~Outdoes(r, g[i])
            \/ /\ Len(InsertArray(g, r)) = Len(g) /\ r.type # POWEROFF
               /\ \E i \in 1..Len(g) : Outdoes(r, g[i])
               /\ \A i \in 1..Len(g) :
                    InsertArray(g, r)[i] = IF Outdoes(r, g[i]) THEN r ELSE g[i]
<1>1. CASE r.type = POWEROFF
  BY <1>1, Prefixed DEF InsertArray
<1>2. CASE r.type # POWEROFF /\ ~\E i \in DOMAIN g : Outdoes(r, g[i])
  BY <1>2, Appended DEF InsertArray
<1>3. CASE r.type # POWEROFF /\ \E i \in DOMAIN g : Outdoes(r, g[i])
  <2> DEFINE f == [i \in DOMAIN g |-> IF Outdoes(r, g[i]) THEN r ELSE g[i]]
  <2>1. InsertArray(g, r) = f
    BY <1>3 DEF InsertArray
  <2>2. f \in Seq(Live) /\ Len(f) = Len(g)
    BY Replaced
  <2>3. DOMAIN g = 1..Len(g)
    OBVIOUS
  <2> QED
    BY <1>3, <2>1, <2>2, <2>3
<1> QED
  BY <1>1, <1>2, <1>3

LEMMA LiveRequests == \A q \in Seq(Live) : q \in Seq(Requests)
BY DEF Live

(* One row, or the rows of one storage, change.                            *)
LEMMA RowChanged ==
  ASSUME NEW d \in [Storages -> [Names -> Rows]], NEW s \in Storages,
         NEW n \in Names, NEW row \in Rows
  PROVE  [d EXCEPT ![s][n] = row] \in [Storages -> [Names -> Rows]]
OBVIOUS

LEMMA RowsChanged ==
  ASSUME NEW d \in [Storages -> [Names -> Rows]], NEW s \in Storages,
         NEW f \in [Names -> Rows]
  PROVE  [d EXCEPT ![s] = f] \in [Storages -> [Names -> Rows]]
OBVIOUS

LEMMA TypedInit == Init => Typed
<1> SUFFICES ASSUME Init PROVE Typed
  OBVIOUS
<1> USE ConstantsInRange DEF Init
<1>1. Shown("internal") \in [Names -> Rows] /\ Shown("external") \in [Names -> Rows]
  BY DEF Shown, Rows
<1>2. disk \in [Storages -> [Names -> Rows]] /\ db = disk
  BY <1>1 DEF Storages
<1>3. <<>> \in Seq(Requests) /\ <<>> \in Seq(Live)
  OBVIOUS
<1>4. /\ 0 \in 0..MaxChanges /\ 0 \in 0..MaxStops
      /\ 0 \in 0..MaxFailures /\ 0 \in 0..MaxFileOps
  OBVIOUS
<1>5. TypeOK
  BY <1>2, <1>3, <1>4 DEF TypeOK
<1> QED
  BY <1>3, <1>5 DEF Typed, SlotOK, ScanOK, QueuesOK


(* Every step keeps the types.                                             *)
LEMMA TypedNext == Typed /\ [Next]_vars => Typed'
<1> SUFFICES ASSUME Typed, [Next]_vars PROVE Typed'
  OBVIOUS
<1>0. /\ MaxChanges \in Nat /\ MaxStops \in Nat
      /\ MaxFailures \in Nat /\ MaxFileOps \in Nat
  OBVIOUS
<1> USE <1>0, ConstantsInRange
    DEF Typed, TypeOK, SlotOK, ScanOK, QueuesOK, mmc, mainVars, scanVars, counters
<1>1. CASE BootClear
  <2>1. disk' \in [Storages -> [Names -> Rows]]
    <3>1. Invalidated(disk, "external") \in [Storages -> [Names -> Rows]]
      BY RowsOK DEF Storages
    <3>2. Invalidated(Invalidated(disk, "external"), "internal")
            \in [Storages -> [Names -> Rows]]
      BY <3>1, RowsOK DEF Storages
    <3> QED
      BY <1>1, <3>1, <3>2 DEF BootClear
  <2>2. db' = disk' /\ needDbCreate' \in BOOLEAN /\ main = "clear" /\ main' = "mark"
        /\ UNCHANGED <<mmc, mmcInfo, dbStatus, mmcState, scanType, powerOff, scanQueue,
                       garray, scan, cur, entry, visited, counters>>
    BY <1>1 DEF BootClear, NeedDbCreate
  <2> QED
    BY <2>1, <2>2
<1>2. CASE BootMark
  BY <1>2 DEF BootMark
<1>3. CASE BootThreads
  BY <1>3 DEF BootThreads
<1>4. CASE BootPhone
  <2>1. scanQueue' \in Seq(Live)
    <3>1. CASE needDbCreate
      BY <1>4, <3>1, PushOK DEF BootPhone, Storages
    <3> QED
      BY <1>4, <3>1 DEF BootPhone
  <2>2. scanQueue' \in Seq(Requests)
    BY <2>1, LiveRequests
  <2>3. UNCHANGED <<mmc, mmcInfo, dbStatus, disk, needDbCreate, mmcState, scanType,
                    powerOff, scanVars, counters>> /\ main = "phone" /\ main' = "mmc"
    BY <1>4 DEF BootPhone
  <2> QED
    BY <2>1, <2>2, <2>3
<1>5. CASE BootMmc
  BY <1>5 DEF BootMmc
<1>6. CASE CardChanged
  BY <1>6 DEF CardChanged
<1>7. CASE CardRemoved
  <2>1. Push("external", MS_SCAN_INVALID) /\ main = "removed" /\ main' = "loop"
        /\ UNCHANGED <<mmc, mmcInfo, dbStatus, disk, needDbCreate, mmcState,
                       scanType, powerOff, scanVars, counters>>
    BY <1>7 DEF CardRemoved
  <2>2. scanQueue' \in Seq(Live)
    BY <2>1, PushOK DEF Storages
  <2>3. scanQueue' \in Seq(Requests)
    BY <2>2, LiveRequests
  <2> QED
    BY <2>1, <2>2, <2>3
<1>8. CASE GetMmcState
  BY <1>8 DEF GetMmcState, SameCard, Cid
<1>9. CASE CardMounted
  <2>1. Push("external", scanType) /\ main = "push" /\ main' = "loop"
        /\ UNCHANGED <<mmc, mmcInfo, dbStatus, disk, needDbCreate, mmcState,
                       scanType, powerOff, scanVars, counters>>
    BY <1>9 DEF CardMounted
  <2>2. scanQueue' \in Seq(Live)
    BY <2>1, PushOK DEF Storages
  <2>3. scanQueue' \in Seq(Requests)
    BY <2>2, LiveRequests
  <2> QED
    BY <2>1, <2>2, <2>3
<1>10. CASE PowerOffPush
  <2>1. Push("none", POWEROFF) /\ main = "poweroff" /\ main' = "join"
        /\ UNCHANGED <<mmc, mmcInfo, dbStatus, disk, needDbCreate, mmcState,
                       scanType, powerOff, scanVars, counters>>
    BY <1>10 DEF PowerOffPush, NotifyScanThread
  <2>2. scanQueue' \in Seq(Live)
    BY <2>1, PushOK DEF Storages
  <2>3. scanQueue' \in Seq(Requests)
    BY <2>2, LiveRequests
  <2> QED
    BY <2>1, <2>2, <2>3
<1>11. CASE Join
  <2>1. <<>> \in Seq(Live) /\ <<>> \in Seq(Requests)
    OBVIOUS
  <2>2. Boot(disk) /\ UNCHANGED <<slot, mmcKey, mmcInfo, dbStatus, disk, changes>>
    BY <1>11 DEF Join
  <2>3. /\ stops' \in 0..MaxStops /\ failures' \in 0..MaxFailures
        /\ fileOps' \in 0..MaxFileOps
    BY <1>11 DEF Join
  <2>4. /\ notified' \in 0..MaxChanges /\ notified' <= changes'
        /\ scanQueue' \in Seq(Live) /\ scanQueue' \in Seq(Requests)
        /\ garray' \in Seq(Live) /\ garray' \in Seq(Requests)
    BY <2>1, <2>2 DEF Boot
  <2> QED
    BY <2>2, <2>3, <2>4 DEF Boot
<1>12. CASE ScanMerge
  <2>1. /\ scanQueue \in Seq(Live) /\ garray \in Seq(Live) /\ scanQueue # <<>>
        /\ garray' = InsertArray(garray, Head(scanQueue))
        /\ scanQueue' = Tail(scanQueue)
    BY <1>12 DEF ScanMerge
  <2>2. scanQueue' \in Seq(Live) /\ garray' \in Seq(Live)
    BY <2>1, Tailed, InsertOK
  <2>3. scanQueue' \in Seq(Requests) /\ garray' \in Seq(Requests)
    BY <2>2, LiveRequests
  <2>4. UNCHANGED <<mmc, mmcInfo, dbStatus, disk, mainVars, scan, cur, db, entry,
                    visited, counters>>
    BY <1>12 DEF ScanMerge
  <2> QED
    BY <2>2, <2>3, <2>4
<1>13. CASE ScanTake
  <2>1. /\ garray \in Seq(Live) /\ garray # <<>> /\ cur' = Head(garray)
        /\ garray' = Tail(garray) /\ scan = "loop"
        /\ scan' = IF cur'.type = POWEROFF THEN "exited" ELSE "connect"
        /\ UNCHANGED <<mmc, mmcInfo, dbStatus, disk, mainVars, scanQueue, db, entry,
                       visited, counters>>
    BY <1>13 DEF ScanTake, TakenOut, ServedAt
  <2>2. cur' \in Live /\ garray' \in Seq(Live)
    BY <2>1, Tailed
  <2>3. garray' \in Seq(Requests)
    BY <2>2, LiveRequests
  <2>4. cur' \in Requests /\ (cur'.type # POWEROFF => cur'.storage \in Storages)
    BY <2>2 DEF Live, Mount, Drop, Repair, Stop, Storages
  <2> QED
    BY <2>1, <2>2, <2>3, <2>4
<1>14. CASE ScanConnect
  BY <1>14 DEF ScanConnect
<1>15. CASE ScanBegin
  BY <1>15 DEF ScanBegin, BeginStatus
<1>16. CASE ScanDeleteAll
  <2>1. [n \in Names |-> Absent] \in [Names -> Rows] /\ cur.storage \in Storages
    BY <1>16 DEF ScanDeleteAll, Rows
  <2>2. db' \in [Storages -> [Names -> Rows]] /\ disk' = db'
    BY <1>16, <2>1, RowsChanged DEF ScanDeleteAll
  <2>3. /\ scan = "delete" /\ scan' = "files"
        /\ UNCHANGED <<mmc, mmcInfo, dbStatus, mainVars, scanQueue, garray, cur, entry,
                       visited, counters>>
    BY <1>16 DEF ScanDeleteAll
  <2> QED
    BY <2>1, <2>2, <2>3
<1>17. CASE ScanInvalidate
  <2>1. cur.storage \in Storages
    BY <1>17 DEF ScanInvalidate
  <2>2. db' \in [Storages -> [Names -> Rows]] /\ disk' \in {disk, db'}
    BY <1>17, <2>1, RowsOK DEF ScanInvalidate
  <2>3. /\ scan = "files" /\ scan' = "end"
        /\ UNCHANGED <<mmc, mmcInfo, dbStatus, mainVars, scanQueue, garray, cur, entry,
                       visited, counters>>
    BY <1>17 DEF ScanInvalidate
  <2> QED
    BY <2>1, <2>2, <2>3
<1>18. CASE ScanReadDir
  BY <1>18 DEF ScanReadDir, Files, Stopped
<1>19. CASE ScanFile
  <2>1. cur.storage \in Storages /\ entry \in Names
    BY <1>19 DEF ScanFile
  <2>2. entry \in Files => Medium \in Cards \cup {Phone}
    BY <2>1 DEF Files, Medium, Storages
  <2>3. ASSUME entry \in Files, NEW row \in Rows PROVE Validated(row) \in Rows
    BY <2>2, <2>3 DEF Validated, Added, Rows
  <2>4. db' \in [Storages -> [Names -> Rows]] /\ disk' \in {disk, db'}
    BY <1>19, <2>1, <2>3, RowChanged DEF ScanFile
  <2>5. /\ scan = "file" /\ scan' = "files" /\ entry' = Absent
        /\ UNCHANGED <<mmc, mmcInfo, dbStatus, mainVars, scanQueue, garray, cur,
                       visited, counters>>
    BY <1>19 DEF ScanFile
  <2> QED
    BY <2>1, <2>4, <2>5
<1>20. CASE ScanEnd
  BY <1>20 DEF ScanEnd
<1>21. CASE ScanDeleteInvalid
  <2> DEFINE old == db[cur.storage]
             f == [n \in Names |-> IF old[n] # Absent /\ ~old[n].valid
                                   THEN Absent ELSE old[n]]
  <2>1. cur.storage \in Storages
    BY <1>21 DEF ScanDeleteInvalid
  <2>2. f \in [Names -> Rows]
    BY <2>1 DEF Rows
  <2>3. db' = [db EXCEPT ![cur.storage] = f] /\ disk' = db'
    BY <1>21, <2>1 DEF ScanDeleteInvalid
  <2>4. db' \in [Storages -> [Names -> Rows]] /\ disk' = db'
    BY <2>1, <2>2, <2>3, RowsChanged
  <2>5. /\ scan = "validate" /\ scan' = "updated"
        /\ UNCHANGED <<mmc, mmcInfo, dbStatus, mainVars, scanQueue, garray, cur, entry,
                       visited, counters>>
    BY <1>21 DEF ScanDeleteInvalid
  <2> QED
    BY <2>1, <2>4, <2>5
<1>22. CASE ScanUpdated
  BY <1>22 DEF ScanUpdated
<1>23. CASE ScanUpdateMmcInfo
  BY <1>23 DEF ScanUpdateMmcInfo, Cid
<1>24. CASE ChangeCard
  BY <1>24 DEF ChangeCard, MayChange, Notify
<1>25. CASE FileOperationEnd
  BY <1>25 DEF FileOperationEnd
<1>26. CASE PowerOff
  BY <1>26 DEF PowerOff
<1>27. CASE Crash
  <2>1. <<>> \in Seq(Live) /\ <<>> \in Seq(Requests)
    OBVIOUS
  <2>2. /\ Boot(disk) /\ UNCHANGED <<slot, mmcKey, disk, changes>>
        /\ dbStatus' \in {dbStatus, "updating"} /\ mmcInfo' \in {mmcInfo, NoCard}
    BY <1>27 DEF Crash
  <2>3. /\ stops' \in 0..MaxStops /\ failures' \in 0..MaxFailures
        /\ fileOps' \in 0..MaxFileOps
    BY <1>27 DEF Crash
  <2>4. /\ notified' \in 0..MaxChanges /\ notified' <= changes'
        /\ scanQueue' \in Seq(Live) /\ scanQueue' \in Seq(Requests)
        /\ garray' \in Seq(Live) /\ garray' \in Seq(Requests)
    BY <2>1, <2>2 DEF Boot
  <2> QED
    BY <2>2, <2>3, <2>4 DEF Boot
<1>28. CASE UNCHANGED vars
  BY <1>28 DEF vars
<1> QED
  BY <1>1, <1>2, <1>3, <1>4, <1>5, <1>6, <1>7, <1>8, <1>9, <1>10, <1>11, <1>12, <1>13, <1>14, <1>15, <1>16, <1>17, <1>18, <1>19, <1>20, <1>21, <1>22, <1>23, <1>24, <1>25, <1>26, <1>27, <1>28
     DEF Next, Server, Scanner

(* The types hold in every reachable state, whatever the card does and     *)
(* wherever the process is killed.                                         *)
THEOREM ScanTyping == Spec => []TypeOK
<1>1. Typed => TypeOK
  BY DEF Typed
<1> QED
  BY <1>1, TypedInit, TypedNext, PTL DEF Spec

(* While the rows of a scan are incomplete the persistent status says so,  *)
(* as long as no file operation of the file manager has ended: its event is*)
(* the only thing besides the scan itself that sets the status.            *)
THEOREM ScansAreMarked == Spec => [](fileOps = 0 => ScanIsMarked)
<1> DEFINE Marked == fileOps = 0 => ScanIsMarked
<1>1. Init => Marked
  BY DEF Init, ScanIsMarked
<1>2. Typed /\ Marked /\ [Next]_vars => Marked'
  <2> SUFFICES ASSUME Typed, Marked, [Next]_vars, fileOps' = 0
               PROVE  ScanIsMarked'
    OBVIOUS
  <2> USE DEF ScanIsMarked, mmc, mainVars, scanVars, counters
  <2>1. fileOps \in Nat /\ (main = "mark" => scan = "off")
    BY DEF Typed, TypeOK, ScanOK
  <2>2. CASE Server
    BY <2>1, <2>2 DEF Server, BootClear, BootMark, BootThreads, BootPhone, BootMmc,
       CardChanged, CardRemoved, GetMmcState, CardMounted, PowerOffPush, Join, Boot
  <2>3. CASE ScanMerge \/ ScanTake \/ ScanConnect \/ ScanBegin \/ ScanDeleteAll
    BY <2>3 DEF ScanMerge, ScanTake, ServedAt, ScanConnect, ScanBegin, BeginStatus,
       ScanDeleteAll
  <2>4. CASE ScanInvalidate \/ ScanReadDir \/ ScanFile \/ ScanEnd
    BY <2>4 DEF ScanInvalidate, ScanReadDir, ScanFile, ScanEnd
  <2>5. CASE ScanDeleteInvalid \/ ScanUpdated \/ ScanUpdateMmcInfo
    BY <2>5 DEF ScanDeleteInvalid, ScanUpdated, ScanUpdateMmcInfo
  <2>6. CASE ChangeCard \/ FileOperationEnd \/ PowerOff \/ Crash
    BY <2>1, <2>6 DEF ChangeCard, FileOperationEnd, PowerOff, Crash, Boot
  <2>7. CASE UNCHANGED vars
    BY <2>7 DEF vars
  <2> QED
    BY <2>2, <2>3, <2>4, <2>5, <2>6, <2>7 DEF Next, Scanner
<1> QED
  BY <1>1, <1>2, TypedInit, TypedNext, PTL DEF Spec

-----------------------------------------------------------------------------
(* What the sequences of requests say about the card: whether there is one *)
(* to scan it and one to drop it, whether the last one is to scan it, and  *)
(* whether it is dropped before it is scanned.                             *)
HasMount(q) == \E i \in 1..Len(q) : Mount(q[i])
HasDrop(q)  == \E i \in 1..Len(q) : Drop(q[i])
MountIsLast(q) ==
  \A i, j \in 1..Len(q) : Mount(q[i]) /\ (Mount(q[j]) \/ Drop(q[j])) => j <= i
EndsOpen(q) ==
  \E i \in 1..Len(q) : Mount(q[i]) /\ \A k \in 1..Len(q) : Drop(q[k]) => k < i
DropFirst(q) ==
  \A j \in 1..Len(q) : Mount(q[j]) => \E k \in 1..Len(q) : k < j /\ Drop(q[k])
DropBetween(q) ==
  \A i, j \in 1..Len(q) :
    i < j /\ Mount(q[i]) /\ Mount(q[j]) =>
      \E k \in 1..Len(q) : i < k /\ k < j /\ Drop(q[k])

(* Between two requests to scan a card there is one to drop it, across the *)
(* request in work, garray and scan_queue.                                 *)
Alternate ==
  /\ MountIsLast(garray) /\ DropBetween(scanQueue)
  /\ HasMount(garray) => DropFirst(scanQueue)
  /\ Mount(cur) => DropFirst(scanQueue) \/ HasDrop(garray)
  /\ Mount(cur) /\ HasMount(garray) => HasDrop(garray)

(* These lemmas reduce every operation on a queue to what it does to them. *)
LEMMA NoRequests ==
  /\ ~HasMount(<<>>) /\ ~HasDrop(<<>>) /\ MountIsLast(<<>>)
  /\ ~EndsOpen(<<>>) /\ DropFirst(<<>>) /\ DropBetween(<<>>)
BY DEF HasMount, HasDrop, MountIsLast, EndsOpen, DropFirst, DropBetween

LEMMA MountXorDrop == \A r : ~(Mount(r) /\ Drop(r))
BY DEF Mount, Drop, MS_SCAN_INVALID, MS_SCAN_PART, MS_SCAN_ALL

LEMMA Viewed ==
  ASSUME NEW q \in Seq(Live)
  PROVE  /\ EndsOpen(q) => HasMount(q)
         /\ HasMount(q) /\ ~HasDrop(q) => EndsOpen(q)
         /\ ~DropFirst(q) => HasMount(q)
         /\ HasMount(q) /\ DropFirst(q) => HasDrop(q)
BY DEF HasMount, HasDrop, EndsOpen, DropFirst

LEMMA PushView ==
  ASSUME NEW q \in Seq(Live), NEW r \in Live, DropBetween(q),
         Mount(r) => ~EndsOpen(q)
  PROVE  LET t == Append(q, r)
         IN  /\ HasMount(t) <=> HasMount(q) \/ Mount(r)
             /\ HasDrop(t) <=> HasDrop(q) \/ Drop(r)
             /\ DropFirst(t) <=> DropFirst(q) /\ (Mount(r) => HasDrop(q))
             /\ EndsOpen(t) <=> Mount(r) \/ (EndsOpen(q) /\ ~Drop(r))
             /\ DropBetween(t)
<1> DEFINE t == Append(q, r)
           n == Len(q)
<1>1. /\ n \in Nat /\ Len(t) = n + 1 /\ t[n + 1] = r
      /\ \A i \in 1..n : t[i] = q[i]
  BY Appended
<1>2. /\ \A i \in 1..n : i \in 1..(n + 1) /\ i < n + 1
      /\ n + 1 \in 1..(n + 1) /\ ~(n + 1 < n + 1)
      /\ \A i \in 1..(n + 1) : i \in 1..n \/ i = n + 1
  BY <1>1
<1>3. ~(Mount(r) /\ Drop(r))
  BY MountXorDrop
<1> HIDE DEF t, n
<1>4. \A i \in 1..n : (Mount(t[i]) <=> Mount(q[i])) /\ (Drop(t[i]) <=> Drop(q[i]))
  BY <1>1
<1>5. HasMount(t) <=> HasMount(q) \/ Mount(r)
  BY <1>1, <1>2, <1>4 DEF HasMount, n
<1>6. HasDrop(t) <=> HasDrop(q) \/ Drop(r)
  BY <1>1, <1>2, <1>4 DEF HasDrop, n
<1>7. DropFirst(t) <=> DropFirst(q) /\ (Mount(r) => HasDrop(q))
  BY <1>1, <1>2, <1>3, <1>4 DEF DropFirst, HasDrop, n
<1>8. EndsOpen(t) <=> Mount(r) \/ (EndsOpen(q) /\ ~Drop(r))
  BY <1>1, <1>2, <1>3, <1>4 DEF EndsOpen, n
<1>9. DropBetween(t)
  <2> SUFFICES ASSUME NEW i \in 1..(n + 1), NEW j \in 1..(n + 1),
                      i < j, Mount(t[i]), Mount(t[j])
               PROVE  \E k \in 1..(n + 1) : i < k /\ k < j /\ Drop(t[k])
    BY <1>1 DEF DropBetween
  <2>1. i \in 1..n
    BY <1>1
  <2>2. CASE j \in 1..n
    <3>1. PICK k \in 1..n : i < k /\ k < j /\ Drop(q[k])
      BY <1>4, <2>1, <2>2 DEF DropBetween, n
    <3> QED
      BY <1>2, <1>4, <3>1
  <2>3. CASE j = n + 1
    <3>1. ~EndsOpen(q) /\ Mount(q[i])
      BY <1>1, <1>4, <2>1, <2>3
    <3>2. PICK k \in 1..n : Drop(q[k]) /\ ~(k < i)
      BY <2>1, <3>1 DEF EndsOpen, n
    <3>3. k # i
      BY <3>1, <3>2, MountXorDrop
    <3> QED
      BY <1>2, <1>4, <2>1, <2>3, <3>2, <3>3
  <2> QED
    BY <1>2, <2>2, <2>3
<1> QED
  BY <1>5, <1>6, <1>7, <1>8, <1>9 DEF t

LEMMA TailView ==
  ASSUME NEW q \in Seq(Live), q # <<>>, DropBetween(q)
  PROVE  LET t == Tail(q)
             r == q[1]
         IN  /\ HasMount(q) <=> HasMount(t) \/ Mount(r)
             /\ HasDrop(q) <=> HasDrop(t) \/ Drop(r)
             /\ Mount(r) => ~DropFirst(q) /\ DropFirst(t)
             /\ Drop(r) => DropFirst(q)
             /\ ~Mount(r) /\ ~Drop(r) => (DropFirst(q) <=> DropFirst(t))
             /\ EndsOpen(q) <=> EndsOpen(t) \/ (Mount(r) /\ ~HasDrop(t))
             /\ DropBetween(t)
<1> DEFINE t == Tail(q)
           r == q[1]
           I == 1..Len(t)
           J == 1..Len(q)
<1>1. PICK sh \in [I -> J] :
        /\ 1 \in J
        /\ \A i \in I : t[i] = q[sh[i]] /\ 1 < sh[i]
        /\ \A i \in J : ~(i < 1)
        /\ \A i \in J : i = 1 \/ \E j \in I : i = sh[j]
        /\ \A i, j \in I : sh[i] < sh[j] <=> i < j
  BY Moved
<1>2. \A i \in I : /\ sh[i] \in J
                   /\ Mount(t[i]) <=> Mount(q[sh[i]])
                   /\ Drop(t[i]) <=> Drop(q[sh[i]])
  BY <1>1
<1>3. ~(Mount(r) /\ Drop(r))
  BY MountXorDrop
<1>0. /\ HasMount(q) <=> \E i \in J : Mount(q[i])
      /\ HasDrop(q) <=> \E i \in J : Drop(q[i])
      /\ HasMount(t) <=> \E i \in I : Mount(t[i])
      /\ HasDrop(t) <=> \E i \in I : Drop(t[i])
  BY DEF HasMount, HasDrop
<1>a. /\ DropFirst(q) <=> \A j \in J : Mount(q[j]) => \E k \in J : k < j /\ Drop(q[k])
      /\ DropFirst(t) <=> \A j \in I : Mount(t[j]) => \E k \in I : k < j /\ Drop(t[k])
  BY DEF DropFirst
<1>b. /\ EndsOpen(q) <=>
           \E i \in J : Mount(q[i]) /\ \A k \in J : Drop(q[k]) => k < i
      /\ EndsOpen(t) <=>
           \E i \in I : Mount(t[i]) /\ \A k \in I : Drop(t[k]) => k < i
  BY DEF EndsOpen
<1>c. /\ \A i, j \in J : i < j /\ Mount(q[i]) /\ Mount(q[j]) =>
           \E k \in J : i < k /\ k < j /\ Drop(q[k])
      /\ DropBetween(t) <=>
           \A i, j \in I : i < j /\ Mount(t[i]) /\ Mount(t[j]) =>
             \E k \in I : i < k /\ k < j /\ Drop(t[k])
  BY DEF DropBetween
<1> HIDE DEF t, I, J
<1>5. HasMount(q) <=> HasMount(t) \/ Mount(r)
  BY <1>0, <1>1, <1>2
<1>6. HasDrop(q) <=> HasDrop(t) \/ Drop(r)
  BY <1>0, <1>1, <1>2
<1>7. Mount(r) => ~DropFirst(q) /\ DropFirst(t)
  <2> SUFFICES ASSUME Mount(r) PROVE ~DropFirst(q) /\ DropFirst(t)
    OBVIOUS
  <2>1. ~DropFirst(q)
    BY <1>1, <1>a
  <2>2. ASSUME NEW j \in I, Mount(t[j]) PROVE \E k \in I : k < j /\ Drop(t[k])
    <3>1. PICK k \in J : 1 < k /\ k < sh[j] /\ Drop(q[k])
      BY <1>1, <1>2, <1>c, <2>2
    <3>2. PICK i \in I : k = sh[i]
      BY <1>1, <1>3, <3>1
    <3> QED
      BY <1>1, <1>2, <3>1, <3>2
  <2> QED
    BY <1>a, <2>1, <2>2
<1>8. Drop(r) => DropFirst(q)
  <2> SUFFICES ASSUME Drop(r), NEW j \in J, Mount(q[j])
               PROVE  \E k \in J : k < j /\ Drop(q[k])
    BY <1>a
  <2>1. PICK i \in I : j = sh[i]
    BY <1>1, <1>3
  <2> QED
    BY <1>1, <2>1
<1>9. ~Mount(r) /\ ~Drop(r) => (DropFirst(q) <=> DropFirst(t))
  <2> SUFFICES ASSUME ~Mount(r), ~Drop(r) PROVE DropFirst(q) <=> DropFirst(t)
    OBVIOUS
  <2>1. ASSUME DropFirst(q), NEW j \in I, Mount(t[j])
        PROVE  \E k \in I : k < j /\ Drop(t[k])
    <3>1. PICK k \in J : k < sh[j] /\ Drop(q[k])
      BY <1>2, <1>a, <2>1
    <3>2. PICK i \in I : k = sh[i]
      BY <1>1, <3>1
    <3> QED
      BY <1>1, <1>2, <3>1, <3>2
  <2>2. ASSUME DropFirst(t), NEW j \in J, Mount(q[j])
        PROVE  \E k \in J : k < j /\ Drop(q[k])
    <3>1. PICK i \in I : j = sh[i]
      BY <1>1, <2>2
    <3>2. PICK k \in I : k < i /\ Drop(t[k])
      BY <1>2, <1>a, <2>2, <3>1
    <3> QED
      BY <1>1, <1>2, <3>1, <3>2
  <2> QED
    BY <1>a, <2>1, <2>2
<1>10. EndsOpen(q) <=> EndsOpen(t) \/ (Mount(r) /\ ~HasDrop(t))
  <2>1. ASSUME NEW i \in J, Mount(q[i]), \A k \in J : Drop(q[k]) => k < i, i # 1
        PROVE  EndsOpen(t)
    BY <1>1, <1>2, <1>b, <2>1
  <2>2. ASSUME EndsOpen(t) PROVE EndsOpen(q)
    <3>1. PICK i \in I : Mount(t[i]) /\ \A k \in I : Drop(t[k]) => k < i
      BY <1>b, <2>2
    <3> QED
      BY <1>1, <1>2, <1>b, <3>1
  <2>3. (Mount(r) /\ \A k \in J : Drop(q[k]) => k < 1) <=> (Mount(r) /\ ~HasDrop(t))
    BY <1>0, <1>1, <1>2, <1>3
  <2> QED
    BY <1>1, <1>b, <2>1, <2>2, <2>3
<1>11. DropBetween(t)
  <2> SUFFICES ASSUME NEW i \in I, NEW j \in I, i < j, Mount(t[i]), Mount(t[j])
               PROVE  \E k \in I : i < k /\ k < j /\ Drop(t[k])
    BY <1>c
  <2>1. PICK m \in J : sh[i] < m /\ m < sh[j] /\ Drop(q[m])
    BY <1>1, <1>2, <1>c
  <2>2. PICK k \in I : m = sh[k]
    BY <1>1, <1>2, <2>1
  <2> QED
    BY <1>1, <1>2, <2>1, <2>2
<1> QED
  BY <1>5, <1>6, <1>7, <1>8, <1>9, <1>10, <1>11 DEF t

LEMMA TakeView ==
  ASSUME NEW g \in Seq(Live), g # <<>>, MountIsLast(g)
  PROVE  LET t == Tail(g)
             r == g[1]
         IN  /\ HasMount(g) <=> HasMount(t) \/ Mount(r)
             /\ HasDrop(g) <=> HasDrop(t) \/ Drop(r)
             /\ Mount(r) => ~HasMount(t) /\ ~HasDrop(g)
             /\ MountIsLast(t)
<1> DEFINE t == Tail(g)
           r == g[1]
           I == 1..Len(t)
           J == 1..Len(g)
<1>1. PICK sh \in [I -> J] :
        /\ 1 \in J
        /\ \A i \in I : t[i] = g[sh[i]] /\ 1 < sh[i]
        /\ \A i \in J : ~(i < 1)
        /\ \A i \in J : i = 1 \/ \E j \in I : i = sh[j]
        /\ \A i, j \in I : sh[i] < sh[j] <=> i < j
  BY Moved
<1>2. /\ \A i, j \in J : i <= j <=> ~(j < i)
      /\ \A i, j \in I : i <= j <=> ~(j < i)
  OBVIOUS
<1>3. ~(Mount(r) /\ Drop(r))
  BY MountXorDrop
<1>0. /\ HasMount(g) <=> \E i \in J : Mount(g[i])
      /\ HasDrop(g) <=> \E i \in J : Drop(g[i])
      /\ HasMount(t) <=> \E i \in I : Mount(t[i])
      /\ HasDrop(t) <=> \E i \in I : Drop(t[i])
      /\ \A i, j \in J : Mount(g[i]) /\ (Mount(g[j]) \/ Drop(g[j])) => ~(i < j)
      /\ MountIsLast(t) <=>
           \A i, j \in I : Mount(t[i]) /\ (Mount(t[j]) \/ Drop(t[j])) => ~(i < j)
  BY <1>2 DEF HasMount, HasDrop, MountIsLast
<1> HIDE DEF t, I, J
<1>5. HasMount(g) <=> HasMount(t) \/ Mount(r)
  BY <1>0, <1>1
<1>6. HasDrop(g) <=> HasDrop(t) \/ Drop(r)
  BY <1>0, <1>1
<1>7. Mount(r) => ~HasMount(t) /\ ~HasDrop(g)
  BY <1>0, <1>1, <1>3
<1>8. MountIsLast(t)
  BY <1>0, <1>1
<1> QED
  BY <1>5, <1>6, <1>7, <1>8 DEF t

(* What _insert_array takes the place of, among live requests.             *)
LEMMA Outdone ==
  ASSUME NEW r \in Live, NEW old \in Live
  PROVE  /\ Drop(r) /\ Mount(old) => Outdoes(r, old)
         /\ Outdoes(r, old) => Mount(old) /\ (Mount(r) \/ Drop(r))
<1> USE DEF Mount, Drop, Repair, Stop, Outdoes, MS_SCAN_INVALID, MS_SCAN_PART,
            MS_SCAN_ALL, POWEROFF
<1>1. /\ Mount(r) \/ Drop(r) \/ Repair(r) \/ Stop(r)
      /\ Mount(old) \/ Drop(old) \/ Repair(old) \/ Stop(old)
  BY DEF Live
<1> QED
  BY <1>1

LEMMA InsertView ==
  ASSUME NEW g \in Seq(Live), NEW r \in Live, MountIsLast(g),
         Mount(r) => ~HasMount(g)
  PROVE  LET t == InsertArray(g, r)
         IN  /\ HasMount(t) <=> Mount(r) \/ (HasMount(g) /\ ~Drop(r))
             /\ HasDrop(t) <=> HasDrop(g) \/ Drop(r)
             /\ MountIsLast(t)
<1> DEFINE t == InsertArray(g, r)
           n == Len(g)
<1>0. n \in Nat /\ (\A i \in 1..n : g[i] \in Live) /\ ~(Mount(r) /\ Drop(r))
  BY MountXorDrop
<1>m. \A i, j \in 1..n : Mount(g[i]) /\ (Mount(g[j]) \/ Drop(g[j])) => j <= i
  BY DEF MountIsLast
<1>1. CASE t = <<r>> \o g /\ r.type = POWEROFF
  <2>1. Len(t) = n + 1 /\ t[1] = r /\ \A i \in 1..n : t[i + 1] = g[i]
    BY <1>1, Prefixed
  <2>2. ~Mount(r) /\ ~Drop(r)
    BY <1>1 DEF Mount, Drop, MS_SCAN_INVALID, MS_SCAN_PART, MS_SCAN_ALL, POWEROFF
  <2>3. t \in Seq(Live) /\ t # <<>> /\ Tail(t) = g
    BY <1>1, <2>1
  <2> HIDE DEF t
  <2> DEFINE u == Tail(t)
             I == 1..Len(u)
             J == 1..Len(t)
  <2>4. PICK sh \in [I -> J] :
          /\ 1 \in J
          /\ \A i \in I : u[i] = t[sh[i]] /\ 1 < sh[i]
          /\ \A i \in J : ~(i < 1)
          /\ \A i \in J : i = 1 \/ \E j \in I : i = sh[j]
          /\ \A i, j \in I : sh[i] < sh[j] <=> i < j
    BY <2>3, Moved
  <2>b. /\ HasMount(t) <=> \E i \in J : Mount(t[i])
        /\ HasDrop(t) <=> \E i \in J : Drop(t[i])
        /\ HasMount(g) <=> \E i \in I : Mount(g[i])
        /\ HasDrop(g) <=> \E i \in I : Drop(g[i])
        /\ \A i, j \in I : Mount(g[i]) /\ (Mount(g[j]) \/ Drop(g[j])) => ~(i < j)
        /\ MountIsLast(t) <=>
             \A i, j \in J : Mount(t[i]) /\ (Mount(t[j]) \/ Drop(t[j])) => ~(i < j)
    <3>1. /\ \A i, j \in I : j <= i <=> ~(i < j)
          /\ \A i, j \in J : j <= i <=> ~(i < j)
      OBVIOUS
    <3>2. I = 1..Len(g)
      BY <2>3
    <3> HIDE DEF I, u
    <3>3. /\ HasMount(g) <=> \E i \in I : Mount(g[i])
          /\ HasDrop(g) <=> \E i \in I : Drop(g[i])
          /\ \A i, j \in I : Mount(g[i]) /\ (Mount(g[j]) \/ Drop(g[j])) => ~(i < j)
      BY <1>m, <3>1, <3>2 DEF HasMount, HasDrop
    <3>4. /\ HasMount(t) <=> \E i \in J : Mount(t[i])
          /\ HasDrop(t) <=> \E i \in J : Drop(t[i])
          /\ MountIsLast(t) <=>
               \A i, j \in J : Mount(t[i]) /\ (Mount(t[j]) \/ Drop(t[j])) => ~(i < j)
      BY <3>1 DEF HasMount, HasDrop, MountIsLast
    <3> QED
      BY ONLY <3>3, <3>4
  <2> HIDE DEF u, I, J
  <2>5. \A i \in I : sh[i] \in J /\ t[sh[i]] = g[i]
    BY <2>3, <2>4 DEF u
  <2>6. HasMount(t) <=> HasMount(g)
    BY <2>1, <2>2, <2>4, <2>5, <2>b
  <2>7. HasDrop(t) <=> HasDrop(g)
    BY <2>1, <2>2, <2>4, <2>5, <2>b
  <2>8. MountIsLast(t)
    <3> SUFFICES ASSUME NEW i \in J, NEW j \in J, Mount(t[i]),
                        Mount(t[j]) \/ Drop(t[j])
                 PROVE  ~(i < j)
      BY <2>b
    <3>1. PICK k \in I : i = sh[k]
      BY <2>1, <2>2, <2>4
    <3>2. PICK m \in I : j = sh[m]
      BY <2>1, <2>2, <2>4
    <3>3. ~(k < m)
      BY <2>b, <2>5, <3>1, <3>2
    <3> QED
      BY <2>4, <3>1, <3>2, <3>3
  <2> QED
    BY <2>2, <2>6, <2>7, <2>8 DEF t
<1>2. CASE /\ t = Append(g, r) /\ r.type # POWEROFF
           /\ \A i \in 1..n : ~Outdoes(r, g[i])
  <2>1. /\ Len(t) = n + 1 /\ t[n + 1] = r
        /\ \A i \in 1..n : t[i] = g[i]
    BY <1>2, Appended
  <2>2. /\ \A i \in 1..n : i \in 1..(n + 1)
        /\ n + 1 \in 1..(n + 1)
        /\ \A i \in 1..(n + 1) : i \in 1..n \/ i = n + 1
    BY <1>0
  <2>3. Drop(r) => \A i \in 1..n : ~Mount(g[i])
    BY <1>0, <1>2, Outdone
  <2> HIDE DEF t, n
  <2>4. HasMount(t) <=> HasMount(g) \/ Mount(r)
    BY <2>1, <2>2 DEF HasMount, n
  <2>5. HasDrop(t) <=> HasDrop(g) \/ Drop(r)
    BY <2>1, <2>2 DEF HasDrop, n
  <2>6. Drop(r) => ~HasMount(g)
    BY <2>3 DEF HasMount, n
  <2>7. MountIsLast(t)
    <3> SUFFICES ASSUME NEW i \in 1..(n + 1), NEW j \in 1..(n + 1), Mount(t[i]),
                        Mount(t[j]) \/ Drop(t[j])
                 PROVE  j <= i
      BY <2>1 DEF MountIsLast
    <3>1. CASE i \in 1..n
      <4>1. HasMount(g)
        BY <2>1, <3>1 DEF HasMount, n
      <4>2. j \in 1..n
        BY <2>1, <2>2, <2>6, <4>1
      <4> QED
        BY <1>m, <2>1, <3>1, <4>2
    <3>2. CASE i = n + 1
      BY <1>0, <3>2
    <3> QED
      BY <2>2, <3>1, <3>2
  <2> QED
    BY <2>4, <2>5, <2>6, <2>7 DEF t
<1>3. CASE /\ Len(t) = n /\ \E i \in 1..n : Outdoes(r, g[i])
           /\ \A i \in 1..n : t[i] = IF Outdoes(r, g[i]) THEN r ELSE g[i]
  <2>1. PICK m \in 1..n : Outdoes(r, g[m])
    BY <1>3
  <2>2. HasMount(g) /\ Drop(r) /\ ~Mount(r)
    BY <1>0, <2>1, Outdone DEF HasMount
  <2> HIDE DEF t
  <2>3. \A i \in 1..n : ~Mount(t[i])
    BY <1>0, <1>3, <2>2, Outdone
  <2>4. t[m] = r
    BY <1>3, <2>1
  <2>5. ~HasMount(t) /\ MountIsLast(t)
    BY <1>3, <2>3 DEF HasMount, MountIsLast
  <2>6. HasDrop(t)
    BY <1>3, <2>2, <2>4 DEF HasDrop
  <2> QED
    BY <2>2, <2>5, <2>6 DEF t
<1>4. \/ t = <<r>> \o g /\ r.type = POWEROFF
      \/ /\ t = Append(g, r) /\ r.type # POWEROFF
         /\ \A i \in 1..n : ~Outdoes(r, g[i])
      \/ /\ Len(t) = n /\ \E i \in 1..n : Outdoes(r, g[i])
         /\ \A i \in 1..n : t[i] = IF Outdoes(r, g[i]) THEN r ELSE g[i]
  BY InsertOK
<1> QED
  BY ONLY <1>1, <1>2, <1>3, <1>4

(* The last request about the card is to scan it.                          *)
OpenMount ==
  EndsOpen(scanQueue) \/ (HasMount(garray) /\ ~HasDrop(scanQueue))
OpenCur == Mount(cur) /\ ~HasDrop(garray) /\ ~HasDrop(scanQueue)

(* The main thread follows the key: what it knows of the card is behind by *)
(* one change at most.                                                     *)
Follows ==
  /\ notified \in {0, 1}
  /\ main \notin {"loop", "poweroff", "join"} => notified = 0
  /\ main \in {"clear", "mark", "threads", "phone", "mmc"} => mmcState = "removed"
  /\ main \in {"loop", "removed", "decide", "push", "poweroff", "join"} =>
       IF notified = 0 THEN mmcState = "mounted" <=> mmcKey = "mounted"
       ELSE mmcState = "mounted" => mmcKey # "mounted"
  /\ main \in {"decide", "push"} => mmcState = "mounted"
  /\ main = "removed" => mmcState # "mounted"
  /\ powerOff => main \in {"poweroff", "join"}

(* What the queues hold fits what the main thread knows.                   *)
Asked ==
  /\ main \in {"clear", "mark", "threads", "phone"} =>
       scanQueue = <<>> /\ garray = <<>> /\ cur = NoRequest
  /\ main = "mmc" => ~HasDrop(scanQueue) /\ ~HasDrop(garray) /\ ~Drop(cur)
  /\ OpenMount \/ OpenCur =>
       \/ main = "removed"
       \/ mmcState = "mounted" /\ main \in {"loop", "poweroff", "join"}
  /\ (/\ mmcState = "mounted" /\ main \in {"loop", "poweroff", "join"}
      /\ HasDrop(scanQueue) \/ HasDrop(garray) \/ Drop(cur)) => OpenMount

LEMMA FollowsInit == Init => Follows
BY DEF Init, Follows

LEMMA FollowsNext ==
  ASSUME EveryChangeSeen, Typed, Follows, [Next]_vars
  PROVE  Follows'
<1>1. mmcKey = "removed" <=> slot.card = NoCard
  BY DEF Typed, SlotOK
<1> USE DEF Follows, mmc, mainVars, scanVars, counters
<1>2. CASE Server
  BY <1>2 DEF Server, BootClear, BootMark, BootThreads, BootPhone, BootMmc,
     CardChanged, CardRemoved, GetMmcState, CardMounted, PowerOffPush, Join, Boot
<1>3. CASE Scanner
  BY <1>3 DEF Scanner, ScanMerge, ScanTake, ScanConnect, ScanBegin, ScanDeleteAll,
     ScanInvalidate, ScanReadDir, ScanFile, ScanEnd, ScanDeleteInvalid, ScanUpdated,
     ScanUpdateMmcInfo
<1>4. CASE ChangeCard
  BY <1>1, <1>4 DEF ChangeCard, MayChange, Notify
<1>5. CASE FileOperationEnd \/ PowerOff
  BY <1>5 DEF FileOperationEnd, PowerOff
<1>6. CASE Crash
  BY <1>6 DEF Crash, Boot
<1>7. CASE UNCHANGED vars
  BY <1>7 DEF vars
<1> QED
  BY <1>2, <1>3, <1>4, <1>5, <1>6, <1>7 DEF Next

-----------------------------------------------------------------------------
(* What a step may do to the request in work, garray and scan_queue.       *)
Keeps == UNCHANGED <<scanQueue, garray, cur>>
Pushes(r) ==
  /\ r \in Live
  /\ scanQueue' = Append(scanQueue, r) /\ UNCHANGED <<garray, cur>>
  /\ \A i \in 1..Len(scanQueue) : scanQueue[i].id # r.id
  /\ \A i \in 1..Len(garray) : garray[i].id # r.id
  /\ cur.id # r.id
Frees == cur' = NoRequest /\ UNCHANGED <<scanQueue, garray>>

LEMMA Pushed ==
  ASSUME QueuesOK, NEW storage \in Storages \cup {"none"},
         NEW type \in {MS_SCAN_INVALID, MS_SCAN_PART, MS_SCAN_ALL, POWEROFF},
         storage = "none" <=> type = POWEROFF,
         storage = "internal" => type = MS_SCAN_ALL, Push(storage, type),
         UNCHANGED <<garray, cur>>
  PROVE  \E r \in Live : Pushes(r) /\ r.storage = storage /\ r.type = type
<1>1. PICK r \in Live : /\ r.storage = storage /\ r.type = type
                        /\ scanQueue' = Append(scanQueue, r)
                        /\ \A i \in 1..Len(scanQueue) : scanQueue[i].id # r.id
                        /\ \A i \in 1..Len(garray) : garray[i].id # r.id
                        /\ cur.id # r.id
  BY PushOK
<1> QED
  BY <1>1 DEF Pushes

(* The steps that change them, with what the main thread does.             *)
LEMMA QueueSteps ==
  ASSUME Typed, [Next]_vars
  PROVE  \/ Keeps /\ main' = main /\ UNCHANGED mmcState
         \/ Keeps /\ (BootClear \/ BootMark \/ BootThreads \/ BootMmc \/ CardChanged
                      \/ GetMmcState \/ PowerOff)
         \/ Keeps /\ main = "phone" /\ main' = "mmc" /\ UNCHANGED mmcState
         \/ \E r \in Live :
              /\ Pushes(r) /\ UNCHANGED mmcState
              /\ \/ Repair(r) /\ main = "phone" /\ main' = "mmc"
                 \/ Drop(r) /\ main = "removed" /\ main' = "loop"
                 \/ Mount(r) /\ main = "push" /\ main' = "loop"
                 \/ Stop(r) /\ main = "poweroff" /\ main' = "join"
         \/ ScanMerge \/ ScanTake
         \/ Frees /\ main' = main /\ UNCHANGED mmcState
         \/ Boot(disk)
<1> USE ConstantsInRange DEF mmc, mainVars, scanVars, counters
<1>0. QueuesOK /\ scanType \in {MS_SCAN_PART, MS_SCAN_ALL}
  BY DEF Typed, TypeOK
<1>1. CASE BootPhone
  <2>1. CASE needDbCreate
    BY <1>0, <1>1, <2>1, Pushed DEF BootPhone, Storages, Repair
  <2>2. CASE ~needDbCreate
    BY <1>1, <2>2 DEF BootPhone, Keeps
  <2> QED
    BY <2>1, <2>2
<1>2. CASE CardRemoved
  BY <1>0, <1>2, Pushed DEF CardRemoved, Storages, Drop
<1>3. CASE CardMounted
  BY <1>0, <1>3, Pushed DEF CardMounted, Storages, Mount
<1>4. CASE PowerOffPush
  BY <1>0, <1>4, Pushed DEF PowerOffPush, NotifyScanThread, Storages, Stop
<1>5. CASE BootClear \/ BootMark \/ BootThreads \/ BootMmc \/ CardChanged
           \/ GetMmcState \/ PowerOff
  BY <1>5 DEF BootClear, BootMark, BootThreads, BootMmc, CardChanged, GetMmcState,
     PowerOff, Keeps
<1>6. CASE Join \/ Crash
  BY <1>6 DEF Join, Crash
<1>7. CASE ScanConnect \/ ScanUpdated \/ ScanUpdateMmcInfo
  BY <1>7 DEF ScanConnect, ScanUpdated, ScanUpdateMmcInfo, Keeps, Frees
<1>8. CASE ScanBegin \/ ScanDeleteAll \/ ScanInvalidate \/ ScanReadDir \/ ScanFile
           \/ ScanEnd \/ ScanDeleteInvalid
  BY <1>8 DEF ScanBegin, ScanDeleteAll, ScanInvalidate, ScanReadDir, ScanFile,
     ScanEnd, ScanDeleteInvalid, Keeps
<1>9. CASE ChangeCard \/ FileOperationEnd \/ UNCHANGED vars
  BY <1>9 DEF ChangeCard, FileOperationEnd, vars, Keeps
<1> QED
  BY <1>1, <1>2, <1>3, <1>4, <1>5, <1>6, <1>7, <1>8, <1>9 DEF Next, Server, Scanner

LEMMA AskedInit == Init => Alternate /\ Asked
<1> USE NoRequests, ConstantsInRange
<1> QED
  BY DEF Init, Alternate, Asked, OpenMount, OpenCur, Mount, Drop

LEMMA AskedNext ==
  ASSUME Typed, Follows, Follows', Alternate, Asked, [Next]_vars
  PROVE  Alternate' /\ Asked'
<1> USE DEF Alternate, Asked, OpenMount, OpenCur
<1>0. scanQueue \in Seq(Live) /\ garray \in Seq(Live)
  BY DEF Typed, QueuesOK
<1>1. ~Mount(NoRequest) /\ ~Drop(NoRequest)
  BY ConstantsInRange DEF Mount, Drop
<1>2. \A r : ~(Mount(r) /\ Drop(r))
  BY MountXorDrop
<1>3. /\ EndsOpen(scanQueue) => HasMount(scanQueue)
      /\ HasMount(scanQueue) /\ ~HasDrop(scanQueue) => EndsOpen(scanQueue)
      /\ ~DropFirst(scanQueue) => HasMount(scanQueue)
      /\ HasMount(scanQueue) /\ DropFirst(scanQueue) => HasDrop(scanQueue)
  BY <1>0, Viewed
<1>4. CASE Keeps /\ main' = main /\ UNCHANGED mmcState
  BY <1>4 DEF Keeps
<1>5. CASE Keeps /\ (BootClear \/ BootMark \/ BootThreads \/ BootMmc \/ CardChanged
                     \/ GetMmcState \/ PowerOff)
  <2> USE DEF Keeps, Follows
  <2>1. CASE BootClear \/ BootMark \/ BootThreads
    BY <1>5, <2>1 DEF BootClear, BootMark, BootThreads
  <2>2. CASE BootMmc
    BY <1>5, <2>2 DEF BootMmc
  <2>3. CASE CardChanged
    BY <1>5, <2>3 DEF CardChanged
  <2>4. CASE GetMmcState \/ PowerOff
    BY <1>5, <2>4 DEF GetMmcState, PowerOff, mmc
  <2> QED
    BY <1>5, <2>1, <2>2, <2>3, <2>4
<1>6. CASE Keeps /\ main = "phone" /\ main' = "mmc" /\ UNCHANGED mmcState
  BY <1>1, <1>6, NoRequests DEF Keeps
<1>7. ASSUME NEW r \in Live, Pushes(r), UNCHANGED mmcState,
             \/ Repair(r) /\ main = "phone" /\ main' = "mmc"
             \/ Drop(r) /\ main = "removed" /\ main' = "loop"
             \/ Mount(r) /\ main = "push" /\ main' = "loop"
             \/ Stop(r) /\ main = "poweroff" /\ main' = "join"
      PROVE  Alternate' /\ Asked'
  <2>1. /\ Repair(r) => ~Mount(r) /\ ~Drop(r)
        /\ Stop(r) => ~Mount(r) /\ ~Drop(r)
    BY DEF Repair, Stop, Mount, Drop
  <2>2. Mount(r) => ~OpenMount /\ ~OpenCur /\ mmcState = "mounted"
    BY <1>2, <1>7, <2>1 DEF Follows
  <2>3. LET t == scanQueue'
        IN  /\ HasMount(t) <=> HasMount(scanQueue) \/ Mount(r)
            /\ HasDrop(t) <=> HasDrop(scanQueue) \/ Drop(r)
            /\ DropFirst(t) <=> DropFirst(scanQueue) /\ (Mount(r) => HasDrop(scanQueue))
            /\ EndsOpen(t) <=> Mount(r) \/ (EndsOpen(scanQueue) /\ ~Drop(r))
            /\ DropBetween(t)
    BY <1>0, <1>7, <2>2, PushView DEF Pushes
  <2>4. UNCHANGED <<garray, cur>>
    BY <1>7 DEF Pushes
  <2>5. Alternate'
    BY <1>2, <1>3, <2>2, <2>3, <2>4
  <2>6. Asked'
    <3>1. CASE Repair(r) /\ main = "phone" /\ main' = "mmc"
      BY <1>1, <1>7, <2>1, <2>3, <2>4, <3>1, NoRequests
    <3>2. CASE Drop(r) /\ main = "removed" /\ main' = "loop"
      BY <1>2, <1>7, <2>3, <2>4, <3>2 DEF Follows
    <3>3. CASE Mount(r) /\ main = "push" /\ main' = "loop"
      BY <1>2, <1>7, <2>2, <2>3, <2>4, <3>3
    <3>4. CASE Stop(r) /\ main = "poweroff" /\ main' = "join"
      BY <1>7, <2>1, <2>3, <2>4, <3>4
    <3> QED
      BY <1>7, <3>1, <3>2, <3>3, <3>4
  <2> QED
    BY <2>5, <2>6
<1>8. CASE ScanMerge
  <2> DEFINE r == scanQueue[1]
             q == Tail(scanQueue)
             g == InsertArray(garray, r)
  <2>1. /\ scanQueue # <<>> /\ garray' = g /\ scanQueue' = q /\ r \in Live
        /\ UNCHANGED <<main, mmcState, cur>> /\ scan = "loop"
    BY <1>0, <1>8, Tailed DEF ScanMerge, mainVars
  <2>2. /\ HasMount(scanQueue) <=> HasMount(q) \/ Mount(r)
        /\ HasDrop(scanQueue) <=> HasDrop(q) \/ Drop(r)
        /\ Mount(r) => ~DropFirst(scanQueue) /\ DropFirst(q)
        /\ Drop(r) => DropFirst(scanQueue)
        /\ ~Mount(r) /\ ~Drop(r) => (DropFirst(scanQueue) <=> DropFirst(q))
        /\ EndsOpen(scanQueue) <=> EndsOpen(q) \/ (Mount(r) /\ ~HasDrop(q))
        /\ DropBetween(q)
    BY <1>0, <2>1, TailView
  <2>3. Mount(r) => ~HasMount(garray)
    BY <2>2
  <2>4. /\ HasMount(g) <=> Mount(r) \/ (HasMount(garray) /\ ~Drop(r))
        /\ HasDrop(g) <=> HasDrop(garray) \/ Drop(r)
        /\ MountIsLast(g)
    BY <1>0, <2>1, <2>3, InsertView
  <2>5. ~Mount(cur) /\ ~Drop(cur)
    BY <1>1, <2>1 DEF Typed, ScanOK
  <2>6. q \in Seq(Live)
    BY <1>0, <2>1, Tailed
  <2>7. /\ EndsOpen(q) => HasMount(q)
        /\ HasMount(q) /\ ~HasDrop(q) => EndsOpen(q)
        /\ ~DropFirst(q) => HasMount(q)
        /\ HasMount(q) /\ DropFirst(q) => HasDrop(q)
    BY <2>6, Viewed
  <2>8. main \notin {"clear", "mark", "threads", "phone"}
    BY <2>1
  <2> HIDE DEF r, q, g
  <2> QED
    BY <1>2, <1>3, <2>1, <2>2, <2>3, <2>4, <2>5, <2>7, <2>8
<1>9. CASE ScanTake
  <2> DEFINE r == garray[1]
             g == Tail(garray)
  <2>1. /\ garray # <<>> /\ scanQueue = <<>> /\ scanQueue' = <<>>
        /\ garray' = g /\ cur' = r /\ UNCHANGED <<main, mmcState>> /\ scan = "loop"
    BY <1>0, <1>9, Tailed DEF ScanTake, TakenOut, mainVars
  <2>2. /\ HasMount(garray) <=> HasMount(g) \/ Mount(r)
        /\ HasDrop(garray) <=> HasDrop(g) \/ Drop(r)
        /\ Mount(r) => ~HasMount(g) /\ ~HasDrop(garray)
        /\ MountIsLast(g)
    BY <1>0, <2>1, TakeView
  <2>3. ~Mount(cur) /\ ~Drop(cur)
    BY <1>1, <2>1 DEF Typed, ScanOK
  <2>4. main \notin {"clear", "mark", "threads", "phone"}
    BY <2>1
  <2> HIDE DEF r, g
  <2> QED
    BY <1>2, <2>1, <2>2, <2>3, <2>4, NoRequests
<1>10. CASE Frees /\ main' = main /\ UNCHANGED mmcState
  BY <1>1, <1>10 DEF Frees
<1>11. CASE Boot(disk)
  BY <1>1, <1>11, NoRequests DEF Boot
<1> QED
  BY <1>4, <1>5, <1>6, <1>7, <1>8, <1>9, <1>10, <1>11, QueueSteps

-----------------------------------------------------------------------------
(* No request is live twice, and none has the address 0 of NoRequest.      *)
Apart(q) == \A i, j \in 1..Len(q) : q[i].id = q[j].id => i = j
Distinct ==
  /\ Apart(garray) /\ Apart(scanQueue)
  /\ \A i \in 1..Len(garray), j \in 1..Len(scanQueue) :
       garray[i].id # scanQueue[j].id
  /\ \A i \in 1..Len(garray) : garray[i].id # cur.id
  /\ \A i \in 1..Len(scanQueue) : scanQueue[i].id # cur.id

LEMMA TailApart ==
  ASSUME NEW q \in Seq(Live), q # <<>>, Apart(q)
  PROVE  /\ Apart(Tail(q))
         /\ \A i \in 1..Len(Tail(q)) : /\ Tail(q)[i].id # q[1].id
                                       /\ \E j \in 1..Len(q) : Tail(q)[i] = q[j]
<1> DEFINE t == Tail(q)
           I == 1..Len(t)
           J == 1..Len(q)
<1>1. PICK sh \in [I -> J] :
        /\ 1 \in J
        /\ \A i \in I : t[i] = q[sh[i]] /\ 1 < sh[i]
        /\ \A i \in J : ~(i < 1)
        /\ \A i \in J : i = 1 \/ \E j \in I : i = sh[j]
        /\ \A i, j \in I : sh[i] < sh[j] <=> i < j
  BY Moved
<1>2. \A i, j \in I : i < j \/ j < i \/ i = j
  OBVIOUS
<1>3. \A i, j \in J : q[i].id = q[j].id => i = j
  BY DEF Apart
<1> HIDE DEF t, I, J
<1>4. \A i \in I : sh[i] \in J /\ t[i] = q[sh[i]]
  BY <1>1
<1>5. \A i, j \in I : t[i].id = t[j].id => i = j
  <2> SUFFICES ASSUME NEW i \in I, NEW j \in I, t[i].id = t[j].id PROVE i = j
    OBVIOUS
  <2>1. sh[i] = sh[j]
    BY <1>3, <1>4
  <2>2. \A k \in J : ~(k < k)
    BY DEF J
  <2>3. ~(i < j) /\ ~(j < i)
    BY <1>1, <1>4, <2>1, <2>2
  <2> QED
    BY <1>2, <2>3
<1>6. \A i \in I : t[i].id # q[1].id /\ \E j \in J : t[i] = q[j]
  BY <1>1, <1>3
<1> QED
  BY <1>5, <1>6 DEF Apart, t, I, J

LEMMA AppendApart ==
  ASSUME NEW q \in Seq(Live), NEW r \in Live, Apart(q),
         \A i \in 1..Len(q) : q[i].id # r.id
  PROVE  /\ Apart(Append(q, r))
         /\ \A i \in 1..Len(Append(q, r)) :
              Append(q, r)[i] = r \/ \E j \in 1..Len(q) : Append(q, r)[i] = q[j]
<1> DEFINE t == Append(q, r)
           n == Len(q)
<1>1. /\ n \in Nat /\ Len(t) = n + 1 /\ t[n + 1] = r
      /\ \A i \in 1..n : t[i] = q[i]
  BY Appended
<1>2. \A i \in 1..(n + 1) : i \in 1..n \/ i = n + 1
  BY <1>1
<1> HIDE DEF t, n
<1>3. /\ \A i, j \in 1..n : q[i].id = q[j].id => i = j
      /\ \A i \in 1..n : q[i].id # r.id
  BY DEF Apart, n
<1>4. \A i, j \in 1..(n + 1) : t[i].id = t[j].id => i = j
  BY <1>1, <1>2, <1>3
<1>5. \A i \in 1..(n + 1) : t[i] = r \/ \E j \in 1..n : t[i] = q[j]
  BY <1>1, <1>2
<1> QED
  BY <1>1, <1>4, <1>5 DEF Apart, t, n

(* _insert_array puts the request into one place.                          *)
LEMMA InsertApart ==
  ASSUME NEW g \in Seq(Live), NEW r \in Live, MountIsLast(g), Apart(g),
         \A i \in 1..Len(g) : g[i].id # r.id
  PROVE  /\ Apart(InsertArray(g, r))
         /\ \A i \in 1..Len(InsertArray(g, r)) :
              InsertArray(g, r)[i] = r \/ \E j \in 1..Len(g) : InsertArray(g, r)[i] = g[j]
<1> DEFINE t == InsertArray(g, r)
           n == Len(g)
<1>0. n \in Nat /\ \A i \in 1..n : g[i] \in Live
  OBVIOUS
<1>a. /\ \A i, j \in 1..n : g[i].id = g[j].id => i = j
      /\ \A i \in 1..n : g[i].id # r.id
  BY DEF Apart
<1>1. CASE t = <<r>> \o g
  <2>1. Len(t) = n + 1 /\ t[1] = r /\ \A i \in 1..n : t[i + 1] = g[i]
    BY <1>1, Prefixed
  <2>2. \A i \in 1..(n + 1) : i = 1 \/ (i - 1 \in 1..n /\ t[i] = g[i - 1])
    <3>1. \A i \in 1..(n + 1) : i = 1 \/ (i - 1 \in 1..n /\ (i - 1) + 1 = i)
      BY <1>0
    <3> QED
      BY <2>1, <3>1
  <2> HIDE DEF t, n
  <2>3. \A i, j \in 1..(n + 1) : t[i].id = t[j].id => i = j
    <3> SUFFICES ASSUME NEW i \in 1..(n + 1), NEW j \in 1..(n + 1), t[i].id = t[j].id
                 PROVE  i = j
      OBVIOUS
    <3>1. CASE i = 1 \/ j = 1
      BY <1>a, <2>1, <2>2, <3>1
    <3>2. CASE i # 1 /\ j # 1
      <4>1. i - 1 = j - 1
        BY <1>a, <2>2, <3>2
      <4> QED
        BY <1>0, <4>1
    <3> QED
      BY <3>1, <3>2
  <2>4. \A i \in 1..(n + 1) : t[i] = r \/ \E j \in 1..n : t[i] = g[j]
    BY <2>1, <2>2
  <2> QED
    BY <2>1, <2>3, <2>4 DEF Apart, t, n
<1>2. CASE t = Append(g, r)
  BY <1>2, AppendApart
<1>3. CASE /\ Len(t) = n
           /\ \A i \in 1..n : t[i] = IF Outdoes(r, g[i]) THEN r ELSE g[i]
  <2>1. \A i \in 1..n : Outdoes(r, g[i]) => Mount(g[i])
    BY <1>0, Outdone
  <2>2. \A i, j \in 1..n : Mount(g[i]) /\ Mount(g[j]) => i = j
    <3>1. \A i, j \in 1..n : Mount(g[i]) /\ Mount(g[j]) => j <= i
      BY DEF MountIsLast
    <3> QED
      BY <1>0, <3>1
  <2> HIDE DEF t, n
  <2>3. \A i, j \in 1..n : t[i].id = t[j].id => i = j
    BY <1>3, <1>a, <2>1, <2>2
  <2>4. \A i \in 1..n : t[i] = r \/ \E j \in 1..n : t[i] = g[j]
    BY <1>3
  <2> QED
    BY <1>3, <2>3, <2>4 DEF Apart, t, n
<1>4. \/ t = <<r>> \o g /\ r.type = POWEROFF
      \/ /\ t = Append(g, r) /\ r.type # POWEROFF
         /\ \A i \in 1..n : ~Outdoes(r, g[i])
      \/ /\ Len(t) = n /\ \E i \in 1..n : Outdoes(r, g[i])
         /\ \A i \in 1..n : t[i] = IF Outdoes(r, g[i]) THEN r ELSE g[i]
  BY InsertOK
<1> QED
  BY ONLY <1>1, <1>2, <1>3, <1>4

LEMMA DistinctInit == Init => Distinct
<1>1. Len(<<>>) = 0 /\ 1..0 = {}
  OBVIOUS
<1> QED
  BY <1>1 DEF Init, Distinct, Apart

LEMMA DistinctNext ==
  ASSUME Typed, Alternate, Distinct, [Next]_vars
  PROVE  Distinct'
<1> USE DEF Distinct
<1>0. scanQueue \in Seq(Live) /\ garray \in Seq(Live) /\ MountIsLast(garray)
  BY DEF Typed, QueuesOK, Alternate
<1>a. /\ \A i \in 1..Len(garray) : garray[i] \in Live /\ garray[i].id # 0
      /\ \A i \in 1..Len(scanQueue) : scanQueue[i] \in Live /\ scanQueue[i].id # 0
      /\ NoRequest.id = 0
  BY <1>0, ConstantsInRange DEF Live
<1>1. CASE Keeps
  BY <1>1 DEF Keeps
<1>2. CASE Frees
  BY <1>2, <1>a DEF Frees
<1>3. ASSUME NEW r \in Live, Pushes(r) PROVE Distinct'
  <2>1. /\ scanQueue' = Append(scanQueue, r) /\ UNCHANGED <<garray, cur>>
        /\ \A i \in 1..Len(scanQueue) : scanQueue[i].id # r.id
        /\ \A i \in 1..Len(garray) : garray[i].id # r.id
        /\ cur.id # r.id
    BY <1>3 DEF Pushes
  <2>2. /\ Apart(scanQueue')
        /\ \A i \in 1..Len(scanQueue') :
             scanQueue'[i] = r \/ \E j \in 1..Len(scanQueue) : scanQueue'[i] = scanQueue[j]
    BY <1>0, <2>1, AppendApart
  <2> QED
    BY <2>1, <2>2
<1>4. CASE ScanMerge
  <2> DEFINE r == scanQueue[1]
  <2>1. /\ scanQueue # <<>> /\ garray' = InsertArray(garray, r) /\ r \in Live
        /\ scanQueue' = Tail(scanQueue) /\ cur' = cur /\ 1 \in 1..Len(scanQueue)
    BY <1>0, <1>4, Tailed DEF ScanMerge
  <2>2. /\ Apart(scanQueue')
        /\ \A i \in 1..Len(scanQueue') :
             /\ scanQueue'[i].id # r.id
             /\ \E j \in 1..Len(scanQueue) : scanQueue'[i] = scanQueue[j]
    BY <1>0, <2>1, TailApart
  <2>3. /\ \A i \in 1..Len(garray) : garray[i].id # r.id
        /\ r.id # cur.id
    BY <2>1
  <2>4. /\ Apart(garray')
        /\ \A i \in 1..Len(garray') :
             garray'[i] = r \/ \E j \in 1..Len(garray) : garray'[i] = garray[j]
    BY <1>0, <2>1, <2>3, InsertApart
  <2> HIDE DEF r
  <2>5. \A i \in 1..Len(garray'), j \in 1..Len(scanQueue') :
          garray'[i].id # scanQueue'[j].id
    <3> SUFFICES ASSUME NEW i \in 1..Len(garray'), NEW j \in 1..Len(scanQueue')
                 PROVE  garray'[i].id # scanQueue'[j].id
      OBVIOUS
    <3>1. PICK k \in 1..Len(scanQueue) : scanQueue'[j] = scanQueue[k]
      BY <2>2
    <3>2. CASE garray'[i] = r
      BY <2>2, <3>2
    <3>3. ASSUME NEW l \in 1..Len(garray), garray'[i] = garray[l]
          PROVE  garray'[i].id # scanQueue'[j].id
      BY <3>1, <3>3
    <3> QED
      BY <2>4, <3>2, <3>3
  <2>6. \A i \in 1..Len(garray') : garray'[i].id # cur.id
    BY <2>3, <2>4
  <2>7. \A i \in 1..Len(scanQueue') : scanQueue'[i].id # cur.id
    BY <2>2
  <2> QED
    BY <2>1, <2>2, <2>4, <2>5, <2>6, <2>7
<1>5. CASE ScanTake
  <2> DEFINE r == garray[1]
  <2>1. /\ garray # <<>> /\ garray' = Tail(garray) /\ cur' = r
        /\ scanQueue' = scanQueue /\ 1 \in 1..Len(garray)
    BY <1>0, <1>5, Tailed DEF ScanTake, TakenOut
  <2>2. /\ Apart(garray')
        /\ \A i \in 1..Len(garray') :
             /\ garray'[i].id # r.id
             /\ \E j \in 1..Len(garray) : garray'[i] = garray[j]
    BY <1>0, <2>1, TailApart
  <2>3. \A i \in 1..Len(scanQueue) : scanQueue[i].id # r.id
    BY <2>1
  <2> HIDE DEF r
  <2> QED
    BY <2>1, <2>2, <2>3
<1>6. CASE Boot(disk)
  <2>1. Len(<<>>) = 0 /\ 1..0 = {}
    OBVIOUS
  <2> QED
    BY <1>6, <2>1 DEF Boot, Apart
<1> QED
  BY <1>1, <1>2, <1>3, <1>4, <1>5, <1>6, QueueSteps

(* No request is in two places: the one in work, garray and scan_queue     *)
(* share none, so each is processed once and freed once, whatever          *)
(* _insert_array overlays: of the requests a new one takes the place of    *)
(* there is only one, because between two requests to scan a card main     *)
(* has pushed one to drop it.                                              *)
THEOREM NoRequestTwice ==
  ASSUME EveryChangeSeen
  PROVE  Spec => []RequestsAreDistinct
<1> DEFINE Inv == Typed /\ Follows /\ Alternate /\ Asked /\ Distinct
<1>1. Init => Inv
  BY TypedInit, FollowsInit, AskedInit, DistinctInit
<1>2. Inv /\ [Next]_vars => Inv'
  BY TypedNext, FollowsNext, AskedNext, DistinctNext
<1>3. Inv => RequestsAreDistinct
  <2> SUFFICES ASSUME Inv PROVE RequestsAreDistinct
    OBVIOUS
  <2> DEFINE all == <<cur>> \o garray \o scanQueue
             m == Len(garray)
             n == Len(scanQueue)
  <2>1. /\ garray \in Seq(Requests) /\ scanQueue \in Seq(Requests) /\ cur \in Requests
        /\ m \in Nat /\ n \in Nat
    BY ConstantsInRange DEF Typed, TypeOK
  <2>2. /\ DOMAIN all = 1..(m + n + 1)
        /\ all[1] = cur
        /\ \A i \in 2..(m + 1) : all[i] = garray[i - 1]
        /\ \A i \in (m + 2)..(m + n + 1) : all[i] = scanQueue[i - (m + 1)]
    BY <2>1
  <2>a. RequestsAreDistinct <=>
          \A i, j \in DOMAIN all : i # j => all[i].id # all[j].id
    BY DEF RequestsAreDistinct
  <2> HIDE DEF all, m, n
  <2>b. \A i, j \in 1..(m + n + 1) : i < j \/ j < i \/ i = j
    BY <2>1
  <2>3. SUFFICES ASSUME NEW i \in 1..(m + n + 1), NEW j \in 1..(m + n + 1), i < j
                 PROVE  all[i].id # all[j].id
    BY <2>2, <2>a, <2>b
  <2>c. /\ \A k \in 2..(m + 1) : k - 1 \in 1..m
        /\ \A k \in (m + 2)..(m + n + 1) : k - (m + 1) \in 1..n
    BY <2>1
  <2>d. /\ i = 1 \/ i \in 2..(m + 1) \/ i \in (m + 2)..(m + n + 1)
        /\ j \in 2..(m + 1) \/ (j \in (m + 2)..(m + n + 1))
    BY <2>1, <2>3
  <2>e. /\ i - 1 # j - 1 /\ i - (m + 1) # j - (m + 1)
        /\ i \in (m + 2)..(m + n + 1) => j \notin 2..(m + 1)
    BY <2>1, <2>3
  <2>5. /\ \A k, l \in 1..m : garray[k].id = garray[l].id => k = l
        /\ \A k, l \in 1..n : scanQueue[k].id = scanQueue[l].id => k = l
        /\ \A k \in 1..m, l \in 1..n : garray[k].id # scanQueue[l].id
        /\ \A k \in 1..m : garray[k].id # cur.id
        /\ \A k \in 1..n : scanQueue[k].id # cur.id
    BY DEF Distinct, Apart, m, n
  <2>6. CASE i = 1
    BY <2>2, <2>c, <2>d, <2>5, <2>6
  <2>7. CASE i \in 2..(m + 1)
    BY <2>2, <2>c, <2>d, <2>e, <2>5, <2>7
  <2>8. CASE i \in (m + 2)..(m + n + 1)
    BY <2>2, <2>c, <2>d, <2>e, <2>5, <2>8
  <2> QED
    BY <2>d, <2>6, <2>7, <2>8
<1> QED
  BY <1>1, <1>2, <1>3, PTL DEF Spec

-----------------------------------------------------------------------------
HasValid(n) == db["external"][n] # Absent /\ db["external"][n].valid
AllInvalid == \A n \in Names : ~HasValid(n)
Matches ==
  \A n \in Names : IF n \in slot.files THEN HasValid(n)
                   ELSE db["external"][n] = Absent

(* A request to scan the card comes before any to drop it.                 *)
FirstIsMount ==
  ~HasDrop(garray) /\ (HasMount(garray) \/ ~DropFirst(scanQueue))
NothingAsked ==
  /\ ~HasDrop(garray) /\ ~HasMount(garray)
  /\ ~HasDrop(scanQueue) /\ ~HasMount(scanQueue)

(* Before a scan of the card no row is valid.                              *)
CardIsIdle == ~Mount(cur) /\ ~Drop(cur)
CardIsOut  == main # "removed" /\ (mmcState # "mounted" \/ main \in {"decide", "push"})

ReadyToScan ==
  CardIsIdle /\ main # "clear" =>
    (FirstIsMount \/ (NothingAsked /\ CardIsOut) => AllInvalid)

Dropped ==
  Drop(cur) /\ scan \in {"end", "updated"} => AllInvalid

(* How far a scan of a card that is still there has come.                  *)
Reading ==
  /\ visited \subseteq slot.files
  /\ \A n \in Names : HasValid(n) => n \in visited
  /\ cur.type = MS_SCAN_ALL =>
       \A n \in Names : db["external"][n] # Absent => HasValid(n)
  /\ \A n \in visited : HasValid(n) \/ (scan = "file" /\ n = entry)
  /\ scan = "file" => entry \in visited
  /\ scan = "end" => slot.files \subseteq visited \/ powerOff

Progress ==
  /\ scan \in {"connect", "begin"} => AllInvalid
  /\ scan = "delete" => visited = {}
  /\ scan \in {"files", "file", "end"} => Reading
  /\ scan = "validate" => \A n \in Names : HasValid(n) <=> n \in slot.files
  /\ scan \in {"updated", "info"} => Matches

Scanning == OpenCur /\ main # "removed" /\ notified = 0 => Progress

(* The card has been scanned, and nothing has changed.                     *)
Settled ==
  CardIsIdle /\ NothingAsked /\ main \in {"loop", "poweroff", "join"} =>
    (mmcState = "mounted" /\ notified = 0 => Matches)

Committed ==
  scan \in {"off", "loop", "connect", "begin", "delete", "validate", "updated",
            "info"} => disk = db

RowsInv == ReadyToScan /\ Dropped /\ Scanning /\ Settled /\ Committed
LEMMA RowsInit == Init => RowsInv
<1> SUFFICES ASSUME Init PROVE RowsInv
  OBVIOUS
<1>1. main = "clear" /\ cur = NoRequest /\ db = disk
  BY DEF Init
<1>2. ~Mount(cur) /\ ~Drop(cur)
  BY <1>1, ConstantsInRange DEF Mount, Drop
<1> QED
  BY <1>1, <1>2 DEF RowsInv, ReadyToScan, Dropped, Scanning, OpenCur, Settled, Committed

(* Every step but a failure of ms_connect_db, which drops a request.       *)
LEMMA RowsNext ==
  ASSUME EveryChangeSeen, Typed, Follows, Follows', Alternate, Asked, RowsInv,
         [Next]_vars, failures' = 0
  PROVE  RowsInv'
<1> USE DEF RowsInv
<1> USE ConstantsInRange DEF mmc, mainVars, scanVars, counters
<1>q. scanQueue \in Seq(Live) /\ garray \in Seq(Live)
  BY DEF Typed, QueuesOK
<1>n. ~Mount(NoRequest) /\ ~Drop(NoRequest)
  BY DEF Mount, Drop
<1>x. \A r : ~(Mount(r) /\ Drop(r))
  BY MountXorDrop
<1>c. /\ scan \in {"off", "loop"} => cur = NoRequest
      /\ scan \notin {"off", "loop", "exited"} => Mount(cur) \/ Drop(cur) \/ Repair(cur)
      /\ failures \in Nat /\ cur \in Live \cup {NoRequest}
      /\ scan = "file" => entry \in Names /\ cur.type # MS_SCAN_INVALID
      /\ scan = "delete" => cur.type = MS_SCAN_ALL
      /\ scan = "validate" => cur.type = MS_SCAN_PART
      /\ scan = "info" => cur.type = MS_SCAN_ALL /\ cur.storage = "external"
  BY DEF Typed, TypeOK, ScanOK, QueuesOK, Live, Stop
<1>v. /\ EndsOpen(scanQueue) => HasMount(scanQueue)
      /\ HasMount(scanQueue) /\ ~HasDrop(scanQueue) => EndsOpen(scanQueue)
      /\ ~DropFirst(scanQueue) => HasMount(scanQueue)
      /\ HasMount(scanQueue) /\ DropFirst(scanQueue) => HasDrop(scanQueue)
  BY <1>q, Viewed
<1>d. /\ db \in [Storages -> [Names -> Rows]]
      /\ disk \in [Storages -> [Names -> Rows]]
  BY DEF Typed, TypeOK
(* The card is there while it is scanned and its state is known.           *)
<1>o. OpenCur /\ main # "removed" =>
        /\ mmcState = "mounted" /\ main \in {"loop", "poweroff", "join"}
        /\ notified = 0 => mmcKey = "mounted"
  BY DEF Asked, Follows
<1>1. CASE BootClear
  <2>1. AllInvalid' /\ disk' = db' /\ cur' = NoRequest /\ main' = "mark"
    <3>1. cur' = NoRequest /\ main' = "mark" /\ db' = disk'
      BY <1>1 DEF BootClear, Asked
    <3>2. \A n \in Names : /\ disk'["external"][n] = Invalid(disk["external"][n])
                           /\ disk["external"][n] \in Rows
      BY <1>1, <1>d DEF BootClear, Invalidated, Storages
    <3>3. \A row \in Rows : ~(Invalid(row) # Absent /\ Invalid(row).valid)
      BY DEF Invalid, Rows
    <3> QED
      BY <3>1, <3>2, <3>3 DEF AllInvalid, HasValid
  <2> QED
    BY <2>1, <1>n DEF ReadyToScan, Dropped, Scanning, OpenCur, Settled, Committed
<1>2. CASE BootMark \/ BootThreads
  <2>1. /\ main' \in {"threads", "phone"} /\ main \in {"mark", "threads"}
        /\ UNCHANGED <<mmcState, scanQueue, garray, cur, db, disk>>
        /\ scan = "off" /\ scan' \in {"off", "loop"}
    BY <1>2 DEF BootMark, BootThreads, Typed, ScanOK
  <2>2. cur = NoRequest
    BY <2>1 DEF Asked
  <2> QED
    BY <2>1, <2>2, <1>n DEF ReadyToScan, Dropped, Scanning, OpenCur, Settled, Committed,
       CardIsIdle, CardIsOut, FirstIsMount, NothingAsked, AllInvalid, HasValid
<1>3. CASE BootPhone
  <2>1. /\ main = "phone" /\ main' = "mmc" /\ cur = NoRequest /\ mmcState = "removed"
        /\ UNCHANGED <<mmcState, garray, cur, db, disk, scan>>
        /\ scanQueue = <<>> /\ garray = <<>>
    BY <1>3 DEF BootPhone, Asked, Follows
  <2>2. AllInvalid
    BY <2>1, <1>n, NoRequests DEF ReadyToScan, CardIsIdle, NothingAsked, CardIsOut
  <2> QED
    BY <2>1, <2>2, <1>n DEF ReadyToScan, Dropped, Scanning, OpenCur, Settled, Committed,
       AllInvalid, HasValid
(* The main thread learns of the card.                                     *)
<1>4. CASE BootMmc \/ CardChanged \/ GetMmcState
  <2>1. UNCHANGED <<scanQueue, garray, cur, db, disk, scan>>
    BY <1>4 DEF BootMmc, CardChanged, GetMmcState
  <2>2. ~(OpenCur /\ main' # "removed" /\ notified' = 0)
    <3>1. CASE BootMmc \/ GetMmcState
      BY <1>o, <3>1 DEF BootMmc, GetMmcState
    <3>2. CASE CardChanged
      BY <1>o, <3>2 DEF CardChanged, Follows
    <3> QED
      BY <1>4, <3>1, <3>2
  <2>3. CardIsOut' => CardIsOut
    BY <1>4 DEF BootMmc, CardChanged, GetMmcState, CardIsOut, Follows
  <2>4. ReadyToScan'
    <3>1. main # "clear"
      BY <1>4 DEF BootMmc, CardChanged, GetMmcState
    <3> QED
      BY <2>1, <2>3, <3>1 DEF ReadyToScan, CardIsIdle, FirstIsMount, NothingAsked,
         AllInvalid, HasValid
  <2>5. Settled'
    BY <1>4 DEF BootMmc, CardChanged, GetMmcState, Settled, Follows
  <2> QED
    BY <2>1, <2>2, <2>4, <2>5 DEF Dropped, Scanning, OpenCur, Committed, AllInvalid, HasValid
(* It asks for a scan, or for the rows to be dropped.                      *)
<1>5. ASSUME NEW r \in Live, Pushes(r),
             UNCHANGED <<mmc, mmcState, powerOff, db, disk, scan, entry, visited>>,
             \/ Drop(r) /\ main = "removed" /\ main' = "loop"
             \/ Mount(r) /\ main = "push" /\ main' = "loop"
             \/ Stop(r) /\ main = "poweroff" /\ main' = "join"
      PROVE  RowsInv'
  <2>1. Stop(r) => ~Mount(r) /\ ~Drop(r)
    BY DEF Stop, Mount, Drop
  <2>2. Mount(r) => ~OpenMount /\ ~OpenCur /\ mmcState = "mounted"
    BY <1>5, <1>x, <2>1 DEF Asked, Follows
  <2>3. LET t == scanQueue'
        IN  /\ HasMount(t) <=> HasMount(scanQueue) \/ Mount(r)
            /\ HasDrop(t) <=> HasDrop(scanQueue) \/ Drop(r)
            /\ DropFirst(t) <=> DropFirst(scanQueue) /\ (Mount(r) => HasDrop(scanQueue))
            /\ EndsOpen(t) <=> Mount(r) \/ (EndsOpen(scanQueue) /\ ~Drop(r))
            /\ DropBetween(t)
    BY <1>5, <1>q, <2>2, PushView DEF Pushes, OpenMount, Alternate
  <2>4. UNCHANGED <<garray, cur>>
    BY <1>5 DEF Pushes
  <2>5. UNCHANGED <<AllInvalid, CardIsIdle, Progress, Dropped, Committed>>
    BY <1>5, <2>4 DEF AllInvalid, HasValid, CardIsIdle, Progress, Reading, Matches,
       Dropped, Committed
  <2>6. CASE Drop(r)
    <3>1. main = "removed" /\ main' = "loop"
      BY <1>5, <1>x, <2>1, <2>6
    <3>2. FirstIsMount' => FirstIsMount
      BY <1>x, <2>3, <2>4, <2>6 DEF FirstIsMount
    <3>3. ~NothingAsked' /\ ~OpenCur'
      BY <2>3, <2>6 DEF NothingAsked, OpenCur
    <3>4. ReadyToScan'
      BY <2>5, <3>1, <3>2, <3>3 DEF ReadyToScan
    <3> QED
      BY <2>5, <3>3, <3>4 DEF Scanning, Settled
  <2>7. CASE Mount(r)
    <3>1. main = "push" /\ main' = "loop"
      BY <1>5, <1>x, <2>1, <2>7
    <3>2. FirstIsMount' => FirstIsMount \/ (NothingAsked /\ CardIsOut)
      BY <1>v, <2>3, <2>4, <2>7, <3>1 DEF FirstIsMount, NothingAsked, CardIsOut
    <3>3. ReadyToScan'
      BY <2>3, <2>5, <2>7, <3>1, <3>2 DEF ReadyToScan, NothingAsked
    <3>4. ~OpenCur'
      BY <2>2, <2>3, <2>4, <2>7, <1>x DEF OpenCur
    <3> QED
      BY <2>3, <2>5, <2>7, <3>3, <3>4 DEF Scanning, NothingAsked, Settled
  <2>8. CASE Stop(r)
    <3>1. main = "poweroff" /\ main' = "join"
      BY <1>5, <2>1, <2>8
    <3> QED
      BY <1>5, <2>1, <2>3, <2>4, <2>5, <2>8, <3>1 DEF ReadyToScan, FirstIsMount,
         NothingAsked, CardIsOut, Scanning, OpenCur, Settled, Matches, HasValid
  <2> QED
    BY <1>5, <2>6, <2>7, <2>8
<1>6. CASE CardRemoved
  BY <1>6, <1>5, Pushed DEF CardRemoved, Drop, Storages, Typed
<1>7. CASE CardMounted
  BY <1>7, <1>5, Pushed DEF CardMounted, Mount, Storages, Typed, TypeOK
<1>8. CASE PowerOffPush
  BY <1>8, <1>5, Pushed DEF PowerOffPush, NotifyScanThread, Stop, Storages, Typed
<1>9. CASE Join \/ Crash
  BY <1>9, <1>n DEF Join, Crash, Boot, ReadyToScan, Dropped, Scanning, OpenCur, Settled,
     Committed
(* The requests go from scan_queue to garray, and from there into work.    *)
<1>10. CASE ScanMerge
  <2> DEFINE r == scanQueue[1]
             q == Tail(scanQueue)
             g == InsertArray(garray, r)
  <2>1. /\ scanQueue # <<>> /\ garray' = g /\ scanQueue' = q /\ r \in Live
        /\ UNCHANGED <<mmc, main, mmcState, powerOff, cur, scan, db, disk, visited, entry>>
        /\ scan = "loop"
    BY <1>10, <1>q, Tailed DEF ScanMerge
  <2>2. /\ HasMount(scanQueue) <=> HasMount(q) \/ Mount(r)
        /\ HasDrop(scanQueue) <=> HasDrop(q) \/ Drop(r)
        /\ Mount(r) => ~DropFirst(scanQueue) /\ DropFirst(q)
        /\ Drop(r) => DropFirst(scanQueue)
        /\ ~Mount(r) /\ ~Drop(r) => (DropFirst(scanQueue) <=> DropFirst(q))
        /\ EndsOpen(scanQueue) <=> EndsOpen(q) \/ (Mount(r) /\ ~HasDrop(q))
        /\ DropBetween(q)
    BY <1>q, <2>1, TailView DEF Alternate
  <2>3. /\ HasMount(g) <=> Mount(r) \/ (HasMount(garray) /\ ~Drop(r))
        /\ HasDrop(g) <=> HasDrop(garray) \/ Drop(r)
        /\ MountIsLast(g)
    BY <1>q, <2>1, <2>2, InsertView DEF Alternate
  <2>4. cur = NoRequest
    BY <1>c, <2>1
  <2> HIDE DEF r, q, g
  <2>5. (FirstIsMount' => FirstIsMount) /\ (NothingAsked' => NothingAsked)
    BY <2>1, <2>2, <2>3 DEF FirstIsMount, NothingAsked
  <2>6. UNCHANGED <<AllInvalid, CardIsIdle, CardIsOut, Matches, Committed>>
    BY <2>1 DEF AllInvalid, HasValid, CardIsIdle, CardIsOut, Matches, Committed
  <2> QED
    BY <2>1, <2>4, <2>5, <2>6, <1>n DEF ReadyToScan, Dropped, Scanning, OpenCur, Settled
<1>11. CASE ScanTake
  <2> DEFINE r == garray[1]
             g == Tail(garray)
  <2>1. /\ garray # <<>> /\ scanQueue = <<>> /\ scanQueue' = <<>>
        /\ garray' = g /\ cur' = r /\ scan = "loop" /\ scan' \in {"connect", "exited"}
        /\ UNCHANGED <<mmc, main, mmcState, powerOff, db, disk, visited, entry>>
        /\ Mount(r) \/ Drop(r) => scan' = "connect"
    <3>1. Mount(r) \/ Drop(r) => r.type # POWEROFF
      BY DEF Mount, Drop
    <3> QED
      BY <1>q, <1>11, <3>1, Tailed DEF ScanTake, TakenOut, ServedAt
  <2>2. /\ HasMount(garray) <=> HasMount(g) \/ Mount(r)
        /\ HasDrop(garray) <=> HasDrop(g) \/ Drop(r)
        /\ Mount(r) => ~HasMount(g) /\ ~HasDrop(garray)
        /\ MountIsLast(g)
    BY <1>q, <2>1, TakeView DEF Alternate
  <2>3. cur = NoRequest /\ main # "clear"
    BY <1>c, <2>1 DEF Asked
  <2> HIDE DEF r, g
  <2>4. UNCHANGED <<AllInvalid, CardIsOut, Matches>> /\ Committed'
    BY <2>1 DEF AllInvalid, HasValid, CardIsOut, Matches, Committed
  <2>5. CASE Mount(r)
    <3>1. AllInvalid
      BY <1>n, <2>2, <2>3, <2>5 DEF ReadyToScan, CardIsIdle, FirstIsMount
    <3>2. Progress'
      BY <2>1, <2>4, <2>5, <3>1 DEF Progress
    <3> QED
      BY <1>x, <2>1, <2>4, <2>5, <3>2 DEF ReadyToScan, Dropped, Scanning, Settled, CardIsIdle
  <2>6. CASE Drop(r)
    BY <1>x, <2>1, <2>4, <2>6 DEF ReadyToScan, Dropped, Scanning, OpenCur, Settled, CardIsIdle
  <2>7. CASE ~Mount(r) /\ ~Drop(r)
    <3>1. (FirstIsMount' => FirstIsMount) /\ (NothingAsked' => NothingAsked)
      BY <2>1, <2>2, <2>7 DEF FirstIsMount, NothingAsked
    <3> QED
      BY <1>n, <2>1, <2>3, <2>4, <2>7, <3>1 DEF ReadyToScan, Dropped, Scanning, OpenCur,
         Settled, CardIsIdle
  <2> QED
    BY <2>5, <2>6, <2>7
(* The scan itself.                                                        *)
<1>12. ASSUME UNCHANGED <<mmc, main, mmcState, powerOff, scanQueue, garray, cur>>,
              Mount(cur), Scanning => Scanning', Committed'
       PROVE  RowsInv'
  BY <1>12, <1>x DEF ReadyToScan, Dropped, Settled, CardIsIdle
<1>13. ASSUME UNCHANGED <<mmc, main, mmcState, powerOff, scanQueue, garray, cur>>,
              ~Mount(cur), AllInvalid => AllInvalid', Matches => Matches',
              Drop(cur) => Dropped', Committed'
       PROVE  RowsInv'
  BY <1>13 DEF ReadyToScan, Dropped, Scanning, OpenCur, Settled, CardIsIdle, CardIsOut,
     FirstIsMount, NothingAsked
<1>14. CASE ScanConnect
  <2>1. /\ scan = "connect" /\ scan' = "begin"
        /\ UNCHANGED <<mmc, main, mmcState, powerOff, scanQueue, garray, cur, db, disk,
                       visited, entry>>
    BY <1>14, <1>c DEF ScanConnect
  <2> QED
    BY <2>1 DEF ReadyToScan, Dropped, Scanning, OpenCur, Settled, CardIsIdle, CardIsOut,
       FirstIsMount, NothingAsked, AllInvalid, HasValid, Matches, Progress, Committed
<1>15. CASE ScanBegin
  <2>1. /\ scan = "begin" /\ visited' = {}
        /\ scan' = IF cur.type = MS_SCAN_ALL THEN "delete" ELSE "files"
        /\ UNCHANGED <<mmc, main, mmcState, powerOff, scanQueue, garray, cur, db, disk,
                       entry>>
    BY <1>15 DEF ScanBegin
  <2>2. CASE Mount(cur)
    <3>1. Scanning => Scanning'
      <4> SUFFICES ASSUME Scanning, OpenCur, main # "removed", notified = 0
                   PROVE  Progress'
        BY <2>1 DEF Scanning, OpenCur
      <4>1. AllInvalid
        BY <2>1 DEF Scanning, Progress
      <4> QED
        BY <2>1, <4>1 DEF Progress, Reading, AllInvalid, HasValid
    <3> QED
      BY <1>12, <2>1, <2>2, <3>1 DEF Committed
  <2>3. CASE ~Mount(cur)
    BY <1>13, <2>1, <2>3 DEF AllInvalid, HasValid, Matches, Dropped, Committed
  <2> QED
    BY <2>2, <2>3
<1>16. CASE ScanDeleteAll
  <2>1. /\ scan = "delete" /\ scan' = "files" /\ cur.type = MS_SCAN_ALL
        /\ UNCHANGED <<mmc, main, mmcState, powerOff, scanQueue, garray, cur, visited,
                       entry>>
        /\ db' = [db EXCEPT ![cur.storage] = [n \in Names |-> Absent]]
    BY <1>16, <1>c DEF ScanDeleteAll
  <2>2. CASE Mount(cur)
    <3>1. \A n \in Names : db'["external"][n] = Absent
      BY <1>d, <2>1, <2>2 DEF Mount, Storages
    <3>2. Scanning => Scanning'
      BY <2>1, <3>1 DEF Scanning, OpenCur, Progress, Reading, HasValid
    <3> QED
      BY <1>12, <2>1, <2>2, <3>2 DEF Committed
  <2>3. CASE ~Mount(cur)
    <3>1. cur.storage = "internal" /\ ~Drop(cur)
      BY <1>c, <2>1, <2>3 DEF Drop, Repair
    <3>2. db'["external"] = db["external"]
      BY <1>d, <2>1, <3>1 DEF Storages
    <3> QED
      BY <1>13, <2>1, <2>3, <3>1, <3>2 DEF AllInvalid, HasValid, Matches, Committed
  <2> QED
    BY <2>2, <2>3
<1>17. CASE ScanInvalidate
  <2>1. /\ scan = "files" /\ scan' = "end" /\ cur.type = MS_SCAN_INVALID
        /\ UNCHANGED <<mmc, main, mmcState, powerOff, scanQueue, garray, cur, visited,
                       entry>>
        /\ db' = Invalidated(db, cur.storage)
    BY <1>17 DEF ScanInvalidate
  <2>2. Drop(cur)
    BY <1>c, <2>1 DEF Mount, Repair
  <2>3. AllInvalid'
    <3>1. \A n \in Names : /\ db'["external"][n] = Invalid(db["external"][n])
                           /\ db["external"][n] \in Rows
      BY <1>d, <2>1, <2>2 DEF Drop, Invalidated, Storages
    <3>2. \A row \in Rows : ~(Invalid(row) # Absent /\ Invalid(row).valid)
      BY DEF Invalid, Rows
    <3> QED
      BY <3>1, <3>2 DEF AllInvalid, HasValid
  <2> QED
    BY <1>x, <2>1, <2>2, <2>3 DEF ReadyToScan, Dropped, Scanning, OpenCur, Settled,
       CardIsIdle, Committed
<1>18. CASE ScanReadDir
  <2>1. /\ scan = "files" /\ scan' \in {"end", "file"} /\ cur.type # MS_SCAN_INVALID
        /\ UNCHANGED <<mmc, main, mmcState, powerOff, scanQueue, garray, cur, db, disk>>
        /\ scan' = "end" => (Stopped \/ Files \subseteq visited) /\ visited' = visited
        /\ scan' = "file" => entry' \in Files /\ visited' = visited \cup {entry'}
    BY <1>18 DEF ScanReadDir
  <2>2. CASE Mount(cur)
    <3> SUFFICES ASSUME OpenCur, main # "removed", notified = 0, Reading
                 PROVE  Progress'
      BY <1>12, <2>1, <2>2 DEF Scanning, OpenCur, Progress, Committed
    <3>1. Files = slot.files /\ (Stopped => powerOff)
      BY <1>o, <2>2 DEF Files, Stopped, Mount
    <3> QED
      BY <2>1, <3>1 DEF Progress, Reading, HasValid
  <2>3. CASE ~Mount(cur)
    BY <1>13, <2>1, <2>3 DEF AllInvalid, HasValid, Matches, Drop, Committed
  <2> QED
    BY <2>2, <2>3
<1>19. CASE ScanFile
  <2>1. /\ scan = "file" /\ scan' = "files" /\ entry \in Names
        /\ UNCHANGED <<mmc, main, mmcState, powerOff, scanQueue, garray, cur, visited>>
        /\ db' = IF entry \in Files
                 THEN [db EXCEPT ![cur.storage][entry] = Validated(@)] ELSE db
    BY <1>19, <1>c DEF ScanFile
  <2>2. CASE Mount(cur)
    <3> SUFFICES ASSUME OpenCur, main # "removed", notified = 0, Reading
                 PROVE  Reading'
      BY <1>12, <2>1, <2>2 DEF Scanning, OpenCur, Progress, Committed
    <3>1. entry \in Files /\ entry \in visited /\ visited \subseteq slot.files
      BY <1>o, <2>1, <2>2 DEF Files, Mount, Reading
    <3> DEFINE row == db["external"][entry]
    <3>2. /\ db'["external"][entry] = Validated(row)
          /\ \A n \in Names : n # entry => db'["external"][n] = db["external"][n]
      BY <1>d, <2>1, <2>2, <3>1 DEF Mount, Storages
    <3>3. row \in Rows /\ Absent \notin [card : Cards \cup {Phone}, valid : BOOLEAN]
      BY <1>d, <2>1 DEF Storages
    <3>4. db'["external"][entry] # Absent /\ db'["external"][entry].valid
      <4>1. CASE row = Absent
        <5>1. Medium \in Cards
          BY <1>o, <2>2 DEF Medium, Mount, Typed, TypeOK, SlotOK
        <5>2. Validated(row) = [card |-> Medium, valid |-> TRUE]
          BY <4>1 DEF Validated, Added
        <5>3. /\ [card |-> Medium, valid |-> TRUE]
                   \in [card : Cards \cup {Phone}, valid : BOOLEAN]
              /\ [card |-> Medium, valid |-> TRUE].valid
          BY <5>1
        <5> QED
          BY <3>2, <3>3, <5>2, <5>3
      <4>2. CASE row # Absent /\ cur.type = MS_SCAN_PART
        <5>1. Validated(row) = [row EXCEPT !.valid = TRUE]
          BY <4>2 DEF Validated
        <5>2. row \in [card : Cards \cup {Phone}, valid : BOOLEAN]
          BY <3>3, <4>2 DEF Rows
        <5> HIDE DEF row
        <5> QED
          BY <3>2, <3>3, <5>1, <5>2
      <4>3. CASE row # Absent /\ cur.type = MS_SCAN_ALL
        <5>1. row.valid /\ Validated(row) = row
          BY <2>1, <4>3, ConstantsInRange DEF Validated, Added, HasValid, Reading
        <5> QED
          BY <3>2, <4>3, <5>1
      <4> QED
        BY <2>2, <4>1, <4>2, <4>3 DEF Mount
    <3>5. \A n \in Names : n # entry => (HasValid(n)' <=> HasValid(n))
      BY <3>2 DEF HasValid
    <3>6. visited' = visited /\ scan' = "files" /\ slot' = slot /\ cur' = cur
      BY <2>1
    <3>7. \A n \in Names : n \in visited => HasValid(n)'
      BY <2>1, <3>4, <3>5 DEF Reading, HasValid
    <3>8. \A n \in Names : HasValid(n)' => n \in visited
      BY <3>1, <3>5 DEF Reading
    <3>9. cur.type = MS_SCAN_ALL =>
            \A n \in Names : db'["external"][n] # Absent => HasValid(n)'
      BY <3>2, <3>4 DEF Reading, HasValid
    <3>10. visited \subseteq Names
      BY DEF Typed, TypeOK
    <3> QED
      BY <3>1, <3>6, <3>7, <3>8, <3>9, <3>10 DEF Reading
  <2>3. CASE ~Mount(cur)
    <3>1. cur.storage = "internal" /\ ~Drop(cur)
      BY <1>c, <2>1, <2>3 DEF Drop, Repair
    <3>2. db'["external"] = db["external"]
      BY <1>d, <2>1, <3>1 DEF Storages
    <3> QED
      BY <1>13, <2>1, <2>3, <3>1, <3>2 DEF AllInvalid, HasValid, Matches, Committed
  <2> QED
    BY <2>2, <2>3
<1>20. CASE ScanEnd
  <2>1. /\ scan = "end" /\ scan' \in {"exited", "validate", "updated"}
        /\ UNCHANGED <<mmc, main, mmcState, powerOff, scanQueue, garray, cur, visited,
                       entry, db>>
        /\ scan' # "exited" => /\ ~powerOff /\ disk' = db
                               /\ scan' = "validate" <=> cur.type = MS_SCAN_PART
    BY <1>20 DEF ScanEnd
  <2>2. Committed'
    BY <2>1 DEF Committed
  <2>3. CASE Mount(cur)
    <3> SUFFICES ASSUME OpenCur, main # "removed", notified = 0, Reading
                 PROVE  Progress'
      BY <1>12, <2>1, <2>2, <2>3 DEF Scanning, OpenCur, Progress
    <3>1. scan' # "exited" => visited = slot.files /\ \A n \in visited : HasValid(n)
      BY <2>1 DEF Reading
    <3>2. slot.files \subseteq Names
      BY DEF Typed, TypeOK
    <3>3. scan' = "validate" => \A n \in Names : HasValid(n) <=> n \in slot.files
      BY <3>1 DEF Reading
    <3>4. scan' = "updated" => Matches
      <4>1. scan' = "updated" => cur.type = MS_SCAN_ALL
        BY <2>1, <2>3 DEF Mount
      <4> QED
        BY <3>1, <4>1 DEF Reading, Matches
    <3> QED
      BY <2>1, <3>3, <3>4 DEF Progress, Matches, HasValid
  <2>4. CASE ~Mount(cur)
    BY <1>13, <2>1, <2>2, <2>4 DEF AllInvalid, HasValid, Matches, Dropped
  <2> QED
    BY <2>3, <2>4
<1>21. CASE ScanDeleteInvalid
  <2> DEFINE old == db["external"]
  <2>1. /\ scan = "validate" /\ scan' = "updated" /\ cur.type = MS_SCAN_PART
        /\ UNCHANGED <<mmc, main, mmcState, powerOff, scanQueue, garray, cur, visited,
                       entry>>
        /\ disk' = db'
    BY <1>21, <1>c DEF ScanDeleteInvalid
  <2>2. Mount(cur) /\ cur.storage = "external"
    BY <1>c, <2>1, ConstantsInRange DEF Mount, Drop, Repair
  <2>3. \A n \in Names : db'["external"][n] =
          IF old[n] # Absent /\ ~old[n].valid THEN Absent ELSE old[n]
    BY <1>21, <1>d, <2>2 DEF ScanDeleteInvalid, Storages
  <2>4. Scanning => Scanning'
    <3> SUFFICES ASSUME OpenCur, main # "removed", notified = 0,
                        \A n \in Names : HasValid(n) <=> n \in slot.files
                 PROVE  Matches'
      BY <2>1 DEF Scanning, OpenCur, Progress
    <3> QED
      BY <2>1, <2>3 DEF Matches, HasValid
  <2> QED
    BY <1>12, <2>1, <2>2, <2>4 DEF Committed
(* The end of a scan: what was in work is known to have been done.         *)
<1>22. CASE ScanUpdated \/ ScanUpdateMmcInfo
  <2>1. /\ scan \in {"updated", "info"}
        /\ UNCHANGED <<mmc, main, mmcState, powerOff, scanQueue, garray, visited, entry,
                       db, disk>>
        /\ \/ scan = "updated" /\ scan' = "info" /\ cur' = cur
           \/ scan' = "loop" /\ cur' = NoRequest
        /\ scan = "updated" /\ Mount(cur) /\ scan' = "loop" => cur.type = MS_SCAN_PART
    BY <1>22 DEF ScanUpdated, ScanUpdateMmcInfo, Mount
  <2>2. /\ UNCHANGED <<AllInvalid, Matches, FirstIsMount, NothingAsked, CardIsOut>>
        /\ Committed'
    BY <2>1 DEF AllInvalid, HasValid, Matches, FirstIsMount, NothingAsked, CardIsOut,
       Committed
  <2>3. CASE cur' = cur
    BY <2>1, <2>2, <2>3 DEF ReadyToScan, Dropped, Scanning, OpenCur, Settled, CardIsIdle,
       Progress
  <2>4. CASE scan' = "loop" /\ cur' = NoRequest
    <3>1. Dropped' /\ Scanning'
      BY <1>n, <2>4 DEF Dropped, Scanning, OpenCur
    <3>2. ReadyToScan'
      <4> SUFFICES ASSUME main # "clear", FirstIsMount \/ (NothingAsked /\ CardIsOut)
                   PROVE  AllInvalid
        BY <2>1, <2>2 DEF ReadyToScan
      <4>1. CASE Mount(cur)
        <5>1. ~FirstIsMount
          BY <4>1 DEF Alternate, FirstIsMount
        <5>2. NothingAsked => OpenCur
          BY <4>1 DEF NothingAsked, OpenCur
        <5> QED
          BY <5>1, <5>2 DEF Asked, CardIsOut
      <4>2. CASE Drop(cur)
        <5>1. scan = "updated"
          BY <2>1, <4>2, <1>c, ConstantsInRange DEF Drop
        <5> QED
          BY <4>2, <5>1 DEF Dropped
      <4>3. CASE ~Mount(cur) /\ ~Drop(cur)
        BY <4>3 DEF ReadyToScan, CardIsIdle
      <4> QED
        BY <4>1, <4>2, <4>3
    <3>3. Settled'
      <4> SUFFICES ASSUME NothingAsked, main \in {"loop", "poweroff", "join"},
                          mmcState = "mounted", notified = 0
                   PROVE  Matches
        BY <2>1, <2>2 DEF Settled
      <4>1. CASE Mount(cur)
        BY <2>1, <4>1 DEF NothingAsked, OpenCur, Scanning, Progress
      <4>2. CASE Drop(cur)
        <5>1. OpenMount
          BY <4>2 DEF Asked
        <5> QED
          BY <1>v, <5>1 DEF OpenMount, NothingAsked
      <4>3. CASE ~Mount(cur) /\ ~Drop(cur)
        BY <4>3 DEF Settled, CardIsIdle
      <4> QED
        BY <4>1, <4>2, <4>3
    <3> QED
      BY <2>2, <3>1, <3>2, <3>3
  <2> QED
    BY <2>1, <2>3, <2>4
(* What the card, the file manager and the user do.                        *)
<1>23. CASE ChangeCard
  <2>1. /\ main = "clear" \/ (main = "loop" /\ notified' = 1)
        /\ UNCHANGED <<main, mmcState, powerOff, scanQueue, garray, cur, scan, visited,
                       entry, db, disk>>
    BY <1>23 DEF ChangeCard, MayChange, Notify
  <2>2. UNCHANGED <<AllInvalid, FirstIsMount, NothingAsked, CardIsOut, CardIsIdle, OpenCur>>
    BY <2>1 DEF AllInvalid, HasValid, FirstIsMount, NothingAsked, CardIsOut, CardIsIdle,
       OpenCur
  <2>3. main = "clear" => ~OpenCur
    BY DEF Asked
  <2> QED
    BY <2>1, <2>2, <2>3 DEF ReadyToScan, Dropped, Scanning, Settled, Committed
<1>24. CASE FileOperationEnd \/ PowerOff \/ UNCHANGED vars
  <2>1. /\ UNCHANGED <<mmc, mmcState, scanQueue, garray, cur, scan, visited, entry, db,
                       disk>>
        /\ \/ main' = main /\ powerOff' = powerOff
           \/ main = "loop" /\ main' = "poweroff" /\ powerOff'
    BY <1>24 DEF FileOperationEnd, PowerOff, vars
  <2>2. UNCHANGED <<AllInvalid, FirstIsMount, NothingAsked, CardIsOut, CardIsIdle, OpenCur,
                    Matches>>
    BY <2>1 DEF AllInvalid, HasValid, FirstIsMount, NothingAsked, CardIsOut, CardIsIdle,
       OpenCur, Matches
  <2>3. Reading => Reading'
    BY <2>1 DEF Reading, HasValid
  <2>4. Progress => Progress'
    BY <2>1, <2>2, <2>3 DEF Progress, HasValid
  <2> QED
    BY <2>1, <2>2, <2>4 DEF ReadyToScan, Dropped, Scanning, Settled, Committed
<1> QED
  BY <1>1, <1>2, <1>3, <1>4, <1>6, <1>7, <1>8, <1>9, <1>10, <1>11, <1>14, <1>15, <1>16,
     <1>17, <1>18, <1>19, <1>20, <1>21, <1>22, <1>23, <1>24 DEF Next, Server, Scanner

(* When the server comes to rest, the valid rows are those of the files on *)
(* the card in the slot: whatever card was there before, wherever a scan   *)
(* was interrupted by a removal or a kill, and whatever _insert_array      *)
(* overlaid. That ms_connect_db never failed is a premise: the request of a*)
(* failed scan is dropped, and nothing asks for it again. So is that the   *)
(* card changes only when the last change has been seen.                   *)
THEOREM CardIsShown ==
  ASSUME EveryChangeSeen
  PROVE  Spec => [](failures = 0 => RestShowsCard)
<1> DEFINE Inv == Typed /\ Follows /\ Alternate /\ Asked
           Rested == failures = 0 => RowsInv
           Shows == failures = 0 => RestShowsCard
<1>1. Init => Inv /\ Rested
  BY TypedInit, FollowsInit, AskedInit, RowsInit
<1>2. Inv /\ [Next]_vars => Inv'
  BY TypedNext, FollowsNext, AskedNext
<1>3. Inv /\ Rested /\ [Next]_vars => Rested'
  <2> SUFFICES ASSUME Inv, Rested, [Next]_vars, failures' = 0 PROVE RowsInv'
    OBVIOUS
  <2>1. failures = 0
    <3>1. failures \in Nat
      BY DEF Typed, TypeOK
    <3>2. failures' = failures \/ failures' = failures + 1
      BY DEF Next, Server, Scanner, BootClear, BootMark, BootThreads, BootPhone, BootMmc,
         CardChanged, CardRemoved, GetMmcState, CardMounted, PowerOffPush, Join, ScanMerge,
         ScanTake, ScanConnect, ScanBegin, ScanDeleteAll, ScanInvalidate, ScanReadDir,
         ScanFile, ScanEnd, ScanDeleteInvalid, ScanUpdated, ScanUpdateMmcInfo, ChangeCard,
         FileOperationEnd, PowerOff, Crash, vars, counters
    <3> QED
      BY <3>1, <3>2
  <2> QED
    BY <1>2, <2>1, RowsNext
<1>4. Inv /\ Rested => Shows
  <2> SUFFICES ASSUME Inv, RowsInv, Quiet PROVE RestShowsCard
    BY DEF RestShowsCard
  <2>1. cur = NoRequest /\ main = "loop" /\ notified = 0 /\ scan = "loop"
        /\ scanQueue = <<>> /\ garray = <<>>
    BY DEF Quiet, Typed, ScanOK
  <2>2. CardIsIdle /\ NothingAsked
    BY <2>1, NoRequests, ConstantsInRange DEF CardIsIdle, NothingAsked, Mount, Drop
  <2>3. mmcState = "mounted" => Matches
    BY <2>1, <2>2 DEF RowsInv, Settled
  <2>4. mmcState # "mounted" => AllInvalid
    BY <2>1, <2>2 DEF RowsInv, ReadyToScan, CardIsOut
  <2>5. disk = db
    BY <2>1 DEF RowsInv, Committed
  <2> QED
    BY <2>3, <2>4, <2>5 DEF RestShowsCard, Matches, AllInvalid, HasValid
<1> QED
  BY <1>1, <1>2, <1>3, <1>4, PTL DEF Spec

-----------------------------------------------------------------------------
(* The repair of the phone's rows.                                         *)

(* While it boots the server has no request.                               *)
Booting ==
  main \in {"clear", "mark", "threads", "phone"} =>
    scanQueue = <<>> /\ garray = <<>> /\ cur = NoRequest

(* Outside of a scan the status is not "updating", once _db_clear has read *)
(* it and has set it.                                                      *)
Unmarked ==
  /\ main = "mark" /\ dbStatus = "updating" => needDbCreate
  /\ main \notin {"clear", "mark"} /\ scan \in {"off", "loop", "connect", "begin", "info"} =>
       dbStatus = "updated"

(* The rows of the phone are committed unless they are being read.         *)
PhoneCommitted ==
  cur.storage # "internal" \/ scan \in {"connect", "begin", "delete", "updated"} =>
    disk["internal"] = db["internal"]

(* How far the scan of the phone has come.                                 *)
PhoneRead ==
  [n \in Names |-> IF n \in visited /\ ~(scan = "file" /\ n = entry)
                   THEN [card |-> Phone, valid |-> TRUE] ELSE Absent]
PhoneReading ==
  /\ visited \subseteq PhoneFiles
  /\ scan = "file" => entry \in visited
  /\ scan = "end" => PhoneFiles \subseteq visited \/ powerOff
  /\ db["internal"] = PhoneRead
PhoneProgress ==
  cur.storage = "internal" =>
    /\ scan = "delete" => visited = {}
    /\ scan \in {"files", "file", "end"} => PhoneReading
    /\ scan = "updated" => db["internal"] = Shown("internal")

RepairInv == Booting /\ Unmarked /\ PhoneCommitted /\ PhoneProgress

LEMMA RepairInit == Init => RepairInv
BY ConstantsInRange DEF Init, RepairInv, Booting, Unmarked, PhoneCommitted, PhoneProgress

LEMMA BootingNext ==
  ASSUME Typed, Booting, [Next]_vars
  PROVE  Booting'
<1> USE DEF Booting
<1>1. CASE Keeps /\ main' = main /\ UNCHANGED mmcState
  BY <1>1 DEF Keeps
<1>2. CASE Keeps /\ (BootClear \/ BootMark \/ BootThreads \/ BootMmc \/ CardChanged
                     \/ GetMmcState \/ PowerOff)
  BY <1>2 DEF Keeps, BootClear, BootMark, BootThreads, BootMmc, CardChanged, GetMmcState,
     PowerOff
<1>3. CASE ScanMerge \/ ScanTake
  BY <1>3 DEF ScanMerge, ScanTake, mainVars
<1>4. CASE Frees /\ main' = main
  BY <1>4 DEF Frees
<1>5. CASE Boot(disk)
  BY <1>5 DEF Boot
<1> QED
  BY <1>1, <1>2, <1>3, <1>4, <1>5, QueueSteps

LEMMA UnmarkedNext ==
  ASSUME Typed, Unmarked, [Next]_vars
  PROVE  Unmarked'
<1> USE DEF Unmarked, mmc, mainVars, scanVars, counters
<1>0. main \in {"clear", "mark", "threads"} => scan = "off"
  BY DEF Typed, ScanOK
<1>1. CASE Server
  BY <1>0, <1>1 DEF Server, BootClear, NeedDbCreate, BootMark, BootThreads, BootPhone,
     BootMmc, CardChanged, CardRemoved, GetMmcState, CardMounted, PowerOffPush, Join, Boot
<1>2. CASE Scanner
  BY <1>0, <1>2 DEF Scanner, ScanMerge, ScanTake, ServedAt, ScanConnect, ScanBegin,
     ScanDeleteAll, ScanInvalidate, ScanReadDir, ScanFile, ScanEnd, ScanDeleteInvalid,
     ScanUpdated, ScanUpdateMmcInfo
<1>3. CASE ChangeCard \/ FileOperationEnd \/ PowerOff
  BY <1>0, <1>3 DEF ChangeCard, FileOperationEnd, PowerOff
<1>4. CASE Crash \/ UNCHANGED vars
  BY <1>4 DEF Crash, Boot, vars
<1> QED
  BY <1>1, <1>2, <1>3, <1>4 DEF Next

(* What the steps of a scan change of the rows of the phone.               *)
LEMMA PhoneNext ==
  ASSUME Typed, Booting, PhoneCommitted, PhoneProgress, [Next]_vars
  PROVE  PhoneCommitted' /\ PhoneProgress'
<1> USE DEF PhoneCommitted, PhoneProgress
<1> USE ConstantsInRange DEF mmc, mainVars, scanVars, counters
<1>c. /\ scan \in {"off", "loop"} => cur = NoRequest
      /\ scan \notin {"off", "loop", "exited"} => Mount(cur) \/ Drop(cur) \/ Repair(cur)
      /\ cur \in Live \cup {NoRequest}
      /\ scan = "file" => entry \in Names /\ cur.type # MS_SCAN_INVALID
      /\ scan = "delete" => cur.type = MS_SCAN_ALL
      /\ scan = "validate" => cur.type = MS_SCAN_PART
      /\ scan = "info" => cur.storage = "external"
  BY DEF Typed, TypeOK, ScanOK, QueuesOK, Live, Stop
<1>d. /\ db \in [Storages -> [Names -> Rows]]
      /\ disk \in [Storages -> [Names -> Rows]]
  BY DEF Typed, TypeOK
<1>r. cur.storage = "internal" => Repair(cur) \/ scan \in {"off", "loop", "exited"}
  BY <1>c DEF Mount, Drop
<1>1. ASSUME UNCHANGED <<disk, db, scan, cur, visited, entry>>, powerOff => powerOff'
      PROVE  PhoneCommitted' /\ PhoneProgress'
  BY <1>1 DEF PhoneReading, PhoneRead
<1>2. CASE BootClear
  <2>1. cur' = NoRequest /\ db' = disk'
    BY <1>2 DEF BootClear, Booting
  <2> QED
    BY <2>1
<1>3. CASE BootThreads
  BY <1>3 DEF BootThreads, Booting
<1>4. CASE BootMark \/ BootPhone \/ BootMmc \/ CardChanged \/ CardRemoved \/ GetMmcState
           \/ CardMounted \/ PowerOffPush \/ PowerOff \/ ChangeCard \/ FileOperationEnd
           \/ ScanMerge \/ UNCHANGED vars
  BY <1>1, <1>4 DEF BootMark, BootPhone, BootMmc, CardChanged, CardRemoved, GetMmcState,
     CardMounted, PowerOffPush, PowerOff, ChangeCard, FileOperationEnd, ScanMerge, vars
<1>5. CASE Join \/ Crash
  BY <1>5 DEF Join, Crash, Boot
<1>6. CASE ScanTake
  <2>1. /\ scan = "loop" /\ scan' \in {"connect", "exited"} /\ UNCHANGED <<db, disk>>
        /\ cur' \in Live /\ (cur'.type = POWEROFF <=> scan' = "exited")
    <3>1. garray \in Seq(Live)
      BY DEF Typed, QueuesOK
    <3> QED
      BY <1>6, <3>1, Tailed DEF ScanTake, TakenOut, ServedAt
  <2>2. cur'.type = POWEROFF => cur'.storage = "none"
    BY <2>1 DEF Live, Mount, Drop, Repair, Stop
  <2> QED
    BY <1>c, <2>1, <2>2
<1>7. CASE ScanConnect \/ ScanUpdated \/ ScanUpdateMmcInfo
  BY <1>7, <1>c DEF ScanConnect, ScanUpdated, ScanUpdateMmcInfo
<1>8. CASE ScanBegin
  <2>1. scan' = "files" => cur'.storage # "internal"
    BY <1>8, <1>r DEF ScanBegin, Repair
  <2> QED
    BY <1>8, <2>1 DEF ScanBegin
(* The scan of the card leaves them alone.                                 *)
<1>9. ASSUME cur.storage # "internal", cur' = cur, db'["internal"] = db["internal"],
             disk'["internal"] \in {disk["internal"], db'["internal"]}
      PROVE  PhoneCommitted' /\ PhoneProgress'
  BY <1>9
<1>10. CASE cur.storage # "internal" /\ (ScanDeleteAll \/ ScanInvalidate \/ ScanReadDir
              \/ ScanFile \/ ScanEnd \/ ScanDeleteInvalid)
  <2>1. cur' = cur /\ disk' \in {disk, db', db}
    BY <1>10 DEF ScanDeleteAll, ScanInvalidate, ScanReadDir, ScanFile, ScanEnd,
       ScanDeleteInvalid
  <2>2. cur.storage \in Storages
    BY <1>10 DEF Typed, TypeOK, ScanDeleteAll, ScanInvalidate, ScanReadDir, ScanFile,
       ScanEnd, ScanDeleteInvalid
  <2>3. db'["internal"] = db["internal"]
    <3>1. CASE ScanDeleteAll \/ ScanInvalidate
      BY <1>10, <1>d, <2>2, <3>1 DEF ScanDeleteAll, ScanInvalidate, Invalidated, Storages
    <3>2. CASE ScanReadDir \/ ScanEnd
      BY <3>2 DEF ScanReadDir, ScanEnd
    <3>3. CASE ScanFile
      BY <1>10, <1>d, <2>2, <3>3 DEF ScanFile, Storages
    <3>4. CASE ScanDeleteInvalid
      BY <1>10, <1>d, <2>2, <3>4 DEF ScanDeleteInvalid, Storages
    <3> QED
      BY <1>10, <3>1, <3>2, <3>3, <3>4
  <2> QED
    BY <1>9, <1>10, <2>1, <2>3
<1>11. CASE cur.storage = "internal" /\ ScanDeleteAll
  <2>1. /\ scan = "delete" /\ scan' = "files" /\ visited' = {} /\ cur' = cur
        /\ db'["internal"] = [n \in Names |-> Absent]
    BY <1>11, <1>d DEF ScanDeleteAll, Storages
  <2> QED
    BY <1>11, <2>1 DEF PhoneReading, PhoneRead
<1>12. CASE cur.storage = "internal" /\ ScanReadDir
  <2>1. /\ scan = "files" /\ scan' \in {"end", "file"} /\ UNCHANGED <<db, cur, powerOff>>
        /\ scan' = "end" => (powerOff \/ PhoneFiles \subseteq visited) /\ visited' = visited
        /\ scan' = "file" => /\ entry' \in PhoneFiles \ visited
                             /\ visited' = visited \cup {entry'}
    BY <1>12 DEF ScanReadDir, Stopped, Files
  <2>2. PhoneReading
    BY <1>12, <2>1
  <2>3. \A n \in Names : n \in visited' /\ ~(scan' = "file" /\ n = entry') <=>
                         n \in visited /\ ~(scan = "file" /\ n = entry)
    BY <2>1
  <2>4. PhoneReading'
    BY <2>1, <2>2, <2>3 DEF PhoneReading, PhoneRead
  <2> QED
    BY <1>12, <2>1, <2>4
<1>13. CASE cur.storage = "internal" /\ ScanFile
  <2>1. /\ scan = "file" /\ scan' = "files" /\ UNCHANGED <<cur, powerOff, visited>>
        /\ entry \in Names
        /\ db' = IF entry \in PhoneFiles
                 THEN [db EXCEPT !["internal"][entry] = Validated(@)] ELSE db
    BY <1>13, <1>c DEF ScanFile, Files
  <2>2. PhoneReading
    BY <1>13, <2>1
  <2>3. /\ db["internal"][entry] = Absent /\ entry \in PhoneFiles
        /\ db["internal"] = PhoneRead /\ entry \in visited /\ visited \subseteq PhoneFiles
    BY <2>1, <2>2 DEF PhoneReading, PhoneRead
  <2>4. Validated(Absent) = [card |-> Phone, valid |-> TRUE]
    BY <1>13 DEF Validated, Added, Medium
  <2>5. /\ db'["internal"] \in [Names -> Rows]
        /\ db'["internal"][entry] = [card |-> Phone, valid |-> TRUE]
        /\ \A n \in Names : n # entry => db'["internal"][n] = db["internal"][n]
    <3>1. [card |-> Phone, valid |-> TRUE] \in Rows
      BY DEF Rows
    <3> QED
      BY <1>d, <2>1, <2>3, <2>4, <3>1 DEF Storages
  <2>6. \A n \in Names : db'["internal"][n] =
          IF n \in visited THEN [card |-> Phone, valid |-> TRUE] ELSE Absent
    BY <2>1, <2>3, <2>5 DEF PhoneRead
  <2>7. db'["internal"] = PhoneRead'
    BY <2>1, <2>5, <2>6 DEF PhoneRead
  <2> QED
    BY <1>13, <2>1, <2>3, <2>7 DEF PhoneReading
<1>14. CASE cur.storage = "internal" /\ ScanEnd
  <2>1. /\ scan = "end" /\ scan' \in {"exited", "updated"} /\ UNCHANGED <<cur, db>>
        /\ scan' = "updated" => ~powerOff /\ disk' = db
    BY <1>14, <1>r, ConstantsInRange DEF ScanEnd, Repair
  <2>2. CASE scan' = "updated"
    <3>1. visited = PhoneFiles /\ db["internal"] = PhoneRead
      BY <1>14, <2>1, <2>2 DEF PhoneReading
    <3>2. db["internal"] = Shown("internal")
      BY <2>1, <3>1 DEF PhoneRead, Shown
    <3> QED
      BY <2>1, <2>2, <3>2 DEF Shown
  <2> QED
    BY <1>14, <2>1, <2>2
<1>15. CASE cur.storage = "internal" /\ (ScanInvalidate \/ ScanDeleteInvalid)
  BY <1>15, <1>c, <1>r, ConstantsInRange DEF ScanInvalidate, ScanDeleteInvalid, Repair
<1> QED
  BY <1>2, <1>3, <1>4, <1>5, <1>6, <1>7, <1>8, <1>10, <1>11, <1>12, <1>13, <1>14, <1>15
     DEF Next, Server, Scanner

(* A request to scan the phone stays in the queues until it is taken.      *)
HasRepair(q) == \E i \in 1..Len(q) : Repair(q[i])

LEMMA RepairAppended ==
  ASSUME NEW q \in Seq(Live), NEW r \in Live
  PROVE  HasRepair(q) \/ Repair(r) => HasRepair(Append(q, r))
<1>1. /\ Len(q) + 1 \in 1..Len(Append(q, r))
      /\ \A i \in 1..Len(q) : i \in 1..Len(Append(q, r))
  OBVIOUS
<1> QED
  BY <1>1, Appended DEF HasRepair

LEMMA RepairTailed ==
  ASSUME NEW q \in Seq(Live), q # <<>>
  PROVE  HasRepair(q) => HasRepair(Tail(q)) \/ Repair(q[1])
<1>1. \A i \in 1..Len(q) : i = 1 \/ \E j \in 1..Len(Tail(q)) : Tail(q)[j] = q[i]
  <2>1. \A i \in 1..Len(q) :
          i = 1 \/ (i - 1 \in 1..Len(Tail(q)) /\ Tail(q)[i - 1] = q[i])
    OBVIOUS
  <2> QED
    BY <2>1
<1> QED
  BY <1>1 DEF HasRepair

LEMMA RepairInserted ==
  ASSUME NEW g \in Seq(Live), NEW r \in Live
  PROVE  HasRepair(g) \/ Repair(r) => HasRepair(InsertArray(g, r))
<1> DEFINE t == InsertArray(g, r)
           n == Len(g)
<1>0. n \in Nat /\ \A i \in 1..n : g[i] \in Live
  OBVIOUS
<1>1. CASE t = <<r>> \o g /\ r.type = POWEROFF
  <2>1. ~Repair(r)
    BY <1>1, ConstantsInRange DEF Repair
  <2>2. \A i \in 1..n : i + 1 \in 1..Len(t) /\ t[i + 1] = g[i]
    BY <1>1, Prefixed
  <2> HIDE DEF t
  <2>3. \A i \in 1..n : \E j \in 1..Len(t) : t[j] = g[i]
    BY <2>2
  <2> QED
    BY <2>1, <2>3 DEF HasRepair, t
<1>2. CASE t = Append(g, r)
  BY <1>2, RepairAppended
<1>3. CASE /\ Len(t) = n /\ \E i \in 1..n : Outdoes(r, g[i])
           /\ \A i \in 1..n : t[i] = IF Outdoes(r, g[i]) THEN r ELSE g[i]
  <2>1. \A i \in 1..n : Outdoes(r, g[i]) => ~Repair(g[i]) /\ ~Repair(r)
    <3>1. \A i \in 1..n : Outdoes(r, g[i]) => Mount(g[i]) /\ (Mount(r) \/ Drop(r))
      BY <1>0, Outdone
    <3> QED
      BY <3>1 DEF Mount, Drop, Repair
  <2> HIDE DEF t
  <2> QED
    BY <1>3, <2>1 DEF HasRepair, t
<1>4. \/ t = <<r>> \o g /\ r.type = POWEROFF
      \/ /\ t = Append(g, r) /\ r.type # POWEROFF
         /\ \A i \in 1..n : ~Outdoes(r, g[i])
      \/ /\ Len(t) = n /\ \E i \in 1..n : Outdoes(r, g[i])
         /\ \A i \in 1..n : t[i] = IF Outdoes(r, g[i]) THEN r ELSE g[i]
  BY InsertOK
<1> QED
  BY ONLY <1>1, <1>2, <1>3, <1>4

(* The definition, in terms of the requests.                               *)
LEMMA PendingIs ==
  ASSUME QueuesOK
  PROVE  RescanIsPending <=>
           \/ disk["internal"] = Shown("internal")
           \/ dbStatus = "updating" /\ cur.storage # "external"
           \/ needDbCreate /\ main \in {"mark", "threads", "phone"}
           \/ HasRepair(scanQueue) \/ HasRepair(garray)
           \/ Repair(cur) /\ scan \in {"connect", "begin"}
<1>1. DOMAIN scanQueue = 1..Len(scanQueue) /\ DOMAIN garray = 1..Len(garray)
  BY DEF QueuesOK
<1> QED
  BY <1>1 DEF RescanIsPending, HasRepair, Repair

(* The repair that is pending stays so, unless the process ends.           *)
LEMMA PendingNext ==
  ASSUME Typed, Typed', ScanIsMarked, RepairInv, RepairInv', RescanIsPending,
         failures' = failures, fileOps' = fileOps, [Next]_vars
  PROVE  RescanIsPending' \/ (main' = "clear" /\ dbStatus = "updated")
<1> DEFINE P == \/ disk["internal"] = Shown("internal")
                \/ dbStatus = "updating" /\ cur.storage # "external"
                \/ needDbCreate /\ main \in {"mark", "threads", "phone"}
                \/ HasRepair(scanQueue) \/ HasRepair(garray)
                \/ Repair(cur) /\ scan \in {"connect", "begin"}
<1> USE DEF mmc, mainVars, scanVars, counters
<1>0. P /\ (P' => RescanIsPending')
  <2>1. RescanIsPending <=> P
    BY PendingIs DEF Typed
  <2>2. RescanIsPending' <=> P'
    <3>1. DOMAIN scanQueue' = 1..Len(scanQueue') /\ DOMAIN garray' = 1..Len(garray')
      BY DEF Typed, QueuesOK
    <3> QED
      BY <3>1 DEF RescanIsPending, HasRepair, Repair
  <2> QED
    BY <2>1, <2>2
<1> SUFFICES P' \/ (main' = "clear" /\ dbStatus = "updated")
  BY <1>0
<1>q. scanQueue \in Seq(Live) /\ garray \in Seq(Live)
  BY DEF Typed, QueuesOK
<1>c. /\ scan \in {"off", "loop"} => cur = NoRequest
      /\ scan \notin {"off", "loop", "exited"} => Mount(cur) \/ Drop(cur) \/ Repair(cur)
      /\ dbStatus \in {"updating", "updated"}
      /\ main \in {"clear", "mark", "threads"} => scan = "off"
      /\ NoRequest.storage = "none"
  BY ConstantsInRange DEF Typed, TypeOK, ScanOK, QueuesOK, Live, Stop
<1>n. failures \in Nat /\ fileOps \in Nat
  BY DEF Typed, TypeOK
<1>d. /\ db \in [Storages -> [Names -> Rows]]
      /\ disk \in [Storages -> [Names -> Rows]]
  BY DEF Typed, TypeOK
<1>s. /\ Mount(cur) \/ Drop(cur) => cur.storage = "external"
      /\ Repair(cur) => cur.storage = "internal" /\ cur.type = MS_SCAN_ALL
  BY DEF Mount, Drop, Repair
<1>u. RepairInv
  OBVIOUS
<1> USE DEF RepairInv
<1>1. CASE BootClear
  <2>1. CASE dbStatus = "updating"
    BY <1>1, <2>1 DEF BootClear, NeedDbCreate
  <2>2. CASE dbStatus = "updated"
    <3>1. scanQueue = <<>> /\ garray = <<>> /\ cur = NoRequest
      BY <1>1 DEF BootClear, Booting
    <3>2. ~HasRepair(<<>>)
      BY DEF HasRepair
    <3>3. disk["internal"] = Shown("internal")
      BY <1>0, <1>1, <1>c, <2>2, <3>1, <3>2 DEF BootClear
    <3>4. disk'["internal"] = disk["internal"]
      BY <1>1, <1>d, <2>2 DEF BootClear, Invalidated, Storages
    <3> QED
      BY <3>3, <3>4
  <2> QED
    BY <1>c, <2>1, <2>2
<1>2. CASE BootMark
  BY <1>0, <1>2 DEF BootMark, Unmarked
<1>3. CASE BootThreads
  BY <1>0, <1>3, <1>c DEF BootThreads
<1>4. ASSUME NEW r \in Live, Pushes(r), UNCHANGED <<disk, dbStatus, scan>>,
             Repair(r) \/ main \notin {"mark", "threads", "phone"}
      PROVE  P'
  <2>1. HasRepair(scanQueue) \/ Repair(r) => HasRepair(scanQueue')
    BY <1>4, <1>q, RepairAppended DEF Pushes
  <2> QED
    BY <1>0, <1>4, <2>1 DEF Pushes
<1>5. CASE BootPhone
  <2>1. CASE needDbCreate
    <3>1. PICK r \in Live : Pushes(r) /\ r.storage = "internal" /\ r.type = MS_SCAN_ALL
      BY <1>5, <2>1, Pushed, ConstantsInRange DEF BootPhone, Storages, Typed
    <3> QED
      BY <1>4, <1>5, <3>1 DEF BootPhone, Repair
  <2>2. CASE ~needDbCreate
    BY <1>0, <1>5, <2>2 DEF BootPhone
  <2> QED
    BY <2>1, <2>2
<1>6. CASE CardRemoved \/ CardMounted \/ PowerOffPush
  <2>1. \E r \in Live : Pushes(r)
    <3>1. CASE CardRemoved
      BY <3>1, Pushed, ConstantsInRange DEF CardRemoved, Storages, Typed
    <3>2. CASE CardMounted
      BY <3>2, Pushed, ConstantsInRange DEF CardMounted, Storages, Typed, TypeOK
    <3>3. CASE PowerOffPush
      BY <3>3, Pushed, ConstantsInRange DEF PowerOffPush, NotifyScanThread, Storages, Typed
    <3> QED
      BY <1>6, <3>1, <3>2, <3>3
  <2> QED
    BY <1>4, <1>6, <2>1 DEF CardRemoved, CardMounted, PowerOffPush
<1>7. CASE BootMmc \/ CardChanged \/ GetMmcState \/ PowerOff \/ ChangeCard
           \/ UNCHANGED vars
  BY <1>0, <1>7 DEF BootMmc, CardChanged, GetMmcState, PowerOff, ChangeCard, vars
(* When the process ends the status that is left on disk is all there is.  *)
<1>8. CASE Join \/ Crash
  BY <1>8, <1>c DEF Join, Crash, Boot
<1>9. CASE ScanMerge
  <2>1. /\ scanQueue # <<>> /\ scanQueue[1] \in Live /\ scanQueue' = Tail(scanQueue)
        /\ garray' = InsertArray(garray, scanQueue[1])
    BY <1>9, <1>q, Tailed DEF ScanMerge
  <2>2. HasRepair(scanQueue) => HasRepair(scanQueue') \/ Repair(scanQueue[1])
    BY <1>q, <2>1, RepairTailed
  <2>3. HasRepair(garray) \/ Repair(scanQueue[1]) => HasRepair(garray')
    BY <1>q, <2>1, RepairInserted
  <2> QED
    BY <1>0, <1>9, <2>2, <2>3 DEF ScanMerge
<1>10. CASE ScanTake
  <2>1. /\ garray # <<>> /\ garray' = Tail(garray) /\ cur' = garray[1]
        /\ scan = "loop" /\ scan' = IF cur'.type = POWEROFF THEN "exited" ELSE "connect"
    BY <1>10, <1>q, Tailed DEF ScanTake, TakenOut, ServedAt
  <2>2. HasRepair(garray) => HasRepair(garray') \/ (Repair(cur') /\ scan' = "connect")
    <3>1. HasRepair(garray) => HasRepair(garray') \/ Repair(garray[1])
      BY <1>q, <2>1, RepairTailed
    <3> QED
      BY <2>1, <3>1, ConstantsInRange DEF Repair
  <2>3. dbStatus = "updated" \/ main \in {"clear", "mark"}
    BY <2>1, <1>c DEF Unmarked
  <2> QED
    BY <1>0, <1>10, <1>c, <2>1, <2>2, <2>3 DEF ScanTake
<1>11. CASE ScanConnect
  BY <1>0, <1>11, <1>c, <1>n DEF ScanConnect
<1>12. CASE ScanBegin
  BY <1>0, <1>12, <1>c, <1>s DEF ScanBegin, BeginStatus
(* A scan that rewrites the rows is marked; that of the card keeps those   *)
(* of the phone.                                                           *)
<1>13. ASSUME UNCHANGED <<dbStatus, cur, scanQueue, garray, main, needDbCreate>>,
              scan \in {"delete", "files", "file", "end", "validate"},
              cur.storage = "external" => disk'["internal"] = disk["internal"]
       PROVE  P'
  <2>1. dbStatus = "updating"
    BY <1>13 DEF ScanIsMarked
  <2> QED
    BY <1>0, <1>13, <2>1
<1>14. CASE ScanReadDir
  BY <1>13, <1>14 DEF ScanReadDir
<1>15. CASE ScanDeleteAll \/ ScanInvalidate \/ ScanFile \/ ScanEnd \/ ScanDeleteInvalid
  <2>1. /\ UNCHANGED <<dbStatus, cur, scanQueue, garray, main, needDbCreate>>
        /\ scan \in {"delete", "files", "file", "end", "validate"}
        /\ disk' \in {disk, db, db'}
    BY <1>15 DEF ScanDeleteAll, ScanInvalidate, ScanFile, ScanEnd, ScanDeleteInvalid
  <2>2. cur.storage = "external" => disk["internal"] = db["internal"]
    BY DEF PhoneCommitted
  <2>3. cur.storage = "external" => db'["internal"] = db["internal"]
    <3>1. CASE ScanDeleteAll \/ ScanInvalidate
      BY <1>d, <3>1 DEF ScanDeleteAll, ScanInvalidate, Invalidated, Storages
    <3>2. CASE ScanEnd
      BY <3>2 DEF ScanEnd
    <3>3. CASE ScanFile
      BY <1>d, <3>3 DEF ScanFile, Storages
    <3>4. CASE ScanDeleteInvalid
      BY <1>d, <3>4 DEF ScanDeleteInvalid, Storages
    <3> QED
      BY <1>15, <3>1, <3>2, <3>3, <3>4
  <2> QED
    BY <1>13, <2>1, <2>2, <2>3
<1>16. CASE ScanUpdated
  <2>1. cur.storage = "internal" => disk'["internal"] = Shown("internal")
    BY <1>16 DEF ScanUpdated, PhoneCommitted, PhoneProgress
  <2>2. cur.storage \in Storages
    BY <1>16 DEF ScanUpdated, Typed, TypeOK
  <2> QED
    BY <1>0, <1>16, <2>1, <2>2 DEF ScanUpdated, Storages
<1>17. CASE ScanUpdateMmcInfo
  BY <1>0, <1>17, <1>c DEF ScanUpdateMmcInfo
<1>18. CASE FileOperationEnd
  BY <1>18, <1>n DEF FileOperationEnd
<1> QED
  BY <1>1, <1>2, <1>3, <1>5, <1>6, <1>7, <1>8, <1>9, <1>10, <1>11, <1>12, <1>14, <1>15,
     <1>16, <1>17, <1>18 DEF Next, Server, Scanner

(* The repair of the phone's rows is pending somewhere (in the persistent  *)
(* status, in main on its way to the request, in a queue, in the request in*)
(* work) until it is done, except when the process ends at a moment when   *)
(* the status on disk says "updated". A failing ms_connect_db drops the    *)
(* request, and the end of a file operation overwrites the status: these   *)
(* two are excluded.                                                       *)
THEOREM RepairIsRemembered ==
  ASSUME MaxFailures = 0, MaxFileOps = 0
  PROVE  Spec => OnlyEndsForget
<1> DEFINE Inv == Typed /\ RepairInv /\ (fileOps = 0 => ScanIsMarked)
           Keep == RescanIsPending =>
                     RescanIsPending' \/ (main' = "clear" /\ dbStatus = "updated")
<1>1. Init => Typed /\ RepairInv
  BY TypedInit, RepairInit
<1>2. Typed /\ RepairInv /\ [Next]_vars => Typed' /\ RepairInv'
  BY TypedNext, BootingNext, UnmarkedNext, PhoneNext DEF RepairInv
<1>3. Inv /\ Inv' /\ [Next]_vars => [Keep]_vars
  <2> SUFFICES ASSUME Inv, Inv', [Next]_vars, RescanIsPending PROVE Keep
    OBVIOUS
  <2>1. /\ failures = 0 /\ failures' = 0 /\ fileOps = 0 /\ fileOps' = 0
    BY DEF Typed, TypeOK
  <2> QED
    BY <2>1, PendingNext
<1>4. Spec => [](fileOps = 0 => ScanIsMarked)
  BY ScansAreMarked
<1> QED
  BY <1>1, <1>2, <1>3, <1>4, PTL DEF Spec, OnlyEndsForget

=============================================================================
