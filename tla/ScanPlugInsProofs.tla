-------------------------- MODULE ScanPlugInsProofs --------------------------
(***************************************************************************)
(* Proofs about ScanPlugIns, for any plug-ins, any files and any number of *)
(* changes and failures: the types, that plug-ins are called with open     *)
(* connections, and that a plug-in is not harmed by the failures of        *)
(* others. For the last one the requests are related to the card (Asked),  *)
(* the files that were read to those on it (Read), and the rows of each    *)
(* plug-in that is not suspect to the phase of the scan (Unharmed).        *)
(***************************************************************************)
EXTENDS ScanPlugIns, QueueLemmas, FiniteSetTheorems, TLAPS

USE PlugInAssumption DEF PlugInAssumption

-----------------------------------------------------------------------------
LEMMA TypesInRange ==
  /\ Types \subseteq Nat
  /\ MS_SCAN_INVALID = 0 /\ MS_SCAN_PART = 1 /\ MS_SCAN_ALL = 2 /\ POWEROFF = 10000
BY DEF Types, MS_SCAN_INVALID, MS_SCAN_PART, MS_SCAN_ALL, POWEROFF

LEMMA Failing ==
  ASSUME failures \in 0..MaxFailures, NEW F \in SUBSET Libs, SomeFail(F)
  PROVE  failures' \in 0..MaxFailures
<1>1. IsFiniteSet(F)
  BY Interval, FS_Subset DEF Libs
<1>2. Cardinality(F) \in Nat /\ MaxFailures \in Nat
  BY <1>1, FS_CardinalityType
<1> QED
  BY <1>2 DEF SomeFail

LEMMA InsertOK ==
  ASSUME requests \in Seq(Types), NEW new \in Types, InsertArray(new)
  PROVE  /\ requests' \in Seq(Types)
         /\ \/ requests' = <<new>> \o requests /\ new = POWEROFF
            \/ /\ requests' = Append(requests, new) /\ new # POWEROFF
               /\ \A i \in 1..Len(requests) : requests[i] \notin (new + 1)..MS_SCAN_ALL
            \/ /\ Len(requests') = Len(requests) /\ new # POWEROFF
               /\ \E i \in 1..Len(requests) : requests[i] \in (new + 1)..MS_SCAN_ALL
               /\ \A i \in 1..Len(requests) :
                    requests'[i] = IF requests[i] \in (new + 1)..MS_SCAN_ALL
                                   THEN new ELSE requests[i]
<1>1. CASE new = POWEROFF
  BY <1>1, Prefixed DEF InsertArray
<1>2. CASE new # POWEROFF /\ ~\E i \in DOMAIN requests : requests[i] \in (new + 1)..MS_SCAN_ALL
  BY <1>2, Appended DEF InsertArray
<1>3. CASE new # POWEROFF /\ \E i \in DOMAIN requests : requests[i] \in (new + 1)..MS_SCAN_ALL
  <2> DEFINE f == [i \in DOMAIN requests |->
                     IF requests[i] \in (new + 1)..MS_SCAN_ALL THEN new ELSE requests[i]]
  <2>1. requests' = f
    BY <1>3 DEF InsertArray
  <2>2. f \in Seq(Types) /\ Len(f) = Len(requests)
    BY Replaced
  <2>3. DOMAIN requests = 1..Len(requests)
    OBVIOUS
  <2> QED
    BY <1>3, <2>1, <2>2, <2>3
<1> QED
  BY <1>1, <1>2, <1>3

(* Every step keeps the types.                                             *)
LEMMA TypedInit == Init => TypeOK
<1> SUFFICES ASSUME Init PROVE TypeOK
  OBVIOUS
<1>1. <<>> \in Seq(Types) /\ POWEROFF \in Types
  BY DEF Types
<1>2. MaxChanges \in Nat /\ MaxFailures \in Nat
  OBVIOUS
<1>3. rows \in [Libs -> [Files -> {"absent", "invalid", "valid"}]]
  BY DEF Init
<1>4. handle \in [Libs -> {"unset", "open", "closed"}]
  BY DEF Init
<1>5. {handleSet, powerOff, misused, broken} \subseteq BOOLEAN
  BY DEF Init
<1>6. card \in {{}} \cup {{F} : F \in SUBSET Files} /\ visited \subseteq Files
      /\ suspect \subseteq Libs
  BY DEF Init
<1>7. changes \in 0..MaxChanges /\ failures \in 0..MaxFailures
  BY <1>2 DEF Init
<1> QED
  BY <1>1, <1>3, <1>4, <1>5, <1>6, <1>7 DEF Init, TypeOK

LEMMA TypedNext == TypeOK /\ [Next]_vars => TypeOK'
<1> SUFFICES ASSUME TypeOK, [Next]_vars PROVE TypeOK'
  OBVIOUS
<1>0. MaxChanges \in Nat /\ MaxFailures \in Nat
  OBVIOUS
<1>f. ASSUME NEW F \in SUBSET Libs, SomeFail(F) PROVE failures' \in 0..MaxFailures
  BY <1>f, Failing DEF TypeOK
<1>k. ASSUME NEW k \in FirstFailure, FailsAt(k) PROVE failures' \in 0..MaxFailures
  BY <1>f, <1>k DEF FailsAt
<1>c. \A k \in FirstFailure : Called(k) \subseteq Libs
  BY DEF Called, FirstFailure, Libs
<1>g. /\ handleSet \in BOOLEAN /\ powerOff \in BOOLEAN
      /\ misused \in BOOLEAN /\ broken \in BOOLEAN
  BY DEF TypeOK
<1> USE <1>0 DEF TypeOK
<1>1. CASE ChangeCard
  <2>1. \A new \in {MS_SCAN_PART, MS_SCAN_ALL, MS_SCAN_INVALID} :
          InsertArray(new) => requests' \in Seq(Types)
    BY InsertOK DEF Types
  <2>2. requests' \in Seq(Types)
    BY <1>1, <2>1 DEF ChangeCard
  <2>3. card' = {} => card' \in {{}} \cup {{F} : F \in SUBSET Files}
    BY ONLY Zenon
  <2>4. (\E F \in SUBSET Files : card' = {F}) =>
          card' \in {{}} \cup {{F} : F \in SUBSET Files}
    BY ONLY Zenon
  <2>5. card' \in {{}} \cup {{F} : F \in SUBSET Files}
    BY <1>1, <2>3, <2>4 DEF ChangeCard
  <2>6. changes' \in 0..MaxChanges
    BY <1>1 DEF ChangeCard
  <2> QED
    BY <1>1, <2>2, <2>5, <2>6 DEF ChangeCard
<1>2. CASE PowerOff
  <2>1. requests' \in Seq(Types)
    BY <1>2, InsertOK DEF PowerOff, Types
  <2> QED
    BY <1>2, <2>1 DEF PowerOff
<1>3. CASE Take
  <2>1. requests' \in Seq(Types) /\ type' \in Types
    BY <1>3, Tailed DEF Take
  <2> QED
    BY <1>3, <2>1 DEF Take
<1>4. CASE ConnectDb
  <2>1. PICK k \in FirstFailure : FailsAt(k) /\ handle' = Connected(k)
                                 /\ broken' = (k \in Libs)
                                 /\ suspect' = IF k \in Libs THEN Libs ELSE suspect
    BY <1>4 DEF ConnectDb
  <2>2. handle' \in [Libs -> {"unset", "open", "closed"}]
    BY <2>1 DEF Connected
  <2>3. failures' \in 0..MaxFailures
    BY <1>k, <2>1
  <2>4. handleSet' \in BOOLEAN /\ broken' \in BOOLEAN
    BY <1>4, <2>1 DEF ConnectDb
  <2>5. {handleSet', powerOff', misused', broken'} \subseteq BOOLEAN
    BY <1>4, <1>g, <2>4 DEF ConnectDb
  <2>6. suspect' \subseteq Libs
    BY <2>1
  <2>7. pc' \in {"loop", "delete", "start"}
    BY <1>4 DEF ConnectDb
  <2> QED
    BY <1>4, <2>2, <2>3, <2>5, <2>6, <2>7 DEF ConnectDb
<1>5. CASE DeleteAllItems
  <2>1. PICK k \in FirstFailure :
          /\ FailsAt(k)
          /\ rows' = [l \in Libs |-> IF l < k THEN [f \in Files |-> "absent"] ELSE rows[l]]
          /\ suspect' = (suspect \ Called(k)) \cup (Libs \ Called(k))
    BY <1>5 DEF DeleteAllItems
  <2>2. rows' \in [Libs -> [Files -> {"absent", "invalid", "valid"}]]
    BY <2>1
  <2>3. failures' \in 0..MaxFailures
    BY <1>k, <2>1
  <2> QED
    BY <1>5, <2>1, <2>2, <2>3 DEF DeleteAllItems
<1>b. Bundle => failures' \in 0..MaxFailures /\ suspect' \subseteq Libs
  BY <1>f DEF Bundle
<1>6. CASE RegisterStart \/ ValidateStart \/ ValidateEnd
  BY <1>6, <1>b DEF RegisterStart, ValidateStart, ValidateEnd, Bundle
<1>7. CASE InvalidateAllItems
  <2>1. PICK F \in SUBSET Libs :
          /\ SomeFail(F)
          /\ rows' = [l \in Libs |->
                        IF l \in F THEN rows[l]
                        ELSE [f \in Files |-> IF rows[l][f] = "absent" THEN "absent"
                                                                       ELSE "invalid"]]
          /\ suspect' = F
    BY <1>7 DEF InvalidateAllItems
  <2>2. rows' \in [Libs -> [Files -> {"absent", "invalid", "valid"}]]
    BY <2>1
  <2>3. failures' \in 0..MaxFailures
    BY <1>f, <2>1
  <2> QED
    BY <1>7, <2>1, <2>2, <2>3 DEF InvalidateAllItems
<1>8. ASSUME NEW f \in Files, ScanFile(f) PROVE TypeOK'
  <2>1. Category[f] \subseteq Libs
    OBVIOUS
  <2>2. CASE \E F \in SUBSET Category[f] :
               /\ SomeFail(F)
               /\ rows' = [l \in Libs |-> IF l \in CalledFor(f, F) \ F
                                         THEN [rows[l] EXCEPT ![f] = Stored(@)] ELSE rows[l]]
               /\ suspect' = suspect \cup F
    <3>1. PICK F \in SUBSET Category[f] :
               /\ SomeFail(F)
               /\ rows' = [l \in Libs |-> IF l \in CalledFor(f, F) \ F
                                         THEN [rows[l] EXCEPT ![f] = Stored(@)] ELSE rows[l]]
               /\ suspect' = suspect \cup F
      BY <2>2
    <3>2. \A row \in {"absent", "invalid", "valid"} :
            Stored(row) \in {"absent", "invalid", "valid"}
      BY DEF Stored
    <3>3. \A l \in Libs :
            [rows[l] EXCEPT ![f] = Stored(@)] \in [Files -> {"absent", "invalid", "valid"}]
      BY <3>2
    <3>4. rows' \in [Libs -> [Files -> {"absent", "invalid", "valid"}]]
      BY <3>1, <3>3
    <3>5. failures' \in 0..MaxFailures
      BY <1>f, <2>1, <3>1
    <3> QED
      BY <1>8, <2>1, <3>1, <3>4, <3>5 DEF ScanFile
  <2>3. CASE failures < MaxFailures /\ failures' = failures + 1
             /\ suspect' = suspect \cup Category[f] /\ UNCHANGED rows
    <3>1. suspect' \subseteq Libs
      BY <2>1, <2>3
    <3>2. failures' \in 0..MaxFailures
      BY <2>3
    <3>3. visited' \subseteq Files
      BY <1>8 DEF ScanFile
    <3>4. {handleSet', powerOff', misused', broken'} \subseteq BOOLEAN
      BY <1>8, <1>g DEF ScanFile
    <3> QED
      BY <1>8, <2>3, <3>1, <3>2, <3>3, <3>4 DEF ScanFile
  <2> QED
    BY <1>8, <2>2, <2>3 DEF ScanFile
<1>9. CASE ScanEnd
  BY <1>9 DEF ScanEnd
<1>10. CASE RegisterEnd
  BY <1>10, <1>b DEF RegisterEnd, Bundle
<1>11. CASE DeleteInvalidItems
  <2>1. PICK k \in FirstFailure :
          /\ FailsAt(k)
          /\ rows' = [l \in Libs |->
                     IF l < k
                     THEN [f \in Files |-> IF rows[l][f] = "valid" THEN "valid" ELSE "absent"]
                     ELSE rows[l]]
    BY <1>11 DEF DeleteInvalidItems
  <2>2. rows' \in [Libs -> [Files -> {"absent", "invalid", "valid"}]]
    BY <2>1
  <2>3. failures' \in 0..MaxFailures
    BY <1>k, <2>1
  <2> QED
    BY <1>11, <2>2, <2>3 DEF DeleteInvalidItems
<1>12. CASE DisconnectDb
  <2>1. PICK k \in FirstFailure :
          /\ FailsAt(k)
          /\ misused' = (\E l \in Called(k) \cup (Libs \cap {k}) : handle[l] # "open")
          /\ handle' = [l \in Libs |-> IF l < k THEN "closed" ELSE handle[l]]
          /\ handleSet' = StillSet(k)
          /\ broken' = IF pc = "last" THEN broken ELSE k \in Libs
    BY <1>12 DEF DisconnectDb
  <2>2. handle' \in [Libs -> {"unset", "open", "closed"}]
    BY <2>1
  <2>5. handleSet' \in BOOLEAN
    BY <2>1 DEF StillSet
  <2>6. misused' \in BOOLEAN
    <3>1. misused' = TRUE \/ misused' = FALSE
      BY <2>1
    <3> QED
      BY ONLY <3>1
  <2>7. broken' \in BOOLEAN
    <3>1. broken' = TRUE \/ broken' = FALSE
      BY <1>g, <2>1
    <3> QED
      BY ONLY <3>1
  <2>3. {handleSet', powerOff', misused', broken'} \subseteq BOOLEAN
    BY <1>12, <1>g, <2>5, <2>6, <2>7 DEF DisconnectDb
  <2>4. failures' \in 0..MaxFailures
    BY <1>k, <2>1
  <2> QED
    BY <1>12, <2>2, <2>3, <2>4 DEF DisconnectDb
<1>13. CASE UNCHANGED vars
  BY <1>13 DEF vars
<1> QED
  BY <1>1, <1>2, <1>3, <1>4, <1>5, <1>6, <1>7, <1>8, <1>9, <1>10, <1>11, <1>12, <1>13
     DEF Next, Scanner

(* The types hold in every reachable state.                                *)
THEOREM PlugInTyping == Spec => []TypeOK
BY TypedInit, TypedNext, PTL DEF Spec

-----------------------------------------------------------------------------
(* The connections are all open from ms_connect_db to ms_disconnect_db.    *)
Open == \A l \in Libs : handle[l] = "open"
Handles == ConnectionsAreSound /\ (pc = "last" => broken \/ Open)

(* Only ms_connect_db and ms_disconnect_db touch them.                     *)
LEMMA HandlesKept ==
  ASSUME TypeOK, Handles, UNCHANGED <<handle, broken, misused>>,
         \/ pc' = "connect" \/ pc' = "exited"
         \/ pc' = "last" /\ pc = "loop" /\ handleSet
         \/ pc' = "last" /\ pc = "end"
         \/ UNCHANGED handleSet /\ pc' = pc
         \/ pc \in {"delete", "start", "validate", "scan", "end", "validated", "clean"}
            /\ pc' \notin {"loop", "connect", "last", "exited"}
  PROVE  Handles'
BY DEF Handles, ConnectionsAreSound, Open

LEMMA HandlesNext == TypeOK /\ Handles /\ [Next]_vars => Handles'
<1> SUFFICES ASSUME TypeOK, Handles, [Next]_vars PROVE Handles'
  OBVIOUS
<1>1. CASE ChangeCard \/ PowerOff \/ UNCHANGED vars
  BY <1>1, HandlesKept DEF ChangeCard, PowerOff, vars
<1>2. CASE Take
  <2>1. POWEROFF # 0
    BY TypesInRange
  <2>2. pc' = "connect" \/ pc' = "exited" \/ (pc' = "last" /\ pc = "loop" /\ handleSet)
    BY <1>2 DEF Take
  <2>3. UNCHANGED <<handle, broken, misused>>
    BY <1>2 DEF Take
  <2> QED
    BY <2>2, <2>3, HandlesKept
<1>3. CASE ConnectDb /\ ~misused
  <2>1. PICK k \in FirstFailure :
          /\ handle' = Connected(k)
          /\ broken' = (k \in Libs)
          /\ pc' = IF k \in Libs THEN "loop"
                   ELSE IF type = MS_SCAN_ALL THEN "delete" ELSE "start"
    BY <1>3 DEF ConnectDb
  <2>2. misused' = FALSE
    BY <1>3 DEF ConnectDb, TypeOK
  <2>3. CASE k \in Libs
    BY <2>1, <2>2, <2>3 DEF Handles, ConnectionsAreSound
  <2>4. CASE k \notin Libs
    <3>1. \A l \in Libs : l < k
      BY <2>4 DEF Libs, FirstFailure
    <3>2. \A l \in Libs : handle'[l] = "open"
      BY <2>1, <3>1 DEF Connected
    <3> QED
      BY <2>1, <2>2, <2>4, <3>2 DEF Handles, ConnectionsAreSound
  <2> QED
    BY <2>3, <2>4
<1>4. CASE DeleteAllItems
  BY <1>4, HandlesKept DEF DeleteAllItems
<1>5. CASE RegisterStart \/ ValidateStart \/ ValidateEnd
  BY <1>5, HandlesKept DEF RegisterStart, ValidateStart, ValidateEnd, Bundle
<1>6. CASE InvalidateAllItems \/ ScanEnd \/ DeleteInvalidItems
  BY <1>6, HandlesKept DEF InvalidateAllItems, ScanEnd, DeleteInvalidItems
<1>7. CASE \E f \in Files : ScanFile(f)
  BY <1>7, HandlesKept DEF ScanFile
<1>8. CASE RegisterEnd
  BY <1>8, HandlesKept DEF RegisterEnd, Bundle
<1>9. CASE DisconnectDb /\ ~misused
  <2>1. PICK k \in FirstFailure :
          /\ misused' = (\E l \in Called(k) \cup (Libs \cap {k}) : handle[l] # "open")
          /\ handleSet' = StillSet(k)
          /\ broken' = IF pc = "last" THEN broken ELSE k \in Libs
    BY <1>9 DEF DisconnectDb
  <2>2. Called(k) \cup (Libs \cap {k}) \subseteq Libs
    BY DEF Called, FirstFailure, Libs
  <2>3. CASE pc = "disconnect"
    <3>1. ~misused'
      BY <2>1, <2>2, <2>3 DEF Handles, ConnectionsAreSound
    <3>2. pc' = "loop" /\ broken' = (k \in Libs) /\ handleSet' = (k \in Libs)
      BY <1>9, <2>1, <2>3 DEF DisconnectDb, StillSet
    <3> QED
      BY <3>1, <3>2 DEF Handles, ConnectionsAreSound
  <2>4. CASE pc = "last"
    <3>1. misused' => broken
      BY <2>1, <2>2, <2>4 DEF Handles, Open
    <3>2. pc' = "exited" /\ broken' = broken
      BY <1>9, <2>1, <2>4 DEF DisconnectDb
    <3> QED
      BY <3>1, <3>2 DEF Handles, ConnectionsAreSound
  <2> QED
    BY <1>9, <2>3, <2>4 DEF DisconnectDb
<1> QED
  BY <1>1, <1>2, <1>3, <1>4, <1>5, <1>6, <1>7, <1>8, <1>9 DEF Next, Scanner

(* Every plug-in is called with an open connection during a scan, no       *)
(* connection is kept after it, and at a power-off none is closed twice or *)
(* was never made, unless the last one could not be made or closed.        *)
THEOREM ConnectionsSound == Spec => []ConnectionsAreSound
<1>1. Init => Handles
  BY DEF Init, Handles, ConnectionsAreSound
<1>2. Handles => ConnectionsAreSound
  BY DEF Handles
<1> QED
  BY <1>1, <1>2, HandlesNext, PlugInTyping, PTL DEF Spec

-----------------------------------------------------------------------------
(* What the requests say about the card.                                   *)
Mount(t) == t \in {MS_SCAN_PART, MS_SCAN_ALL}
HasMount(q) == \E i \in 1..Len(q) : Mount(q[i])
HasDrop(q)  == \E i \in 1..Len(q) : q[i] = MS_SCAN_INVALID
MountIsLast(q) ==
  \A i, j \in 1..Len(q) : Mount(q[i]) /\ q[j] # POWEROFF => ~(i < j)

Busy == pc \notin {"loop", "last", "exited"}

(* The requests follow the card: the last one is to scan it while it is in *)
(* the slot, unless that is being done or has been done.                   *)
Asked ==
  /\ MountIsLast(requests)
  /\ HasMount(requests) => card # {}
  /\ card # {} /\ (HasDrop(requests) \/ (Busy /\ type = MS_SCAN_INVALID)) =>
       HasMount(requests)
  /\ Busy /\ Mount(type) => (HasMount(requests) \/ card = {} => HasDrop(requests))
  /\ Busy => type \in {MS_SCAN_INVALID, MS_SCAN_PART, MS_SCAN_ALL}
  /\ pc \in {"validate", "validated", "clean"} => type = MS_SCAN_PART
  /\ pc = "delete" => type = MS_SCAN_ALL

(* How far a scan of the card in the slot has come, plug-in by plug-in.    *)
Reading(l) ==
  \A f \in Files :
    /\ rows[l][f] = "valid" <=> f \in visited /\ l \in Category[f]
    /\ type = MS_SCAN_ALL => rows[l][f] # "invalid"
Progress(l) ==
  /\ pc = "connect" => Shown(l) = {}
  /\ pc \in {"start", "validate"} =>
       Shown(l) = {} /\ (type = MS_SCAN_ALL => \A f \in Files : rows[l][f] = "absent")
  /\ pc \in {"scan", "end"} => Reading(l)
  /\ pc \in {"validated", "clean", "disconnect"} => Shown(l) = Wanted(l)

Scanning == Busy /\ Mount(type) /\ ~HasDrop(requests)
Read ==
  Scanning => /\ pc = "validate" => visited = {}
              /\ pc \in {"scan", "end"} => visited \subseteq UNION card
              /\ pc = "end" => powerOff \/ UNION card \subseteq visited

(* The rows, for the plug-ins none of whose calls failed.                  *)
Unharmed ==
  \A l \in Libs \ suspect :
    /\ pc = "loop" /\ HasMount(requests) /\ ~HasDrop(requests) => Shown(l) = {}
    /\ pc = "loop" /\ ~HasMount(requests) /\ ~HasDrop(requests) => Shown(l) = Wanted(l)
    /\ pc \in {"end", "disconnect"} /\ type = MS_SCAN_INVALID => Shown(l) = {}
    /\ Scanning => Progress(l)

PlugInInv == Asked /\ Read /\ Unharmed

-----------------------------------------------------------------------------
(* What the head of the requests adds to what the rest of them say.        *)
LEMMA HeadView ==
  ASSUME NEW q \in Seq(Types), q # <<>>
  PROVE  LET t == Tail(q)
             r == q[1]
         IN  /\ HasMount(q) <=> HasMount(t) \/ Mount(r)
             /\ HasDrop(q) <=> HasDrop(t) \/ r = MS_SCAN_INVALID
             /\ MountIsLast(q) <=>
                  MountIsLast(t) /\ (Mount(r) => \A i \in 1..Len(t) : t[i] = POWEROFF)
<1> DEFINE t == Tail(q)
           r == q[1]
           I == 1..Len(t)
           J == 1..Len(q)
<1>1. PICK sh \in [I -> J] :
        /\ 1 \in J
        /\ \A i \in I : t[i] = q[sh[i]] /\ 1 < sh[i]
        /\ \A i \in J : ~(i < 1)
        /\ \A i \in J : i = 1 \/ \E j \in I : i = sh[j]
        /\ \A i, j \in I : sh[i] < sh[j] <=> i < j
  BY Moved
<1>2. /\ HasMount(q) <=> \E i \in J : Mount(q[i])
      /\ HasDrop(q) <=> \E i \in J : q[i] = MS_SCAN_INVALID
      /\ HasMount(t) <=> \E i \in I : Mount(t[i])
      /\ HasDrop(t) <=> \E i \in I : t[i] = MS_SCAN_INVALID
  BY DEF HasMount, HasDrop
<1>3. /\ MountIsLast(q) <=>
           \A i, j \in J : Mount(q[i]) /\ q[j] # POWEROFF => ~(i < j)
      /\ MountIsLast(t) <=>
           \A i, j \in I : Mount(t[i]) /\ t[j] # POWEROFF => ~(i < j)
  BY DEF MountIsLast
<1> HIDE DEF t, I, J
<1>4. \A i \in I : sh[i] \in J /\ t[i] = q[sh[i]]
  BY <1>1
<1>5. HasMount(q) <=> HasMount(t) \/ Mount(r)
  BY <1>1, <1>2, <1>4
<1>6. HasDrop(q) <=> HasDrop(t) \/ r = MS_SCAN_INVALID
  BY <1>1, <1>2, <1>4
<1>7. ASSUME MountIsLast(q) PROVE MountIsLast(t)
  BY <1>1, <1>3, <1>4, <1>7
<1>8. ASSUME MountIsLast(q), Mount(r) PROVE \A i \in I : t[i] = POWEROFF
  BY <1>1, <1>3, <1>4, <1>8
<1>9. ASSUME MountIsLast(t), Mount(r) => \A i \in I : t[i] = POWEROFF
      PROVE  MountIsLast(q)
  <2> SUFFICES ASSUME NEW i \in J, NEW j \in J, Mount(q[i]), q[j] # POWEROFF
               PROVE  ~(i < j)
    BY <1>3
  <2>1. CASE j = 1
    BY <1>1, <2>1
  <2>2. CASE i = 1 /\ j # 1
    BY <1>1, <1>9, <2>2
  <2>3. CASE i # 1 /\ j # 1
    <3>1. PICK k \in I : i = sh[k]
      BY <1>1, <2>3
    <3>2. PICK m \in I : j = sh[m]
      BY <1>1, <2>3
    <3>3. ~(k < m)
      BY <1>1, <1>3, <1>9, <3>1, <3>2
    <3> QED
      BY <1>1, <3>1, <3>2, <3>3
  <2> QED
    BY <2>1, <2>2, <2>3
<1> QED
  BY <1>5, <1>6, <1>7, <1>8, <1>9 DEF t, I

(* The request that is taken: a card that is in is to be scanned last.     *)
LEMMA TakeView ==
  ASSUME NEW q \in Seq(Types), q # <<>>, MountIsLast(q)
  PROVE  /\ MountIsLast(Tail(q))
         /\ Head(q) = MS_SCAN_INVALID =>
              HasDrop(q) /\ (HasMount(Tail(q)) <=> HasMount(q))
         /\ Mount(Head(q)) =>
              HasMount(q) /\ ~HasMount(Tail(q)) /\ ~HasDrop(q) /\ ~HasDrop(Tail(q))
<1> DEFINE t == Tail(q)
           r == q[1]
<1>0. Head(q) = r
  BY Tailed
<1>1. /\ HasMount(q) <=> HasMount(t) \/ Mount(r)
      /\ HasDrop(q) <=> HasDrop(t) \/ r = MS_SCAN_INVALID
      /\ MountIsLast(t) /\ (Mount(r) => \A i \in 1..Len(t) : t[i] = POWEROFF)
  BY HeadView
<1>2. ~Mount(MS_SCAN_INVALID) /\ ~Mount(POWEROFF) /\ POWEROFF # MS_SCAN_INVALID
  BY TypesInRange DEF Mount
<1>3. (\A i \in 1..Len(t) : t[i] = POWEROFF) => ~HasMount(t) /\ ~HasDrop(t)
  BY <1>2 DEF HasMount, HasDrop
<1> HIDE DEF t, r
<1>4. t = Tail(q)
  BY DEF t
<1> QED
  BY ONLY <1>0, <1>1, <1>2, <1>3, <1>4

(* What _insert_array does to them: a request to scan is the last one then,*)
(* one to make all rows invalid takes the place of those to scan.          *)
LEMMA InsertView ==
  ASSUME requests \in Seq(Types), MountIsLast(requests),
         NEW new \in Types, InsertArray(new),
         Mount(new) => ~HasMount(requests)
  PROVE  /\ MountIsLast(requests')
         /\ new = POWEROFF => /\ HasMount(requests') <=> HasMount(requests)
                              /\ HasDrop(requests') <=> HasDrop(requests)
         /\ Mount(new) => /\ HasMount(requests')
                          /\ HasDrop(requests') <=> HasDrop(requests)
         /\ new = MS_SCAN_INVALID => ~HasMount(requests') /\ HasDrop(requests')
<1> DEFINE g == requests
           t == requests'
           n == Len(requests)
<1>0. n \in Nat /\ g \in Seq(Types) /\ \A i \in 1..n : g[i] \in Types
  OBVIOUS
<1>1. \A old \in Types : Mount(old) <=> old \in (MS_SCAN_INVALID + 1)..MS_SCAN_ALL
  BY DEF Types, Mount, MS_SCAN_INVALID, MS_SCAN_PART, MS_SCAN_ALL, POWEROFF
<1>2. /\ ~Mount(MS_SCAN_INVALID) /\ ~Mount(POWEROFF) /\ POWEROFF # MS_SCAN_INVALID
      /\ new # POWEROFF => new = MS_SCAN_INVALID \/ Mount(new)
  BY TypesInRange DEF Mount, Types
<1>3. Mount(new) => \A old \in Types : old \in (new + 1)..MS_SCAN_ALL => Mount(old)
  BY DEF Types, Mount, MS_SCAN_INVALID, MS_SCAN_PART, MS_SCAN_ALL, POWEROFF
<1>4. CASE t = <<new>> \o g /\ new = POWEROFF
  <2>1. t \in Seq(Types) /\ t # <<>> /\ Tail(t) = g /\ t[1] = POWEROFF
    BY <1>4
  <2> HIDE DEF t, g
  <2>2. /\ HasMount(t) <=> HasMount(g)
        /\ HasDrop(t) <=> HasDrop(g)
        /\ MountIsLast(t) <=> MountIsLast(g)
    BY <1>2, <2>1, HeadView
  <2> QED
    BY <1>2, <1>4, <2>2 DEF t, g
<1>5. CASE /\ t = Append(g, new) /\ new # POWEROFF
           /\ \A i \in 1..n : g[i] \notin (new + 1)..MS_SCAN_ALL
  <2>1. /\ Len(t) = n + 1 /\ t[n + 1] = new
        /\ \A i \in 1..n : t[i] = g[i]
    BY <1>0, <1>5, Appended
  <2>2. \A i \in 1..(n + 1) : i \in 1..n \/ i = n + 1
    BY <1>0
  <2>3. n + 1 \in 1..(n + 1) /\ \A i \in 1..n : i \in 1..(n + 1)
    BY <1>0
  <2>4. ~HasMount(g)
    BY <1>0, <1>1, <1>2, <1>5 DEF HasMount
  <2>5. \A i \in 1..n : ~Mount(t[i])
    BY <2>1, <2>4 DEF HasMount
  <2>6. \A i, j \in 1..(n + 1) : i = n + 1 => ~(i < j)
    BY <1>0
  <2> HIDE DEF t, n
  <2>7. MountIsLast(t)
    BY <2>1, <2>2, <2>5, <2>6 DEF MountIsLast
  <2>8. HasMount(t) <=> Mount(new)
    BY <2>1, <2>2, <2>3, <2>5 DEF HasMount
  <2>9. HasDrop(t) <=> HasDrop(g) \/ new = MS_SCAN_INVALID
    BY <2>1, <2>2, <2>3 DEF HasDrop, n
  <2> QED
    BY <1>2, <1>5, <2>7, <2>8, <2>9 DEF t, g
<1>6. CASE /\ Len(t) = n /\ new # POWEROFF
           /\ \E i \in 1..n : g[i] \in (new + 1)..MS_SCAN_ALL
           /\ \A i \in 1..n : t[i] = IF g[i] \in (new + 1)..MS_SCAN_ALL THEN new ELSE g[i]
  <2>1. new = MS_SCAN_INVALID
    BY <1>0, <1>2, <1>3, <1>6 DEF HasMount
  <2>2. \A i \in 1..n : ~Mount(t[i])
    BY <1>0, <1>1, <1>2, <1>6, <2>1
  <2>3. \E i \in 1..n : t[i] = MS_SCAN_INVALID
    BY <1>6, <2>1
  <2> HIDE DEF t, n
  <2>4. ~HasMount(t) /\ HasDrop(t) /\ MountIsLast(t)
    BY <1>6, <2>2, <2>3 DEF HasMount, HasDrop, MountIsLast
  <2> QED
    BY <1>2, <2>1, <2>4 DEF t
<1> QED
  BY <1>4, <1>5, <1>6, InsertOK

-----------------------------------------------------------------------------
(* Asked: the requests follow the card.                                    *)
LEMMA NoRequests ==
  ASSUME requests = <<>>
  PROVE  ~HasMount(requests) /\ ~HasDrop(requests)
BY DEF HasMount, HasDrop

LEMMA ScanTypes ==
  /\ Mount(MS_SCAN_PART) /\ Mount(MS_SCAN_ALL)
  /\ ~Mount(MS_SCAN_INVALID) /\ ~Mount(POWEROFF)
  /\ MS_SCAN_PART # MS_SCAN_ALL /\ POWEROFF # MS_SCAN_INVALID
  /\ Types = {MS_SCAN_INVALID, MS_SCAN_PART, MS_SCAN_ALL, POWEROFF}
BY TypesInRange DEF Mount, Types

(* What a change of the card means for it.                                 *)
LEMMA CardView ==
  ASSUME TypeOK, Asked, ChangeCard
  PROVE  /\ MountIsLast(requests')
         /\ \/ card = {} /\ card' # {} /\ ~HasMount(requests) /\ HasMount(requests')
               /\ (HasDrop(requests') <=> HasDrop(requests))
            \/ card # {} /\ card' = {} /\ ~HasMount(requests') /\ HasDrop(requests')
<1>1. CASE card = {} /\ (\E F \in SUBSET Files : card' = {F})
           /\ \E new \in {MS_SCAN_PART, MS_SCAN_ALL} : InsertArray(new)
  <2>1. PICK new \in {MS_SCAN_PART, MS_SCAN_ALL} : InsertArray(new)
    BY <1>1
  <2>2. new \in Types /\ Mount(new) /\ ~HasMount(requests)
    BY <1>1, ScanTypes DEF Asked
  <2>3. card' # {}
    BY <1>1
  <2> QED
    BY <1>1, <2>1, <2>2, <2>3, InsertView DEF Asked, TypeOK
<1>2. CASE card # {} /\ card' = {} /\ InsertArray(MS_SCAN_INVALID)
  BY <1>2, ScanTypes, InsertView DEF Asked, TypeOK
<1> QED
  BY <1>1, <1>2 DEF ChangeCard

LEMMA PowerOffView ==
  ASSUME TypeOK, Asked, PowerOff
  PROVE  /\ MountIsLast(requests')
         /\ HasMount(requests') <=> HasMount(requests)
         /\ HasDrop(requests') <=> HasDrop(requests)
BY ScanTypes, InsertView DEF PowerOff, Asked, TypeOK

LEMMA AskedKept ==
  ASSUME Asked, UNCHANGED <<card, requests, type>>, Busy' => Busy,
         pc' \in {"validate", "validated", "clean"} => type = MS_SCAN_PART,
         pc' = "delete" => type = MS_SCAN_ALL
  PROVE  Asked'
BY DEF Asked

LEMMA AskedNext == TypeOK /\ Asked /\ [Next]_vars => Asked'
<1> SUFFICES ASSUME TypeOK, Asked, [Next]_vars PROVE Asked'
  OBVIOUS
<1>1. CASE ChangeCard
  <2>1. UNCHANGED <<pc, type>>
    BY <1>1 DEF ChangeCard
  <2>2. Busy' <=> Busy
    BY <2>1 DEF Busy
  <2> QED
    BY <1>1, <2>1, <2>2, CardView, ScanTypes DEF Asked
<1>2. CASE PowerOff
  <2>1. UNCHANGED <<pc, type, card>>
    BY <1>2 DEF PowerOff
  <2>2. Busy' <=> Busy
    BY <2>1 DEF Busy
  <2> QED
    BY <1>2, <2>1, <2>2, PowerOffView DEF Asked
<1>3. CASE Take
  <2>1. /\ requests # <<>> /\ requests \in Seq(Types) /\ UNCHANGED card
        /\ type' = Head(requests) /\ requests' = Tail(requests)
        /\ pc' = IF Head(requests) # POWEROFF THEN "connect"
                 ELSE IF handleSet THEN "last" ELSE "exited"
    BY <1>3 DEF Take, TypeOK
  <2>2. Head(requests) \in Types
    BY <2>1, Tailed
  <2>3. /\ MountIsLast(requests')
        /\ type' = MS_SCAN_INVALID =>
             HasDrop(requests) /\ (HasMount(requests') <=> HasMount(requests))
        /\ Mount(type') =>
             HasMount(requests) /\ ~HasMount(requests') /\ ~HasDrop(requests')
    BY <2>1, TakeView DEF Asked
  <2>4. Busy' <=> type' # POWEROFF
    BY <2>1 DEF Busy
  <2>5. pc' \notin {"validate", "validated", "clean", "delete"}
    BY <2>1
  <2>6. HasMount(requests') => HasMount(requests)
    BY <2>1, HeadView DEF Asked
  <2>7. HasDrop(requests') => HasDrop(requests)
    BY <2>1, HeadView DEF Asked
  <2> QED
    BY <2>1, <2>2, <2>3, <2>4, <2>5, <2>6, <2>7, HeadView, ScanTypes DEF Asked
<1>4. CASE ConnectDb \/ DeleteAllItems
  BY <1>4, AskedKept, ScanTypes DEF ConnectDb, DeleteAllItems, Busy
<1>5. CASE RegisterStart \/ ValidateStart \/ ValidateEnd
  BY <1>5, AskedKept DEF RegisterStart, ValidateStart, ValidateEnd, Bundle, Busy, Asked
<1>6. CASE InvalidateAllItems \/ ScanEnd \/ DeleteInvalidItems
  BY <1>6, AskedKept DEF InvalidateAllItems, ScanEnd, DeleteInvalidItems, Busy
<1>7. CASE \E f \in Files : ScanFile(f)
  BY <1>7, AskedKept DEF ScanFile, Busy
<1>8. CASE RegisterEnd
  BY <1>8, AskedKept DEF RegisterEnd, Bundle, Busy
<1>9. CASE DisconnectDb
  BY <1>9, AskedKept DEF DisconnectDb, Busy
<1>10. CASE UNCHANGED vars
  BY <1>10, AskedKept DEF vars, Busy, Asked
<1> QED
  BY <1>1, <1>2, <1>3, <1>4, <1>5, <1>6, <1>7, <1>8, <1>9, <1>10 DEF Next, Scanner

-----------------------------------------------------------------------------
(* Read: how much of the card a scan has read.                             *)
LEMMA ScanningCard ==
  ASSUME Asked, Scanning
  PROVE  card # {} /\ ~HasMount(requests) /\ type \in {MS_SCAN_PART, MS_SCAN_ALL}
BY DEF Asked, Scanning, Mount

(* A scan does not survive a change of the card: what comes after it is a  *)
(* request to make all rows invalid.                                       *)
LEMMA ChangedCard ==
  ASSUME TypeOK, Asked, ChangeCard
  PROVE  ~Scanning' /\ UNCHANGED <<pc, type, rows, visited, suspect>>
<1>1. UNCHANGED <<pc, type, rows, visited, suspect>>
  BY DEF ChangeCard
<1>2. Busy' <=> Busy
  BY <1>1 DEF Busy
<1> QED
  BY <1>1, <1>2, CardView DEF Asked, Scanning

LEMMA CardFiles ==
  ASSUME TypeOK
  PROVE  /\ UNION card \subseteq Files
         /\ card = {} => UNION card = {}
         /\ card # {} => \A f \in Files : (\A on \in card : f \in on) => f \in UNION card
         /\ \A V : (\A on \in card : on \subseteq V) => UNION card \subseteq V
<1>1. UNION card \subseteq Files
  <2>1. \A on \in card : on \subseteq Files
    BY DEF TypeOK
  <2> QED
    BY <2>1
<1> QED
  BY <1>1

LEMMA ReadNext == TypeOK /\ Asked /\ Read /\ [Next]_vars => Read'
<1> SUFFICES ASSUME TypeOK, Asked, Read, [Next]_vars, Scanning'
             PROVE  /\ pc' = "validate" => visited' = {}
                    /\ pc' \in {"scan", "end"} => visited' \subseteq UNION card'
                    /\ pc' = "end" => powerOff' \/ UNION card' \subseteq visited'
  BY DEF Read
<1>1. CASE ChangeCard
  BY <1>1, ChangedCard
<1>2. CASE PowerOff
  <2>1. Scanning
    BY <1>2, PowerOffView DEF PowerOff, Scanning, Busy
  <2> QED
    BY <1>2, <2>1 DEF PowerOff, Read
<1>3. CASE Take \/ ConnectDb \/ DeleteAllItems \/ DeleteInvalidItems \/ DisconnectDb
  BY <1>3 DEF Take, ConnectDb, DeleteAllItems, DeleteInvalidItems, DisconnectDb
<1>4. CASE RegisterStart
  BY <1>4 DEF RegisterStart
<1>5. CASE ValidateStart
  <2>1. Scanning /\ pc = "validate" /\ pc' = "scan" /\ UNCHANGED visited
    BY <1>5 DEF ValidateStart, Bundle, Scanning, Busy
  <2> QED
    BY <2>1 DEF Read
<1>6. CASE InvalidateAllItems
  BY <1>6, ScanTypes DEF InvalidateAllItems, Scanning
<1>7. ASSUME NEW f \in Files, ScanFile(f)
      PROVE  pc' = "scan" /\ visited' \subseteq UNION card'
  <2>1. Scanning /\ UNCHANGED <<pc, card>> /\ pc = "scan" /\ visited' = visited \cup {f}
    BY <1>7 DEF ScanFile, Scanning, Busy
  <2>2. f \in UNION card
    BY <1>7, <2>1, CardFiles, ScanningCard DEF ScanFile
  <2> QED
    BY <2>1, <2>2 DEF Read
<1>8. CASE ScanEnd
  <2>1. Scanning /\ UNCHANGED <<visited, card, powerOff>> /\ pc = "scan" /\ pc' = "end"
    BY <1>8 DEF ScanEnd, Scanning, Busy
  <2>2. powerOff \/ UNION card \subseteq visited
    BY <1>8, <2>1, ScanningCard, CardFiles DEF ScanEnd, Stopped
  <2> QED
    BY <2>1, <2>2 DEF Read
<1>9. CASE RegisterEnd \/ ValidateEnd
  BY <1>9 DEF RegisterEnd, ValidateEnd
<1>10. CASE UNCHANGED vars
  <2>1. Scanning /\ UNCHANGED <<visited, card, powerOff, pc>>
    BY <1>10 DEF vars, Scanning, Busy
  <2> QED
    BY <2>1 DEF Read
<1> QED
  BY <1>1, <1>2, <1>3, <1>4, <1>5, <1>6, <1>7, <1>8, <1>9, <1>10 DEF Next, Scanner

-----------------------------------------------------------------------------
(* Unharmed: the rows of the plug-ins none of whose calls failed.          *)
LEMMA UnharmedNext ==
  TypeOK /\ Asked /\ Read /\ Unharmed /\ Asked' /\ [Next]_vars => Unharmed'
<1> SUFFICES ASSUME TypeOK, Asked, Read, Unharmed, Asked', [Next]_vars,
                    NEW l \in Libs, l \notin suspect'
    PROVE /\ pc' = "loop" /\ HasMount(requests') /\ ~HasDrop(requests') => Shown(l)' = {}
          /\ pc' = "loop" /\ ~HasMount(requests') /\ ~HasDrop(requests') =>
               Shown(l)' = Wanted(l)'
          /\ pc' \in {"end", "disconnect"} /\ type' = MS_SCAN_INVALID => Shown(l)' = {}
          /\ Scanning' => Progress(l)'
  BY DEF Unharmed
<1>u. l \notin suspect =>
        /\ pc = "loop" /\ HasMount(requests) /\ ~HasDrop(requests) => Shown(l) = {}
        /\ pc = "loop" /\ ~HasMount(requests) /\ ~HasDrop(requests) => Shown(l) = Wanted(l)
        /\ pc \in {"end", "disconnect"} /\ type = MS_SCAN_INVALID => Shown(l) = {}
        /\ Scanning => Progress(l)
  BY DEF Unharmed
<1>1. CASE ChangeCard
  <2>1. ~Scanning' /\ UNCHANGED <<pc, type, rows, visited, suspect>>
    BY <1>1, ChangedCard
  <2>2. Shown(l)' = Shown(l)
    BY <2>1 DEF Shown
  <2>3. card = {} => Wanted(l) = {}
    BY DEF Wanted
  <2> QED
    BY <1>1, <1>u, <2>1, <2>2, <2>3, CardView
<1>2. CASE PowerOff
  <2>1. UNCHANGED <<pc, type, rows, visited, suspect, card>>
    BY <1>2 DEF PowerOff
  <2>2. /\ Shown(l)' = Shown(l) /\ Wanted(l)' = Wanted(l)
        /\ Scanning' <=> Scanning
        /\ Progress(l)' <=> Progress(l)
    BY <1>2, <2>1, PowerOffView DEF Shown, Wanted, Scanning, Busy, Progress, Reading
  <2> QED
    BY <1>2, <1>u, <2>1, <2>2, PowerOffView
<1>3. CASE Take
  <2>1. /\ requests # <<>> /\ requests \in Seq(Types) /\ UNCHANGED <<rows, suspect>>
        /\ type' = Head(requests) /\ requests' = Tail(requests) /\ pc = "loop"
        /\ pc' = IF Head(requests) # POWEROFF THEN "connect"
                 ELSE IF handleSet THEN "last" ELSE "exited"
    BY <1>3 DEF Take, TypeOK
  <2>2. pc' \in {"connect", "last", "exited"}
    BY <2>1
  <2>3. ASSUME Scanning' PROVE Shown(l) = {} /\ pc' = "connect"
    <3>1. HasMount(requests) /\ ~HasDrop(requests)
      BY <2>1, <2>3, TakeView DEF Asked, Scanning
    <3> QED
      BY <1>u, <2>1, <2>2, <2>3, <3>1 DEF Scanning, Busy
  <2>4. Shown(l)' = Shown(l)
    BY <2>1 DEF Shown
  <2> QED
    BY <2>2, <2>3, <2>4 DEF Progress
<1>4. CASE ConnectDb
  <2>1. /\ UNCHANGED <<rows, suspect, requests, type>> /\ pc = "connect"
        /\ pc' = IF type = MS_SCAN_ALL THEN "delete" ELSE "start"
    BY <1>4 DEF ConnectDb
  <2>2. Shown(l)' = Shown(l)
    BY <2>1 DEF Shown
  <2>3. Scanning' => Shown(l) = {}
    BY <1>u, <2>1 DEF Scanning, Busy, Progress
  <2> QED
    BY <2>1, <2>2, <2>3 DEF Progress
<1>5. CASE DeleteAllItems
  <2>1. PICK k \in FirstFailure :
          /\ rows' = [m \in Libs |-> IF m < k THEN [f \in Files |-> "absent"] ELSE rows[m]]
          /\ suspect' = (suspect \ Called(k)) \cup (Libs \ Called(k))
    BY <1>5 DEF DeleteAllItems
  <2>2. l < k
    BY <2>1 DEF Called, FirstFailure, Libs
  <2>3. \A f \in Files : rows'[l][f] = "absent"
    BY <2>1, <2>2
  <2>4. Shown(l)' = {}
    BY <2>3 DEF Shown
  <2>5. pc' = "start"
    BY <1>5 DEF DeleteAllItems
  <2> QED
    BY <2>3, <2>4, <2>5 DEF Progress
<1>6. CASE RegisterStart
  <2>1. /\ UNCHANGED <<rows, requests, type>> /\ l \notin suspect /\ pc = "start"
        /\ visited' = {} /\ pc' \in {"validate", "scan"}
        /\ pc' = "validate" => type = MS_SCAN_PART
    BY <1>6 DEF RegisterStart, Bundle
  <2>2. ASSUME Scanning'
        PROVE  Shown(l) = {} /\ (type = MS_SCAN_ALL => \A f \in Files : rows[l][f] = "absent")
    BY <1>u, <2>1, <2>2 DEF Scanning, Busy, Progress
  <2>3. ASSUME Scanning' PROVE Reading(l)' /\ Shown(l)' = {}
    BY <2>1, <2>2, <2>3 DEF Reading, Shown
  <2> QED
    BY <2>1, <2>3, ScanTypes DEF Progress
<1>7. CASE ValidateStart
  <2>1. /\ UNCHANGED <<rows, requests, type, visited>> /\ l \notin suspect
        /\ pc = "validate" /\ pc' = "scan"
    BY <1>7 DEF ValidateStart, Bundle
  <2>2. ASSUME Scanning'
        PROVE  Shown(l) = {} /\ visited = {} /\ type = MS_SCAN_PART
    <3>1. Scanning
      BY <2>1, <2>2 DEF Scanning, Busy
    <3> QED
      BY <1>u, <2>1, <3>1 DEF Progress, Read, Asked, Busy
  <2>3. ASSUME Scanning' PROVE Reading(l)'
    BY <2>1, <2>2, <2>3, ScanTypes DEF Reading, Shown
  <2> QED
    BY <2>1, <2>3 DEF Progress
<1>8. CASE InvalidateAllItems
  <2>1. PICK F \in SUBSET Libs :
          /\ rows' = [m \in Libs |->
                        IF m \in F THEN rows[m]
                        ELSE [f \in Files |-> IF rows[m][f] = "absent" THEN "absent"
                                                                       ELSE "invalid"]]
          /\ suspect' = F
    BY <1>8 DEF InvalidateAllItems
  <2>2. \A f \in Files : rows'[l][f] # "valid"
    BY <2>1
  <2>3. Shown(l)' = {}
    BY <2>2 DEF Shown
  <2>4. pc' = "end" /\ ~Scanning'
    BY <1>8, ScanTypes DEF InvalidateAllItems, Scanning
  <2> QED
    BY <2>3, <2>4
<1>9. ASSUME NEW f \in Files, ScanFile(f)
      PROVE  pc' = "scan" /\ (Scanning' => Progress(l)')
  <2>1. /\ UNCHANGED <<type, requests>> /\ pc = "scan" /\ pc' = "scan"
        /\ f \notin visited /\ visited' = visited \cup {f}
    BY <1>9 DEF ScanFile
  <2>2. SUFFICES ASSUME Scanning' PROVE Reading(l)'
    BY <2>1 DEF Progress
  <2>3. Scanning /\ type \in {MS_SCAN_PART, MS_SCAN_ALL}
    BY <2>1, <2>2, ScanningCard DEF Scanning, Busy
  <2>4. l \notin suspect
    BY <1>9 DEF ScanFile
  <2>5. Reading(l)
    BY <1>u, <2>1, <2>3, <2>4 DEF Progress
  <2>6. rows[l] \in [Files -> {"absent", "invalid", "valid"}]
    BY DEF TypeOK
  <2>7. CASE /\ l \in Category[f]
             /\ rows'[l] = [rows[l] EXCEPT ![f] = Stored(@)]
    <3>1. rows[l][f] # "valid" /\ (type = MS_SCAN_ALL => rows[l][f] = "absent")
      BY <2>1, <2>5, <2>6 DEF Reading
    <3>2. Stored(rows[l][f]) = "valid"
      BY <2>3, <3>1 DEF Stored
    <3>3. \A g \in Files : rows'[l][g] = IF g = f THEN "valid" ELSE rows[l][g]
      BY <2>6, <2>7, <3>2
    <3> QED
      BY <2>1, <2>5, <2>7, <3>3 DEF Reading
  <2>8. CASE l \notin Category[f] /\ rows'[l] = rows[l]
    BY <2>1, <2>5, <2>8 DEF Reading
  <2>9. CASE \E F \in SUBSET Category[f] :
               /\ rows' = [m \in Libs |-> IF m \in CalledFor(f, F) \ F
                                         THEN [rows[m] EXCEPT ![f] = Stored(@)] ELSE rows[m]]
               /\ suspect' = suspect \cup F
    <3>1. PICK F \in SUBSET Category[f] :
               /\ rows' = [m \in Libs |-> IF m \in CalledFor(f, F) \ F
                                         THEN [rows[m] EXCEPT ![f] = Stored(@)] ELSE rows[m]]
               /\ suspect' = suspect \cup F
      BY <2>9
    <3>2. l \notin F
      BY <3>1
    <3>3. rows'[l] = IF l \in Category[f] THEN [rows[l] EXCEPT ![f] = Stored(@)] ELSE rows[l]
      BY <3>1, <3>2 DEF CalledFor
    <3> QED
      BY <2>7, <2>8, <3>3
  <2>10. CASE suspect' = suspect \cup Category[f] /\ UNCHANGED rows
    BY <2>8, <2>10
  <2> QED
    BY <1>9, <2>9, <2>10 DEF ScanFile
<1>10. CASE ScanEnd
  <2>1. /\ UNCHANGED <<rows, requests, type, visited, suspect>>
        /\ pc = "scan" /\ pc' = "end" /\ type # MS_SCAN_INVALID
    BY <1>10 DEF ScanEnd
  <2>2. Scanning' => Reading(l)
    BY <1>u, <2>1 DEF Scanning, Busy, Progress
  <2>3. Reading(l)' <=> Reading(l)
    BY <2>1 DEF Reading
  <2> QED
    BY <2>1, <2>2, <2>3 DEF Progress
<1>11. CASE RegisterEnd /\ powerOff
  <2>1. pc' = "last"
    BY <1>11 DEF RegisterEnd
  <2> QED
    BY <2>1 DEF Scanning, Busy
<1>12. CASE RegisterEnd /\ ~powerOff
  <2>1. /\ UNCHANGED <<rows, requests, type, visited, card>> /\ l \notin suspect
        /\ pc = "end" /\ pc' \in {"validated", "disconnect"}
    BY <1>12 DEF RegisterEnd, Bundle
  <2>2. Shown(l)' = Shown(l) /\ Wanted(l)' = Wanted(l)
    BY <2>1 DEF Shown, Wanted
  <2>3. ASSUME Scanning' PROVE Shown(l) = Wanted(l)
    <3>1. Scanning
      BY <2>1, <2>3 DEF Scanning, Busy
    <3>2. Reading(l) /\ visited = UNION card
      BY <1>12, <1>u, <2>1, <3>1 DEF Progress, Read
    <3>3. UNION card \subseteq Files
      BY CardFiles
    <3> QED
      BY <3>2, <3>3 DEF Reading, Shown, Wanted
  <2> QED
    BY <1>u, <2>1, <2>2, <2>3 DEF Progress
<1>13. CASE ValidateEnd
  <2>1. /\ UNCHANGED <<rows, requests, type, visited, card>> /\ l \notin suspect
        /\ pc = "validated" /\ pc' = "clean"
    BY <1>13 DEF ValidateEnd, Bundle
  <2>2. Shown(l)' = Shown(l) /\ Wanted(l)' = Wanted(l)
    BY <2>1 DEF Shown, Wanted
  <2>3. Scanning' => Shown(l) = Wanted(l)
    BY <1>u, <2>1 DEF Scanning, Busy, Progress
  <2> QED
    BY <2>1, <2>2, <2>3 DEF Progress
<1>14. CASE DeleteInvalidItems
  <2>1. /\ UNCHANGED <<requests, type, visited, card, suspect>>
        /\ pc = "clean" /\ pc' = "disconnect"
    BY <1>14 DEF DeleteInvalidItems
  <2>2. PICK k \in FirstFailure :
          rows' = [m \in Libs |->
                     IF m < k
                     THEN [f \in Files |-> IF rows[m][f] = "valid" THEN "valid" ELSE "absent"]
                     ELSE rows[m]]
    BY <1>14 DEF DeleteInvalidItems
  <2>3. \A f \in Files : rows'[l][f] = "valid" <=> rows[l][f] = "valid"
    BY <2>2
  <2>4. Shown(l)' = Shown(l) /\ Wanted(l)' = Wanted(l)
    BY <2>1, <2>3 DEF Shown, Wanted
  <2>5. type = MS_SCAN_PART
    BY <2>1 DEF Asked
  <2>6. Scanning' => Shown(l) = Wanted(l)
    BY <1>u, <2>1 DEF Scanning, Busy, Progress
  <2> QED
    BY <2>1, <2>4, <2>5, <2>6, ScanTypes DEF Progress
<1>15. CASE DisconnectDb /\ pc = "last"
  <2>1. pc' = "exited"
    BY <1>15 DEF DisconnectDb
  <2> QED
    BY <2>1 DEF Scanning, Busy
<1>16. CASE DisconnectDb /\ pc = "disconnect"
  <2>1. /\ UNCHANGED <<rows, requests, type, card, suspect>>
        /\ pc = "disconnect" /\ pc' = "loop"
    BY <1>16 DEF DisconnectDb
  <2>2. Shown(l)' = Shown(l) /\ Wanted(l)' = Wanted(l) /\ ~Scanning'
    BY <2>1 DEF Shown, Wanted, Scanning, Busy
  <2>3. Busy /\ (Mount(type) \/ type = MS_SCAN_INVALID)
    BY <2>1, ScanTypes DEF Busy, Asked
  <2>4. CASE type = MS_SCAN_INVALID
    <3>1. Shown(l) = {} /\ (~HasMount(requests) => Wanted(l) = {})
      BY <1>u, <2>1, <2>3, <2>4 DEF Asked, Wanted
    <3> QED
      BY <2>1, <2>2, <3>1
  <2>5. CASE Mount(type)
    <3>1. HasMount(requests) => HasDrop(requests)
      BY <2>3, <2>5 DEF Asked
    <3>2. ~HasDrop(requests) => Shown(l) = Wanted(l)
      BY <1>u, <2>1, <2>3, <2>5 DEF Scanning, Progress
    <3> QED
      BY <2>1, <2>2, <3>1, <3>2
  <2> QED
    BY <2>3, <2>4, <2>5
<1>17. CASE UNCHANGED vars
  <2>1. UNCHANGED <<pc, type, rows, visited, suspect, card, requests>>
    BY <1>17 DEF vars
  <2>2. /\ Shown(l)' = Shown(l) /\ Wanted(l)' = Wanted(l)
        /\ Scanning' <=> Scanning
        /\ Progress(l)' <=> Progress(l)
    BY <2>1 DEF Shown, Wanted, Scanning, Busy, Progress, Reading
  <2> QED
    BY <1>u, <2>1, <2>2
<1>18. DisconnectDb => pc \in {"disconnect", "last"}
  BY DEF DisconnectDb
<1> QED
  BY <1>1, <1>2, <1>3, <1>4, <1>5, <1>6, <1>7, <1>8, <1>9, <1>10, <1>11, <1>12,
     <1>13, <1>14, <1>15, <1>16, <1>17, <1>18 DEF Next, Scanner

(* A plug-in is not harmed by the failures of the others: when all requests*)
(* are served, it shows the files on the card that it accepts, unless one  *)
(* of its own calls failed, the deletion did not get to it, or a request   *)
(* was dropped for want of a connection.                                   *)
THEOREM NoHarmDone == Spec => []OthersDoNoHarm
<1>1. Init => PlugInInv
  <2> SUFFICES ASSUME Init PROVE PlugInInv
    OBVIOUS
  <2>1. ~Busy /\ ~Scanning /\ pc = "loop" /\ card = {} /\ requests = <<>>
    BY DEF Init, Busy, Scanning
  <2>2. \A l \in Libs : Shown(l) = {} /\ Wanted(l) = {}
    BY DEF Init, Shown, Wanted
  <2>3. MountIsLast(requests)
    BY <2>1 DEF MountIsLast
  <2> QED
    BY <2>1, <2>2, <2>3, NoRequests DEF PlugInInv, Asked, Read, Unharmed
<1>2. TypeOK /\ PlugInInv /\ [Next]_vars => PlugInInv'
  BY AskedNext, ReadNext, UnharmedNext DEF PlugInInv
<1>3. PlugInInv => OthersDoNoHarm
  BY NoRequests DEF PlugInInv, Unharmed, OthersDoNoHarm
<1> QED
  BY <1>1, <1>2, <1>3, PlugInTyping, PTL DEF Spec
=============================================================================
