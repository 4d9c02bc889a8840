------------------------- MODULE RegistrationProofs -------------------------
(***************************************************************************)
(* Proofs about Registration, for any set of paths, any number of plug-ins *)
(* and any categories: type correctness, the protocol between the two      *)
(* threads (queue_mutex, reg_list, soc_queue, ret_queue), the meaning of a *)
(* successful answer, and that the protocol implements SingleFlight.       *)
(***************************************************************************)
EXTENDS Registration, TLAPS

USE RegistrationAssumption DEF RegistrationAssumption, Threads, Main, Inoti

(* The shift by MS_ERR_MAX turns no result into the NULL pointer that      *)
(* g_async_queue_push refuses, and ms_read_socket undoes it.               *)
LEMMA PushedIsNotNull ==
  \A r \in Results : Pushed(r) # 0 /\ Popped(Pushed(r)) = r
BY DEF Pushed, Popped, Results, MS_ERR_MAX, MS_ERR_NONE, MS_ERR_MIME_GET_FAIL,
       MS_ERR_DB_INSERT_RECORD_FAIL

(* The plug-ins before the next one are those before this one, and this    *)
(* one: how far the loops over plug-ins have got.                          *)
LEMMA Before == \A i, j \in Int : i < j + 1 /\ i # j => i < j
OBVIOUS

(* One database changes.                                                   *)
LEMMA Changed ==
  ASSUME NEW S, NEW T, NEW f \in [S -> SUBSET T], NEW x, NEW v,
         x \in S => v \in SUBSET T
  PROVE  [f EXCEPT ![x] = v] \in [S -> SUBSET T]
OBVIOUS

(* What g_async_queue_push does to ret_queue.                              *)
LEMMA Queued ==
  ASSUME NEW S, NEW q \in Seq(S), NEW e \in S
  PROVE  \A i \in 1..Len(Append(q, e)) :
           \/ Append(q, e)[i] = e
           \/ i \in 1..Len(q) /\ Append(q, e)[i] = q[i]
OBVIOUS

(* The scan thread leaves the threads, their lists and queues alone.       *)
LEMMA ScanApart ==
  ASSUME Scan
  PROVE  UNCHANGED <<pc, path, lib, res, queueMutex, regList, socQueue, retQueue>>
<1> USE DEF lists, store, scanVars
<1>1. ASSUME NEW type \in Scans, ScanBegin(type)
      PROVE  UNCHANGED <<pc, path, lib, res, queueMutex, lists>>
  BY <1>1 DEF ScanBegin
<1>2. ScanDeleteAll \/ ScanEnd \/ ScanDeleteInvalid
        => UNCHANGED <<pc, path, lib, res, queueMutex, lists>>
  BY DEF ScanDeleteAll, ScanEnd, ScanDeleteInvalid
<1>3. ASSUME NEW p \in Paths, ScanFile(p) \/ ScanStop
      PROVE  UNCHANGED <<pc, path, lib, res, queueMutex, lists>>
  BY <1>3 DEF ScanFile, ScanStop, ScanPass
<1>4. ASSUME NEW p \in Paths, NEW l \in Libs, ScanInsert(l, p)
      PROVE  UNCHANGED <<pc, path, lib, res, queueMutex, lists>>
  BY <1>4 DEF ScanInsert
<1>5. ASSUME NEW L \in SUBSET Libs, ScanInvalidate(L)
      PROVE  UNCHANGED <<pc, path, lib, res, queueMutex, lists>>
  BY <1>5 DEF ScanInvalidate
<1>6. UNCHANGED <<pc, path, lib, res, queueMutex, lists>>
  BY <1>1, <1>2, <1>3, <1>4, <1>5 DEF Scan
<1> QED
  BY <1>6

(* It keeps the types of what it works on.                                 *)
StoreOK ==
  /\ db \in [Libs -> SUBSET Paths]
  /\ stale \in [Libs -> SUBSET Paths]
  /\ ignore \subseteq Paths
  /\ drm \subseteq Paths

ScanOK ==
  /\ scan \in {"idle", "delete", "insert", "validate", "clean"}
  /\ scanLib \in 1..(LibNum + 1)
  /\ due \subseteq Lasting
  /\ skipped \subseteq Lasting

LEMMA ScanTyping ==
  ASSUME StoreOK, ScanOK, Scan
  PROVE  StoreOK' /\ ScanOK'
<1> USE DEF StoreOK, ScanOK, lists, store, scanVars, Lasting
<1>0. /\ 1 \in 1..(LibNum + 1)
      /\ \A l \in Libs : l + 1 \in 1..(LibNum + 1)
  BY DEF Libs
<1>1. ASSUME NEW type \in Scans, ScanBegin(type)
      PROVE  StoreOK' /\ ScanOK'
  BY <1>0, <1>1 DEF ScanBegin
<1>2. ASSUME ScanDeleteAll
      PROVE  StoreOK' /\ ScanOK'
  BY <1>0, <1>2 DEF ScanDeleteAll
<1>3. ASSUME NEW p \in Paths, NEW l \in Libs, ScanInsert(l, p)
      PROVE  StoreOK' /\ ScanOK'
  BY <1>3 DEF ScanInsert, AddIgnoreFile
<1>4. ASSUME NEW S, S \subseteq due, ScanPass(S)
      PROVE  ScanOK' /\ UNCHANGED <<db, stale>>
  BY <1>4 DEF ScanPass, Missed
<1>5. ASSUME NEW p \in Paths, ScanFile(p)
      PROVE  StoreOK' /\ ScanOK'
  BY <1>4, <1>5 DEF ScanFile, AddIgnoreFile
<1>6. ASSUME ScanStop
      PROVE  StoreOK' /\ ScanOK'
  BY <1>4, <1>6 DEF ScanStop
<1>7. ASSUME ScanEnd
      PROVE  StoreOK' /\ ScanOK'
  BY <1>0, <1>7 DEF ScanEnd
<1>8. ASSUME ScanDeleteInvalid
      PROVE  StoreOK' /\ ScanOK'
  BY <1>0, <1>8 DEF ScanDeleteInvalid
<1>9. ASSUME NEW L \in SUBSET Libs, ScanInvalidate(L)
      PROVE  StoreOK' /\ ScanOK'
  BY <1>9 DEF ScanInvalidate, Invalidate
<1> QED
  BY <1>1, <1>2, <1>3, <1>5, <1>6, <1>7, <1>8, <1>9 DEF Scan

(* The program starts with empty lists and idle threads.                   *)
LEMMA TypingInit == Init => TypeOK
<1>1. (CHOOSE p \in Paths : TRUE) \in Paths
  OBVIOUS
<1>2. <<>> \in Seq(Replies)
  OBVIOUS
<1>3. 1 \in 1..(LibNum + 1)
  OBVIOUS
<1>4. "idle" \in Labels /\ MS_ERR_NONE \in Results
  BY DEF Labels, Results
<1> SUFFICES ASSUME Init PROVE TypeOK
  OBVIOUS
<1>5. pc \in [Threads -> Labels] /\ path \in [Threads -> Paths]
  BY <1>1, <1>4 DEF Init
<1>6. lib \in [Threads -> 1..(LibNum + 1)] /\ res \in [Threads -> Results]
  BY <1>3, <1>4 DEF Init
<1>7. /\ regList \in [Paths -> Nat]
      /\ db \in [Libs -> SUBSET Paths] /\ stale \in [Libs -> SUBSET Paths]
  BY DEF Init
<1> QED
  BY <1>2, <1>3, <1>5, <1>6, <1>7 DEF Init, TypeOK

(* Every step keeps the types.                                             *)
LEMMA TypingNext == TypeOK /\ [Next]_vars => TypeOK'
<1> SUFFICES ASSUME TypeOK, [Next]_vars PROVE TypeOK'
  OBVIOUS
<1>0. \A l \in Libs : l + 1 \in 1..(LibNum + 1)
  BY DEF Libs
<1>a. 1 \in 1..(LibNum + 1)
  OBVIOUS
<1> USE <1>0, <1>a DEF TypeOK, Labels, Results, lists, store, scanVars, Goto
<1>1. ASSUME NEW p \in Paths, Receive(p) \/ InotiRegister(p) \/ InotiDelete(p)
      PROVE  TypeOK'
  BY <1>1 DEF Receive, InotiRegister, InotiDelete, Call, Main, Inoti
<1>2. ASSUME NEW t \in Threads, CheckExist(t)
      PROVE  TypeOK'
  BY <1>2 DEF CheckExist, Return, Leave, Over
<1>3. ASSUME NEW t \in Threads, Lock(t)
      PROVE  TypeOK'
  BY <1>3 DEF Lock
<1>4. ASSUME NEW t \in Threads, FindRegList(t)
      PROVE  TypeOK'
  BY <1>4 DEF FindRegList, InRegList
<1>5. ASSUME NEW t \in Threads, InsertRegList(t)
      PROVE  TypeOK'
  BY <1>5 DEF InsertRegList
<1>6. ASSUME NEW t \in Threads, AlreadyInserting(t)
      PROVE  TypeOK'
  BY <1>6 DEF AlreadyInserting, Leave, Over
<1>7. ASSUME NEW t \in Threads, GetMime(t)
      PROVE  TypeOK'
  BY <1>7 DEF GetMime, AddIgnoreFile
<1>8. ASSUME NEW t \in Threads, InsertItem(t)
      PROVE  TypeOK'
  <2>1. pc' \in [Threads -> Labels] /\ res' \in [Threads -> Results]
    BY <1>8 DEF InsertItem, InsertFailed
  <2>2. lib' \in [Threads -> 1..(LibNum + 1)]
    BY <1>8 DEF InsertItem, InsertFailed
  <2>3. db' \in [Libs -> SUBSET Paths]
    <3>1. CASE db' = db
      BY <3>1
    <3>2. CASE db' = [db EXCEPT ![lib[t]] = @ \cup {path[t]}]
      <4>1. lib[t] \in Libs => db[lib[t]] \cup {path[t]} \in SUBSET Paths
        OBVIOUS
      <4> QED
        BY <3>2, <4>1, Changed
    <3>3. db' = db \/ db' = [db EXCEPT ![lib[t]] = @ \cup {path[t]}]
      BY <1>8, Zenon DEF InsertItem
    <3> QED
      BY <3>1, <3>2, <3>3
  <2>4. UNCHANGED <<path, queueMutex, lists, stale, ignore, drm, scan, scanLib, due>>
    BY <1>8 DEF InsertItem, InsertFailed
  <2>5. skipped' \subseteq skipped
    BY <1>8 DEF InsertItem, InsertFailed
  <2> QED
    BY <2>1, <2>2, <2>3, <2>4, <2>5
<1>9. ASSUME NEW t \in Threads, GetMimeAgain(t)
      PROVE  TypeOK'
  BY <1>9 DEF GetMimeAgain, AddIgnoreFile
<1>10. ASSUME NEW t \in Threads, Recheck(t)
       PROVE  TypeOK'
  BY <1>10 DEF Recheck, InsertFailed
<1>11. ASSUME NEW t \in Threads, DrmRegister(t)
       PROVE  TypeOK'
  BY <1>11 DEF DrmRegister
<1>12. ASSUME NEW t \in Threads, Finish(t)
       PROVE  TypeOK'
  <2>1. [path |-> path[t], val |-> Pushed(res[t])] \in Replies
    BY DEF Replies
  <2>2. retQueue' \in Seq(Replies)
    BY <1>12, <2>1 DEF Finish, Answered, DeletedFromRegList
  <2>3. pc' \in [Threads -> Labels]
    BY <1>12 DEF Finish, Answered, DeletedFromRegList, Return, Leave, Over
  <2>4. regList' \in [Paths -> Nat]
    BY <1>12 DEF Finish, Answered, DeletedFromRegList
  <2>5. lib' \in [Threads -> 1..(LibNum + 1)] /\ res' \in [Threads -> Results]
    BY <1>12 DEF Finish, Return, Leave, Over
  <2> QED
    BY <1>12, <2>2, <2>3, <2>4, <2>5 DEF Finish, Answered, DeletedFromRegList
<1>13. CASE PopReply
  <2>1. Head(retQueue) \in Replies /\ Tail(retQueue) \in Seq(Replies)
    BY <1>13 DEF PopReply
  <2>2. PICK r \in Results : Head(retQueue).val = Pushed(r)
    BY <2>1 DEF Replies
  <2>3. Popped(Head(retQueue).val) = r
    BY <2>2, PushedIsNotNull
  <2> QED
    BY <1>13, <2>1, <2>3 DEF PopReply
<1>18. CASE SendReply
  BY <1>18 DEF SendReply, Over
<1>14. CASE DeleteItem
  <2>1. /\ pc' \in [Threads -> Labels] /\ lib' \in [Threads -> 1..(LibNum + 1)]
        /\ res' \in [Threads -> Results]
    BY <1>14 DEF DeleteItem, Over
  <2>2. db' \in [Libs -> SUBSET Paths]
    <3>1. CASE db' = db
      BY <3>1
    <3>2. CASE db' = [db EXCEPT ![lib[Inoti]] = @ \ {path[Inoti]}]
      BY <3>2
    <3> QED
      BY <1>14, <3>1, <3>2 DEF DeleteItem
  <2>3. ignore' \subseteq Paths /\ drm' \subseteq Paths
    BY <1>14 DEF DeleteItem
  <2>5. stale' \in [Libs -> SUBSET Paths]
    <3>1. stale' = stale \/ stale' = [stale EXCEPT ![lib[Inoti]] = @ \ {path[Inoti]}]
      BY <1>14 DEF DeleteItem
    <3> QED
      BY <3>1
  <2>4. UNCHANGED <<path, queueMutex, lists, scanVars>>
    BY <1>14 DEF DeleteItem
  <2> QED
    BY <2>1, <2>2, <2>3, <2>4, <2>5
<1>15. CASE Scan
  BY <1>15, ScanApart, ScanTyping DEF StoreOK, ScanOK
<1>17. CASE UNCHANGED vars
  BY <1>17 DEF vars
<1> QED
  BY <1>1, <1>2, <1>3, <1>4, <1>5, <1>6, <1>7, <1>8, <1>9, <1>10, <1>11,
     <1>12, <1>13, <1>18, <1>14, <1>15, <1>17 DEF Next, Register

(* The types hold in every reachable state: reg_list stays a list of paths,*)
(* ret_queue carries shifted results only.                                 *)
THEOREM Typing == Spec => []TypeOK
<1> QED
  BY TypingInit, TypingNext, PTL DEF Spec
-----------------------------------------------------------------------------
(* The inductive invariant of the protocol. OneRegistrant alone is not      *)
(* inductive: that a path is free when _ms_insert_reg_list runs, or taken   *)
(* when soc_queue is set, was read by _ms_find_reg_list two steps before.   *)
(* It still holds because queue_mutex is held in between (HoldsMutex) and   *)
(* the other thread changes reg_list only while it holds it.                *)
HoldsMutex ==
  \A t \in Threads :
    queueMutex = t <=> pc[t] \in {"find", "enlist", "busy", "finish"}

Exclusive ==
  \A t, u \in Threads :
    Registering(t) /\ Registering(u) /\ path[t] = path[u] => t = u

Listed ==
  \A p \in Paths :
    /\ (\E t \in Threads : Registering(t) /\ path[t] = p) => regList[p] = 1
    /\ (\A t \in Threads : ~(Registering(t) /\ path[t] = p)) => regList[p] = 0

StillFree ==
  \A t \in Threads :
    /\ pc[t] = "enlist" => regList[path[t]] = 0
    /\ pc[t] = "busy" => regList[path[t]] # 0

InotiNeverWaits == pc[Inoti] \notin {"pop", "send"} /\ pc[Main] # "delete"

ProtocolInv ==
  /\ TypeOK
  /\ HoldsMutex
  /\ Exclusive
  /\ Listed
  /\ StillFree
  /\ InotiNeverWaits
  /\ WaiterIsServed
  /\ AnswerIsForRequest

(* It holds at the start: nobody registers, nobody waits.                  *)
LEMMA ProtocolInit == Init => ProtocolInv
<1> SUFFICES ASSUME Init PROVE ProtocolInv
  OBVIOUS
<1>1. TypeOK
  BY TypingInit
<1>2. /\ \A t \in Threads : pc[t] = "idle"
      /\ queueMutex \notin Threads
      /\ \A p \in Paths : regList[p] = 0
      /\ ~socQueue /\ retQueue = <<>>
  BY DEF Init, Nobody
<1> QED
  BY <1>1, <1>2 DEF ProtocolInv, HoldsMutex, Exclusive, Listed, StillFree,
     InotiNeverWaits, WaiterIsServed, AnswerIsForRequest, Registering

(* One step of the program preserves the invariant of the protocol.        *)
LEMMA ProtocolNext == ProtocolInv /\ [Next]_vars => ProtocolInv'
<1> SUFFICES ASSUME ProtocolInv, [Next]_vars PROVE ProtocolInv'
  OBVIOUS
<1>0. TypeOK'
  BY TypingNext DEF ProtocolInv
<1> USE <1>0 DEF ProtocolInv, HoldsMutex, Exclusive, Listed, StillFree,
        InotiNeverWaits, WaiterIsServed, AnswerIsForRequest, Registering,
        TypeOK, Labels, Goto, lists, store, scanVars, Nobody
<1>1. ASSUME NEW p \in Paths, Receive(p) \/ InotiRegister(p) \/ InotiDelete(p)
      PROVE  ProtocolInv'
  <2>1. PICK t \in Threads, label \in {"exist", "delete"} :
          /\ Call(t, p, label)
          /\ t = Main => label = "exist"
    BY <1>1 DEF Receive, InotiRegister, InotiDelete
  <2>2. /\ pc[t] = "idle" /\ pc' = [pc EXCEPT ![t] = label]
        /\ path' = [path EXCEPT ![t] = p]
        /\ UNCHANGED <<queueMutex, regList, socQueue, retQueue>>
    BY <2>1 DEF Call
  <2>3. HoldsMutex' /\ Exclusive' /\ StillFree' /\ InotiNeverWaits'
    BY <2>1, <2>2
  <2>4. Listed'
    <3>1. \A u \in Threads, q \in Paths :
            (Registering(u) /\ path[u] = q)' <=> (Registering(u) /\ path[u] = q)
      BY <2>1, <2>2
    <3> QED
      BY <2>2, <3>1
  <2>5. WaiterIsServed' /\ AnswerIsForRequest'
    BY <2>1, <2>2
  <2> QED
    BY <2>3, <2>4, <2>5
<1>2. ASSUME NEW t \in Threads, CheckExist(t)
      PROVE  ProtocolInv'
  <2>1. /\ pc[t] = "exist" /\ \E l \in {"exist", "send", "idle", "lock"} :
             /\ pc' = [pc EXCEPT ![t] = l]
             /\ l = "send" => t = Main
        /\ UNCHANGED <<path, queueMutex, regList, socQueue, retQueue>>
    BY <1>2 DEF CheckExist, Return, Leave, Over
  <2>2. \A u \in Threads : Registering(u)' <=> Registering(u)
    BY <2>1
  <2>3. HoldsMutex' /\ Exclusive' /\ StillFree' /\ InotiNeverWaits' /\ Listed'
    BY <2>1, <2>2
  <2>4. WaiterIsServed' /\ AnswerIsForRequest'
    BY <2>1, <2>2
  <2> QED
    BY <2>3, <2>4
<1>3. ASSUME NEW t \in Threads, FindRegList(t)
      PROVE  ProtocolInv'
  BY <1>3 DEF FindRegList, InRegList
<1>4. ASSUME NEW t \in Threads, GetMime(t)
      PROVE  ProtocolInv'
  BY <1>4 DEF GetMime
<1>5. ASSUME NEW t \in Threads, InsertItem(t)
      PROVE  ProtocolInv'
  BY <1>5 DEF InsertItem, InsertFailed
<1>6. ASSUME NEW t \in Threads, GetMimeAgain(t)
      PROVE  ProtocolInv'
  BY <1>6 DEF GetMimeAgain
<1>7. ASSUME NEW t \in Threads, Recheck(t)
      PROVE  ProtocolInv'
  BY <1>7 DEF Recheck, InsertFailed
<1>8. ASSUME NEW t \in Threads, DrmRegister(t)
      PROVE  ProtocolInv'
  BY <1>8 DEF DrmRegister
<1>9. ASSUME NEW t \in Threads, Lock(t)
      PROVE  ProtocolInv'
  BY <1>9 DEF Lock
<1>10. ASSUME NEW t \in Threads, InsertRegList(t)
      PROVE  ProtocolInv'
  BY <1>10 DEF InsertRegList
<1>11. ASSUME NEW t \in Threads, AlreadyInserting(t)
      PROVE  ProtocolInv'
  <2>1. /\ pc[t] = "busy" /\ regList[path[t]] # 0
        /\ pc' = [pc EXCEPT ![t] = IF t = Main THEN "pop" ELSE "idle"]
        /\ queueMutex = t /\ queueMutex' = Nobody
        /\ socQueue' = (socQueue \/ t = Main)
        /\ UNCHANGED <<path, regList, retQueue>>
    BY <1>11 DEF AlreadyInserting, Leave, Over
  <2>2. HoldsMutex' /\ Exclusive' /\ StillFree' /\ InotiNeverWaits' /\ Listed'
    BY <2>1
  <2>3. \E u \in Threads : Registering(u) /\ path[u] = path[t]
    BY <2>1
  <2>4. WaiterIsServed' /\ AnswerIsForRequest'
    BY <2>1, <2>3
  <2> QED
    BY <2>2, <2>4
<1>12. ASSUME NEW t \in Threads, Finish(t)
      PROVE  ProtocolInv'
  <2>1. /\ pc[t] = "finish" /\ path' = path
        /\ pc' = [pc EXCEPT ![t] = IF t = Main THEN "send" ELSE "idle"]
        /\ regList' = [regList EXCEPT ![path[t]] = IF @ > 0 THEN @ - 1 ELSE 0]
        /\ queueMutex = t /\ queueMutex' = Nobody /\ ~socQueue'
    BY <1>12 DEF Finish, Answered, DeletedFromRegList, Return, Leave, Over
  <2>2. HoldsMutex' /\ Exclusive' /\ StillFree' /\ InotiNeverWaits'
    BY <2>1
  <2>3. Listed'
    <3>1. Registering(t) /\ path[t] \in Paths
      BY <2>1
    <3>2. regList[path[t]] = 1
      BY <3>1
    <3>3. regList' = [regList EXCEPT ![path[t]] = 0]
      BY <2>1, <3>2
    <3>4. \A u \in Threads :
            Registering(u)' <=> Registering(u) /\ u # t
      BY <2>1
    <3> QED
      BY <2>1, <3>1, <3>2, <3>3, <3>4
  <2>4. CASE socQueue
    <3>1. pc[Main] = "pop" /\ t = Inoti /\ path[t] = path[Main] /\ retQueue = <<>>
      BY <2>1, <2>4
    <3>2. retQueue' = <<[path |-> path[t], val |-> Pushed(res[t])]>>
      BY <1>12, <2>4, <3>1 DEF Finish, Answered, DeletedFromRegList
    <3>3. Pushed(res[t]) # 0
      BY PushedIsNotNull
    <3>4. WaiterIsServed' /\ AnswerIsForRequest'
      BY <2>1, <3>1, <3>2, <3>3
    <3> QED
      BY <2>2, <2>3, <3>4
  <2>5. CASE ~socQueue
    <3>1. retQueue' = retQueue
      BY <1>12, <2>5 DEF Finish, Answered, DeletedFromRegList
    <3>2. WaiterIsServed' /\ AnswerIsForRequest'
      BY <2>1, <2>5, <3>1
    <3> QED
      BY <2>2, <2>3, <3>2
  <2> QED
    BY <2>4, <2>5
<1>13. CASE PopReply
  <2>1. /\ pc[Main] = "pop" /\ pc' = [pc EXCEPT ![Main] = "send"]
        /\ UNCHANGED <<path, queueMutex, regList, socQueue>>
        /\ retQueue # <<>> /\ retQueue' = Tail(retQueue)
    BY <1>13 DEF PopReply
  <2>2. retQueue' = <<>> /\ ~socQueue
    <3>1. retQueue \in Seq(Replies) /\ Len(retQueue) <= 1 /\ ~socQueue
      BY <2>1
    <3> QED
      BY <2>1, <3>1
  <2> QED
    BY <2>1, <2>2
<1>14. CASE SendReply
  BY <1>14 DEF SendReply, Over
<1>15. CASE DeleteItem
  BY <1>15 DEF DeleteItem, Over
<1>16. CASE Scan
  BY <1>16, ScanApart
<1>18. CASE UNCHANGED vars
  BY <1>18 DEF vars
<1> QED
  BY <1>1, <1>2, <1>3, <1>4, <1>5, <1>6, <1>7, <1>8, <1>9, <1>10, <1>11, <1>12,
     <1>13, <1>14, <1>15, <1>16, <1>18 DEF Next, Register

(* The protocol of the two threads, in every reachable state.              *)
THEOREM Protocol == Spec => []ProtocolInv
<1> QED
  BY ProtocolInit, ProtocolNext, PTL DEF Spec

(* No file is in the hands of two threads, and reg_list lists exactly the  *)
(* files that are being registered, once each.                             *)
THEOREM RegistrantIsAlone == Spec => []OneRegistrant
<1>1. ProtocolInv => OneRegistrant
  <2> SUFFICES ASSUME ProtocolInv, NEW p \in Paths
               PROVE  LET busy == {t \in Threads : Registering(t) /\ path[t] = p}
                      IN  /\ \A t, u \in busy : t = u
                          /\ regList[p] = IF busy = {} THEN 0 ELSE 1
    BY DEF OneRegistrant
  <2> DEFINE busy == {t \in Threads : Registering(t) /\ path[t] = p}
  <2>1. \A t, u \in busy : t = u
    BY DEF ProtocolInv, Exclusive
  <2>2. regList[p] = IF busy = {} THEN 0 ELSE 1
    BY DEF ProtocolInv, Listed
  <2> QED
    BY <2>1, <2>2
<1> QED
  BY <1>1, Protocol, PTL

(* The main loop sleeps on ret_queue only while the inotify thread is sure *)
(* to answer it.                                                           *)
THEOREM WaitIsSafe == Spec => []WaiterIsServed
<1>1. ProtocolInv => WaiterIsServed
  BY DEF ProtocolInv
<1> QED
  BY <1>1, Protocol, PTL

(* What the main loop takes from ret_queue is the answer to the request it *)
(* works on: nothing is left there from an earlier one, and it is no NULL. *)
THEOREM RepliesAreOwn == Spec => []AnswerIsForRequest
<1>1. ProtocolInv => AnswerIsForRequest
  BY DEF ProtocolInv
<1> QED
  BY <1>1, Protocol, PTL

-----------------------------------------------------------------------------
(* What each label of ms_register_file knows about a lasting file that some *)
(* plug-in accepts. Such a file is covered when it is stored, or a full    *)
(* scan has yet to come to it, or a scan missed it: the scan thread takes  *)
(* away rows, never the cover. Once the loop of ms_check_exist has seen a  *)
(* row the file is covered; while a loop over the accepting plug-ins runs, *)
(* a result that is still zero stands for a row one of them held.          *)
Stored(p, d) == \E l \in Libs : p \in d[l]
Kept == {p \in Lasting : Category[p] # {}}

Covered(p) == Stored(p, db) \/ Rescanned(p) \/ p \in skipped

StoredSoFar(t) ==
  /\ pc[t] = "exist" /\ lib[t] > 1 => Covered(path[t])
  /\ pc[t] \in {"insert", "recheck"} /\ res[t] = MS_ERR_NONE =>
       \A l \in Category[path[t]] : l < lib[t] => Covered(path[t])
  /\ pc[t] \in {"drm", "lock2", "finish", "send"} /\ res[t] = MS_ERR_NONE =>
       Covered(path[t])

(* What the scan thread knows: a full scan deletes nothing it will not come*)
(* to, and a file a partial scan is through with has not only stale rows.  *)
Valid(p) == \E l \in Libs : p \in db[l] /\ p \notin stale[l]

Checked(p) ==
  Stored(p, db) => Valid(p) \/ p \in skipped \/ (scan = "validate" /\ p \in due)

ScanInv ==
  /\ \A l \in Libs : stale[l] \subseteq db[l]
  /\ scan = "delete" => Lasting \subseteq due
  /\ scan \in {"validate", "clean"} => \A p \in Lasting : Checked(p)

StoredInv ==
  /\ \A t \in Threads : path[t] \in Kept => StoredSoFar(t)
  /\ \A i \in 1..Len(retQueue) :
       retQueue[i].path \in Kept /\ retQueue[i].val = Pushed(MS_ERR_NONE)
         => Covered(retQueue[i].path)
  /\ pc[Inoti] = "delete" => path[Inoti] \in Deletable
  /\ ScanInv

(* Cover after a step, of a file named before it.                          *)
CoveredLater(p) ==
  \/ Stored(p, db') \/ p \in skipped'
  \/ scan' \in {"delete", "insert"} /\ p \in due'

(* A step of the registering threads leaves the databases alone, or stores *)
(* a valid row, or deletes the row of a file that may be deleted.          *)
LEMMA ThreadStores ==
  ASSUME TypeOK, [Next]_vars, pc[Inoti] = "delete" => path[Inoti] \in Deletable,
         ~Scan
  PROVE  /\ UNCHANGED <<scan, due>>
         /\ \/ UNCHANGED <<db, stale, skipped>>
            \/ \E l \in Libs, p \in Paths :
                 /\ p \notin db[l] /\ db' = [db EXCEPT ![l] = @ \cup {p}]
                 /\ stale' = stale /\ skipped' = skipped \ {p}
            \/ \E l \in Libs, p \in Deletable :
                 /\ db' = [db EXCEPT ![l] = @ \ {p}]
                 /\ stale' = [stale EXCEPT ![l] = @ \ {p}] /\ skipped' = skipped
<1> USE DEF lists, store, scanVars
<1>1. ASSUME NEW p \in Paths, Receive(p) \/ InotiRegister(p) \/ InotiDelete(p)
      PROVE  UNCHANGED <<scan, due, db, stale, skipped>>
  BY <1>1 DEF Receive, InotiRegister, InotiDelete, Call
<1>2. ASSUME NEW t \in Threads, Register(t)
      PROVE  InsertItem(t) \/ UNCHANGED <<scan, due, db, stale, skipped>>
  BY <1>2 DEF Register, CheckExist, Lock, FindRegList, InRegList, InsertRegList,
     AlreadyInserting, GetMime, GetMimeAgain, Recheck, DrmRegister, Finish, Leave, Over
<1>3. ASSUME NEW t \in Threads, InsertItem(t)
      PROVE  /\ UNCHANGED <<scan, due, stale>>
             /\ \/ UNCHANGED <<db, skipped>>
                \/ /\ lib[t] \in Libs /\ path[t] \notin db[lib[t]]
                   /\ db' = [db EXCEPT ![lib[t]] = @ \cup {path[t]}]
                   /\ skipped' = skipped \ {path[t]}
  BY <1>3, Zenon DEF InsertItem
<1>4. ASSUME DeleteItem
      PROVE  /\ UNCHANGED <<scan, due, skipped>> /\ pc[Inoti] = "delete"
             /\ \/ UNCHANGED <<db, stale>>
                \/ /\ lib[Inoti] \in Libs
                   /\ db' = [db EXCEPT ![lib[Inoti]] = @ \ {path[Inoti]}]
                   /\ stale' = [stale EXCEPT ![lib[Inoti]] = @ \ {path[Inoti]}]
  BY <1>4 DEF DeleteItem, Over
<1>5. PopReply \/ SendReply \/ UNCHANGED vars
        => UNCHANGED <<scan, due, db, stale, skipped>>
  BY DEF PopReply, SendReply, vars, Over
<1>6. \A t \in Threads : path[t] \in Paths
  BY DEF TypeOK
<1>7. CASE \E t \in Threads : InsertItem(t)
  BY <1>3, <1>6, <1>7
<1>8. CASE DeleteItem
  BY <1>4, <1>8
<1> QED
  BY <1>1, <1>2, <1>5, <1>7, <1>8 DEF Next

(* So it takes away no cover, and nothing the scan thread relies on.       *)
LEMMA ThreadCovers ==
  ASSUME TypeOK, [Next]_vars, pc[Inoti] = "delete" => path[Inoti] \in Deletable,
         ~Scan, ScanInv
  PROVE  ScanInv' /\ \A p \in Lasting : Covered(p) => CoveredLater(p)
<1> USE DEF TypeOK, ScanInv, Covered, CoveredLater, Rescanned, Checked, Valid, Stored
<1>1. UNCHANGED <<scan, due>>
  BY ThreadStores
<1>2. CASE UNCHANGED <<db, stale, skipped>>
  BY <1>1, <1>2
<1>3. ASSUME NEW k \in Libs, NEW q \in Paths, q \notin db[k],
             db' = [db EXCEPT ![k] = @ \cup {q}], stale' = stale,
             skipped' = skipped \ {q}
      PROVE  ScanInv' /\ \A p \in Lasting : Covered(p) => CoveredLater(p)
  <2>1. /\ \A l \in Libs : db[l] \subseteq db'[l]
        /\ q \in db'[k] /\ q \notin stale'[k]
        /\ \A l \in Libs, p \in Paths : p # q => (p \in db'[l] <=> p \in db[l])
    BY <1>3
  <2>2. \A l \in Libs : stale'[l] \subseteq db'[l]
    BY <1>3, <2>1
  <2>3. \A p \in Lasting : Covered(p) => CoveredLater(p)
    BY <1>1, <1>3, <2>1 DEF Lasting
  <2>4. scan' = "delete" => Lasting \subseteq due'
    BY <1>1
  <2>5. ASSUME scan \in {"validate", "clean"}, NEW p \in Lasting
        PROVE  Checked(p)'
    <3>1. CASE p = q
      BY <1>1, <1>3, <2>1, <3>1
    <3>2. CASE p # q
      BY <1>1, <1>3, <2>1, <2>5, <3>2 DEF Lasting
    <3> QED
      BY <3>1, <3>2
  <2> QED
    BY <1>1, <2>2, <2>3, <2>4, <2>5
<1>4. ASSUME NEW k \in Libs, NEW q \in Deletable,
             db' = [db EXCEPT ![k] = @ \ {q}],
             stale' = [stale EXCEPT ![k] = @ \ {q}], skipped' = skipped
      PROVE  ScanInv' /\ \A p \in Lasting : Covered(p) => CoveredLater(p)
  <2>1. /\ \A l \in Libs, p \in Lasting :
             /\ p \in db'[l] <=> p \in db[l]
             /\ p \in stale'[l] <=> p \in stale[l]
        /\ \A l \in Libs : stale'[l] \subseteq db'[l]
    BY <1>4 DEF Lasting
  <2> QED
    BY <1>1, <1>4, <2>1
<1> QED
  BY <1>2, <1>3, <1>4, ThreadStores

(* Nor does the scan thread: what it deletes it comes to, or it has seen   *)
(* valid, or it is known to have missed.                                   *)
LEMMA ScanCovers ==
  ASSUME TypeOK, ScanInv, Scan
  PROVE  ScanInv' /\ \A p \in Lasting : Covered(p) => CoveredLater(p)
<1> USE DEF TypeOK, ScanInv, Covered, CoveredLater, Rescanned, Checked, Valid, Stored,
        lists, store, scanVars
<1> DEFINE Goal == ScanInv' /\ \A p \in Lasting : Covered(p) => CoveredLater(p)
<1>1. ASSUME NEW type \in Scans, ScanBegin(type)
      PROVE  Goal
  BY <1>1 DEF ScanBegin
<1>2. ASSUME ScanDeleteAll
      PROVE  Goal
  <2>1. scan = "delete" /\ scan' \in {"delete", "insert"} /\ UNCHANGED <<due, skipped>>
    BY <1>2 DEF ScanDeleteAll
  <2>2. \A l \in Libs : stale'[l] \subseteq db'[l]
    BY <1>2 DEF ScanDeleteAll
  <2> QED
    BY <2>1, <2>2
<1>3. ASSUME NEW q \in Paths, NEW k \in Libs, ScanInsert(k, q)
      PROVE  Goal
  <2>1. /\ UNCHANGED <<scan, due>> /\ skipped' = skipped \ {q}
        /\ db' = [db EXCEPT ![k] = @ \cup {q}]
        /\ stale' = [stale EXCEPT ![k] = @ \ {q}]
    BY <1>3 DEF ScanInsert
  <2>2. /\ \A l \in Libs : db[l] \subseteq db'[l] /\ stale'[l] \subseteq stale[l]
        /\ q \in db'[k] /\ q \notin stale'[k]
        /\ \A l \in Libs, p \in Paths : p # q => (p \in db'[l] <=> p \in db[l])
    BY <2>1
  <2> QED
    BY <2>1, <2>2 DEF Lasting
<1>4. ASSUME NEW S, S \subseteq due, ScanPass(S)
      PROVE  Goal
  BY <1>4 DEF ScanPass, Missed
<1>5. ASSUME NEW p \in Paths, ScanFile(p)
      PROVE  Goal
  BY <1>4, <1>5 DEF ScanFile
<1>6. ASSUME ScanStop
      PROVE  Goal
  BY <1>4, <1>6 DEF ScanStop
<1>7. ASSUME ScanEnd
      PROVE  Goal
  BY <1>7 DEF ScanEnd
<1>8. ASSUME ScanDeleteInvalid
      PROVE  Goal
  <2>1. CASE UNCHANGED <<db, stale>>
    BY <1>8, <2>1 DEF ScanDeleteInvalid
  <2>2. CASE /\ scanLib \in Libs /\ scan' = scan
             /\ db' = [db EXCEPT ![scanLib] = @ \ stale[scanLib]]
             /\ stale' = [stale EXCEPT ![scanLib] = {}]
    <3>1. scan = "clean" /\ UNCHANGED <<due, skipped>>
      BY <1>8 DEF ScanDeleteInvalid
    <3>2. \A l \in Libs : /\ db'[l] \subseteq db[l] /\ stale'[l] \subseteq stale[l]
                          /\ stale'[l] \subseteq db'[l]
                          /\ db[l] \ stale[l] \subseteq db'[l]
      BY <2>2
    <3>3. \A p \in Lasting : Stored(p, db) => Valid(p) \/ p \in skipped
      BY <3>1
    <3>4. \A p \in Paths : Valid(p) => \E l \in Libs : p \in db'[l] /\ p \notin stale'[l]
      BY <3>2
    <3> QED
      BY <2>2, <3>1, <3>2, <3>3, <3>4 DEF Lasting
  <2> QED
    BY <1>8, <2>1, <2>2 DEF ScanDeleteInvalid
<1>9. ASSUME NEW L \in SUBSET Libs, ScanInvalidate(L)
      PROVE  Goal
  BY <1>9 DEF ScanInvalidate, Invalidate
<1> QED
  BY <1>1, <1>2, <1>3, <1>5, <1>6, <1>7, <1>8, <1>9 DEF Scan

(* No step takes the cover of a lasting file away.                         *)
LEMMA CoverStays ==
  ASSUME TypeOK, [Next]_vars, pc[Inoti] = "delete" => path[Inoti] \in Deletable,
         ScanInv
  PROVE  ScanInv' /\ \A p \in Kept : Covered(p) => CoveredLater(p)
BY ThreadCovers, ScanCovers DEF Kept

(* At the start no thread has got that far.                                *)
LEMMA StoredInit == Init => StoredInv
BY DEF Init, StoredInv, StoredSoFar, ScanInv

(* A thread that does not move keeps what it knows.                        *)
LEMMA StoredFrame ==
  ASSUME NEW u \in Threads, path[u] \in Kept, StoredSoFar(u),
         \A p \in Kept : Covered(p) => CoveredLater(p),
         pc'[u] = pc[u], path'[u] = path[u], lib'[u] = lib[u], res'[u] = res[u]
  PROVE  StoredSoFar(u)'
<1>1. Covered(path[u]) => Covered(path[u])'
  BY DEF Covered, CoveredLater, Rescanned
<1> QED
  BY <1>1 DEF StoredSoFar

(* So a step of thread t that leaves ret_queue alone has to be examined for*)
(* thread t only.                                                          *)
LEMMA StoredStep ==
  ASSUME NEW t \in Threads, TypeOK, StoredInv,
         \A p \in Kept : Covered(p) => CoveredLater(p), ScanInv',
         \A u \in Threads \ {t} : pc'[u] = pc[u] /\ path'[u] = path[u]
                                  /\ lib'[u] = lib[u] /\ res'[u] = res[u],
         retQueue' = retQueue,
         pc'[t] = "delete" => path'[t] \in Deletable,
         path'[t] \in Kept => StoredSoFar(t)'
  PROVE  StoredInv'
<1>1. \A u \in Threads : path'[u] \in Kept => StoredSoFar(u)'
  <2>1. ASSUME NEW u \in Threads \ {t}, path'[u] \in Kept PROVE StoredSoFar(u)'
    BY <2>1, StoredFrame DEF StoredInv
  <2> QED
    BY <2>1
<1>2. \A i \in 1..Len(retQueue) :
        retQueue[i].path \in Kept /\ retQueue[i].val = Pushed(MS_ERR_NONE)
          => Covered(retQueue[i].path)'
  BY DEF StoredInv, Covered, CoveredLater, Rescanned
<1>3. (pc[Inoti] = "delete" => path[Inoti] \in Deletable)'
  BY DEF StoredInv
<1> QED
  BY <1>1, <1>2, <1>3 DEF StoredInv

(* A step preserves what the labels know.                                  *)
LEMMA StoredNext ==
  ProtocolInv /\ StoredInv /\ [Next]_vars => StoredInv'
<1> SUFFICES ASSUME ProtocolInv, StoredInv, [Next]_vars PROVE StoredInv'
  OBVIOUS
<1>0. ScanInv' /\ \A p \in Kept : Covered(p) => CoveredLater(p)
  BY CoverStays DEF ProtocolInv, StoredInv
<1>a. \A p \in Kept : Covered(p) => CoveredLater(p)
  BY <1>0
<1>f. /\ \A u \in Threads : CoveredLater(path'[u]) => Covered(path[u])'
      /\ \A p \in Paths, l \in Libs : p \in db'[l] => CoveredLater(p)
  BY DEF Covered, CoveredLater, Rescanned, Stored
<1>b. TypeOK /\ TypeOK'
  BY TypingNext DEF ProtocolInv
<1>c. \A p \in Kept : \E l \in Libs : l \in Category[p]
  BY DEF Kept, Lasting
<1>d. /\ \A t \in Threads : path[t] \in Paths /\ lib[t] \in 1..(LibNum + 1)
      /\ \A t \in Threads : path[t] \in Kept => StoredSoFar(t)
      /\ \A l \in Libs : l < LibNum + 1 /\ ~(l < 1)
  BY <1>b DEF TypeOK, StoredInv, Libs
<1>e. Libs \subseteq Int /\ \A t \in Threads : lib[t] \in Int
  BY <1>d DEF Libs
<1> USE <1>b DEF TypeOK, Goto, lists, store, scanVars
<1>1. ASSUME NEW p \in Paths, NEW t \in Threads, NEW label \in {"exist", "delete"},
             Call(t, p, label), label = "delete" => p \in Deletable
      PROVE  StoredInv'
  <2>1. /\ pc' = [pc EXCEPT ![t] = label] /\ path' = [path EXCEPT ![t] = p]
        /\ lib' = [lib EXCEPT ![t] = 1] /\ res' = [res EXCEPT ![t] = MS_ERR_NONE]
        /\ retQueue' = retQueue
    BY <1>1 DEF Call
  <2>2. StoredSoFar(t)'
    BY <1>d, <2>1 DEF StoredSoFar, Covered, CoveredLater, Rescanned
  <2> QED
    BY <1>0, <1>1, <2>1, <2>2, StoredStep
<1>2. ASSUME NEW t \in Threads, CheckExist(t)
      PROVE  StoredInv'
  <2>1. /\ \A u \in Threads \ {t} : pc'[u] = pc[u] /\ path'[u] = path[u]
                                     /\ lib'[u] = lib[u] /\ res'[u] = res[u]
        /\ retQueue' = retQueue /\ pc'[t] # "delete" /\ path'[t] = path[t]
    BY <1>2 DEF CheckExist, Return, Leave, Over
  <2>2. ASSUME path[t] \in Kept PROVE StoredSoFar(t)'
    <3>1. pc[t] = "exist" /\ (lib[t] > 1 => CoveredLater(path[t]))
      BY <1>2, <1>a, <1>d, <2>2 DEF CheckExist, StoredSoFar, Covered, CoveredLater, Rescanned
    <3>2. CASE lib[t] > LibNum
      <4>0. PICK l \in Libs : l \in Category[path[t]]
        BY <1>c, <2>2
      <4>1. 1 \in Libs
        BY <4>0 DEF Libs
      <4>a. LibNum \in Int /\ 1 <= LibNum /\ lib[t] \in Int
        BY <1>e, <4>1 DEF Libs
      <4>b. lib[t] > 1
        BY ONLY <3>2, <4>a
      <4>2. CoveredLater(path[t])
        BY <3>1, <4>b
      <4>3. pc'[t] \in {"send", "idle", "lock"}
        BY <1>2, <3>2 DEF CheckExist, Return, Libs, Leave, Over
      <4> QED
        BY <2>1, <4>2, <4>3 DEF StoredSoFar, Covered, CoveredLater, Rescanned
    <3>3. CASE lib[t] \in Libs /\ path[t] \in db[lib[t]] /\ pc' = pc
               /\ lib' = [lib EXCEPT ![t] = @ + 1]
      <4>1. Covered(path[t])
        BY <3>3 DEF Covered, Stored
      <4>2. CoveredLater(path[t])
        BY <1>a, <2>2, <4>1
      <4> QED
        BY <2>1, <3>1, <3>3, <4>2 DEF StoredSoFar, Covered, CoveredLater, Rescanned
    <3>4. CASE pc'[t] = "lock"
      BY <3>4 DEF StoredSoFar, Covered, CoveredLater, Rescanned
    <3> QED
      BY <1>2, <3>2, <3>3, <3>4 DEF CheckExist
  <2> QED
    BY <1>0, <2>1, <2>2, StoredStep
<1>3. ASSUME NEW t \in Threads, Lock(t)
      PROVE  StoredInv'
  <2>1. /\ \A u \in Threads \ {t} : pc'[u] = pc[u] /\ path'[u] = path[u]
                                     /\ lib'[u] = lib[u] /\ res'[u] = res[u]
        /\ retQueue' = retQueue /\ pc'[t] # "delete" /\ path'[t] = path[t]
    BY <1>3 DEF Lock
  <2>2. ASSUME path[t] \in Kept PROVE StoredSoFar(t)'
    BY <1>3, <1>a, <1>d, <2>1, <2>2 DEF Lock, StoredSoFar, Covered, CoveredLater, Rescanned
  <2> QED
    BY <1>0, <2>1, <2>2, StoredStep
<1>4. ASSUME NEW t \in Threads, FindRegList(t) \/ InsertRegList(t) \/ AlreadyInserting(t)
      PROVE  StoredInv'
  <2>1. /\ \A u \in Threads \ {t} : pc'[u] = pc[u] /\ path'[u] = path[u]
                                     /\ lib'[u] = lib[u] /\ res'[u] = res[u]
        /\ retQueue' = retQueue /\ pc'[t] # "delete" /\ path'[t] = path[t]
    BY <1>4 DEF FindRegList, InRegList, InsertRegList, AlreadyInserting, Leave, Over
  <2>2. ASSUME path[t] \in Kept PROVE StoredSoFar(t)'
    BY <1>4 DEF FindRegList, InRegList, InsertRegList, AlreadyInserting, StoredSoFar, Leave, Over
  <2> QED
    BY <1>0, <2>1, <2>2, StoredStep
<1>5. ASSUME NEW t \in Threads, GetMime(t) \/ GetMimeAgain(t)
      PROVE  StoredInv'
  <2>1. /\ \A u \in Threads \ {t} : pc'[u] = pc[u] /\ path'[u] = path[u]
                                     /\ lib'[u] = lib[u] /\ res'[u] = res[u]
        /\ retQueue' = retQueue /\ pc'[t] # "delete" /\ path'[t] = path[t]
    BY <1>5 DEF GetMime, GetMimeAgain
  <2>2. ASSUME path[t] \in Kept PROVE StoredSoFar(t)'
    <3>1. CASE pc'[t] \in {"insert", "recheck"}
      BY <1>5, <1>d, <3>1 DEF GetMime, GetMimeAgain, StoredSoFar, Covered, CoveredLater, Rescanned
    <3>2. CASE pc'[t] \in {"mime2", "drm"}
      BY <1>5, <3>2 DEF GetMime, GetMimeAgain, StoredSoFar, MS_ERR_NONE,
         MS_ERR_MIME_GET_FAIL
    <3> QED
      BY <1>5, <3>1, <3>2 DEF GetMime, GetMimeAgain
  <2> QED
    BY <1>0, <2>1, <2>2, StoredStep
<1>6. ASSUME NEW t \in Threads, InsertItem(t)
      PROVE  StoredInv'
  <2>1. /\ \A u \in Threads \ {t} : pc'[u] = pc[u] /\ path'[u] = path[u]
                                     /\ lib'[u] = lib[u] /\ res'[u] = res[u]
        /\ retQueue' = retQueue /\ pc'[t] # "delete" /\ path'[t] = path[t]
    BY <1>6 DEF InsertItem, InsertFailed
  <2>2. ASSUME path[t] \in Kept PROVE StoredSoFar(t)'
    <3>1. pc[t] = "insert" /\ (res[t] = MS_ERR_NONE =>
            \A l \in Category[path[t]] : l < lib[t] => Covered(path[t]))
      BY <1>6, <1>d, <2>2 DEF InsertItem, InsertFailed, StoredSoFar
    <3>2. CASE lib[t] > LibNum
      BY <1>6, <1>a, <1>c, <1>d, <2>1, <2>2, <3>1, <3>2
         DEF InsertItem, InsertFailed, StoredSoFar, Covered, CoveredLater, Rescanned, Libs
    <3>3. CASE lib[t] \in Libs
      <4>1. pc'[t] = "insert" /\ lib'[t] = lib[t] + 1
        BY <1>6, <3>3 DEF InsertItem, InsertFailed, Libs
      <4>2. ASSUME res'[t] = MS_ERR_NONE, lib[t] \in Category[path[t]]
            PROVE  CoveredLater(path[t])
        <5>1. path[t] \in db'[lib[t]]
          BY <1>6, <2>1, <3>3, <4>2 DEF InsertItem, InsertFailed, Libs, MS_ERR_NONE,
             MS_ERR_DB_INSERT_RECORD_FAIL
        <5> QED
          BY <1>d, <1>f, <3>3, <5>1
      <4>3. res'[t] = MS_ERR_NONE => res[t] = MS_ERR_NONE
        BY <1>6, <3>3 DEF InsertItem, InsertFailed, Libs, MS_ERR_NONE,
           MS_ERR_DB_INSERT_RECORD_FAIL
      <4>4. ASSUME res'[t] = MS_ERR_NONE, NEW l \in Category[path[t]],
                   l < lib[t] + 1
            PROVE  CoveredLater(path[t])
        <5>1. CASE lib[t] \in Category[path[t]]
          BY <4>2, <4>4, <5>1
        <5>2. CASE lib[t] \notin Category[path[t]]
          <6>0. l \in Libs /\ l # lib[t]
            BY <1>d, <5>2
          <6>a. l \in Int /\ lib[t] \in Int
            BY <1>e, <6>0
          <6>b. l < lib[t]
            BY <4>4, <6>0, <6>a, Before, Zenon
          <6>1. l < lib[t] /\ res[t] = MS_ERR_NONE
            BY <4>3, <4>4, <5>2, <6>b
          <6> QED
            BY <1>a, <2>2, <3>1, <4>4, <6>0, <6>1
        <5> QED
          BY <5>1, <5>2
      <4> QED
        BY <2>1, <4>1, <4>4 DEF StoredSoFar, Covered, CoveredLater, Rescanned
    <3> QED
      BY <1>6, <3>2, <3>3 DEF InsertItem, InsertFailed
  <2> QED
    BY <1>0, <2>1, <2>2, StoredStep
<1>7. ASSUME NEW t \in Threads, Recheck(t)
      PROVE  StoredInv'
  <2>1. /\ \A u \in Threads \ {t} : pc'[u] = pc[u] /\ path'[u] = path[u]
                                     /\ lib'[u] = lib[u] /\ res'[u] = res[u]
        /\ retQueue' = retQueue /\ pc'[t] # "delete" /\ path'[t] = path[t]
    BY <1>7 DEF Recheck, InsertFailed
  <2>2. ASSUME path[t] \in Kept PROVE StoredSoFar(t)'
    <3>1. pc[t] = "recheck" /\ (res[t] = MS_ERR_NONE =>
            \A l \in Category[path[t]] : l < lib[t] => Covered(path[t]))
      BY <1>7, <1>d, <2>2 DEF Recheck, InsertFailed, StoredSoFar
    <3>2. CASE lib[t] > LibNum
      BY <1>7, <1>a, <1>c, <1>d, <2>1, <2>2, <3>1, <3>2
         DEF Recheck, InsertFailed, StoredSoFar, Covered, CoveredLater, Rescanned, Libs
    <3>3. CASE lib[t] \in Libs
      <4>1. pc'[t] = "recheck" /\ lib'[t] = lib[t] + 1
        BY <1>7, <3>3 DEF Recheck, InsertFailed, Libs
      <4>2. ASSUME res'[t] = MS_ERR_NONE, lib[t] \in Category[path[t]]
            PROVE  CoveredLater(path[t])
        <5>1. path[t] \in db[lib[t]]
          BY <1>7, <3>3, <4>2 DEF Recheck, InsertFailed, Libs, MS_ERR_NONE,
             MS_ERR_DB_INSERT_RECORD_FAIL
        <5> QED
          BY <1>a, <2>2, <3>3, <5>1 DEF Covered, Stored
      <4>3. lib[t] \notin Category[path[t]] => res'[t] = res[t]
        BY <1>7, <3>3 DEF Recheck, InsertFailed, Libs
      <4>4. ASSUME res'[t] = MS_ERR_NONE, NEW l \in Category[path[t]],
                   l < lib[t] + 1
            PROVE  CoveredLater(path[t])
        <5>1. CASE lib[t] \in Category[path[t]]
          BY <4>2, <4>4, <5>1
        <5>2. CASE lib[t] \notin Category[path[t]]
          <6>0. l \in Libs /\ l # lib[t]
            BY <1>d, <5>2
          <6>a. l \in Int /\ lib[t] \in Int
            BY <1>e, <6>0
          <6>b. l < lib[t]
            BY <4>4, <6>0, <6>a, Before, Zenon
          <6>1. l < lib[t] /\ res[t] = MS_ERR_NONE
            BY <4>3, <4>4, <5>2, <6>b
          <6> QED
            BY <1>a, <2>2, <3>1, <4>4, <6>0, <6>1
        <5> QED
          BY <5>1, <5>2
      <4> QED
        BY <2>1, <4>1, <4>4 DEF StoredSoFar, Covered, CoveredLater, Rescanned
    <3> QED
      BY <1>7, <3>2, <3>3 DEF Recheck, InsertFailed
  <2> QED
    BY <1>0, <2>1, <2>2, StoredStep
<1>8. ASSUME NEW t \in Threads, DrmRegister(t)
      PROVE  StoredInv'
  <2>1. /\ \A u \in Threads \ {t} : pc'[u] = pc[u] /\ path'[u] = path[u]
                                     /\ lib'[u] = lib[u] /\ res'[u] = res[u]
        /\ retQueue' = retQueue /\ pc'[t] # "delete" /\ path'[t] = path[t]
    BY <1>8 DEF DrmRegister
  <2>2. ASSUME path[t] \in Kept PROVE StoredSoFar(t)'
    BY <1>8, <1>a, <1>d, <2>1, <2>2 DEF DrmRegister, StoredSoFar, Covered, CoveredLater, Rescanned
  <2> QED
    BY <1>0, <2>1, <2>2, StoredStep
<1>9. ASSUME NEW t \in Threads, Finish(t)
      PROVE  StoredInv'
  <2>1. /\ path' = path /\ db' = db
        /\ \A u \in Threads \ {t} :
              pc'[u] = pc[u] /\ lib'[u] = lib[u] /\ res'[u] = res[u]
        /\ pc[t] = "finish"
        /\ pc'[t] = "idle" \/ (pc'[t] = "send" /\ res'[t] = res[t])
    BY <1>9 DEF Finish, Answered, DeletedFromRegList, Return, Leave, Over
  <2>2. \A u \in Threads : path'[u] \in Kept => StoredSoFar(u)'
    <3>1. path[t] \in Kept => StoredSoFar(t)'
      BY <1>d, <1>a, <2>1 DEF StoredSoFar, Covered, CoveredLater, Rescanned
    <3>2. ASSUME NEW u \in Threads \ {t}, path'[u] \in Kept PROVE StoredSoFar(u)'
      BY <1>0, <1>d, <2>1, <3>2, StoredFrame
    <3> QED
      BY <2>1, <3>1, <3>2
  <2>3. retQueue' = retQueue
          \/ retQueue' = Append(retQueue, [path |-> path[t], val |-> Pushed(res[t])])
    BY <1>9 DEF Finish, Answered, DeletedFromRegList
  <2>4. path[t] \in Kept /\ Pushed(res[t]) = Pushed(MS_ERR_NONE)
          => CoveredLater(path[t])
    <3>1. Pushed(res[t]) = Pushed(MS_ERR_NONE) => res[t] = MS_ERR_NONE
      BY PushedIsNotNull DEF Results
    <3> QED
      BY <1>a, <1>d, <2>1, <3>1 DEF StoredSoFar, Covered, CoveredLater, Rescanned
  <2>5. \A i \in 1..Len(retQueue') :
          retQueue'[i].path \in Kept /\ retQueue'[i].val = Pushed(MS_ERR_NONE)
            => CoveredLater(retQueue'[i].path)
    <3>1. ASSUME NEW i \in 1..Len(retQueue), retQueue[i].path \in Kept,
                 retQueue[i].val = Pushed(MS_ERR_NONE)
          PROVE  CoveredLater(retQueue[i].path)
      BY <1>a, <3>1 DEF StoredInv
    <3>2. CASE retQueue' = retQueue
      BY <3>1, <3>2
    <3>3. CASE retQueue' = Append(retQueue, [path |-> path[t], val |-> Pushed(res[t])])
      <4> DEFINE reply == [path |-> path[t], val |-> Pushed(res[t])]
      <4>1. reply \in Replies
        BY DEF Replies
      <4>2. reply.path = path[t] /\ reply.val = Pushed(res[t])
        OBVIOUS
      <4> HIDE DEF reply
      <4>3. retQueue \in Seq(Replies) /\ retQueue' = Append(retQueue, reply)
        BY <3>3 DEF reply
      <4>4. \A i \in 1..Len(Append(retQueue, reply)) :
              \/ Append(retQueue, reply)[i] = reply
              \/ i \in 1..Len(retQueue) /\ Append(retQueue, reply)[i] = retQueue[i]
        BY ONLY <4>1, <4>3, Queued
      <4>5. \A i \in 1..Len(retQueue') :
              \/ retQueue'[i] = reply
              \/ i \in 1..Len(retQueue) /\ retQueue'[i] = retQueue[i]
        BY <4>3, <4>4, Zenon
      <4> QED
        BY <2>4, <3>1, <4>2, <4>5, Zenon
    <3> QED
      BY <2>3, <3>2, <3>3
  <2>6. (pc[Inoti] = "delete" => path[Inoti] \in Deletable)'
    BY <2>1 DEF StoredInv
  <2> QED
    BY <1>0, <2>2, <2>5, <2>6 DEF StoredInv, Covered, CoveredLater, Rescanned
<1>10. CASE PopReply
  <2>1. /\ retQueue \in Seq(Replies) /\ retQueue # <<>> /\ pc[Main] = "pop"
        /\ Len(retQueue) <= 1 /\ retQueue[1].path = path[Main]
    BY <1>10 DEF PopReply, ProtocolInv, AnswerIsForRequest
  <2>2. retQueue' = <<>>
    BY <1>10, <2>1 DEF PopReply
  <2>3. /\ \A u \in Threads : path'[u] = path[u] /\ lib'[u] = lib[u]
        /\ pc'[Inoti] = pc[Inoti] /\ res'[Inoti] = res[Inoti]
        /\ pc'[Main] = "send"
    BY <1>10 DEF PopReply
  <2>4. path[Inoti] \in Kept => StoredSoFar(Inoti)'
    BY <1>0, <1>d, <2>3, StoredFrame
  <2>5. path[Main] \in Kept => StoredSoFar(Main)'
    <3>0. retQueue[1] \in Replies
      BY <2>1
    <3>1. PICK r \in Results : retQueue[1].val = Pushed(r)
      BY <3>0 DEF Replies
    <3>2. res'[Main] = r
      BY <1>10, <2>1, <3>1, PushedIsNotNull DEF PopReply
    <3>3. path[Main] \in Kept /\ r = MS_ERR_NONE => CoveredLater(path[Main])
      <4>1. 1 \in 1..Len(retQueue)
        BY <2>1
      <4>2. path[Main] \in Kept /\ r = MS_ERR_NONE => Covered(path[Main])
        BY <2>1, <3>1, <4>1, Zenon DEF StoredInv
      <4> QED
        BY <1>a, <4>2
    <3> QED
      BY <2>3, <3>2, <3>3 DEF StoredSoFar, Covered, CoveredLater, Rescanned
  <2> QED
    BY <1>0, <2>2, <2>3, <2>4, <2>5 DEF StoredInv
<1>11. CASE SendReply
  BY <1>0, <1>11, StoredStep DEF SendReply, StoredSoFar, Covered, CoveredLater, Rescanned, Over
<1>12. CASE DeleteItem
  <2>1. /\ pc[Inoti] = "delete" /\ pc'[Inoti] \in {"delete", "idle"}
        /\ pc'[Main] = pc[Main] /\ lib'[Main] = lib[Main] /\ res'[Main] = res[Main]
        /\ UNCHANGED <<path, retQueue>>
    BY <1>12 DEF DeleteItem, Over
  <2>2. StoredSoFar(Inoti)'
    BY <2>1 DEF StoredSoFar, Covered, CoveredLater, Rescanned
  <2> QED
    BY <1>0, <2>1, <2>2, StoredStep DEF StoredInv
<1>13. ASSUME UNCHANGED <<pc, path, lib, res, retQueue>>
       PROVE  StoredInv'
  <2>1. \A u \in Threads : path'[u] \in Kept => StoredSoFar(u)'
    BY <1>a, <1>d, <1>13, StoredFrame
  <2> QED
    BY <1>0, <1>13, <2>1 DEF StoredInv, Covered, CoveredLater, Rescanned
<1>14. CASE Scan
  BY <1>13, <1>14, ScanApart
<1> QED
  BY <1>1, <1>2, <1>3, <1>4, <1>5, <1>6, <1>7, <1>8, <1>9, <1>10, <1>11,
     <1>12, <1>13, <1>14
     DEF Next, Register, Receive, InotiRegister, InotiDelete, vars

(* A client that is told zero for a media file finds it stored.            *)
THEOREM OkIsStored == Spec => []OkMeansStored
<1>1. ProtocolInv /\ StoredInv => OkMeansStored
  BY DEF ProtocolInv, TypeOK, StoredInv, StoredSoFar, Stored, Covered, Kept, Lasting,
     OkMeansStored
<1>2. Spec => []StoredInv
  BY StoredInit, StoredNext, Protocol, PTL DEF Spec
<1> QED
  BY <1>1, <1>2, Protocol, PTL

-----------------------------------------------------------------------------
(* Refinement: working, waiting and answer as Registration maps them.      *)
Working == [t \in Threads |-> IF Registering(t) THEN path[t] ELSE Nobody]
Awaited == IF Waiting THEN path[Main] ELSE Nobody
Answer  == IF Waiting /\ retQueue # <<>>
           THEN {Popped(Head(retQueue).val)} ELSE {}

(* A step that changes neither is a stutter of SingleFlight.               *)
LEMMA Stutter ==
  ASSUME Working' = Working, Awaited' = Awaited, Answer' = Answer
  PROVE  UNCHANGED SF!flight
BY DEF Working, Awaited, Answer, SF!flight

(* Every step maps to a step of SingleFlight or to a stutter: the insertion*)
(* in reg_list begins the work, its removal completes it, a request that   *)
(* goes to sleep joins, one that wakes up collects.                        *)
LEMMA SingleFlightStep ==
  ProtocolInv /\ [Next]_vars => [SF!Next]_(SF!flight)
<1> SUFFICES ASSUME ProtocolInv, [Next]_vars
             PROVE  SF!Next \/ UNCHANGED SF!flight
  OBVIOUS
<1>a. TypeOK /\ TypeOK'
  BY TypingNext DEF ProtocolInv
<1>b. \A p \in Paths : p # Nobody
  BY DEF Nobody
<1>c. InotiNeverWaits /\ AnswerIsForRequest /\ WaiterIsServed
  BY DEF ProtocolInv
<1> USE DEF Goto, lists, store, scanVars
<1>1. ASSUME NEW p \in Paths, Receive(p) \/ InotiRegister(p) \/ InotiDelete(p)
      PROVE  UNCHANGED SF!flight
  <2>1. PICK t \in Threads, label \in {"exist", "delete"} : Call(t, p, label)
    BY <1>1 DEF Receive, InotiRegister, InotiDelete
  <2>2. /\ pc[t] = "idle" /\ pc' = [pc EXCEPT ![t] = label]
        /\ path' = [path EXCEPT ![t] = p] /\ retQueue' = retQueue
    BY <2>1 DEF Call
  <2>3. Working' = Working
    BY <1>a, <2>2 DEF Working, Registering, TypeOK
  <2>4. Awaited' = Awaited /\ Answer' = Answer
    BY <1>a, <2>2 DEF Awaited, Answer, Waiting, TypeOK
  <2> QED
    BY <2>3, <2>4, Stutter
<1>2. ASSUME NEW t \in Threads,
             \/ CheckExist(t) \/ Lock(t) \/ FindRegList(t)
             \/ GetMime(t) \/ InsertItem(t) \/ GetMimeAgain(t)
             \/ Recheck(t) \/ DrmRegister(t)
      PROVE  UNCHANGED SF!flight
  <2>1. path' = path /\ retQueue' = retQueue
    BY <1>2 DEF CheckExist, Lock, FindRegList, InRegList, GetMime, InsertItem,
       GetMimeAgain, Recheck, DrmRegister
  <2>a. /\ \A u \in Threads \ {t} : pc'[u] = pc[u]
        /\ Registering(t)' <=> Registering(t)
        /\ pc[t] # "pop" /\ pc'[t] # "pop"
    <3>1. CASE CheckExist(t)
      BY <3>1, <1>a DEF CheckExist, Return, Registering, TypeOK, Leave, Over
    <3>2. CASE Lock(t) \/ FindRegList(t)
      BY <3>2, <1>a DEF Lock, FindRegList, InRegList, Registering, TypeOK
    <3>3. CASE GetMime(t) \/ InsertItem(t)
      BY <3>3, <1>a DEF GetMime, InsertItem, Registering, TypeOK
    <3>4. CASE GetMimeAgain(t) \/ Recheck(t) \/ DrmRegister(t)
      BY <3>4, <1>a DEF GetMimeAgain, Recheck, DrmRegister, Registering, TypeOK
    <3> QED
      BY <1>2, <3>1, <3>2, <3>3, <3>4
  <2>2. /\ \A u \in Threads : Registering(u)' <=> Registering(u)
        /\ Waiting' <=> Waiting
    BY <2>a DEF Registering, Waiting
  <2>3. Working' = Working /\ Awaited' = Awaited /\ Answer' = Answer
    BY <2>1, <2>2 DEF Working, Awaited, Answer
  <2> QED
    BY <2>3, Stutter
<1>3. ASSUME NEW t \in Threads, InsertRegList(t)
      PROVE  \E p \in Paths : SF!Begin(t, p)
  <2>1. /\ pc[t] = "enlist" /\ pc' = [pc EXCEPT ![t] = "mime"]
        /\ UNCHANGED <<path, retQueue>>
    BY <1>3 DEF InsertRegList
  <2>2. Working[t] = Nobody /\ path[t] \in Paths
    BY <1>a, <2>1 DEF Working, Registering, TypeOK
  <2>3. \A u \in Threads : Working[u] # path[t]
    BY <1>a, <1>b, <2>1 DEF Working, Registering, TypeOK, ProtocolInv, Listed,
       StillFree
  <2>4. t = Main => Awaited = Nobody
    BY <2>1 DEF Awaited, Waiting
  <2>5. Working' = [Working EXCEPT ![t] = path[t]]
    BY <1>a, <2>1 DEF Working, Registering, TypeOK
  <2>6. Awaited' = Awaited /\ Answer' = Answer
    BY <1>a, <2>1 DEF Awaited, Answer, Waiting, TypeOK
  <2>7. PICK p \in Paths : p = path[t]
    BY <2>2
  <2>8. SF!Begin(t, p)
    BY <2>2, <2>3, <2>4, <2>5, <2>6, <2>7
       DEF SF!Begin, Working, Awaited, Answer
  <2> QED
    BY <2>8
<1>4. ASSUME NEW t \in Threads, AlreadyInserting(t)
      PROVE  (\E p \in Paths : SF!Join(p)) \/ UNCHANGED SF!flight
  <2>1. /\ pc[t] = "busy" /\ UNCHANGED <<path, retQueue>>
        /\ pc' = [pc EXCEPT ![t] = IF t = Main THEN "pop" ELSE "idle"]
    BY <1>4 DEF AlreadyInserting, Leave, Over
  <2>2. Working' = Working
    BY <1>a, <2>1 DEF Working, Registering, TypeOK
  <2>3. CASE t = Main
    <3>1. Working[Main] = Nobody /\ Awaited = Nobody /\ Awaited' = path[Main]
      BY <1>a, <2>1, <2>3 DEF Working, Registering, Awaited, Waiting, TypeOK
    <3>2. \E u \in Threads : Working[u] = path[Main]
      BY <1>a, <2>1, <2>3 DEF Working, TypeOK, ProtocolInv, Listed, StillFree
    <3>3. Answer = {} /\ Answer' = {}
      BY <1>a, <1>c, <2>1, <2>3 DEF Answer, Waiting, AnswerIsForRequest, TypeOK
    <3>4. PICK p \in Paths : p = path[t]
      BY <1>a DEF TypeOK
    <3>5. SF!Join(p)
      BY <2>2, <2>3, <3>1, <3>2, <3>3, <3>4 DEF SF!Join, Working, Awaited, Answer
    <3> QED
      BY <3>5
  <2>4. CASE t = Inoti
    <3>1. Awaited' = Awaited /\ Answer' = Answer
      BY <1>a, <2>1, <2>4 DEF Awaited, Answer, Waiting, TypeOK
    <3> QED
      BY <2>2, <3>1, Stutter
  <2> QED
    BY <2>3, <2>4
<1>5. ASSUME NEW t \in Threads, Finish(t)
      PROVE  \E r \in Results : SF!Complete(t, r)
  <2>1. /\ pc[t] = "finish" /\ UNCHANGED path
        /\ pc' = [pc EXCEPT ![t] = IF t = Main THEN "send" ELSE "idle"]
    BY <1>5 DEF Finish, Answered, DeletedFromRegList, Return, Leave, Over
  <2>2. Working[t] = path[t] /\ Working[t] # Nobody
    BY <1>a, <1>b, <2>1 DEF Working, Registering, TypeOK
  <2>3. Working' = [Working EXCEPT ![t] = Nobody]
    BY <1>a, <2>1 DEF Working, Registering, TypeOK
  <2>4. Awaited' = Awaited
    BY <1>a, <2>1 DEF Awaited, Waiting, TypeOK
  <2>7. PICK r \in Results : r = res[t]
    BY <1>a DEF TypeOK
  <2>5. CASE socQueue
    <3>1. pc[Main] = "pop" /\ retQueue = <<>> /\ t = Inoti /\ path[t] = path[Main]
      BY <1>a, <1>c, <2>1, <2>5 DEF AnswerIsForRequest, WaiterIsServed, TypeOK
    <3>2. retQueue' = <<[path |-> path[t], val |-> Pushed(res[t])]>>
      BY <1>5, <2>5, <3>1 DEF Finish, Answered, DeletedFromRegList
    <3>3. Answer = {} /\ Answer' = {res[t]} /\ Awaited = Working[t]
      BY <1>a, <2>1, <2>2, <3>1, <3>2, PushedIsNotNull
         DEF Answer, Awaited, Waiting, TypeOK
    <3>4. SF!Complete(t, r)
      BY <2>2, <2>3, <2>4, <2>7, <3>3 DEF SF!Complete, Working, Awaited, Answer
    <3> QED
      BY <3>4
  <2>6. CASE ~socQueue
    <3>1. retQueue' = retQueue /\ Answer' = Answer
      BY <1>5, <1>a, <2>1, <2>6 DEF Finish, Answered, DeletedFromRegList, Answer, Waiting, TypeOK
    <3>2. Awaited = Working[t] => Answer # {}
      BY <1>c, <2>2, <2>6 DEF Awaited, Answer, Waiting, WaiterIsServed
    <3>3. SF!Complete(t, r)
      BY <2>2, <2>3, <2>4, <3>1, <3>2 DEF SF!Complete, Working, Awaited, Answer
    <3> QED
      BY <3>3
  <2> QED
    BY <2>5, <2>6
<1>6. ASSUME PopReply
      PROVE  SF!Collect
  <2>1. /\ pc[Main] = "pop" /\ pc' = [pc EXCEPT ![Main] = "send"]
        /\ retQueue # <<>> /\ UNCHANGED path
    BY <1>6 DEF PopReply
  <2>2. Answer # {} /\ Awaited' = Nobody /\ Answer' = {} /\ Working' = Working
    BY <1>a, <2>1 DEF Answer, Awaited, Waiting, Working, Registering, TypeOK
  <2> QED
    BY <2>2 DEF SF!Collect, Working, Awaited, Answer
<1>7. ASSUME SendReply \/ DeleteItem
      PROVE  UNCHANGED SF!flight
  <2>1. path' = path /\ retQueue' = retQueue
    BY <1>7 DEF SendReply, DeleteItem, Over
  <2>2. /\ \A u \in Threads : Registering(u)' <=> Registering(u)
        /\ Waiting' <=> Waiting
    BY <1>7, <1>a DEF SendReply, DeleteItem, Registering, Waiting, TypeOK, Over
  <2>3. Working' = Working /\ Awaited' = Awaited /\ Answer' = Answer
    BY <2>1, <2>2 DEF Working, Awaited, Answer
  <2> QED
    BY <2>3, Stutter
<1>8. ASSUME UNCHANGED <<pc, path, retQueue>>
      PROVE  UNCHANGED SF!flight
  BY <1>8, Stutter DEF Working, Awaited, Answer, Waiting, Registering
<1>11. Scan => UNCHANGED SF!flight
  BY <1>8, ScanApart
<1>9. ASSUME NEW t \in Threads, Register(t)
       PROVE  SF!Next \/ UNCHANGED SF!flight
  <2>1. InsertRegList(t) => SF!Next
    BY <1>3 DEF SF!Next
  <2>2. Finish(t) => SF!Next
    BY <1>5 DEF SF!Next
  <2>3. AlreadyInserting(t) => SF!Next \/ UNCHANGED SF!flight
    BY <1>4 DEF SF!Next
  <2> QED
    BY <1>2, <1>9, <2>1, <2>2, <2>3 DEF Register
<1>10. SF!Collect => SF!Next
  BY DEF SF!Next
<1> QED
  BY <1>1, <1>6, <1>7, <1>8, <1>9, <1>10, <1>11
     DEF Next, vars

(* The lists, the mutex and the queues implement the single flight: no file*)
(* is worked on twice at once, and a waiting request gets the result of the*)
(* work it found in progress.                                              *)
THEOREM Implementation == Spec => ImplementsSingleFlight
<1>1. Init => SF!Init
  BY DEF Init, SF!Init, Registering, Waiting
<1> QED
  BY <1>1, SingleFlightStep, Protocol, PTL DEF Spec, SF!Spec, ImplementsSingleFlight
=============================================================================
