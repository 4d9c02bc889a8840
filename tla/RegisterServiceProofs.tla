----------------------- MODULE RegisterServiceProofs -----------------------
(***************************************************************************)
(* Proofs about RegisterService, for any clients, ports and lists of files,*)
(* any size of the server's buffer and any number of kills: type           *)
(* correctness, that a client can only take the answer to its own call, and*)
(* that what clients were told stays true. What was proved of Registration *)
(* alone carries over, because a step of the service is a step of          *)
(* Registration, or a kill, or leaves the server's threads alone.          *)
(***************************************************************************)
EXTENDS RegisterService, RegistrationProofs, FiniteSetTheorems

USE RegistrationAssumption, ServiceAssumption
    DEF RegistrationAssumption, ServiceAssumption, Threads, Main, Inoti

(* A step of the server's threads: all but Receive and SendReply, which the*)
(* service ties to the socket.                                             *)
Inner ==
  \/ \E p \in Paths : InotiRegister(p) \/ InotiDelete(p)
  \/ \E t \in Threads : Register(t)
  \/ PopReply \/ DeleteItem
  \/ Scan

(* The steps of the service, with those of the threads put together.       *)
LEMMA ServiceSteps ==
  ASSUME [ServiceNext]_allVars
  PROVE  \/ \E c \in Clients :
              \/ \E list \in Lists : FilesRegister(c, list)
              \/ Refused(c) \/ SendRequest(c) \/ TakeAnswer(c) \/ Timeout(c)
         \/ ReceiveRequest \/ SendAnswer \/ Kill \/ Start
         \/ Silent(Inner)
         \/ UNCHANGED allVars
<1>1. \A p \in Paths : Silent(InotiRegister(p)) \/ Silent(InotiDelete(p))
                         => Silent(Inner)
  BY DEF Silent, Inner
<1>2. \A t \in Threads : Silent(Register(t)) => Silent(Inner)
  BY DEF Silent, Inner
<1>3. Silent(PopReply) \/ Silent(DeleteItem) => Silent(Inner)
  BY DEF Silent, Inner
<1>4. Silent(Scan) => Silent(Inner)
  BY DEF Silent, Inner
<1> QED
  BY <1>1, <1>2, <1>3, <1>4 DEF ServiceNext

(* A step of the service is a step of Registration, a stutter, a kill, or a*)
(* start.                                                                  *)
LEMMA ServiceRefines ==
  ASSUME requests \in Seq(Requests), [ServiceNext]_allVars
  PROVE  [Next]_vars \/ Kill \/ Start
<1>1. ASSUME NEW c \in Clients,
             \/ \E list \in Lists : FilesRegister(c, list)
             \/ Refused(c) \/ SendRequest(c) \/ TakeAnswer(c) \/ Timeout(c)
      PROVE  UNCHANGED vars
  BY <1>1 DEF FilesRegister, Refused, SendRequest, TakeAnswer, Timeout
<1>2. ASSUME ReceiveRequest PROVE Next
  <2>1. Head(requests) \in Requests
    BY <1>2 DEF ReceiveRequest
  <2>2. Head(requests).path \in Paths
    BY <2>1 DEF Requests
  <2> QED
    BY <1>2, <2>2 DEF ReceiveRequest, Next
<1>3. SendAnswer => Next
  BY DEF SendAnswer, Next
<1>4. Silent(Inner) => Next
  BY DEF Silent, Inner, Next
<1>5. UNCHANGED allVars => UNCHANGED vars
  BY DEF allVars
<1> QED
  BY <1>1, <1>2, <1>3, <1>4, <1>5, ServiceSteps

(* A kill leaves the server's threads idle and its lists empty; the        *)
(* databases keep what they have.                                          *)
LEMMA KillRestarts ==
  ASSUME TypeOK, StoredInv, Kill
  PROVE  ProtocolInv' /\ StoredInv'
<1>1. /\ pc' = [t \in Threads |-> "idle"] /\ lib' = [t \in Threads |-> 1]
      /\ res' = [t \in Threads |-> MS_ERR_NONE]
      /\ queueMutex' = Nobody /\ regList' = [p \in Paths |-> 0]
      /\ socQueue' = FALSE /\ retQueue' = <<>> /\ ignore' = {}
      /\ scan' = "idle" /\ scanLib' = 1 /\ due' = {}
      /\ UNCHANGED <<path, db, stale, drm>>
  BY DEF Kill
<1>2. TypeOK'
  <2>1. <<>> \in Seq(Replies)
    OBVIOUS
  <2>2. "idle" \in Labels /\ MS_ERR_NONE \in Results /\ 1 \in 1..(LibNum + 1)
    BY DEF Labels, Results
  <2>3. pc' \in [Threads -> Labels] /\ lib' \in [Threads -> 1..(LibNum + 1)]
        /\ res' \in [Threads -> Results] /\ regList' \in [Paths -> Nat]
    BY <1>1, <2>2
  <2>4. skipped' \subseteq Lasting
    BY DEF Kill, Missed, TypeOK
  <2> QED
    BY <1>1, <2>1, <2>2, <2>3, <2>4 DEF TypeOK
<1>3. /\ \A t \in Threads : pc'[t] = "idle"
      /\ queueMutex' \notin Threads
      /\ \A p \in Paths : regList'[p] = 0
      /\ ~socQueue' /\ retQueue' = <<>>
  BY <1>1 DEF Nobody
<1>4. ProtocolInv'
  BY <1>2, <1>3 DEF ProtocolInv, HoldsMutex, Exclusive, Listed, StillFree,
     InotiNeverWaits, WaiterIsServed, AnswerIsForRequest, Registering
<1>5. ScanInv'
  BY <1>1 DEF StoredInv, ScanInv
<1>6. StoredInv'
  BY <1>3, <1>5 DEF StoredInv, StoredSoFar
<1> QED
  BY <1>4, <1>6

(* A start makes rows invalid; no scan relies on them.                     *)
LEMMA StartInvalidates ==
  ASSUME ProtocolInv, StoredInv, scan = "idle", Start
  PROVE  ProtocolInv' /\ StoredInv'
<1>1. UNCHANGED <<pc, path, lib, res, queueMutex, lists, db, ignore, drm, scanVars>>
  BY DEF Start
<1>2. PICK L \in SUBSET Libs : Invalidate(L)
  BY DEF Start
<1>3. TypeOK'
  BY <1>1, <1>2 DEF ProtocolInv, TypeOK, Invalidate, lists, scanVars
<1>4. ProtocolInv'
  BY <1>1, <1>3 DEF ProtocolInv, HoldsMutex, Exclusive, Listed, StillFree,
     InotiNeverWaits, WaiterIsServed, AnswerIsForRequest, Registering, lists
<1>5. ScanInv'
  BY <1>1, <1>2 DEF StoredInv, ScanInv, Invalidate, ProtocolInv, TypeOK, scanVars
<1>6. StoredInv'
  BY <1>1, <1>5 DEF StoredInv, StoredSoFar, Covered, Stored, Rescanned, lists, scanVars
<1> QED
  BY <1>4, <1>6

(* What was proved of Registration holds in the service, kills included.   *)
LEMMA ServerNext ==
  ASSUME ProtocolInv, StoredInv, requests \in Seq(Requests),
         server = "down" => scan = "idle", [ServiceNext]_allVars
  PROVE  ProtocolInv' /\ StoredInv'
<1>1. TypeOK
  BY DEF ProtocolInv
<1>2. Start => scan = "idle"
  BY DEF Start
<1> QED
  BY <1>1, <1>2, ServiceRefines, KillRestarts, StartInvalidates, ProtocolNext,
     StoredNext

-----------------------------------------------------------------------------
(* The types of what the service adds. A client that waits still has the   *)
(* path it waits for at the head of its list: that is why there is a list  *)
(* to take the tail of.                                                    *)
ClientsOK ==
  /\ todo \in [Clients -> Seq(Paths \cup {NULL})]
  /\ waiting \in [Clients -> Requests \cup {Away}]
  /\ open \subseteq Ports
  /\ promised \subseteq Paths
  /\ \A c \in Clients : waiting[c] # Away => todo[c] # <<>>

NetworkOK ==
  /\ requests \in Seq(Requests) /\ Len(requests) <= MaxQueued
  /\ served \in Ports \cup {0}
  /\ answers \subseteq Answers

ServerOK ==
  /\ server \in {"down", "bound", "unbound"}
  /\ kills \in 0..MaxKills
  /\ server = "down" => scan = "idle"

(* The next path of a call.                                                *)
LEMMA NextFileOK ==
  ASSUME NEW c \in Clients, todo \in [Clients -> Seq(Paths \cup {NULL})],
         todo[c] # <<>>, NextFile(c)
  PROVE  /\ todo' \in [Clients -> Seq(Paths \cup {NULL})]
         /\ \A d \in Clients \ {c} : todo'[d] = todo[d]
<1>1. Tail(todo[c]) \in Seq(Paths \cup {NULL})
  OBVIOUS
<1> QED
  BY <1>1 DEF NextFile

LEMMA ClientsNext ==
  ASSUME ClientsOK, NetworkOK, [ServiceNext]_allVars
  PROVE  ClientsOK'
<1> USE DEF ClientsOK
<1>1. ASSUME NEW c \in Clients, NEW list \in Lists, FilesRegister(c, list)
      PROVE  ClientsOK'
  BY <1>1 DEF FilesRegister
<1>2. ASSUME NEW c \in Clients, Refused(c)
      PROVE  ClientsOK'
  BY <1>2, NextFileOK DEF Refused
<1>3. ASSUME NEW c \in Clients, SendRequest(c)
      PROVE  ClientsOK'
  <2>1. PICK q \in Ports \ open :
          /\ open' = open \cup {q}
          /\ waiting' = [waiting EXCEPT ![c] = [port |-> q, path |-> Head(todo[c])]]
    BY <1>3 DEF SendRequest
  <2>2. Head(todo[c]) \in Paths /\ todo[c] # <<>> /\ UNCHANGED <<todo, promised>>
    BY <1>3 DEF SendRequest
  <2>3. [port |-> q, path |-> Head(todo[c])] \in Requests
    BY <2>2 DEF Requests
  <2> QED
    BY <2>1, <2>2, <2>3
<1>4. ASSUME NEW c \in Clients, TakeAnswer(c)
      PROVE  ClientsOK'
  <2>1. /\ waiting[c] # Away /\ todo[c] # <<>> /\ NextFile(c)
        /\ waiting' = [waiting EXCEPT ![c] = Away]
        /\ open' \subseteq open
        /\ promised' = promised \/ promised' = promised \cup {waiting[c].path}
    BY <1>4 DEF TakeAnswer
  <2>2. waiting[c].path \in Paths
    BY <2>1 DEF Requests
  <2> QED
    BY <2>1, <2>2, NextFileOK
<1>5. ASSUME NEW c \in Clients, Timeout(c)
      PROVE  ClientsOK'
  BY <1>5, NextFileOK DEF Timeout, OpenAfterTimeout
<1>6. ASSUME UNCHANGED clientVars
      PROVE  ClientsOK'
  BY <1>6 DEF clientVars
<1>7. ReceiveRequest \/ SendAnswer \/ Kill \/ Start \/ Silent(Inner)
        \/ UNCHANGED allVars => UNCHANGED clientVars
  BY DEF ReceiveRequest, SendAnswer, Kill, Start, Silent, allVars
<1> QED
  BY <1>1, <1>2, <1>3, <1>4, <1>5, <1>6, <1>7, ServiceSteps

(* What goes into the buffers.                                             *)
LEMMA SentOK ==
  ASSUME NetworkOK, NEW r \in Requests
  PROVE  Sent(r) \in Seq(Requests) /\ Len(Sent(r)) <= MaxQueued
<1>1. CASE server = "bound" /\ Len(requests) < MaxQueued
  <2>1. /\ Append(requests, r) \in Seq(Requests)
        /\ Len(Append(requests, r)) = Len(requests) + 1 /\ Len(requests) \in Nat
    BY DEF NetworkOK
  <2> QED
    BY <1>1, <2>1 DEF Sent
<1>2. CASE ~(server = "bound" /\ Len(requests) < MaxQueued)
  BY <1>2 DEF Sent, NetworkOK
<1> QED
  BY <1>1, <1>2

LEMMA SendMsgOK ==
  \A r \in Results :
    /\ SendMsg(r) \in {MS_MEDIA_ERR_NONE, MS_MEDIA_ERR_INVALID_MEDIA,
                        MS_MEDIA_ERR_INSERT_FAIL}
    /\ SendMsg(r) = MS_MEDIA_ERR_NONE => r = MS_ERR_NONE
BY DEF SendMsg, Results, MS_ERR_NONE, MS_ERR_MIME_GET_FAIL,
   MS_ERR_DB_INSERT_RECORD_FAIL, MS_MEDIA_ERR_NONE, MS_MEDIA_ERR_INVALID_MEDIA,
   MS_MEDIA_ERR_INSERT_FAIL

(* What ms_read_socket takes from the buffer.                              *)
LEMMA Received ==
  ASSUME NetworkOK, ReceiveRequest
  PROVE  /\ requests \in Seq(Requests) /\ requests # <<>> /\ Len(requests) \in Nat \ {0}
         /\ requests[1] \in Requests
         /\ Receive(requests[1].path) /\ served' = requests[1].port
         /\ requests' = Tail(requests)
         /\ requests' \in Seq(Requests) /\ Len(requests') = Len(requests) - 1
         /\ \A i \in 1..Len(requests') :
               i + 1 \in 1..Len(requests) /\ requests'[i] = requests[i + 1]
<1>1. /\ requests \in Seq(Requests) /\ requests # <<>>
      /\ Head(requests) = requests[1]
      /\ Receive(Head(requests).path) /\ served' = Head(requests).port
      /\ requests' = Tail(requests)
  BY DEF ReceiveRequest, NetworkOK
<1>2. Len(requests) \in Nat \ {0} /\ requests[1] \in Requests
  BY <1>1
<1>3. /\ requests' \in Seq(Requests) /\ Len(requests') = Len(requests) - 1
      /\ \A i \in 1..Len(requests') :
            i + 1 \in 1..Len(requests) /\ requests'[i] = requests[i + 1]
  BY <1>1
<1> QED
  BY <1>1, <1>2, <1>3

LEMMA NetworkNext ==
  ASSUME TypeOK, ClientsOK, NetworkOK, [ServiceNext]_allVars
  PROVE  NetworkOK'
<1> USE DEF NetworkOK
<1>1. ASSUME NEW c \in Clients, NEW list \in Lists, FilesRegister(c, list)
      PROVE  NetworkOK'
  BY <1>1 DEF FilesRegister, networkVars
<1>2. ASSUME NEW c \in Clients, Refused(c) \/ Timeout(c)
      PROVE  NetworkOK'
  BY <1>2 DEF Refused, Timeout, networkVars
<1>3. ASSUME NEW c \in Clients, SendRequest(c)
      PROVE  NetworkOK'
  <2>1. PICK q \in Ports \ open : requests' = Sent([port |-> q, path |-> Head(todo[c])])
    BY <1>3 DEF SendRequest
  <2>2. Head(todo[c]) \in Paths /\ UNCHANGED <<served, answers>>
    BY <1>3 DEF SendRequest, ClientsOK
  <2>3. [port |-> q, path |-> Head(todo[c])] \in Requests
    BY <2>2 DEF Requests
  <2> QED
    BY <2>1, <2>2, <2>3, SentOK
<1>4. ASSUME NEW c \in Clients, TakeAnswer(c)
      PROVE  NetworkOK'
  BY <1>4 DEF TakeAnswer
<1>5. CASE ReceiveRequest
  <2>1. requests[1].port \in Ports
    BY <1>5, Received DEF Requests
  <2>2. answers' = answers
    BY <1>5 DEF ReceiveRequest
  <2> QED
    BY <1>5, <2>1, <2>2, Received
<1>6. CASE SendAnswer
  <2>1. path[Main] \in Paths /\ res[Main] \in Results
    BY DEF TypeOK
  <2>2. served \in open => served \in Ports
    BY DEF ClientsOK
  <2>3. answers' \subseteq Answers
    BY <1>6, <2>1, <2>2, SendMsgOK DEF SendAnswer, Answers
  <2> QED
    BY <1>6, <2>3 DEF SendAnswer
<1>7. CASE Kill
  <2>1. <<>> \in Seq(Requests) /\ Len(<<>>) = 0
    OBVIOUS
  <2> QED
    BY <1>7, <2>1 DEF Kill
<1>8. Start \/ Silent(Inner) \/ UNCHANGED allVars => UNCHANGED networkVars
  BY DEF Start, Silent, allVars
<1>9. UNCHANGED networkVars => NetworkOK'
  BY DEF networkVars
<1> QED
  BY <1>1, <1>2, <1>3, <1>4, <1>5, <1>6, <1>7, <1>8, <1>9, ServiceSteps

LEMMA ServerStateNext ==
  ASSUME ServerOK, [ServiceNext]_allVars
  PROVE  ServerOK'
<1>1. ASSUME NEW c \in Clients,
             \/ \E list \in Lists : FilesRegister(c, list)
             \/ Refused(c) \/ SendRequest(c) \/ TakeAnswer(c) \/ Timeout(c)
      PROVE  UNCHANGED <<scan, serverVars>>
  BY <1>1 DEF FilesRegister, Refused, SendRequest, TakeAnswer, Timeout, vars,
     scanVars
<1>2. ReceiveRequest => UNCHANGED <<scan, serverVars>>
  BY DEF ReceiveRequest, Receive, Call, scanVars
<1>3. SendAnswer => UNCHANGED <<scan, serverVars>>
  BY DEF SendAnswer, SendReply, scanVars, Over
<1>6. UNCHANGED allVars => UNCHANGED <<scan, serverVars>>
  BY DEF allVars, vars, scanVars
<1>7. Silent(Inner) => server # "down" /\ UNCHANGED serverVars
  BY DEF Silent
<1>8. UNCHANGED <<scan, serverVars>> => ServerOK'
  BY DEF ServerOK, serverVars
<1>9. server # "down" /\ UNCHANGED serverVars => ServerOK'
  BY DEF ServerOK, serverVars
<1>4. Kill => ServerOK'
  BY DEF Kill, ServerOK
<1>5. Start => ServerOK'
  BY DEF Start, ServerOK
<1> QED
  BY <1>1, <1>2, <1>3, <1>4, <1>5, <1>6, <1>7, <1>8, <1>9, ServiceSteps

(* Types and protocol together: the part of the inductive invariant that   *)
(* the two theorems about clients rest on.                                 *)
ServiceInv == ProtocolInv /\ StoredInv /\ ClientsOK /\ NetworkOK /\ ServerOK

LEMMA ServiceInvInit == ServiceInit => ServiceInv
<1> SUFFICES ASSUME ServiceInit PROVE ServiceInv
  OBVIOUS
<1>1. ProtocolInv /\ StoredInv
  BY ProtocolInit, StoredInit DEF ServiceInit
<1>2. <<>> \in Seq(Paths \cup {NULL}) /\ <<>> \in Seq(Requests) /\ Len(<<>>) = 0
  OBVIOUS
<1>3. ClientsOK
  BY <1>2 DEF ServiceInit, ClientsOK
<1>4. NetworkOK
  BY <1>2 DEF ServiceInit, NetworkOK
<1>5. ServerOK
  BY DEF ServiceInit, Init, ServerOK
<1> QED
  BY <1>1, <1>3, <1>4, <1>5 DEF ServiceInv

LEMMA ServiceInvNext == ServiceInv /\ [ServiceNext]_allVars => ServiceInv'
<1> SUFFICES ASSUME ServiceInv, [ServiceNext]_allVars PROVE ServiceInv'
  OBVIOUS
<1>1. TypeOK
  BY DEF ServiceInv, ProtocolInv
<1>2. ProtocolInv' /\ StoredInv'
  BY ServerNext DEF ServiceInv, NetworkOK, ServerOK
<1> QED
  BY <1>1, <1>2, ClientsNext, NetworkNext, ServerStateNext DEF ServiceInv

(* The types hold in every reachable state of clients, network and server. *)
THEOREM ServiceTyping == ServiceSpec => []ServiceTypeOK
<1>1. ServiceInv => ServiceTypeOK
  BY DEF ServiceInv, ServiceTypeOK, ProtocolInv, ClientsOK, NetworkOK, ServerOK
<1> QED
  BY <1>1, ServiceInvInit, ServiceInvNext, PTL DEF ServiceSpec

-----------------------------------------------------------------------------
(* For every port at most one thing is under way: a request in the buffer, *)
(* the request in work, or an answer. All of it belongs to a socket that   *)
(* is still open, and a client that waits has its socket to itself.        *)
RequestsApart ==
  \A i \in 1..Len(requests) :
    /\ requests[i].port \in open /\ requests[i].port # served
    /\ \A m \in answers : m.port # requests[i].port
    /\ \A j \in 1..Len(requests) : requests[i].port = requests[j].port => i = j

ServedApart ==
  /\ pc[Main] = "idle" => served = 0
  /\ served # 0 => served \in open
  /\ \A m \in answers : m.port # served

AnswersApart ==
  /\ \A m \in answers : m.port \in open
  /\ \A m, n \in answers : m.port = n.port => m = n

WaitersApart ==
  \A c \in Clients : waiting[c] # Away =>
    /\ waiting[c].port \in open
    /\ \A d \in Clients :
         waiting[d] # Away /\ waiting[d].port = waiting[c].port => d = c

(* What is under way for the port of a client that waits is about its file.*)
OwnFile ==
  \A c \in Clients : waiting[c] # Away =>
    /\ \A i \in 1..Len(requests) :
         requests[i].port = waiting[c].port => requests[i].path = waiting[c].path
    /\ served = waiting[c].port => path[Main] = waiting[c].path
    /\ \A m \in answers : m.port = waiting[c].port => m.path = waiting[c].path

PortInv ==
  RequestsApart /\ ServedApart /\ AnswersApart /\ WaitersApart /\ OwnFile

(* A step of the server's threads that neither receives nor sends leaves   *)
(* the main loop in its request, or out of it.                             *)
LEMMA InnerKeepsRequest ==
  ASSUME TypeOK, Inner
  PROVE  path'[Main] = path[Main] /\ (pc'[Main] = "idle" <=> pc[Main] = "idle")
<1> USE DEF TypeOK, Goto, Return, lists, store, scanVars, Leave, Over
<1>1. ASSUME NEW p \in Paths, InotiRegister(p) \/ InotiDelete(p)
      PROVE  path'[Main] = path[Main] /\ pc'[Main] = pc[Main]
  BY <1>1 DEF InotiRegister, InotiDelete, Call
<1>2. ASSUME NEW t \in Threads, Register(t)
      PROVE  path' = path /\ (pc'[Main] = "idle" <=> pc[Main] = "idle")
  <2>1. CASE CheckExist(t) \/ Lock(t) \/ FindRegList(t) \/ InsertRegList(t)
    BY <2>1 DEF CheckExist, Lock, FindRegList, InRegList, InsertRegList
  <2>2. CASE AlreadyInserting(t) \/ GetMime(t) \/ InsertItem(t)
    BY <2>2 DEF AlreadyInserting, GetMime, InsertItem, Leave, Over
  <2>3. CASE GetMimeAgain(t) \/ Recheck(t) \/ DrmRegister(t) \/ Finish(t)
    BY <2>3 DEF GetMimeAgain, Recheck, DrmRegister, Finish, Answered,
       DeletedFromRegList
  <2> QED
    BY <1>2, <2>1, <2>2, <2>3 DEF Register
<1>3. PopReply => path' = path /\ pc[Main] = "pop" /\ pc'[Main] = "send"
  BY DEF PopReply
<1>4. DeleteItem => path' = path /\ pc'[Main] = pc[Main]
  BY DEF DeleteItem, Over
<1>5. Scan => path' = path /\ pc' = pc
  BY ScanApart
<1> QED
  BY <1>1, <1>2, <1>3, <1>4, <1>5 DEF Inner

(* What a datagram adds to the server's buffer.                            *)
LEMMA SentAdds ==
  ASSUME requests \in Seq(Requests), NEW r \in Requests
  PROVE  \A i \in 1..Len(Sent(r)) :
           \/ i \in 1..Len(requests) /\ Sent(r)[i] = requests[i]
           \/ i = Len(requests) + 1 /\ Sent(r)[i] = r
<1>1. CASE Sent(r) = requests
  BY <1>1
<1>2. CASE Sent(r) = Append(requests, r)
  BY <1>2
<1> QED
  BY <1>1, <1>2 DEF Sent

LEMMA PortInvNext ==
  ASSUME ServiceInv, PortInv, [ServiceNext]_allVars
  PROVE  PortInv'
<1>t. ServiceInv'
  BY ServiceInvNext
<1>a. TypeOK /\ ClientsOK /\ NetworkOK
  BY DEF ServiceInv, ProtocolInv
<1>b. TypeOK' /\ ClientsOK' /\ NetworkOK'
  BY <1>t DEF ServiceInv, ProtocolInv
<1>c. 0 \notin Ports /\ open \subseteq Ports
  BY <1>a DEF ClientsOK
<1> USE DEF PortInv, RequestsApart, ServedApart, AnswersApart, WaitersApart, OwnFile
<1>1. ASSUME NEW c \in Clients,
             FilesRegister(c, todo'[c]) \/ Refused(c) \/ Timeout(c)
      PROVE  PortInv'
  <2>1. /\ UNCHANGED <<vars, networkVars>> /\ open \subseteq open'
        /\ waiting' = waiting \/ waiting' = [waiting EXCEPT ![c] = Away]
    BY <1>1 DEF FilesRegister, Refused, Timeout, OpenAfterTimeout
  <2>2. \A d \in Clients : waiting'[d] # Away => waiting'[d] = waiting[d]
    BY <1>a, <2>1 DEF ClientsOK
  <2> QED
    BY <2>1, <2>2 DEF vars, networkVars
<1>2. ASSUME NEW c \in Clients, SendRequest(c)
      PROVE  PortInv'
  <2>1. PICK q \in Ports \ open :
          /\ open' = open \cup {q}
          /\ waiting' = [waiting EXCEPT ![c] = [port |-> q, path |-> Head(todo[c])]]
          /\ requests' = Sent([port |-> q, path |-> Head(todo[c])])
    BY <1>2 DEF SendRequest
  <2> DEFINE r == [port |-> q, path |-> Head(todo[c])]
  <2>2. r \in Requests
    BY <1>a, <1>2 DEF SendRequest, ClientsOK, Requests
  <2>3. \A i \in 1..Len(requests') :
          \/ i \in 1..Len(requests) /\ requests'[i] = requests[i]
          \/ i = Len(requests) + 1 /\ requests'[i] = r
    BY <1>a, <2>1, <2>2, SentAdds DEF NetworkOK
  <2>4. r.port = q /\ r.path = Head(todo[c])
    OBVIOUS
  <2>5. waiting' = [waiting EXCEPT ![c] = r]
    BY <2>1
  <2> HIDE DEF r
  <2>6. /\ \A d \in Clients \ {c} : waiting'[d] = waiting[d]
        /\ waiting'[c] = r
    BY <1>a, <2>5 DEF ClientsOK
  <2>7. UNCHANGED <<pc, path, served, answers>>
    BY <1>2 DEF SendRequest, vars
  <2>8. q # served /\ q \notin open
    BY <1>c, <2>1
  <2>9. RequestsApart'
    BY <2>1, <2>3, <2>4, <2>7, <2>8
  <2>10. ServedApart' /\ AnswersApart'
    BY <2>1, <2>7
  <2>11. WaitersApart'
    BY <2>1, <2>4, <2>6
  <2>12. OwnFile'
    BY <2>1, <2>3, <2>4, <2>6, <2>7, <2>8
  <2> QED
    BY <2>9, <2>10, <2>11, <2>12
<1>3. ASSUME NEW c \in Clients, TakeAnswer(c)
      PROVE  PortInv'
  <2>1. PICK m \in answers :
          m.port = waiting[c].port /\ answers' = answers \ {m}
    BY <1>3 DEF TakeAnswer
  <2>2. /\ waiting[c] # Away /\ open' = open \ {waiting[c].port}
        /\ waiting' = [waiting EXCEPT ![c] = Away]
        /\ UNCHANGED <<pc, path, requests, served>>
    BY <1>3 DEF TakeAnswer, vars
  <2>3. \A d \in Clients : waiting'[d] # Away => waiting'[d] = waiting[d] /\ d # c
    BY <1>a, <2>2 DEF ClientsOK
  <2> QED
    BY <2>1, <2>2, <2>3
<1>4. CASE ReceiveRequest
  <2>1. /\ served' = requests[1].port /\ path'[Main] = requests[1].path
        /\ pc[Main] = "idle" /\ pc'[Main] = "exist"
    BY <1>4, <1>a, Received DEF Receive, Call, Goto, TypeOK, Requests
  <2>2. /\ 1 \in 1..Len(requests)
        /\ \A i \in 1..Len(requests') :
              i + 1 \in 1..Len(requests) /\ i + 1 # 1 /\ requests'[i] = requests[i + 1]
    BY <1>4, <1>a, Received DEF NetworkOK
  <2>3. UNCHANGED <<open, waiting, answers>>
    BY <1>4 DEF ReceiveRequest, clientVars
  <2>4. RequestsApart'
    BY <1>c, <2>1, <2>2, <2>3
  <2>5. ServedApart' /\ AnswersApart' /\ WaitersApart'
    BY <2>1, <2>2, <2>3
  <2>6. OwnFile'
    BY <2>1, <2>2, <2>3
  <2> QED
    BY <2>4, <2>5, <2>6
<1>5. CASE SendAnswer
  <2>1. UNCHANGED <<path, open, waiting, requests>> /\ served' = 0
    BY <1>5 DEF SendAnswer, SendReply, clientVars, Over
  <2>2. pc[Main] = "send" /\ pc'[Main] = "idle"
    BY <1>5, <1>a DEF SendAnswer, SendReply, Goto, TypeOK, Over
  <2>3. 0 \notin open
    BY <1>c
  <2>4. CASE answers' = answers
    BY <2>1, <2>2, <2>3, <2>4
  <2>5. ASSUME served \in open, NEW a,
               a.port = served, a.path = path[Main], answers' = answers \cup {a}
        PROVE  PortInv'
    <3>1. RequestsApart' /\ ServedApart'
      BY <2>1, <2>2, <2>3, <2>5
    <3>2. AnswersApart' /\ WaitersApart'
      BY <2>1, <2>5
    <3>3. OwnFile'
      BY <2>1, <2>3, <2>5
    <3> QED
      BY <3>1, <3>2, <3>3
  <2>6. \/ answers' = answers
        \/ /\ served \in open
           /\ answers' = answers \cup
                {[port |-> served, path |-> path[Main], msg |-> SendMsg(res[Main])]}
    BY <1>5 DEF SendAnswer
  <2> QED
    BY <2>4, <2>5, <2>6
<1>6. CASE Silent(Inner)
  <2>1. UNCHANGED <<open, waiting, requests, served, answers>>
    BY <1>6 DEF Silent, clientVars, networkVars
  <2>2. path'[Main] = path[Main] /\ (pc'[Main] = "idle" <=> pc[Main] = "idle")
    BY <1>6, <1>a, InnerKeepsRequest DEF Silent
  <2> QED
    BY <2>1, <2>2
<1>7. CASE Kill
  BY <1>7, <1>c DEF Kill, clientVars
<1>8. CASE Start \/ UNCHANGED allVars
  BY <1>8 DEF Start, allVars, vars, clientVars, networkVars
<1>9. ASSUME NEW c \in Clients, NEW list \in Lists, FilesRegister(c, list)
      PROVE  FilesRegister(c, todo'[c])
  BY <1>9, <1>a DEF FilesRegister, ClientsOK
<1> QED
  BY <1>1, <1>2, <1>3, <1>4, <1>5, <1>6, <1>7, <1>8, <1>9, ServiceSteps

LEMMA PortInvInit == ServiceInit => PortInv
<1> SUFFICES ASSUME ServiceInit PROVE PortInv
  OBVIOUS
<1>1. /\ \A c \in Clients : waiting[c] = Away
      /\ Len(requests) = 0 /\ served = 0 /\ answers = {}
  BY DEF ServiceInit
<1> QED
  BY <1>1 DEF PortInv, RequestsApart, ServedApart, AnswersApart, WaitersApart,
     OwnFile

(* Of a set with at most one element, the cardinality.                     *)
LEMMA AtMostOne ==
  ASSUME NEW S, \A x, y \in S : x = y
  PROVE  Cardinality(S) = IF S = {} THEN 0 ELSE 1
<1>1. CASE S = {}
  BY <1>1, FS_EmptySet
<1>2. CASE S # {}
  <2>1. PICK x \in S : TRUE
    BY <1>2
  <2>2. S = {x}
    BY <2>1
  <2> QED
    BY <1>2, <2>2, FS_Singleton
<1> QED
  BY <1>1, <1>2

(* A client that waits can only get the answer to its own call: at most one*)
(* thing is under way for its port, and it is about its file.              *)
THEOREM AnswersAreOwn == ServiceSpec => []AnswerIsOwn
<1>1. ServiceInv /\ PortInv => AnswerIsOwn
  <2> SUFFICES ASSUME ServiceInv, PortInv, NEW c \in Clients, waiting[c] # Away
               PROVE  /\ UnderWay(waiting[c].port).number <= 1
                      /\ UnderWay(waiting[c].port).paths \subseteq {waiting[c].path}
    BY DEF AnswerIsOwn
  <2> DEFINE q      == waiting[c].port
             queued == {i \in DOMAIN requests : requests[i].port = q}
             inWork == {served} \cap {q}
             ready  == {m \in answers : m.port = q}
  <2>1. DOMAIN requests = 1..Len(requests)
    BY DEF ServiceInv, NetworkOK
  <2>2. /\ \A i, j \in queued : i = j
        /\ \A x, y \in inWork : x = y
        /\ \A m, n \in ready : m = n
    BY <2>1 DEF PortInv, RequestsApart, AnswersApart
  <2>3. /\ queued # {} => inWork = {} /\ ready = {}
        /\ inWork # {} => ready = {}
    BY <2>1 DEF PortInv, RequestsApart, ServedApart
  <2>4. /\ Cardinality(queued) = IF queued = {} THEN 0 ELSE 1
        /\ Cardinality(inWork) = IF inWork = {} THEN 0 ELSE 1
        /\ Cardinality(ready) = IF ready = {} THEN 0 ELSE 1
    BY ONLY <2>2, AtMostOne
  <2>5. Cardinality(queued) + Cardinality(inWork) + Cardinality(ready) <= 1
    <3> HIDE DEF queued, inWork, ready
    <3> QED
      BY ONLY <2>3, <2>4
  <2>6. /\ \A i \in queued : requests[i].path = waiting[c].path
        /\ \A s \in inWork : path[Main] = waiting[c].path
        /\ \A m \in ready : m.path = waiting[c].path
    BY <2>1 DEF PortInv, OwnFile
  <2>7. {requests[i].path : i \in queued} \cup {path[Main] : s \in inWork}
          \cup {m.path : m \in ready} \subseteq {waiting[c].path}
    BY <2>6
  <2> QED
    BY <2>5, <2>7 DEF UnderWay
<1>2. ServiceInv /\ PortInv /\ [ServiceNext]_allVars => PortInv'
  BY PortInvNext
<1> QED
  BY <1>1, <1>2, ServiceInvInit, ServiceInvNext, PortInvInit, PTL DEF ServiceSpec

-----------------------------------------------------------------------------
(* What clients were told, and what answers on their way will tell them, is*)
(* stored, or the scan thread has it to answer for.                        *)
PromiseInv ==
  /\ \A p \in promised : p \in Kept => Covered(p)
  /\ \A m \in answers :
       m.msg = MS_MEDIA_ERR_NONE /\ m.path \in Kept => Covered(m.path)

(* No step takes a kept file away but the scan thread, which answers for   *)
(* it: a kill in a full scan leaves what the scan had yet to come to       *)
(* skipped.                                                                *)
LEMMA PromisedStays ==
  ASSUME ServiceInv, [ServiceNext]_allVars
  PROVE  \A p \in Kept : Covered(p) => CoveredLater(p)
<1>1. CASE [Next]_vars
  BY <1>1, CoverStays DEF ServiceInv, ProtocolInv, StoredInv
<1>2. CASE Kill
  <2>1. db' = db /\ skipped \subseteq skipped'
    BY <1>2 DEF Kill
  <2>2. ASSUME NEW p \in Kept, Rescanned(p) PROVE CoveredLater(p)
    BY <1>2, <2>2 DEF Kill, Rescanned, Missed, CoveredLater, Stored
  <2> QED
    BY <2>1, <2>2 DEF Covered, CoveredLater, Stored
<1>3. CASE Start
  BY <1>3 DEF Start, Covered, CoveredLater, Rescanned, Stored, scanVars
<1> QED
  BY <1>1, <1>2, <1>3, ServiceRefines DEF ServiceInv, NetworkOK

LEMMA PromiseNext ==
  ASSUME ServiceInv, PortInv, PromiseInv, [ServiceNext]_allVars
  PROVE  PromiseInv'
<1>1. \A p \in Kept : Covered(p) => CoveredLater(p)
  BY PromisedStays
<1> USE DEF CoveredLater, Covered, Rescanned
<1>2. ASSUME promised' = promised, answers' \subseteq answers
      PROVE  PromiseInv'
  BY <1>1, <1>2 DEF PromiseInv
<1>3. ASSUME NEW c \in Clients, TakeAnswer(c)
      PROVE  PromiseInv'
  <2>1. PICK m \in answers :
          /\ m.port = waiting[c].port /\ answers' = answers \ {m}
          /\ promised' = IF m.msg = MS_MEDIA_ERR_NONE
                         THEN promised \cup {waiting[c].path} ELSE promised
    BY <1>3 DEF TakeAnswer
  <2>2. m.path = waiting[c].path
    BY <1>3, <2>1 DEF TakeAnswer, PortInv, OwnFile
  <2> QED
    BY <1>1, <2>1, <2>2 DEF PromiseInv
<1>4. ASSUME SendAnswer
      PROVE  PromiseInv'
  <2>1. pc[Main] = "send" /\ promised' = promised
    BY <1>4 DEF SendAnswer, SendReply, clientVars, Over
  <2>2. res[Main] \in Results /\ path[Main] \in Paths
    BY DEF ServiceInv, ProtocolInv, TypeOK
  <2>3. path[Main] \in Kept /\ SendMsg(res[Main]) = MS_MEDIA_ERR_NONE
          => Covered(path[Main])
    BY <2>1, <2>2, SendMsgOK DEF ServiceInv, StoredInv, StoredSoFar
  <2>4. \A m \in answers' : m \in answers
                            \/ (m.path = path[Main] /\ m.msg = SendMsg(res[Main]))
    BY <1>4 DEF SendAnswer
  <2> QED
    BY <1>1, <2>1, <2>3, <2>4 DEF PromiseInv
<1>5. ASSUME NEW c \in Clients,
             \/ \E list \in Lists : FilesRegister(c, list)
             \/ Refused(c) \/ SendRequest(c) \/ Timeout(c)
      PROVE  promised' = promised /\ answers' = answers
  BY <1>5 DEF FilesRegister, Refused, SendRequest, Timeout, networkVars
<1>6. ReceiveRequest \/ Kill \/ Start \/ Silent(Inner) \/ UNCHANGED allVars
        => promised' = promised /\ answers' = answers
  BY DEF ReceiveRequest, Kill, Start, Silent, allVars, clientVars, networkVars
<1> QED
  BY <1>2, <1>3, <1>4, <1>5, <1>6, ServiceSteps

(* A media file some call reported as registered is in a database from then*)
(* on, whatever is lost, repeated, given up or killed, until it is deleted;*)
(* but for a full scan that has yet to come to it, and for what a scan     *)
(* failed to store or validate or was cut off before.                      *)
THEOREM PromisesAreKept == ServiceSpec => []PromiseIsKept
<1>1. ServiceInit => PromiseInv
  BY DEF ServiceInit, PromiseInv
<1>2. ServiceInv /\ PortInv /\ PromiseInv /\ [ServiceNext]_allVars => PromiseInv'
  BY PromiseNext
<1>3. ServiceInv /\ PromiseInv => PromiseIsKept
  BY DEF ServiceInv, ClientsOK, PromiseInv, PromiseIsKept, Kept, Lasting, Covered,
     Stored
<1>4. ServiceInv /\ PortInv /\ [ServiceNext]_allVars => PortInv'
  BY PortInvNext
<1> QED
  BY <1>1, <1>2, <1>3, <1>4, ServiceInvInit, ServiceInvNext, PortInvInit, PTL
     DEF ServiceSpec
=============================================================================
