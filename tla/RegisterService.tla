-------------------------- MODULE RegisterService --------------------------
(***************************************************************************)
(* The registration service as a client sees it: media_file_register and   *)
(* media_files_register (lib/media-util-register.c), the datagrams they    *)
(* exchange with ms_read_socket (common/media-server-socket.c), and behind *)
(* it the whole of Registration.                                           *)
(*                                                                         *)
(* A client opens a socket for every call, sends the path and waits ten    *)
(* seconds for the answer. The request is lost when the server is down,    *)
(* has no socket or has a full buffer, the answer when sendto fails or     *)
(* nobody has the port any more. A client that gives up does not close its *)
(* socket. The server may be killed and started again; its databases stay. *)
(***************************************************************************)
EXTENDS Registration, FiniteSets

CONSTANTS
  Clients,     (* Processes that use the library. They never exit.         *)
  Lists,       (* The paths one call goes through, see FilesRegister.      *)
  NULL,        (* The end of a media_list, which the loop visits too.      *)
  Away,        (* Stands for the request of a client not in recvfrom.      *)
  Ports,       (* The ports (and descriptors) sockets may get.             *)
  MaxQueued,   (* Requests the buffer of the server's socket takes.        *)
  MaxKills     (* Bound: how often the server is killed.                   *)

ASSUME ServiceAssumption ==
  /\ NULL \notin Paths
  /\ Lists \subseteq Seq(Paths \cup {NULL})
  /\ Ports \subseteq Nat \ {0}
  /\ MaxQueued \in Nat \ {0}
  /\ MaxKills \in Nat

(* Codes of lib/include/media-util-err.h.                                  *)
MS_MEDIA_ERR_NONE          == 0
MS_MEDIA_ERR_INVALID_MEDIA == -8
MS_MEDIA_ERR_INSERT_FAIL   == -9

VARIABLES
  todo,       (* The paths each client's call still has to register.       *)
  waiting,    (* The port and path of each client in recvfrom, or Away.    *)
  open,       (* Ports of the clients' open sockets.                       *)
  requests,   (* The receive buffer of the server's socket.                *)
  served,     (* client_addr of the request the main loop works on, or 0.  *)
  answers,    (* Answers in the receive buffers of the clients' sockets.   *)
  server,     (* "down", "bound", or "unbound": it runs without a socket.  *)
  kills,      (* How often the server was killed.                          *)
  promised    (* History: the files clients were told are registered.      *)

clientVars  == <<todo, waiting, open, promised>>
networkVars == <<requests, served, answers>>
serverVars  == <<server, kills>>
allVars     == <<vars, clientVars, networkVars, serverVars>>

Requests == [port : Ports, path : Paths]
Answers  == [port : Ports, path : Paths,
             msg : {MS_MEDIA_ERR_NONE, MS_MEDIA_ERR_INVALID_MEDIA,
                    MS_MEDIA_ERR_INSERT_FAIL}]

ServiceTypeOK ==
  /\ TypeOK
  /\ todo \in [Clients -> Seq(Paths \cup {NULL})]
  /\ waiting \in [Clients -> Requests \cup {Away}]
  /\ open \subseteq Ports
  /\ requests \in Seq(Requests) /\ Len(requests) <= MaxQueued
  /\ served \in Ports \cup {0}
  /\ answers \subseteq Answers
  /\ server \in {"down", "bound", "unbound"}
  /\ kills \in 0..MaxKills
  /\ promised \subseteq Paths

ServiceInit ==
  /\ Init
  /\ todo = [c \in Clients |-> <<>>]
  /\ waiting = [c \in Clients |-> Away]
  /\ open = {}
  /\ requests = <<>>
  /\ served = 0
  /\ answers = {}
  /\ server \in {"bound", "unbound"}
  /\ kills = 0
  /\ promised = {}

-----------------------------------------------------------------------------
(* A call of the library: media_file_register goes through one path,       *)
(* media_files_register through those of the list and the NULL behind them.*)
FilesRegister(c, list) ==
  /\ waiting[c] = Away /\ todo[c] = <<>>
  /\ todo' = [todo EXCEPT ![c] = list]
  /\ UNCHANGED <<vars, waiting, open, promised, networkVars, serverVars>>

(* One round of media_files_register ends; it drops the result.            *)
NextFile(c) == todo' = [todo EXCEPT ![c] = Tail(@)]

(* media_file_register returns before anything is sent: the path is no     *)
(* media path, the file cannot be opened, or there is no socket to be had. *)
(* When sendto fails the socket stays open.                                *)
Refused(c) ==
  /\ waiting[c] = Away /\ todo[c] # <<>>
  /\ \/ /\ Head(todo[c]) \in {NULL} \cup Deletable \/ open = Ports
        /\ UNCHANGED open
     \/ /\ Head(todo[c]) # NULL
        /\ \E q \in Ports \ open : open' = open \cup {q}
  /\ NextFile(c)
  /\ UNCHANGED <<vars, waiting, promised, networkVars, serverVars>>

(* What a datagram does to the server's buffer.                            *)
Sent(request) ==
  IF server = "bound" /\ Len(requests) < MaxQueued
  THEN Append(requests, request)
  ELSE requests

SendRequest(c) ==
  /\ waiting[c] = Away /\ todo[c] # <<>> /\ Head(todo[c]) # NULL
  /\ \E q \in Ports \ open :
       LET request == [port |-> q, path |-> Head(todo[c])]
       IN  /\ open' = open \cup {q}
           /\ waiting' = [waiting EXCEPT ![c] = request]
           /\ requests' = Sent(request)
  /\ UNCHANGED <<vars, todo, promised, served, answers, serverVars>>

(* recvfrom returns an answer; the socket is closed.                       *)
TakeAnswer(c) ==
  /\ waiting[c] # Away
  /\ \E m \in answers :
       /\ m.port = waiting[c].port
       /\ answers' = answers \ {m}
       /\ promised' = IF m.msg = MS_MEDIA_ERR_NONE
                      THEN promised \cup {waiting[c].path} ELSE promised
  /\ open' = open \ {waiting[c].port}
  /\ waiting' = [waiting EXCEPT ![c] = Away]
  /\ NextFile(c)
  /\ UNCHANGED <<vars, requests, served, serverVars>>

(* After ten seconds recvfrom fails with EWOULDBLOCK and the function      *)
(* returns at once, without close, and a mutant that closes the socket.    *)
ClosedAfterTimeout(q) == open \ {q}
OpenAfterTimeout(q) == open

Timeout(c) ==
  /\ waiting[c] # Away
  /\ open' = OpenAfterTimeout(waiting[c].port)
  /\ waiting' = [waiting EXCEPT ![c] = Away]
  /\ NextFile(c)
  /\ UNCHANGED <<vars, promised, networkVars, serverVars>>

-----------------------------------------------------------------------------
(* ms_read_socket, called by the main loop when the socket is readable.    *)
ReceiveRequest ==
  /\ server = "bound"
  /\ requests # <<>>
  /\ Receive(Head(requests).path)
  /\ served' = Head(requests).port
  /\ requests' = Tail(requests)
  /\ UNCHANGED <<clientVars, answers, serverVars>>

(* The answer for each result. A result it does not know is answered with  *)
(* success. One mutant forgets a result, one sends the server's own code.  *)
OwnCode(r) == r
SendMsgForgetful(r) ==
  IF r = MS_ERR_MIME_GET_FAIL THEN MS_MEDIA_ERR_INVALID_MEDIA
  ELSE MS_MEDIA_ERR_NONE
SendMsg(r) ==
  CASE r = MS_ERR_MIME_GET_FAIL -> MS_MEDIA_ERR_INVALID_MEDIA
    [] r = MS_ERR_DB_INSERT_RECORD_FAIL -> MS_MEDIA_ERR_INSERT_FAIL
    [] OTHER -> MS_MEDIA_ERR_NONE

(* sendto fails, or brings the answer to whoever has the port now.         *)
SendAnswer ==
  /\ SendReply
  /\ \/ UNCHANGED answers
     \/ /\ served \in open
        /\ answers' = answers \cup
             {[port |-> served, path |-> path[Main], msg |-> SendMsg(res[Main])]}
  /\ served' = 0
  /\ UNCHANGED <<clientVars, requests, serverVars>>

(* A step of the server's threads that neither receives nor sends.         *)
Silent(A) ==
  /\ server # "down"
  /\ A
  /\ UNCHANGED <<clientVars, networkVars, serverVars>>

(* The server is killed: what is in its memory and its socket is gone, the *)
(* databases and the DRM service keep what they have. A full scan is cut   *)
(* off: the files it had yet to come to are without their rows.            *)
Kill ==
  /\ server # "down" /\ kills < MaxKills
  /\ kills' = kills + 1
  /\ server' = "down"
  /\ requests' = <<>>
  /\ pc' = [t \in Threads |-> "idle"]
  /\ lib' = [t \in Threads |-> 1]
  /\ res' = [t \in Threads |-> MS_ERR_NONE]
  /\ queueMutex' = Nobody
  /\ regList' = [p \in Paths |-> 0]
  /\ socQueue' = FALSE
  /\ retQueue' = <<>>
  /\ ignore' = {}
  /\ scan' = "idle"
  /\ scanLib' = 1
  /\ due' = {}
  /\ skipped' = IF scan \in {"delete", "insert"} THEN skipped \cup Missed(due)
                ELSE skipped
  /\ served' = 0
  /\ UNCHANGED <<path, db, stale, drm, clientVars, answers>>

(* main: _db_clear invalidates the items of the storage, and it goes on    *)
(* when ms_prepare_socket fails.                                           *)
Start ==
  /\ server = "down"
  /\ server' \in {"bound", "unbound"}
  /\ \E L \in SUBSET Libs : Invalidate(L)
  /\ UNCHANGED <<pc, path, lib, res, queueMutex, lists, db, ignore, drm, scanVars>>
  /\ UNCHANGED <<clientVars, networkVars, kills>>

-----------------------------------------------------------------------------
ServiceNext ==
  \/ \E c \in Clients :
        \/ \E list \in Lists : FilesRegister(c, list)
        \/ Refused(c) \/ SendRequest(c) \/ TakeAnswer(c) \/ Timeout(c)
  \/ ReceiveRequest \/ SendAnswer \/ Kill \/ Start
  \/ \E p \in Paths : Silent(InotiRegister(p)) \/ Silent(InotiDelete(p))
  \/ \E t \in Threads : Silent(Register(t))
  \/ Silent(PopReply) \/ Silent(DeleteItem)
  \/ Silent(Scan)

ServiceSpec == ServiceInit /\ [][ServiceNext]_allVars

-----------------------------------------------------------------------------
(* Requests and answers for a port that are under way: in the server's     *)
(* buffer, in the hands of the main loop, or in the buffer of the socket.  *)
UnderWay(q) ==
  LET queued == {i \in DOMAIN requests : requests[i].port = q}
      inWork == {served} \cap {q}
      ready  == {m \in answers : m.port = q}
  IN  [number |-> Cardinality(queued) + Cardinality(inWork) + Cardinality(ready),
       paths  |-> {requests[i].path : i \in queued}
                    \cup {path[Main] : s \in inWork} \cup {m.path : m \in ready}]

(* A client that waits can only get the answer to its own call: one thing  *)
(* at most is under way for its port, and it is about its file. What keeps *)
(* the late answer to an earlier call away from it is that this call's     *)
(* socket was left open and so its port cannot be given out again.         *)
AnswerIsOwn ==
  \A c \in Clients : waiting[c] # Away =>
    LET on == UnderWay(waiting[c].port)
    IN  on.number <= 1 /\ on.paths \subseteq {waiting[c].path}

(* What a client was told stays true: a media file that some call reported *)
(* as registered is in a database, whatever was lost, repeated, given up   *)
(* or killed before or since, as long as the file is not deleted. Only the *)
(* scan thread takes it away: until a full scan in progress has come to    *)
(* the file, and when a scan failed to store or validate it, or was cut off*)
(* before it did, until it is registered anew.                             *)
PromiseIsKept ==
  \A p \in promised \ Deletable :
    Category[p] # {} =>
      (\E l \in Libs : p \in db[l]) \/ Rescanned(p) \/ p \in skipped
=============================================================================
