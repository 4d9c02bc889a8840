---------------------------- MODULE SingleFlight ----------------------------
(***************************************************************************)
(* What ms_register_file promises its callers, without locks, lists and    *)
(* queues: a file is worked on by one thread at a time, and a caller that  *)
(* may wait and finds its file being worked on gets the result of exactly  *)
(* that work. Registration implements this specification.                  *)
(***************************************************************************)
CONSTANTS
  Threads,   (* The threads that register files.                           *)
  Waiter,    (* The one of them that waits for another thread's result.    *)
  Paths,     (* Files.                                                     *)
  Results,   (* Results of a registration.                                 *)
  None       (* No file: not one of Paths.                                 *)

VARIABLES
  working,   (* working[t]: the file thread t registers.                   *)
  waiting,   (* The file whose result Waiter awaits.                       *)
  answer     (* {}, or {r} once the result r is there.                     *)

flight == <<working, waiting, answer>>

Init ==
  /\ working = [t \in Threads |-> None]
  /\ waiting = None
  /\ answer = {}

Begin(t, p) ==
  /\ working[t] = None
  /\ \A u \in Threads : working[u] # p
  /\ t = Waiter => waiting = None
  /\ working' = [working EXCEPT ![t] = p]
  /\ UNCHANGED <<waiting, answer>>

Join(p) ==
  /\ working[Waiter] = None
  /\ waiting = None
  /\ \E t \in Threads : working[t] = p
  /\ waiting' = p
  /\ UNCHANGED <<working, answer>>

Complete(t, r) ==
  /\ working[t] # None
  /\ working' = [working EXCEPT ![t] = None]
  /\ answer' = IF waiting = working[t] /\ answer = {} THEN {r} ELSE answer
  /\ UNCHANGED waiting

Collect ==
  /\ answer # {}
  /\ waiting' = None
  /\ answer' = {}
  /\ UNCHANGED working

Next ==
  \/ \E t \in Threads, p \in Paths : Begin(t, p)
  \/ \E p \in Paths : Join(p)
  \/ \E t \in Threads, r \in Results : Complete(t, r)
  \/ Collect

Spec == Init /\ [][Next]_flight

(* Work that was begun is completed, and a result that is there is taken.  *)
FairSpec ==
  /\ Spec
  /\ \A t \in Threads : WF_flight(\E r \in Results : Complete(t, r))
  /\ WF_flight(Collect)
=============================================================================
