----------------------------- MODULE AppProofs -----------------------------
(***************************************************************************)
(* Theorems about Session and about App, which is built around it, for any *)
(* paths and any number of connects, listings, requests and jobs.          *)
(*                                                                         *)
(* First the session by itself.  That no wake-up is lost and that a        *)
(* CONNECTED session is alive between tasks are inductive as they stand.   *)
(* The count of the pending listings is not: after exit() has thrown the   *)
(* tasks away the count is too high for ever, and the listing that is      *)
(* under way must still not take it below zero.  CountInv adds that, and   *)
(* that nothing is pushed then.                                            *)
(*                                                                         *)
(* Then the program.  drain() is a task of the session here, so the        *)
(* variables the queue's own proof takes as its own (the drains posted,    *)
(* the drain about to be posted, the link) are read off the session.       *)
(* While the program runs, every step of it is a step of TransferQueue on  *)
(* what is read off, or leaves it alone, so the inductive invariant of     *)
(* TransferQueueProofs holds of it; DrainInv says beside it that drain()   *)
(* is running just when the session runs a drain task.  exit() ends that:  *)
(* it throws the queued drain away and leaves s_draining set.              *)
(***************************************************************************)
EXTENDS App, FiniteSetTheorems, TLAPS

(* The tasks of a kind in a queue of tasks, by their places. *)
OfKind(s, k) == {i \in 1..Len(s) : s[i].kind = k}

BeingPut == uiPc = "push" /\ uiTask.kind = "list"
Underway == wpc \in {"run", "publish"} /\ task.kind = "list"

(* Session's TypeOK but for the bounds that only counting gives. *)
TypeInv ==
    /\ tasks \in Seq(Task) /\ task \in Task /\ uiTask \in Task
    /\ listPending \in Int /\ listGeneration \in Nat
    /\ connects \in 0..MaxConnects

CountInv ==
    /\ running => listPending = Cardinality(OfKind(tasks, "list")) + (IF BeingPut THEN 1 ELSE 0)
                                                          + (IF Underway THEN 1 ELSE 0)
    /\ listPending >= IF Underway THEN 1 ELSE 0
    /\ listPending + listGeneration <= MaxLists
    /\ ~running => uiPc \in {"signal", "join", "done"}

----------------------------------------------------------------------------
(* How many tasks of a kind a queue holds. *)

LEMMA KindsAreFinite ==
  ASSUME NEW k, NEW s \in Seq(Task)
  PROVE  IsFiniteSet(OfKind(s, k)) /\ Cardinality(OfKind(s, k)) \in Nat
<1>1. Len(s) \in Nat
  OBVIOUS
<1>2. IsFiniteSet(1..Len(s))
  BY <1>1, FS_Interval
<1>3. OfKind(s, k) \in SUBSET (1..Len(s))
  BY DEF OfKind
<1>4. IsFiniteSet(OfKind(s, k))
  BY <1>2, <1>3, FS_Subset
<1>5. QED
  BY <1>4, FS_CardinalityType

LEMMA NoTaskNoKind ==
  ASSUME NEW k
  PROVE  Cardinality(OfKind(<< >>, k)) = 0
<1>1. OfKind(<< >>, k) = {}
  BY DEF OfKind
<1>2. QED
  BY <1>1, FS_EmptySet

LEMMA KindsOfAppend ==
  ASSUME NEW k, NEW s \in Seq(Task), NEW t \in Task
  PROVE  Cardinality(OfKind(Append(s, t), k)) =
            Cardinality(OfKind(s, k)) + (IF t.kind = k THEN 1 ELSE 0)
<1>0. /\ Len(s) \in Nat
      /\ Len(Append(s, t)) = Len(s) + 1
      /\ Append(s, t)[Len(s) + 1] = t
      /\ \A i \in 1..Len(s) : Append(s, t)[i] = s[i]
  OBVIOUS
<1>1. CASE t.kind = k
  <2>1. OfKind(Append(s, t), k) = OfKind(s, k) \cup {Len(s) + 1}
    BY <1>0, <1>1 DEF OfKind
  <2>2. Len(s) + 1 \notin OfKind(s, k)
    BY <1>0 DEF OfKind
  <2>3. QED
    BY <1>1, <2>1, <2>2, KindsAreFinite, FS_AddElement
<1>2. CASE t.kind # k
  <2>1. OfKind(Append(s, t), k) = OfKind(s, k)
    BY <1>0, <1>2 DEF OfKind
  <2>2. QED
    BY <1>2, <2>1, KindsAreFinite
<1>3. QED
  BY <1>1, <1>2

(* The rest of a queue: every place moves up by one. *)
LEMMA KindsOfTail ==
  ASSUME NEW k, NEW s \in Seq(Task), s # << >>
  PROVE  Cardinality(OfKind(s, k)) =
            Cardinality(OfKind(Tail(s), k)) + (IF Head(s).kind = k THEN 1 ELSE 0)
<1> DEFINE R == OfKind(s, k) \ {1}
           f == [i \in R |-> i - 1]
<1>0. /\ Len(s) \in Nat \ {0}
      /\ Tail(s) \in Seq(Task)
      /\ Len(Tail(s)) = Len(s) - 1
      /\ \A i \in 1..(Len(s) - 1) : Tail(s)[i] = s[i + 1]
      /\ Head(s) = s[1]
  OBVIOUS
<1>1. \A i \in R : i \in 2..Len(s) /\ s[i].kind = k
  BY <1>0 DEF OfKind
<1>2. f \in [R -> OfKind(Tail(s), k)]
  <2>1. SUFFICES ASSUME NEW i \in R PROVE i - 1 \in OfKind(Tail(s), k)
    OBVIOUS
  <2>2. i \in 2..Len(s) /\ s[i].kind = k /\ i - 1 \in 1..(Len(s) - 1)
    BY <1>0, <1>1
  <2>3. Tail(s)[i - 1] = s[i]
    BY <1>0, <2>2
  <2>4. QED
    BY <1>0, <2>2, <2>3 DEF OfKind
<1>3. \A i, j \in R : f[i] = f[j] => i = j
  BY <1>1
<1>4. \A j \in OfKind(Tail(s), k) : \E i \in R : f[i] = j
  <2>1. SUFFICES ASSUME NEW j \in OfKind(Tail(s), k) PROVE j + 1 \in R /\ f[j + 1] = j
    OBVIOUS
  <2>2. j \in 1..(Len(s) - 1) /\ Tail(s)[j].kind = k
    BY <1>0 DEF OfKind
  <2>3. j + 1 \in R
    BY <1>0, <2>2 DEF OfKind
  <2>4. QED
    BY <2>2, <2>3
<1>5. f \in Bijection(R, OfKind(Tail(s), k))
  BY <1>2, <1>3, <1>4 DEF Bijection, Injection, Surjection, IsInjective
<1>6. IsFiniteSet(OfKind(s, k)) /\ Cardinality(OfKind(s, k)) \in Nat
  BY KindsAreFinite
<1>7. /\ IsFiniteSet(R)
      /\ Cardinality(R) = IF 1 \in OfKind(s, k) THEN Cardinality(OfKind(s, k)) - 1
                                                ELSE Cardinality(OfKind(s, k))
  BY <1>6, FS_RemoveElement
<1>8. Cardinality(OfKind(Tail(s), k)) = Cardinality(R)
  BY <1>5, <1>7, FS_Bijection DEF ExistsBijection
<1>9. 1 \in OfKind(s, k) <=> Head(s).kind = k
  BY <1>0 DEF OfKind
<1>10. QED
  BY <1>6, <1>7, <1>8, <1>9

----------------------------------------------------------------------------
(* The types. *)

LEMMA TasksAreTasks ==
  /\ NoTask \in Task /\ DisconnectTask \in Task
  /\ \A n \in 0..MaxConnects : ConnectTask(n) \in Task
  /\ \A p \in Paths : ListTask(p) \in Task
<1>1. 0 \in 0..MaxConnects
  BY SessionAssumption
<1>2. QED
  BY <1>1 DEF Task, NoTask, DisconnectTask, ConnectTask, ListTask

LEMMA TypeHolds == Spec => []TypeInv
<1>1. Init => TypeInv
  BY TasksAreTasks, SessionAssumption DEF Init, TypeInv
<1>2. TypeInv /\ [Next]_vars => TypeInv'
  <2> SUFFICES ASSUME TypeInv, [Next]_vars PROVE TypeInv'
    OBVIOUS
  <2>1. CASE UNCHANGED vars
    BY <2>1 DEF TypeInv, vars
  <2>2. CASE Connect
    BY <2>2, TasksAreTasks, SessionAssumption DEF Connect, Call, TypeInv
  <2>3. CASE Disconnect
    BY <2>3, TasksAreTasks DEF Disconnect, Call, TypeInv, listState
  <2>4. ASSUME NEW p \in Paths, RequestList(p) PROVE TypeInv'
    BY <2>4, TasksAreTasks DEF RequestList, Call, CountList, TypeInv
  <2>5. CASE PostOther
    BY <2>5, TasksAreTasks DEF PostOther, Call, TypeInv, published, listState
  <2>6. CASE Push
    BY <2>6, TasksAreTasks DEF Push, TypeInv, published, listState
  <2>7. CASE Signal \/ Stop \/ Join
    <3>1. /\ UNCHANGED <<task, uiTask, listPending, listGeneration, connects>>
          /\ tasks' = tasks \/ tasks' = << >>
      BY <2>7 DEF Signal, Stop, Join, published, listState
    <3>2. << >> \in Seq(Task) /\ tasks \in Seq(Task)
      BY DEF TypeInv
    <3>3. QED
      BY <3>1, <3>2 DEF TypeInv
  <2>8. CASE TakeTask
    BY <2>8 DEF TakeTask, TypeInv, published, listState, ui
  <2>9. CASE WaitForWake \/ ClearWake \/ RunTask
    BY <2>9 DEF WaitForWake, ClearWake, RunTask, TypeInv, published, listState, ui
  <2>10. CASE Publish
    BY <2>10 DEF Publish, ListDone, TypeInv, listState, ui
  <2>11. CASE AfterTask
    BY <2>11 DEF AfterTask, TypeInv, ui
  <2>12. QED
    BY <2>1, <2>2, <2>3, <2>4, <2>5, <2>6, <2>7, <2>8, <2>9, <2>10, <2>11
    DEF Next, UI, FinishCall, Worker, Finished
<1>3. QED
  BY <1>1, <1>2, PTL DEF Spec

----------------------------------------------------------------------------
(* The wake-ups and the link. *)

(* A worker that sleeps with work to do is about to be woken: the worker   *)
(* waits only after it has seen an empty queue, and whoever fills the      *)
(* queue, or ends the thread, still has the signal to give.                *)
THEOREM NoWakeupIsLost == Spec => []NoLostWakeup
<1>1. Init => NoLostWakeup
  BY DEF Init, NoLostWakeup
<1>2. NoLostWakeup /\ [Next]_vars => NoLostWakeup'
  <2> SUFFICES ASSUME NoLostWakeup, [Next]_vars PROVE NoLostWakeup'
    OBVIOUS
  <2>1. CASE UNCHANGED vars
    BY <2>1 DEF NoLostWakeup, vars
  <2>2. CASE UI
    BY <2>2 DEF UI, Connect, Disconnect, RequestList, PostOther, Stop, AfterStop,
         Call, NoLostWakeup
  <2>3. CASE FinishCall
    BY <2>3 DEF FinishCall, Push, AfterPush, Signal, Join, NoLostWakeup
  <2>4. CASE Worker
    BY <2>4 DEF Worker, TakeTask, WaitForWake, ClearWake, AfterWake, RunTask,
         Publish, AfterTask,
                ui, NoLostWakeup
  <2>5. QED
    BY <2>1, <2>2, <2>3, <2>4 DEF Next, Finished
<1>3. QED
  BY <1>1, <1>2, PTL DEF Spec

(* Between two tasks a CONNECTED session has a live client: whichever task *)
(* broke the link, or published CONNECTED over a broken one, the check     *)
(* after it has made the session LOST.                                     *)
THEOREM ConnectedStaysAlive == Spec => []ConnectedIsAlive
<1>1. Init => ConnectedIsAlive
  BY DEF Init, ConnectedIsAlive
<1>2. ConnectedIsAlive /\ [Next]_vars => ConnectedIsAlive'
  <2> SUFFICES ASSUME ConnectedIsAlive, [Next]_vars PROVE ConnectedIsAlive'
    OBVIOUS
  <2>1. CASE UNCHANGED vars
    BY <2>1 DEF ConnectedIsAlive, alive, vars
  <2>2. CASE UI
    BY <2>2 DEF UI, Connect, Disconnect, RequestList, PostOther, Stop, Call,
         published, client,
                ConnectedIsAlive, alive
  <2>3. CASE FinishCall
    BY <2>3 DEF FinishCall, Push, Signal, Join, published, client,
         ConnectedIsAlive, alive
  <2>4. CASE TakeTask \/ WaitForWake \/ ClearWake \/ RunTask \/ Publish
    BY <2>4 DEF TakeTask, WaitForWake, ClearWake, AfterWake, RunTask, Publish,
         published, client,
                ConnectedIsAlive, alive
  <2>5. CASE AfterTask
    BY <2>5 DEF AfterTask, LinkIsLost, client, ConnectedIsAlive, alive
  <2>6. QED
    BY <2>1, <2>2, <2>3, <2>4, <2>5 DEF Next, Worker, Finished
<1>3. QED
  BY <1>1, <1>2, PTL DEF Spec

----------------------------------------------------------------------------
(* The count of the pending listings. *)

(* Calls other than requestList(). *)
LEMMA OtherCallsKeepCount ==
  ASSUME TypeInv, CountInv, Connect \/ Disconnect \/ PostOther
  PROVE  CountInv'
<1>1. /\ UNCHANGED <<running, tasks, wpc, task, listPending, listGeneration>>
      /\ uiPc = "idle" /\ uiPc' = "push" /\ uiTask'.kind # "list"
  BY DEF Connect, Disconnect, PostOther, Call, ConnectTask, DisconnectTask,
       NoTask, published, listState
<1>2. QED
  BY <1>1 DEF CountInv, BeingPut, Underway

LEMMA RequestCounts ==
  ASSUME TypeInv, CountInv, NEW p \in Paths, RequestList(p)
  PROVE  CountInv'
<1>1. /\ UNCHANGED <<running, tasks, wpc, task, listGeneration>>
      /\ uiPc = "idle" /\ uiPc' = "push" /\ uiTask'.kind = "list"
      /\ listPending' = listPending + 1
      /\ listGeneration + listPending < MaxLists
  BY DEF RequestList, Call, ListTask, CountList
<1>2. Cardinality(OfKind(tasks, "list")) \in Nat
  BY KindsAreFinite DEF TypeInv
<1>3. QED
  BY <1>1, <1>2, SessionAssumption DEF CountInv, BeingPut, Underway, TypeInv

LEMMA PushKeepsCount ==
  ASSUME TypeInv, CountInv, Push
  PROVE  CountInv'
<1>1. /\ UNCHANGED <<running, wpc, task, listPending, listGeneration>>
      /\ uiPc = "push" /\ uiPc' = "signal" /\ tasks' = Append(tasks, uiTask)
  BY DEF Push, AfterPush, published, listState
<1>2. Cardinality(OfKind(tasks', "list")) =
         Cardinality(OfKind(tasks, "list")) + (IF BeingPut THEN 1 ELSE 0)
  BY <1>1, KindsOfAppend DEF TypeInv, BeingPut
<1>3. Cardinality(OfKind(tasks, "list")) \in Nat
  BY KindsAreFinite DEF TypeInv
<1>4. QED
  BY <1>1, <1>2, <1>3 DEF CountInv, BeingPut, Underway, TypeInv

(* exit() and what is left of a call. *)
LEMMA EndsOfCallsKeepCount ==
  ASSUME TypeInv, CountInv, Signal \/ Stop \/ Join
  PROVE  CountInv'
<1>1. /\ UNCHANGED <<wpc, task, listPending, listGeneration>>
      /\ running' => running /\ UNCHANGED tasks
      /\ uiPc # "push" /\ uiPc' # "push"
      /\ ~running' => uiPc' \in {"signal", "join", "done"}
  BY DEF Signal, Stop, AfterStop, Join, CountInv, published, listState
<1>2. QED
  BY <1>1 DEF CountInv, BeingPut, Underway

LEMMA TakeTaskKeepsCount ==
  ASSUME TypeInv, CountInv, TakeTask
  PROVE  CountInv'
<1>1. UNCHANGED <<running, uiPc, uiTask, listPending, listGeneration>> /\ wpc = "lock"
  BY DEF TakeTask, ui, published, listState
<1>2. CASE tasks # << >> /\ running
  <2>1. tasks' = Tail(tasks) /\ task' = Head(tasks) /\ wpc' = "run"
    BY <1>2 DEF TakeTask
  <2>2. Cardinality(OfKind(tasks, "list")) =
           Cardinality(OfKind(tasks', "list")) + (IF task'.kind = "list" THEN 1 ELSE 0)
    BY <1>2, <2>1, KindsOfTail DEF TypeInv
  <2>3. Tail(tasks) \in Seq(Task)
    BY <1>2 DEF TypeInv
  <2>4. Cardinality(OfKind(tasks, "list")) \in Nat /\ Cardinality(OfKind(tasks', "list")) \in Nat
    BY <2>1, <2>3, KindsAreFinite DEF TypeInv
  <2>5. (IF BeingPut' THEN 1 ELSE 0) = IF BeingPut THEN 1 ELSE 0
    BY <1>1 DEF BeingPut
  <2>6. (IF Underway THEN 1 ELSE 0) = 0
    BY <1>1 DEF Underway
  <2>7. (IF Underway' THEN 1 ELSE 0) = IF task'.kind = "list" THEN 1 ELSE 0
    BY <2>1 DEF Underway
  <2>8. /\ listPending = Cardinality(OfKind(tasks, "list")) + IF BeingPut THEN 1 ELSE 0
        /\ listPending + listGeneration <= MaxLists
    BY <1>2, <2>4, <2>6 DEF CountInv
  <2>9. /\ listPending' = Cardinality(OfKind(tasks', "list")) + (IF BeingPut' THEN 1 ELSE 0)
                                                     + (IF Underway' THEN 1 ELSE 0)
        /\ listPending' >= IF Underway' THEN 1 ELSE 0
    BY <1>1, <2>2, <2>4, <2>5, <2>7, <2>8
  <2>10. QED
    BY <1>1, <1>2, <2>8, <2>9 DEF CountInv
<1>3. CASE tasks = << >> \/ ~running
  <2>1. tasks' = tasks /\ wpc' \in {"exited", "wait"}
    BY <1>3 DEF TakeTask
  <2>2. QED
    BY <1>1, <2>1 DEF CountInv, BeingPut, Underway
<1>4. QED
  BY <1>2, <1>3

(* The listing that is under way is published, and is pending no more. *)
LEMMA PublishKeepsCount ==
  ASSUME TypeInv, CountInv, Publish
  PROVE  CountInv'
<1>1. UNCHANGED <<running, tasks, uiPc, uiTask, task>> /\ wpc = "publish" /\ wpc' = "after"
  BY DEF Publish, ui
<1>2. Cardinality(OfKind(tasks, "list")) \in Nat
  BY KindsAreFinite DEF TypeInv
<1>3. CASE task.kind = "list"
  <2>1. listPending' = listPending - 1 /\ listGeneration' = listGeneration + 1
    BY <1>3 DEF Publish, ListDone
  <2>2. QED
    BY <1>1, <1>2, <1>3, <2>1, SessionAssumption DEF CountInv, BeingPut, Underway, TypeInv
<1>4. CASE task.kind # "list"
  <2>1. UNCHANGED <<listPending, listGeneration>>
    BY <1>4 DEF Publish, listState
  <2>2. QED
    BY <1>1, <1>4, <2>1 DEF CountInv, BeingPut, Underway
<1>5. QED
  BY <1>3, <1>4

LEMMA OtherStepsKeepCount ==
  ASSUME TypeInv, CountInv, WaitForWake \/ ClearWake \/ RunTask \/ AfterTask
  PROVE  CountInv'
<1>1. UNCHANGED <<running, tasks, uiPc, uiTask, task, listPending, listGeneration>>
  BY DEF WaitForWake, ClearWake, RunTask, AfterTask, ui, published, listState
<1>2. Underway' = Underway
  BY DEF WaitForWake, ClearWake, AfterWake, RunTask, AfterTask, Underway, TypeInv
<1>3. QED
  BY <1>1, <1>2 DEF CountInv, BeingPut

LEMMA CountHolds == Spec => []CountInv
<1>1. Init => CountInv
  BY NoTaskNoKind, SessionAssumption DEF Init, CountInv, BeingPut, Underway
<1>2. TypeInv /\ CountInv /\ [Next]_vars => CountInv'
  <2> SUFFICES ASSUME TypeInv, CountInv, [Next]_vars PROVE CountInv'
    OBVIOUS
  <2>1. CASE UNCHANGED vars
    BY <2>1 DEF CountInv, BeingPut, Underway, vars
  <2>2. CASE UI
    BY <2>2, OtherCallsKeepCount, RequestCounts, EndsOfCallsKeepCount DEF UI
  <2>3. CASE FinishCall
    BY <2>3, PushKeepsCount, EndsOfCallsKeepCount DEF FinishCall
  <2>4. CASE Worker
    BY <2>4, TakeTaskKeepsCount, PublishKeepsCount, OtherStepsKeepCount DEF Worker
  <2>5. QED
    BY <2>1, <2>2, <2>3, <2>4 DEF Next, Finished
<1>3. QED
  BY <1>1, <1>2, TypeHolds, PTL DEF Spec

(* s_listPending is the number of listings that were asked for and not     *)
(* published yet, wherever they are: with the UI thread on the way to the  *)
(* queue, in the queue or with the worker.                                 *)
THEOREM PendingListsAreCounted == Spec => []ListPendingCounts
<1>1. CountInv => ListPendingCounts
  BY DEF CountInv, ListPendingCounts, BeingPut, Underway, OfKind
<1>2. QED
  BY <1>1, CountHolds, PTL

----------------------------------------------------------------------------
(* The program.  What the queue's proof says is said of QP. *)

QP == INSTANCE TransferQueueProofs WITH uiPc <- posting

TaskInv ==
    /\ tasks \in Seq(Task) /\ task \in Task /\ uiTask \in Task
    /\ connects \in 0..MaxConnects
    /\ todo \in Seq(Calls)

DrainInv ==
    running => /\ QP!IInv
               /\ InDrain <=> pc # "idle"

(* The lists of the queue keep their types after exit() too. *)
ListInv ==
    /\ jobs \in [DOMAIN jobs -> QP!Job]
    /\ requests \in Seq(QP!Request) /\ request \in QP!Request
    /\ submitted \in 0..MaxRequests

(* The queue is held while the user is asked, and nothing is about to let  *)
(* it go.                                                                  *)
HeldInv ==
    prompt = "cancelPending" => paused /\ \A k \in 1..Len(todo) : todo[k] # "resume"

----------------------------------------------------------------------------
(* The actions of the queue are those its own proof is about. *)

LEMMA SameQueue ==
  /\ Q!Init => QP!Init
  /\ \A d \in Directions : Q!Enqueue(d) => QP!Enqueue(d)
  /\ Q!Pause => QP!Pause
  /\ Q!Resume => QP!Resume
  /\ \A i \in DOMAIN jobs : Q!Cancel(i) => QP!Cancel(i)
  /\ Q!CancelPending => QP!CancelPending
  /\ Q!CancelAll => QP!CancelAll
  /\ Q!BeginDrain => QP!BeginDrain
  /\ Q!LinkDrops => QP!LinkDrops
<1>1. Q!Init => QP!Init
  BY DEF Q!Init, QP!Init, Q!NoRequest, QP!NoRequest
<1>2. ASSUME NEW d \in Directions, Q!Enqueue(d) PROVE QP!Enqueue(d)
  BY <1>2 DEF Q!Enqueue, QP!Enqueue, Q!StartIf, QP!StartIf, Q!locals, QP!locals
<1>3. Q!Pause => QP!Pause
  BY DEF Q!Pause, QP!Pause, Q!locals, QP!locals, Q!history, QP!history
<1>4. Q!Resume => QP!Resume
  BY DEF Q!Resume, QP!Resume, Q!StartIf, QP!StartIf, Q!HaveWork, QP!HaveWork,
         Q!WithStatus, QP!WithStatus, Q!locals, QP!locals, Q!history, QP!history
<1>5. ASSUME NEW i \in DOMAIN jobs, Q!Cancel(i) PROVE QP!Cancel(i)
  BY <1>5 DEF Q!Cancel, QP!Cancel, Q!SetStatus, QP!SetStatus, Q!locals, QP!locals
<1>6. Q!CancelPending => QP!CancelPending
  BY DEF Q!CancelPending, QP!CancelPending, Q!PendingCancelled, QP!PendingCancelled,
         Q!WithStatus, QP!WithStatus, Q!Unwalked, QP!Unwalked, Q!locals, QP!locals
<1>7. Q!CancelAll => QP!CancelAll
  BY DEF Q!CancelAll, QP!CancelAll, Q!PendingCancelled, QP!PendingCancelled,
         Q!WithStatus, QP!WithStatus, Q!Unwalked, QP!Unwalked, Q!locals, QP!locals
<1>8. Q!BeginDrain => QP!BeginDrain
  BY DEF Q!BeginDrain, QP!BeginDrain, Q!shared, QP!shared, Q!history, QP!history
<1>9. Q!LinkDrops => QP!LinkDrops
  BY DEF Q!LinkDrops, QP!LinkDrops, Q!shared, QP!shared, Q!locals, QP!locals,
         Q!history, QP!history
<1>10. QED
  BY <1>1, <1>2, <1>3, <1>4, <1>5, <1>6, <1>7, <1>8, <1>9

LEMMA SameDrain == Q!Drain => QP!Drain
<1>1. Q!Pick => QP!Pick
  BY DEF Q!Pick, QP!Pick, Q!Held, QP!Held, Q!ReturnFromDrain, QP!ReturnFromDrain,
         Q!IsNext, QP!IsNext, Q!WithStatus, QP!WithStatus, Q!SetStatus, QP!SetStatus,
         Q!CancelConsumed, QP!CancelConsumed, Q!NoJobWaits, QP!NoJobWaits, Q!history, QP!history
<1>2. Q!Pop => QP!Pop
  BY DEF Q!Pop, QP!Pop, Q!ReturnFromDrain, QP!ReturnFromDrain, Q!history, QP!history
<1>3. Q!WalkFails => QP!WalkFails
  BY DEF Q!WalkFails, QP!WalkFails, Q!history, QP!history
<1>4. ASSUME NEW n \in 0..MaxWalk, Q!WalkEnds(n) PROVE QP!WalkEnds(n)
  BY <1>4 DEF Q!WalkEnds, QP!WalkEnds, Q!Reachable, QP!Reachable, Q!Appended, QP!Appended,
              Q!history, QP!history
<1>5. Q!FailFast => QP!FailFast
  BY DEF Q!FailFast, QP!FailFast, Q!Reachable, QP!Reachable, Q!SetStatus, QP!SetStatus,
         Q!CancelConsumed, QP!CancelConsumed, Q!history, QP!history
<1>6. Q!StartJob => QP!StartJob
  BY DEF Q!StartJob, QP!StartJob, Q!Reachable, QP!Reachable, Q!shared, QP!shared,
         Q!history, QP!history
<1>7. ASSUME NEW ok \in BOOLEAN, Q!JobEnds(ok) PROVE QP!JobEnds(ok)
  BY <1>7 DEF Q!JobEnds, QP!JobEnds, Q!SetStatus, QP!SetStatus,
              Q!CancelConsumed, QP!CancelConsumed, Q!history, QP!history
<1>8. QED
  BY <1>1, <1>2, <1>3, <1>4, <1>5, <1>6, <1>7, SameQueue DEF Q!Drain, QP!Drain

----------------------------------------------------------------------------
(* The drains among the tasks of the session. *)

LEMMA PostedCounts ==
  posted = Cardinality(OfKind(tasks, "other"))
  BY DEF posted, OfKind

(* A task that is pushed is a drain posted, or leaves the queue alone. *)
LEMMA PushPosts ==
  ASSUME TaskInv, Push, UNCHANGED queueVars
  PROVE  QP!Next \/ UNCHANGED QP!vars
<1>0. posting' = "idle" /\ UNCHANGED alive /\ uiPc = "push"
  BY DEF Push, AfterPush, client, posting, alive
<1>1. posted' = posted + (IF uiTask.kind = "other" THEN 1 ELSE 0)
  <2>1. tasks' = Append(tasks, uiTask)
    BY DEF Push
  <2>2. posted' = Cardinality(OfKind(Append(tasks, uiTask), "other"))
    BY <2>1 DEF posted, OfKind
  <2>3. QED
    BY <2>2, AppAssumption, SessionAssumption, PostedCounts, KindsOfAppend DEF TaskInv
<1>2. posted \in Nat
  BY AppAssumption, SessionAssumption, PostedCounts, KindsAreFinite DEF TaskInv
<1>3. CASE uiTask.kind = "other"
  <2>1. QP!PostDrain
    BY <1>0, <1>1, <1>3 DEF QP!PostDrain, QP!shared, QP!locals, QP!history, queueVars, posting
  <2>2. QED
    BY <2>1 DEF QP!Next, QP!UI
<1>4. CASE uiTask.kind # "other"
  BY <1>0, <1>1, <1>2, <1>4 DEF QP!vars, queueVars, posting
<1>5. QED
  BY <1>3, <1>4

(* A task that is taken and is no drain leaves the posted drains alone. *)
LEMMA TakingOthers ==
  ASSUME TaskInv, tasks # << >>, Head(tasks).kind # "other", tasks' = Tail(tasks)
  PROVE  posted' = posted
<1>1. posted' = Cardinality(OfKind(Tail(tasks), "other"))
  BY DEF posted, OfKind
<1>2. Cardinality(OfKind(Tail(tasks), "other")) \in Nat
  <2>1. Tail(tasks) \in Seq(Task)
    BY DEF TaskInv
  <2>2. QED
    BY <2>1, AppAssumption, SessionAssumption, KindsAreFinite
<1>3. QED
  BY <1>1, <1>2, AppAssumption, SessionAssumption, PostedCounts, KindsOfTail DEF TaskInv

----------------------------------------------------------------------------
(* The calls of the session. *)

(* What a call that posts no drain changes, the queue does not see. *)
LEMMA CallsAside ==
  ASSUME Connect \/ Disconnect, UNCHANGED queueVars
  PROVE  UNCHANGED QP!vars /\ UNCHANGED <<running, wpc, task, tasks>>
<1>1. UNCHANGED <<tasks, server, running, wpc, task>> /\ uiPc = "idle" /\ uiTask'.kind # "other"
  BY DEF Connect, Disconnect, Call, ConnectTask, DisconnectTask, client
<1>2. UNCHANGED <<posted, alive, posting>>
  BY <1>1 DEF posted, alive, posting
<1>3. QED
  BY <1>1, <1>2 DEF QP!vars, queueVars

(* The calls that are left to make are among those MakeCall knows. *)
LEMMA CallsMade ==
  ASSUME TaskInv, NextCall
  PROVE  /\ Head(todo) \in Calls /\ todo' = Tail(todo) /\ todo # << >>
         /\ \/ Connect /\ UNCHANGED queueVars
            \/ Disconnect /\ UNCHANGED queueVars
            \/ Stop /\ UNCHANGED queueVars
            \/ UNCHANGED <<sessionVars, queueVars>>
            \/ Head(todo) = "resume" /\ (PostOther \/ UNCHANGED sessionVars) /\ Q!Resume
            \/ UNCHANGED sessionVars /\ \E i \in DOMAIN jobs : Q!Cancel(i)
            \/ UNCHANGED sessionVars /\ (Q!CancelPending \/ Q!CancelAll)
<1> DEFINE c == Head(todo)
<1>1. c \in Calls /\ todo' = Tail(todo) /\ todo # << >> /\ MakeCall(c)
  BY DEF TaskInv, NextCall
<1>2. CASE c = "connect"
  BY <1>1, <1>2 DEF MakeCall
<1>3. CASE c = "disconnect"
  BY <1>1, <1>3 DEF MakeCall, Disconnects
<1>4. CASE c = "resume"
  BY <1>1, <1>4 DEF MakeCall
<1>5. CASE c = "cancel"
  <2>1. UNCHANGED sessionVars /\ IF askedId \in Q!Unfinished
                                THEN Q!Cancel(askedId) ELSE UNCHANGED queueVars
    BY <1>1, <1>5 DEF MakeCall
  <2>2. Q!Unfinished \subseteq DOMAIN jobs
    BY DEF Q!Unfinished, Q!WithStatus
  <2>3. QED
    BY <1>1, <2>1, <2>2
<1>6. CASE c = "cancelPending"
  BY <1>1, <1>6 DEF MakeCall
<1>7. CASE c = "cancelAll"
  BY <1>1, <1>7 DEF MakeCall
<1>8. CASE c = "exit"
  BY <1>1, <1>8 DEF MakeCall
<1>9. QED
  BY <1>1, <1>2, <1>3, <1>4, <1>5, <1>6, <1>7, <1>8 DEF Calls

LEMMA CallsKeepTasks ==
  ASSUME TaskInv, Connect \/ Disconnect \/ PostOther
  PROVE  /\ tasks' \in Seq(Task) /\ task' \in Task /\ uiTask' \in Task
         /\ connects' \in 0..MaxConnects
<1>0. 0 \in 0..MaxConnects /\ MaxConnects \in Nat
  BY AppAssumption, SessionAssumption
<1>1. NoTask \in Task /\ DisconnectTask \in Task
      /\ \A n \in 0..MaxConnects : ConnectTask(n) \in Task
  BY <1>0 DEF Task, NoTask, DisconnectTask, ConnectTask, NoPath
<1>2. CASE Connect
  BY <1>0, <1>1, <1>2 DEF Connect, Call, TaskInv
<1>3. CASE Disconnect \/ PostOther
  BY <1>1, <1>3 DEF Disconnect, PostOther, Call, TaskInv
<1>4. QED
  BY <1>2, <1>3

LEMMA DecideKeepsTasks ==
  ASSUME TaskInv, NEW calls \in Seq(Calls), Decide(calls)
  PROVE  TaskInv'
  BY DEF Decide, sessionVars, TaskInv

LEMMA TasksKeepType ==
  ASSUME TaskInv, [AppNext]_allVars
  PROVE  TaskInv'
<1>1. CASE UNCHANGED <<sessionVars, todo>>
  BY <1>1 DEF sessionVars, TaskInv
<1>2. CASE Looks
  <2>1. CASE LostSeen
    <3>1. <<"cancelAll", "disconnect">> \in Seq(Calls)
      BY DEF Calls
    <3>2. QED
      BY <2>1, <3>1, DecideKeepsTasks DEF LostSeen
  <2>2. \A s \in SameFrame : s \in Seq(Calls) /\ <<"disconnect">> \o s \in Seq(Calls)
    <3>1. SUFFICES ASSUME NEW s \in SameFrame
                   PROVE  s \in Seq(Calls) /\ <<"disconnect">> \in Seq(Calls)
      OBVIOUS
    <3>2. << >> \in Seq(Calls) /\ <<"connect">> \in Seq(Calls) /\ <<"disconnect">> \in Seq(Calls)
      BY DEF Calls
    <3>3. QED
      BY <3>2 DEF SameFrame
  <2>3. CASE PollConnected \/ PollFailed
    BY <2>2, <2>3, DecideKeepsTasks DEF PollConnected, PollFailed
  <2>4. QED
    BY <1>2, <2>1, <2>3 DEF Looks
<1>3. CASE Keys
  <2>1. CASE PressConnect \/ PressAbort
    <3>1. <<"connect">> \in Seq(Calls) /\ <<"disconnect">> \in Seq(Calls)
      BY DEF Calls
    <3>2. QED
      BY <2>1, <3>1, DecideKeepsTasks DEF PressConnect, PressAbort
  <2>2. ASSUME NEW d \in Directions, PressTransfer(d) PROVE TaskInv'
    <3>1. CASE PostOther
      BY <2>2, <3>1, CallsKeepTasks DEF PressTransfer, TaskInv
    <3>2. QED
      BY <1>1, <2>2, <3>1 DEF PressTransfer
  <2>3. ASSUME NEW i \in DOMAIN jobs, PressCancelOne(i) PROVE TaskInv'
    BY <1>1, <2>3 DEF PressCancelOne
  <2>4. CASE PressCancelPending \/ PressMenu
    BY <1>1, <2>4 DEF PressCancelPending, HoldAndAsk, PressMenu
  <2>5. AtExit \in Seq(Calls)
    BY DEF AtExit, Calls
  <2>6. ASSUME NEW yes \in BOOLEAN, Answer(yes) PROVE TaskInv'
    <3>1. /\ << >> \in Seq(Calls) /\ <<"cancel">> \in Seq(Calls) /\ <<"resume">> \in Seq(Calls)
          /\ <<"cancelPending", "resume">> \in Seq(Calls) /\ <<"disconnect">> \in Seq(Calls)
      BY DEF Calls
    <3>2. CallsOf(prompt, yes) \in Seq(Calls)
      BY <2>5, <3>1 DEF CallsOf
    <3>3. QED
      BY <2>6, <3>2, DecideKeepsTasks DEF Answer
  <2>7. CASE LoopEnds
    BY <2>5, <2>7, DecideKeepsTasks DEF LoopEnds
  <2>8. QED
    BY <1>3, <2>1, <2>2, <2>3, <2>4, <2>6, <2>7 DEF Keys
<1>4. CASE NextCall
  <2>1. todo' \in Seq(Calls)
    BY <1>4, CallsMade DEF TaskInv
  <2>2. CASE Connect \/ Disconnect \/ PostOther
    BY <2>1, <2>2, CallsKeepTasks DEF TaskInv
  <2>3. CASE Stop
    <3>1. tasks' = << >> /\ UNCHANGED <<task, uiTask, connects>>
      BY <2>3 DEF Stop
    <3>2. QED
      BY <2>1, <3>1 DEF TaskInv
  <2>4. CASE UNCHANGED sessionVars
    BY <2>1, <2>4 DEF sessionVars, TaskInv
  <2>5. QED
    BY <1>4, <2>2, <2>3, <2>4, CallsMade
<1>5. CASE FinishPost
  <2>0. NoTask \in Task /\ UNCHANGED todo
    BY <1>5, AppAssumption, SessionAssumption DEF Task, NoTask, NoPath, FinishPost, appVars
  <2>1. CASE Push
    BY <2>0, <2>1 DEF Push, TaskInv
  <2>2. CASE Signal \/ Join
    BY <2>0, <2>2 DEF Signal, Join, TaskInv
  <2>3. QED
    BY <1>5, <2>1, <2>2 DEF FinishPost, FinishCall
<1>6. CASE TakeNext
  BY <1>6 DEF TakeNext, TakeTask, ui, appVars, TaskInv
<1>7. CASE RunOther
  BY <1>7 DEF RunOther, WaitForWake, ClearWake, RunTask, Publish, AfterTask, ui,
       appVars,
              TaskInv
<1>8. CASE StepDrain \/ LinkDrops
  BY <1>8 DEF StepDrain, LinkDrops, appVars, TaskInv
<1>9. QED
  BY <1>1, <1>2, <1>3, <1>4, <1>5, <1>6, <1>7, <1>8 DEF AppNext, NetworkWorker, Ended, allVars, appVars

----------------------------------------------------------------------------
(* While the program runs, what it does to the queue is what TransferQueue *)
(* does.                                                                   *)

(* What the queue does not see. *)
LEMMA Unseen ==
  ASSUME UNCHANGED queueVars
  PROVE  /\ UNCHANGED sessionVars => UNCHANGED QP!vars
         /\ UNCHANGED <<posted, alive, posting>> => UNCHANGED QP!vars
<1>1. UNCHANGED sessionVars => UNCHANGED <<posted, alive, posting>>
  BY DEF sessionVars, posted, alive, posting
<1>2. QED
  BY <1>1 DEF QP!vars, queueVars

LEMMA LooksAside ==
  ASSUME Looks
  PROVE  UNCHANGED <<sessionVars, queueVars>>
  BY DEF Looks, LostSeen, PollConnected, PollFailed, Decide

LEMMA KeysOnQueue ==
  ASSUME Keys
  PROVE  /\ [QP!Next]_(QP!vars)
         /\ UNCHANGED <<running, wpc, task, pc>>
         /\ PostOther \/ UNCHANGED sessionVars
<1>1. CASE PressConnect \/ PressAbort \/ PressMenu \/ LoopEnds \/ \E yes \in BOOLEAN : Answer(yes)
  <2>1. UNCHANGED <<sessionVars, queueVars>>
    BY <1>1 DEF PressConnect, PressAbort, PressMenu, LoopEnds, Answer, Decide
  <2>2. QED
    BY <2>1, Unseen DEF sessionVars, queueVars
<1>2. ASSUME NEW d \in Directions, PressTransfer(d)
      PROVE  /\ QP!Next /\ UNCHANGED <<running, wpc, task, pc>>
             /\ PostOther \/ UNCHANGED sessionVars
  <2>1. QP!Enqueue(d) /\ UNCHANGED pc
    BY <1>2, SameQueue DEF PressTransfer, Q!Enqueue, Q!locals
  <2>2. UNCHANGED <<running, wpc, task>> /\ (PostOther \/ UNCHANGED sessionVars)
    BY <1>2 DEF PressTransfer, PostOther, sessionVars
  <2>3. QED
    BY <2>1, <2>2 DEF QP!Next, QP!UI
<1>3. ASSUME NEW i \in DOMAIN jobs, PressCancelOne(i)
      PROVE  UNCHANGED QP!vars /\ UNCHANGED <<running, wpc, task, pc>> /\ UNCHANGED sessionVars
  BY <1>3, Unseen DEF PressCancelOne, sessionVars, queueVars
<1>4. CASE PressCancelPending
  <2>1. QP!Pause /\ UNCHANGED pc /\ UNCHANGED sessionVars
    BY <1>4, SameQueue DEF PressCancelPending, HoldAndAsk, Q!Pause, Q!locals
  <2>2. QED
    BY <2>1 DEF QP!Next, QP!UI, sessionVars
<1>5. QED
  BY <1>1, <1>2, <1>3, <1>4 DEF Keys

LEMMA CallOnQueue ==
  ASSUME TaskInv, NextCall, ~Stop
  PROVE  [QP!Next]_(QP!vars) /\ UNCHANGED <<wpc, task, pc>>
<1>1. CASE (Connect \/ Disconnect) /\ UNCHANGED queueVars
  BY <1>1, CallsAside DEF queueVars
<1>2. CASE UNCHANGED <<sessionVars, queueVars>>
  BY <1>2, Unseen DEF sessionVars, queueVars
<1>3. CASE (PostOther \/ UNCHANGED sessionVars) /\ Q!Resume
  <2>1. QP!Resume /\ UNCHANGED pc
    BY <1>3, SameQueue DEF Q!Resume, Q!locals
  <2>2. UNCHANGED <<wpc, task>>
    BY <1>3 DEF PostOther, sessionVars
  <2>3. QED
    BY <2>1, <2>2 DEF QP!Next, QP!UI
<1>4. CASE UNCHANGED sessionVars /\ \E i \in DOMAIN jobs : Q!Cancel(i)
  <2>1. \E i \in DOMAIN jobs : QP!Cancel(i) /\ UNCHANGED pc
    BY <1>4, SameQueue DEF Q!Cancel, Q!locals
  <2>2. QED
    BY <1>4, <2>1 DEF QP!Next, QP!UI, sessionVars
<1>5. CASE UNCHANGED sessionVars /\ (Q!CancelPending \/ Q!CancelAll)
  <2>1. (QP!CancelPending \/ QP!CancelAll) /\ UNCHANGED pc
    BY <1>5, SameQueue DEF Q!CancelPending, Q!CancelAll, Q!locals
  <2>2. QED
    BY <1>5, <2>1 DEF QP!Next, QP!UI, sessionVars
<1>6. QED
  BY <1>1, <1>2, <1>3, <1>4, <1>5, CallsMade

LEMMA FinishOnQueue ==
  ASSUME TaskInv, FinishPost
  PROVE  [QP!Next]_(QP!vars) /\ UNCHANGED <<running, wpc, task, pc>>
<1>1. UNCHANGED queueVars /\ UNCHANGED pc /\ (Push \/ Signal \/ Join)
  BY DEF FinishPost, FinishCall, queueVars
<1>2. UNCHANGED <<running, wpc, task>>
  BY <1>1 DEF Push, Signal, Join
<1>3. CASE Push
  BY <1>1, <1>2, <1>3, PushPosts
<1>4. CASE Signal \/ Join
  <2>1. UNCHANGED <<tasks, server>> /\ uiPc # "push" /\ uiPc' # "push"
    BY <1>4 DEF Signal, Join, client
  <2>2. UNCHANGED <<posted, alive, posting>>
    BY <2>1 DEF posted, alive, posting
  <2>3. QED
    BY <1>1, <1>2, <2>2, Unseen
<1>5. QED
  BY <1>1, <1>3, <1>4

LEMMA TakingOnQueue ==
  ASSUME TaskInv, TakeNext, running, InDrain <=> pc # "idle"
  PROVE  [QP!Next]_(QP!vars) /\ running' /\ (InDrain' <=> pc' # "idle")
<1>1. TakeTask /\ wpc = "lock" /\ running' /\ UNCHANGED <<server, uiPc, uiTask>> /\ pc = "idle"
  BY DEF TakeNext, TakeTask, ui, InDrain
<1>2. UNCHANGED <<alive, posting>>
  BY <1>1 DEF alive, posting
<1>3. CASE tasks # << >>
  <2>1. tasks' = Tail(tasks) /\ task' = Head(tasks) /\ wpc' = "run"
    BY <1>1, <1>3 DEF TakeTask
  <2>2. CASE Head(tasks).kind = "other"
    <3>1. QP!BeginDrain
      BY <2>1, <2>2, SameQueue DEF TakeNext
    <3>2. pc' = "pick"
      BY <3>1 DEF QP!BeginDrain
    <3>3. QED
      BY <1>1, <2>1, <2>2, <3>1, <3>2 DEF QP!Next, QP!Drain, InDrain
  <2>3. CASE Head(tasks).kind # "other"
    <3>1. UNCHANGED queueVars /\ UNCHANGED pc /\ UNCHANGED posted
      BY <1>3, <2>1, <2>3, TakingOthers DEF TakeNext, queueVars
    <3>2. QED
      BY <1>1, <1>2, <2>1, <2>3, <3>1, Unseen DEF InDrain
  <2>4. QED
    BY <2>2, <2>3
<1>4. CASE tasks = << >>
  <2>1. UNCHANGED tasks /\ wpc' = "wait"
    BY <1>1, <1>4 DEF TakeTask
  <2>2. UNCHANGED queueVars /\ UNCHANGED pc /\ UNCHANGED posted
    BY <2>1 DEF TakeNext, queueVars, posted
  <2>3. QED
    BY <1>1, <1>2, <2>1, <2>2, Unseen DEF InDrain
<1>5. QED
  BY <1>3, <1>4

(* A task that is not a drain may bring the link up or take it down. *)
LEMMA OtherOnQueue ==
  ASSUME RunOther, InDrain <=> pc # "idle"
  PROVE  [QP!Next]_(QP!vars) /\ UNCHANGED running /\ (InDrain' <=> pc' # "idle")
<1>1. /\ UNCHANGED <<running, tasks, uiPc, uiTask>> /\ UNCHANGED queueVars /\ UNCHANGED pc
      /\ pc = "idle" /\ wpc' # "run"
  BY DEF RunOther, WaitForWake, ClearWake, AfterWake, RunTask, Publish, AfterTask,
       ui,
         queueVars
<1>2. UNCHANGED <<posted, posting>>
  BY <1>1 DEF posted, posting
<1>3. CASE UNCHANGED alive
  BY <1>1, <1>2, <1>3, Unseen DEF InDrain
<1>4. CASE alive' = ~alive
  <2>1. QP!OtherTask
    BY <1>1, <1>2, <1>4 DEF QP!OtherTask, QP!shared, QP!locals, QP!history, queueVars
  <2>2. QED
    BY <1>1, <2>1 DEF QP!Next, InDrain
<1>5. alive' = alive \/ alive' = ~alive
  BY DEF alive
<1>6. QED
  BY <1>3, <1>4, <1>5

LEMMA DrainOnQueue ==
  ASSUME StepDrain \/ LinkDrops, InDrain <=> pc # "idle"
  PROVE  [QP!Next]_(QP!vars) /\ UNCHANGED running /\ (InDrain' <=> pc' # "idle")
<1>1. CASE StepDrain
  <2>1. QP!Drain
    BY <1>1, SameDrain DEF StepDrain
  <2>2. UNCHANGED <<running, task>> /\ (InDrain' <=> pc' # "idle")
    BY <1>1 DEF StepDrain, LeaveDrain, InDrain
  <2>3. QED
    BY <2>1, <2>2 DEF QP!Next
<1>2. CASE LinkDrops
  <2>1. QP!LinkDrops /\ UNCHANGED pc
    BY <1>2, SameQueue DEF LinkDrops, Q!LinkDrops, Q!locals
  <2>2. UNCHANGED <<running, wpc, task>>
    BY <1>2 DEF LinkDrops
  <2>3. QED
    BY <2>1, <2>2 DEF QP!Next, InDrain
<1>3. QED
  BY <1>1, <1>2

LEMMA StepIsOfTheQueue ==
  ASSUME TaskInv, DrainInv, [AppNext]_allVars, running'
  PROVE  [QP!Next]_(QP!vars) /\ running /\ (InDrain' <=> pc' # "idle")
<1>1. CASE UNCHANGED <<sessionVars, queueVars>>
  <2>1. UNCHANGED QP!vars /\ UNCHANGED <<running, wpc, task, pc>>
    BY <1>1, Unseen DEF sessionVars, queueVars
  <2>2. QED
    BY <2>1 DEF DrainInv, InDrain
<1>2. CASE Keys
  BY <1>2, KeysOnQueue DEF DrainInv, InDrain
<1>3. CASE NextCall
  <2>1. ~Stop /\ running
    BY <1>3, CallsMade DEF Stop, Connect, Disconnect, PostOther, sessionVars
  <2>2. [QP!Next]_(QP!vars) /\ UNCHANGED <<wpc, task, pc>>
    BY <1>3, <2>1, CallOnQueue
  <2>3. QED
    BY <2>1, <2>2 DEF DrainInv, InDrain
<1>4. CASE FinishPost
  BY <1>4, FinishOnQueue DEF DrainInv, InDrain
<1>5. CASE TakeNext \/ RunOther \/ StepDrain \/ LinkDrops
  <2>1. running
    BY <1>5 DEF TakeNext, TakeTask, RunOther, WaitForWake, ClearWake, RunTask, Publish,
                AfterTask, StepDrain, LinkDrops
  <2>2. InDrain <=> pc # "idle"
    BY <2>1 DEF DrainInv
  <2>3. QED
    BY <1>5, <2>1, <2>2, TakingOnQueue, OtherOnQueue, DrainOnQueue
<1>6. QED
  BY <1>1, <1>2, <1>3, <1>4, <1>5, LooksAside DEF AppNext, NetworkWorker, Ended, allVars

LEMMA TasksAndDrain == AppSpec => [](TaskInv /\ DrainInv)
<1>1. AppInit => TaskInv /\ DrainInv
  <2> SUFFICES ASSUME AppInit PROVE TaskInv /\ DrainInv
    OBVIOUS
  <2>1. NoTask \in Task /\ 0 \in 0..MaxConnects
    BY AppAssumption, SessionAssumption DEF Task, NoTask, NoPath
  <2>2. TaskInv
    BY <2>1 DEF AppInit, Init, TaskInv
  <2>3. QP!IInv
    BY AppAssumption, SessionAssumption, SameQueue, QP!InitIInv DEF AppInit, QP!AllDirections
  <2>4. ~InDrain /\ pc = "idle"
    BY DEF AppInit, Init, Q!Init, InDrain
  <2>5. QED
    BY <2>2, <2>3, <2>4 DEF DrainInv
<1>2. TaskInv /\ DrainInv /\ [AppNext]_allVars => TaskInv' /\ DrainInv'
  <2> SUFFICES ASSUME TaskInv, DrainInv, [AppNext]_allVars PROVE TaskInv' /\ DrainInv'
    OBVIOUS
  <2>1. ASSUME running' PROVE QP!IInv' /\ (InDrain' <=> pc' # "idle")
    BY <2>1, AppAssumption, SessionAssumption, StepIsOfTheQueue, QP!NextIInv DEF DrainInv, QP!AllDirections
  <2>2. QED
    BY <2>1, TasksKeepType DEF DrainInv
<1>3. QED
  BY <1>1, <1>2, PTL DEF AppSpec

(* Until exit(), whatever connects, disconnects and losses of the link     *)
(* come between, the session's queue and worker hold exactly one drain     *)
(* while s_draining is set and none while it is clear, and a queue that is *)
(* not held and not drained has nothing to do.                             *)
THEOREM DrainIsOneTask == AppSpec => []DrainIsATask
<1>1. DrainInv => DrainIsATask
  BY DEF DrainInv, DrainIsATask, QP!IInv, QP!OneDrain, Q!OneDrain, QP!NoStrandedWork,
       Q!NoStrandedWork,
         QP!HaveWork, Q!HaveWork, QP!WithStatus, Q!WithStatus
<1>2. QED
  BY <1>1, TasksAndDrain, PTL

(* Until exit(), the program's frames, calls and tasks do to the queue what *)
(* TransferQueue says its two threads do, with a drain posted where the    *)
(* session has one among its tasks; so the program keeps whatever is       *)
(* proved there of a step of the queue.                                    *)
THEOREM ProgramRunsTheQueue ==
  AppSpec => QP!Init /\ [][running' => [QP!Next]_(QP!vars)]_allVars
<1>1. AppInit => QP!Init
  BY SameQueue DEF AppInit
<1>2. TaskInv /\ DrainInv /\ [AppNext]_allVars => [running' => [QP!Next]_(QP!vars)]_allVars
  BY StepIsOfTheQueue
<1>3. QED
  BY <1>1, <1>2, TasksAndDrain, PTL DEF AppSpec

----------------------------------------------------------------------------
(* The link. *)

(* Between two tasks a CONNECTED session has its link, also when the task  *)
(* that lost it was a drain: drain() returns past the check of the link.   *)
THEOREM LossIsAlwaysSeen == AppSpec => []LossInDrainIsSeen
<1> USE DEF LossInDrainIsSeen, ConnectedIsAlive
<1>1. AppInit => LossInDrainIsSeen
  BY DEF AppInit, Init
<1>2. TaskInv /\ LossInDrainIsSeen /\ [AppNext]_allVars => LossInDrainIsSeen'
  <2> SUFFICES ASSUME TaskInv, LossInDrainIsSeen, [AppNext]_allVars PROVE LossInDrainIsSeen'
    OBVIOUS
  <2>1. CASE UNCHANGED sessionVars
    BY <2>1 DEF sessionVars, alive
  <2>2. CASE Connect \/ Disconnect
    BY <2>2 DEF Connect, Disconnect
  <2>3. CASE PostOther
    BY <2>3 DEF PostOther, published, client, alive
  <2>4. CASE Keys
    BY <2>1, <2>3, <2>4, KeysOnQueue
  <2>5. CASE NextCall
    <3>1. CASE Stop
      BY <3>1 DEF Stop, published, client, alive
    <3>2. QED
      BY <2>1, <2>2, <2>3, <2>5, <3>1, CallsMade
  <2>6. CASE FinishPost
    BY <2>6 DEF FinishPost, FinishCall, Push, Signal, Join, published, client, alive
  <2>7. CASE TakeNext
    BY <2>7 DEF TakeNext, TakeTask, published, alive
  <2>8. CASE RunOther
    <3>1. CASE WaitForWake \/ ClearWake
      BY <3>1 DEF WaitForWake, ClearWake, AfterWake, published, client, alive
    <3>2. CASE RunTask \/ Publish
      BY <3>2 DEF RunTask, Publish
    <3>3. CASE AfterTask
      BY <3>3 DEF AfterTask, LinkIsLost, client, alive
    <3>4. QED
      BY <2>8, <3>1, <3>2, <3>3 DEF RunOther
  <2>9. CASE StepDrain \/ LinkDrops
    BY <2>9 DEF StepDrain, LeaveDrain, LinkDrops, InDrain
  <2>10. QED
    BY <2>1, <2>4, <2>5, <2>6, <2>7, <2>8, <2>9, LooksAside DEF AppNext, NetworkWorker, Ended, allVars
<1>3. QED
  BY <1>1, <1>2, TasksAndDrain, PTL DEF AppSpec

----------------------------------------------------------------------------
(* The question. *)

LEMMA HeldHolds == AppSpec => []HeldInv
<1>1. AppInit => HeldInv
  BY DEF AppInit, HeldInv
<1>2. TaskInv /\ HeldInv /\ [AppNext]_allVars => HeldInv'
  <2> SUFFICES ASSUME TaskInv, HeldInv, [AppNext]_allVars, prompt' = "cancelPending"
               PROVE  paused' /\ \A k \in 1..Len(todo') : todo'[k] # "resume"
    BY DEF HeldInv
  <2>1. CASE UNCHANGED <<queueVars, prompt, todo>>
    BY <2>1 DEF HeldInv, queueVars
  <2>2. CASE Looks
    <3>1. CASE LostSeen \/ PollFailed
      BY <3>1 DEF LostSeen, PollFailed
    <3>2. CASE PollConnected
      <4>1. PICK then \in SameFrame : Decide(then)
        BY <3>2 DEF PollConnected
      <4>2. then = << >>
        BY <3>2, <4>1 DEF PollConnected, SameFrame
      <4>3. QED
        BY <3>2, <4>1, <4>2 DEF PollConnected, Decide, HeldInv, queueVars
    <3>3. QED
      BY <2>2, <3>1, <3>2 DEF Looks
  <2>3. CASE Keys
    <3>1. CASE PressConnect \/ PressAbort
      BY <3>1 DEF PressConnect, PressAbort, HasKeys
    <3>2. ASSUME NEW d \in Directions, PressTransfer(d) PROVE FALSE
      BY <3>2 DEF PressTransfer, HasKeys
    <3>3. ASSUME NEW i \in DOMAIN jobs, PressCancelOne(i) PROVE FALSE
      BY <3>3 DEF PressCancelOne
    <3>4. CASE PressCancelPending
      BY <3>4 DEF PressCancelPending, HoldAndAsk, HasKeys, Idle, Q!Pause
    <3>5. CASE PressMenu
      BY <3>5 DEF PressMenu
    <3>6. ASSUME NEW yes \in BOOLEAN, Answer(yes) PROVE FALSE
      BY <3>6 DEF Answer
    <3>7. CASE LoopEnds
      BY <3>7 DEF LoopEnds, Decide, AtExit, HeldInv, queueVars
    <3>8. QED
      BY <2>3, <3>1, <3>2, <3>3, <3>4, <3>5, <3>6, <3>7 DEF Keys
  <2>4. CASE NextCall
    <3>1. paused /\ (\A k \in 1..Len(todo) : todo[k] # "resume") /\ prompt = "cancelPending"
      BY <2>4 DEF NextCall, HeldInv
    <3>2. todo' = Tail(todo) /\ todo # << >> /\ Head(todo) # "resume"
      BY <2>4, <3>1, CallsMade DEF TaskInv
    <3>3. \A k \in 1..Len(todo') : todo'[k] # "resume"
      BY <3>1, <3>2 DEF TaskInv
    <3>4. UNCHANGED paused
      BY <2>4, <3>2, CallsMade DEF queueVars, Q!Cancel, Q!CancelPending, Q!CancelAll
    <3>5. QED
      BY <3>1, <3>3, <3>4
  <2>5. CASE FinishPost
    BY <2>1, <2>5 DEF FinishPost, appVars
  <2>6. CASE TakeNext \/ RunOther \/ StepDrain \/ LinkDrops
    <3>1. UNCHANGED <<prompt, todo>>
      BY <2>6 DEF TakeNext, RunOther, StepDrain, LinkDrops, appVars
    <3>2. UNCHANGED queueVars \/ Q!Drain \/ Q!LinkDrops
      BY <2>6 DEF TakeNext, RunOther, StepDrain, LinkDrops, Q!Drain
    <3>3. UNCHANGED paused
      BY <3>2 DEF queueVars, Q!Drain, Q!BeginDrain, Q!Pick, Q!Pop, Q!WalkFails, Q!WalkEnds,
           Q!FailFast,
                  Q!StartJob, Q!JobEnds, Q!LinkDrops, Q!shared
    <3>4. QED
      BY <3>1, <3>3 DEF HeldInv
  <2>7. QED
    BY <2>1, <2>2, <2>3, <2>4, <2>5, <2>6 DEF AppNext, NetworkWorker, Ended, allVars, appVars
<1>3. QED
  BY <1>1, <1>2, TasksAndDrain, PTL DEF AppSpec

(* The steps of the queue's own that the program takes, also after exit(). *)
QueueStep ==
    \/ \E d \in Directions : QP!Enqueue(d)
    \/ QP!Pause \/ QP!Resume
    \/ \E i \in DOMAIN jobs : QP!Cancel(i)
    \/ QP!CancelPending \/ QP!CancelAll
    \/ QP!Drain \/ QP!LinkDrops

LEMMA StepsOnQueue ==
  ASSUME TaskInv, [AppNext]_allVars
  PROVE  QueueStep \/ UNCHANGED queueVars
<1>1. CASE Keys
  BY <1>1, SameQueue
  DEF Keys, PressConnect, PressAbort, PressTransfer, PressCancelOne, PressCancelPending,
       HoldAndAsk,
      PressMenu, Answer, LoopEnds, Decide, QueueStep
<1>2. CASE NextCall
  BY <1>2, SameQueue, CallsMade DEF QueueStep
<1>3. CASE FinishPost \/ TakeNext \/ RunOther \/ StepDrain \/ LinkDrops
  BY <1>3, SameQueue, SameDrain
  DEF FinishPost, TakeNext, RunOther, StepDrain, LinkDrops, QueueStep, QP!Drain
<1>4. QED
  BY <1>1, <1>2, <1>3, LooksAside DEF AppNext, NetworkWorker, Ended, allVars

(* What a step of drain() does to the jobs. *)
LEMMA DrainOnJobs ==
  ASSUME ListInv, QP!Drain
  PROVE  /\ \/ UNCHANGED jobs
            \/ ~paused /\ jobs' = QP!SetStatus(job', "ACTIVE") /\ job' \in DOMAIN jobs
            \/ \E s \in {"DONE", "CANCELLED", "FAILED"} : jobs' = QP!SetStatus(job, s)
            \/ \E n \in Nat : jobs' = QP!Appended(n, request)
         /\ requests' \in Seq(QP!Request) /\ request' \in QP!Request /\ UNCHANGED submitted
<1>1. CASE QP!BeginDrain \/ QP!StartJob \/ QP!WalkFails
  BY <1>1 DEF QP!BeginDrain, QP!StartJob, QP!WalkFails, QP!shared, QP!history, ListInv
<1>2. CASE QP!Pick
  BY <1>2 DEF QP!Pick, QP!Held, QP!history, ListInv
<1>3. CASE QP!Pop
  BY <1>3 DEF QP!Pop, QP!history, ListInv
<1>4. ASSUME NEW n \in 0..MaxWalk, QP!WalkEnds(n)
      PROVE  /\ \E k \in Nat : jobs' = QP!Appended(k, request)
             /\ requests' = requests /\ request' = request /\ UNCHANGED submitted
  <2>1. n \in Nat
    BY AppAssumption, SessionAssumption
  <2>2. QED
    BY <1>4, <2>1 DEF QP!WalkEnds, QP!history
<1>5. CASE QP!FailFast
  BY <1>5 DEF QP!FailFast, QP!history, ListInv
<1>6. ASSUME NEW ok \in BOOLEAN, QP!JobEnds(ok)
      PROVE  /\ \E s \in {"DONE", "CANCELLED", "FAILED"} : jobs' = QP!SetStatus(job, s)
             /\ requests' = requests /\ request' = request /\ UNCHANGED submitted
  <2> DEFINE s == IF ok THEN "DONE" ELSE IF cancelActive THEN "CANCELLED" ELSE "FAILED"
  <2>1. s \in {"DONE", "CANCELLED", "FAILED"} /\ jobs' = QP!SetStatus(job, s)
    BY <1>6 DEF QP!JobEnds
  <2>2. requests' = requests /\ request' = request /\ UNCHANGED submitted
    BY <1>6 DEF QP!JobEnds, QP!history
  <2> HIDE DEF s
  <2>3. QED
    BY <2>1, <2>2
<1>7. QED
  BY <1>1, <1>2, <1>3, <1>4, <1>5, <1>6 DEF QP!Drain, ListInv

LEMMA ChangedJobs ==
  ASSUME ListInv
  PROVE  /\ \A i, s : s \in QP!Status =>
               LET J == QP!SetStatus(i, s) IN
                  /\ J \in [DOMAIN jobs -> QP!Job] /\ DOMAIN J = DOMAIN jobs
                  /\ \A k \in DOMAIN jobs : J[k] = jobs[k] \/ J[k].status = s
         /\ \A n : LET J == QP!Appended(n, request) IN
                  /\ J \in [DOMAIN J -> QP!Job] /\ DOMAIN jobs \subseteq DOMAIN J
                  /\ \A k \in DOMAIN jobs : J[k] = jobs[k]
         /\ QP!PendingCancelled \in [DOMAIN jobs -> QP!Job]
         /\ \A k \in DOMAIN jobs : QP!PendingCancelled[k] = jobs[k]
                                   \/ QP!PendingCancelled[k].status = "CANCELLED"
<1>1. ASSUME NEW i, NEW s \in QP!Status
      PROVE  /\ QP!SetStatus(i, s) \in [DOMAIN jobs -> QP!Job]
             /\ DOMAIN QP!SetStatus(i, s) = DOMAIN jobs
             /\ \A k \in DOMAIN jobs : QP!SetStatus(i, s)[k] = jobs[k]
                                       \/ QP!SetStatus(i, s)[k].status = s
  BY DEF QP!SetStatus, QP!Job, ListInv
<1>2. ASSUME NEW n
      PROVE  LET J == QP!Appended(n, request) IN
                  /\ J \in [DOMAIN J -> QP!Job] /\ DOMAIN jobs \subseteq DOMAIN J
                  /\ \A k \in DOMAIN jobs : J[k] = jobs[k]
  <2>1. [req |-> request.num, direction |-> request.direction, status |-> "PENDING"] \in QP!Job
    BY DEF ListInv, QP!Request, QP!Job, QP!Status
  <2>2. QED
    BY <2>1 DEF QP!Appended, ListInv
<1>3. /\ QP!PendingCancelled \in [DOMAIN jobs -> QP!Job]
      /\ \A k \in DOMAIN jobs : QP!PendingCancelled[k] = jobs[k]
                                \/ QP!PendingCancelled[k].status = "CANCELLED"
  BY DEF QP!PendingCancelled, QP!Job, QP!Status, ListInv
<1>4. QED
  BY <1>1, <1>2, <1>3

LEMMA ListsHold == AppSpec => [](TaskInv /\ ListInv)
<1>1. AppInit => ListInv
  BY AppAssumption, SessionAssumption DEF AppInit, Q!Init, Q!NoRequest, QP!Request, QP!AllDirections, ListInv
<1>2. TaskInv /\ ListInv /\ [AppNext]_allVars => ListInv'
  <2> SUFFICES ASSUME TaskInv, ListInv, [AppNext]_allVars PROVE ListInv'
    OBVIOUS
  <2>1. CASE UNCHANGED <<jobs, requests, request, submitted>>
    BY <2>1 DEF ListInv
  <2>2. ASSUME NEW d \in Directions, QP!Enqueue(d) PROVE ListInv'
    <3>1. [num |-> submitted + 1, direction |-> d] \in QP!Request /\ submitted' \in 0..MaxRequests
      BY <2>2, AppAssumption, SessionAssumption DEF QP!Enqueue, QP!Request, QP!AllDirections, ListInv
    <3>2. QED
      BY <2>2, <3>1 DEF QP!Enqueue, QP!locals, ListInv
  <2>3. CASE QP!Pause \/ QP!Resume \/ QP!LinkDrops
    BY <2>1, <2>3 DEF QP!Pause, QP!Resume, QP!LinkDrops, QP!shared, QP!locals, QP!history
  <2>4. ASSUME NEW i \in DOMAIN jobs, QP!Cancel(i) PROVE ListInv'
    <3>1. jobs' \in [DOMAIN jobs' -> QP!Job]
      BY <2>4, ChangedJobs DEF QP!Cancel, QP!Status, ListInv
    <3>2. QED
      BY <2>4, <3>1 DEF QP!Cancel, QP!locals, ListInv
  <2>5. CASE QP!CancelPending \/ QP!CancelAll
    <3>1. jobs' \in [DOMAIN jobs' -> QP!Job]
      BY <2>5, ChangedJobs DEF QP!CancelPending, QP!CancelAll
    <3>2. requests' = << >> /\ UNCHANGED <<request, submitted>>
      BY <2>5 DEF QP!CancelPending, QP!CancelAll, QP!locals
    <3>3. QED
      BY <3>1, <3>2 DEF ListInv
  <2>6. CASE QP!Drain
    <3>1. jobs' \in [DOMAIN jobs' -> QP!Job]
      BY <2>6, DrainOnJobs, ChangedJobs DEF QP!Status, ListInv
    <3>2. QED
      BY <2>6, <3>1, DrainOnJobs DEF ListInv
  <2>7. QED
    BY <2>1, <2>2, <2>3, <2>4, <2>5, <2>6, StepsOnQueue DEF QueueStep, queueVars
<1>3. QED
  BY <1>1, <1>2, TasksAndDrain, PTL DEF AppSpec

(* "Held while the question is up": from the Y that asks whether to cancel *)
(* what waits until the answer is being carried out, no job starts,        *)
(* whichever frames, connects, losses and steps of drain() come between.   *)
THEOREM QuestionAlwaysHolds == AppSpec => QuestionHoldsJobs
<1>1. /\ TaskInv /\ ListInv /\ HeldInv /\ [AppNext]_allVars
      => [prompt = "cancelPending" =>
            \A i \in DOMAIN jobs : jobs'[i].status = "ACTIVE" => jobs[i].status = "ACTIVE"]_allVars
  <2> SUFFICES ASSUME TaskInv, ListInv, HeldInv, [AppNext]_allVars, prompt = "cancelPending",
                      NEW i \in DOMAIN jobs
               PROVE  jobs'[i].status = "ACTIVE" => jobs[i].status = "ACTIVE"
    OBVIOUS
  <2>1. paused
    BY DEF HeldInv
  <2>2. CASE UNCHANGED jobs
    BY <2>2
  <2>3. CASE \E k \in DOMAIN jobs : QP!Cancel(k)
    BY <2>3, ChangedJobs DEF QP!Cancel, QP!Status
  <2>4. CASE QP!CancelPending \/ QP!CancelAll
    BY <2>4, ChangedJobs DEF QP!CancelPending, QP!CancelAll
  <2>5. CASE QP!Drain
    BY <2>1, <2>5, DrainOnJobs, ChangedJobs DEF QP!Status
  <2>6. CASE (\E d \in Directions : QP!Enqueue(d)) \/ QP!Pause \/ QP!Resume \/ QP!LinkDrops
    BY <2>6 DEF QP!Enqueue, QP!Pause, QP!Resume, QP!LinkDrops, QP!shared
  <2>7. QED
    BY <2>2, <2>3, <2>4, <2>5, <2>6, StepsOnQueue DEF QueueStep, queueVars
<1>2. QED
  BY <1>1, ListsHold, HeldHolds, PTL DEF AppSpec, QuestionHoldsJobs

=============================================================================
