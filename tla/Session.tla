------------------------------ MODULE Session ------------------------------
(***************************************************************************)
(* The session and its network worker (source/ftp/session.cpp).            *)
(*                                                                         *)
(* The UI thread posts tasks to a queue and signals a sticky event; the    *)
(* worker thread takes the tasks in order, runs each with the one FTP      *)
(* client and publishes the outcome.  Both sides touch the shared state    *)
(* under one lock, but not the event, nor the client, which is the         *)
(* worker's alone.  A post is a push under the lock and a signal outside.  *)
(*                                                                         *)
(* A listing is known by the server it came from: the number of the        *)
(* connect() call that reached it.  0 stands for an empty listing.         *)
(***************************************************************************)
EXTENDS Integers, Sequences, FiniteSets

CONSTANTS
    Paths,        \* the directories that are listed
    MaxConnects,  \* bound on the calls of connect()
    MaxLists,     \* bound on the calls of requestList()
    MaxTasks      \* bound on the tasks a caller lets pile up

ASSUME SessionAssumption == MaxConnects \in Nat /\ MaxLists \in Nat /\ MaxTasks \in Nat

States == {"DISCONNECTED", "CONNECTING", "CONNECTED", "FAILED", "LOST"}
NoPath == ""

VARIABLES
    running,         \* s_running
    taskRunning,     \* s_taskRunning
    tasks,           \* s_tasks
    wake,            \* s_wake, a sticky event
    state,           \* s_state
    description,     \* s_description: the connect() call it names, 0 when empty
    listPath,        \* s_listPath
    listing,         \* s_listing
    listPending,     \* s_listPending
    listGeneration,  \* s_listGeneration
    server,          \* the server the client is connected to, 0 when it is not alive
    wpc,             \* where the worker is
    task,            \* the worker's local task
    taskOk,          \* the task's local ok
    uiPc,            \* where the UI thread is in a call
    uiTask,          \* the task the UI thread is about to push
    connects         \* number of connect() calls made

client     == <<server, taskOk>>
listState  == <<listPath, listing, listPending, listGeneration>>
published  == <<state, description, listState>>
ui         == <<uiPc, uiTask, connects>>
vars       == <<running, taskRunning, tasks, wake, state, description, listPath, listing,
                listPending, listGeneration, server, wpc, task, taskOk, uiPc, uiTask, connects>>

Task == [kind : {"connect", "disconnect", "list", "other"},
         path : Paths \cup {NoPath}, number : 0..MaxConnects]

NoTask         == [kind |-> "other", path |-> NoPath, number |-> 0]
ConnectTask(n) == [kind |-> "connect", path |-> NoPath, number |-> n]
DisconnectTask == [kind |-> "disconnect", path |-> NoPath, number |-> 0]
ListTask(p)    == [kind |-> "list", path |-> p, number |-> 0]

alive == server # 0

----------------------------------------------------------------------------
(* Faulty variants of the definitions below, one for each property. *)

ListDoneIfOk ==                                \* a failed listing stays pending
    listPending' = IF taskOk THEN listPending - 1 ELSE listPending
WaitAgain == "wait"                            \* the worker does not look at the queue again
LostIfListing ==                               \* only a listing notices a dead link
    state = "CONNECTED" /\ server = 0 /\ task.kind = "list"
NoSignal == "idle"                             \* post() does not signal
ExitWithoutSignal == "join"                    \* exit() does not signal
OnlySuccess(ok) == IF ok THEN "CONNECTED" ELSE state   \* FAILED is not published

----------------------------------------------------------------------------
(* The pieces the calls and the tasks are made of. *)

CountList == listPending' = listPending + 1
ListDone  == listPending' = listPending - 1
DropListing == listPath' = NoPath /\ listing' = 0
Outcome(ok) == IF ok THEN "CONNECTED" ELSE "FAILED"
LinkIsLost  == state = "CONNECTED" /\ ~alive
AfterWake   == "lock"
AfterPush   == "signal"
AfterStop   == "signal"

Init ==
    /\ running = TRUE /\ taskRunning = FALSE /\ tasks = << >> /\ wake = FALSE
    /\ state = "DISCONNECTED" /\ description = 0
    /\ listPath = NoPath /\ listing = 0 /\ listPending = 0 /\ listGeneration = 0
    /\ server = 0 /\ wpc = "lock" /\ task = NoTask /\ taskOk = FALSE
    /\ uiPc = "idle" /\ uiTask = NoTask /\ connects = 0

----------------------------------------------------------------------------
(* The UI thread: calls of the session, each one a critical section and a  *)
(* post, which is a push and a signal.                                     *)

Call(t) ==
    /\ uiPc = "idle"
    /\ uiTask' = t
    /\ uiPc' = "push"

(* session::connect(); the connect screen offers it only when it does not  *)
(* find the session CONNECTING.                                            *)
Connect ==
    /\ state # "CONNECTING"
    /\ connects < MaxConnects
    /\ connects' = connects + 1
    /\ Call(ConnectTask(connects + 1))
    /\ state' = "CONNECTING"
    /\ description' = connects + 1
    /\ DropListing
    /\ UNCHANGED <<running, taskRunning, tasks, wake, listPending, listGeneration, client, wpc, task>>

Disconnect ==
    /\ Call(DisconnectTask)
    /\ state' = "DISCONNECTED"
    /\ UNCHANGED <<running, taskRunning, tasks, wake, description, listState, client, wpc, task,
                   connects>>

RequestList(p) ==
    /\ listGeneration + listPending < MaxLists
    /\ Call(ListTask(p))
    /\ CountList
    /\ UNCHANGED <<running, taskRunning, tasks, wake, state, description, listPath, listing,
                   listGeneration, client, wpc, task, connects>>

(* session::post() called by others: a drain, a new folder, a removal. *)
PostOther ==
    /\ Call(NoTask)
    /\ UNCHANGED <<running, taskRunning, tasks, wake, published, client, wpc, task, connects>>

Push ==
    /\ uiPc = "push"
    /\ tasks' = Append(tasks, uiTask)
    /\ uiTask' = NoTask
    /\ uiPc' = AfterPush
    /\ UNCHANGED <<running, taskRunning, wake, published, client, wpc, task, connects>>

Signal ==
    /\ uiPc = "signal"
    /\ wake' = TRUE
    /\ uiPc' = IF running THEN "idle" ELSE "join"
    /\ UNCHANGED <<running, taskRunning, tasks, published, client, wpc, task, uiTask,
                   connects>>

(* session::exit(): stop, forget the tasks, wake the worker, join it. *)
Stop ==
    /\ uiPc = "idle"
    /\ running
    /\ running' = FALSE
    /\ tasks' = << >>
    /\ uiPc' = AfterStop
    /\ UNCHANGED <<taskRunning, wake, published, client, wpc, task, uiTask,
                   connects>>

Join ==
    /\ uiPc = "join"
    /\ wpc = "exited"
    /\ uiPc' = "done"
    /\ UNCHANGED <<running, taskRunning, tasks, wake, published, client, wpc, task, uiTask,
                   connects>>

----------------------------------------------------------------------------
(* The worker. *)

TakeTask ==
    /\ wpc = "lock"
    /\ \/ /\ ~running                     \* out of the loop, client.disconnect()
          /\ server' = 0
          /\ wpc' = "exited"
          /\ UNCHANGED <<tasks, task, taskRunning>>
       \/ /\ running
          /\ tasks # << >>
          /\ task' = Head(tasks)
          /\ tasks' = Tail(tasks)
          /\ taskRunning' = TRUE
          /\ wpc' = "run"
          /\ UNCHANGED server
       \/ /\ running
          /\ tasks = << >>
          /\ wpc' = "wait"
          /\ UNCHANGED <<tasks, task, taskRunning, server>>
    /\ UNCHANGED <<running, wake, published, taskOk, ui>>

WaitForWake ==
    /\ wpc = "wait"
    /\ wake
    /\ wpc' = "clear"
    /\ UNCHANGED <<running, taskRunning, tasks, wake, published, client, task, ui>>

ClearWake ==
    /\ wpc = "clear"
    /\ wake' = FALSE
    /\ wpc' = AfterWake
    /\ UNCHANGED <<running, taskRunning, tasks, published, client, task, ui>>

(* The part of the task that talks to the server, outside the lock.  Any   *)
(* client call may find the link broken.                                   *)
RunTask ==
    /\ wpc = "run"
    /\ \/ /\ task.kind = "connect"
          /\ taskOk' \in BOOLEAN
          /\ server' = IF taskOk' THEN task.number ELSE 0
          /\ wpc' = "publish"
       \/ /\ task.kind = "disconnect"
          /\ server' = 0
          /\ wpc' = "publish"
          /\ UNCHANGED taskOk
       \/ /\ task.kind = "list"
          /\ taskOk' \in {FALSE, alive}
          /\ server' \in IF taskOk' THEN {server} ELSE {server, 0}
          /\ wpc' = "publish"
       \/ /\ task.kind = "other"
          /\ server' \in {server, 0}
          /\ wpc' = "after"
          /\ UNCHANGED taskOk
    /\ UNCHANGED <<running, taskRunning, tasks, wake, published, task, ui>>

(* The critical section at the end of the task. *)
Publish ==
    /\ wpc = "publish"
    /\ wpc' = "after"
    /\ \/ /\ task.kind = "connect"
          /\ state' = Outcome(taskOk)
          /\ UNCHANGED <<description, listState>>
       \/ /\ task.kind = "disconnect"
          /\ state' = "DISCONNECTED"
          /\ description' = 0
          /\ DropListing
          /\ UNCHANGED <<listPending, listGeneration>>
       \/ /\ task.kind = "list"
          /\ ListDone
          /\ listPath' = task.path
          /\ listing' = IF taskOk THEN server ELSE 0
          /\ listGeneration' = listGeneration + 1
          /\ UNCHANGED <<state, description>>
    /\ UNCHANGED <<running, taskRunning, tasks, wake, client, task, ui>>

(* The check after every task: a link that dropped makes the session LOST. *)
AfterTask ==
    /\ wpc = "after"
    /\ taskRunning' = FALSE
    /\ IF LinkIsLost
       THEN state' = "LOST" /\ DropListing
       ELSE UNCHANGED <<state, listPath, listing>>
    /\ wpc' = "lock"
    /\ UNCHANGED <<running, tasks, wake, description, listPending, listGeneration, client, task, ui>>

----------------------------------------------------------------------------

Room == Len(tasks) < MaxTasks

UI ==
    \/ Room /\ Connect
    \/ Room /\ Disconnect
    \/ Room /\ \E p \in Paths : RequestList(p)
    \/ Room /\ PostOther
    \/ Stop

FinishCall == Push \/ Signal \/ Join

Worker ==
    \/ TakeTask
    \/ WaitForWake
    \/ ClearWake
    \/ RunTask
    \/ Publish
    \/ AfterTask

Finished == uiPc = "done" /\ UNCHANGED vars

Next == UI \/ FinishCall \/ Worker \/ Finished

(* Both threads keep running: the kernel schedules them, every client call *)
(* ends at its deadline, and a UI call, once begun, goes on to its end.    *)
Fairness == WF_vars(Worker) /\ WF_vars(FinishCall)

Spec == Init /\ [][Next]_vars /\ Fairness

----------------------------------------------------------------------------
(* Properties. *)

TypeOK ==
    /\ running \in BOOLEAN /\ taskRunning \in BOOLEAN /\ wake \in BOOLEAN /\ taskOk \in BOOLEAN
    /\ tasks \in Seq(Task) /\ task \in Task /\ uiTask \in Task
    /\ state \in States
    /\ description \in 0..MaxConnects /\ server \in 0..MaxConnects /\ listing \in 0..MaxConnects
    /\ listPath \in Paths \cup {NoPath}
    /\ listPending \in 0..MaxLists /\ listGeneration \in 0..MaxLists
    /\ wpc \in {"lock", "wait", "clear", "run", "publish", "after", "exited"}
    /\ uiPc \in {"idle", "push", "signal", "join", "done"}
    /\ connects \in 0..MaxConnects

(* A worker that sleeps with work to do, or with the thread to end, is     *)
(* about to be woken: clearing the sticky event after the wait never eats  *)
(* a signal whose task the worker has not seen.                            *)
NoLostWakeup ==
    wpc = "wait" /\ ~wake /\ uiPc # "signal" => tasks = << >> /\ running

(* s_listPending counts the listings that were asked for and not published *)
(* yet, wherever they are: the "loading" note neither sticks nor vanishes. *)
ListPendingCounts ==
    LET Queued   == {i \in 1..Len(tasks) : tasks[i].kind = "list"}
        BeingPut == uiPc = "push" /\ uiTask.kind = "list"
        Underway == wpc \in {"run", "publish"} /\ task.kind = "list"
    IN  running => listPending = Cardinality(Queued) + (IF BeingPut THEN 1 ELSE 0)
                                                     + (IF Underway THEN 1 ELSE 0)

(* Between two tasks a session that says CONNECTED has a live client,      *)
(* whichever task was the one that broke the link.                         *)
ConnectedIsAlive == state = "CONNECTED" /\ wpc \in {"lock", "wait", "clear"} => alive

(* A listing that was asked for is published, or forgotten by exit().      *)
ListingsArrive == listPending > 0 ~> listPending = 0 \/ ~running

(* exit() returns: the worker sees that it has to stop and the join ends.  *)
ExitReturns == ~running ~> uiPc = "done"

(* The connect screen does not wait forever.                               *)
ConnectSettles == state = "CONNECTING" ~> state # "CONNECTING" \/ ~running

=============================================================================
