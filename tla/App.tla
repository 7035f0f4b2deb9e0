-------------------------------- MODULE App --------------------------------
(***************************************************************************)
(* The program around the session and the transfer queue: the frames of    *)
(* app.cpp, the two screens, the one confirmation prompt and main().       *)
(*                                                                         *)
(* The session (Session) and the queue (TransferQueue) share the network   *)
(* worker: drain() is a task of the session, so a connect() or a           *)
(* disconnect() waits until drain() returns, and the link that drops under *)
(* a job is seen by the session after the drain.  They share the UI thread *)
(* too: the calls below are made one after the other by the same frame.    *)
(*                                                                         *)
(* A frame decides what to do from a state it has read, and then makes its *)
(* calls: todo holds the calls still to make.  Listings and the other      *)
(* tasks of the session are left out here, and the START menu is shown     *)
(* only by what it asks.                                                   *)
(***************************************************************************)
EXTENDS Session

CONSTANTS Directions, MaxRequests, MaxJobs, MaxWalk

(* What TransferQueue assumes of its own. *)
ASSUME AppAssumption ==
    /\ {MaxRequests, MaxJobs, MaxWalk} \subseteq Nat
    /\ Directions \subseteq {"DOWNLOAD", "UPLOAD", "LOCAL_COPY"}

VARIABLES
    jobs, requests, nextId, draining, expanding, activeId, cancelActive, paused,
    pc, request, job, submitted, asked, dropped,
    screen,   \* st.screen
    prompt,   \* what st.confirm asks, "none" when it is not active
    askedId,  \* the id the CANCEL_ONE prompt captured
    todo,     \* the calls this frame has still to make
    quit      \* the main loop has ended

(* What the queue sees of the session.  The drain tasks are the only       *)
(* "other" tasks here.                                                     *)
posted  == Cardinality({i \in 1..Len(tasks) : tasks[i].kind = "other"})
posting == IF uiPc = "push" /\ uiTask.kind = "other" THEN "post" ELSE "idle"

Q == INSTANCE TransferQueue WITH uiPc <- posting

queueVars == <<jobs, requests, nextId, draining, expanding, activeId, cancelActive, paused, pc,
               request, job, submitted, asked, dropped>>
sessionVars == <<running, taskRunning, tasks, wake, state, description, listPath, listing,
                 listPending, listGeneration, server, wpc, task, taskOk, uiPc, uiTask, connects>>
appVars     == <<screen, prompt, askedId, todo, quit>>
allVars     == <<sessionVars, queueVars, appVars>>

Prompts == {"none", "notify", "cancelOne", "cancelPending", "disconnect", "exit"}
Calls   == {"connect", "disconnect", "resume", "cancel", "cancelPending", "cancelAll", "exit"}

(* The UI thread is at the beginning of a frame's decision. *)
Idle == uiPc = "idle" /\ todo = << >> /\ ~quit

----------------------------------------------------------------------------
(* Faulty variants of the definitions below, one for each property. *)

AskOnly ==                                    \* Y asks without pause()
    prompt' = "cancelPending" /\ UNCHANGED <<sessionVars, queueVars>>
LookWithKeys == Idle /\ prompt = "none"       \* an open prompt hides the loss
ExitCalls == <<"cancelAll">>                  \* main() returns without session::exit()
ForgetTasks ==                                \* disconnect() drops what is queued before it
    /\ uiPc = "idle" /\ uiPc' = "push" /\ uiTask' = DisconnectTask
    /\ tasks' = << >>
    /\ state' = "DISCONNECTED"
    /\ UNCHANGED <<running, taskRunning, wake, description, listPath, listing, listPending,
                   listGeneration, server, wpc, task, taskOk, connects, queueVars>>
DropUnseen ==                                 \* drain() returns past the check of the link
    wpc' = "lock" /\ taskRunning' = FALSE

----------------------------------------------------------------------------

AppInit ==
    /\ Init /\ Q!Init
    /\ screen = "connect" /\ prompt = "none" /\ askedId = 0 /\ todo = << >> /\ quit = FALSE

(* Nothing but a prompt gets the keys while it is up. *)
HasKeys == Idle /\ prompt = "none"

Decide(calls) ==
    /\ todo' = calls
    /\ UNCHANGED <<sessionVars, queueVars>>

----------------------------------------------------------------------------
(* What every frame looks at, prompt or no prompt. *)

LooksAtLoss == Idle

(* app::frame(): a session that was lost takes the browser with it.  The   *)
(* notice replaces the prompt that is up.                                  *)
LostSeen ==
    /\ LooksAtLoss
    /\ screen = "browser" /\ state = "LOST"
    /\ screen' = "connect"
    /\ prompt' = "notify"
    /\ Decide(<<"cancelAll", "disconnect">>)
    /\ UNCHANGED <<askedId, quit>>

(* pollConnection().  The key of the same frame still goes to the connect  *)
(* screen, which then finds the session no longer CONNECTING.              *)
SameFrame == IF prompt = "none" THEN {<< >>, <<"connect">>} ELSE {<< >>}

PollConnected ==
    /\ Idle
    /\ screen = "connect" /\ state = "CONNECTED"
    /\ screen' = "browser"
    /\ \E then \in SameFrame : Decide(then)
    /\ UNCHANGED <<prompt, askedId, quit>>

PollFailed ==
    /\ Idle
    /\ screen = "connect" /\ state = "FAILED"
    /\ prompt' = "notify"
    /\ \E then \in SameFrame : Decide(<<"disconnect">> \o then)
    /\ UNCHANGED <<screen, askedId, quit>>

----------------------------------------------------------------------------
(* Keys. *)

PressConnect ==
    /\ HasKeys
    /\ screen = "connect" /\ state # "CONNECTING"
    /\ connects < MaxConnects
    /\ Decide(<<"connect">>)
    /\ UNCHANGED <<screen, prompt, askedId, quit>>

(* "B has to keep working": the attempt is given up. *)
PressAbort ==
    /\ HasKeys
    /\ screen = "connect" /\ state = "CONNECTING"
    /\ Decide(<<"disconnect">>)
    /\ UNCHANGED <<screen, prompt, askedId, quit>>

(* queueSelection() for one entry: enqueue(), and its post. *)
PressTransfer(d) ==
    /\ HasKeys
    /\ screen = "browser"
    /\ PostOther \/ UNCHANGED sessionVars
    /\ Q!Enqueue(d)
    /\ UNCHANGED <<screen, prompt, askedId, todo, quit>>

(* A on the progress panel: only the active job can be cancelled there,    *)
(* and the prompt captures its id.                                         *)
IdOf(i) == i

PressCancelOne(i) ==
    /\ HasKeys
    /\ i \in DOMAIN jobs /\ jobs[i].status = "ACTIVE"
    /\ prompt' = "cancelOne"
    /\ askedId' = IdOf(i)
    /\ UNCHANGED <<sessionVars, queueVars, screen, todo, quit>>

HoldAndAsk == prompt' = "cancelPending" /\ UNCHANGED sessionVars /\ Q!Pause

(* Y on the progress panel, which takes keys only when it lists a job. *)
PressCancelPending ==
    /\ HasKeys
    /\ \E i \in DOMAIN jobs : jobs[i].status # "PENDING"
    /\ HoldAndAsk
    /\ UNCHANGED <<screen, askedId, todo, quit>>

(* The START menu, which offers Disconnect in the browser only. *)
PressMenu ==
    /\ HasKeys
    /\ prompt' \in {"exit"} \cup IF screen = "browser" THEN {"disconnect"} ELSE {}
    /\ UNCHANGED <<sessionVars, queueVars, screen, askedId, todo, quit>>

AtExit == <<"cancelAll", "exit">>

(* What the callback of each prompt calls. *)
CallsOf(p, yes) ==
    CASE p = "cancelOne"     -> IF yes THEN <<"cancel">> ELSE << >>
      [] p = "cancelPending" -> IF yes THEN <<"cancelPending", "resume">> ELSE <<"resume">>
      [] p = "disconnect"    -> IF yes THEN <<"disconnect">> ELSE << >>
      [] p = "exit"          -> IF yes THEN AtExit ELSE << >>
      [] OTHER               -> << >>

Answer(yes) ==
    /\ Idle
    /\ prompt # "none"
    /\ prompt' = "none"
    /\ Decide(CallsOf(prompt, yes))
    /\ screen' = IF prompt = "disconnect" /\ yes THEN "connect" ELSE screen
    /\ quit' = (prompt = "exit" /\ yes)
    /\ UNCHANGED <<askedId>>

(* platform::loop() says that the system closes the program. *)
LoopEnds ==
    /\ Idle
    /\ quit' = TRUE
    /\ Decide(AtExit)
    /\ UNCHANGED <<screen, prompt, askedId>>

----------------------------------------------------------------------------
(* The calls. *)

Disconnects == Disconnect /\ UNCHANGED queueVars

MakeCall(c) ==
    CASE c = "connect"       -> IF connects < MaxConnects
                                THEN Connect /\ UNCHANGED queueVars
                                ELSE UNCHANGED <<sessionVars, queueVars>>
      [] c = "disconnect"    -> Disconnects
      [] c = "resume"        -> (PostOther \/ UNCHANGED sessionVars) /\ Q!Resume
      [] c = "cancel"        -> /\ UNCHANGED sessionVars
                                /\ IF askedId \in Q!Unfinished
                                   THEN Q!Cancel(askedId) ELSE UNCHANGED queueVars
      [] c = "cancelPending" -> UNCHANGED sessionVars /\ Q!CancelPending
      [] c = "cancelAll"     -> UNCHANGED sessionVars /\ Q!CancelAll
      [] c = "exit"          -> Stop /\ UNCHANGED queueVars

NextCall ==
    /\ uiPc = "idle"
    /\ todo # << >>
    /\ MakeCall(Head(todo))
    /\ todo' = Tail(todo)
    /\ UNCHANGED <<screen, prompt, askedId, quit>>

FinishPost == FinishCall /\ UNCHANGED <<queueVars, appVars>>

----------------------------------------------------------------------------
(* The worker. *)

InDrain == wpc = "run" /\ task.kind = "other"

TakeNext ==
    /\ TakeTask
    /\ IF wpc' = "run" /\ task'.kind = "other"
       THEN Q!BeginDrain ELSE UNCHANGED queueVars
    /\ UNCHANGED appVars

(* A task that is not a drain, and the loop around the tasks. *)
RunOther ==
    /\ ~InDrain
    /\ WaitForWake \/ ClearWake \/ RunTask \/ Publish \/ AfterTask
    /\ UNCHANGED <<queueVars, appVars>>

LeaveDrain == UNCHANGED taskRunning /\ wpc' = "after"

(* A step of drain(), the last of which ends the task. *)
StepDrain ==
    /\ InDrain
    /\ LeaveDrain \/ (UNCHANGED <<wpc, taskRunning>>)
    /\ UNCHANGED <<running, tasks, wake, state, description, listPath, listing, listPending,
                   listGeneration, server, task, taskOk, uiPc, uiTask, connects>>
    /\ Q!Drain
    /\ (pc' = "idle") <=> (wpc' # "run")
    /\ UNCHANGED appVars

LinkDrops ==
    /\ InDrain
    /\ server' = 0
    /\ UNCHANGED <<running, taskRunning, tasks, wake, state, description, listPath, listing,
                   listPending, listGeneration, wpc, task, taskOk, uiPc, uiTask, connects>>
    /\ Q!LinkDrops
    /\ UNCHANGED appVars

----------------------------------------------------------------------------

Looks  == LostSeen \/ PollConnected \/ PollFailed
Keys   ==
    \/ PressConnect \/ PressAbort
    \/ \E d \in Directions : PressTransfer(d)
    \/ \E i \in DOMAIN jobs : PressCancelOne(i)
    \/ PressCancelPending \/ PressMenu
    \/ \E yes \in BOOLEAN : Answer(yes)
    \/ LoopEnds
NetworkWorker == TakeNext \/ RunOther \/ StepDrain
Ended  == uiPc = "done" /\ UNCHANGED allVars

AppNext == Looks \/ Keys \/ NextCall \/ FinishPost \/ NetworkWorker \/ LinkDrops \/ Ended

(* Both threads keep running, and every frame looks at the session before  *)
(* it reads a key, so no sequence of keys keeps it from looking.           *)
AppFairness ==
    /\ WF_allVars(NetworkWorker) /\ WF_allVars(NextCall) /\ WF_allVars(FinishPost)
    /\ SF_allVars(Looks)

AppSpec == AppInit /\ [][AppNext]_allVars /\ AppFairness

----------------------------------------------------------------------------
(* Properties. *)

AppTypeOK ==
    /\ screen \in {"connect", "browser"}
    /\ prompt \in Prompts
    /\ askedId \in 0..MaxJobs
    /\ prompt = "cancelOne" => askedId \in DOMAIN jobs
    /\ todo \in Seq(Calls)
    /\ quit \in BOOLEAN

(* s_draining agrees with the session's task queue: until exit() forgets   *)
(* the tasks, exactly one drain is queued, being posted or running while   *)
(* it is set, whatever connects and disconnects are queued around it, and  *)
(* a queue that is not held and not drained has nothing to do.             *)
DrainIsATask == running => Q!OneDrain /\ Q!NoStrandedWork

(* Between two tasks a CONNECTED session has its link, also when the task  *)
(* was a drain that lost it: the browser learns of it.                     *)
LossInDrainIsSeen == ConnectedIsAlive

(* panelProgress.cpp: "Held while the question is up": no job starts while *)
(* the user is asked whether to cancel what waits.                         *)
QuestionHoldsJobs ==
    [][prompt = "cancelPending" =>
          \A i \in DOMAIN jobs : jobs'[i].status = "ACTIVE" => jobs[i].status = "ACTIVE"]_allVars

(* "whichever screen has the focus and whatever menu is open": the browser *)
(* does not stay up over a session that is LOST, whatever prompt is up and *)
(* whatever the user does with it.                                         *)
LostEndsBrowser ==
    screen = "browser" /\ state = "LOST" ~> screen = "connect" \/ state # "LOST" \/ quit

(* Quitting ends, also in the middle of a drain. *)
QuitEnds == quit ~> uiPc = "done"

(* panelProgress.cpp: "Held while the question is up, so the queue the     *)
(* user answers about is the queue that gets cancelled": the queue is held *)
(* only while the question is up, or resume() is about to be called.       *)
HeldOnlyForTheQuestion ==
    paused => quit \/ prompt = "cancelPending" \/ \E k \in 1..Len(todo) : todo[k] = "resume"

(* app.cpp: "A link that dropped under us takes the browser with it".      *)
DeadLinkEndsBrowser ==
    screen = "browser" /\ server = 0 ~> screen = "connect" \/ server # 0 \/ quit

=============================================================================
