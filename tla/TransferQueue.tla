--------------------------- MODULE TransferQueue ---------------------------
(***************************************************************************)
(* The transfer queue of 3FC (source/transfer/queue.cpp).                  *)
(*                                                                         *)
(* Two threads share the queue's state under one lock.  The UI thread      *)
(* submits requests, pauses, resumes and cancels.  The network worker runs *)
(* drain(), which turns requests into jobs and runs the jobs one by one.   *)
(* An action is one critical section of the code, or the part of drain()   *)
(* between two of them, so the two threads interleave exactly where the    *)
(* lock lets them.                                                         *)
(*                                                                         *)
(* A request is known by its number, a job by its id.  The job vector is   *)
(* only ever appended to, with ids from one counter, so the order of the   *)
(* vector is the order of the ids and jobs is a function from ids.         *)
(***************************************************************************)
EXTENDS Integers, Sequences, FiniteSets

CONSTANTS
    Directions,   \* the directions the requests of an instance take
    MaxRequests,  \* bound on the calls of enqueue()
    MaxJobs,      \* bound on s_nextId: no more than MaxJobs jobs are made
    MaxWalk       \* bound on the jobs one request expands to

AllDirections == {"DOWNLOAD", "UPLOAD", "LOCAL_COPY"}

ASSUME DirectionsAssumption == Directions \subseteq AllDirections
ASSUME BoundsAssumption == MaxRequests \in Nat /\ MaxJobs \in Nat /\ MaxWalk \in Nat

Status   == {"PENDING", "ACTIVE", "DONE", "CANCELLED", "FAILED"}
Finished == {"DONE", "CANCELLED", "FAILED"}

VARIABLES
    jobs,          \* s_jobs, by id
    requests,      \* s_requests
    nextId,        \* s_nextId
    draining,      \* s_draining
    expanding,     \* s_expanding
    activeId,      \* s_activeId, 0 when no job runs
    cancelActive,  \* s_cancelActive
    paused,        \* s_paused
    pc,            \* where the worker is in drain(), "idle" outside it
    request,       \* drain()'s local request
    job,           \* the id of drain()'s local job
    alive,         \* client.alive(), written by the worker's thread only
    uiPc,          \* "post" between the unlock and session::post(drain)
    posted,        \* the drain tasks waiting in the session's task queue
    submitted,     \* number of enqueue() calls so far
    asked,         \* history: ids a cancel was asked for while they could be cancelled
    dropped        \* history: requests not yet walked when the queue was cancelled

shared  == <<jobs, requests, nextId, draining, expanding, activeId, cancelActive, paused>>
locals  == <<pc, request, job>>
history == <<submitted, asked, dropped>>
vars    == <<jobs, requests, nextId, draining, expanding, activeId, cancelActive,
             paused, pc, request, job, alive, uiPc, posted, submitted, asked, dropped>>

Request == [num : 0..MaxRequests, direction : AllDirections]
Job     == [req : 0..MaxRequests, direction : AllDirections, status : Status]

NoRequest == [num |-> 0, direction |-> "DOWNLOAD"]   \* a default transfer::Request

----------------------------------------------------------------------------
(* Faulty variants of the definitions below, one for each property: what a *)
(* slip in the code would make of them.                                    *)

IsLast(i) ==              \* drain() takes the newest job, not the oldest
    i \in {k \in DOMAIN jobs : jobs[k].status = "PENDING"} /\
    \A k \in DOMAIN jobs : jobs[k].status = "PENDING" => k <= i
OnlyPending ==            \* clearFinished() forgets the active job too
    {i \in DOMAIN jobs : jobs[i].status = "PENDING"}
NeverHeld == FALSE        \* drain() does not look at s_paused
CancelKept ==             \* s_cancelActive is not reset
    UNCHANGED cancelActive
NotExpanding ==           \* active() does not count the walk
    requests # <<>> \/ \E i \in DOMAIN jobs : jobs[i].status \in {"PENDING", "ACTIVE"}
StartAlways(work) ==      \* the caller posts whether or not a drain exists
    IF work THEN draining' = TRUE /\ uiPc' = "post" ELSE UNCHANGED <<draining, uiPc>>
RequestsOnly ==           \* resume() does not look for waiting jobs
    /\ uiPc = "idle"
    /\ paused' = FALSE
    /\ IF requests # <<>> /\ ~draining
       THEN draining' = TRUE /\ uiPc' = "post" ELSE UNCHANGED <<draining, uiPc>>
    /\ UNCHANGED <<jobs, requests, nextId, expanding, activeId, cancelActive, locals, alive,
                   posted, history>>

----------------------------------------------------------------------------
(* What the code asks of the queue.                                        *)

WithStatus(s) == {i \in DOMAIN jobs : jobs[i].status = s}

Unfinished == WithStatus("PENDING") \cup WithStatus("ACTIVE")

(* The first PENDING job of the vector. *)
IsNext(i) == i \in WithStatus("PENDING") /\ \A k \in WithStatus("PENDING") : i <= k

NoJobWaits == WithStatus("PENDING") = {}

(* What drain() tests before it takes a job. *)
Held == paused

(* A request for the active job's cancellation dies with the job. *)
CancelConsumed == cancelActive' = FALSE

HaveWork == requests # <<>> \/ WithStatus("PENDING") # {}

(* transfer::active() *)
IsActive == expanding \/ requests # <<>> \/ Unfinished # {}

SetStatus(i, s) == [jobs EXCEPT ![i].status = s]

(* Every PENDING job CANCELLED: the loop of cancelPending() and cancelAll(). *)
PendingCancelled ==
    [i \in DOMAIN jobs |->
        IF jobs[i].status = "PENDING" THEN [jobs[i] EXCEPT !.status = "CANCELLED"] ELSE jobs[i]]

(* jobs with n new ones of the request r appended. *)
Appended(n, r) ==
    [i \in DOMAIN jobs \cup nextId..(nextId + n - 1) |->
        IF i \in DOMAIN jobs
        THEN jobs[i]
        ELSE [req |-> r.num, direction |-> r.direction, status |-> "PENDING"]]

(* A local copy needs no server. *)
Reachable(direction) == direction = "LOCAL_COPY" \/ alive

Unwalked == {requests[k].num : k \in 1..Len(requests)} \cup
            IF expanding THEN {request.num} ELSE {}

----------------------------------------------------------------------------
(* The UI thread.  It is one thread: while it is between the unlock and    *)
(* the post of enqueue() or resume() it makes no other call.               *)

Init ==
    /\ jobs = << >> /\ requests = << >> /\ nextId = 1
    /\ draining = FALSE /\ expanding = FALSE
    /\ activeId = 0 /\ cancelActive = FALSE /\ paused = FALSE
    /\ pc = "idle" /\ request = NoRequest /\ job = 0 /\ alive = FALSE
    /\ uiPc = "idle" /\ posted = 0
    /\ submitted = 0 /\ asked = {} /\ dropped = {}

(* "if (!s_draining) { s_draining = true; start = true; }" *)
StartIf(work) ==
    IF work /\ ~draining
    THEN draining' = TRUE /\ uiPc' = "post"
    ELSE UNCHANGED <<draining, uiPc>>

Enqueue(d) ==
    /\ uiPc = "idle"
    /\ submitted < MaxRequests
    /\ submitted' = submitted + 1
    /\ requests' = Append(requests, [num |-> submitted + 1, direction |-> d])
    /\ StartIf(TRUE)
    /\ UNCHANGED <<jobs, nextId, expanding, activeId, cancelActive, paused, locals, alive,
                   posted, asked, dropped>>

PostDrain ==
    /\ uiPc = "post"
    /\ uiPc' = "idle"
    /\ posted' = posted + 1
    /\ UNCHANGED <<shared, locals, alive, history>>

Pause ==
    /\ uiPc = "idle"
    /\ paused' = TRUE
    /\ UNCHANGED <<jobs, requests, nextId, draining, expanding, activeId, cancelActive,
                   locals, alive, uiPc, posted, history>>

Resume ==
    /\ uiPc = "idle"
    /\ paused' = FALSE
    /\ StartIf(HaveWork)
    /\ UNCHANGED <<jobs, requests, nextId, expanding, activeId, cancelActive, locals, alive,
                   posted, history>>

Cancel(i) ==
    /\ uiPc = "idle"
    /\ i \in DOMAIN jobs
    /\ \/ /\ jobs[i].status = "ACTIVE"
          /\ cancelActive' = TRUE
          /\ UNCHANGED jobs
       \/ /\ jobs[i].status = "PENDING"
          /\ jobs' = SetStatus(i, "CANCELLED")
          /\ UNCHANGED cancelActive
    /\ asked' = asked \cup {i}
    /\ UNCHANGED <<requests, nextId, draining, expanding, activeId, paused, locals, alive,
                   uiPc, posted, submitted, dropped>>

CancelPending ==
    /\ uiPc = "idle"
    /\ requests' = << >>
    /\ jobs' = PendingCancelled
    /\ asked' = asked \cup WithStatus("PENDING")
    /\ dropped' = dropped \cup Unwalked
    /\ UNCHANGED <<nextId, draining, expanding, activeId, cancelActive, paused, locals, alive,
                   uiPc, posted, submitted>>

CancelAll ==
    /\ uiPc = "idle"
    /\ requests' = << >>
    /\ cancelActive' = TRUE
    /\ jobs' = PendingCancelled
    /\ asked' = asked \cup WithStatus("PENDING") \cup WithStatus("ACTIVE")
    /\ dropped' = dropped \cup Unwalked
    /\ UNCHANGED <<nextId, draining, expanding, activeId, paused, locals, alive, uiPc, posted,
                   submitted>>

ClearFinished ==
    /\ uiPc = "idle"
    /\ jobs' = [i \in Unfinished |-> jobs[i]]
    /\ UNCHANGED <<requests, nextId, draining, expanding, activeId, cancelActive, paused, locals,
                   alive, uiPc, posted, history>>

----------------------------------------------------------------------------
(* The worker.                                                             *)

(* The session's worker loop takes the task and calls drain(). *)
BeginDrain ==
    /\ pc = "idle"
    /\ posted > 0
    /\ posted' = posted - 1
    /\ pc' = "pick"
    /\ UNCHANGED <<shared, request, job, alive, uiPc, history>>

(* "s_draining = false; s_activeId = 0; return;" *)
ReturnFromDrain ==
    /\ draining' = FALSE
    /\ activeId' = 0
    /\ pc' = "idle"

(* The first critical section of drain(): unwind when paused, else take    *)
(* the first PENDING job; no such job leads to the second section.         *)
Pick ==
    /\ pc = "pick"
    /\ \/ /\ Held
          /\ ReturnFromDrain
          /\ UNCHANGED <<jobs, cancelActive, job>>
       \/ /\ ~Held
          /\ \E i \in DOMAIN jobs :
                /\ IsNext(i)
                /\ jobs' = SetStatus(i, "ACTIVE")
                /\ job' = i
                /\ activeId' = i
          /\ CancelConsumed
          /\ pc' = "check"
          /\ UNCHANGED draining
       \/ /\ ~Held
          /\ NoJobWaits
          /\ pc' = "pop"
          /\ UNCHANGED <<jobs, draining, activeId, cancelActive, job>>
    /\ UNCHANGED <<requests, nextId, expanding, paused, request, alive, uiPc, posted, history>>

(* The second critical section: take a request, or return. *)
Pop ==
    /\ pc = "pop"
    /\ \/ /\ requests # << >>
          /\ request' = Head(requests)
          /\ requests' = Tail(requests)
          /\ expanding' = TRUE
          /\ pc' = "walk"
          /\ UNCHANGED <<draining, activeId>>
       \/ /\ requests = << >>
          /\ ReturnFromDrain
          /\ UNCHANGED <<request, requests, expanding>>
    /\ UNCHANGED <<jobs, nextId, cancelActive, paused, job, alive, uiPc, posted, history>>

(* A walk that did not finish queues nothing.  It may fail at any time; it *)
(* is not even tried when the request needs a session that is gone.        *)
WalkFails ==
    /\ pc = "walk"
    /\ expanding' = FALSE
    /\ pc' = "pick"
    /\ UNCHANGED <<jobs, requests, nextId, draining, activeId, cancelActive, paused, request, job,
                   alive, uiPc, posted, history>>

(* A walk that finished appends its n jobs.  A session lost during the     *)
(* walk of a remote tree makes expand() return false.                      *)
WalkEnds(n) ==
    /\ pc = "walk"
    /\ Reachable(request.direction)
    /\ nextId + n - 1 <= MaxJobs
    /\ expanding' = FALSE
    /\ jobs' = Appended(n, request)
    /\ nextId' = nextId + n
    /\ pc' = "pick"
    /\ UNCHANGED <<requests, draining, activeId, cancelActive, paused, request, job, alive, uiPc,
                   posted, history>>

(* A job that needs a session that is gone fails without being tried. *)
FailFast ==
    /\ pc = "check"
    /\ ~Reachable(jobs[job].direction)
    /\ jobs' = SetStatus(job, "FAILED")
    /\ activeId' = 0
    /\ CancelConsumed
    /\ pc' = "pick"
    /\ UNCHANGED <<requests, nextId, draining, expanding, paused, request, job, alive, uiPc, posted,
                   history>>

StartJob ==
    /\ pc = "check"
    /\ Reachable(jobs[job].direction)
    /\ pc' = "run"
    /\ UNCHANGED <<shared, request, job, alive, uiPc, posted, history>>

(* runDirectory(), runDownload(), runUpload() or runLocalCopy() returned   *)
(* ok; the status is written in drain()'s last critical section.           *)
JobEnds(ok) ==
    /\ pc = "run"
    /\ jobs' = SetStatus(job, IF ok THEN "DONE"
                              ELSE IF cancelActive THEN "CANCELLED" ELSE "FAILED")
    /\ activeId' = 0
    /\ CancelConsumed
    /\ pc' = "pick"
    /\ UNCHANGED <<requests, nextId, draining, expanding, paused, request, job, alive, uiPc, posted,
                   history>>

(* A client call of the running walk or job marks the session broken. *)
LinkDrops ==
    /\ alive
    /\ \/ pc = "walk" /\ request.direction # "LOCAL_COPY"
       \/ pc = "run" /\ jobs[job].direction # "LOCAL_COPY"
    /\ alive' = FALSE
    /\ UNCHANGED <<shared, locals, uiPc, posted, history>>

(* Another task of the session (connect, disconnect, a listing) ran on the *)
(* worker and left the connection up or down.                              *)
OtherTask ==
    /\ pc = "idle"
    /\ alive' = ~alive
    /\ UNCHANGED <<shared, locals, uiPc, posted, history>>

----------------------------------------------------------------------------

UI ==
    \/ \E d \in Directions : Enqueue(d)
    \/ PostDrain
    \/ Pause
    \/ Resume
    \/ \E i \in DOMAIN jobs : Cancel(i)
    \/ CancelPending
    \/ CancelAll
    \/ ClearFinished

Drain ==
    \/ BeginDrain
    \/ Pick
    \/ Pop
    \/ WalkFails
    \/ \E n \in 0..MaxWalk : WalkEnds(n)
    \/ FailFast
    \/ StartJob
    \/ \E ok \in BOOLEAN : JobEnds(ok)

Next == UI \/ Drain \/ LinkDrops \/ OtherTask

(* The worker thread always gets to run (its priority is above the UI's),  *)
(* every walk and job ends (each socket wait has a deadline), and the UI   *)
(* thread goes on from the unlock to the post.  Nothing obliges the user.  *)
Fairness == WF_vars(Drain) /\ WF_vars(PostDrain)

Spec == Init /\ [][Next]_vars /\ Fairness

----------------------------------------------------------------------------
(* Properties.                                                             *)

ListTypeOK ==
    /\ nextId \in 1..(MaxJobs + 1)
    /\ DOMAIN jobs \subseteq 1..(nextId - 1)
    /\ jobs \in [DOMAIN jobs -> Job]
    /\ activeId \in 0..MaxJobs
    /\ job \in 0..MaxJobs
    /\ asked \subseteq 1..MaxJobs

BacklogTypeOK ==
    /\ submitted \in 0..MaxRequests
    /\ requests \in Seq(Request)
    /\ request \in Request
    /\ dropped \subseteq 0..MaxRequests

ControlTypeOK ==
    /\ draining \in BOOLEAN /\ expanding \in BOOLEAN
    /\ cancelActive \in BOOLEAN /\ paused \in BOOLEAN
    /\ pc \in {"idle", "pick", "pop", "walk", "check", "run"}
    /\ alive \in BOOLEAN
    /\ uiPc \in {"idle", "post"}
    /\ posted \in 0..1

TypeOK == ListTypeOK /\ BacklogTypeOK /\ ControlTypeOK

(* s_draining counts the drain tasks: while it is set there is exactly     *)
(* one, about to be posted, posted or running, and while it is clear there *)
(* is none.  So no two drains ever follow one another needlessly, and no   *)
(* caller that finds s_draining set relies on a drain that does not exist. *)
OneDrain ==
    posted + (IF uiPc = "post" THEN 1 ELSE 0) + (IF pc = "idle" THEN 0 ELSE 1)
        = IF draining THEN 1 ELSE 0

(* No work is stranded: a queue that is neither paused nor being drained   *)
(* holds no request and no PENDING job (the race between a drain that      *)
(* returns and an enqueue() or resume() that sees s_draining).             *)
NoStrandedWork == ~paused /\ ~draining => ~HaveWork

(* One job runs at a time and s_activeId names it; drain() works on that   *)
(* very job, and clearFinished() never takes it away from under drain().   *)
ActiveIsNamed ==
    /\ WithStatus("ACTIVE") = IF activeId = 0 THEN {} ELSE {activeId}
    /\ activeId = IF pc \in {"check", "run"} THEN job ELSE 0

(* "Jobs before requests": a request is walked only when every job of the  *)
(* requests ahead of it has finished, so an upload of what an earlier      *)
(* request downloads sees the finished files.                              *)
RequestsAfterJobs ==
    /\ pc = "walk" => WithStatus("PENDING") \cup WithStatus("ACTIVE") = {}
    /\ \A k \in 1..Len(requests) : \A i \in DOMAIN jobs : jobs[i].req < requests[k].num

(* Jobs are run in the order they were queued. *)
JobsInOrder ==
    \A i, k \in DOMAIN jobs :
        i < k /\ jobs[k].status \in {"ACTIVE", "DONE", "FAILED"} => jobs[i].status \in Finished

(* A job is CANCELLED only when a cancel was asked for that job: a stale   *)
(* s_cancelActive (cancelAll() sets it with no job running) never turns    *)
(* the failure of a later job into a cancellation.                         *)
CancelledWasAsked ==
    /\ WithStatus("CANCELLED") \subseteq asked
    /\ cancelActive /\ activeId # 0 => activeId \in asked

(* The UI never finds the queue inactive while a request is being walked   *)
(* or a job is in flight: the browser refreshes on the edge to inactive.   *)
InFlightIsActive == pc \in {"walk", "check", "run"} => IsActive

(* A finished job stays as it is, and its id is never given to another     *)
(* job, whatever is cancelled later.                                       *)
FinishedIsFinal ==
    [][/\ \A i \in DOMAIN jobs \cap DOMAIN jobs' :
             jobs[i].status \in Finished => jobs'[i] = jobs[i]
       /\ \A i \in DOMAIN jobs' \ DOMAIN jobs : i >= nextId]_vars

(* queue.h: cancelPending() "Cancel every job that has not started yet",   *)
(* cancelAll() "Cancel everything": what was not walked yet never runs.    *)
CancelledNeverRuns ==
    \A i \in DOMAIN jobs : jobs[i].req \in dropped => jobs[i].status \notin {"ACTIVE", "DONE"}

----------------------------------------------------------------------------
(* The queue keeps the promises of JobQueue.                               *)

Promise ==
    INSTANCE JobQueue WITH
        backlog <- (IF expanding THEN <<request>> ELSE << >>) \o requests,
        walking <- expanding,
        held    <- paused,
        issued  <- nextId - 1

(* Every step of the two threads is a step of the abstract queue or leaves *)
(* it alone, and the waiting work is begun and ended as it promises.       *)
ImplementsJobQueue == Promise!Spec

=============================================================================
