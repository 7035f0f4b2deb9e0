------------------------ MODULE TransferQueueProofs ------------------------
(***************************************************************************)
(* Proofs about TransferQueue, for every value of its constants.           *)
(***************************************************************************)
EXTENDS TransferQueue, SequenceTheorems, TLAPS

(* What the invariants of TransferQueue rest on: s_expanding says whether  *)
(* the worker walks a request, the job drain() holds is still in the list, *)
(* the second critical section is only entered when no job waits, and the  *)
(* requests are numbered in the order they were submitted.                 *)
WorkerInv ==
    /\ expanding <=> pc = "walk"
    /\ pc \in {"check", "run"} => job \in DOMAIN jobs
    /\ pc \in {"pop", "walk"} => WithStatus("PENDING") = {}

NumbersInv ==
    /\ \A i \in DOMAIN jobs : jobs[i].req <= submitted
    /\ \A k \in 1..Len(requests) : requests[k].num <= submitted
    /\ \A k, l \in 1..Len(requests) : k < l => requests[k].num < requests[l].num
    /\ pc = "walk" => /\ request.num <= submitted
                      /\ \A k \in 1..Len(requests) : request.num < requests[k].num

IInv ==
    /\ ListTypeOK
    /\ BacklogTypeOK
    /\ ControlTypeOK
    /\ OneDrain
    /\ NoStrandedWork
    /\ ActiveIsNamed
    /\ RequestsAfterJobs
    /\ JobsInOrder
    /\ CancelledWasAsked
    /\ WorkerInv
    /\ NumbersInv

----------------------------------------------------------------------------
(* What the operations on the job list do to it. *)

(* One job gets a new status; nothing else of the list changes. *)
LEMMA SetStatusFacts ==
    ASSUME jobs \in [DOMAIN jobs -> Job], NEW i \in DOMAIN jobs, NEW s \in Status
    PROVE  /\ DOMAIN SetStatus(i, s) = DOMAIN jobs
           /\ SetStatus(i, s) \in [DOMAIN jobs -> Job]
           /\ SetStatus(i, s)[i].status = s
           /\ \A k \in DOMAIN jobs : /\ k # i => SetStatus(i, s)[k] = jobs[k]
                                     /\ SetStatus(i, s)[k].req = jobs[k].req
                                     /\ SetStatus(i, s)[k].direction = jobs[k].direction
  BY DEF SetStatus, Job

(* Every waiting job is CANCELLED; nothing else of the list changes. *)
LEMMA PendingCancelledFacts ==
    ASSUME jobs \in [DOMAIN jobs -> Job]
    PROVE  /\ DOMAIN PendingCancelled = DOMAIN jobs
           /\ PendingCancelled \in [DOMAIN jobs -> Job]
           /\ \A k \in DOMAIN jobs :
                 /\ PendingCancelled[k].status =
                       IF jobs[k].status = "PENDING" THEN "CANCELLED" ELSE jobs[k].status
                 /\ PendingCancelled[k].req = jobs[k].req
  BY DEF PendingCancelled, Job, Status

(* New jobs are PENDING, of their request, and none replaces an old one. *)
LEMMA AppendedFacts ==
    ASSUME jobs \in [DOMAIN jobs -> Job], DOMAIN jobs \subseteq 1..(nextId - 1),
           nextId \in Nat \ {0}, NEW n \in Nat, NEW r \in Request
    PROVE  /\ DOMAIN Appended(n, r) = DOMAIN jobs \cup nextId..(nextId + n - 1)
           /\ Appended(n, r) \in [DOMAIN Appended(n, r) -> Job]
           /\ \A k \in DOMAIN jobs : Appended(n, r)[k] = jobs[k]
           /\ \A k \in nextId..(nextId + n - 1) :
                 /\ k \notin DOMAIN jobs
                 /\ Appended(n, r)[k].req = r.num
                 /\ Appended(n, r)[k].status = "PENDING"
  <1>1. DOMAIN Appended(n, r) = DOMAIN jobs \cup nextId..(nextId + n - 1)
    BY DEF Appended
  <1>2. [req |-> r.num, direction |-> r.direction, status |-> "PENDING"] \in Job
    BY DEF Request, Job, Status
  <1>3. QED
    BY <1>1, <1>2 DEF Appended

----------------------------------------------------------------------------
(* Every action preserves IInv. *)

(* What a step leaves alone stays true: each part of IInv, with the        *)
(* variables it is about.                                                  *)
LEMMA Kept ==
    ASSUME IInv
    PROVE  /\ UNCHANGED <<jobs, nextId, activeId, job, asked>> => ListTypeOK'
           /\ UNCHANGED <<requests, request, submitted, dropped>> => BacklogTypeOK'
           /\ UNCHANGED <<draining, expanding, cancelActive, paused, pc, alive, uiPc, posted>> =>
                 ControlTypeOK'
           /\ UNCHANGED <<draining, pc, uiPc, posted>> => OneDrain'
           /\ UNCHANGED <<jobs, requests, draining, paused>> => NoStrandedWork'
           /\ UNCHANGED <<jobs, activeId, pc, job>> => ActiveIsNamed'
           /\ UNCHANGED <<jobs, requests, pc>> => RequestsAfterJobs'
           /\ UNCHANGED jobs => JobsInOrder'
           /\ UNCHANGED <<jobs, activeId, cancelActive, asked>> => CancelledWasAsked'
           /\ UNCHANGED <<jobs, expanding, pc, job>> => WorkerInv'
           /\ UNCHANGED <<jobs, requests, pc, request, submitted>> => NumbersInv'
  <1>1. UNCHANGED <<jobs, nextId, activeId, job, asked>> => ListTypeOK'
    BY DEF IInv, ListTypeOK
  <1>2. UNCHANGED <<requests, request, submitted, dropped>> => BacklogTypeOK'
    BY DEF IInv, BacklogTypeOK
  <1>3. UNCHANGED <<draining, expanding, cancelActive, paused, pc, alive, uiPc, posted>> =>
     ControlTypeOK'
    BY DEF IInv, ControlTypeOK
  <1>4. UNCHANGED <<draining, pc, uiPc, posted>> => OneDrain'
    BY DEF IInv, OneDrain
  <1>5. UNCHANGED <<jobs, requests, draining, paused>> => NoStrandedWork'
    BY DEF IInv, NoStrandedWork, HaveWork, WithStatus
  <1>6. UNCHANGED <<jobs, activeId, pc, job>> => ActiveIsNamed'
    BY DEF IInv, ActiveIsNamed, WithStatus
  <1>7. UNCHANGED <<jobs, requests, pc>> => RequestsAfterJobs'
    BY DEF IInv, RequestsAfterJobs, WithStatus
  <1>8. UNCHANGED jobs => JobsInOrder'
    BY DEF IInv, JobsInOrder
  <1>9. UNCHANGED <<jobs, activeId, cancelActive, asked>> => CancelledWasAsked'
    BY DEF IInv, CancelledWasAsked, WithStatus
  <1>10. UNCHANGED <<jobs, expanding, pc, job>> => WorkerInv'
    BY DEF IInv, WorkerInv, WithStatus
  <1>11. UNCHANGED <<jobs, requests, pc, request, submitted>> => NumbersInv'
    BY DEF IInv, NumbersInv
  <1>12. QED
    BY <1>1, <1>2, <1>3, <1>4, <1>5, <1>6, <1>7, <1>8, <1>9, <1>10, <1>11

(* enqueue(): the new request is the last and the newest, and it has a     *)
(* drain.                                                                  *)
LEMMA EnqueueStep ==
    ASSUME IInv, NEW d \in Directions, Enqueue(d)
    PROVE  IInv'
  <1>a. /\ requests' \in Seq(Request)
        /\ Len(requests') = Len(requests) + 1
        /\ \A k \in 1..Len(requests) : requests'[k] = requests[k]
        /\ requests'[Len(requests) + 1].num = submitted + 1
    <2>1. [num |-> submitted + 1, direction |-> d] \in Request
      BY BoundsAssumption, DirectionsAssumption
      DEF IInv, BacklogTypeOK, Enqueue, Request, AllDirections
    <2>2. QED
      BY <2>1 DEF IInv, BacklogTypeOK, Enqueue
  <1>1. BacklogTypeOK'
    BY <1>a, BoundsAssumption DEF IInv, BacklogTypeOK, Enqueue, StartIf, locals, history
  <1>2. ControlTypeOK'
    BY <1>a DEF IInv, ControlTypeOK, OneDrain, Enqueue, StartIf, locals, history
  <1>3. OneDrain'
    BY <1>a DEF IInv, ControlTypeOK, OneDrain, Enqueue, StartIf, locals, history
  <1>4. NoStrandedWork'
    BY <1>a DEF IInv, ListTypeOK, ControlTypeOK, NoStrandedWork, WorkerInv, OneDrain,
       HaveWork, WithStatus, Enqueue, StartIf, locals, history
  <1>5. RequestsAfterJobs'
    <2>1. ASSUME NEW k \in 1..Len(requests'), NEW i \in DOMAIN jobs
          PROVE  jobs[i].req < requests'[k].num
      <3>1. CASE k \in 1..Len(requests)
        BY <3>1, <1>a DEF IInv, RequestsAfterJobs
      <3>2. CASE k = Len(requests) + 1
        BY <3>2, <1>a DEF IInv, ListTypeOK, BacklogTypeOK, NumbersInv, Job
      <3>3. QED
        BY <3>1, <3>2, <1>a DEF IInv, BacklogTypeOK
    <2>2. QED
      BY <2>1 DEF IInv, RequestsAfterJobs, WithStatus, Enqueue, locals
  <1>6. NumbersInv'
    <2>1. \A k \in 1..Len(requests') :
             \/ k \in 1..Len(requests) /\ requests'[k] = requests[k]
             \/ k = Len(requests) + 1 /\ requests'[k].num = submitted + 1
      BY <1>a DEF IInv, BacklogTypeOK
    <2>2. \A k \in 1..Len(requests) : requests[k].num \in Nat
      <3>1. \A k \in 1..Len(requests) : requests[k] \in Request
        BY DEF IInv, BacklogTypeOK
      <3>2. QED
        BY <3>1, BoundsAssumption DEF Request
    <2>3. submitted' = submitted + 1 /\ submitted \in Nat /\ Len(requests) \in Nat
      BY DEF IInv, BacklogTypeOK, Enqueue
    <2>4. \A i \in DOMAIN jobs : jobs[i].req \in Nat
      BY DEF IInv, ListTypeOK, Job
    <2>5. request.num \in Nat
      BY DEF IInv, BacklogTypeOK, Request
    <2>6. QED
      BY <2>1, <2>2, <2>3, <2>4, <2>5 DEF IInv, NumbersInv, Enqueue, locals
  <1>7. UNCHANGED <<jobs, nextId, expanding, activeId, cancelActive, pc, job, asked>>
    BY DEF Enqueue, StartIf, locals, history
  <1>8. QED
    BY <1>1, <1>2, <1>3, <1>4, <1>5, <1>6, <1>7, Kept DEF IInv

(* session::post(): the drain about to be posted is posted. *)
LEMMA PostDrainStep ==
    ASSUME IInv, PostDrain
    PROVE  IInv'
  <1>1. ControlTypeOK'
    BY DEF IInv, ControlTypeOK, OneDrain, PostDrain, shared, locals, history
  <1>2. OneDrain'
    BY DEF IInv, ControlTypeOK, OneDrain, PostDrain, shared, locals, history
  <1>3. UNCHANGED <<jobs, requests, nextId, draining, expanding, activeId, cancelActive,
     paused, pc, request, job, submitted, asked, dropped>>
    BY DEF PostDrain, shared, locals, history
  <1>4. QED
    BY <1>1, <1>2, <1>3, Kept DEF IInv

(* pause() *)
LEMMA PauseStep ==
    ASSUME IInv, Pause
    PROVE  IInv'
  <1>1. ControlTypeOK'
    BY DEF IInv, ControlTypeOK, OneDrain, Pause, locals, history
  <1>2. NoStrandedWork'
    BY DEF IInv, ListTypeOK, ControlTypeOK, NoStrandedWork, WorkerInv, OneDrain, HaveWork,
       WithStatus, Pause, locals, history
  <1>3. UNCHANGED <<jobs, requests, nextId, draining, expanding, activeId, cancelActive, pc,
     request, job, uiPc, posted, submitted, asked, dropped>>
    BY DEF Pause, locals, history
  <1>4. QED
    BY <1>1, <1>2, <1>3, Kept DEF IInv

(* resume() finds the waiting work a drain, or makes one. *)
LEMMA ResumeStep ==
    ASSUME IInv, Resume
    PROVE  IInv'
  <1>1. ControlTypeOK'
    BY DEF IInv, ControlTypeOK, OneDrain, Resume, StartIf, HaveWork, locals, history
  <1>2. OneDrain'
    BY DEF IInv, ControlTypeOK, OneDrain, Resume, StartIf, HaveWork, locals, history
  <1>3. NoStrandedWork'
    BY DEF IInv, ListTypeOK, ControlTypeOK, NoStrandedWork, WorkerInv, OneDrain, HaveWork,
       WithStatus, Resume, StartIf, HaveWork, locals, history
  <1>4. UNCHANGED <<jobs, requests, nextId, expanding, activeId, cancelActive, pc, request,
     job, submitted, asked, dropped>>
    BY DEF Resume, StartIf, HaveWork, locals, history
  <1>5. QED
    BY <1>1, <1>2, <1>3, <1>4, Kept DEF IInv

(* cancel(): a PENDING job is finished on the spot, the active one is told. *)
LEMMA CancelStep ==
    ASSUME IInv, NEW i \in DOMAIN jobs, Cancel(i)
    PROVE  IInv'
  <1>a. jobs[i].status = "PENDING" =>
          /\ DOMAIN jobs' = DOMAIN jobs
          /\ jobs' \in [DOMAIN jobs -> Job]
          /\ i \in DOMAIN jobs
          /\ jobs'[i].status = "CANCELLED"
          /\ \A k \in DOMAIN jobs : /\ k # i => jobs'[k] = jobs[k]
                                    /\ jobs'[k].req = jobs[k].req
    BY SetStatusFacts DEF IInv, ListTypeOK, WorkerInv, Status, Cancel
  <1>1. ListTypeOK'
    BY <1>a, BoundsAssumption DEF IInv, ListTypeOK, ActiveIsNamed, WorkerInv, WithStatus,
       Cancel, locals, history
  <1>2. ControlTypeOK'
    BY <1>a DEF IInv, ControlTypeOK, OneDrain, Cancel, locals, history
  <1>3. NoStrandedWork'
    BY <1>a DEF IInv, ListTypeOK, ControlTypeOK, NoStrandedWork, WorkerInv, OneDrain,
       HaveWork, WithStatus, Cancel, locals, history
  <1>4. ActiveIsNamed'
    BY <1>a DEF IInv, ListTypeOK, ControlTypeOK, ActiveIsNamed, WorkerInv, WithStatus,
       Cancel, locals, history
  <1>5. RequestsAfterJobs'
    BY <1>a DEF IInv, ListTypeOK, BacklogTypeOK, RequestsAfterJobs, ActiveIsNamed,
       WorkerInv, NumbersInv, WithStatus, Cancel, locals, history
  <1>6. JobsInOrder'
    BY <1>a DEF IInv, ListTypeOK, JobsInOrder, ActiveIsNamed, WorkerInv, WithStatus,
       Finished, Cancel, locals, history
  <1>7. CancelledWasAsked'
    BY <1>a DEF IInv, ListTypeOK, ControlTypeOK, CancelledWasAsked, ActiveIsNamed,
       WorkerInv, WithStatus, Cancel, locals, history
  <1>8. WorkerInv'
    BY <1>a DEF IInv, ListTypeOK, ControlTypeOK, WorkerInv, ActiveIsNamed, WithStatus,
       Cancel, locals, history
  <1>9. NumbersInv'
    BY <1>a, BoundsAssumption DEF IInv, ListTypeOK, BacklogTypeOK, NumbersInv, WorkerInv,
       Cancel, locals, history
  <1>10. UNCHANGED <<requests, draining, pc, request, uiPc, posted, submitted, dropped>>
    BY DEF Cancel, locals, history
  <1>11. QED
    BY <1>1, <1>2, <1>3, <1>4, <1>5, <1>6, <1>7, <1>8, <1>9, <1>10, Kept DEF IInv

(* What cancelPending() and cancelAll() have in common: every job that     *)
(* waits is finished, and every request that waits is gone.                *)
LEMMA RestCancelled ==
    ASSUME IInv, requests' = << >>, jobs' = PendingCancelled,
           asked' \in {asked \cup WithStatus("PENDING"),
                      asked \cup WithStatus("PENDING") \cup WithStatus("ACTIVE")},
           cancelActive' \in BOOLEAN,
           cancelActive' => cancelActive \/ WithStatus("ACTIVE") \subseteq asked',
           dropped' = dropped \cup Unwalked,
           UNCHANGED <<nextId, draining, expanding, activeId, paused, pc, request, job, alive,
                       uiPc, posted, submitted>>
    PROVE  IInv'
  <1>a. /\ DOMAIN jobs' = DOMAIN jobs
        /\ jobs' \in [DOMAIN jobs -> Job]
        /\ \A k \in DOMAIN jobs :
              /\ jobs'[k].status =
                    IF jobs[k].status = "PENDING" THEN "CANCELLED" ELSE jobs[k].status
              /\ jobs'[k].req = jobs[k].req
    BY PendingCancelledFacts DEF IInv, ListTypeOK
  <1>1. ListTypeOK'
    BY <1>a, BoundsAssumption DEF IInv, ListTypeOK, ActiveIsNamed, WorkerInv, WithStatus
  <1>2. BacklogTypeOK'
    <2>1. \A k \in 1..Len(requests) : requests[k] \in Request
      BY DEF IInv, BacklogTypeOK
    <2>2. Unwalked \subseteq 0..MaxRequests
      BY <2>1 DEF IInv, BacklogTypeOK, Request, Unwalked
    <2>3. QED
      BY <2>2 DEF IInv, BacklogTypeOK
  <1>3. ControlTypeOK'
    BY <1>a DEF IInv, ControlTypeOK, OneDrain
  <1>4. NoStrandedWork'
    BY <1>a DEF IInv, ListTypeOK, ControlTypeOK, NoStrandedWork, WorkerInv, OneDrain,
       HaveWork, WithStatus
  <1>5. ActiveIsNamed'
    BY <1>a DEF IInv, ListTypeOK, ControlTypeOK, ActiveIsNamed, WorkerInv, WithStatus
  <1>6. RequestsAfterJobs'
    BY <1>a DEF IInv, ListTypeOK, BacklogTypeOK, RequestsAfterJobs, ActiveIsNamed,
       WorkerInv, NumbersInv, WithStatus
  <1>7. JobsInOrder'
    BY <1>a DEF IInv, ListTypeOK, JobsInOrder, ActiveIsNamed, WorkerInv, WithStatus,
       Finished
  <1>8. CancelledWasAsked'
    BY <1>a DEF IInv, ListTypeOK, ControlTypeOK, CancelledWasAsked, ActiveIsNamed,
       WorkerInv, WithStatus
  <1>9. WorkerInv'
    BY <1>a DEF IInv, ListTypeOK, ControlTypeOK, WorkerInv, ActiveIsNamed, WithStatus
  <1>10. NumbersInv'
    BY <1>a DEF IInv, NumbersInv
  <1>11. UNCHANGED <<draining, pc, uiPc, posted>>
    OBVIOUS
  <1>12. QED
    BY <1>1, <1>2, <1>3, <1>4, <1>5, <1>6, <1>7, <1>8, <1>9, <1>10, <1>11, Kept DEF IInv

(* cancelPending() *)
LEMMA CancelPendingStep ==
    ASSUME IInv, CancelPending
    PROVE  IInv'
  <1>1. cancelActive' \in BOOLEAN
    BY DEF IInv, ControlTypeOK, CancelPending
  <1>2. QED
    BY <1>1, RestCancelled DEF CancelPending, locals

(* cancelAll() *)
LEMMA CancelAllStep ==
    ASSUME IInv, CancelAll
    PROVE  IInv'
  <1>1. WithStatus("ACTIVE") \subseteq asked'
    BY DEF CancelAll
  <1>2. QED
    BY <1>1, RestCancelled DEF CancelAll, locals

(* clearFinished() takes away neither a waiting job nor the active one. *)
LEMMA ClearFinishedStep ==
    ASSUME IInv, ClearFinished
    PROVE  IInv'
  <1>a. /\ DOMAIN jobs' = {k \in DOMAIN jobs : jobs[k].status \in {"PENDING", "ACTIVE"}}
        /\ jobs' \in [DOMAIN jobs' -> Job]
        /\ \A k \in DOMAIN jobs' : jobs'[k] = jobs[k]
    BY DEF IInv, ListTypeOK, ClearFinished, Unfinished, WithStatus
  <1>1. ListTypeOK'
    BY <1>a, BoundsAssumption DEF IInv, ListTypeOK, ActiveIsNamed, WorkerInv, WithStatus,
       ClearFinished, Unfinished, locals, history
  <1>2. NoStrandedWork'
    BY <1>a DEF IInv, ListTypeOK, ControlTypeOK, NoStrandedWork, WorkerInv, OneDrain,
       HaveWork, WithStatus, ClearFinished, Unfinished, locals, history
  <1>3. ActiveIsNamed'
    BY <1>a DEF IInv, ListTypeOK, ControlTypeOK, ActiveIsNamed, WorkerInv, WithStatus,
       ClearFinished, Unfinished, locals, history
  <1>4. RequestsAfterJobs'
    BY <1>a DEF IInv, ListTypeOK, BacklogTypeOK, RequestsAfterJobs, ActiveIsNamed,
       WorkerInv, NumbersInv, WithStatus, ClearFinished, Unfinished, locals, history
  <1>5. JobsInOrder'
    BY <1>a DEF IInv, ListTypeOK, JobsInOrder, ActiveIsNamed, WorkerInv, WithStatus,
       Finished, ClearFinished, Unfinished, locals, history
  <1>6. CancelledWasAsked'
    BY <1>a DEF IInv, ListTypeOK, ControlTypeOK, CancelledWasAsked, ActiveIsNamed,
       WorkerInv, WithStatus, ClearFinished, Unfinished, locals, history
  <1>7. WorkerInv'
    BY <1>a DEF IInv, ListTypeOK, ControlTypeOK, WorkerInv, ActiveIsNamed, WithStatus,
       ClearFinished, Unfinished, locals, history
  <1>8. NumbersInv'
    BY <1>a, BoundsAssumption DEF IInv, ListTypeOK, BacklogTypeOK, NumbersInv, WorkerInv,
       ClearFinished, Unfinished, locals, history
  <1>9. UNCHANGED <<requests, draining, expanding, cancelActive, paused, pc, request, alive,
     uiPc, posted, submitted, dropped>>
    BY DEF ClearFinished, Unfinished, locals, history
  <1>10. QED
    BY <1>1, <1>2, <1>3, <1>4, <1>5, <1>6, <1>7, <1>8, <1>9, Kept DEF IInv

(* The worker takes the drain task. *)
LEMMA BeginDrainStep ==
    ASSUME IInv, BeginDrain
    PROVE  IInv'
  <1>1. ControlTypeOK'
    BY DEF IInv, ControlTypeOK, OneDrain, BeginDrain, shared, history
  <1>2. OneDrain'
    BY DEF IInv, ControlTypeOK, OneDrain, BeginDrain, shared, history
  <1>3. ActiveIsNamed'
    BY DEF IInv, ListTypeOK, ControlTypeOK, ActiveIsNamed, WorkerInv, WithStatus,
       BeginDrain, shared, history
  <1>4. RequestsAfterJobs'
    BY DEF IInv, ListTypeOK, BacklogTypeOK, RequestsAfterJobs, ActiveIsNamed, WorkerInv,
       NumbersInv, WithStatus, BeginDrain, shared, history
  <1>5. WorkerInv'
    BY DEF IInv, ListTypeOK, ControlTypeOK, WorkerInv, ActiveIsNamed, WithStatus,
       BeginDrain, shared, history
  <1>6. NumbersInv'
    BY BoundsAssumption DEF IInv, ListTypeOK, BacklogTypeOK, NumbersInv, WorkerInv,
       BeginDrain, shared, history
  <1>7. UNCHANGED <<jobs, requests, nextId, draining, activeId, cancelActive, paused,
     request, job, submitted, asked, dropped>>
    BY DEF BeginDrain, shared, history
  <1>8. QED
    BY <1>1, <1>2, <1>3, <1>4, <1>5, <1>6, <1>7, Kept DEF IInv

(* drain() takes the first PENDING job, finds none, or unwinds. *)
LEMMA PickStep ==
    ASSUME IInv, Pick
    PROVE  IInv'
  <1>a. pc = "pick" /\ activeId = 0 /\ \A k \in DOMAIN jobs : jobs[k].status # "ACTIVE"
    BY DEF IInv, ActiveIsNamed, WithStatus, Pick
  <1>b. \/ UNCHANGED jobs /\ activeId' = 0 /\ pc' \in {"idle", "pop"}
        \/ /\ job' \in DOMAIN jobs /\ IsNext(job') /\ activeId' = job' /\ pc' = "check"
           /\ DOMAIN jobs' = DOMAIN jobs
           /\ jobs' \in [DOMAIN jobs -> Job]
           /\ jobs'[job'].status = "ACTIVE"
           /\ \A k \in DOMAIN jobs : /\ k # job' => jobs'[k] = jobs[k]
                                     /\ jobs'[k].req = jobs[k].req
    BY <1>a, SetStatusFacts DEF IInv, ListTypeOK, Status, Pick, ReturnFromDrain
  <1>1. ListTypeOK'
    BY <1>b, <1>a, BoundsAssumption DEF IInv, ListTypeOK, ActiveIsNamed, WorkerInv,
       WithStatus, Pick, Held, CancelConsumed, ReturnFromDrain, NoJobWaits, IsNext, history
  <1>2. ControlTypeOK'
    BY <1>b, <1>a DEF IInv, ControlTypeOK, OneDrain, Pick, Held, CancelConsumed,
       ReturnFromDrain, NoJobWaits, IsNext, history
  <1>3. OneDrain'
    BY <1>b, <1>a DEF IInv, ControlTypeOK, OneDrain, Pick, Held, CancelConsumed,
       ReturnFromDrain, NoJobWaits, IsNext, history
  <1>4. NoStrandedWork'
    BY <1>b, <1>a DEF IInv, ListTypeOK, ControlTypeOK, NoStrandedWork, WorkerInv, OneDrain,
       HaveWork, WithStatus, Pick, Held, CancelConsumed, ReturnFromDrain, NoJobWaits,
       IsNext, history
  <1>5. ActiveIsNamed'
    BY <1>b, <1>a DEF IInv, ListTypeOK, ActiveIsNamed, WithStatus
  <1>6. RequestsAfterJobs'
    BY <1>b, <1>a DEF IInv, ListTypeOK, BacklogTypeOK, RequestsAfterJobs, ActiveIsNamed,
       WorkerInv, NumbersInv, WithStatus, Pick, Held, CancelConsumed, ReturnFromDrain,
       NoJobWaits, IsNext, history
  <1>7. JobsInOrder'
    <2>1. CASE UNCHANGED jobs
      BY <2>1 DEF IInv, JobsInOrder
    <2>2. CASE job' \in DOMAIN jobs /\ IsNext(job') /\ ~UNCHANGED jobs
      <3>1. jobs[job'].status = "PENDING"
        BY <2>2 DEF IsNext, WithStatus
      <3>2. \A k \in DOMAIN jobs : k < job' => jobs[k].status \in Finished
        BY <2>2, <1>a DEF IInv, ListTypeOK, IsNext, WithStatus, Finished, Job, Status
      <3>3. QED
        BY <3>1, <3>2, <2>2, <1>b, <1>a DEF IInv, ListTypeOK, JobsInOrder, Finished
    <2>3. QED
      BY <2>1, <2>2, <1>b
  <1>8. CancelledWasAsked'
    BY <1>b, <1>a DEF IInv, ListTypeOK, ControlTypeOK, CancelledWasAsked, ActiveIsNamed,
       WorkerInv, WithStatus, Pick, Held, CancelConsumed, ReturnFromDrain, NoJobWaits,
       IsNext, history
  <1>9. WorkerInv'
    BY <1>b, <1>a DEF IInv, ListTypeOK, ControlTypeOK, WorkerInv, ActiveIsNamed, WithStatus,
       Pick, Held, CancelConsumed, ReturnFromDrain, NoJobWaits, IsNext, history
  <1>10. NumbersInv'
    BY <1>b, <1>a, BoundsAssumption DEF IInv, ListTypeOK, BacklogTypeOK, NumbersInv,
       WorkerInv, Pick, Held, CancelConsumed, ReturnFromDrain, NoJobWaits, IsNext, history
  <1>11. UNCHANGED <<requests, request, submitted, dropped>>
    BY DEF Pick, Held, CancelConsumed, ReturnFromDrain, NoJobWaits, IsNext, history
  <1>12. QED
    BY <1>1, <1>2, <1>3, <1>4, <1>5, <1>6, <1>7, <1>8, <1>9, <1>10, <1>11, Kept DEF IInv

(* drain() takes the next request, which is older than those it leaves. *)
LEMMA PopStep ==
    ASSUME IInv, Pop
    PROVE  IInv'
  <1>a. requests # << >> =>
          /\ Head(requests) = requests[1] /\ Head(requests) \in Request
          /\ Len(requests) \in Nat /\ Len(requests) > 0
          /\ Tail(requests) \in Seq(Request)
          /\ Len(Tail(requests)) = Len(requests) - 1
          /\ \A k \in 1..Len(Tail(requests)) : Tail(requests)[k] = requests[k + 1]
    BY DEF IInv, BacklogTypeOK
  <1>1. ListTypeOK'
    BY <1>a, BoundsAssumption DEF IInv, ListTypeOK, ActiveIsNamed, WorkerInv, WithStatus,
       Pop, ReturnFromDrain, history
  <1>2. BacklogTypeOK'
    BY <1>a, BoundsAssumption DEF IInv, BacklogTypeOK, Pop, ReturnFromDrain, history
  <1>3. ControlTypeOK'
    BY <1>a DEF IInv, ControlTypeOK, OneDrain, Pop, ReturnFromDrain, history
  <1>4. OneDrain'
    BY <1>a DEF IInv, ControlTypeOK, OneDrain, Pop, ReturnFromDrain, history
  <1>5. NoStrandedWork'
    BY <1>a DEF IInv, ListTypeOK, ControlTypeOK, NoStrandedWork, WorkerInv, OneDrain,
       HaveWork, WithStatus, Pop, ReturnFromDrain, history
  <1>6. ActiveIsNamed'
    BY <1>a DEF IInv, ListTypeOK, ControlTypeOK, ActiveIsNamed, WorkerInv, WithStatus, Pop,
       ReturnFromDrain, history
  <1>7. RequestsAfterJobs'
    BY <1>a DEF IInv, BacklogTypeOK, RequestsAfterJobs, ActiveIsNamed, WorkerInv, WithStatus,
       Pop, ReturnFromDrain
  <1>8. CancelledWasAsked'
    BY <1>a DEF IInv, ListTypeOK, ControlTypeOK, CancelledWasAsked, ActiveIsNamed,
       WorkerInv, WithStatus, Pop, ReturnFromDrain, history
  <1>9. WorkerInv'
    BY <1>a DEF IInv, ListTypeOK, ControlTypeOK, WorkerInv, ActiveIsNamed, WithStatus, Pop,
       ReturnFromDrain, history
  <1>10. NumbersInv'
    <2>1. CASE requests = << >>
      BY <2>1 DEF IInv, NumbersInv, Pop, ReturnFromDrain, history
    <2>2. CASE requests # << >>
      <3>1. /\ requests' = Tail(requests) /\ request' = requests[1]
            /\ Len(requests) \in Nat /\ UNCHANGED <<jobs, submitted>>
        BY <2>2, <1>a DEF Pop, history
      <3>2. \A k \in 1..Len(requests') : /\ requests'[k] = requests[k + 1]
                                         /\ k + 1 \in 1..Len(requests) /\ 1 < k + 1
        BY <3>1, <2>2, <1>a
      <3>3. 1 \in 1..Len(requests)
        BY <2>2, <1>a
      <3>4. QED
        BY <3>1, <3>2, <3>3 DEF IInv, NumbersInv
    <2>3. QED
      BY <2>1, <2>2
  <1>11. UNCHANGED <<jobs>>
    BY DEF Pop, ReturnFromDrain, history
  <1>12. QED
    BY <1>1, <1>2, <1>3, <1>4, <1>5, <1>6, <1>7, <1>8, <1>9, <1>10, <1>11, Kept DEF IInv

(* A walk that fails adds no job. *)
LEMMA WalkFailsStep ==
    ASSUME IInv, WalkFails
    PROVE  IInv'
  <1>1. ControlTypeOK'
    BY DEF IInv, ControlTypeOK, OneDrain, WalkFails, history
  <1>2. OneDrain'
    BY DEF IInv, ControlTypeOK, OneDrain, WalkFails, history
  <1>3. ActiveIsNamed'
    BY DEF IInv, ListTypeOK, ControlTypeOK, ActiveIsNamed, WorkerInv, WithStatus, WalkFails,
       history
  <1>4. RequestsAfterJobs'
    BY DEF IInv, ListTypeOK, BacklogTypeOK, RequestsAfterJobs, ActiveIsNamed, WorkerInv,
       NumbersInv, WithStatus, WalkFails, history
  <1>5. WorkerInv'
    BY DEF IInv, ListTypeOK, ControlTypeOK, WorkerInv, ActiveIsNamed, WithStatus, WalkFails,
       history
  <1>6. NumbersInv'
    BY BoundsAssumption DEF IInv, ListTypeOK, BacklogTypeOK, NumbersInv, WorkerInv,
       WalkFails, history
  <1>7. UNCHANGED <<jobs, requests, nextId, draining, activeId, cancelActive, paused,
     request, job, submitted, asked, dropped>>
    BY DEF WalkFails, history
  <1>8. QED
    BY <1>1, <1>2, <1>3, <1>4, <1>5, <1>6, <1>7, Kept DEF IInv

(* A walk that ends adds its jobs behind all others. *)
LEMMA WalkEndsStep ==
    ASSUME IInv, NEW n \in 0..MaxWalk, WalkEnds(n)
    PROVE  IInv'
  <1>a. /\ DOMAIN jobs' = DOMAIN jobs \cup nextId..(nextId + n - 1)
        /\ jobs' \in [DOMAIN jobs' -> Job]
        /\ \A k \in DOMAIN jobs : jobs'[k] = jobs[k]
        /\ \A k \in nextId..(nextId + n - 1) : /\ k \notin DOMAIN jobs
                                               /\ jobs'[k].req = request.num
                                               /\ jobs'[k].status = "PENDING"
    <2>1. n \in Nat /\ nextId \in Nat \ {0}
      BY BoundsAssumption DEF IInv, ListTypeOK
    <2>2. /\ jobs \in [DOMAIN jobs -> Job] /\ DOMAIN jobs \subseteq 1..(nextId - 1)
          /\ request \in Request /\ jobs' = Appended(n, request)
      BY DEF IInv, ListTypeOK, BacklogTypeOK, WalkEnds
    <2>3. /\ DOMAIN Appended(n, request) = DOMAIN jobs \cup nextId..(nextId + n - 1)
          /\ Appended(n, request) \in [DOMAIN Appended(n, request) -> Job]
          /\ \A k \in DOMAIN jobs : Appended(n, request)[k] = jobs[k]
          /\ \A k \in nextId..(nextId + n - 1) :
                /\ k \notin DOMAIN jobs
                /\ Appended(n, request)[k].req = request.num
                /\ Appended(n, request)[k].status = "PENDING"
      BY <2>1, <2>2, AppendedFacts
    <2>4. QED
      BY <2>2, <2>3
  <1>1. ListTypeOK'
    BY <1>a, BoundsAssumption DEF IInv, ListTypeOK, ActiveIsNamed,
       WorkerInv, WithStatus, WalkEnds, history
  <1>2. ControlTypeOK'
    BY <1>a, BoundsAssumption DEF IInv, ControlTypeOK, OneDrain, WalkEnds, history
  <1>3. OneDrain'
    BY <1>a, BoundsAssumption DEF IInv, ControlTypeOK, OneDrain, WalkEnds, history
  <1>4. NoStrandedWork'
    BY <1>a, BoundsAssumption DEF IInv, ListTypeOK, ControlTypeOK, NoStrandedWork,
       WorkerInv, OneDrain, HaveWork, WithStatus, WalkEnds, history
  <1>5. ActiveIsNamed'
    BY <1>a, BoundsAssumption DEF IInv, ListTypeOK, ControlTypeOK, ActiveIsNamed, WorkerInv,
       WithStatus, WalkEnds, history
  <1>6. RequestsAfterJobs'
    BY <1>a DEF IInv, ListTypeOK, RequestsAfterJobs, WorkerInv, NumbersInv, WalkEnds
  <1>7. JobsInOrder'
    BY <1>a, BoundsAssumption DEF IInv, ListTypeOK, JobsInOrder, ActiveIsNamed, WorkerInv,
       WithStatus, Finished, WalkEnds, history
  <1>8. CancelledWasAsked'
    BY <1>a, BoundsAssumption DEF IInv, ListTypeOK, ControlTypeOK, CancelledWasAsked,
       ActiveIsNamed, WorkerInv, WithStatus, WalkEnds, history
  <1>9. WorkerInv'
    BY <1>a, BoundsAssumption DEF IInv, ListTypeOK, ControlTypeOK, WorkerInv, ActiveIsNamed,
       WithStatus, WalkEnds, history
  <1>10. NumbersInv'
    BY <1>a, BoundsAssumption DEF IInv, ListTypeOK, BacklogTypeOK,
       NumbersInv, WorkerInv, WalkEnds, history
  <1>11. UNCHANGED <<requests, request, submitted, dropped>>
    BY DEF WalkEnds, history
  <1>12. QED
    BY <1>1, <1>2, <1>3, <1>4, <1>5, <1>6, <1>7, <1>8, <1>9, <1>10, <1>11, Kept DEF IInv

(* The end of a job, tried or not: the active job gets its last status.    *)
LEMMA JobOver ==
    ASSUME IInv, NEW s \in Finished, pc \in {"check", "run"}, jobs' = SetStatus(job, s),
           s = "CANCELLED" => cancelActive,
           activeId' = 0, cancelActive' = FALSE, pc' = "pick",
           UNCHANGED <<requests, nextId, draining, expanding, paused, request, job, alive,
                       uiPc, posted, submitted, asked, dropped>>
    PROVE  IInv'
  <1>a. /\ DOMAIN jobs' = DOMAIN jobs
        /\ jobs' \in [DOMAIN jobs -> Job]
        /\ job \in DOMAIN jobs
        /\ jobs'[job].status = s
        /\ \A k \in DOMAIN jobs : /\ k # job => jobs'[k] = jobs[k]
                                  /\ jobs'[k].req = jobs[k].req
    BY SetStatusFacts DEF IInv, ListTypeOK, WorkerInv, Status, Finished
  <1>1. ListTypeOK'
    BY <1>a, BoundsAssumption DEF IInv, ListTypeOK, ActiveIsNamed, WorkerInv, WithStatus,
       Finished
  <1>2. ControlTypeOK'
    BY <1>a DEF IInv, ControlTypeOK, OneDrain, Finished
  <1>3. OneDrain'
    BY <1>a DEF IInv, ControlTypeOK, OneDrain, Finished
  <1>4. NoStrandedWork'
    BY <1>a DEF IInv, ListTypeOK, ControlTypeOK, NoStrandedWork, WorkerInv, OneDrain,
       HaveWork, WithStatus, Finished
  <1>5. ActiveIsNamed'
    BY <1>a DEF IInv, ListTypeOK, ControlTypeOK, ActiveIsNamed, WorkerInv, WithStatus,
       Finished
  <1>6. RequestsAfterJobs'
    BY <1>a DEF IInv, ListTypeOK, BacklogTypeOK, RequestsAfterJobs, ActiveIsNamed,
       WorkerInv, NumbersInv, WithStatus, Finished
  <1>7. JobsInOrder'
    BY <1>a DEF IInv, ListTypeOK, JobsInOrder, ActiveIsNamed, WorkerInv, WithStatus,
       Finished, Finished
  <1>8. CancelledWasAsked'
    BY <1>a DEF IInv, ListTypeOK, ControlTypeOK, CancelledWasAsked, ActiveIsNamed,
       WorkerInv, WithStatus, Finished
  <1>9. WorkerInv'
    BY <1>a DEF IInv, ListTypeOK, ControlTypeOK, WorkerInv, ActiveIsNamed, WithStatus,
       Finished
  <1>10. NumbersInv'
    BY <1>a, BoundsAssumption DEF IInv, ListTypeOK, BacklogTypeOK, NumbersInv, WorkerInv,
       Finished
  <1>11. UNCHANGED <<requests, request, submitted, dropped>>
    OBVIOUS
  <1>12. QED
    BY <1>1, <1>2, <1>3, <1>4, <1>5, <1>6, <1>7, <1>8, <1>9, <1>10, <1>11, Kept DEF IInv

(* A job whose session is gone fails. *)
LEMMA FailFastStep ==
    ASSUME IInv, FailFast
    PROVE  IInv'
  BY JobOver DEF FailFast, CancelConsumed, Finished, history

(* A job whose session is alive is run. *)
LEMMA StartJobStep ==
    ASSUME IInv, StartJob
    PROVE  IInv'
  <1>1. ControlTypeOK'
    BY DEF IInv, ControlTypeOK, OneDrain, StartJob, shared, history
  <1>2. OneDrain'
    BY DEF IInv, ControlTypeOK, OneDrain, StartJob, shared, history
  <1>3. ActiveIsNamed'
    BY DEF IInv, ListTypeOK, ControlTypeOK, ActiveIsNamed, WorkerInv, WithStatus, StartJob,
       shared, history
  <1>4. RequestsAfterJobs'
    BY DEF IInv, ListTypeOK, BacklogTypeOK, RequestsAfterJobs, ActiveIsNamed, WorkerInv,
       NumbersInv, WithStatus, StartJob, shared, history
  <1>5. WorkerInv'
    BY DEF IInv, ListTypeOK, ControlTypeOK, WorkerInv, ActiveIsNamed, WithStatus, StartJob,
       shared, history
  <1>6. NumbersInv'
    BY BoundsAssumption DEF IInv, ListTypeOK, BacklogTypeOK, NumbersInv, WorkerInv,
       StartJob, shared, history
  <1>7. UNCHANGED <<jobs, requests, nextId, draining, activeId, cancelActive, paused,
     request, job, submitted, asked, dropped>>
    BY DEF StartJob, shared, history
  <1>8. QED
    BY <1>1, <1>2, <1>3, <1>4, <1>5, <1>6, <1>7, Kept DEF IInv

(* A job that was run is done, cancelled or failed. *)
LEMMA JobEndsStep ==
    ASSUME IInv, NEW ok \in BOOLEAN, JobEnds(ok)
    PROVE  IInv'
  BY JobOver DEF JobEnds, CancelConsumed, Finished, history

(* The link matters to no part of the invariant but its type. *)
LEMMA AliveStep ==
    ASSUME IInv, alive' \in BOOLEAN, UNCHANGED <<shared, locals, uiPc, posted, history>>
    PROVE  IInv'
  <1>1. ControlTypeOK'
    BY DEF IInv, ControlTypeOK, shared, locals
  <1>2. UNCHANGED <<jobs, requests, nextId, draining, expanding, activeId, cancelActive,
                    paused, pc, request, job, uiPc, posted, submitted, asked, dropped>>
    BY DEF shared, locals, history
  <1>3. QED
    BY <1>1, <1>2, Kept DEF IInv

----------------------------------------------------------------------------
(* The invariant is inductive. *)

(* A step that changes nothing. *)
LEMMA StutterStep ==
    ASSUME IInv, UNCHANGED vars
    PROVE  IInv'
  BY Kept DEF IInv, vars

(* The empty queue. *)
LEMMA InitIInv == Init => IInv
  <1> SUFFICES ASSUME Init PROVE IInv
    OBVIOUS
  <1>1. DOMAIN jobs = {} /\ jobs \in [DOMAIN jobs -> Job]
    BY DEF Init
  <1>2. ListTypeOK
    BY <1>1, BoundsAssumption DEF Init, ListTypeOK
  <1>3. BacklogTypeOK
    BY BoundsAssumption DEF Init, BacklogTypeOK, NoRequest, Request, AllDirections
  <1>4. ControlTypeOK /\ OneDrain
    <2>1. posted \in 0..1 /\ OneDrain
      BY DEF Init, OneDrain
    <2>2. draining \in BOOLEAN /\ expanding \in BOOLEAN /\ cancelActive \in BOOLEAN
      BY DEF Init
    <2>3. paused \in BOOLEAN /\ alive \in BOOLEAN
      BY DEF Init
    <2>4. pc = "idle" /\ uiPc = "idle"
      BY DEF Init
    <2>5. QED
      BY <2>1, <2>2, <2>3, <2>4 DEF ControlTypeOK
  <1>5. NoStrandedWork /\ ActiveIsNamed /\ CancelledWasAsked /\ WorkerInv
    BY <1>1 DEF Init, NoStrandedWork, HaveWork, ActiveIsNamed, CancelledWasAsked, WorkerInv,
       WithStatus
  <1>6. RequestsAfterJobs /\ JobsInOrder /\ NumbersInv
    BY <1>1 DEF Init, RequestsAfterJobs, JobsInOrder, NumbersInv
  <1>7. QED
    BY <1>2, <1>3, <1>4, <1>5, <1>6 DEF IInv

(* One step of either thread. *)
LEMMA NextIInv == IInv /\ [Next]_vars => IInv'
  <1> SUFFICES ASSUME IInv, [Next]_vars PROVE IInv'
    OBVIOUS
  <1>1. CASE UI
    BY <1>1, EnqueueStep, PostDrainStep, PauseStep, ResumeStep, CancelStep, CancelPendingStep,
       CancelAllStep, ClearFinishedStep DEF UI
  <1>2. CASE Drain
    BY <1>2, BeginDrainStep, PickStep, PopStep, WalkFailsStep, WalkEndsStep, FailFastStep,
       StartJobStep, JobEndsStep DEF Drain
  <1>3. CASE LinkDrops
    BY <1>3, AliveStep DEF LinkDrops
  <1>4. CASE OtherTask
    BY <1>4, AliveStep DEF OtherTask
  <1>5. CASE UNCHANGED vars
    BY <1>5, StutterStep
  <1>6. QED
    BY <1>1, <1>2, <1>3, <1>4, <1>5 DEF Next

----------------------------------------------------------------------------
(* The results. *)

(* The inductive invariant holds in every reachable state of the queue,    *)
(* however the user's calls and the worker's sections interleave.          *)
THEOREM Invariance == Spec => []IInv
  BY InitIInv, NextIInv, PTL DEF Spec

(* Every variable keeps its type: no more than one drain is ever posted,   *)
(* s_activeId is 0 or the id of a job, ids stay below s_nextId.            *)
THEOREM TypeCorrect == Spec => []TypeOK
  <1>1. IInv => TypeOK
    BY DEF IInv, TypeOK
  <1>2. QED
    BY <1>1, Invariance, PTL

(* While s_draining is set there is exactly one drain task, about to be    *)
(* posted, posted or running; while it is clear there is none.             *)
THEOREM OneDrainAlways == Spec => []OneDrain
  <1>1. IInv => OneDrain
    BY DEF IInv
  <1>2. QED
    BY <1>1, Invariance, PTL

(* No enqueue() or resume() leaves its work behind a drain that returns.   *)
THEOREM NoWorkIsStranded == Spec => []NoStrandedWork
  <1>1. IInv => NoStrandedWork
    BY DEF IInv
  <1>2. QED
    BY <1>1, Invariance, PTL

(* At most one job runs, it is the one s_activeId names and drain() holds. *)
THEOREM ActiveIsAlwaysNamed == Spec => []ActiveIsNamed
  <1>1. IInv => ActiveIsNamed
    BY DEF IInv
  <1>2. QED
    BY <1>1, Invariance, PTL

(* A request is walked after every job of the requests ahead of it, and    *)
(* jobs run in the order they were queued.                                 *)
THEOREM WorkIsInOrder == Spec => [](RequestsAfterJobs /\ JobsInOrder)
  <1>1. IInv => RequestsAfterJobs /\ JobsInOrder
    BY DEF IInv
  <1>2. QED
    BY <1>1, Invariance, PTL

(* No job is CANCELLED by a cancellation that was meant for another.       *)
THEOREM CancellationsAreAsked == Spec => []CancelledWasAsked
  <1>1. IInv => CancelledWasAsked
    BY DEF IInv
  <1>2. QED
    BY <1>1, Invariance, PTL

(* active() is true from the moment a request is taken to the moment the   *)
(* last of its jobs has finished.                                          *)
THEOREM InFlightIsAlwaysActive == Spec => []InFlightIsActive
  <1>1. IInv => InFlightIsActive
    <2>1. ASSUME IInv, pc \in {"check", "run"} PROVE WithStatus("ACTIVE") # {}
      BY <2>1 DEF IInv, ListTypeOK, ActiveIsNamed, WorkerInv
    <2>2. ASSUME IInv, pc = "walk" PROVE expanding
      BY <2>2 DEF IInv, WorkerInv
    <2>3. QED
      BY <2>1, <2>2 DEF InFlightIsActive, IsActive, Unfinished
  <1>2. QED
    BY <1>1, Invariance, PTL

(* A job that finished never changes again, and its id is never reused.    *)
THEOREM FinishedStaysFinal == Spec => FinishedIsFinal
  <1> DEFINE Final ==
        /\ \A i \in DOMAIN jobs \cap DOMAIN jobs' :
              jobs[i].status \in Finished => jobs'[i] = jobs[i]
        /\ \A i \in DOMAIN jobs' \ DOMAIN jobs : i >= nextId
  <1>1. ASSUME IInv, UI PROVE Final
    <2>1. ASSUME NEW i \in DOMAIN jobs, Cancel(i) PROVE Final
      BY <1>1, <2>1, SetStatusFacts DEF IInv, ListTypeOK, Cancel, Status, Finished
    <2>2. ASSUME CancelPending \/ CancelAll PROVE Final
      BY <1>1, <2>2 DEF CancelPending, CancelAll, PendingCancelled, Finished
    <2>3. ASSUME ClearFinished PROVE Final
      BY <2>3 DEF ClearFinished, Unfinished, WithStatus
    <2>4. ASSUME UNCHANGED jobs PROVE Final
      BY <2>4
    <2>5. QED
      BY <1>1, <2>1, <2>2, <2>3, <2>4
      DEF UI, Enqueue, PostDrain, Pause, Resume, shared
  <1>2. ASSUME IInv, Drain PROVE Final
    <2>1. ASSUME NEW i \in DOMAIN jobs, NEW s \in Status, jobs' = SetStatus(i, s),
                 jobs[i].status \in {"PENDING", "ACTIVE"}
          PROVE  Final
      BY <1>2, <2>1, SetStatusFacts DEF IInv, ListTypeOK, Finished
    <2>2. ASSUME Pick PROVE Final
      BY <2>1, <2>2 DEF Pick, IsNext, WithStatus, Status
    <2>3. ASSUME FailFast \/ (\E ok \in BOOLEAN : JobEnds(ok)) PROVE Final
      <3>1. job \in DOMAIN jobs /\ jobs[job].status = "ACTIVE"
        BY <1>2, <2>3 DEF IInv, ListTypeOK, ActiveIsNamed, WorkerInv, WithStatus, FailFast, JobEnds
      <3>2. QED
        BY <2>1, <2>3, <3>1 DEF FailFast, JobEnds, Status
    <2>4. ASSUME NEW n \in 0..MaxWalk, WalkEnds(n) PROVE Final
      <3>1. /\ DOMAIN jobs' = DOMAIN jobs \cup nextId..(nextId + n - 1)
            /\ \A k \in DOMAIN jobs : jobs'[k] = jobs[k]
        BY <2>4 DEF WalkEnds, Appended
      <3>2. QED
        BY <1>2, <3>1 DEF IInv, ListTypeOK
    <2>5. ASSUME UNCHANGED jobs PROVE Final
      BY <2>5
    <2>6. QED
      BY <1>2, <2>2, <2>3, <2>4, <2>5 DEF Drain, BeginDrain, Pop, WalkFails, StartJob, shared
  <1>3. IInv /\ [Next]_vars => [Final]_vars
    BY <1>1, <1>2 DEF Next, LinkDrops, OtherTask, shared, vars
  <1>4. QED
    BY <1>3, Invariance, PTL DEF Spec, FinishedIsFinal

----------------------------------------------------------------------------
(* TransferQueue implements JobQueue: the first state of the queue maps to *)
(* the first state of its promise, and each step of the two threads maps   *)
(* to a step of it or to none.  That what was begun is ended (Progress) is *)
(* left to TLC.                                                            *)
(*                                                                         *)
(* The abstract backlog is the request drain() walks, if it walks one,     *)
(* and the requests behind it.                                             *)

Backlog == (IF expanding THEN <<request>> ELSE << >>) \o requests

----------------------------------------------------------------------------
(* The backlog. *)

LEMMA OneAhead ==
  ASSUME NEW T, NEW s \in Seq(T), NEW e \in T
  PROVE  /\ <<e>> \in Seq(T) /\ <<e>> \o s \in Seq(T)
         /\ <<e>> \o s # << >> /\ Head(<<e>> \o s) = e /\ Tail(<<e>> \o s) = s
         /\ <<e>> \o << >> = <<e>>
<1>1. <<e>> \in Seq(T) /\ Len(<<e>>) = 1 /\ <<e>>[1] = e
  OBVIOUS
<1>2. /\ <<e>> \o s \in Seq(T)
      /\ Len(<<e>> \o s) = 1 + Len(s)
      /\ \A i \in 1..(1 + Len(s)) : (<<e>> \o s)[i] = IF i <= 1 THEN <<e>>[i] ELSE s[i - 1]
  BY <1>1, ConcatProperties
<1>3. Len(s) \in Nat
  BY LenProperties
<1>4. <<e>> \o s # << >> /\ Head(<<e>> \o s) = e
  BY <1>1, <1>2, <1>3
<1>5. Tail(<<e>> \o s) = s
  <2>1. /\ Tail(<<e>> \o s) \in Seq(T)
        /\ Len(Tail(<<e>> \o s)) = Len(s)
        /\ \A i \in 1..Len(s) : Tail(<<e>> \o s)[i] = (<<e>> \o s)[i + 1]
    BY <1>2, <1>3, <1>4, HeadTailProperties
  <2>2. \A i \in 1..Len(s) : (<<e>> \o s)[i + 1] = s[i]
    BY <1>2, <1>3
  <2>3. QED
    BY <2>1, <2>2, SeqEqual
<1>6. <<e>> \o << >> = <<e>>
  BY <1>1, ConcatEmptySeq
<1>7. QED
  BY <1>1, <1>2, <1>4, <1>5, <1>6

LEMMA BacklogFacts ==
  ASSUME IInv
  PROVE  /\ requests \in Seq(Request) /\ request \in Request
         /\ expanding => /\ Backlog # << >> /\ Head(Backlog) = request /\ Tail(Backlog) = requests
                         /\ Backlog = <<request>> \o requests
         /\ ~expanding => Backlog = requests
<1>1. requests \in Seq(Request) /\ request \in Request
  BY DEF IInv, BacklogTypeOK
<1>2. << >> \o requests = requests
  BY <1>1, ConcatEmptySeq
<1>3. QED
  BY <1>1, <1>2, OneAhead DEF Backlog

(* A request that comes in is the last of the backlog. *)
LEMMA OneBehind ==
  ASSUME NEW T, NEW h \in Seq(T), NEW s \in Seq(T), NEW e \in T
  PROVE  h \o Append(s, e) = Append(h \o s, e)
<1>1. Append(s, e) = s \o <<e>> /\ <<e>> \in Seq(T)
  BY AppendIsConcat
<1>2. h \o s \in Seq(T)
  BY ConcatProperties
<1>3. Append(h \o s, e) = (h \o s) \o <<e>>
  BY <1>2, AppendIsConcat
<1>4. QED
  BY <1>1, <1>3, ConcatAssociative

----------------------------------------------------------------------------
(* The mapping, spelled out. *)

LEMMA Mapped ==
  /\ Promise!vars = <<jobs, Backlog, expanding, paused, nextId - 1, asked>>
  /\ Promise!WithStatus("PENDING") = WithStatus("PENDING")
  /\ Promise!WithStatus("ACTIVE") = WithStatus("ACTIVE")
  /\ Promise!Unfinished = Unfinished
  /\ Promise!Finished = Finished
  BY DEF Promise!vars, Backlog, Promise!WithStatus, WithStatus, Promise!Unfinished, Unfinished,
         Promise!Finished, Finished

LEMMA Stutter ==
  ASSUME UNCHANGED <<jobs, requests, nextId, expanding, paused, request, asked>>
  PROVE  UNCHANGED Promise!vars
  BY DEF Promise!vars

----------------------------------------------------------------------------
(* The UI thread's calls. *)

LEMMA EnqueueSubmits ==
  ASSUME IInv, NEW d \in Directions, Enqueue(d)
  PROVE  Promise!Submit
<1> DEFINE r == [num |-> submitted + 1, direction |-> d]
           h == IF expanding THEN <<request>> ELSE << >>
<1>1. r \in Request
  BY DirectionsAssumption, BoundsAssumption DEF Enqueue, IInv, BacklogTypeOK, Request
<1>2. requests \in Seq(Request) /\ h \in Seq(Request)
  <2>1. requests \in Seq(Request) /\ request \in Request /\ << >> \in Seq(Request)
    BY EmptySeq DEF IInv, BacklogTypeOK
  <2>2. <<request>> \in Seq(Request)
    BY <2>1, OneAhead
  <2>3. QED
    BY <2>1, <2>2
<1>3. requests' = Append(requests, r) /\ UNCHANGED <<jobs, nextId, expanding, paused, request, asked>>
  BY DEF Enqueue, locals
<1> HIDE DEF r
<1>4. h \o Append(requests, r) = Append(h \o requests, r)
  BY <1>1, <1>2, OneBehind
<1>5. QED
  BY <1>1, <1>3, <1>4 DEF Promise!Submit

LEMMA CancelCancelsOne ==
  ASSUME IInv, NEW i \in DOMAIN jobs, Cancel(i)
  PROVE  Promise!CancelOne
<1>1. UNCHANGED <<requests, nextId, expanding, paused, request>> /\ asked' = asked \cup {i}
  BY DEF Cancel, locals
<1>2. /\ i \in Promise!Unfinished
      /\ jobs' = IF jobs[i].status = "PENDING" THEN [jobs EXCEPT ![i].status = "CANCELLED"] ELSE jobs
  BY DEF Cancel, SetStatus, Promise!Unfinished, Promise!WithStatus
<1>3. QED
  BY <1>1, <1>2 DEF Promise!CancelOne

LEMMA CancelsCancelTheRest ==
  ASSUME IInv, NEW all \in BOOLEAN, IF all THEN CancelAll ELSE CancelPending
  PROVE  Promise!CancelRest(all)
<1>1. /\ requests' = << >> /\ UNCHANGED <<nextId, expanding, paused, request>>
      /\ jobs' = PendingCancelled
      /\ asked' = asked \cup (IF all THEN Unfinished ELSE WithStatus("PENDING"))
  BY DEF CancelAll, CancelPending, locals, Unfinished
<1>2. jobs' = [i \in DOMAIN jobs |->
                 IF i \in WithStatus("PENDING")
                 THEN [jobs[i] EXCEPT !.status = "CANCELLED"] ELSE jobs[i]]
  BY <1>1 DEF PendingCancelled, WithStatus
<1>3. Backlog' = IF expanding THEN <<Head(Backlog)>> ELSE << >>
  <2>1. << >> \o << >> = << >> /\ <<request>> \o << >> = <<request>>
    BY BacklogFacts, OneAhead, ConcatEmptySeq, EmptySeq
  <2>2. Backlog' = (IF expanding THEN <<request>> ELSE << >>) \o << >>
    BY <1>1 DEF Backlog
  <2>3. QED
    BY <2>1, <2>2, BacklogFacts
<1>4. QED
  BY <1>1, <1>2, <1>3, Mapped DEF Promise!CancelRest, Backlog

----------------------------------------------------------------------------
(* The worker's steps. *)

LEMMA PickStarts ==
  ASSUME IInv, Pick
  PROVE  Promise!Start \/ UNCHANGED Promise!vars
<1>1. CASE UNCHANGED jobs
  BY <1>1, Stutter DEF Pick, history
<1>2. CASE ~Held /\ \E i \in DOMAIN jobs : IsNext(i) /\ jobs' = SetStatus(i, "ACTIVE")
  <2>1. UNCHANGED <<requests, nextId, expanding, paused, request, asked>> /\ ~paused /\ pc = "pick"
    BY <1>2 DEF Pick, Held, history
  <2>2. WithStatus("ACTIVE") = {}
    BY <2>1 DEF IInv, ActiveIsNamed
  <2>3. QED
    BY <1>2, <2>1, <2>2, Mapped DEF Promise!Start, IsNext, SetStatus
<1>3. QED
  BY <1>1, <1>2 DEF Pick

LEMMA PopWalks ==
  ASSUME IInv, Pop
  PROVE  Promise!Walk \/ UNCHANGED Promise!vars
<1>1. CASE requests = << >>
  BY <1>1, Stutter DEF Pop, history
<1>2. CASE requests # << >>
  <2>1. /\ request' = Head(requests) /\ requests' = Tail(requests) /\ expanding' = TRUE /\ pc = "pop"
        /\ UNCHANGED <<jobs, nextId, paused, asked>>
    BY <1>2 DEF Pop, history
  <2>2. ~expanding
    BY <2>1 DEF IInv, WorkerInv
  <2>3. WithStatus("PENDING") = {} /\ WithStatus("ACTIVE") = {}
    BY <2>1 DEF IInv, WorkerInv, ActiveIsNamed
  <2>4. requests \in Seq(Request) /\ Backlog = requests
    BY <2>2, BacklogFacts
  <2>5. <<Head(requests)>> \o Tail(requests) = requests
    <3> DEFINE h == Head(requests)
               t == Tail(requests)
    <3>1. /\ h = requests[1] /\ h \in Request /\ t \in Seq(Request) /\ Len(t) = Len(requests) - 1
          /\ \A i \in 1..Len(t) : t[i] = requests[i + 1]
      BY <1>2, <2>4, HeadTailProperties
    <3> HIDE DEF h, t
    <3>2. /\ <<h>> \in Seq(Request) /\ Len(<<h>>) = 1 /\ <<h>>[1] = h
      BY <3>1
    <3>3. /\ <<h>> \o t \in Seq(Request)
          /\ Len(<<h>> \o t) = 1 + Len(t)
          /\ \A i \in 1..(1 + Len(t)) : (<<h>> \o t)[i] = IF i <= 1 THEN <<h>>[i] ELSE t[i - 1]
      BY <3>1, <3>2, ConcatProperties
    <3>4. Len(requests) \in Nat /\ Len(t) \in Nat
      BY <2>4, <3>1, LenProperties
    <3>5. Len(<<h>> \o t) = Len(requests)
      BY <3>1, <3>3, <3>4
    <3>6. \A i \in 1..Len(requests) : (<<h>> \o t)[i] = requests[i]
      BY <3>1, <3>2, <3>3, <3>4
    <3>7. <<h>> \o t = requests
      BY <2>4, <3>3, <3>5, <3>6, SeqEqual
    <3>8. QED
      BY <3>7 DEF h, t
  <2>6. Backlog' = Backlog
    BY <2>1, <2>4, <2>5 DEF Backlog
  <2>7. QED
    BY <1>2, <2>1, <2>2, <2>3, <2>4, <2>6, Mapped DEF Promise!Walk, Backlog, Unfinished
<1>3. QED
  BY <1>1, <1>2

(* A walk that fails makes no jobs, and one that ends makes n. *)
LEMMA WalkExpands ==
  ASSUME IInv, pc = "walk", expanding' = FALSE, UNCHANGED <<requests, paused, request, asked>>,
         NEW n \in Nat, nextId' = nextId + n, jobs' = Appended(n, request)
  PROVE  Promise!Expand
<1>1. expanding
  BY DEF IInv, WorkerInv
<1>2. nextId \in Nat
  BY BoundsAssumption DEF IInv, ListTypeOK
<1>3. Backlog' = Tail(Backlog) /\ Head(Backlog) = request
  <2>1. << >> \o requests = requests
    BY BacklogFacts, ConcatEmptySeq
  <2>2. Backlog' = << >> \o requests
    BY DEF Backlog
  <2>3. QED
    BY <1>1, <2>1, <2>2, BacklogFacts
<1>4. (nextId - 1) + 1 = nextId /\ nextId' - 1 = nextId + n - 1 /\ nextId' - 1 >= nextId - 1
  BY <1>2
<1>5. jobs' = [i \in DOMAIN jobs \cup ((nextId - 1) + 1)..(nextId' - 1) |->
                 IF i \in DOMAIN jobs
                 THEN jobs[i]
                 ELSE [req |-> Head(Backlog).num, direction |-> Head(Backlog).direction,
                       status |-> "PENDING"]]
  BY <1>3, <1>4 DEF Appended
<1>6. QED
  BY <1>1, <1>3, <1>4, <1>5 DEF Promise!Expand, Backlog

LEMMA WalkFailsExpands ==
  ASSUME IInv, WalkFails
  PROVE  Promise!Expand
<1>1. nextId \in Nat /\ jobs \in [DOMAIN jobs -> Job]
  BY BoundsAssumption DEF IInv, ListTypeOK
<1>2. nextId' = nextId + 0
  BY <1>1 DEF WalkFails
<1>3. jobs' = Appended(0, request)
  <2>1. DOMAIN jobs \cup nextId..(nextId + 0 - 1) = DOMAIN jobs
    BY <1>1
  <2>2. Appended(0, request) = [i \in DOMAIN jobs |-> jobs[i]]
    BY <2>1 DEF Appended
  <2>3. QED
    BY <1>1, <2>2 DEF WalkFails
<1>4. QED
  BY <1>2, <1>3, WalkExpands DEF WalkFails, history

(* The job that ends is the active one, and one that was CANCELLED was     *)
(* asked to be.                                                            *)
LEMMA EndFinishes ==
  ASSUME IInv, pc \in {"check", "run"}, NEW s \in Finished, s = "CANCELLED" => cancelActive,
         jobs' = SetStatus(job, s),
         UNCHANGED <<requests, nextId, expanding, paused, request, asked>>
  PROVE  Promise!Finish
<1>1. job \in DOMAIN jobs /\ job # 0 /\ activeId = job
  BY BoundsAssumption DEF IInv, WorkerInv, ActiveIsNamed, ListTypeOK
<1>2. job \in WithStatus("ACTIVE")
  BY <1>1 DEF IInv, ActiveIsNamed
<1>3. s = "CANCELLED" => job \in asked
  BY <1>1 DEF IInv, CancelledWasAsked
<1>4. QED
  BY <1>2, <1>3, Mapped DEF Promise!Finish, SetStatus

----------------------------------------------------------------------------

LEMMA StepKeepsThePromise ==
  IInv /\ [Next]_vars => [Promise!Next]_(Promise!vars)
<1> SUFFICES ASSUME IInv, [Next]_vars PROVE Promise!Next \/ UNCHANGED Promise!vars
  OBVIOUS
<1>1. CASE UI
  <2>1. ASSUME NEW d \in Directions, Enqueue(d) PROVE Promise!Next
    BY <2>1, EnqueueSubmits DEF Promise!Next
  <2>2. CASE PostDrain
    BY <2>2, Stutter DEF PostDrain, shared, locals, history
  <2>3. CASE Pause
    BY <2>3 DEF Pause, locals, history, Promise!Hold, Promise!Next
  <2>4. CASE Resume
    BY <2>4 DEF Resume, locals, history, Promise!Release, Promise!Next
  <2>5. ASSUME NEW i \in DOMAIN jobs, Cancel(i) PROVE Promise!Next
    BY <2>5, CancelCancelsOne DEF Promise!Next
  <2>6. CASE CancelPending
    BY <2>6, CancelsCancelTheRest DEF Promise!Next
  <2>7. CASE CancelAll
    BY <2>7, CancelsCancelTheRest DEF Promise!Next
  <2>8. CASE ClearFinished
    BY <2>8, Mapped DEF ClearFinished, locals, history, Promise!Forget, Promise!Next
  <2>9. QED
    BY <1>1, <2>1, <2>2, <2>3, <2>4, <2>5, <2>6, <2>7, <2>8 DEF UI
<1>2. CASE Drain
  <2>1. CASE BeginDrain \/ StartJob
    BY <2>1, Stutter DEF BeginDrain, StartJob, shared, history
  <2>2. CASE Pick
    BY <2>2, PickStarts DEF Promise!Next
  <2>3. CASE Pop
    BY <2>3, PopWalks DEF Promise!Next
  <2>4. CASE WalkFails
    BY <2>4, WalkFailsExpands DEF Promise!Next
  <2>5. ASSUME NEW n \in 0..MaxWalk, WalkEnds(n) PROVE Promise!Next
    <3>1. n \in Nat
      BY BoundsAssumption
    <3>2. Promise!Expand
      BY <2>5, <3>1, WalkExpands DEF WalkEnds, history
    <3>3. QED
      BY <3>2 DEF Promise!Next
  <2>6. CASE FailFast
    BY <2>6, EndFinishes DEF FailFast, Finished, history, Promise!Next
  <2>7. ASSUME NEW ok \in BOOLEAN, JobEnds(ok) PROVE Promise!Next
    <3> DEFINE s == IF ok THEN "DONE" ELSE IF cancelActive THEN "CANCELLED" ELSE "FAILED"
    <3>1. s \in Finished /\ (s = "CANCELLED" => cancelActive)
      BY DEF Finished
    <3>2. jobs' = SetStatus(job, s) /\ pc \in {"check", "run"}
          /\ UNCHANGED <<requests, nextId, expanding, paused, request, asked>>
      BY <2>7 DEF JobEnds, history
    <3> HIDE DEF s
    <3>3. QED
      BY <3>1, <3>2, EndFinishes DEF Promise!Next
  <2>8. QED
    BY <1>2, <2>1, <2>2, <2>3, <2>4, <2>5, <2>6, <2>7 DEF Drain
<1>3. CASE LinkDrops \/ OtherTask \/ UNCHANGED vars
  BY <1>3, Stutter DEF LinkDrops, OtherTask, shared, locals, history, vars
<1>4. QED
  BY <1>1, <1>2, <1>3 DEF Next

(* drain() and the calls of the UI thread, interleaved as the lock lets    *)
(* them, keep what queue.h promises: requests are walked in order and only *)
(* after the jobs before them, jobs start one at a time, in order and only *)
(* while the queue is not held, and end cancelled only when that was asked.*)
THEOREM QueueKeepsItsPromise ==
  Spec => Promise!Init /\ [][Promise!Next]_(Promise!vars)
<1>1. Init => Promise!Init
  <2>1. << >> \o << >> = << >>
    BY ConcatEmptySeq, EmptySeq
  <2>2. QED
    BY <2>1 DEF Init, Promise!Init
<1>2. QED
  BY <1>1, Invariance, StepKeepsThePromise, PTL DEF Spec

=============================================================================
