------------------------------ MODULE JobQueue ------------------------------
(***************************************************************************)
(* What the transfer queue promises its callers (source/transfer/queue.h), *)
(* without the drain task, the lock, the posts or the state of the         *)
(* session: a backlog of requests in order, and jobs that each go          *)
(* PENDING -> ACTIVE -> finished, one at a time and in order.              *)
(*                                                                         *)
(* The head of the backlog stays in it while it is being walked.  Holding  *)
(* the queue (pause()) keeps jobs from starting; cancelling what waits     *)
(* spares the request being walked.  TransferQueue implements this module. *)
(***************************************************************************)
EXTENDS Integers, Sequences

CONSTANT Request

VARIABLES
    jobs,     \* the jobs, a function from ids
    backlog,  \* the requests that are not jobs yet, the one being walked included
    walking,  \* the head of the backlog is being walked
    held,     \* pause() was called after the last resume()
    issued,   \* the ids given so far are 1..issued
    asked     \* the jobs whose cancellation was asked for

vars == <<jobs, backlog, walking, held, issued, asked>>

WithStatus(s) == {i \in DOMAIN jobs : jobs[i].status = s}
Unfinished    == WithStatus("PENDING") \cup WithStatus("ACTIVE")
Finished      == {"DONE", "CANCELLED", "FAILED"}

Init ==
    /\ jobs = << >> /\ backlog = << >> /\ walking = FALSE
    /\ held = FALSE /\ issued = 0 /\ asked = {}

Submit ==
    /\ \E r \in Request : backlog' = Append(backlog, r)
    /\ UNCHANGED <<jobs, walking, held, issued, asked>>

Hold    == held' = TRUE  /\ UNCHANGED <<jobs, backlog, walking, issued, asked>>
Release == held' = FALSE /\ UNCHANGED <<jobs, backlog, walking, issued, asked>>

(* A request waits until every job queued ahead of it has finished. *)
Walk ==
    /\ ~walking /\ backlog # << >> /\ Unfinished = {}
    /\ walking' = TRUE
    /\ UNCHANGED <<jobs, backlog, held, issued, asked>>

(* A walked request becomes n jobs; one that cannot be walked becomes none. *)
Expand ==
    /\ walking
    /\ walking' = FALSE
    /\ backlog' = Tail(backlog)
    /\ issued' >= issued
    /\ jobs' = [i \in DOMAIN jobs \cup (issued + 1)..issued' |->
                   IF i \in DOMAIN jobs
                   THEN jobs[i]
                   ELSE [req |-> Head(backlog).num, direction |-> Head(backlog).direction,
                         status |-> "PENDING"]]
    /\ UNCHANGED <<held, asked>>

Start ==
    /\ ~held
    /\ WithStatus("ACTIVE") = {}
    /\ \E i \in WithStatus("PENDING") :
          /\ \A k \in WithStatus("PENDING") : i <= k
          /\ jobs' = [jobs EXCEPT ![i].status = "ACTIVE"]
    /\ UNCHANGED <<backlog, walking, held, issued, asked>>

(* Only a job that was asked to stop ends as CANCELLED. *)
Finish ==
    /\ \E i \in WithStatus("ACTIVE"), s \in Finished :
          /\ s = "CANCELLED" => i \in asked
          /\ jobs' = [jobs EXCEPT ![i].status = s]
    /\ UNCHANGED <<backlog, walking, held, issued, asked>>

CancelOne ==
    /\ \E i \in Unfinished :
          /\ asked' = asked \cup {i}
          /\ jobs' = IF jobs[i].status = "PENDING"
                     THEN [jobs EXCEPT ![i].status = "CANCELLED"] ELSE jobs
    /\ UNCHANGED <<backlog, walking, held, issued>>

(* With active: cancelAll(), without it: cancelPending(). *)
CancelRest(active) ==
    /\ backlog' = IF walking THEN <<Head(backlog)>> ELSE << >>
    /\ jobs' = [i \in DOMAIN jobs |->
                   IF i \in WithStatus("PENDING")
                   THEN [jobs[i] EXCEPT !.status = "CANCELLED"] ELSE jobs[i]]
    /\ asked' = asked \cup (IF active THEN Unfinished ELSE WithStatus("PENDING"))
    /\ UNCHANGED <<walking, held, issued>>

Forget ==
    /\ jobs' = [i \in Unfinished |-> jobs[i]]
    /\ UNCHANGED <<backlog, walking, held, issued, asked>>

Next ==
    \/ Submit \/ Hold \/ Release
    \/ Walk \/ Expand \/ Start \/ Finish
    \/ CancelOne \/ CancelRest(TRUE) \/ CancelRest(FALSE) \/ Forget

(* What was begun is ended, and work that waits in a queue nobody holds is *)
(* got rid of.                                                             *)
Progress ==
    /\ WithStatus("ACTIVE") # {} ~> WithStatus("ACTIVE") = {}
    /\ walking ~> ~walking
    /\ ~held /\ (backlog # << >> \/ Unfinished # {})
          ~> held \/ (backlog = << >> /\ Unfinished = {})

Spec == Init /\ [][Next]_vars /\ Progress

=============================================================================
