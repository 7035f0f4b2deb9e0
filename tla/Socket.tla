------------------------------- MODULE Socket -------------------------------
(***************************************************************************)
(* The three waits of net/socket.cpp: connect(), recv() and sendAll().     *)
(*                                                                         *)
(* A wait tries the socket first and polls when it would block, one slice  *)
(* at a time, so that a cancellation is noticed.  recv() and sendAll()     *)
(* count down what remains of their limit by the slices they asked for,    *)
(* whether poll() waited that long or not; connect() looks at the clock,   *)
(* which it starts when it has an address.  Before that it may have a name *)
(* to resolve: gethostbyname() blocks, and no limit of the caller's holds  *)
(* for it ("resolve").                                                     *)
(*                                                                         *)
(* Time is a number of ticks and passes in poll(), in connect()'s sleep    *)
(* and in the resolver.  What the kernel answers is a parameter, so that a *)
(* specification that uses this module says when a byte can arrive.  A     *)
(* call that a signal interrupts (EINTR) goes round the loop unchanged: a  *)
(* stuttering step.                                                        *)
(***************************************************************************)
EXTENDS Integers

CONSTANTS
    Slice,     \* POLL_SLICE_MS
    Pieces,    \* the calls of send() that a buffer takes
    MaxResolve \* bound on the time a name takes to resolve; the code has none

VARIABLES
    op,         \* the function that waits, "none" when it has returned; "resolve" and
                \* then "connect" are connect() with a name, "connect" with an address
    outcome,    \* what it returned, "none" when the caller has seen it
    limit,      \* its timeoutMs
    heeds,      \* it was given cancelRequested
    remaining,  \* what recv() and sendAll() count down
    poll,       \* what is left of the slice poll() waits, 0 outside poll()
    waited,     \* the time since the call, or since sendAll() made progress
    start,      \* when connect()'s clock has started, in the time since the call
    unsent,     \* the pieces of the buffer still to send
    cancel,     \* the job's cancellation has been asked for
    late        \* the time poll() has waited since then

vars == <<op, outcome, limit, heeds, remaining, poll, waited, start, unsent,
          cancel, late>>

Init ==
    /\ op = "none" /\ outcome = "none"
    /\ limit = 0 /\ heeds = FALSE
    /\ remaining = 0 /\ poll = 0 /\ waited = 0 /\ start = 0 /\ unsent = 0
    /\ cancel = FALSE /\ late = 0

Lesser(a, b) == IF a < b THEN a ELSE b

----------------------------------------------------------------------------
(* Faulty variants of the definitions below. *)

WholeSlice == Slice                        \* the last slice is not cut

----------------------------------------------------------------------------

(* The call of one of the three, when the last one has been answered. *)
Call(f, time, c) ==
    /\ op = "none"
    /\ op' = f /\ outcome' = "none"
    /\ limit' = time /\ heeds' = c
    /\ remaining' = time /\ poll' = 0 /\ waited' = 0 /\ start' = 0
    /\ unsent' = IF f = "send" THEN Pieces ELSE 0

(* The caller goes on without another call. *)
Seen ==
    /\ op = "none"
    /\ outcome' = "none"
    /\ UNCHANGED <<op, limit, heeds, remaining, poll, waited, start, unsent>>

Return(r) ==
    /\ op' = "none" /\ outcome' = r
    /\ limit' = 0 /\ heeds' = FALSE
    /\ remaining' = 0 /\ poll' = 0 /\ waited' = 0 /\ start' = 0 /\ unsent' = 0
    /\ UNCHANGED <<cancel, late>>

AtTop == op \notin {"none", "resolve"} /\ poll = 0
Stops == heeds /\ cancel
Failed == IF op = "send" THEN "unsent" ELSE "error"

(* connect() with a name: gethostbyname() blocks. *)
Resolving ==
    /\ op = "resolve" /\ waited < MaxResolve
    /\ waited' = waited + 1
    /\ UNCHANGED <<op, outcome, limit, heeds, remaining, poll, start, unsent, cancel, late>>

(* The address is known, the handshake begins, and the clock starts. *)
Resolved ==
    /\ op = "resolve"
    /\ op' = "connect" /\ start' = waited
    /\ UNCHANGED <<outcome, limit, heeds, remaining, poll, waited, unsent, cancel, late>>

(* The name is not known, or the handshake cannot even begin. *)
Unreachable ==
    /\ \/ op = "resolve"
       \/ op = "connect" /\ poll = 0 /\ waited = start
    /\ Return("refused")

Cancelled ==
    /\ AtTop /\ Stops
    /\ Return(Failed)

(* recv() has something, or the end of the stream, or an error. *)
Receives(r) ==
    /\ AtTop /\ ~Stops /\ op = "recv"
    /\ Return(r)

(* send() takes a part of the buffer, and the clock starts over. *)
SendsSome ==
    /\ AtTop /\ ~Stops /\ op = "send"
    /\ IF unsent = 1 THEN Return("sent")
       ELSE /\ unsent' = unsent - 1
            /\ remaining' = limit /\ waited' = 0
            /\ UNCHANGED <<op, outcome, limit, heeds, poll, start, cancel, late>>

(* send() fails, or takes nothing. *)
SendFails ==
    /\ AtTop /\ ~Stops /\ op = "send"
    /\ Return("unsent")

(* The call would block, and the time is up. *)
TimesOut ==
    /\ AtTop /\ ~Stops
    /\ \/ op \in {"recv", "send"} /\ remaining <= 0
          /\ Return(IF op = "recv" THEN "timeout" ELSE "unsent")
       \/ op = "connect" /\ waited - start >= limit /\ Return("refused")

SliceToWait == Lesser(remaining, Slice)

(* The call would block, and poll() begins. *)
Blocks ==
    /\ AtTop /\ ~Stops
    /\ \/ /\ op \in {"recv", "send"} /\ remaining > 0
          /\ poll' = SliceToWait
          /\ remaining' = remaining - SliceToWait
       \/ /\ op = "connect" /\ waited - start < limit
          /\ poll' = Slice
          /\ UNCHANGED remaining
    /\ UNCHANGED <<op, outcome, limit, heeds, waited, start, unsent, cancel, late>>

Tick ==
    /\ poll > 0
    /\ poll' = poll - 1
    /\ waited' = waited + 1
    /\ late' = IF cancel THEN late + 1 ELSE late
    /\ UNCHANGED <<op, outcome, limit, heeds, remaining, start, unsent, cancel>>

(* poll() returns before its time: the socket is ready, or hung up, or a   *)
(* signal came.  A connect() that is not there yet sleeps before it polls  *)
(* again, so that it cannot spin.                                          *)
Wakes ==
    /\ poll > 0
    /\ poll' = 0
    /\ waited' = IF op = "connect" THEN waited + 1 ELSE waited
    /\ UNCHANGED <<op, outcome, limit, heeds, remaining, start, unsent, cancel, late>>

PollFails ==
    /\ poll > 0
    /\ Return(IF op = "connect" THEN "refused" ELSE Failed)

(* The handshake is complete: getpeername() succeeds. *)
Connects ==
    /\ poll > 0 /\ op = "connect"
    /\ Return("connected")

(* cancel(), cancelAll(): the job in flight is to stop. *)
AskCancel ==
    /\ ~cancel
    /\ cancel' = TRUE /\ late' = 0
    /\ UNCHANGED <<op, outcome, limit, heeds, remaining, poll, waited, start, unsent>>

(* What goes on without anything arriving from outside. *)
Waits ==
    \/ Resolving \/ Resolved \/ Unreachable
    \/ Cancelled \/ SendsSome \/ SendFails \/ TimesOut \/ Blocks
    \/ Tick \/ Wakes \/ PollFails \/ Connects

----------------------------------------------------------------------------
(* Properties. *)

(* No call waits longer than it was told to, however often it is woken: a  *)
(* slice is cut to what remains.  connect() may begin a whole slice just   *)
(* before its deadline, and its time counts from the address: what the     *)
(* resolver takes before that comes on top, and is nobody's to limit (see  *)
(* ConnectKeepsTime).  sendAll()'s limit is for each bit of progress.      *)
WaitIsBounded ==
    op \in {"connect", "recv", "send"} =>
        waited - start <= IF op = "connect" THEN limit + Slice - 1 ELSE limit

(* socket.h, of connect(): timeoutMs is the "total time to wait before     *)
(* giving up".  A name that is slow to resolve breaks it.                  *)
ConnectKeepsTime ==
    op \in {"resolve", "connect"} => waited <= limit + Slice - 1

(* socket.h: every blocking operation polls "with a short timeout so the   *)
(* transfer worker can notice a cancellation request promptly": a transfer *)
(* that is to stop waits one more slice at most, over all its calls, of    *)
(* which each has to be given the flag.                                    *)
CancelIsPrompt == cancel => late <= Slice

=============================================================================
