----------------------------- MODULE WireProofs -----------------------------
(***************************************************************************)
(* Theorems about the client over its sockets, for every length of a       *)
(* slice, every deadline and every number of pieces: that it is the client *)
(* of FtpClient, and how long its waits are.                               *)
(*                                                                         *)
(* Whatever the client is doing, a step of Wire does one of a few things   *)
(* to the socket (SocketStep), and the waits of a transfer are given the   *)
(* flag of its cancellation (FlagInv).  WaitInv then says what a wait has  *)
(* still to come, without a look at the client.                            *)
(***************************************************************************)
EXTENDS Wire, FtpClientProofs

(* The three limits and the slice are natural numbers above zero. *)
LEMMA Constants ==
  /\ Slice \in Nat /\ Slice > 0
  /\ ControlTimeout \in Nat /\ DataTimeout \in Nat /\ MaxResolve \in Nat
  BY WireAssumption

----------------------------------------------------------------------------
(* Over its sockets the client takes the steps of FtpClient. *)

(* The reply to PASV is not taken from the inbox before the data           *)
(* connection has been tried.                                              *)
PassiveInv ==
    /\ op # "none" => outcome = "none"
    /\ cmd = "PASV" /\ (op \in {"resolve", "connect"} \/ outcome \in {"connected", "refused"}) => inbox # << >>

(* A step of the client that leaves no wait for a connection behind.       *)
LEMMA NotConnecting ==
  ASSUME op' # "none" => outcome' = "none",
         cmd' = "PASV" => op' \notin {"resolve", "connect"} /\ outcome' \notin {"connected", "refused"}
  PROVE  PassiveInv'
  BY DEF PassiveInv

LEMMA SeenOrSent ==
  ASSUME S!Seen \/ Follow \/ (\E f \in {"recv", "send"}, time \in Nat, c \in BOOLEAN : S!Call(f, time, c))
  PROVE  PassiveInv'
<1>1. CASE S!Seen
  BY <1>1, NotConnecting DEF S!Seen
<1>2. CASE \E f \in {"recv", "send"}, time \in Nat, c \in BOOLEAN : S!Call(f, time, c)
  BY <1>2, NotConnecting DEF S!Call
<1>3. CASE Follow
  BY <1>1, <1>2, <1>3, Constants DEF Follow
<1>4. QED
  BY <1>1, <1>2, <1>3

LEMMA SocketKeepsPassive ==
  ASSUME PassiveInv, UNCHANGED <<cmd, inbox>>,
         S!Waits \/ (\E r \in {"some", "eof", "error"} : S!Receives(r)) \/ UNCHANGED <<op, outcome>>
  PROVE  PassiveInv'
<1>1. \/ op' = op /\ outcome' = outcome
      \/ op' = "connect" /\ op = "resolve" /\ outcome' = outcome
      \/ op' = "none" /\ (outcome' \in {"connected", "refused"} => op \in {"resolve", "connect"})
  BY DEF S!Waits, S!Resolving, S!Resolved, S!Unreachable, S!Receives, S!Cancelled, S!SendsSome, S!SendFails, S!TimesOut, S!Blocks, S!Tick,
         S!Wakes, S!PollFails, S!Connects, S!Return, S!Failed
<1>2. QED
  BY <1>1 DEF PassiveInv

LEMMA Told ==
  ASSUME TypeInv, Serve \/ EndTransfer \/ Bye
  PROVE  inbox' # << >>
<1>1. ASSUME NEW c \in Commands \cup {"bye"}, NEW code \in Codes, Tell(c, code)
      PROVE  inbox' # << >>
  <2>1. Len(inbox) \in Nat /\ Len(inbox') = Len(inbox) + 1
    BY <1>1, NewReply
  <2>2. QED
    BY <2>1
<1>2. CASE Serve
  <2>1. PICK code \in Answers[Head(wire)] : Tell(Head(wire), code)
    BY <1>2 DEF Serve
  <2>2. Head(wire) \in Commands
    BY <1>2 DEF Serve, TypeInv, Queue
  <2>3. code \in Codes
    BY <2>1, <2>2 DEF Answers, Codes, Completed
  <2>4. QED
    BY <1>1, <2>1, <2>2, <2>3
<1>3. CASE EndTransfer
  <2>1. PICK code \in {"226", "4xx"} : Tell(serving, code)
    BY <1>3 DEF EndTransfer
  <2>2. serving \in Commands /\ code \in Codes
    BY <1>3, <2>1, Names DEF EndTransfer, TypeInv, Codes, Completed
  <2>3. QED
    BY <1>1, <2>1, <2>2
<1>4. CASE Bye
  BY <1>1, <1>4 DEF Bye, Codes
<1>5. QED
  BY <1>2, <1>3, <1>4

LEMMA PassiveStep == TypeInv /\ PassiveInv /\ [WNext]_wvars => PassiveInv'
<1> SUFFICES ASSUME TypeInv, PassiveInv, [WNext]_wvars PROVE PassiveInv'
  OBVIOUS
<1>1. CASE Begins
  <2>1. CASE \E f \in {"resolve", "connect"} : Disconnect /\ S!Call(f, ControlTimeout, FALSE)
    BY <2>1, NotConnecting DEF Disconnect, Return, S!Call
  <2>2. QED
    BY <1>1, <2>1, SeenOrSent DEF Begins
<1>2. CASE NextChunk
  BY <1>2, SeenOrSent, Constants DEF NextChunk, Flagged
<1>3. CASE JobFinishes \/ JobAborts
  BY <1>3, SeenOrSent DEF JobFinishes, JobAborts
<1>4. CASE React
  <2>1. CASE ReplyArrives
    <3>1. CASE S!Call("connect", ControlTimeout, FALSE) /\ inbox # << >> /\ UNCHANGED vars
      BY <3>1 DEF S!Call, PassiveInv, vars
    <3>2. QED
      BY <2>1, <3>1, SeenOrSent DEF ReplyArrives
  <2>2. CASE Connected \/ CommandSent \/ ReplyGrows \/ DataConnected \/ ControlFails \/ Rows \/ ChunkDone
    BY <2>2, SeenOrSent, Constants DEF Connected, CommandSent, ReplyGrows, DataConnected,
         ControlFails, Rows, ChunkDone
  <2>3. QED
    BY <1>4, <2>1, <2>2 DEF React
<1>5. CASE Kernel
  BY <1>5, SocketKeepsPassive DEF Kernel, vars
<1>6. CASE Other
  <2>1. cmd' = cmd /\ op' = op /\ outcome' = outcome /\ inbox' # << >>
    BY <1>6, Told DEF Other, Serve, EndTransfer, Bye, client, socket
  <2>2. QED
    BY <2>1 DEF PassiveInv
<1>7. CASE AskCancel
  BY <1>7, SocketKeepsPassive DEF AskCancel, S!AskCancel, vars
<1>8. CASE UNCHANGED wvars
  BY <1>8, SocketKeepsPassive DEF wvars, vars, socket
<1>9. QED
  BY <1>1, <1>2, <1>3, <1>4, <1>5, <1>6, <1>7, <1>8 DEF WNext

LEMMA WireStepIsAStep == PassiveInv /\ [WNext]_wvars => [Next]_vars
<1> SUFFICES ASSUME PassiveInv, WNext \/ UNCHANGED wvars PROVE Next \/ UNCHANGED vars
  OBVIOUS
<1>1. CASE Begins
  BY <1>1 DEF Begins, Next, Begin
<1>2. CASE JobFinishes \/ JobAborts
  BY <1>2 DEF JobFinishes, JobAborts, Next, Begin
<1>3. CASE React
  <2>1. CASE DataConnected
    <3>1. inbox # << >> /\ cmd # "none" /\ OpeningReply
      BY <2>1 DEF DataConnected, PassiveInv
    <3>2. QED
      BY <3>1 DEF Next, Step, ReadReply
  <2>2. QED
    BY <1>3, <2>1 DEF React, Connected, CommandSent, ReplyArrives, ReplyGrows, ControlFails, Rows,
                      ChunkDone, Next, Begin, Step
<1>4. CASE Other
  BY <1>4 DEF Other, Next, Server
<1>5. CASE NextChunk \/ Kernel \/ AskCancel \/ UNCHANGED wvars
  BY <1>5 DEF NextChunk, Kernel, AskCancel, wvars
<1>6. QED
  BY <1>1, <1>2, <1>3, <1>4, <1>5 DEF WNext

(* The safety half of the refinement: whatever the kernel makes of the     *)
(* bytes, and however the waits end, the client over its sockets takes     *)
(* only steps of the client that is told "a reply" or "the link is lost".  *)
THEOREM WireIsAClient ==
  WireSpec => Init /\ [][Next]_vars
<1>1. WInit => Init /\ TypeInv /\ PassiveInv
  BY InitInv DEF WInit, Init, S!Init, PassiveInv, Inv
<1>2. TypeInv /\ PassiveInv /\ [WNext]_wvars => TypeInv'
  BY WireStepIsAStep, NextKeepsType DEF TypeInv, vars
<1>3. QED
  BY <1>1, <1>2, PassiveStep, WireStepIsAStep, PTL DEF WireSpec

LEMMA InvOverSockets == WireSpec => []Inv
  BY WireIsAClient, InitInv, NextKeepsInv, PTL

(* So each reply is read by the command it answers, and every call begins  *)
(* in step, over sockets too: a timeout, a part of a reply or a            *)
(* cancellation never leaves an answer behind for the next command.        *)
THEOREM InStepOverSockets ==
  WireSpec => [](ReplyIsTheAnswer /\ InStep)
<1>1. WireSpec => []Inv
  BY InvOverSockets
<1>2. Inv => ReplyIsTheAnswer /\ InStep
  BY InvAnswers, InvInStep
<1>3. QED
  BY <1>1, <1>2, PTL

----------------------------------------------------------------------------
(* The waits. *)

(* What the calls of the client leave of the cancellation: a job that ends *)
(* takes it along.                                                         *)
AskedKept == UNCHANGED asked \/ (cancel' = FALSE /\ late' = 0)

WaitBegins ==
    \E f \in {"resolve", "connect", "recv", "send"}, time \in Nat, c \in BOOLEAN :
        S!Call(f, time, c) /\ AskedKept

SocketStep ==
    \/ WaitBegins
    \/ S!Seen /\ AskedKept
    \/ \E r \in {"some", "eof", "error"} : S!Receives(r)
    \/ S!Waits
    \/ S!AskCancel
    \/ UNCHANGED socket /\ AskedKept

LEMMA CallIsAStep ==
  ASSUME NEW f \in {"resolve", "connect", "recv", "send"}, NEW time \in Nat, NEW c \in BOOLEAN,
         S!Call(f, time, c), AskedKept
  PROVE  SocketStep
  BY DEF WaitBegins, SocketStep

LEMMA FollowIsAStep == Follow /\ AskedKept => SocketStep
  BY Constants, CallIsAStep DEF Follow, SocketStep

LEMMA EveryStep == [WNext]_wvars => SocketStep
<1>. SUFFICES ASSUME [WNext]_wvars PROVE SocketStep
  OBVIOUS
<1>1. CASE Begins
  <2>1. AskedKept
    BY <1>1 DEF Begins, AskedKept
  <2>2. \/ S!Seen \/ Follow
        \/ \E f \in {"resolve", "connect"} : S!Call(f, ControlTimeout, FALSE)
    BY <1>1 DEF Begins
  <2>3. QED
    BY <2>1, <2>2, Constants, CallIsAStep, FollowIsAStep DEF SocketStep
<1>2. CASE NextChunk
  BY <1>2, Constants, CallIsAStep DEF NextChunk, Flagged, AskedKept
<1>3. CASE JobFinishes \/ JobAborts
  BY <1>3, FollowIsAStep DEF JobFinishes, JobAborts, AskedKept
<1>4. CASE React
  <2>1. AskedKept
    BY <1>4 DEF React, Connected, CommandSent, ReplyArrives, ReplyGrows, DataConnected, ControlFails,
                Rows, ChunkDone, AskedKept
  <2>2. \/ S!Seen \/ Follow
        \/ S!Call("connect", ControlTimeout, FALSE)
        \/ S!Call("recv", ControlTimeout, FALSE)
        \/ S!Call("recv", DataTimeout, FALSE)
    BY <1>4 DEF React, Connected, CommandSent, ReplyArrives, ReplyGrows, DataConnected, ControlFails,
                Rows, ChunkDone
  <2>3. QED
    BY <2>1, <2>2, Constants, CallIsAStep, FollowIsAStep DEF SocketStep
<1>5. CASE Kernel
  BY <1>5 DEF Kernel, SocketStep
<1>6. CASE Other
  BY <1>6 DEF Other, SocketStep, AskedKept
<1>7. CASE AskCancel
  BY <1>7 DEF AskCancel, SocketStep
<1>8. CASE UNCHANGED wvars
  BY <1>8 DEF wvars, SocketStep, AskedKept
<1>9. QED
  BY <1>1, <1>2, <1>3, <1>4, <1>5, <1>6, <1>7, <1>8 DEF WNext

----------------------------------------------------------------------------

(* A cancellation is asked for while a job transfers and goes with it, and *)
(* whatever such a job waits for heeds it.                                 *)
FlagInv ==
    /\ cancel \in BOOLEAN
    /\ cancel = TRUE => Transferring
    /\ Transferring /\ op # "none" => heeds = TRUE

LEMMA NotTransferring ==
  ASSUME CallInv, cmd # "none" \/ call \in {"list", "exists"} \/ ~data
  PROVE  ~Transferring
  BY DEF CallInv, Transferring, Returned

(* What the client calls between its steps is no wait of a transfer.       *)
LEMMA FollowIsNoTransfer ==
  ASSUME CallInv', S!Seen \/ Follow \/ ~Transferring'
  PROVE  ~(Transferring' /\ op' # "none")
  BY DEF Follow, S!Seen, CallInv, Transferring, Returned

LEMMA FlagKept ==
  ASSUME FlagInv, cancel' = FALSE \/ (cancel' = cancel /\ ~Transferring),
         ~(Transferring' /\ op' # "none")
  PROVE  FlagInv'
  BY DEF FlagInv

LEMMA FlagStep ==
  ASSUME FlagInv, CallInv, CallInv', [WNext]_wvars
  PROVE  FlagInv'
<1>1. CASE Begins
  <2>1. ~Transferring /\ cancel' = cancel
    BY <1>1 DEF Begins, Free, Returned, Transferring, asked
  <2>2. S!Seen \/ Follow \/ ~Transferring'
    BY <1>1 DEF Begins, Disconnect, Close, Transferring
  <2>3. QED
    BY <2>1, <2>2, FollowIsNoTransfer, FlagKept
<1>2. CASE NextChunk
  <2>1. cancel' = cancel /\ ~cancel /\ heeds' = TRUE
    BY <1>2 DEF NextChunk, Flagged, S!Call, asked
  <2>2. QED
    BY <2>1 DEF FlagInv
<1>3. CASE JobFinishes \/ JobAborts
  BY <1>3, FollowIsNoTransfer, FlagKept DEF JobFinishes, JobAborts
<1>4. CASE React
  <2>1. cancel' = cancel
    BY <1>4 DEF React, Connected, CommandSent, ReplyArrives, ReplyGrows, DataConnected, ControlFails,
                Rows, ChunkDone, asked
  <2>2. CASE ChunkDone
    BY <2>1, <2>2 DEF ChunkDone, S!Seen, FlagInv, Transferring, Returned, vars
  <2>3. CASE ~ChunkDone
    <3>1. ~Transferring
      BY <1>4, <2>3, NotTransferring DEF React, Connected, CommandSent, ReplyArrives, ReplyGrows,
         DataConnected, ControlFails, Rows, Connect, Free
    <3>2. S!Seen \/ Follow \/ UNCHANGED vars
      BY <1>4, <2>3 DEF React, Connected, CommandSent, ReplyArrives, ReplyGrows, DataConnected,
                        ControlFails, Rows
    <3>3. UNCHANGED vars => ~Transferring'
      BY <3>1 DEF vars, Transferring, Returned
    <3>4. QED
      BY <2>1, <3>1, <3>2, <3>3, FollowIsNoTransfer, FlagKept
  <2>4. QED
    BY <2>2, <2>3
<1>5. CASE Kernel
  <2>1. call' = call /\ data' = data
    BY <1>5 DEF Kernel, vars
  <2>2. cancel' = cancel /\ (op' = "none" \/ (op # "none" /\ heeds' = heeds))
    BY <1>5 DEF Kernel, S!Receives, S!Waits, S!Resolving, S!Resolved, S!Unreachable, S!Cancelled,
       S!SendsSome, S!SendFails, S!TimesOut, S!Blocks, S!Tick, S!Wakes, S!PollFails, S!Connects,
       S!AtTop, S!Return
  <2>3. QED
    BY <2>1, <2>2 DEF FlagInv, Transferring, Returned
<1>6. CASE Other \/ UNCHANGED wvars
  <2>1. UNCHANGED <<call, data, op, heeds, cancel>>
    BY <1>6 DEF Other, Serve, EndTransfer, Bye, client, socket, asked, wvars, vars
  <2>2. QED
    BY <2>1 DEF FlagInv, Transferring, Returned
<1>7. CASE AskCancel
  <2>1. /\ UNCHANGED <<call, data, op, heeds>> /\ cancel' = TRUE /\ Transferring
    BY <1>7 DEF AskCancel, S!AskCancel, vars
  <2>2. QED
    BY <2>1 DEF FlagInv, Transferring, Returned
<1>8. QED
  BY <1>1, <1>2, <1>3, <1>4, <1>5, <1>6, <1>7 DEF WNext

----------------------------------------------------------------------------

Times ==
    /\ op \in {"none", "resolve", "connect", "recv", "send"}
    /\ limit \in Nat /\ remaining \in Nat /\ poll \in Nat
    /\ waited \in Nat /\ start \in Nat /\ late \in Nat

(* What the wait has taken, is taking and may still take. *)
Sums ==
    /\ poll <= Slice
    /\ op \in {"none", "resolve"} => poll = 0
    /\ op \in {"recv", "send"} => start = 0 /\ waited + poll + remaining <= limit
    /\ op = "connect" => waited - start + poll <= limit + Slice - 1

(* What a transfer that is to stop has waited since, and is waiting. *)
Stopping == cancel = TRUE => late + poll <= Slice

WaitInv == Times /\ Sums /\ Stopping

LEMMA WaitInit == WInit => FlagInv /\ WaitInv
<1>. SUFFICES ASSUME S!Init PROVE FlagInv /\ WaitInv
  BY DEF WInit
<1>1. FlagInv
  BY DEF FlagInv, S!Init
<1>2. Times /\ Sums
  BY Constants DEF Times, Sums, S!Init
<1>3. Stopping
  BY DEF Stopping, S!Init
<1>4. QED
  BY <1>1, <1>2, <1>3 DEF WaitInv

(* A wait that returns, whatever it returns. *)
LEMMA ReturnKeeps ==
  ASSUME WaitInv, NEW r, S!Return(r)
  PROVE  WaitInv'
<1>1. /\ op' = "none" /\ limit' = 0 /\ remaining' = 0 /\ poll' = 0 /\ waited' = 0 /\ start' = 0
      /\ cancel' = cancel /\ late' = late
  BY DEF S!Return
<1>2. Times' /\ Sums'
  BY <1>1, Constants DEF WaitInv, Times, Sums
<1>3. Stopping'
  BY <1>1, Constants DEF WaitInv, Times, Stopping
<1>4. QED
  BY <1>2, <1>3 DEF WaitInv

LEMMA BeginKeeps == WaitInv /\ WaitBegins => WaitInv'
<1>. SUFFICES ASSUME WaitInv,
                     NEW f \in {"resolve", "connect", "recv", "send"}, NEW time \in Nat,
                     NEW c \in BOOLEAN, S!Call(f, time, c), AskedKept
              PROVE  WaitInv'
  BY DEF WaitBegins
<1>1. /\ op' = f /\ limit' = time
      /\ remaining' = time /\ poll' = 0 /\ waited' = 0 /\ start' = 0
  BY DEF S!Call
<1>2. late' \in Nat /\ (cancel' = TRUE => late' <= Slice)
  <2>1. CASE UNCHANGED asked
    BY <2>1, Constants DEF WaitInv, Times, Stopping, asked
  <2>2. CASE cancel' = FALSE /\ late' = 0
    BY <2>2
  <2>3. QED
    BY <2>1, <2>2 DEF AskedKept
<1>3. Times' /\ Sums'
  BY <1>1, <1>2, Constants DEF Times, Sums
<1>4. Stopping'
  BY <1>1, <1>2 DEF Stopping
<1>5. QED
  BY <1>3, <1>4 DEF WaitInv

(* No wait, and the cancellation as it was or gone with its job. *)
LEMMA RestKeeps ==
  ASSUME WaitInv, UNCHANGED <<op, limit, remaining, poll, waited, start>>, AskedKept
  PROVE  WaitInv'
<1>1. CASE UNCHANGED asked
  BY <1>1 DEF WaitInv, Times, Sums, Stopping, asked
<1>2. CASE cancel' = FALSE /\ late' = 0
  <2>1. Times' /\ Sums'
    BY <1>2 DEF WaitInv, Times, Sums
  <2>2. Stopping'
    BY <1>2 DEF Stopping
  <2>3. QED
    BY <2>1, <2>2 DEF WaitInv
<1>3. QED
  BY <1>1, <1>2 DEF AskedKept

LEMMA AskKeeps == WaitInv /\ S!AskCancel => WaitInv'
<1>. SUFFICES ASSUME WaitInv, S!AskCancel PROVE WaitInv'
  OBVIOUS
<1>1. Times' /\ Sums'
  BY DEF WaitInv, Times, Sums, S!AskCancel
<1>2. poll' = poll /\ late' = 0 /\ poll <= Slice /\ poll \in Nat
  BY DEF WaitInv, Sums, Times, S!AskCancel
<1>3. Stopping'
  BY <1>2, Constants DEF Stopping
<1>4. QED
  BY <1>1, <1>3 DEF WaitInv

(* The clock starts when the address is known, and not before. *)
LEMMA ResolverKeeps ==
  ASSUME WaitInv, S!Resolving \/ S!Resolved
  PROVE  WaitInv'
<1>1. /\ op = "resolve" /\ UNCHANGED <<limit, remaining, poll, cancel, late>>
      /\ \/ op' = op /\ waited' = waited + 1 /\ start' = start
         \/ op' = "connect" /\ waited' = waited /\ start' = waited
  BY DEF S!Resolving, S!Resolved
<1>2. Times' /\ Sums'
  BY <1>1, Constants DEF WaitInv, Times, Sums
<1>3. Stopping'
  BY <1>1 DEF WaitInv, Stopping
<1>4. QED
  BY <1>2, <1>3 DEF WaitInv

(* A transfer that is to stop does not poll again: its waits heed the      *)
(* cancellation.                                                           *)
LEMMA BlocksKeeps == FlagInv /\ WaitInv /\ S!Blocks => WaitInv'
<1>. SUFFICES ASSUME FlagInv, WaitInv, S!Blocks PROVE WaitInv'
  OBVIOUS
<1>1. /\ UNCHANGED <<op, limit, waited, start, cancel, late>>
      /\ op # "none" /\ poll = 0 /\ ~(heeds /\ cancel)
  BY DEF S!Blocks, S!AtTop, S!Stops
<1>2. Times' /\ Sums'
  <2>1. CASE /\ op \in {"recv", "send"} /\ remaining > 0
             /\ poll' = S!SliceToWait
             /\ remaining' = remaining - S!SliceToWait
    <3>1. S!SliceToWait \in Nat /\ S!SliceToWait <= Slice /\ S!SliceToWait <= remaining
      BY Constants DEF S!SliceToWait, S!Lesser, WaitInv, Times
    <3>2. QED
      BY <1>1, <2>1, <3>1 DEF WaitInv, Times, Sums
  <2>2. CASE op = "connect" /\ waited - start < limit /\ poll' = Slice /\ remaining' = remaining
    BY <1>1, <2>2, Constants DEF WaitInv, Times, Sums
  <2>3. QED
    BY <2>1, <2>2 DEF S!Blocks
<1>3. Stopping'
  <2>1. cancel' # TRUE
    BY <1>1 DEF FlagInv
  <2>2. QED
    BY <2>1 DEF Stopping
<1>4. QED
  BY <1>2, <1>3 DEF WaitInv

LEMMA TickKeeps == FlagInv /\ WaitInv /\ S!Tick => WaitInv'
<1>. SUFFICES ASSUME FlagInv, WaitInv, S!Tick PROVE WaitInv'
  OBVIOUS
<1>1. /\ UNCHANGED <<op, limit, remaining, start, cancel>>
      /\ poll > 0 /\ poll' = poll - 1 /\ waited' = waited + 1
      /\ late' = IF cancel THEN late + 1 ELSE late
  BY DEF S!Tick
<1>2. late' \in Nat /\ (cancel' = TRUE => late' + poll' <= Slice)
  <2>1. late \in Nat /\ poll \in Nat /\ (cancel = TRUE => late + poll <= Slice)
    BY DEF WaitInv, Times, Stopping
  <2>2. late' \in Nat /\ (cancel = TRUE => late' = late + 1)
    BY <1>1, <2>1
  <2>3. QED
    BY <1>1, <2>1, <2>2, Constants
<1>3. Times' /\ Sums'
  BY <1>1, <1>2, Constants DEF WaitInv, Times, Sums
<1>4. Stopping'
  BY <1>2 DEF Stopping
<1>5. QED
  BY <1>3, <1>4 DEF WaitInv

LEMMA WakesKeeps == WaitInv /\ S!Wakes => WaitInv'
<1>. SUFFICES ASSUME WaitInv, S!Wakes PROVE WaitInv'
  OBVIOUS
<1>1. /\ UNCHANGED <<op, limit, remaining, start, cancel, late>>
      /\ poll > 0 /\ poll' = 0
      /\ waited' = IF op = "connect" THEN waited + 1 ELSE waited
  BY DEF S!Wakes
<1>2. Times' /\ Sums'
  BY <1>1, Constants DEF WaitInv, Times, Sums
<1>3. Stopping'
  BY <1>1, Constants DEF WaitInv, Times, Stopping
<1>4. QED
  BY <1>2, <1>3 DEF WaitInv

LEMMA SendKeeps == WaitInv /\ S!SendsSome => WaitInv'
<1>. SUFFICES ASSUME WaitInv, S!SendsSome PROVE WaitInv'
  OBVIOUS
<1>1. CASE S!Return("sent")
  BY <1>1, ReturnKeeps
<1>2. CASE ~S!Return("sent")
  <2>1. /\ op = "send" /\ op' = op /\ limit' = limit /\ poll = 0 /\ poll' = poll
        /\ remaining' = limit /\ waited' = 0 /\ start' = start
        /\ cancel' = cancel /\ late' = late
    BY <1>2 DEF S!SendsSome, S!AtTop
  <2>2. Times' /\ Sums'
    BY <2>1, Constants DEF WaitInv, Times, Sums
  <2>3. Stopping'
    BY <2>1 DEF WaitInv, Stopping
  <2>4. QED
    BY <2>2, <2>3 DEF WaitInv
<1>3. QED
  BY <1>1, <1>2

LEMMA WaitStep == FlagInv /\ WaitInv /\ [WNext]_wvars => WaitInv'
<1>. SUFFICES ASSUME FlagInv, WaitInv, SocketStep PROVE WaitInv'
  BY EveryStep
<1>1. CASE WaitBegins
  BY <1>1, BeginKeeps
<1>2. CASE S!Seen /\ AskedKept
  BY <1>2, RestKeeps DEF S!Seen
<1>3. CASE \E r \in {"some", "eof", "error"} : S!Receives(r)
  BY <1>3, ReturnKeeps DEF S!Receives
<1>4. CASE S!Waits
  <2>1. CASE S!Unreachable \/ S!Cancelled \/ S!SendFails \/ S!TimesOut \/ S!PollFails \/ S!Connects
    BY <2>1, ReturnKeeps DEF S!Unreachable, S!Cancelled, S!SendFails, S!TimesOut, S!PollFails,
       S!Connects
  <2>2. QED
    BY <1>4, <2>1, ResolverKeeps, SendKeeps, BlocksKeeps, TickKeeps, WakesKeeps DEF S!Waits
<1>5. CASE S!AskCancel
  BY <1>5, AskKeeps
<1>6. CASE UNCHANGED socket /\ AskedKept
  BY <1>6, RestKeeps DEF socket
<1>7. QED
  BY <1>1, <1>2, <1>3, <1>4, <1>5, <1>6 DEF SocketStep

----------------------------------------------------------------------------

(* What a wait has still to come, and who heeds a cancellation, is known   *)
(* in every reachable state.                                               *)
THEOREM WaitInvariance == WireSpec => [](FlagInv /\ WaitInv)
<1>1. Inv /\ Inv' /\ FlagInv /\ WaitInv /\ [WNext]_wvars => FlagInv' /\ WaitInv'
  BY FlagStep, WaitStep DEF Inv
<1>2. QED
  BY <1>1, WaitInit, InvOverSockets, PTL DEF WireSpec

(* No call of recv() and sendAll() waits longer than it was told to, and   *)
(* no connect() longer than it was told to and a slice from the moment it  *)
(* has an address, however long the slices, the deadlines and the buffers  *)
(* are, however often it is woken and however long the resolver took: its  *)
(* time is not in the claim, since nothing in the code bounds it.          *)
THEOREM EveryWaitIsBounded == WireSpec => []WaitIsBounded
<1>1. WaitInv => WaitIsBounded
  BY Constants DEF WaitInv, Times, Sums, WaitIsBounded, S!WaitIsBounded
<1>2. QED
  BY <1>1, WaitInvariance, PTL

(* A transfer that is to stop waits one slice more at most: each of its    *)
(* calls is told of the cancellation, and the slice in which it is asked   *)
(* for is the last.                                                        *)
THEOREM EveryCancelIsPrompt == WireSpec => []CancelIsPrompt
<1>1. FlagInv /\ WaitInv => CancelIsPrompt
  <2>1. FlagInv => (cancel => cancel = TRUE)
    BY DEF FlagInv
  <2>2. QED
    BY <2>1, Constants DEF WaitInv, Times, Stopping, CancelIsPrompt, S!CancelIsPrompt
<1>2. QED
  BY <1>1, WaitInvariance, PTL

=============================================================================
