-------------------------------- MODULE Wire --------------------------------
(***************************************************************************)
(* The FTP client over its two sockets.  FtpClient takes the waits for     *)
(* granted: a reply is read, or the link is lost.  Here each of its steps  *)
(* is what the client makes of the outcome of a socket call, the kernel    *)
(* answers from what the server has sent, and a job that transfers can be  *)
(* cancelled.                                                              *)
(*                                                                         *)
(* The network worker is one thread, so one call waits at a time: which,   *)
(* is told by the state of the client.  connect() resolves a name, if it   *)
(* is given one, and waits for a connection; PASV connects to an address   *)
(* (the peer's, or the one in its reply); a command is sent and its reply  *)
(* received on the control socket; rows (list()) and bytes (runDownload(), *)
(* runUpload()) pass on the data socket.  The wait for QUIT to be sent is  *)
(* left out: nobody looks at its outcome.                                  *)
(***************************************************************************)
EXTENDS FtpClient

CONSTANTS
    Slice, Pieces,
    MaxResolve,       \* the longest a name takes to resolve
    ControlTimeout,   \* CONTROL_TIMEOUT_MS, and connect()'s default
    DataTimeout,      \* DATA_TIMEOUT_MS
    MaxParts          \* the parts a reply or a listing can arrive in (MAX_LINE, MAX_LISTING)

ASSUME WireAssumption ==
    /\ {Slice, Pieces, ControlTimeout, DataTimeout, MaxParts} \subseteq Nat \ {0}
    /\ MaxResolve \in Nat

VARIABLES
    op, outcome, limit, heeds, remaining, poll, waited, start, unsent, cancel, late,
    parts      \* the parts of the reply or listing read so far

S == INSTANCE Socket

socket == <<op, outcome, limit, heeds, remaining, poll, waited, start, unsent>>
asked  == <<cancel, late>>
wvars  == <<vars, socket, asked, parts>>

WInit == Init /\ S!Init /\ parts = 0

Idle == op = "none" /\ outcome = "none"
Transferring == Returned /\ data

----------------------------------------------------------------------------
(* Faulty variants of MorePartsFit and Flagged. *)

AnyPartFits == parts' = parts              \* a reply or a listing has no bound
Unflagged == FALSE                         \* a transfer's calls are not told of a cancellation

----------------------------------------------------------------------------
(* The client. *)

MorePartsFit == parts < MaxParts /\ parts' = parts + 1

(* The call that the client's next state begins with. *)
Follow ==
    /\ parts' = 0
    /\ IF cmd' # "none"
       THEN IF Len(wire') > Len(wire) /\ cmd' # "hello"
            THEN S!Call("send", ControlTimeout, FALSE)
            ELSE S!Call("recv", ControlTimeout, FALSE)
       ELSE IF call' \in {"list", "exists"} /\ data'
            THEN S!Call("recv", DataTimeout, FALSE)
            ELSE S!Seen

(* A function of the client is called.  connect() disconnects first, then  *)
(* looks for the server, by name or by address, and waits for the          *)
(* connection.                                                             *)
Begins ==
    /\ Idle /\ Free
    /\ \/ Disconnect /\ S!Seen
       \/ \E f \in {"resolve", "connect"} : Disconnect /\ S!Call(f, ControlTimeout, FALSE)
       \/ \E c \in DOMAIN Simple : CallSimple(c) /\ Follow
       \/ \E c \in DOMAIN Opening : CallOpening(c) /\ Follow
       \/ \E c \in DOMAIN Simple \cup DOMAIN Opening : CallDead(c) /\ S!Seen
    /\ UNCHANGED asked
    /\ parts' = 0

Connected ==
    /\ cmd = "none" /\ outcome \in {"connected", "refused"}
    /\ Connect
    /\ open' <=> outcome = "connected"
    /\ Follow
    /\ UNCHANGED asked

CommandSent ==
    /\ cmd # "none" /\ outcome = "sent"
    /\ S!Call("recv", ControlTimeout, FALSE)
    /\ UNCHANGED <<vars, asked, parts>>

(* readLine(), readResponse(): the reply is complete.  That to PASV holds  *)
(* the address to connect to, unless it cannot be read.                    *)
ReplyArrives ==
    /\ cmd # "none" /\ outcome = "some" /\ inbox # << >>
    /\ \/ /\ ReadReply
          /\ cmd = "PASV" => data' = FALSE
          /\ Follow
       \/ /\ cmd = "PASV" /\ Reply.code = "227"
          /\ S!Call("connect", ControlTimeout, FALSE)
          /\ UNCHANGED <<vars, parts>>
    /\ UNCHANGED asked

(* More of the reply is to come, unless it is too long already. *)
ReplyGrows ==
    /\ cmd # "none" /\ outcome = "some"
    /\ MorePartsFit
    /\ S!Call("recv", ControlTimeout, FALSE)
    /\ UNCHANGED <<vars, asked>>

DataConnected ==
    /\ cmd = "PASV" /\ outcome \in {"connected", "refused"}
    /\ OpeningReply
    /\ data' <=> outcome = "connected"
    /\ Follow
    /\ UNCHANGED asked

(* fail(): nothing more comes, or what came is not a reply or too long. *)
ControlFails ==
    /\ cmd # "none" /\ outcome \in {"unsent", "some", "eof", "error", "timeout"}
    /\ LoseLink
    /\ S!Seen
    /\ parts' = 0
    /\ UNCHANGED asked

Rows ==
    /\ cmd = "none" /\ call \in {"list", "exists"}
    /\ \/ /\ outcome = "some"
          /\ MorePartsFit
          /\ S!Call("recv", DataTimeout, FALSE)
          /\ UNCHANGED vars
       \/ /\ outcome \in {"some", "eof", "error", "timeout"}
          /\ ReadListing
          /\ aborting' <=> outcome # "eof"
          /\ Follow
    /\ UNCHANGED asked

(* recv() and sendAll() of a transfer are given cancelRequested. *)
Flagged == TRUE

(* A job transfers: the next chunk, until the end, an error or a           *)
(* cancellation, or until the card fails.                                  *)
NextChunk ==
    /\ Transferring /\ Idle /\ ~cancel
    /\ IF verb = "RETR" THEN S!Call("recv", DataTimeout, Flagged)
                        ELSE S!Call("send", DataTimeout, Flagged)
    /\ UNCHANGED <<vars, asked, parts>>

ChunkDone ==
    /\ Transferring /\ outcome \in {"some", "sent"}
    /\ S!Seen
    /\ UNCHANGED <<vars, asked, parts>>

JobFinishes ==
    /\ Transferring
    /\ \/ verb = "RETR" /\ outcome = "eof"
       \/ verb = "STOR" /\ Idle /\ ~cancel
    /\ FinishTransfer
    /\ Follow
    /\ cancel' = FALSE /\ late' = 0

JobAborts ==
    /\ Transferring
    /\ Idle \/ outcome \in {"error", "timeout", "unsent"}
    /\ AbortTransfer
    /\ Follow
    /\ cancel' = FALSE /\ late' = 0

React ==
    \/ Connected \/ CommandSent \/ ReplyArrives \/ ReplyGrows \/ DataConnected \/ ControlFails
    \/ Rows \/ ChunkDone

----------------------------------------------------------------------------
(* The kernel: bytes, the end of the stream, or an error. *)

Arrives(r) ==
    LET onControl == cmd # "none"
    IN  CASE r = "some"  -> onControl => inbox # << >> \/ ~gone
          [] r = "eof"   -> IF onControl THEN gone /\ inbox = << >> ELSE eof
          [] r = "error" -> TRUE

Kernel ==
    /\ \/ \E r \in {"some", "eof", "error"} : Arrives(r) /\ S!Receives(r)
       \/ S!Waits
    /\ UNCHANGED <<vars, parts>>

(* A command is served when all of it has been sent. *)
BeingSent == cmd # "none" /\ (op = "send" \/ outcome = "unsent")

Other ==
    /\ \/ Serve /\ ~BeingSent
       \/ EndTransfer
       \/ Bye
    /\ UNCHANGED <<socket, asked, parts>>

AskCancel ==
    /\ Transferring
    /\ S!AskCancel
    /\ UNCHANGED <<vars, parts>>

----------------------------------------------------------------------------

WNext == Begins \/ NextChunk \/ JobFinishes \/ JobAborts \/ React \/ Kernel \/ Other \/ AskCancel

(* The worker's thread goes on, time passes, the resolver comes back, and  *)
(* no call is interrupted for ever.                                        *)
WireSpec == WInit /\ [][WNext]_wvars /\ WF_wvars(React \/ Kernel)

----------------------------------------------------------------------------
(* Properties. *)

WaitIsBounded == S!WaitIsBounded
ConnectKeepsTime == S!ConnectKeepsTime
CancelIsPrompt == S!CancelIsPrompt

(* Over its sockets the client does what FtpClient says, and in particular *)
(* every function returns: the deadlines, the bound on a reply and the     *)
(* bound on a listing are all that this takes, whatever the server does,   *)
(* and a resolver that comes back.                                         *)
ImplementsFtpClient == Spec /\ CallsReturn

=============================================================================
