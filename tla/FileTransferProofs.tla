-------------------------- MODULE FileTransferProofs --------------------------
(***************************************************************************)
(* Theorems about FileTransfer: what becomes of a file on the card, for    *)
(* every length of a file, every buffer and every number of jobs, with     *)
(* failures, cancels and power cuts anywhere.                              *)
(*                                                                         *)
(* The card's side does not depend on what the client and the server do:   *)
(* the invariant says where the chunks that were read are, and what a job  *)
(* may have left at the destination.  The server's side rests on           *)
(* FtpClientProofs: as long as no reply was left unread, the answer to     *)
(* SIZE, or to DELE, is the answer to this job's question.                 *)
(***************************************************************************)
EXTENDS FileTransfer, TLAPS

TypeInv ==
    /\ direction \in Directions
    /\ size \in Nat /\ len \in Nat /\ done \in Nat /\ filled \in Nat /\ written \in Nat

(* Which job is where. *)
PathInv ==
    /\ pc \in {"open", "opening", "aborting", "finish", "closing"} => direction # "LOCAL_COPY"
    /\ pc = "flush" => direction = "DOWNLOAD"
    /\ pc \in {"verify", "sizing", "remove", "removing"} => direction = "UPLOAD"
    /\ pc \in {"replace", "rename"} => direction # "UPLOAD"

(* What has been read is in the scratch file or in the buffer, and a file  *)
(* that is moved into place is complete, unless the listing was wrong.     *)
CountInv ==
    /\ pc = "begin" => done = 0 /\ filled = 0
    /\ pc \in {"open", "opening", "loop", "flush", "finish", "closing"} /\ direction = "DOWNLOAD" =>
          done = written + filled /\ done <= len
    /\ pc \in {"finish", "closing"} /\ direction = "DOWNLOAD" => filled = 0
    /\ pc = "loop" /\ direction = "LOCAL_COPY" => written = done /\ done <= len
    /\ pc \in {"replace", "rename"} => written = len \/ size # len

(* The scratch file of a job. *)
ScratchInv ==
    /\ pc \in {"open", "opening", "loop", "flush", "finish", "closing", "replace", "rename"} /\
       direction # "UPLOAD" => part
    /\ pc = "begin" => ~mine
    /\ direction = "UPLOAD" => ~mine
    /\ pc = "returned" => ~(part /\ mine) \/ stuck

(* The destination, and the file that was there. *)
LossInv ==
    /\ dest = "partial" => size # len
    /\ pc \notin {"rename", "returned", "crashed", "idle"} => (had => dest # "absent")
    /\ had /\ dest = "absent" => refused \/ (part /\ (written = len \/ size # len))

JobInv == TypeInv /\ PathInv /\ CountInv /\ ScratchInv /\ LossInv

----------------------------------------------------------------------------
(* The steps of a job. *)

(* The steps that only go elsewhere. *)
LEMMA JumpsKeep ==
  ASSUME JobInv, DataOpened \/ Stop \/ Stopped \/ Finish \/ Finished \/ OpenData \/ Crash \/ Reconnect
  PROVE  JobInv'
<1>1. /\ UNCHANGED <<direction, size, len, had, written, part, mine, dest, refused, stuck, done, filled>>
      /\ \/ pc = "open" /\ pc' = "opening"
         \/ pc = "opening" /\ pc' \in {"loop", "clean"}
         \/ pc = "opening" /\ direction = "UPLOAD" /\ pc' = "returned"
         \/ pc \in {"loop", "flush"} /\ direction = "LOCAL_COPY" /\ pc' = "clean"
         \/ pc \in {"loop", "flush"} /\ direction # "LOCAL_COPY" /\ pc' = "aborting"
         \/ pc = "aborting" /\ direction = "UPLOAD" /\ pc' = "remove"
         \/ pc = "aborting" /\ direction # "UPLOAD" /\ pc' = "clean"
         \/ pc = "finish" /\ pc' = "closing"
         \/ pc = "closing" /\ direction = "DOWNLOAD" /\ pc' = "clean"
         \/ pc = "closing" /\ direction = "DOWNLOAD" /\ pc' = "replace" /\ (size > 0 => done = size)
         \/ pc = "closing" /\ direction = "UPLOAD" /\ pc' \in {"remove", "verify"}
         \/ pc' \in {"crashed", "idle"}
  BY DEF DataOpened, Stop, Stopped, Finish, Finished, OpenData, Crash, Reconnect, Goto, Return,
       Back, RightLength, about, card
<1>2. TypeInv'
  BY <1>1 DEF JobInv, TypeInv
<1>3. PathInv'
  BY <1>1 DEF JobInv, PathInv
<1>4. CountInv'
  BY <1>1 DEF JobInv, TypeInv, PathInv, CountInv
<1>5. ScratchInv'
  BY <1>1 DEF JobInv, PathInv, ScratchInv
<1>6. LossInv'
  BY <1>1 DEF JobInv, TypeInv, LossInv
<1>7. QED
  BY <1>2, <1>3, <1>4, <1>5, <1>6 DEF JobInv

(* The end of an upload. *)
LEMMA UploadEndsKeep ==
  ASSUME JobInv, Verify \/ Verified \/ RemoveRemote \/ Removed
  PROVE  JobInv'
<1>1. /\ UNCHANGED <<direction, size, len, had, written, part, mine, dest, refused, stuck, done, filled>>
      /\ pc \in {"verify", "sizing", "remove", "removing"} /\ pc' \in {"sizing", "remove", "removing", "returned"}
  BY DEF Verify, Verified, RemoveRemote, Removed, AskRemove, Goto, Return, Back, about, card
<1>2. TypeInv'
  BY <1>1 DEF JobInv, TypeInv
<1>3. PathInv'
  BY <1>1 DEF JobInv, PathInv
<1>4. CountInv'
  BY <1>1 DEF JobInv, TypeInv, PathInv, CountInv
<1>5. ScratchInv'
  BY <1>1 DEF JobInv, PathInv, ScratchInv
<1>6. LossInv'
  BY <1>1 DEF JobInv, TypeInv, LossInv
<1>7. QED
  BY <1>2, <1>3, <1>4, <1>5, <1>6 DEF JobInv

(* A job starts over. *)
LEMMA StartKeeps ==
  ASSUME JobInv, NEW d \in Directions, Start(d)
  PROVE  JobInv'
<1>1. /\ direction' = d /\ size' \in Nat /\ len' \in Nat /\ pc' = "begin"
      /\ done' = 0 /\ filled' = 0 /\ written' = 0 /\ mine' = FALSE
      /\ dest' \in {"absent", "old"} /\ (had' => dest' # "absent")
  <2>1. /\ direction' = d /\ size' \in Nat /\ len' \in Nat /\ pc' = "begin"
        /\ done' = 0 /\ filled' = 0 /\ written' = 0 /\ mine' = FALSE
    <3>1. MaxChunks \in Nat /\ len' \in 0..MaxChunks
      BY TransferAssumption DEF Start
    <3>2. size' \in 0..MaxChunks
      BY <3>1 DEF Start
    <3>3. QED
      BY <3>1, <3>2 DEF Start
  <2>2. dest' \in {"absent", "old"} /\ (had' => dest' # "absent")
    BY DEF Start
  <2>3. QED
    BY <2>1, <2>2
<1>2. TypeInv'
  BY <1>1 DEF JobInv, TypeInv
<1>3. PathInv'
  BY <1>1 DEF JobInv, PathInv
<1>4. CountInv'
  BY <1>1 DEF JobInv, TypeInv, PathInv, CountInv
<1>5. ScratchInv'
  BY <1>1 DEF JobInv, PathInv, ScratchInv
<1>6. LossInv'
  BY <1>1 DEF JobInv, TypeInv, LossInv
<1>7. QED
  BY <1>2, <1>3, <1>4, <1>5, <1>6 DEF JobInv

LEMMA BeginKeeps ==
  ASSUME JobInv, BeginJob
  PROVE  JobInv'
<1>1. /\ UNCHANGED <<direction, size, len, had, dest, refused, stuck, done, filled>>
      /\ pc = "begin"
      /\ \/ pc' = "returned" /\ UNCHANGED <<written, part, mine>>
         \/ direction = "UPLOAD" /\ pc' = "open" /\ UNCHANGED <<written, part, mine>>
         \/ direction = "DOWNLOAD" /\ pc' = "open" /\ part' = TRUE /\ mine' = TRUE /\ written' = 0
         \/ direction = "LOCAL_COPY" /\ pc' = "loop" /\ part' = TRUE /\ mine' = TRUE /\ written' = 0
  BY DEF BeginJob, OpenPart, Goto, Return, about, card
<1>2. TypeInv'
  BY <1>1 DEF JobInv, TypeInv
<1>3. PathInv'
  BY <1>1 DEF JobInv, PathInv
<1>4. CountInv'
  BY <1>1 DEF JobInv, TypeInv, PathInv, CountInv
<1>5. ScratchInv'
  BY <1>1 DEF JobInv, PathInv, ScratchInv
<1>6. LossInv'
  BY <1>1 DEF JobInv, TypeInv, LossInv
<1>7. QED
  BY <1>2, <1>3, <1>4, <1>5, <1>6 DEF JobInv

(* A chunk comes into the buffer. *)
LEMMA ReceiveKeeps ==
  ASSUME JobInv, Receive
  PROVE  JobInv'
<1>1. /\ UNCHANGED <<direction, size, len, had, written, part, mine, dest, refused, stuck>>
      /\ pc = "loop" /\ direction = "DOWNLOAD" /\ pc' \in {"flush", "loop"}
      /\ done < len /\ done' = done + 1 /\ filled' = filled + 1
  BY DEF Receive, about, card
<1>2. TypeInv'
  BY <1>1 DEF JobInv, TypeInv
<1>3. PathInv'
  BY <1>1 DEF JobInv, PathInv
<1>4. CountInv'
  BY <1>1 DEF JobInv, TypeInv, PathInv, CountInv
<1>5. ScratchInv'
  BY <1>1 DEF JobInv, PathInv, ScratchInv
<1>6. LossInv'
  BY <1>1 DEF JobInv, TypeInv, PathInv, LossInv
<1>7. QED
  BY <1>2, <1>3, <1>4, <1>5, <1>6 DEF JobInv

(* The buffer is written, or cannot be. *)
LEMMA FlushKeeps ==
  ASSUME JobInv, Flush \/ EndOfData
  PROVE  JobInv'
<1>1. /\ UNCHANGED <<direction, size, len, had, part, mine, dest, refused, stuck, done>>
      /\ pc \in {"flush", "loop"} /\ direction = "DOWNLOAD"
      /\ \/ written' = written + filled /\ filled' = 0 /\ pc' \in {"loop", "finish"}
         \/ pc' = "clean" /\ UNCHANGED <<written, filled>>
  BY DEF JobInv, PathInv, Flush, EndOfData, Flushed, about, card
<1>2. TypeInv'
  BY <1>1 DEF JobInv, TypeInv
<1>3. PathInv'
  BY <1>1 DEF JobInv, PathInv
<1>4. CountInv'
  BY <1>1 DEF JobInv, TypeInv, PathInv, CountInv
<1>5. ScratchInv'
  BY <1>1 DEF JobInv, PathInv, ScratchInv
<1>6. LossInv'
  BY <1>1 DEF JobInv, TypeInv, PathInv, LossInv
<1>7. QED
  BY <1>2, <1>3, <1>4, <1>5, <1>6 DEF JobInv

LEMMA SendKeeps ==
  ASSUME JobInv, SendChunk
  PROVE  JobInv'
<1>1. /\ UNCHANGED <<direction, size, len, had, written, part, mine, dest, refused, stuck, filled>>
      /\ pc = "loop" /\ direction = "UPLOAD" /\ pc' \in {"loop", "finish"}
      /\ done' \in {done, done + 1}
  BY DEF SendChunk, about, card
<1>2. TypeInv'
  BY <1>1 DEF JobInv, TypeInv
<1>3. PathInv'
  BY <1>1 DEF JobInv, PathInv
<1>4. CountInv'
  BY <1>1 DEF JobInv, TypeInv, PathInv, CountInv
<1>5. ScratchInv'
  BY <1>1 DEF JobInv, PathInv, ScratchInv
<1>6. LossInv'
  BY <1>1 DEF JobInv, TypeInv, PathInv, LossInv
<1>7. QED
  BY <1>2, <1>3, <1>4, <1>5, <1>6 DEF JobInv

LEMMA CopyKeeps ==
  ASSUME JobInv, CopyChunk
  PROVE  JobInv'
<1>1. /\ UNCHANGED <<direction, size, len, had, part, mine, dest, refused, stuck, filled>>
      /\ pc = "loop" /\ direction = "LOCAL_COPY"
      /\ \/ done < len /\ done' = done + 1 /\ written' = written + 1 /\ pc' = "loop"
         \/ ~(done < len) /\ UNCHANGED <<done, written>> /\ pc' = "replace"
  BY DEF CopyChunk, about
<1>2. TypeInv'
  BY <1>1 DEF JobInv, TypeInv
<1>3. PathInv'
  BY <1>1 DEF JobInv, PathInv
<1>4. CountInv'
  BY <1>1 DEF JobInv, TypeInv, PathInv, CountInv
<1>5. ScratchInv'
  BY <1>1 DEF JobInv, PathInv, ScratchInv
<1>6. LossInv'
  BY <1>1 DEF JobInv, TypeInv, PathInv, LossInv
<1>7. QED
  BY <1>2, <1>3, <1>4, <1>5, <1>6 DEF JobInv

(* The scratch file of a job that failed is removed. *)
LEMMA CleanKeeps ==
  ASSUME JobInv, Clean
  PROVE  JobInv'
<1>1. /\ UNCHANGED <<direction, size, len, had, written, mine, dest, refused, done, filled>>
      /\ pc = "clean" /\ pc' = "returned" /\ part' \in {part, FALSE} /\ (part' = FALSE \/ stuck')
  BY DEF Clean, RemovePart, Return, about
<1>2. TypeInv'
  BY <1>1 DEF JobInv, TypeInv
<1>3. PathInv'
  BY <1>1 DEF JobInv, PathInv
<1>4. CountInv'
  BY <1>1 DEF JobInv, TypeInv, PathInv, CountInv
<1>5. ScratchInv'
  BY <1>1 DEF JobInv, PathInv, ScratchInv
<1>6. LossInv'
  BY <1>1 DEF JobInv, TypeInv, PathInv, LossInv
<1>7. QED
  BY <1>2, <1>3, <1>4, <1>5, <1>6 DEF JobInv

(* The way is cleared, and the complete file is moved into place. *)
LEMMA ReplaceKeeps ==
  ASSUME JobInv, Replace
  PROVE  JobInv'
<1>1. /\ UNCHANGED <<direction, size, len, had, written, part, mine, refused, done, filled>>
      /\ pc = "replace" /\ pc' = "rename" /\ dest' \in {"absent", dest} /\ stuck' = stuck
  BY DEF Replace, Goto, about
<1>2. TypeInv'
  BY <1>1 DEF JobInv, TypeInv
<1>3. PathInv'
  BY <1>1 DEF JobInv, PathInv
<1>4. CountInv'
  BY <1>1 DEF JobInv, TypeInv, PathInv, CountInv
<1>5. ScratchInv'
  BY <1>1 DEF JobInv, PathInv, ScratchInv
<1>6. LossInv'
  BY <1>1 DEF JobInv, TypeInv, PathInv, CountInv, ScratchInv, LossInv
<1>7. QED
  BY <1>2, <1>3, <1>4, <1>5, <1>6 DEF JobInv

LEMMA RenameKeeps ==
  ASSUME JobInv, Rename
  PROVE  JobInv'
<1>1. /\ UNCHANGED <<direction, size, len, had, written, mine, done, filled>>
      /\ pc = "rename" /\ pc' = "returned" /\ (part' = FALSE \/ stuck')
      /\ \/ dest' = (IF written = len THEN "whole" ELSE "partial") /\ refused' = refused
         \/ refused' = TRUE /\ dest' = dest
  BY DEF Rename, RemovePart, Return, about
<1>2. TypeInv'
  BY <1>1 DEF JobInv, TypeInv
<1>3. PathInv'
  BY <1>1 DEF JobInv, PathInv
<1>4. CountInv'
  BY <1>1 DEF JobInv, TypeInv, PathInv, CountInv
<1>5. ScratchInv'
  BY <1>1 DEF JobInv, PathInv, ScratchInv
<1>6. LossInv'
  BY <1>1 DEF JobInv, TypeInv, PathInv, CountInv, ScratchInv, LossInv
<1>7. QED
  BY <1>2, <1>3, <1>4, <1>5, <1>6 DEF JobInv

(* The client's and the server's own steps leave the card alone. *)
LEMMA RestKeeps ==
  ASSUME JobInv, Cancel \/ ClientStep \/ ServerStep \/ UNCHANGED vars
  PROVE  JobInv'
<1>1. UNCHANGED <<direction, size, len, had, written, part, mine, dest, refused, stuck, done, filled, pc>>
  BY DEF Cancel, ClientStep, ServerStep, about, card, vars
<1>2. TypeInv'
  BY <1>1 DEF JobInv, TypeInv
<1>3. PathInv'
  BY <1>1 DEF JobInv, PathInv
<1>4. CountInv'
  BY <1>1 DEF JobInv, TypeInv, PathInv, CountInv
<1>5. ScratchInv'
  BY <1>1 DEF JobInv, PathInv, ScratchInv
<1>6. LossInv'
  BY <1>1 DEF JobInv, TypeInv, PathInv, LossInv
<1>7. QED
  BY <1>2, <1>3, <1>4, <1>5, <1>6 DEF JobInv

----------------------------------------------------------------------------
(* The theorems. *)

LEMMA InitJob == Init => JobInv
  BY DEF Init, JobInv, TypeInv, Directions, PathInv, CountInv, ScratchInv, LossInv

LEMMA StepJob == JobInv /\ [Next]_vars => JobInv'
<1> SUFFICES ASSUME JobInv, [Next]_vars PROVE JobInv'
  OBVIOUS
<1>1. ASSUME NEW d \in Directions, Start(d) PROVE JobInv'
  BY <1>1, StartKeeps
<1>2. CASE JobStep
  BY <1>2, BeginKeeps, JumpsKeep, UploadEndsKeep, ReceiveKeeps, FlushKeeps, SendKeeps, CopyKeeps,
     CleanKeeps, ReplaceKeeps, RenameKeeps DEF JobStep
<1>3. CASE Cancel \/ ClientStep \/ ServerStep \/ UNCHANGED vars
  BY <1>3, RestKeeps
<1>4. CASE Crash \/ Reconnect
  BY <1>4, JumpsKeep
<1>5. QED
  BY <1>1, <1>2, <1>3, <1>4 DEF Next

(* Where the chunks of a job are, and what it may have left at the         *)
(* destination, in every reachable state.                                  *)
THEOREM JobInvariance == Spec => []JobInv
  BY InitJob, StepJob, PTL DEF Spec

(* No dropped link, full card, cancel or power cut leaves a truncated file *)
(* under the right name (runDownload(), runLocalCopy()), however long the  *)
(* file is and however the buffer divides it.                              *)
THEOREM NoTruncatedFile == Spec => []DestIsNeverPartial
<1>1. JobInv => DestIsNeverPartial
  BY DEF JobInv, LossInv, DestIsNeverPartial
<1>2. QED
  BY <1>1, JobInvariance, PTL

(* The old file is removed only when the new one is complete in its        *)
(* scratch file, and that stays until it has taken the name: a power cut   *)
(* between the two calls loses neither.                                    *)
THEOREM NoFileIsLost == Spec => []NothingIsLost
<1>1. JobInv => NothingIsLost
  BY DEF JobInv, LossInv, NothingIsLost
<1>2. QED
  BY <1>1, JobInvariance, PTL

(* Every path out of runDownload() and runLocalCopy() asks the card to     *)
(* remove the scratch file that the job has opened, or has moved it into   *)
(* place: one is left only where the card has refused.                     *)
THEOREM NoScratchIsLeft == Spec => []NoScratchLeft
<1>1. JobInv => NoScratchLeft
  BY DEF JobInv, ScratchInv, NoScratchLeft
<1>2. QED
  BY <1>1, JobInvariance, PTL


----------------------------------------------------------------------------
(* The connection of a job, and what becomes of the file on the server.    *)

CP == INSTANCE FtpClientProofs

(* The invariant of FtpClientProofs, less what a reply left unread breaks. *)
ClientInv ==
    /\ CP!TypeInv /\ CP!CallInv
    /\ ~behind => CP!InboxInv /\ CP!OwedInv

Calling(f) == call \in {"none", f} /\ ~data

(* Which of the client's functions a job is in. *)
PhaseInv ==
    /\ pc \in {"idle", "begin", "open", "verify", "remove", "clean", "replace", "rename", "returned"} =>
          call = "none" /\ ~data
    /\ pc \in {"loop", "flush", "finish"} => call = "none" /\ (data <=> direction # "LOCAL_COPY")
    /\ pc = "opening" =>
          /\ call \in {"none", "beginRetrieve", "beginStore"}
          /\ call = "none" => (data <=> result = "yes")
          /\ call # "none" => /\ ~aborting /\ verb \in {"RETR", "STOR"}
                              /\ (cmd = "PASV" /\ ~data) \/ (cmd = verb /\ data)
    /\ pc = "aborting" => Calling("abortTransfer") /\ (call # "none" => aborting)
    /\ pc = "closing" => Calling("finishTransfer") /\ (call # "none" => cmd = verb /\ ~aborting)
    /\ pc = "sizing" => Calling("size") /\ (call # "none" => cmd = "SIZE" /\ verb = "none" /\ ~aborting)
    /\ pc = "removing" => Calling("removeFile") /\ (call # "none" => cmd = "DELE" /\ verb = "none" /\ ~aborting)

(* What the server last told is about the file as it is. *)
ToldTruth == told = IF remote = "whole" THEN len ELSE len + 1

Answered(c) == inbox # << >> /\ inbox[1].to = c

(* Everything was sent when the size is compared; and the answer to SIZE,  *)
(* or to DELE, is about the file as it still is when the job reads it.     *)
SentInv ==
    /\ direction = "UPLOAD" /\ pc \in {"begin", "open", "opening", "loop"} => done <= len
    /\ direction = "UPLOAD" /\ pc \in {"finish", "closing", "verify", "sizing"} => done = len

AnswerInv ==
    /\ pc = "sizing" /\ call = "size" /\ Answered("SIZE") => ToldTruth
    /\ pc = "sizing" /\ call = "none" /\ result = "yes" => ToldTruth
    /\ pc = "removing" /\ call = "removeFile" /\ Answered("DELE") /\ inbox[1].code \in CP!Completed =>
          remote = "absent"
    /\ pc = "removing" /\ call = "none" /\ result = "yes" => remote = "absent"
    /\ pc = "returned" /\ ok /\ direction = "UPLOAD" /\ done > 0 => remote = "whole" \/ unchecked

UploadInv == JobInv /\ ClientInv /\ PhaseInv /\ SentInv /\ (~behind => AnswerInv)

(* A job calls the client's functions, and the client and the server take  *)
(* the steps they take in FtpClient.                                       *)
LEMMA SameCalls ==
  ASSUME NEW f
  PROVE  /\ C!Alive <=> CP!Alive
         /\ C!CallSimple(f) => CP!CallSimple(f)
         /\ C!CallOpening(f) => CP!CallOpening(f)
         /\ C!CallDead(f) => CP!CallDead(f)
         /\ C!FinishTransfer => CP!FinishTransfer
         /\ C!AbortTransfer => CP!AbortTransfer
<1>1. C!Alive <=> CP!Alive
  BY DEF C!Alive, CP!Alive
<1>2. C!CallSimple(f) => CP!CallSimple(f)
  BY DEF C!CallSimple, CP!CallSimple, C!Alive, CP!Alive, C!Free, CP!Free, C!Returned, CP!Returned,
         C!Send, CP!Send, C!Simple, CP!Simple, C!server, CP!server
<1>3. C!CallOpening(f) => CP!CallOpening(f)
  BY DEF C!CallOpening, CP!CallOpening, C!Alive, CP!Alive, C!Free, CP!Free, C!Returned,
       CP!Returned,
         C!Send, CP!Send, C!Opening, CP!Opening, C!server, CP!server
<1>4. C!CallDead(f) => CP!CallDead(f)
  BY DEF C!CallDead, CP!CallDead, C!Alive, CP!Alive, C!Free, CP!Free, C!Returned, CP!Returned,
         C!Return, CP!Return, C!LostResult, CP!LostResult, C!server, CP!server
<1>5. C!FinishTransfer => CP!FinishTransfer
  BY DEF C!FinishTransfer, CP!FinishTransfer, C!Returned, CP!Returned, C!server, CP!server
<1>6. C!AbortTransfer => CP!AbortTransfer
  BY DEF C!AbortTransfer, CP!AbortTransfer, C!Returned, CP!Returned, C!Abort, CP!Abort,
         C!server, CP!server
<1>7. QED
  BY <1>1, <1>2, <1>3, <1>4, <1>5, <1>6

LEMMA SameServer ==
  C!Server => CP!Server
  BY DEF C!Server, CP!Server, C!Serve, CP!Serve, C!EndTransfer, CP!EndTransfer, C!Bye, CP!Bye,
         C!Tell, CP!Tell, C!client, CP!client, C!Answers, CP!Answers, C!Commands, CP!Commands,
         C!Transfers, CP!Transfers

LEMMA SameReading ==
  C!ReadReply => CP!ReadReply
<1>1. C!LoginReply => CP!LoginReply
  BY DEF C!LoginReply, CP!LoginReply, C!Reply, CP!Reply, C!NextOfLogin, CP!NextOfLogin, C!Send,
       CP!Send,
         C!Consume, CP!Consume, C!Return, CP!Return, C!Close, CP!Close, C!Completed, CP!Completed,
         C!server, CP!server
<1>2. C!SimpleReply => CP!SimpleReply
  BY DEF C!SimpleReply, CP!SimpleReply, C!Reply, CP!Reply, C!Send, CP!Send, C!Simple, CP!Simple,
         C!Consume, CP!Consume, C!Return, CP!Return, C!Verdict, CP!Verdict, C!Completed, CP!Completed,
         C!server, CP!server
<1>3. C!OpeningReply => CP!OpeningReply
  BY DEF C!OpeningReply, CP!OpeningReply, C!Reply, CP!Reply, C!Send, CP!Send, C!NotOpened,
       CP!NotOpened,
         C!Consume, CP!Consume, C!Return, CP!Return, C!Completed, CP!Completed, C!Closing, CP!Closing
<1>4. C!AbortReply => CP!AbortReply
  BY DEF C!AbortReply, CP!AbortReply, C!LastReply, CP!LastReply, C!Consume, CP!Consume,
         C!Return, CP!Return, C!server, CP!server
<1>5. QED
  BY <1>1, <1>2, <1>3, <1>4 DEF C!ReadReply, CP!ReadReply

LEMMA SameSteps ==
  C!Step => CP!Step
<1>1. C!ReadListing => CP!ReadListing
  BY DEF C!ReadListing, CP!ReadListing, C!Abort, CP!Abort, C!server, CP!server
<1>2. C!LoseLink => CP!LoseLink
  BY DEF C!LoseLink, CP!LoseLink, C!Close, CP!Close, C!CanFail, CP!CanFail, C!LostResult,
       CP!LostResult,
         C!Return, CP!Return
<1>3. QED
  BY <1>1, <1>2, SameReading DEF C!Step, CP!Step

----------------------------------------------------------------------------
(* The connection. *)

(* What a step of a job does to the client: nothing, a call, or, when the  *)
(* last of the data cannot be written, it drops the transfer.              *)
Untouched == UNCHANGED <<client, behind>>

LEMMA StepsOfTheClient ==
  ASSUME [Next]_vars
  PROVE  \/ Untouched
         \/ OpenData \/ Stop \/ Finish \/ Verify \/ RemoveRemote
         \/ ClientStep \/ ServerStep
         \/ EndOfData \/ Reconnect
<1>1. ASSUME NEW d \in Directions, Start(d) PROVE Untouched
  BY <1>1 DEF Start, Untouched
<1>2. CASE BeginJob \/ DataOpened \/ Receive \/ Flush \/ SendChunk \/ CopyChunk \/ Stopped
  BY <1>2 DEF BeginJob, DataOpened, Receive, Flush, SendChunk, CopyChunk, Stopped, server,
       Untouched
<1>3. CASE Finished \/ Verified \/ Removed \/ Clean \/ Replace \/ Rename \/ Cancel \/ Crash
  BY <1>3 DEF Finished, Verified, Removed, Clean, Replace, Rename, Cancel, Crash, server,
       Untouched
<1>4. CASE UNCHANGED vars
  BY <1>4 DEF vars, server, Untouched
<1>5. QED
  BY <1>1, <1>2, <1>3, <1>4 DEF Next, JobStep

LEMMA CallsAreTheClients ==
  ASSUME OpenData \/ Stop \/ Finish \/ Verify \/ RemoveRemote \/ ClientStep \/ ServerStep
  PROVE  UNCHANGED behind /\ (CP!Next \/ UNCHANGED client)
<1>0. {"beginRetrieve", "beginStore"} \subseteq DOMAIN CP!Opening /\ {"size", "removeFile"} \subseteq DOMAIN CP!Simple
  BY DEF CP!Opening, CP!Simple
<1>1. CASE OpenData
  BY <1>0, <1>1, SameCalls DEF OpenData, CP!Next, CP!Begin, server
<1>2. CASE Stop
  BY <1>2, SameCalls DEF Stop, CP!Next, CP!Begin, server
<1>3. CASE Finish
  BY <1>3, SameCalls DEF Finish, CP!Next, CP!Begin, server
<1>4. CASE Verify
  BY <1>0, <1>4, SameCalls DEF Verify, Asks, CP!Next, CP!Begin, server
<1>5. CASE RemoveRemote
  BY <1>0, <1>5, SameCalls DEF RemoveRemote, AskRemove, CP!Next, CP!Begin, server
<1>6. CASE ClientStep
  BY <1>6, SameSteps DEF ClientStep, CP!Next, server
<1>7. CASE ServerStep
  BY <1>7, SameServer DEF ServerStep, CP!Next
<1>8. QED
  BY <1>1, <1>2, <1>3, <1>4, <1>5, <1>6, <1>7

LEMMA SameClient ==
  ASSUME ClientInv, Untouched
  PROVE  ClientInv'
<1>1. UNCHANGED <<open, broken, data, call, cmd, verb, aborting, result, wire, inbox, serving, eof, gone, behind>>
  BY DEF Untouched, client
<1>2. (CP!TypeInv <=> CP!TypeInv') /\ (CP!CallInv <=> CP!CallInv')
  BY <1>1 DEF CP!TypeInv, CP!CallInv
<1>3. (CP!InboxInv <=> CP!InboxInv') /\ (CP!OwedInv <=> CP!OwedInv')
  BY <1>1 DEF CP!InboxInv, CP!OwedInv, CP!Owes, CP!First, CP!Second, CP!Opened
<1>4. QED
  BY <1>1, <1>2, <1>3 DEF ClientInv

(* On a connection as good as new everything holds. *)
LEMMA NewClient ==
  ASSUME call = "none", cmd = "none", verb = "none", data = FALSE, aborting = FALSE, gone = FALSE,
         wire = << >>, inbox = << >>, serving = "none"
  PROVE  ClientInv
<1>1. CP!TypeInv
  BY CP!Nothing DEF CP!TypeInv
<1>2. CP!CallInv
  BY CP!Distinct DEF CP!CallInv
<1>3. CP!InboxInv
  BY DEF CP!InboxInv
<1>4. CP!OwedInv
  BY DEF CP!OwedInv, CP!Owes, CP!Opened
<1>5. QED
  BY <1>1, <1>2, <1>3, <1>4 DEF ClientInv

LEMMA NextKeepsClient ==
  ASSUME ClientInv, PhaseInv, [Next]_vars
  PROVE  ClientInv'
<1>1. CASE Untouched
  BY <1>1, SameClient
<1>2. CASE OpenData \/ Stop \/ Finish \/ Verify \/ RemoveRemote \/ ClientStep \/ ServerStep
  <2>1. UNCHANGED behind /\ (CP!Next \/ UNCHANGED client)
    BY <1>2, CallsAreTheClients
  <2>2. CASE UNCHANGED client
    BY <2>1, <2>2, SameClient DEF Untouched
  <2>3. CASE CP!Next
    <3>1. CP!TypeInv' /\ CP!CallInv'
      BY <2>3, CP!NextKeepsType, CP!NextKeepsCall DEF ClientInv
    <3>2. ASSUME ~behind PROVE CP!InboxInv' /\ CP!OwedInv'
      BY <2>3, <3>2, CP!NextKeepsInv DEF ClientInv, CP!Inv
    <3>3. QED
      BY <2>1, <3>1, <3>2 DEF ClientInv
  <2>4. QED
    BY <2>1, <2>2, <2>3
<1>3. CASE EndOfData
  <2>1. CASE UNCHANGED <<client, behind>>
    BY <2>1, SameClient DEF Untouched
  <2>2. CASE /\ data' = FALSE /\ verb' = "none" /\ behind' = TRUE
             /\ UNCHANGED <<call, cmd, aborting, wire, inbox, serving, gone>>
    <3>1. call = "none" /\ cmd = "none" /\ aborting = FALSE
      BY <1>3, CP!Distinct DEF EndOfData, PhaseInv, ClientInv, CP!CallInv, CP!TypeInv
    <3>2. CP!TypeInv'
      BY <2>2 DEF ClientInv, CP!TypeInv
    <3>3. CP!CallInv'
      BY <2>2, <3>1, CP!Distinct DEF CP!CallInv
    <3>4. QED
      BY <2>2, <3>2, <3>3 DEF ClientInv
  <2>3. QED
    BY <1>3, <2>1, <2>2 DEF EndOfData
<1>4. CASE Reconnect
  <2>1. /\ call' = "none" /\ cmd' = "none" /\ verb' = "none" /\ data' = FALSE /\ aborting' = FALSE
        /\ gone' = FALSE /\ wire' = << >> /\ inbox' = << >> /\ serving' = "none"
    BY <1>4 DEF Reconnect
  <2>2. CP!TypeInv' /\ CP!CallInv'
    BY <2>1, CP!Nothing, CP!Distinct DEF CP!TypeInv, CP!CallInv
  <2>3. CP!InboxInv' /\ CP!OwedInv'
    BY <2>1 DEF CP!InboxInv, CP!OwedInv, CP!Owes, CP!Opened
  <2>4. QED
    BY <2>2, <2>3 DEF ClientInv
<1>5. QED
  BY <1>1, <1>2, <1>3, <1>4, StepsOfTheClient

(* Which function a job is in. *)
LEMMA JumpsKeepPhase ==
  ASSUME JobInv, PhaseInv, UNCHANGED client,
         \/ BeginJob \/ DataOpened \/ Receive \/ Flush \/ SendChunk \/ CopyChunk \/ Stopped
         \/ Finished \/ Verified \/ Removed \/ Clean \/ Replace \/ Rename \/ Crash
  PROVE  PhaseInv'
<1>0. UNCHANGED <<data, call, cmd, verb, aborting, result>>
  BY DEF client
<1>1. /\ UNCHANGED direction
      /\ \/ pc \in {"begin", "replace", "clean", "rename"} /\ pc' \in {"replace", "rename", "clean", "returned"}
         \/ pc = "begin" /\ pc' = "open"
         \/ pc = "begin" /\ direction = "LOCAL_COPY" /\ pc' = "loop"
         \/ pc = "opening" /\ result = "yes" /\ call = "none" /\ pc' = "loop"
         \/ pc = "opening" /\ result # "yes" /\ call = "none" /\ pc' \in {"clean", "returned"}
         \/ pc \in {"loop", "flush"} /\ direction # "LOCAL_COPY" /\ pc' \in {"loop", "flush", "finish"}
         \/ pc \in {"loop", "flush"} /\ direction = "LOCAL_COPY" /\ pc' \in {"loop", "replace"}
         \/ pc \in {"aborting", "closing", "sizing", "removing"} /\ call = "none"
            /\ pc' \in {"remove", "clean", "replace", "verify", "returned"}
         \/ pc' = "crashed"
  <2>1. CASE BeginJob \/ DataOpened \/ Stopped \/ Finished \/ Verified \/ Removed
    BY <2>1 DEF BeginJob, DataOpened, Stopped, Finished, Verified, Removed, Goto, Return, Back,
         about
  <2>2. CASE Receive \/ Flush \/ SendChunk \/ CopyChunk \/ Clean \/ Replace \/ Rename \/ Crash
    BY <2>2 DEF Receive, Flush, SendChunk, CopyChunk, Clean, Replace, Rename, Crash, Goto,
         Return, about, JobInv, PathInv
  <2>3. QED
    BY <2>1, <2>2
<1>2. QED
  BY <1>0, <1>1 DEF PhaseInv, Calling, JobInv, PathInv

LEMMA CallsKeepPhase ==
  ASSUME JobInv, PhaseInv, ClientInv, OpenData \/ Stop \/ Finish \/ Verify \/ RemoveRemote
  PROVE  PhaseInv'
<1>0. UNCHANGED direction /\ (call = "none" => cmd = "none") /\ (call = "none" /\ ~data => verb = "none")
      /\ (aborting => ~data /\ verb # "none") /\ data \in BOOLEAN /\ aborting \in BOOLEAN
  BY DEF OpenData, Stop, Finish, Verify, RemoveRemote, about, ClientInv, CP!CallInv, CP!TypeInv
<1>1. CASE OpenData
  <2>1. /\ pc = "open" /\ pc' = "opening" /\ call = "none" /\ ~data /\ UNCHANGED <<data, aborting>>
        /\ \/ call' \in {"beginRetrieve", "beginStore"} /\ cmd' = "PASV" /\ verb' \in {"RETR", "STOR"}
           \/ call' = "none" /\ result' = "no"
    <3>1. LET f == IF direction = "DOWNLOAD" THEN "beginRetrieve" ELSE "beginStore"
          IN  \/ C!CallOpening(f) /\ C!Opening[f] \in {"RETR", "STOR"} /\ f \in {"beginRetrieve", "beginStore"}
              \/ C!CallDead(f) /\ f # "probe"
      BY <1>1 DEF OpenData, C!Opening
    <3>2. QED
      BY <1>1, <3>1 DEF OpenData, C!CallOpening, C!CallDead, C!Free, C!Returned, C!Return,
           C!Send, C!LostResult, Goto
  <2>2. QED
    BY <1>0, <2>1 DEF PhaseInv
<1>2. CASE Stop
  <2>1. \/ direction = "LOCAL_COPY" /\ pc \in {"loop", "flush"} /\ pc' = "clean" /\ UNCHANGED <<call, data>>
        \/ pc' = "aborting" /\ call' = "abortTransfer" /\ data' = FALSE /\ aborting' = TRUE
    BY <1>2 DEF Stop, C!AbortTransfer, C!Abort, Goto, client
  <2>2. QED
    BY <1>0, <2>1 DEF PhaseInv, Calling
<1>3. CASE Finish
  <2>1. pc' = "closing" /\ call' = "finishTransfer" /\ data' = FALSE /\ cmd' = verb /\ data /\ UNCHANGED <<verb, aborting>>
    BY <1>3 DEF Finish, C!FinishTransfer, Goto
  <2>2. QED
    BY <1>0, <2>1 DEF PhaseInv, Calling
<1>4. CASE Verify
  <2>1. /\ pc = "verify" /\ UNCHANGED <<data, verb, aborting>>
        /\ \/ pc' = "returned" /\ call' = call
           \/ pc' = "sizing" /\ call' = "none"
           \/ pc' = "sizing" /\ call' = "size" /\ cmd' = "SIZE"
    BY <1>4 DEF Verify, Asks, C!CallSimple, C!CallDead, C!Return, C!Send, C!Simple, Goto,
         Return, client
  <2>2. QED
    BY <1>0, <2>1 DEF PhaseInv, Calling
<1>5. CASE RemoveRemote
  <2>1. /\ pc = "remove" /\ UNCHANGED <<data, verb, aborting>>
        /\ \/ pc' = "returned" /\ call' = call
           \/ pc' = "removing" /\ call' = "removeFile" /\ cmd' = "DELE"
    BY <1>5 DEF RemoveRemote, AskRemove, C!CallSimple, C!Send, C!Simple, Goto, Return, client
  <2>2. QED
    BY <1>0, <2>1 DEF PhaseInv, Calling
<1>6. QED
  BY <1>1, <1>2, <1>3, <1>4, <1>5

(* What a reply that is read, or a link that is lost, makes of a call.     *)
LEMMA ClientKeepsPhase ==
  ASSUME PhaseInv, ClientInv, ClientStep
  PROVE  PhaseInv'
<1>0. /\ C!Step /\ UNCHANGED <<pc, direction>>
      /\ data \in BOOLEAN /\ aborting \in BOOLEAN /\ verb # "PASV" /\ verb # "ABOR"
  BY CP!Distinct DEF ClientStep, about, ClientInv, CP!TypeInv
<1>1. cmd # "none" \/ call \in {"list", "exists"}
  BY <1>0 DEF C!Step, C!ReadReply, C!ReadListing, C!LoseLink
<1>2. call # "none"
  BY <1>1 DEF ClientInv, CP!CallInv
<1>3. CASE C!LoseLink
  <2>1. call' = "none" /\ data' = FALSE /\ (call # "probe" => result' = "no")
    BY <1>3 DEF C!LoseLink, C!Close, C!Return, C!LostResult
  <2>2. QED
    BY <1>0, <1>2, <2>1 DEF PhaseInv, Calling
<1>4. CASE C!ReadListing
  BY <1>0, <1>2, <1>4 DEF C!ReadListing, PhaseInv, Calling
<1>5. CASE C!ReadReply
  <2>1. CASE pc = "opening"
    <3>1. /\ call \in {"beginRetrieve", "beginStore"} /\ verb \in {"RETR", "STOR"} /\ ~aborting
          /\ (cmd = "PASV" /\ ~data) \/ (cmd = verb /\ data)
      BY <1>2, <2>1 DEF PhaseInv
    <3>2. C!OpeningReply
      BY <1>5, <3>1 DEF C!ReadReply, C!LoginReply, C!SimpleReply, C!AbortReply, C!Simple
    <3>3. /\ aborting' = aborting
          /\ \/ cmd' = verb /\ data' = TRUE /\ UNCHANGED <<call, verb>>
             \/ call' = "none" /\ data' = FALSE /\ result' = "no"
             \/ call' = "none" /\ data' = data /\ data /\ result' = "yes"
      BY <3>1, <3>2 DEF C!OpeningReply, C!NotOpened, C!Send, C!Return
    <3>4. QED
      BY <1>0, <2>1, <3>1, <3>3 DEF PhaseInv
  <2>2. CASE pc \in {"sizing", "removing"}
    <3>1. call \in {"size", "removeFile"} /\ verb = "none" /\ ~aborting /\ ~data /\ cmd \in {"SIZE", "DELE"}
      BY <1>2, <2>2 DEF PhaseInv, Calling
    <3>2. C!SimpleReply
      BY <1>5, <3>1 DEF C!ReadReply, C!LoginReply, C!OpeningReply, C!AbortReply
    <3>3. call' = "none" /\ data' = data
      BY <3>1, <3>2 DEF C!SimpleReply, C!Return
    <3>4. QED
      BY <1>0, <2>2, <3>1, <3>3 DEF PhaseInv, Calling
  <2>3. CASE pc = "aborting"
    <3>1. call = "abortTransfer" /\ aborting /\ ~data
      BY <1>2, <2>3 DEF PhaseInv, Calling
    <3>2. C!AbortReply
      BY <1>5, <3>1 DEF C!ReadReply, C!LoginReply, C!OpeningReply, C!SimpleReply, C!Simple
    <3>3. data' = data /\ (call' = "none" \/ (call' = call /\ aborting' = aborting))
      BY <3>2 DEF C!AbortReply, C!Return
    <3>4. QED
      BY <1>0, <2>3, <3>1, <3>3 DEF PhaseInv, Calling
  <2>4. CASE pc = "closing"
    <3>1. call = "finishTransfer" /\ cmd = verb /\ ~data /\ ~aborting
      BY <1>2, <2>4 DEF PhaseInv, Calling
    <3>2. C!OpeningReply
      BY <1>5, <3>1 DEF C!ReadReply, C!LoginReply, C!AbortReply, C!SimpleReply, C!Simple
    <3>3. call' = "none" /\ data' = data
      BY <1>0, <3>1, <3>2 DEF C!OpeningReply, C!Return
    <3>4. QED
      BY <1>0, <2>4, <3>1, <3>3 DEF PhaseInv, Calling
  <2>5. CASE pc \notin {"opening", "sizing", "removing", "aborting", "closing"}
    BY <1>0, <1>2, <2>5 DEF PhaseInv
  <2>6. QED
    BY <2>1, <2>2, <2>3, <2>4, <2>5
<1>6. QED
  BY <1>0, <1>3, <1>4, <1>5 DEF C!Step

LEMMA NextKeepsPhase ==
  ASSUME JobInv, PhaseInv, ClientInv, [Next]_vars
  PROVE  PhaseInv'
<1>1. ASSUME NEW d \in Directions, Start(d) PROVE PhaseInv'
  BY <1>1 DEF Start, PhaseInv, client
<1>2. CASE \/ BeginJob \/ DataOpened \/ Receive \/ Flush \/ SendChunk \/ CopyChunk \/ Stopped
           \/ Finished \/ Verified \/ Removed \/ Clean \/ Replace \/ Rename \/ Crash
  <2>1. UNCHANGED client
    BY <1>2 DEF BeginJob, DataOpened, Receive, Flush, SendChunk, CopyChunk, Stopped, Finished,
         Verified,
                Removed, Clean, Replace, Rename, Crash
  <2>2. QED
    BY <1>2, <2>1, JumpsKeepPhase
<1>3. CASE EndOfData
  <2>1. /\ pc = "loop" /\ direction = "DOWNLOAD" /\ UNCHANGED direction
        /\ \/ pc' = "finish" /\ UNCHANGED <<call, data>>
           \/ pc' = "clean" /\ call' = call /\ data' = FALSE
    BY <1>3 DEF EndOfData, about, client
  <2>2. QED
    BY <2>1 DEF PhaseInv
<1>4. CASE OpenData \/ Stop \/ Finish \/ Verify \/ RemoveRemote
  BY <1>4, CallsKeepPhase
<1>5. CASE ClientStep
  BY <1>5, ClientKeepsPhase
<1>6. CASE Cancel \/ ServerStep \/ UNCHANGED vars
  <2>1. UNCHANGED <<pc, direction, data, call, cmd, verb, aborting, result>>
    BY <1>6 DEF Cancel, ServerStep, C!Server, C!Serve, C!EndTransfer, C!Bye, C!client, about,
         client, vars
  <2>2. QED
    BY <2>1 DEF PhaseInv, Calling
<1>7. CASE Reconnect
  BY <1>7 DEF Reconnect, Goto, about, PhaseInv
<1>8. QED
  BY <1>1, <1>2, <1>3, <1>4, <1>5, <1>6, <1>7 DEF Next, JobStep

----------------------------------------------------------------------------
(* The file on the server. *)

LEMMA NextKeepsSent ==
  ASSUME JobInv, SentInv, [Next]_vars
  PROVE  SentInv'
<1> USE DEF SentInv
<1>1. ASSUME NEW d \in Directions, Start(d) PROVE SentInv'
  <2>1. len' \in Nat /\ done' = 0 /\ pc' = "begin"
    BY <1>1, TransferAssumption DEF Start
  <2>2. QED
    BY <2>1
<1>2. CASE UNCHANGED <<direction, len, done, pc>>
  BY <1>2
<1>3. CASE /\ UNCHANGED <<direction, len, done>>
           /\ \/ pc = "begin" /\ pc' \in {"open", "returned", "loop"}
              \/ pc = "open" /\ pc' = "opening"
              \/ pc = "opening" /\ pc' \in {"loop", "clean", "returned"}
              \/ direction # "UPLOAD"
              \/ pc = "finish" /\ pc' = "closing"
              \/ pc = "closing" /\ pc' \in {"remove", "verify"}
              \/ pc = "verify" /\ pc' = "sizing"
              \/ pc' \in {"remove", "removing", "aborting", "clean", "returned", "crashed", "idle"}
  BY <1>3
<1>4. CASE JobStep
  <2>1. CASE BeginJob \/ OpenData \/ DataOpened \/ Finish \/ Stopped
    BY <1>3, <2>1 DEF BeginJob, OpenData, DataOpened, Finish, Stopped, Goto, Return, Back, about
  <2>2. CASE Verify \/ Verified \/ RemoveRemote \/ Removed
    BY <1>3, <2>2 DEF Verify, Verified, RemoveRemote, Removed, AskRemove, Goto, Return, Back,
         about
  <2>3. CASE Receive \/ CopyChunk
    BY <2>3 DEF Receive, CopyChunk, about
  <2>4. CASE Flush \/ EndOfData
    BY <2>4 DEF Flush, EndOfData, about, JobInv, PathInv
  <2>5. CASE SendChunk
    BY <2>5 DEF SendChunk, about, JobInv, TypeInv
  <2>6. CASE Stop \/ Finished
    BY <1>3, <2>6 DEF Stop, Finished, Goto, Back, about
  <2>7. CASE Clean \/ Replace \/ Rename
    BY <2>7 DEF Clean, Replace, Rename, Goto, Return, about, JobInv, PathInv
  <2>8. QED
    BY <1>4, <2>1, <2>2, <2>3, <2>4, <2>5, <2>6, <2>7 DEF JobStep
<1>5. CASE Cancel \/ ClientStep \/ ServerStep \/ UNCHANGED vars
  BY <1>2, <1>5 DEF Cancel, ClientStep, ServerStep, about, vars
<1>6. CASE Crash \/ Reconnect
  BY <1>3, <1>6 DEF Crash, Reconnect, Goto, about
<1>7. QED
  BY <1>1, <1>4, <1>5, <1>6 DEF Next

(* With nothing owed, the server can only say good-bye: the file stays.    *)
LEMMA QuietServer ==
  ASSUME ClientInv, ~behind, call = "none", ~data, ServerStep
  PROVE  UNCHANGED <<remote, told>>
<1>1. cmd = "none" /\ serving = "none" /\ (~gone => wire = << >>)
  BY DEF ClientInv, CP!CallInv, CP!OwedInv, CP!Owes
<1>2. wire' = wire /\ serving' = "none"
  BY <1>1 DEF ServerStep, C!Server, C!Serve, C!EndTransfer, C!Bye
<1>3. QED
  BY <1>1, <1>2 DEF ServerStep

(* One command of the client is with the server, or its answer on the way. *)
LEMMA OneCommand ==
  ASSUME ClientInv, ~behind, cmd \in {"SIZE", "DELE"}, verb = "none"
  PROVE  /\ ~data /\ serving = "none" /\ inbox \in CP!Inbox /\ Len(inbox) \in Nat
         /\ ~gone => (wire = <<cmd>> /\ inbox = << >>) \/ (wire = << >> /\ Len(inbox) = 1)
         /\ inbox # << >> => Len(inbox) >= 1 /\ inbox[1].to \in {cmd, "bye"}
         /\ inbox # << >> /\ inbox[1].to = "bye" => inbox[1].code = "421"
<1>1. ~data /\ ~aborting
  BY DEF ClientInv, CP!CallInv
<1>2. inbox \in CP!Inbox /\ Len(inbox) \in Nat /\ (Len(inbox) = 0 => inbox = << >>)
  BY DEF ClientInv, CP!TypeInv, CP!Inbox
<1>3. gone => serving = "none"
  BY DEF ClientInv, CP!OwedInv
<1>4. ~gone => CP!Owes(0, "none", <<cmd>>) \/ CP!Owes(1, "none", << >>)
  BY DEF ClientInv, CP!OwedInv
<1>5. Len(inbox) >= 1 => inbox[1].to \in {cmd, "bye"}
  BY <1>1 DEF ClientInv, CP!InboxInv, CP!First
<1>6. Len(inbox) >= 1 /\ inbox[1].to = "bye" => inbox[1].code = "421"
  <2>1. Len(inbox) >= 1 => 1 \in 1..Len(inbox)
    BY <1>2
  <2>2. QED
    BY <2>1 DEF ClientInv, CP!InboxInv
<1>7. QED
  BY <1>1, <1>2, <1>3, <1>4, <1>5, <1>6 DEF CP!Owes, ClientInv, CP!TypeInv

(* The server handles that command, or leaves.                             *)
LEMMA ServerAnswers ==
  ASSUME ClientInv, ~behind, cmd \in {"SIZE", "DELE"}, verb = "none", ServerStep
  PROVE  \/ /\ UNCHANGED <<remote, told>>
            /\ inbox # << >> => inbox'[1] = inbox[1]
            /\ inbox = << >> => inbox'[1].to = "bye"
         \/ /\ cmd = "SIZE" /\ remote' = remote
            /\ told' = IF remote = "whole" THEN len ELSE len + 1
         \/ /\ cmd = "DELE"
            /\ inbox'[1].code = "250" => remote' = "absent"
            /\ inbox'[1].code \in {"250", "5xx"}
<1>1. /\ serving = "none" /\ inbox \in CP!Inbox /\ Len(inbox) \in Nat
      /\ ~gone => (wire = <<cmd>> /\ inbox = << >>) \/ (wire = << >> /\ Len(inbox) = 1)
      /\ inbox # << >> => Len(inbox) >= 1
  BY OneCommand
<1>2. CASE C!Serve
  <2>1. wire = <<cmd>> /\ inbox = << >> /\ Head(wire) = cmd /\ wire' = << >> /\ wire' # wire
    <3>1. wire = <<cmd>> /\ inbox = << >> /\ wire' = Tail(wire)
      BY <1>1, <1>2 DEF C!Serve
    <3>2. Head(<<cmd>>) = cmd /\ Tail(<<cmd>>) = << >> /\ <<cmd>> # << >>
      BY CP!Short
    <3>3. QED
      BY <3>1, <3>2
  <2>2. PICK code \in C!Answers[cmd] :
           /\ inbox' = Append(inbox, [to |-> cmd, code |-> code])
           /\ serving' = IF code = "1xx" THEN cmd ELSE "none"
    BY <1>2, <2>1 DEF C!Serve, C!Tell
  <2>3. /\ cmd = "SIZE" => code \in {"213", "4xx", "5xx"}
        /\ cmd = "DELE" => code \in {"250", "5xx"}
    BY <2>2 DEF C!Answers, C!Commands, C!Transfers
  <2>4. inbox'[Len(inbox')] = [to |-> cmd, code |-> code] /\ inbox'[1] = [to |-> cmd, code |-> code]
    BY <2>1, <2>2
  <2>5. serving' = "none"
    BY <2>2, <2>3
  <2>6. CASE cmd = "SIZE"
    BY <1>1, <2>1, <2>5, <2>6 DEF ServerStep
  <2>7. CASE cmd = "DELE"
    <3>1. remote' \in IF inbox'[Len(inbox')].code = "250" THEN {"absent"} ELSE {remote}
      BY <1>1, <2>1, <2>5, <2>7 DEF ServerStep
    <3>2. QED
      BY <2>3, <2>4, <2>7, <3>1
  <2>8. QED
    BY <2>6, <2>7
<1>3. CASE C!Bye
  <2>1. wire' = wire /\ serving' = "none" /\ inbox' = Append(inbox, [to |-> "bye", code |-> "421"])
    BY <1>3 DEF C!Bye, C!Tell
  <2>2. UNCHANGED <<remote, told>>
    BY <1>1, <2>1 DEF ServerStep
  <2>3. (inbox # << >> => inbox'[1] = inbox[1]) /\ (inbox = << >> => inbox'[1].to = "bye")
    <3> DEFINE R == [to : CP!Commands \cup {"bye"}, code : CP!Codes]
    <3>1. inbox \in Seq(R)
      BY <1>1 DEF CP!Inbox
    <3> HIDE DEF R
    <3>2. inbox # << >> => inbox'[1] = inbox[1]
      BY <1>1, <2>1, <3>1
    <3>3. inbox = << >> => inbox'[1].to = "bye"
      BY <2>1
    <3>4. QED
      BY <3>2, <3>3
  <2>4. QED
    BY <2>2, <2>3
<1>4. ~C!EndTransfer
  BY <1>1 DEF C!EndTransfer
<1>5. QED
  BY <1>2, <1>3, <1>4 DEF ServerStep, C!Server

LEMMA ServerKeepsAnswer ==
  ASSUME ClientInv, PhaseInv, AnswerInv, ~behind, ServerStep
  PROVE  AnswerInv'
<1>1. UNCHANGED <<pc, call, result, len, done, ok, direction, unchecked, cmd, data>>
  BY DEF ServerStep, C!Server, C!Serve, C!EndTransfer, C!Bye, C!client, about
<1>2. CASE pc \in {"sizing", "removing", "returned"} /\ call = "none" /\ ~data
  <2>1. UNCHANGED <<remote, told>>
    BY <1>2, QuietServer
  <2>2. QED
    BY <1>1, <1>2, <2>1 DEF AnswerInv, ToldTruth
<1>3. CASE pc = "sizing" /\ call # "none"
  <2>1. cmd = "SIZE" /\ verb = "none"
    BY <1>3 DEF PhaseInv
  <2>2. \/ /\ UNCHANGED <<remote, told>>
           /\ inbox # << >> => inbox'[1] = inbox[1]
           /\ inbox = << >> => inbox'[1].to = "bye"
        \/ ToldTruth'
    BY <1>1, <2>1, ServerAnswers DEF ToldTruth
  <2>3. QED
    BY <1>1, <1>3, <2>2 DEF AnswerInv, Answered, ToldTruth
<1>4. CASE pc = "removing" /\ call # "none"
  <2>1. cmd = "DELE" /\ verb = "none"
    BY <1>4 DEF PhaseInv
  <2>2. \/ /\ UNCHANGED <<remote, told>>
           /\ inbox # << >> => inbox'[1] = inbox[1]
           /\ inbox = << >> => inbox'[1].to = "bye"
        \/ /\ inbox'[1].code = "250" => remote' = "absent"
           /\ inbox'[1].code \in {"250", "5xx"}
    BY <2>1, ServerAnswers
  <2>3. (CP!Completed)' = CP!Completed /\ "5xx" \notin CP!Completed
    BY DEF CP!Completed
  <2>4. QED
    BY <1>1, <1>4, <2>2, <2>3 DEF AnswerInv, Answered
<1>5. CASE pc \notin {"sizing", "removing", "returned"}
  BY <1>1, <1>5 DEF AnswerInv
<1>6. QED
  BY <1>2, <1>3, <1>4, <1>5 DEF PhaseInv, Calling

(* size() and removeFile() say yes only to the answer to their command.    *)
LEMMA ClientKeepsAnswer ==
  ASSUME ClientInv, PhaseInv, AnswerInv, ~behind, ClientStep
  PROVE  AnswerInv'
<1>1. /\ C!Step
      /\ UNCHANGED <<pc, remote, told, len, done, ok, direction, unchecked>>
  BY DEF ClientStep, about, server
<1>2. (cmd # "none" \/ call \in {"list", "exists"}) /\ call # "none"
  <2>1. cmd # "none" \/ call \in {"list", "exists"}
    BY <1>1 DEF C!Step, C!ReadReply, C!ReadListing, C!LoseLink
  <2>2. QED
    BY <2>1 DEF ClientInv, CP!CallInv
<1>3. CASE pc \in {"sizing", "removing"}
  <2>1. /\ call = (IF pc = "sizing" THEN "size" ELSE "removeFile")
        /\ cmd = (IF pc = "sizing" THEN "SIZE" ELSE "DELE")
        /\ verb = "none" /\ ~data /\ ~aborting
    BY <1>2, <1>3 DEF PhaseInv, Calling
  <2>2. call' = "none" /\ (result' = "yes" => inbox # << >> /\ Head(inbox).code \in CP!Completed
                                                /\ (pc = "sizing" => Head(inbox).code = "213"))
    <3>1. CASE C!LoseLink
      BY <2>1, <3>1 DEF C!LoseLink, C!Return, C!LostResult
    <3>2. ~C!ReadListing
      BY <2>1 DEF C!ReadListing
    <3>3. CASE C!ReadReply
      <4>1. inbox # << >> /\ C!SimpleReply
        BY <2>1, <3>3 DEF C!ReadReply, C!LoginReply, C!OpeningReply, C!AbortReply
      <4>2. call' = "none" /\ result' = C!Verdict(C!Reply.code)
        BY <2>1, <4>1 DEF C!SimpleReply, C!Return
      <4>3. result' = "yes" => C!Reply.code \in C!Completed /\ (pc = "sizing" => C!Reply.code = "213")
        BY <2>1, <4>2 DEF C!Verdict, C!Completed
      <4>4. QED
        BY <4>1, <4>2, <4>3 DEF C!Completed, CP!Completed, C!Reply
    <3>4. QED
      BY <1>1, <3>1, <3>2, <3>3 DEF C!Step
  <2>3. result' = "yes" => inbox # << >> /\ inbox[1].code \in CP!Completed /\ inbox[1].to = cmd
    <3>1. inbox # << >> => Len(inbox) >= 1 /\ inbox[1].to \in {cmd, "bye"}
                           /\ (inbox[1].to = "bye" => inbox[1].code = "421")
      BY <2>1, OneCommand
    <3>2. inbox # << >> => Head(inbox) = inbox[1]
      BY <2>1, OneCommand DEF CP!Inbox
    <3>3. "421" \notin CP!Completed
      BY DEF CP!Completed
    <3>4. QED
      BY <2>2, <3>1, <3>2, <3>3
  <2>4. result' = "yes" => IF pc = "sizing" THEN ToldTruth ELSE remote = "absent"
    BY <1>3, <2>1, <2>3 DEF AnswerInv, Answered
  <2>5. QED
    BY <1>1, <1>3, <2>2, <2>4 DEF AnswerInv, ToldTruth
<1>4. CASE pc \notin {"sizing", "removing"}
  <2>1. pc # "returned"
    BY <1>2 DEF PhaseInv
  <2>2. QED
    BY <1>1, <1>4, <2>1 DEF AnswerInv
<1>5. QED
  BY <1>3, <1>4

(* A job calls size() and removeFile() with no answer waiting.             *)
LEMMA CallsAskAfresh ==
  ASSUME ClientInv, PhaseInv, ~behind, Verify \/ RemoveRemote
  PROVE  AnswerInv'
<1>1. call = "none" /\ ~data /\ pc \in {"verify", "remove"}
  BY DEF Verify, RemoveRemote, PhaseInv
<1>2. inbox # << >> => inbox[1].to \in {"none", "bye"}
  <2>1. CP!First = "none"
    BY <1>1 DEF CP!First, ClientInv, CP!CallInv
  <2>2. inbox # << >> => Len(inbox) >= 1
    BY CP!RestOfInbox DEF ClientInv
  <2>3. QED
    BY <2>1, <2>2 DEF ClientInv, CP!InboxInv
<1>3. CASE Verify
  <2>1. \/ pc' = "returned" /\ done = 0 /\ done' = done
        \/ pc' = "sizing" /\ call' = "none" /\ result' = "no"
        \/ pc' = "sizing" /\ call' = "size" /\ inbox' = inbox
    BY <1>3 DEF Verify, Asks, C!CallSimple, C!CallDead, C!Return, C!LostResult, Goto, Return
  <2>2. QED
    BY <1>2, <2>1 DEF AnswerInv, Answered
<1>4. CASE RemoveRemote
  <2>1. \/ pc' = "returned" /\ ok' = FALSE
        \/ pc' = "removing" /\ call' = "removeFile" /\ inbox' = inbox
    BY <1>4 DEF RemoveRemote, AskRemove, C!CallSimple, Goto, Return
  <2>2. QED
    BY <1>2, <2>1 DEF AnswerInv, Answered
<1>5. QED
  BY <1>3, <1>4

LEMMA JobKeepsAnswer ==
  ASSUME JobInv, PhaseInv, SentInv, AnswerInv,
         \/ BeginJob \/ DataOpened \/ Receive \/ Flush \/ SendChunk \/ CopyChunk \/ Stopped
         \/ Finished \/ Verified \/ Removed \/ Clean \/ Replace \/ Rename \/ Crash
         \/ OpenData \/ Stop \/ Finish \/ EndOfData
  PROVE  AnswerInv'
<1>1. CASE Verified
  <2>1. /\ pc = "sizing" /\ call = "none" /\ direction = "UPLOAD" /\ len \in Nat /\ done = len
        /\ UNCHANGED <<direction, done, remote, call, result>>
    BY <1>1 DEF Verified, Back, Goto, Return, about, client, JobInv, PathInv, TypeInv, SentInv
  <2>2. pc' \in {"remove", "returned"} /\ (pc' = "returned" /\ result = "yes" => told = done)
    BY <1>1 DEF Verified, SameLength, Goto, Return
  <2>3. pc' = "returned" /\ ~unchecked' => remote = "whole"
    <3>1. ~unchecked' => result = "yes"
      BY <1>1 DEF Verified
    <3>2. result = "yes" => told = IF remote = "whole" THEN len ELSE len + 1
      BY <2>1 DEF AnswerInv, ToldTruth
    <3>3. QED
      BY <2>1, <2>2, <3>1, <3>2
  <2>4. QED
    BY <2>1, <2>2, <2>3 DEF AnswerInv
<1>2. CASE \/ BeginJob \/ DataOpened \/ Stopped \/ Finished \/ Removed \/ Clean \/ Crash
           \/ OpenData \/ Stop \/ Finish
  <2>1. pc' \notin {"sizing", "removing"} /\ (pc' = "returned" => ok' = FALSE)
    BY <1>2 DEF BeginJob, DataOpened, Stopped, Finished, Removed, Clean, Crash, OpenData, Stop,
         Finish,
                Back, Goto, Return
  <2>2. QED
    BY <2>1 DEF AnswerInv
<1>3. CASE Receive \/ Flush \/ SendChunk \/ CopyChunk \/ Replace \/ EndOfData
  <2>1. pc' \notin {"sizing", "removing", "returned"}
    BY <1>3 DEF Receive, Flush, SendChunk, CopyChunk, Replace, EndOfData, Goto
  <2>2. QED
    BY <2>1 DEF AnswerInv
<1>4. CASE Rename
  <2>1. pc' = "returned" /\ direction' # "UPLOAD"
    BY <1>4 DEF Rename, Return, about, JobInv, PathInv
  <2>2. QED
    BY <2>1 DEF AnswerInv
<1>5. QED
  BY <1>1, <1>2, <1>3, <1>4

LEMMA NextKeepsAnswer ==
  ASSUME UploadInv, [Next]_vars, ~behind'
  PROVE  AnswerInv'
<1> USE DEF UploadInv
<1>1. CASE Reconnect
  BY <1>1 DEF Reconnect, Goto, AnswerInv
<1>2. CASE ~Reconnect
  <2>1. ~behind
    <3>1. CASE Untouched \/ EndOfData
      BY <3>1 DEF Untouched, EndOfData
    <3>2. CASE OpenData \/ Stop \/ Finish \/ Verify \/ RemoveRemote \/ ClientStep \/ ServerStep
      BY <3>2, CallsAreTheClients
    <3>3. QED
      BY <1>2, <3>1, <3>2, StepsOfTheClient
  <2>2. ASSUME NEW d \in Directions, Start(d) PROVE AnswerInv'
    BY <2>2 DEF Start, AnswerInv
  <2>3. CASE JobStep
    BY <2>1, <2>3, JobKeepsAnswer, CallsAskAfresh DEF JobStep
  <2>4. CASE ClientStep \/ ServerStep
    BY <2>1, <2>4, ClientKeepsAnswer, ServerKeepsAnswer
  <2>5. CASE Crash
    BY <2>1, <2>5, JobKeepsAnswer
  <2>6. CASE Cancel \/ UNCHANGED vars
    <3>1. UNCHANGED <<pc, call, result, inbox, direction, len, done, ok, remote, told, unchecked>>
      BY <2>6 DEF Cancel, vars, client, about, server
    <3>2. (CP!Completed)' = CP!Completed
      BY DEF CP!Completed
    <3>3. QED
      BY <2>1, <3>1, <3>2 DEF AnswerInv, Answered, ToldTruth
  <2>7. QED
    BY <1>2, <2>2, <2>3, <2>4, <2>5, <2>6 DEF Next
<1>3. QED
  BY <1>1, <1>2

LEMMA InitUpload ==
  Init => UploadInv
<1> SUFFICES ASSUME Init PROVE UploadInv
  OBVIOUS
<1>1. ClientInv
  BY NewClient DEF Init, Connected
<1>2. PhaseInv
  BY DEF Init, Connected, PhaseInv
<1>3. SentInv /\ AnswerInv
  BY DEF Init, SentInv, AnswerInv
<1>4. QED
  BY <1>1, <1>2, <1>3, InitJob DEF UploadInv

LEMMA StepUpload ==
  UploadInv /\ [Next]_vars => UploadInv'
<1> SUFFICES ASSUME UploadInv, [Next]_vars PROVE UploadInv'
  OBVIOUS
<1>1. JobInv'
  BY StepJob DEF UploadInv
<1>2. ClientInv' /\ PhaseInv' /\ SentInv'
  BY NextKeepsClient, NextKeepsPhase, NextKeepsSent DEF UploadInv
<1>3. ASSUME ~behind' PROVE AnswerInv'
  BY <1>3, NextKeepsAnswer
<1>4. QED
  BY <1>1, <1>2, <1>3 DEF UploadInv

LEMMA UploadHolds == Spec => []UploadInv
  BY InitUpload, StepUpload, PTL DEF Spec

(* An upload that runUpload() reports as done is whole on the server, or   *)
(* the server would not tell its size: the size that is compared was told  *)
(* of this file after its last byte, and nothing has changed it since.     *)
THEOREM UploadsAreWhole == Spec => []UploadIsWhole
<1>1. UploadInv => UploadIsWhole
  BY DEF UploadInv, AnswerInv, UploadIsWhole
<1>2. QED
  BY <1>1, UploadHolds, PTL

(* runUpload() leaves no part of a file on a server that still answers and *)
(* does not refuse the removal.                                            *)
THEOREM FailedUploadsAreRemoved == Spec => FailedUploadIsRemoved
<1> DEFINE A == (direction = "UPLOAD" /\ pc \in {"remove", "removing"} /\ pc' = "returned")
                   => (remote' # "partial" \/ unchecked' \/ ~C!Alive \/ behind)
<1>1. UploadInv /\ [Next]_vars => [A]_vars
  <2> SUFFICES ASSUME UploadInv, Next, direction = "UPLOAD", pc \in {"remove", "removing"},
                      pc' = "returned", C!Alive, ~behind
               PROVE  remote' # "partial" \/ unchecked'
    OBVIOUS
  <2>1. RemoveRemote \/ Removed
    <3>1. ~(\E d \in Directions : Start(d)) /\ ~Crash /\ ~Reconnect /\ ~Cancel /\ ~ClientStep /\ ~ServerStep
      BY DEF Start, Crash, Reconnect, Cancel, ClientStep, ServerStep, Goto
    <3>2. JobStep
      BY <3>1 DEF Next
    <3>3. ~(BeginJob \/ OpenData \/ DataOpened \/ Receive \/ Flush \/ EndOfData \/ SendChunk \/ CopyChunk)
      BY DEF BeginJob, OpenData, DataOpened, Receive, Flush, EndOfData, SendChunk, CopyChunk, Back
    <3>4. ~(Stop \/ Stopped \/ Finish \/ Finished \/ Verify \/ Verified \/ Clean \/ Replace \/ Rename)
      BY DEF Stop, Stopped, Finish, Finished, Verify, Verified, Clean, Replace, Rename, Back
    <3>5. QED
      BY <3>2, <3>3, <3>4 DEF JobStep
  <2>2. ~RemoveRemote
    BY DEF RemoveRemote, AskRemove, Goto
  <2>3. pc = "removing" /\ call = "none" /\ unchecked' = (result # "yes") /\ remote' = remote
    BY <2>1, <2>2 DEF Removed, Back
  <2>4. QED
    BY <2>3 DEF UploadInv, AnswerInv
<1>2. QED
  BY <1>1, UploadHolds, PTL DEF Spec, FailedUploadIsRemoved

=============================================================================
