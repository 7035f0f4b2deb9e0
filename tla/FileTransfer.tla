---------------------------- MODULE FileTransfer ----------------------------
(***************************************************************************)
(* One file of the transfer queue: runDownload(), runUpload() and          *)
(* runLocalCopy() (source/transfer/queue.cpp), with the FTP client they    *)
(* call (FtpClient), the SD card and the file on the server.               *)
(*                                                                         *)
(* A file is a number of chunks.  What lies at a path is "absent", "old"   *)
(* (what was there before the job), "whole" (every chunk of the source) or *)
(* "partial".  Any call of the card may fail, the user may cancel at any   *)
(* time, and the console may lose power between any two calls.             *)
(***************************************************************************)
EXTENDS Integers, Sequences

CONSTANTS
    MaxChunks,  \* bound on the length of a file
    Buffer,     \* chunks that fill the download's buffer
    MaxJobs     \* bound on the jobs that are run one after the other

ASSUME TransferAssumption == MaxChunks \in Nat /\ Buffer \in Nat \ {0} /\ MaxJobs \in Nat

Directions == {"DOWNLOAD", "UPLOAD", "LOCAL_COPY"}
Content    == {"absent", "old", "whole", "partial"}

VARIABLES
    open, broken, data, call, cmd, verb, aborting, result, wire, inbox, serving, eof, gone,
    direction,  \* job.direction
    size,       \* job.size, 0 when it is not known
    len,        \* the length the source has now
    pc,         \* where the job is
    ok,         \* what the job returned
    done,       \* chunks read from the source
    filled,     \* chunks in the download's buffer
    written,    \* chunks in the scratch file
    part,       \* there is a file dest.part
    mine,       \* this job has opened it
    dest,       \* what lies at job.dest on the card
    remote,     \* what lies at job.dest on the server
    told,       \* what the server answered to SIZE
    cancelled,  \* s_cancelActive
    refused,    \* history: the rename into place failed
    stuck,      \* history: the card would not remove the scratch file
    had,        \* history: there was a file at job.dest
    unchecked,  \* history: the server did not answer SIZE, or not DELE
    behind,     \* history: a job has left a reply of this connection unread
    started     \* number of jobs

C == INSTANCE FtpClient

client == <<open, broken, data, call, cmd, verb, aborting, result, wire, inbox, serving, eof, gone>>
about  == <<direction, size, len, had, started>>
card   == <<written, part, mine, dest, refused, stuck>>
server == <<remote, told, unchecked, behind>>
vars   == <<client, about, card, server, pc, ok, done, filled, cancelled>>

Running == pc \notin {"idle", "returned", "crashed"}

----------------------------------------------------------------------------
(* Faulty variants of the definitions below, one for each property. *)

KeepPart == UNCHANGED <<part, stuck>>           \* the scratch file is left behind
ForgetRemote ==                                 \* a failed upload is left where it is
    pc' = "returned" /\ ok' = FALSE /\ UNCHANGED <<client, done, filled>>
AnySize == TRUE                                 \* what SIZE said is not compared
RemoveEarly ==                                  \* the way is cleared before the download
    /\ part' = TRUE /\ mine' = TRUE /\ written' = 0 /\ dest' = "absent"
    /\ UNCHANGED <<refused, stuck>>

----------------------------------------------------------------------------

Connected ==    \* the client after a connect() that succeeded
    /\ open = TRUE /\ broken = FALSE /\ data = FALSE
    /\ call = "none" /\ cmd = "none" /\ verb = "none" /\ aborting = FALSE /\ result = "yes"
    /\ wire = << >> /\ inbox = << >> /\ serving = "none" /\ eof = FALSE /\ gone = FALSE

Init ==
    /\ Connected
    /\ direction = "DOWNLOAD" /\ size = 0 /\ len = 0 /\ had = FALSE /\ started = 0
    /\ written = 0 /\ part = FALSE /\ mine = FALSE /\ refused = FALSE /\ stuck = FALSE
    /\ dest \in {"absent", "old"} /\ remote \in {"absent", "old"}
    /\ told = 0 /\ unchecked = FALSE /\ behind = FALSE
    /\ pc = "idle" /\ ok = FALSE /\ done = 0 /\ filled = 0 /\ cancelled = FALSE

(* drain() starts a job; the source may have changed since it was listed. *)
Start(d) ==
    /\ pc \in {"idle", "returned"}
    /\ started < MaxJobs
    /\ started' = started + 1
    /\ direction' = d
    /\ len' \in 0..MaxChunks
    /\ size' \in IF d = "DOWNLOAD" THEN 0..MaxChunks ELSE {len'}
    /\ pc' = "begin"
    /\ ok' = FALSE /\ done' = 0 /\ filled' = 0 /\ cancelled' = FALSE
    /\ written' = 0 /\ mine' = FALSE /\ refused' = FALSE /\ stuck' = FALSE
    /\ unchecked' = FALSE
    /\ dest' = IF dest = "absent" THEN "absent" ELSE "old"
    /\ remote' = IF remote = "absent" THEN "absent" ELSE "old"
    /\ had' = (dest # "absent")
    /\ UNCHANGED <<client, part, told, behind>>

Cancel ==
    /\ Running
    /\ cancelled' = TRUE
    /\ UNCHANGED <<client, about, card, server, pc, ok, done, filled>>

Goto(p) == pc' = p /\ UNCHANGED <<ok, done, filled>>
Return(r) == pc' = "returned" /\ ok' = r /\ UNCHANGED <<done, filled>>

(* The client's functions as seen from a job: called, and later returned. *)
Asks(f) == IF C!Alive THEN C!CallSimple(f) ELSE C!CallDead(f)
Back(p) == pc = p /\ call = "none"

----------------------------------------------------------------------------
(* Before the data. *)

OpenPart == part' = TRUE /\ mine' = TRUE /\ written' = 0 /\ UNCHANGED <<dest, refused, stuck>>

BeginJob ==
    /\ pc = "begin"
    /\ \/ Return(FALSE) /\ UNCHANGED card      \* a folder or a file cannot be opened
       \/ direction = "DOWNLOAD" /\ OpenPart /\ Goto("open")
       \/ direction = "LOCAL_COPY" /\ OpenPart /\ Goto("loop")
       \/ direction = "UPLOAD" /\ UNCHANGED card /\ Goto("open")
    /\ UNCHANGED <<client, about, server, cancelled>>

OpenData ==
    /\ pc = "open"
    /\ LET f == IF direction = "DOWNLOAD" THEN "beginRetrieve" ELSE "beginStore"
       IN  IF C!Alive THEN C!CallOpening(f) ELSE C!CallDead(f)
    /\ Goto("opening")
    /\ UNCHANGED <<about, card, server, cancelled>>

DataOpened ==
    /\ Back("opening")
    /\ \/ result = "yes" /\ Goto("loop")
       \/ result # "yes" /\ direction = "DOWNLOAD" /\ Goto("clean")
       \/ result # "yes" /\ direction = "UPLOAD" /\ Return(FALSE)
    /\ UNCHANGED <<client, about, card, server, cancelled>>

----------------------------------------------------------------------------
(* The loop over the chunks. *)

Receive ==
    /\ pc = "loop" /\ direction = "DOWNLOAD" /\ ~cancelled
    /\ done < len
    /\ done' = done + 1
    /\ filled' = filled + 1
    /\ pc' = IF filled' = Buffer THEN "flush" ELSE "loop"
    /\ UNCHANGED <<client, about, card, server, ok, cancelled>>

Flushed == written' = written + filled /\ filled' = 0 /\ UNCHANGED <<part, mine, dest, refused, stuck>>

Flush ==
    /\ pc = "flush"
    /\ Flushed
    /\ pc' = "loop"
    /\ UNCHANGED <<client, about, server, ok, done, cancelled>>

(* The server has closed the data connection: the rest of the buffer is    *)
(* written.  If that fails, the loop is left with the transfer's closing   *)
(* reply unread, and the data socket is closed by its destructor.          *)
EndOfData ==
    /\ pc = "loop" /\ direction = "DOWNLOAD" /\ ~cancelled
    /\ eof
    /\ \/ /\ Flushed
          /\ pc' = "finish"
          /\ UNCHANGED <<client, behind>>
       \/ /\ filled > 0
          /\ pc' = "clean"
          /\ data' = FALSE /\ verb' = "none" /\ behind' = TRUE
          /\ UNCHANGED <<filled, card, open, broken, call, cmd, aborting, result, wire, inbox,
                         serving, eof, gone>>
    /\ UNCHANGED <<about, remote, told, unchecked, ok, done, cancelled>>

SendChunk ==
    /\ pc = "loop" /\ direction = "UPLOAD" /\ ~cancelled
    /\ IF done < len
       THEN done' = done + 1 /\ pc' = "loop"
       ELSE UNCHANGED done /\ pc' = "finish"
    /\ UNCHANGED <<client, about, card, server, ok, filled, cancelled>>

CopyChunk ==
    /\ pc = "loop" /\ direction = "LOCAL_COPY" /\ ~cancelled
    /\ IF done < len
       THEN done' = done + 1 /\ written' = written + 1 /\ pc' = "loop"
       ELSE UNCHANGED <<done, written>> /\ pc' = "replace"
    /\ UNCHANGED <<client, about, part, mine, dest, refused, stuck, server, ok, filled, cancelled>>

(* A cancel, an error, a deadline or a failed write: the transfer is given *)
(* up, and the control connection resynchronised.                          *)
Stop ==
    /\ pc \in {"loop", "flush"}
    /\ IF direction = "LOCAL_COPY"
       THEN Goto("clean") /\ UNCHANGED client
       ELSE Goto("aborting") /\ C!AbortTransfer
    /\ UNCHANGED <<about, card, server, cancelled>>

Stopped ==
    /\ Back("aborting")
    /\ Goto(IF direction = "UPLOAD" THEN "remove" ELSE "clean")
    /\ UNCHANGED <<client, about, card, server, cancelled>>

----------------------------------------------------------------------------
(* After the data. *)

Finish ==
    /\ pc = "finish"
    /\ C!FinishTransfer
    /\ Goto("closing")
    /\ UNCHANGED <<about, card, server, cancelled>>

(* The size from the listing, when it is known. *)
RightLength == size > 0 => done = size

Finished ==
    /\ Back("closing")
    /\ \/ /\ direction = "DOWNLOAD"
          /\ Goto(IF result = "yes" /\ RightLength THEN "replace" ELSE "clean")
       \/ /\ direction = "UPLOAD"
          /\ Goto(IF result # "yes" THEN "remove" ELSE "verify")
    /\ UNCHANGED <<client, about, card, server, cancelled>>

(* An upload asks the server for the size of what it stored. *)
Verify ==
    /\ pc = "verify"
    /\ IF done = 0
       THEN Return(TRUE) /\ UNCHANGED client
       ELSE Goto("sizing") /\ Asks("size")
    /\ UNCHANGED <<about, card, server, cancelled>>

SameLength == told = done

Verified ==
    /\ Back("sizing")
    /\ IF result = "yes" /\ ~SameLength THEN Goto("remove") ELSE Return(TRUE)
    /\ unchecked' = (result # "yes")
    /\ UNCHANGED <<client, about, card, remote, told, behind, cancelled>>

(* A failed upload removes what the server has, while it can. *)
AskRemove ==
    IF C!Alive THEN Goto("removing") /\ C!CallSimple("removeFile")
               ELSE Return(FALSE) /\ UNCHANGED client

RemoveRemote ==
    /\ pc = "remove"
    /\ AskRemove
    /\ UNCHANGED <<about, card, server, cancelled>>

Removed ==
    /\ Back("removing")
    /\ Return(FALSE)
    /\ unchecked' = (result # "yes")
    /\ UNCHANGED <<client, about, card, remote, told, behind, cancelled>>

(* std::remove() of the scratch file; nobody looks at what it returns. *)
RemovePart ==
    \/ part' = FALSE /\ UNCHANGED stuck
    \/ stuck' = TRUE /\ UNCHANGED part

Clean ==
    /\ pc = "clean"
    /\ RemovePart
    /\ Return(FALSE)
    /\ UNCHANGED <<client, about, written, mine, dest, refused, server, cancelled>>

(* "rename() over an existing file is not reliable": the way is cleared    *)
(* first, or not, for nobody looks at this result either.                  *)
Replace ==
    /\ pc = "replace"
    /\ dest' \in {"absent", dest}
    /\ Goto("rename")
    /\ UNCHANGED <<client, about, written, part, mine, refused, stuck, server, cancelled>>

Rename ==
    /\ pc = "rename"
    /\ \/ /\ dest' = IF written = len THEN "whole" ELSE "partial"
          /\ part' = FALSE
          /\ Return(TRUE)
          /\ UNCHANGED <<refused, stuck>>
       \/ /\ refused' = TRUE
          /\ RemovePart
          /\ Return(FALSE)
          /\ UNCHANGED dest
    /\ UNCHANGED <<client, about, written, mine, server, cancelled>>

----------------------------------------------------------------------------
(* The client's own steps, the server's, and the power. *)

ClientStep == C!Step /\ UNCHANGED <<about, card, server, pc, ok, done, filled, cancelled>>

(* STOR empties the file; what an ended upload has stored is anything up   *)
(* to what was sent, and 226 is no proof of the whole.                     *)
Stored(n) == IF n = len THEN "whole" ELSE "partial"

ServerStep ==
    /\ C!Server
    /\ remote' \in CASE serving = "STOR" /\ serving' = "none" -> {Stored(n) : n \in 0..done}
                     [] serving' = "STOR" /\ serving = "none" -> {"partial"}
                     [] serving = "none" /\ wire # << >> /\ wire' # wire /\ Head(wire) = "DELE"
                           -> IF inbox'[Len(inbox')].code = "250" THEN {"absent"} ELSE {remote}
                     [] OTHER -> {remote}
    /\ told' = IF wire # << >> /\ wire' # wire /\ Head(wire) = "SIZE"
               THEN IF remote = "whole" THEN len ELSE len + 1
               ELSE told
    /\ UNCHANGED <<about, card, unchecked, behind, pc, ok, done, filled, cancelled>>

Crash ==
    /\ Running
    /\ Goto("crashed")
    /\ UNCHANGED <<client, about, card, server, cancelled>>

(* A new connection: after a restart, or a session that was lost. *)
Reconnect ==
    /\ pc \in {"idle", "returned", "crashed"}
    /\ pc = "crashed" \/ ~C!Alive
    /\ open' = TRUE /\ broken' = FALSE /\ data' = FALSE
    /\ call' = "none" /\ cmd' = "none" /\ verb' = "none" /\ aborting' = FALSE /\ result' = "yes"
    /\ wire' = << >> /\ inbox' = << >> /\ serving' = "none" /\ eof' = FALSE /\ gone' = FALSE
    /\ behind' = FALSE
    /\ Goto("idle")
    /\ UNCHANGED <<about, card, remote, told, unchecked, cancelled>>

----------------------------------------------------------------------------

JobStep ==
    \/ BeginJob \/ OpenData \/ DataOpened
    \/ Receive \/ Flush \/ EndOfData \/ SendChunk \/ CopyChunk
    \/ Stop \/ Stopped
    \/ Finish \/ Finished \/ Verify \/ Verified \/ RemoveRemote \/ Removed
    \/ Clean \/ Replace \/ Rename

Next ==
    \/ \E d \in Directions : Start(d)
    \/ Cancel
    \/ JobStep \/ ClientStep \/ ServerStep
    \/ Crash \/ Reconnect

(* The worker keeps running, and each of its waits has a deadline. *)
Spec == Init /\ [][Next]_vars /\ WF_vars(JobStep) /\ WF_vars(ClientStep)

----------------------------------------------------------------------------
(* Properties. *)

TypeOK ==
    /\ C!TypeOK
    /\ direction \in Directions /\ size \in 0..MaxChunks /\ len \in 0..MaxChunks
    /\ done \in 0..len /\ filled \in 0..Buffer /\ written \in 0..len
    /\ {ok, part, mine, cancelled, refused, stuck, had, unchecked, behind} \subseteq BOOLEAN
    /\ dest \in Content /\ remote \in Content
    /\ told \in 0..(MaxChunks + 1) /\ started \in 0..MaxJobs
    /\ pc \in {"idle", "begin", "open", "opening", "loop", "flush", "aborting", "finish", "closing",
               "verify", "sizing", "remove", "removing", "clean", "replace", "rename", "returned",
               "crashed"}

(* queue.cpp: "Downloads land in a scratch file and are moved into place   *)
(* only once they are known to be complete": no dropped link, full card or *)
(* power cut leaves a file with the right name and the wrong contents, as  *)
(* long as the listing told the length the source has.                     *)
DestIsNeverPartial == dest = "partial" => size # len

(* The way is cleared only when the replacement is there: a power cut at   *)
(* any moment leaves the old file, or the new one, or its scratch file.    *)
NothingIsLost ==
    had /\ dest = "absent" => \/ refused
                              \/ part /\ (written = len \/ size # len)

(* queue.cpp: "never leave a truncated file behind": a job that has        *)
(* returned has no scratch file of its own, unless the card refused to     *)
(* remove it, which the code does not notice: it never just forgets to     *)
(* ask.                                                                    *)
NoScratchLeft == pc = "returned" => ~(part /\ mine) \/ stuck

(* An upload that reports success has stored every chunk, unless the       *)
(* server would not tell the size of what it stored.  On a connection that *)
(* a failed download has left behind (see JobLeavesInStep) this does not   *)
(* hold: later answers belong to earlier commands.                         *)
UploadIsWhole ==
    (pc = "returned" /\ ok /\ direction = "UPLOAD" /\ done > 0)
        => (remote = "whole" \/ unchecked \/ behind)

(* queue.cpp: "A partial file on the server is worse than no file": on a   *)
(* session that still works, and is not behind, a failed upload that had   *)
(* begun leaves none, unless the server would not remove it.               *)
FailedUploadIsRemoved ==
    [][(direction = "UPLOAD" /\ pc \in {"remove", "removing"} /\ pc' = "returned")
          => (remote' # "partial" \/ unchecked' \/ ~C!Alive \/ behind)]_vars

(* queue.cpp: "The server still owes a reply for this RETR. Leaving it     *)
(* unread is what desynchronises the control connection": a job leaves the *)
(* connection in step.                                                     *)
JobLeavesInStep == pc = "returned" => C!InStep

=============================================================================
