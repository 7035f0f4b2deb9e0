# A TLA+ model of 3FC

3FC is an FTP client for the Nintendo 3DS: a dual file explorer (SD card and
server), a transfer queue and a small UI. This directory holds TLA+ modules
that model the part of the program where two threads, a server and a memory
card meet, the TLC configurations that check them, and proofs that TLAPS checks
for every size of the instance.

Paths below are relative to `src/source/`.

## 1. The system

Two threads exist. The **UI thread** (`main.cpp`, `app.cpp`, `ui/`) builds one
frame after another and reads one set of keys per frame. The **network worker**
(`ftp/session.cpp`) takes tasks from a queue, in order, and is the only user of
the one FTP client. Everything else is one of:

| component | state it keeps | operations | hard behaviour |
|---|---|---|---|
| transfer queue, `transfer/queue.cpp` | `s_jobs`, `s_requests`, `s_draining`, `s_expanding`, `s_activeId`, `s_cancelActive`, `s_paused`, under one lock | UI: `enqueue`, `pause`, `resume`, `cancel`, `cancelPending`, `cancelAll`, `clearFinished`, `active`; worker: `drain` | `drain` returns while others submit; cancelling what is in flight; pausing between two critical sections |
| one file, `runDownload`/`runUpload`/`runLocalCopy` | scratch file, destination, remote file, buffer | open, chunks, flush, verify, rename, remove | failure, cancel or power cut between any two steps |
| session, `ftp/session.cpp` | `s_tasks`, `s_wake`, `s_state`, the cached listing, `s_listPending` | `connect`, `disconnect`, `requestList`, `post`, `exit`; `workerMain` | sticky event; outcomes published over newer calls; a link lost in any task |
| FTP client, `ftp/ftpClient.cpp` | control socket, `m_buffer`, `m_broken` | login, single commands, listings, transfers, abort | replies are matched to commands by order alone |
| frame and prompts, `app.cpp`, `main.cpp`, `ui/screenConnect.cpp`, `ui/screenStart.cpp`, `ui/panelProgress.cpp`, `ui/widgets.cpp` | the screen, one prompt with one callback | look at the session, hand out the keys, answer a prompt, quit | a prompt that is replaced; a session that changes between two frames |
| explorer and menu, `ui/screenBrowser.cpp`, `ui/screenActions.cpp` | two panes with a path, rows, a cursor and `needsFetch`; the selection; the menu | fetch, navigate, mark, delete, new folder, transfer | listings that arrive late; `needsFetch` written by both threads; prompts answered later |
| saved servers, `config/config.cpp` and the editor in `ui/screenConnect.cpp` | `s_slots`, `s_lastUsed`, the file; `s_mode`, `s_editingSlot`, `s_draft` | load, save, edit, delete, connect | a save that is refused or cut; a prompt that the session replaces; a key that arrives on a screen just left |
| trees, `expand()` and `runDirectory()` of `transfer/queue.cpp`, `fs/ops.cpp`, `fs/localFs.cpp` | the files of both machines, a stack | walk a folder into jobs, make folders, remove a tree | other clients of the server; a folder that lists itself; part of the work done |
| sockets, `net/socket.cpp` | a descriptor | connect (with a resolver that blocks), recv, sendAll in slices | deadlines, cancellation, a byte at a time |
| the rest: listing parser, platform, logging, drawing, tables, Dear ImGui | | | not modelled, see section 8 |

They interact in four ways: the UI *posts tasks* to the session, one kind of
which is `drain`; both threads *share* the queue and the session under their
locks; the worker *publishes* states and listings that the frames poll; and
prompts keep *callbacks* that run in a later frame.

What makes each of them correct:

* queue: nothing that was queued is forgotten, one drain exists at a time, jobs
  run once, in order and one at a time, and a finished job stays as it is;
* files: no truncated file under the right name, no file lost, no remains;
* session: no lost wake-up, a state that agrees with the link, `exit` returns;
* client and sockets: a reply is read by the command it answers, no wait for
  the server outlives its limit, every call returns, a cancellation is noticed
  promptly;
* frame: a lost session closes the browser, a question holds what it asks
  about, quitting ends;
* explorer: the rows are of the folder and of the server on screen, what is
  deleted is what was named, and what has changed is read again;
* trees: a walk is whole or yields nothing, a copy is the tree and nothing else,
  a removal stays inside the tree and does not report what it has not done;
* saved servers: a restart finds what was saved, and only the slot that was
  asked about is emptied.

## 2. The modules

| module | models | remarks |
|---|---|---|
| `JobQueue` | the promises of `transfer/queue.h` | abstract: no drain, lock, post or link |
| `TransferQueue` | `transfer/queue.cpp` but the files and the walk | implements `JobQueue` (`ImplementsJobQueue`) |
| `Session` | `ftp/session.cpp` | |
| `FtpClient` | `ftp/ftpClient.cpp`, and an FTP server | the server is external; waits are taken for granted |
| `Socket` | the waits of `net/socket.cpp` | parameterised by what the kernel answers |
| `Wire` | the client over its sockets | composes `FtpClient` and `Socket`, implements `FtpClient` (`ImplementsFtpClient`) |
| `FileTransfer` | one file of the queue | composes `FtpClient` with the card, the server's file and the power |
| `Tree` | `expand()`, `runDirectory()`, `removeTree()` | composes the worker, both machines and other clients of the server |
| `App` | frames, prompts, `main` | composes `Session` and `TransferQueue` |
| `Browser` | explorer, menu, its tasks | has its own one-step `post` and queue |
| `Slots` | `config/config.cpp` and the connect screen | the session is external |
| `MCTransferQueue`, `MCSession`, `MCApp`, `MCBrowser`, `MCTree` | small constants for TLC | `Wire`, `FileTransfer` and `Slots` need none |
| `TransferQueueProofs`, `AppProofs`, `FtpClientProofs`, `WireProofs`, `FileTransferProofs`, `BrowserProofs`, `TreeProofs`, `SlotsProofs` | theorems | section 6; `AppProofs` has those of `Session` too |

Each module begins with definitions marked as faulty variants. They are what a
slip in the code would make of the definition they stand for (a counter that is
not reset, a signal that is not sent, a path that is not compared), and each
property has one that it is known to catch. No specification uses them.

**TransferQueue.** An action is one critical section of the code, or the part
of `drain()` between two of them. `pc` says where the worker is: `pick` and
`pop` are the first two sections, `walk` is `expand()`, `check` the look at the
link before a job, and `run` the job; the section that ends a job is the last
conjuncts of `FailFast` and `JobEnds`. `uiPc = "post"` is the gap in `enqueue()`
and `resume()` between the unlock and `session::post(drain)`. Ids are given in
order and the vector is only appended to, so `s_jobs` is a function from ids.
`asked` and `dropped` are history: the jobs somebody asked to cancel and the
requests that were not walked yet when the queue was cancelled. The link is a
Boolean that falls while a walk or a job runs (`LinkDrops`) and is put up or
down by other tasks of the session (`OtherTask`).

**Session.** A post is a push under the lock and a signal outside it, so the
worker can run between the two. The worker's loop is taken apart at the lock,
the wait, the clear, the task, the task's own critical section and the check
after it. A listing is known by the connect call that its server came from.

**FtpClient.** A reply carries the command it answers, which the wire does not;
`ReplyIsTheAnswer` compares the two. `verb` names the transfer that is opened,
running or closed. The server handles one command after another, answers or
refuses, ends a transfer at any time, says 421 and leaves, or says nothing. An
answer with a code that the client treats like another one is left out. ABOR
gets two replies, that of the transfer and its own: this is what the code
relies on, and what the model assumes.

**Socket** and **Wire.** `Socket` is one wait at a time: it tries, polls for a
slice when it would block, and counts down. Time is in ticks and passes in
`poll()`, in `connect()`'s sleep and in the resolver. `recv()` charges a whole
slice to its limit even when `poll()` comes back at once, as the code does;
`connect()` looks at a clock. It starts that clock only when it has an address
(`start`): a name goes to `gethostbyname()` first (`Resolving`), which blocks,
takes no limit and hears of no cancellation. The code has no bound for it; the
model has `MaxResolve`, any natural number. The data connection of PASV is to an
address and skips it. `Wire`
says what the client makes of each outcome: a step of `FtpClient` that reads a
reply happens when the bytes are there, one that loses the link when the wait
has failed, and a command is served when all of it has been sent. Replies and
listings arrive in parts, bounded as the code bounds them (`MAX_LINE`,
`MAX_LISTING`). A cancellation is asked for during a transfer, and the calls
that heed it are those to which the code passes the flag (`Flagged`, for the
`recv()` and `sendAll()` of a transfer); `late` counts the time that any call of
the transfer waits after it, whether the call heeds it or not. Left out: the wait for
QUIT to be sent, whose outcome nobody looks at; an interrupted call (EINTR) is a
stuttering step.

**Tree.** The code's recursion is a stack of folders with the names left in
each; a path is a sequence of names that begins with its machine. Other clients
add and remove files on the server between two steps, any command may be
refused, and the link may drop. `at` is the path a call was given and `node`
the folder or file it leads to (`Leads`): in a folder that lists itself the two
differ, and it is the second that is listed and deleted. The histories `steady`, `skipped` and `unseen`
say which paths the properties can ask for; `misled` marks the two cases in
which the code takes one refusal for another (below, observations). A folder
that lists itself is ended by `MAX_DEPTH`.

**Slots.** A slot is its host, and what a cut leaves of it is a beginning. A
frame looks at the session and then hands out its key, unless a prompt was up
when it began: `turn` is the place between the two, where the key still belongs
to the screen of before. A save empties the file and writes slot by slot; it may
be refused whole, or be cut after any of them by a full card or a power cut.

**FileTransfer.** A file is a number of chunks; a path holds nothing, the old
file, the whole new file or a part of it. The client is an instance of
`FtpClient`, step by step. The download's buffer fills up and is flushed; what
the upload has sent may be stored whole or not, whatever the server answers.
The listing's size may be unknown (0) or out of date. Every call of the card may
fail: opening, reading, writing, the rename, and the removals, whose results the
code ignores. A scratch file that could not be removed is `stuck` (history), and
an old file that could not be cleared away is still there when the rename comes.
`behind` is history: a
download has left its closing reply unread on this connection (finding 3), so
that later answers belong to earlier commands; a reconnect ends it.

**App.** A frame decides from a state it has read and then makes its calls:
`todo` holds the calls that remain. The drain is a task of the session: the
instance `Q` of `TransferQueue` has the queue's actions, with `alive` for the
link (a client has a server or has none) and, for the gap between the push and
the signal, `posting`: the queue's own `uiPc` is that of `session::post`. A notice that replaces a prompt drops its callback, as
`Confirm::ask` does. The START menu is only modelled by the questions it asks.
With the backlight off no frame is built (`main.cpp:76`), so nothing looks at
the session; the fairness below is about frames that are built.

**Browser.** `Draw` is the part of a frame that copies a listing that has
arrived, notices the end of the transfers and fetches the side on screen;
`Clear` is the last statement of a fetch, apart because the worker may raise
`needsFetch` just before it; then comes one key. Copying and fetching are one
step: nothing another thread writes lies between them but the flag, and a raise
there is the same as one before the step. A task of the session is posted in
one step here (`Session` has the gap), and a request of the queue is carried
out in one step (`TransferQueue` has the rest). `number` in a connect
task is the call it came from, which the properties compare servers by, and
`overlapped` is history: `connect()` was called while an earlier connect was
still queued or running. The card's folder can always be
listed. `shown` in a task is what the prompt said, for `DeletesWhatWasNamed`.

## 3. The runs

All bounds are constants of the modules and guards of the actions that count.

| run | instance | states | shows |
|---|---|---|---|
| `queue` | 2 requests, 3 jobs, walks of 0..2, downloads and local copies | 290 thousand | the queue's properties and the refinement of `JobQueue`, with liveness |
| `session` | 2 connects, 2 listings, 3 tasks, 2 folders | 606 thousand | wake-ups, counts, state against link, three liveness properties |
| `app` | 1 connect, 1 request, 2 jobs | 150 thousand | the composition, two liveness properties |
| `ftp` | slices of 2, limits of 3 and 5 ticks, 2 pieces, 1 part, 2 ticks for a name | 84 thousand | the whole state space of client, sockets and server; the refinement of `FtpClient`, with liveness |
| `files` | 2 jobs, 2 chunks, a buffer of 2 | 207 thousand | every failure at every step, twice in a row |
| `browser` | 2 connects, 1 queued task, 1 operation, 2 folders, 1 name | 3.4 million | late listings, prompts answered later, fetches |
| `tree` | depth 2, trees of up to 3, 1 old file, 1 change by others | 971 thousand | walks, copies and removals of every small tree |
| `slots` | 2 slots, 2 hosts, 1 connect under way | 3.3 million | saves that are cut, prompts that are replaced, restarts |
| `cancelled` | as `queue` | | finding 1 |
| `app_pause` | 2 connects, 2 jobs | | finding 2 |
| `desync` | as `files` | | finding 3 |
| `browser_parent` | as `browser` | | finding 4 |

Why the bounds are enough for the cases that matter. *queue*: a request can be
walked while another waits and two jobs are queued, which is what the order, the
cancellations and the race of a returning drain need; a download and a local
copy differ in needing the link; an upload goes through `drain()` as a download
does. *session*: a second connect overtakes the outcome of the first, and a
listing is queued behind a disconnect. *app*: one session and one drain suffice
for a loss in every state of a prompt; `MaxTasks` and `MaxLists` are not used
by `App`, which lets a frame post what it decides. *files*: two chunks allow a
transfer that is cut in the middle, a flush in the middle and one at the end,
and the second job finds what the first has left. *browser*: two sessions show
rows of the wrong server, two folders rows of the wrong folder. *ftp*: a limit
that is no multiple of the slice ends in a slice that is cut short, two pieces
allow progress in the middle of a send, a second part meets the bound on a
reply, the data's limit is longer than the control's, as in the code, and a name
may take long enough to pass the limit together with the wait.
*tree*: trees are one level deeper than the depth allowed, so that the cap is
met, and three files or folders make every shape of a folder with a sibling; a
change by another client can come at any step; a folder is also copied over its
own place, into itself, and over a part of itself. *slots*: two slots can be
mistaken for each other, and a connect that ends behind a prompt is enough to
replace it.

Deadlock is checked in `queue`, `session`, `app`, `ftp` and `slots`; the ends of
`session` and `app` are stuttering steps of a finished program. `files` and
`browser` stop when their bounds are used up, `tree` when its request has ended.

The `TypeOK` of the queue is a theorem. Those of the other modules hold in the
same instances but are not listed in a run, which is kept for what could go
wrong; the proofs have the types they need in their invariants.

### What the properties say

*queue.* `OneDrain`: `s_draining` equals the number of drains that are being
posted, posted or running. `NoStrandedWork`: a queue that is neither paused nor
draining has no work. `ActiveIsNamed`: the active job is the one `s_activeId`
names and `drain()` works on. `JobsInOrder`: a job starts after all earlier ones
have finished. `CancelledWasAsked`: the flag for the active job never reaches
another job. `InFlightIsActive`: `active()` has no gap. `ImplementsJobQueue`:
all of it is a behaviour of the abstract queue, in which a finished job stays as
it is, and whose `Progress` is checked too.

*session.* `NoLostWakeup`, `ListPendingCounts`, `ConnectedIsAlive` (between two
tasks); `ListingsArrive`, `ExitReturns`, `ConnectSettles`.

*app.* `DrainIsATask` (the queue's view of its drain agrees with the session's
task list, whatever connects and disconnects surround it), `LossInDrainIsSeen`,
`QuestionHoldsJobs`, `LostEndsBrowser`, `QuitEnds`.

*ftp.* `ReplyIsTheAnswer`: the next reply is the answer to the command that
waits for it. `InStep`: a function begins with nothing owed and nothing unread.
`ProbeNeverGuesses`: "folder" is said only after the server's own refusal of
SIZE. `WaitIsBounded`: `recv()` and `sendAll()` wait no longer than they were
told to, and `connect()` no longer than that and a slice once it has an address;
the resolver's time comes on top and is not in the claim (see
`ConnectKeepsTime` below). `CancelIsPrompt`: after a cancellation a transfer
waits a slice at most, all its calls together, so each has to be given the flag.
`ImplementsFtpClient`: what the sockets make of the client is a client, and
every function returns, if the resolver does.

*files.* `DestIsNeverPartial` (when the listing told the right size),
`NothingIsLost` (the exception is a rename the card refuses: the code has then
removed the old file, and removes the new one), `NoScratchLeft` (for jobs that
return: each failing path asks the card to remove its scratch file. The
exception is a removal the card refuses; the code ignores the result of
`std::remove()`, `transfer/queue.cpp:407`, `:529`, `:540`, `:707`, `:716`, and
the `.part` file stays, as it does after a power cut, until the next download of
the same file overwrites it), `UploadIsWhole`, `FailedUploadIsRemoved`. The last two
speak of a connection that no job has left behind. Without that they are false,
and for the reason of finding 3: given enough jobs, TLC shows an upload of which
nothing was stored that reports success, because the SIZE it asks for is answered
by a reply to an earlier command. Two jobs are too few to see it; the proof
attempt showed it.

*browser.* `RowsAreOfTheFolder`, `RowsAreOfTheServer`, `DeletesWhatWasNamed`,
`SelectionIsWhatWasMarked`, `RemoteIsReadAgain`. `RowsAreOfTheServer` speaks of
connects that wait for each other. With three `connect()` calls, two of them
given up (B) before the worker came to them, the CONNECTED of the second lets
the user into the explorer; a listing of that server is shown when the third
connect runs, and its CONNECTED leaves the explorer as it is. Two connects are
too few for it.

*tree.* `StackIsBounded`; `WalkIsWhole` (a walk that succeeds has a job or a
reason for everything that stood there all the time, folders first; one that
fails leaves no job); `CopyIsWhole`; `RemovalIsExact`. `CopyIsWhole` leaves out
a tree that is copied over a part of itself (`Apart`, below).

*slots.* `RestartFindsWhatWasSaved`, `EmptiesTheSlotAskedAbout`.

## 4. Findings

Four statements of the code's own comments do not hold; each run prints the
behaviour.

1. `cancelled`. A request that is being walked when `cancelPending()` or
   `cancelAll()` runs is in neither list they clear (`transfer/queue.cpp:986-1011`
   against `:764-818`). Its jobs are appended afterwards and run.
   `queue.h:103`: "Cancel every job that has not started yet."
2. `app_pause`. The notice of a lost link replaces the question that paused the
   queue (`app.cpp:91`), and with it the only call of `resume()`. The queue stays
   paused in the next session.
3. `desync`. The last write of a download fails after the data has ended
   (`transfer/queue.cpp:465`): the closing reply is never read.
4. `browser_parent`. A listing that arrives under the open menu moves the
   cursor to `..`, and Delete then asks about `..` (`ui/screenActions.cpp:243`).

Three more have a configuration beside the runs, whose counterexample TLC prints:

* `MCApp` with `MCAppBrowser.cfg`, `DeadLinkEndsBrowser`. B during a connect: the
  connect task publishes CONNECTED over the DISCONNECTED of the abort
  (`ftp/session.cpp:232`), a frame opens the browser, and the disconnect task
  then closes the link without LOST.
* `MCBrowser` with `MCBrowserLocal.cfg`, `LocalIsReadAgain`. `refreshLocal()`
  clears a `needsFetch` that the worker has raised since the listing
  (`ui/screenBrowser.cpp:60-65`). The server's side does not have this: its
  listing is a task behind the one that raised the flag (`RemoteIsReadAgain`).
* `Wire` with `MCWireResolve.cfg`, `ConnectKeepsTime`. `net/socket.h:44` calls
  `timeoutMs` of `connect()` the "Total time to wait before giving up", but a
  host name is resolved by `gethostbyname()` before the deadline's clock starts
  (`net/socket.cpp:101-113` against `:174`). A server given by name on a network
  without a resolver keeps the worker for as long as libctru's resolver takes,
  and with it `exit()`, which joins the worker.

Observations, which no statement of the code contradicts:

* Deleting the slot that was used last leaves `s_lastUsed` naming an empty slot
  in memory until the next start, which drops it
  (`RestartFindsWhatWasSaved` is about what is found then).
* The key of the frame in which the connect screen is left still reaches it.
* `recv()` charges a whole slice when `poll()` comes back at once, so a server
  that trickles shortens the wait and never lengthens it.
* The answer to MKD and EEXIST are not looked at: an old file where a folder is
  to be made counts as success. A refused SIZE together with a refused listing
  is taken for "not there". Both are `misled` in `Tree`, or part of `Expected`.
* A folder `x` of the card that holds an `x` may be copied into itself. The jobs
  run in the order of the walk, and the copy of `x/a` replaces `x/x/a` before
  that file's own turn comes: `x/x/x/a` becomes the new content and the old one
  is gone. The run has the case; `Apart` excludes it from `CopyIsWhole`.

## 5. Fairness

`WF(Drain)`, `WF(Worker)`, `WF(NetworkWorker)`, `WF(Step)`, `WF(JobStep)`, `WF(ClientStep)`: the
worker is a thread of its own whose priority is above the UI's
(`ftp/session.cpp:38-46`), and every wait of a socket has a deadline
(`net/socket.cpp:264-364`), so a task that has begun ends. For a connect task
this takes for granted that `gethostbyname()` comes back, late or not, which is
libctru's to keep: `ConnectSettles`, `ExitReturns` and `QuitEnds` rest on it. `WF(PostDrain)`,
`WF(FinishCall)`, `WF(NextCall)`, `WF(FinishPost)`: the UI thread goes on inside a function.
`SF(Looks)` in `App`: every frame looks at the session before it reads a key,
so a sequence of keys cannot keep it from looking; strong, because between two
looks the frame is busy with the calls of a key. `WF(React \/ Kernel)` in `Wire`:
the worker's thread goes on, time passes in `poll()`, the resolver comes back
within `MaxResolve`, and no call is interrupted for ever. From this alone TLC derives `WF(Step)` of `FtpClient` and that every
function returns, so the fairness that the other modules assume of a task is
not an assumption about the server of a session that is up. Nothing is assumed about the user, the
server, the link or the card. `Browser`, `Tree` and `Slots` state safety only.

## 6. Proofs

Eight modules hold theorems, each about the module it is named after, for every
value of the constants that the named assumptions of the module allow (natural
bounds, `Directions` among the three the code has, a root among the paths and no
empty path, waits longer than nothing; for `Tree`, files that are in folders and
none with the name under which a folder lists itself, and for a copy a
destination that is a folder, since it is the one on screen: one that has gone
since would be made again on the card and missed on the server). Liveness is not among
them. `FileTransferProofs` builds on `FtpClientProofs` and `AppProofs` on
`TransferQueueProofs`: what is proved of a part is used where it is composed.

| module | theorem | statement |
|---|---|---|
| `TransferQueueProofs` | `Invariance` | `Spec => []IInv` |
| | `TypeCorrect` | `Spec => []TypeOK` |
| | `OneDrainAlways` | `Spec => []OneDrain` |
| | `NoWorkIsStranded` | `Spec => []NoStrandedWork` |
| | `ActiveIsAlwaysNamed` | `Spec => []ActiveIsNamed` |
| | `WorkIsInOrder` | `Spec => [](RequestsAfterJobs /\ JobsInOrder)` |
| | `CancellationsAreAsked` | `Spec => []CancelledWasAsked` |
| | `InFlightIsAlwaysActive` | `Spec => []InFlightIsActive` |
| | `FinishedStaysFinal` | `Spec => FinishedIsFinal` |
| | `QueueKeepsItsPromise` | the safety half of `ImplementsJobQueue` |
| `AppProofs` | `NoWakeupIsLost` | `Spec => []NoLostWakeup`, of `Session` |
| | `ConnectedStaysAlive` | `Spec => []ConnectedIsAlive`, of `Session` |
| | `PendingListsAreCounted` | `Spec => []ListPendingCounts`, of `Session` |
| | `DrainIsOneTask` | `AppSpec => []DrainIsATask` |
| | `ProgramRunsTheQueue` | every step of `App` is a step of the queue or a stutter |
| | `LossIsAlwaysSeen` | `AppSpec => []LossInDrainIsSeen` |
| | `QuestionAlwaysHolds` | `AppSpec => QuestionHoldsJobs` |
| `FtpClientProofs` | `RepliesAreTheAnswers` | `Spec => []ReplyIsTheAnswer` |
| | `CallsBeginInStep` | `Spec => []InStep` |
| | `ProbesNeverGuess` | `Spec => ProbeNeverGuesses` |
| `WireProofs` | `WaitInvariance` | `WireSpec => [](FlagInv /\ WaitInv)`, the invariant of a wait |
| | `EveryWaitIsBounded` | `WireSpec => []WaitIsBounded` |
| | `EveryCancelIsPrompt` | `WireSpec => []CancelIsPrompt` |
| | `WireIsAClient` | the safety half of `ImplementsFtpClient` |
| | `InStepOverSockets` | `WireSpec => [](ReplyIsTheAnswer /\ InStep)` |
| `FileTransferProofs` | `JobInvariance` | `Spec => []JobInv` |
| | `NoTruncatedFile` | `Spec => []DestIsNeverPartial` |
| | `NoFileIsLost` | `Spec => []NothingIsLost` |
| | `NoScratchIsLeft` | `Spec => []NoScratchLeft` |
| | `UploadsAreWhole` | `Spec => []UploadIsWhole` |
| | `FailedUploadsAreRemoved` | `Spec => FailedUploadIsRemoved` |
| `BrowserProofs` | `ExplorerInvariance` | `Spec => []Inv` |
| | `RowsAreAlwaysOfTheFolder` | `Spec => []RowsAreOfTheFolder` |
| | `OnlyTheNamedIsDeleted` | `Spec => []DeletesWhatWasNamed` |
| | `SelectionIsOfOneFolder` | `Spec => []SelectionIsWhatWasMarked` |
| | `RowsAreAlwaysOfTheServer` | `Spec => []RowsAreOfTheServer` |
| | `RemoteIsAlwaysReadAgain` | `Spec => []RemoteIsReadAgain` |
| `TreeProofs` | `RecursionIsBounded` | `Spec => []StackIsBounded` |
| | `RemovalIsAlwaysExact` | `Spec => []RemovalIsExact` |
| | `WalkIsAlwaysWhole` | `Spec => []WalkIsWhole` |
| | `CopyIsAlwaysWhole` | `Spec => []CopyIsWhole` |
| `SlotsProofs` | `SlotsInvariance` | types, the card against memory, the question's slot |
| | `RestartIsSafe` | `Spec => RestartFindsWhatWasSaved` |
| | `OnlyTheSlotAskedAbout` | `Spec => EmptiesTheSlotAskedAbout` |

Each action has a lemma, with one step per conjunct it can disturb; lemmas such
as `Kept` or `RowsStay` cover the conjuncts whose variables it leaves alone. The
arguments:

*Queue.* The properties do not strengthen one another enough by themselves, for
two reasons. That a job which `drain()` works on is still in the list and ACTIVE
depends on where `drain()` is, so `WorkerInv` says for each `pc` what the
worker's locals and `s_expanding` are. That jobs of a request come before the
requests behind it depends on the numbering, so `NumbersInv` orders the numbers
of the waiting requests, of the one being walked and of the jobs.
`RequestsAfterJobs` is a part of `IInv` and is not listed in a run: `JobsInOrder`
and the refinement show the same to TLC.

*Refinement of the queue.* The abstract backlog is the request being walked, if
there is one, followed by those behind it, so taking a request is a stutter and
the end of its walk is the abstract step that turns it into jobs. `IInv` gives
that the walk was of the oldest request and that a job starts in its turn.

*Session.* The wake-up and the link are inductive as they stand. The count is
not: after `exit()` has thrown the tasks away it is too high for ever, and the
listing under way must still not take it below zero. `CountInv` adds that; the
rest is the cardinality of the listings of a queue that grows at one end and
shrinks at the other.

*Program.* `DrainInv` carries the queue's whole invariant into the composition:
while the worker runs, `IInv` holds of the queue's variables with `posting` for
its `uiPc`, and the worker is in `drain()` exactly when its task is a drain. So
each step of `App` has only to be recognised as a step of the queue or as one
that leaves it alone, and the refinement comes out of the same lemmas. What a
frame has still to call is in `todo`; `HeldInv` says that while the question is
up the queue is held and no `resume()` is among these calls.

*Client.* Two accounts are compared. `First`, `Second` and `Opened` say which
replies the client expects where it is (two in a transfer or an abort), `Owes`
which the server still owes for what it has read; the replies that are unread,
then those owed, then the commands on the wire are what is expected, in order.

*Sockets.* Whatever the client is doing, a step of `Wire` does one of a few
things to its socket (`SocketStep`). What remains, what `poll()` still waits and
what has been waited add up to the limit at most (`WaitInv`), counted from the
address in a `connect()`. That after a cancellation they add up to a slice needs
the client: a cancellation is asked for during a transfer only and goes with it,
and whatever a transfer waits for was given the flag (`FlagInv`). This rests on
the account of calls of `FtpClientProofs`, which the refinement brings over. For the refinement one more fact about the client is needed
(`PassiveInv`): the reply to PASV stays where it was until the data connection
that it names has been tried.

*Files.* What has been read is written or in the buffer, and a file on its way
into place has been read whole, unless the listing told another size. None of
it depends on what the client and the server do. A scratch file of a job that
has returned is one whose removal the card refused: `part` and `mine` together
outlive a return only with `stuck`. The upload does: `ClientInv`
is the client's account of replies, which holds of every connection that is not
`behind`, `PhaseInv` says which function of the client a job is in, and
`AnswerInv` that an answer to SIZE or DELE which waits to be read is about this
upload's file as it now is.

*Explorer.* `RowsInv` follows a listing from the worker to the pane: wherever it
is, it has rows only if it was read in a folder. `PromptInv` says what a prompt
was asked about and why the side and the folder that its callback reads later
are still those: no key reaches the explorer meanwhile, and the worker writes
only `needsFetch`. For the server of the rows (`OriginInv`), the order of
the tasks is the matter: a connect that is queued is the only one, and between a
listing, queued or arrived, and the connect behind it there is a disconnect,
which forgets it. This is what overlapping connects break. For reading again
(`ReadInv`), a flag that the UI has overruled is made good by a listing behind
the task that raised it: after every listing or connect that is queued there is
a listing of the folder on screen, and once nothing is under way what is shown,
or about to be, is what the server has.

*Trees.* `Base` says where the worker is and how deep (`PlaceInv`), that all it
has open lies in the tree of the request (`NodesInv`), and that what it walks is
a tree: a path is there only below folders (`Rooted`). That has to survive every
step of the worker and of others, and gives that a folder without rows has
nothing below it, so that a removal which ends with its root gone has left
nothing. A removal spares what it has not listed because no open folder still
has to do a name that was added after its listing (`UnseenInv`). A walk covers
the tree (`CoverInv`) because a path that others leave alone is pending, below a
row that is left in an open folder or below the path being looked at, until it
has its job or is skipped, and nothing is pending when the stack is empty. A
folder that lists itself stays pending for ever (`LoopPending`), so such a walk
never returns true: it ends at the bound on the depth. Folders come first since
every open folder has its job (`JobsInv`). `at` and `node` agree unless there is
such a folder, in which case nothing is claimed of the jobs.

*Copies.* With nothing changed by others, the files are those of the start until
the first job (`QuietInv`), so every job is for a path of the tree, of the kind
that it has, and under "leave alone" only for files with nothing at their
destination (`Queued`); whatever is passed over has something there
(`SkipSound`). The jobs of all folders above a path come before its own
(`AboveFirst`, which needs `JobsInv` and follows the path upwards). Different
paths have different images, and what is above an image is above the destination
or is the image of a folder above the path (`ImageInjective`, `ImageAbove`). So
after any number of jobs that end well the files are known exactly: `After` says
that they are those of the start with the images of the paths done so far, but
for folders with an old file in their way. One step of it is `JobCopies`. On the
card a job that ends well has found its way free, and no folder of it is left to
make (`WayIsThere`); on the server, where MKD's answer is not looked at, a folder
can be made exactly where one is to be made (`FrontFolder`). At the end every
path has had its job or was passed over (`CoverInv`), and `After` is `Expected`.

*Saved servers.* `CardInv` says what the file may differ in from what the last
save was to write, at every moment and not only when the program starts.
`PromptInv` says that while the question is up no key reaches the editor, so
`s_editingSlot` is still the slot of the question.

What stays with TLC: every liveness property, and with them `Progress` in the
refinement of the queue and `CallsReturn` in that of the client; `Session`'s and
`FtpClient`'s `TypeOK` in full.

## 7. Plan

Done: `TransferQueue` with `JobQueue`, `Session`, `App`, `FtpClient`, `Socket`,
`Wire`, `FileTransfer`, `Tree`, `Browser`, `Slots`, and the proofs above.

What could follow:

1. The server as a part of a request in `App`, for a queue that is held over a
   disconnect from the START menu (`ui/screenStart.cpp:237`).
2. The overwrite question (`ui/screenActions.cpp:185`) with rows that have not
   arrived, against what the walk then finds.

## 8. What is not modelled

* Data: the text of names and paths, bytes, messages, rates and estimates. A
  listing is a set of names; its parsing is a pure function of text.
* Rename in the explorer, which is one command, and the logging.
* A link on the server that a removal follows out of its tree, and a listing of
  what is no folder that succeeds: the code supposes neither, and `Tree` neither.
* A real file of the name `x.part`, which a download of `x` would take for its
  scratch file.
* `waitReadable()` and `adopt()` of the sockets have no caller.
  `clearFinished()` is an operation of the queue's interface that no screen
  calls; `TransferQueue` has it, `App` does not.
* `DEBUG_INPUT` and `AUTOCONNECT` builds, and frames that are not built with
  the backlight off.
* A size in a listing that is out of date by exactly what the transfer lost:
  the code cannot tell, and `DestIsNeverPartial` excludes sizes that differ
  from the source's.
* The time `gethostbyname()` takes: no claim is made about it but the one that
  fails (`ConnectKeepsTime`).
* A part of two hazards. `ConnectSettles` says that every connect comes to an
  outcome; that the outcome may be written over a newer state is seen by
  `DeadLinkEndsBrowser` alone. `LostEndsBrowser` and `LossInDrainIsSeen` say that
  a loss is noticed; that the queue is cancelled with it is a call in the same
  frame of `App` and has no property of its own. `LossInDrainIsSeen` is
  `ConnectedIsAlive` again, for a drain of many steps instead of a task of one.
* The client over its sockets keeps the contract of its functions in `Wire`,
  where a transfer ends by `finishTransfer()` or `abortTransfer()`; the third way
  out, finding 3, is in `FileTransfer` only.
* Two hazards of the list have no property. Disconnecting from the START menu
  leaves the queue as it is, and no comment says what should become of it. The
  overwrite question is answered by the rows on screen, which may not have
  arrived; the code promises no more.
* Platform, drawing, tables and the vendored library.
