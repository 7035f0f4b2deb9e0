------------------------------ MODULE Browser ------------------------------
(***************************************************************************)
(* The dual file explorer (source/ui/screenBrowser.cpp), its actions menu  *)
(* (source/ui/screenActions.cpp) and the prompts both open.                *)
(*                                                                         *)
(* The UI thread draws a frame: it copies a listing that has arrived,      *)
(* fetches the side on screen when needsFetch says so, and hands one key   *)
(* to the prompt, the menu or the explorer.  The worker runs the tasks     *)
(* they post, in order, and raises needsFetch from its own thread.  The SD *)
(* card is listed on the UI thread, the server by a task.                  *)
(*                                                                         *)
(* The session is Session with a post() that is one step, and the transfer *)
(* queue is TransferQueue with a request that is carried out in one step.  *)
(* Both machines have the same folders.  A listing is a set of names; the  *)
(* first row of a folder that is not the root is "..".                     *)
(***************************************************************************)
EXTENDS Integers, Sequences

CONSTANTS
    Paths,        \* the folders of each machine
    Root,         \* the top of both
    Names,        \* what a folder may hold
    Holdings,     \* what the folders of both machines may hold at first
    MaxConnects,  \* bound on the calls of connect()
    MaxTasks,     \* bound on the tasks that are queued
    MaxOps        \* bound on the removals, new folders and transfers

Machines == {"LOCAL", "REMOTE"}

NoPath   == ""
Parent   == ".."
NoName   == ""

ASSUME BrowserAssumption ==
    /\ Root \in Paths /\ NoPath \notin Paths
    /\ Holdings \subseteq [Machines -> [Paths -> SUBSET Names]]
    /\ MaxConnects \in Nat /\ MaxTasks \in Nat /\ MaxOps \in Nat

VARIABLES
    screen,     \* st.screen
    machine,    \* s_machine
    pane,       \* s_panes
    selection,  \* s_selection
    menu,       \* the items of the actions menu, none when it is closed
    prompt,     \* what st.confirm asks
    uiPc,       \* where the frame is
    unseen,     \* session::listGeneration() # s_seenGeneration
    wasBusy,    \* s_wasTransferring
    state,      \* session::state()
    listing,    \* s_listPath and s_listing
    tasks,      \* s_tasks
    wanted,     \* the transfer queue's requests
    draining,   \* s_draining
    wpc,        \* where the worker is
    task,       \* the worker's task
    got,        \* what the task has read, or whether it has connected
    server,     \* the server the client is connected to, 0 when it is not alive
    disk,       \* what each folder of each machine holds
    connects,   \* number of connect() calls
    overlapped, \* history: connect() was called before an earlier one had ended
    ops         \* number of removals, new folders and transfers

explorer == <<machine, pane, selection>>
session  == <<state, listing, tasks, wpc, task, got, server, connects,
              overlapped>>
queue    == <<wanted, draining>>
vars     == <<screen, explorer, menu, prompt, uiPc, unseen, wasBusy, session, queue, disk, ops>>

----------------------------------------------------------------------------
(* Panes, listings, tasks and prompts. *)

(* A listing: of is the server it came from, 0 for the card and for none;  *)
(* ok says that it was read, and path where it was read.                   *)
NoListing == [path |-> NoPath, of |-> 0, ok |-> FALSE, names |-> {}]

NewPane == [path |-> NoPath, listing |-> NoListing, cursor |-> NoName, needsFetch |-> TRUE]

(* addParentRow(): the rows of a pane. *)
RowsOf(p) == p.listing.names \cup IF p.path \in {NoPath, Root} THEN {} ELSE {Parent}
FirstRow(p) == IF Parent \in RowsOf(p) THEN Parent
               ELSE IF RowsOf(p) = {} THEN NoName
               ELSE CHOOSE n \in RowsOf(p) : TRUE
AtTop(p) == [p EXCEPT !.cursor = FirstRow(p)]

(* What a deletion removes and a marked name stands for. *)
Entry(m, d, n) == [machine |-> m, dir |-> d, name |-> n]

NoSelection == [machine |-> "LOCAL", dir |-> NoPath, marks |-> {}]
Holds(m, d) == selection.marks # {} /\ selection.machine = m /\ selection.dir = d

(* s: the entries the prompt named, a ghost of the deletions; number: the  *)
(* server a connect() has captured, in the order of the calls.             *)
Task(k, m, d, ns, s) ==
    [kind |-> k, machine |-> m, dir |-> d, names |-> ns, shown |-> s, number |-> 0]
Plain(k)       == Task(k, "REMOTE", NoPath, {}, {})
ConnectTask(n) == [Plain("connect") EXCEPT !.number = n]

Pending(k) ==   \* a task of this kind is queued or runs
    \/ \E i \in 1..Len(tasks) : tasks[i].kind = k
    \/ wpc \in {"run", "publish"} /\ task.kind = k

NoPrompt == [kind |-> "none", dir |-> NoPath, names |-> {}, shown |-> {}]

Here    == pane[machine]
Pick(d) == IF d = NoPath THEN Root ELSE d

----------------------------------------------------------------------------
(* Faulty variants of the definitions below, one for each property.        *)

AnyPath(p) == TRUE                             \* syncRemote() does not compare the path
KeysAlways == uiPc = "keys"                    \* a prompt does not own the keys
NoRefresh(m) == UNCHANGED pane                 \* a worker operation is not followed by a fetch
AddedTo == selection.marks \cup prompt.shown   \* the answer does not clear the old names
LeaveRows ==                                   \* resetBrowser() forgets the panes
    /\ machine' = "LOCAL" /\ UNCHANGED pane
    /\ unseen' = FALSE /\ selection' = NoSelection

----------------------------------------------------------------------------

Init ==
    /\ screen = "connect"
    /\ machine = "LOCAL" /\ pane = [m \in Machines |-> NewPane] /\ selection = NoSelection
    /\ menu = {} /\ prompt = NoPrompt /\ uiPc = "frame"
    /\ unseen = FALSE /\ wasBusy = FALSE
    /\ state = "DISCONNECTED" /\ listing = NoListing /\ tasks = << >>
    /\ wanted = << >> /\ draining = FALSE
    /\ wpc = "idle" /\ task = Plain("other") /\ got = NoListing /\ server = 0
    /\ disk \in Holdings
    /\ connects = 0 /\ overlapped = FALSE /\ ops = 0

ResetBrowser ==
    /\ machine' = "LOCAL"
    /\ pane' = [m \in Machines |-> NewPane]
    /\ unseen' = FALSE
    /\ selection' = NoSelection

Post(t) == tasks' = Append(tasks, t)
Room    == Len(tasks) < MaxTasks

----------------------------------------------------------------------------
(* The connect screen and the loss of the link. *)

Connect ==
    /\ screen = "connect" /\ state \notin {"CONNECTING", "CONNECTED"} /\ Room
    /\ connects < MaxConnects
    /\ connects' = connects + 1
    /\ overlapped' = (overlapped \/ Pending("connect"))
    /\ ResetBrowser
    /\ state' = "CONNECTING" /\ listing' = NoListing
    /\ Post(ConnectTask(connects + 1))
    /\ UNCHANGED <<screen, menu, prompt, uiPc, wasBusy, queue, wpc, task, got, server, disk, ops>>

(* B while connecting, and the notice of a failed attempt. *)
GiveUp ==
    /\ screen = "connect" /\ state \in {"CONNECTING", "FAILED"} /\ Room
    /\ state' = "DISCONNECTED"
    /\ Post(Plain("disconnect"))
    /\ UNCHANGED <<screen, explorer, menu, prompt, uiPc, unseen, wasBusy, listing, wpc, task, got,
                   server, connects, overlapped, queue, disk, ops>>

Connected ==
    /\ screen = "connect" /\ state = "CONNECTED"
    /\ screen' = "browser"
    /\ UNCHANGED <<explorer, menu, prompt, uiPc, unseen, wasBusy, session, queue, disk, ops>>

LeaveBrowser ==
    /\ ResetBrowser
    /\ screen' = "connect"
    /\ state' = "DISCONNECTED"
    /\ Post(Plain("disconnect"))
    /\ menu' = {} /\ prompt' = NoPrompt
    /\ UNCHANGED <<wasBusy, listing, wpc, task, got, server, connects, overlapped, draining,
                   disk, ops>>

LinkLost ==
    /\ uiPc = "frame"
    /\ screen = "browser" /\ state = "LOST"
    /\ LeaveBrowser
    /\ wanted' = << >>
    /\ UNCHANGED uiPc

----------------------------------------------------------------------------
(* The frame of the explorer, drawn under any menu and any prompt. *)

SamePath(p) == p.path = listing.path

(* syncRemote() and syncAfterTransfers(). *)
Synced(busy) ==
    LET p     == pane["REMOTE"]
        new   == IF unseen /\ SamePath(p)
                 THEN [pane EXCEPT !["REMOTE"] = AtTop([p EXCEPT !.listing = listing])]
                 ELSE pane
        ended == wasBusy /\ ~busy
    IN  [m \in Machines |-> [new[m] EXCEPT !.needsFetch = @ \/ ended]]

(* refreshLocal() and refreshRemote(), up to the flag. *)
FetchLocal(panes) ==
    LET path == Pick(panes["LOCAL"].path)
        rows == [path |-> path, of |-> 0, ok |-> TRUE, names |-> disk["LOCAL"][path]]
    IN  /\ pane' = [panes EXCEPT !["LOCAL"] = AtTop([@ EXCEPT !.path = path, !.listing = rows])]
        /\ UNCHANGED tasks

FetchRemote(panes) ==
    LET path == Pick(panes["REMOTE"].path)
    IN  /\ Room
        /\ pane' = [panes EXCEPT !["REMOTE"].path = path]
        /\ Post(Task("list", "REMOTE", path, {}, {}))

Draw ==
    /\ uiPc = "frame"
    /\ screen = "browser" /\ state # "LOST"
    /\ LET busy  == wanted # << >>
           panes == Synced(busy)
       IN  /\ wasBusy' = busy
           /\ \/ /\ panes[machine].needsFetch
                 /\ IF machine = "LOCAL" THEN FetchLocal(panes) ELSE FetchRemote(panes)
                 /\ uiPc' = "clear"
              \/ /\ ~panes[machine].needsFetch
                 /\ pane' = panes
                 /\ UNCHANGED tasks
                 /\ uiPc' = "keys"
    /\ unseen' = FALSE
    /\ UNCHANGED <<screen, machine, selection, menu, prompt, state, listing, wpc, task, got, server,
                   connects, overlapped, queue, disk, ops>>

(* The last statement of refreshLocal() and refreshRemote(). *)
Clear ==
    /\ uiPc = "clear"
    /\ pane' = [pane EXCEPT ![machine].needsFetch = FALSE]
    /\ uiPc' = "keys"
    /\ UNCHANGED <<screen, machine, selection, menu, prompt, unseen, wasBusy, session, queue, disk,
                   ops>>

----------------------------------------------------------------------------
(* Keys.  A prompt has them first, then the menu, then the explorer. *)

HasKeys == uiPc = "keys" /\ prompt.kind = "none" /\ menu = {}

EndFrame == uiPc' = "frame"
Others   == <<screen, unseen, wasBusy, state, listing, wpc, task, got, server, connects, overlapped,
              disk>>

NoKey ==
    /\ uiPc = "keys"
    /\ EndFrame
    /\ UNCHANGED <<explorer, menu, prompt, tasks, queue, ops, Others>>

SwitchSide ==
    /\ HasKeys
    /\ machine' = IF machine = "LOCAL" THEN "REMOTE" ELSE "LOCAL"
    /\ EndFrame
    /\ UNCHANGED <<pane, selection, menu, prompt, tasks, queue, ops, Others>>

MoveCursor ==
    /\ HasKeys
    /\ \E row \in RowsOf(Here) : pane' = [pane EXCEPT ![machine].cursor = row]
    /\ EndFrame
    /\ UNCHANGED <<machine, selection, menu, prompt, tasks, queue, ops, Others>>

(* Into a folder, or up by ".." or B. *)
NavigateTo ==
    /\ HasKeys
    /\ \E path \in Paths \ {Here.path} :
          pane' = [pane EXCEPT ![machine] =
                     AtTop([@ EXCEPT !.path = path, !.listing = NoListing, !.needsFetch = TRUE])]
    /\ EndFrame
    /\ UNCHANGED <<machine, selection, menu, prompt, tasks, queue, ops, Others>>

InFolder(m, d) == selection.marks = {} \/ Holds(m, d)

PressSelect ==
    /\ HasKeys
    /\ Here.cursor \in RowsOf(Here) \ {Parent}
    /\ LET e == Entry(machine, Here.path, Here.cursor)
       IN  IF InFolder(machine, Here.path)
           THEN /\ IF \E m \in selection.marks : m.name = e.name
                   THEN selection' = [selection EXCEPT !.marks = {m \in @ : m.name # e.name}]
                   ELSE selection' = [machine |-> machine, dir |-> Here.path,
                                      marks |-> selection.marks \cup {e}]
                /\ UNCHANGED prompt
           ELSE /\ prompt' = [kind |-> "reselect", dir |-> NoPath, names |-> {e.name},
                              shown |-> {e}]
                /\ UNCHANGED selection
    /\ EndFrame
    /\ UNCHANGED <<machine, pane, menu, tasks, queue, ops, Others>>

(* The server has no copy command, the card has. *)
CanPaste(m) == m = "LOCAL" /\ selection.dir # Here.path

(* buildItems(): a rename is a removal and a new name, and is left out. *)
Offered(m) ==
    {"NEW_FOLDER", "CLOSE"}
    \cup (IF Here.cursor \in RowsOf(Here) \ {Parent} THEN {"DELETE_CURSOR"} ELSE {})
    \cup (IF Holds(m, Here.path) THEN {"DELETE_SELECTED"} ELSE {})
    \cup (IF selection.marks # {} /\ (selection.machine # m \/ CanPaste(m))
          THEN {"TRANSFER"} ELSE {})

OpenMenu ==
    /\ HasKeys
    /\ menu' = Offered(machine)
    /\ EndFrame
    /\ UNCHANGED <<explorer, prompt, tasks, queue, ops, Others>>

MenuHasKeys == uiPc = "keys" /\ prompt.kind = "none" /\ menu # {}

CloseMenu ==
    /\ MenuHasKeys
    /\ menu' = {}
    /\ EndFrame
    /\ UNCHANGED <<explorer, prompt, tasks, queue, ops, Others>>

CanOperate == Room /\ ops < MaxOps

NewFolder ==
    /\ MenuHasKeys /\ "NEW_FOLDER" \in menu /\ CanOperate
    /\ \E n \in Names : Post(Task("make", machine, Here.path, {n}, {}))
    /\ ops' = ops + 1
    /\ menu' = {}
    /\ EndFrame
    /\ UNCHANGED <<explorer, prompt, queue, Others>>

(* activate() asks about the entry the cursor is on now. *)
AskDelete ==
    /\ MenuHasKeys
    /\ \/ /\ "DELETE_CURSOR" \in menu
          /\ Here.cursor \in RowsOf(Here)
          /\ prompt' = [kind |-> "delete", dir |-> Here.path, names |-> {Here.cursor},
                        shown |-> {Entry(machine, Here.path, Here.cursor)}]
       \/ /\ "DELETE_SELECTED" \in menu
          /\ prompt' = [kind |-> "deleteSelected", dir |-> selection.dir,
                        names |-> {m.name : m \in selection.marks},
                        shown |-> {Entry(machine, selection.dir, m.name) : m \in selection.marks}]
    /\ menu' = {}
    /\ EndFrame
    /\ UNCHANGED <<explorer, tasks, queue, ops, Others>>

(* queueSelection(): enqueue() for the selection, whose post is a drain. *)
QueueSelection ==
    /\ wanted' = Append(wanted, [source  |-> selection.machine, from |-> selection.dir,
                                 machine |-> machine, dir |-> Here.path,
                                 names   |-> {m.name : m \in selection.marks}])
    /\ IF draining THEN UNCHANGED tasks ELSE Post(Plain("drain"))
    /\ draining' = TRUE
    /\ selection' = NoSelection
    /\ pane' = [pane EXCEPT ![machine].needsFetch = TRUE]
    /\ ops' = ops + 1

(* queueWithOverwriteCheck(): the rows on screen tell what would clash. *)
Transfer ==
    /\ MenuHasKeys /\ "TRANSFER" \in menu /\ CanOperate
    /\ IF \E m \in selection.marks : m.name \in RowsOf(Here)
       THEN /\ prompt' = [NoPrompt EXCEPT !.kind = "overwrite"]
            /\ UNCHANGED <<pane, selection, tasks, queue, ops>>
       ELSE QueueSelection /\ UNCHANGED prompt
    /\ menu' = {}
    /\ EndFrame
    /\ UNCHANGED <<machine, Others>>

(* names.clear(), names.insert(name). *)
Reselected == prompt.shown

(* The callbacks, which read the side and the folder when they run. *)
Yes ==
    /\ uiPc = "keys"
    /\ \/ /\ prompt.kind = "reselect"
          /\ selection' = [machine |-> machine, dir |-> Here.path, marks |-> Reselected]
          /\ UNCHANGED <<pane, tasks, queue, ops>>
       \/ /\ prompt.kind \in {"delete", "deleteSelected"}
          /\ CanOperate
          /\ Post(Task("delete", machine, prompt.dir, prompt.names, prompt.shown))
          /\ ops' = ops + 1
          /\ IF prompt.kind = "deleteSelected" THEN selection' = NoSelection
                                               ELSE UNCHANGED selection
          /\ UNCHANGED <<pane, queue>>
       \/ prompt.kind = "overwrite" /\ CanOperate /\ QueueSelection
    /\ prompt' = NoPrompt
    /\ EndFrame
    /\ UNCHANGED <<machine, menu, Others>>

No ==
    /\ uiPc = "keys" /\ prompt.kind # "none"
    /\ prompt' = NoPrompt
    /\ EndFrame
    /\ UNCHANGED <<explorer, menu, tasks, queue, ops, Others>>

(* START, Disconnect, Yes. *)
Disconnect ==
    /\ uiPc = "keys" /\ prompt.kind = "none"
    /\ Room
    /\ LeaveBrowser
    /\ EndFrame
    /\ UNCHANGED wanted

----------------------------------------------------------------------------
(* The worker. *)

Worker == <<screen, machine, selection, menu, prompt, uiPc, wasBusy, connects, overlapped, ops>>

Take ==
    /\ wpc = "idle" /\ tasks # << >>
    /\ task' = Head(tasks) /\ tasks' = Tail(tasks)
    /\ wpc' = "run"
    /\ UNCHANGED <<pane, unseen, state, listing, got, server, queue, disk, Worker>>

(* The parts of a task that reach the server or the card. *)
Reaches(m) == m = "LOCAL" \/ server # 0

Run ==
    /\ wpc = "run"
    /\ \/ /\ task.kind = "connect"
          /\ server' \in {0, task.number}
          /\ wpc' = "publish"
          /\ UNCHANGED <<got, queue, disk>>
       \/ /\ task.kind = "disconnect"
          /\ server' = 0
          /\ wpc' = "publish"
          /\ UNCHANGED <<got, queue, disk>>
       \/ /\ task.kind = "list"
          /\ \E ok \in {FALSE, server # 0} :
                got' = [path |-> task.dir, of |-> server, ok |-> ok,
                        names |-> IF ok THEN disk["REMOTE"][task.dir] ELSE {}]
          /\ wpc' = "publish"
          /\ UNCHANGED <<server, queue, disk>>
       \/ /\ task.kind \in {"delete", "make"}
          /\ \E ns \in SUBSET task.names :
                /\ ns # {} => Reaches(task.machine)
                /\ disk' = [disk EXCEPT ![task.machine][task.dir] =
                              IF task.kind = "make" THEN @ \cup ns ELSE @ \ ns]
          /\ wpc' = "publish"
          /\ UNCHANGED <<got, server, queue>>
       \/ /\ task.kind = "drain" /\ wanted # << >>
          /\ LET r == Head(wanted)
             IN  \E ns \in SUBSET (r.names \cap disk[r.source][r.from]) :
                    /\ ns # {} => Reaches(r.machine) /\ Reaches(r.source)
                    /\ disk' = [disk EXCEPT ![r.machine][r.dir] = @ \cup ns]
          /\ wanted' = Tail(wanted)
          /\ UNCHANGED <<wpc, got, server, draining>>
       \/ /\ task.kind = "drain" /\ wanted = << >>
          /\ draining' = FALSE
          /\ wpc' = "after"
          /\ UNCHANGED <<got, server, wanted, disk>>
    /\ UNCHANGED <<pane, unseen, state, listing, tasks, task, Worker>>

(* refreshLater(), called on the worker. *)
RefreshLater(m) == pane' = [pane EXCEPT ![m].needsFetch = TRUE]

Publish ==
    /\ wpc = "publish"
    /\ wpc' = "after"
    /\ \/ /\ task.kind = "connect"
          /\ state' = IF server # 0 THEN "CONNECTED" ELSE "FAILED"
          /\ UNCHANGED <<pane, unseen, listing>>
       \/ /\ task.kind = "disconnect"
          /\ state' = "DISCONNECTED"
          /\ listing' = NoListing
          /\ UNCHANGED <<pane, unseen>>
       \/ /\ task.kind = "list"
          /\ listing' = got
          /\ unseen' = TRUE
          /\ UNCHANGED <<pane, state>>
       \/ /\ task.kind \in {"delete", "make"}
          /\ RefreshLater(task.machine)
          /\ UNCHANGED <<unseen, state, listing>>
    /\ UNCHANGED <<tasks, task, got, server, queue, disk, Worker>>

After ==
    /\ wpc = "after"
    /\ wpc' = "idle"
    /\ IF state = "CONNECTED" /\ server = 0
       THEN state' = "LOST" /\ listing' = NoListing
       ELSE UNCHANGED <<state, listing>>
    /\ task' = Plain("other") /\ got' = NoListing       \* both are locals of the loop
    /\ UNCHANGED <<pane, unseen, tasks, server, queue, disk, Worker>>

LinkDrops ==
    /\ wpc = "run" /\ server # 0
    /\ server' = 0
    /\ UNCHANGED <<pane, unseen, state, listing, tasks, wpc, task, got, queue, disk, Worker>>

----------------------------------------------------------------------------

UI ==
    \/ Connect \/ GiveUp \/ Connected \/ LinkLost \/ Disconnect
    \/ Draw \/ Clear
    \/ NoKey \/ SwitchSide \/ MoveCursor \/ NavigateTo \/ PressSelect
    \/ OpenMenu \/ CloseMenu \/ NewFolder \/ AskDelete \/ Transfer \/ Yes \/ No

Next == UI \/ Take \/ Run \/ Publish \/ After \/ LinkDrops

Spec == Init /\ [][Next]_vars

----------------------------------------------------------------------------
(* Properties. *)

TypeOK ==
    /\ screen \in {"connect", "browser"} /\ machine \in Machines
    /\ \A m \in Machines :
          /\ pane[m].path \in Paths \cup {NoPath}
          /\ pane[m].listing.names \subseteq Names
          /\ pane[m].needsFetch \in BOOLEAN
          /\ pane[m].cursor \in RowsOf(pane[m]) \cup {NoName}
    /\ selection.dir \in Paths \cup {NoPath} /\ selection.machine \in Machines
    /\ menu \subseteq {"NEW_FOLDER", "DELETE_CURSOR", "DELETE_SELECTED", "TRANSFER", "CLOSE"}
    /\ prompt.kind \in {"none", "reselect", "delete", "deleteSelected", "overwrite"}
    /\ uiPc \in {"frame", "clear", "keys"}
    /\ {unseen, wasBusy, draining} \subseteq BOOLEAN
    /\ state \in {"DISCONNECTED", "CONNECTING", "CONNECTED", "FAILED", "LOST"}
    /\ wpc \in {"idle", "run", "publish", "after"}
    /\ server \in 0..MaxConnects /\ ops \in 0..MaxOps
    /\ disk \in [Machines -> [Paths -> SUBSET Names]]

(* screenBrowser.cpp: "they would be the previous folder's contents under  *)
(* the new path": the rows of a pane are of the folder it shows, whatever  *)
(* listings were asked for in between and in which order they arrive.      *)
RowsAreOfTheFolder ==
    \A m \in Machines : pane[m].listing.names # {} => pane[m].listing.path = pane[m].path

(* The rows of the server's side are of the server that is connected: none *)
(* of an earlier session outlives its disconnect or its loss.  It takes    *)
(* connect() calls that wait for each other: with attempts that were given *)
(* up still queued, the state one publishes lets the user into the         *)
(* explorer before the next one runs.                                      *)
RowsAreOfTheServer ==
    (screen = "browser" /\ server # 0 /\ pane["REMOTE"].listing.names # {})
        => pane["REMOTE"].listing.of = server \/ overlapped

(* What a confirmed deletion removes is what the prompt named, although    *)
(* the side is read when the answer comes and the link may go in between.  *)
DeletesWhatWasNamed ==
    \A i \in 1..Len(tasks) : tasks[i].kind = "delete" =>
        tasks[i].shown = {Entry(tasks[i].machine, tasks[i].dir, n) : n \in tasks[i].names}

(* screenBrowser.h: "always belonging to one directory on one machine":    *)
(* every name of the selection was marked in the folder it stands for.     *)
SelectionIsWhatWasMarked ==
    \A m \in selection.marks : m.machine = selection.machine /\ m.dir = selection.dir

(* Rows that are behind a side will be read again. *)
Behind(m) ==
    /\ pane[m].path # NoPath
    /\ \/ pane[m].listing.path # pane[m].path
       \/ pane[m].listing.ok /\ pane[m].listing.names # disk[m][pane[m].path]

Operates(t, m) == t.kind \in {"delete", "make"} /\ t.machine = m

WillRefresh(m) ==
    \/ pane[m].needsFetch
    \/ wpc = "publish" /\ Operates(task, m)
    \/ wasBusy

BeingListed(d) ==
    \/ \E i \in 1..Len(tasks) : tasks[i].kind = "list" /\ tasks[i].dir = d
    \/ wpc \in {"run", "publish"} /\ task.kind = "list" /\ task.dir = d
    \/ unseen /\ listing.path = d

(* A remote folder that was changed by one of our own tasks is listed      *)
(* again: the worker may raise needsFetch just before the UI clears it,    *)
(* but then the listing the UI has asked for comes after the change.       *)
RemoteIsReadAgain ==
    (screen = "browser" /\ state = "CONNECTED" /\ server # 0 /\ Behind("REMOTE"))
        => WillRefresh("REMOTE") \/ BeingListed(pane["REMOTE"].path)

(* screenActions.cpp: "Re-read the affected side once a worker operation   *)
(* has finished. Called from the worker; needsFetch is a plain flag the UI *)
(* polls."  The same for the SD card, which the UI lists by itself.        *)
LocalIsReadAgain ==
    (screen = "browser" /\ Behind("LOCAL")) => WillRefresh("LOCAL") \/ wanted # << >>

(* screenActions.cpp: '".." is not a real entry, so it can be neither      *)
(* renamed nor deleted'.                                                   *)
ParentIsNeverDeleted ==
    \A i \in 1..Len(tasks) : tasks[i].kind = "delete" => Parent \notin tasks[i].names

=============================================================================
