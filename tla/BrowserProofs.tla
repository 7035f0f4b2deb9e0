--------------------------- MODULE BrowserProofs ----------------------------
(***************************************************************************)
(* Theorems about Browser, for any folders, any names and any number of    *)
(* connects, tasks and operations.                                         *)
(*                                                                         *)
(* Three inductive invariants, each resting on those before it.            *)
(*                                                                         *)
(* Inv: RowsInv follows a listing from the worker to the pane: wherever it *)
(* is, it has rows only if it was read in a folder.  PromptInv says what a *)
(* prompt that is up was asked about, and why the side and the folder that *)
(* its callback reads are still those: no key reaches the explorer, and    *)
(* the worker writes only needsFetch.                                      *)
(*                                                                         *)
(* OriginInv: the order of connects, disconnects and lists in the queue,   *)
(* which is why no listing of one server is left when the next is up.      *)
(*                                                                         *)
(* ReadInv: while needsFetch is down, the last list that is queued is of   *)
(* the folder on screen, and with none queued what has arrived, or what is *)
(* shown, is what the server holds.                                        *)
(***************************************************************************)
EXTENDS Browser, TLAPS

Folder == Paths \cup {NoPath}
Rows   == Names \cup {Parent}

Listings == [path : Folder, of : 0..MaxConnects, ok : BOOLEAN, names : SUBSET Names]
Panes    == [path : Folder, listing : Listings, cursor : Rows \cup {NoName},
             needsFetch : BOOLEAN]
Entries  == [machine : Machines, dir : Folder, name : Rows]
Marks    == [machine : Machines, dir : Folder, name : Names]
Requests == [source : Machines, from : Folder, machine : Machines, dir : Folder,
             names : SUBSET Names]
Kinds    == {"connect", "disconnect", "list", "delete", "make", "drain", "other"}
Tasks    == [kind : Kinds, machine : Machines, dir : Folder, names : SUBSET Rows,
             shown : SUBSET Entries, number : 0..MaxConnects]
Prompts  == [kind : {"none", "reselect", "delete", "deleteSelected", "overwrite"},
             dir : Folder, names : SUBSET Rows, shown : SUBSET Entries]

UITypes ==
    /\ machine \in Machines /\ wasBusy \in BOOLEAN
    /\ pane \in [Machines -> Panes]
    /\ selection \in [machine : Machines, dir : Folder, marks : SUBSET Marks]
    /\ prompt \in Prompts

WorkTypes ==
    /\ connects \in 0..MaxConnects /\ server \in 0..MaxConnects
    /\ listing \in Listings /\ got \in Listings
    /\ tasks \in Seq(Tasks) /\ task \in Tasks
    /\ wanted \in Seq(Requests)
    /\ disk \in [Machines -> [Paths -> SUBSET Names]]

Named(t) == t.shown = {Entry(t.machine, t.dir, n) : n \in t.names}

(* What is promised of a task from its post to its end. *)
Sound(t) ==
    /\ t.kind = "list" => t.dir \in Paths
    /\ t.kind = "make" => t.names \subseteq Names
    /\ t.kind = "delete" => Named(t)

TasksInv == Sound(task) /\ \A i \in 1..Len(tasks) : Sound(tasks[i])

Placed(l) == l.names # {} => l.path \in Paths

RowsInv ==
    /\ Placed(listing) /\ Placed(got)
    /\ \A m \in Machines : Placed(pane[m].listing)
    /\ RowsAreOfTheFolder

PromptInv ==
    /\ screen = "connect" => prompt.kind = "none" /\ uiPc = "frame"
    /\ prompt.kind \in {"delete", "deleteSelected"} =>
          prompt.shown = {Entry(machine, prompt.dir, n) : n \in prompt.names}
    /\ prompt.kind = "reselect" =>
          /\ pane[machine].path \in Paths
          /\ prompt.shown \subseteq Marks
          /\ \A e \in prompt.shown : e.machine = machine /\ e.dir = pane[machine].path

Inv == UITypes /\ WorkTypes /\ TasksInv /\ RowsInv /\ PromptInv /\ SelectionIsWhatWasMarked

----------------------------------------------------------------------------
(* Values. *)

LEMMA Blanks ==
  /\ NoListing \in Listings /\ Placed(NoListing) /\ NoListing.names = {}
  /\ NewPane \in Panes /\ NewPane.listing = NoListing
  /\ NoSelection \in [machine : Machines, dir : Folder, marks : SUBSET Marks]
  /\ NoSelection.marks = {}
  /\ NoPrompt \in Prompts /\ NoPrompt.kind = "none"
<1>1. NoListing \in Listings
  BY BrowserAssumption DEF NoListing, Listings, Folder
<1>2. NewPane \in Panes
  BY <1>1 DEF NewPane, Panes, Folder
<1>3. QED
  BY <1>1, <1>2 DEF NoListing, NewPane, NoSelection, NoPrompt, Prompts, Folder, Machines, Placed

LEMMA PlainTask ==
  ASSUME NEW k \in {"connect", "disconnect", "drain", "other"}
  PROVE  Plain(k) \in Tasks /\ Sound(Plain(k)) /\ Plain(k).kind = k
  BY BrowserAssumption DEF Plain, Task, Tasks, Kinds, Machines, Folder, Sound

LEMMA ConnectTaskType ==
  ASSUME NEW n \in 0..MaxConnects
  PROVE  ConnectTask(n) \in Tasks /\ Sound(ConnectTask(n)) /\ ConnectTask(n).kind = "connect"
         /\ ConnectTask(n).number = n
  BY DEF ConnectTask, Plain, Task, Tasks, Kinds, Machines, Folder, Sound

LEMMA TaskType ==
  ASSUME NEW k \in Kinds, NEW m \in Machines, NEW d \in Folder,
         NEW ns \in SUBSET Rows, NEW s \in SUBSET Entries
  PROVE  /\ Task(k, m, d, ns, s) \in Tasks
         /\ Task(k, m, d, ns, s).kind = k /\ Task(k, m, d, ns, s).machine = m
         /\ Task(k, m, d, ns, s).dir = d /\ Task(k, m, d, ns, s).names = ns
         /\ Task(k, m, d, ns, s).shown = s
  BY BrowserAssumption DEF Task, Tasks

LEMMA EntryType ==
  ASSUME NEW m, NEW d, NEW n
  PROVE  /\ Entry(m, d, n).machine = m /\ Entry(m, d, n).dir = d /\ Entry(m, d, n).name = n
         /\ m \in Machines /\ d \in Folder /\ n \in Rows => Entry(m, d, n) \in Entries
         /\ m \in Machines /\ d \in Folder /\ n \in Names => Entry(m, d, n) \in Marks
  BY DEF Entry, Entries, Marks

(* A post keeps what is promised of the tasks. *)
LEMMA PostKeeps ==
  ASSUME WorkTypes, TasksInv, NEW t \in Tasks, Sound(t), Post(t), task' = task
  PROVE  tasks' \in Seq(Tasks) /\ TasksInv'
<1>1. tasks' = Append(tasks, t) /\ tasks' \in Seq(Tasks)
  BY DEF Post, WorkTypes
<1>2. ASSUME NEW i \in 1..Len(tasks') PROVE Sound(tasks'[i])
  <2>1. CASE i <= Len(tasks)
    BY <1>1, <1>2, <2>1 DEF WorkTypes, TasksInv
  <2>2. CASE i = Len(tasks) + 1
    BY <1>1, <2>2 DEF WorkTypes
  <2>3. QED
    BY <1>1, <1>2, <2>1, <2>2 DEF WorkTypes
<1>3. Sound(task')
  BY DEF TasksInv
<1>4. QED
  BY <1>1, <1>2, <1>3 DEF TasksInv, Sound, Named

----------------------------------------------------------------------------
(* Panes. *)

LEMMA RowsAreRows ==
  ASSUME NEW p \in Panes
  PROVE  RowsOf(p) \subseteq Rows /\ RowsOf(p) \ {Parent} \subseteq Names
  BY DEF RowsOf, Rows, Panes, Listings

LEMMA Topped ==
  ASSUME NEW p \in Panes
  PROVE  /\ AtTop(p) \in Panes
         /\ AtTop(p).path = p.path /\ AtTop(p).listing = p.listing
<1>1. FirstRow(p) \in Rows \cup {NoName}
  <2>1. CASE Parent \in RowsOf(p)
    BY <2>1 DEF FirstRow, Rows
  <2>2. CASE RowsOf(p) = {}
    BY <2>2 DEF FirstRow
  <2>3. CASE Parent \notin RowsOf(p) /\ RowsOf(p) # {}
    <3>1. FirstRow(p) = CHOOSE n \in RowsOf(p) : TRUE
      BY <2>3 DEF FirstRow
    <3>2. \E n \in RowsOf(p) : TRUE
      BY <2>3
    <3>3. FirstRow(p) \in RowsOf(p)
      BY <3>1, <3>2
    <3>4. QED
      BY <3>3, RowsAreRows
  <2>4. QED
    BY <2>1, <2>2, <2>3
<1>2. QED
  BY <1>1 DEF AtTop, Panes

(* What a frame makes of the panes: the paths are kept, and a listing that *)
(* is copied is of the path it is copied to.                               *)
LEMMA SyncedPanes ==
  ASSUME UITypes, WorkTypes, RowsInv, NEW busy \in BOOLEAN
  PROVE  /\ Synced(busy) \in [Machines -> Panes]
         /\ \A m \in Machines :
              /\ Synced(busy)[m].path = pane[m].path
              /\ Placed(Synced(busy)[m].listing)
              /\ Synced(busy)[m].listing.names # {} =>
                    Synced(busy)[m].listing.path = Synced(busy)[m].path
<1> DEFINE p     == pane["REMOTE"]
           q     == [p EXCEPT !.listing = listing]
           new   == IF unseen /\ SamePath(p) THEN [pane EXCEPT !["REMOTE"] = AtTop(q)] ELSE pane
           ended == wasBusy /\ ~busy
<1>1. p \in Panes /\ q \in Panes /\ q.path = p.path /\ q.listing = listing
  BY DEF UITypes, WorkTypes, Panes, Machines
<1>2. AtTop(q) \in Panes /\ AtTop(q).path = p.path /\ AtTop(q).listing = listing
  BY <1>1, Topped
<1>3. /\ new \in [Machines -> Panes]
      /\ \A m \in Machines :
           /\ new[m].path = pane[m].path
           /\ Placed(new[m].listing)
           /\ new[m].listing.names # {} => new[m].listing.path = new[m].path
  <2>1. CASE unseen /\ SamePath(p)
    <3>1. p.path = listing.path
      BY <2>1 DEF SamePath
    <3> HIDE DEF p, q
    <3>2. new = [pane EXCEPT !["REMOTE"] = AtTop(q)]
      BY <2>1 DEF p
    <3>3. new["REMOTE"] = AtTop(q) /\ \A m \in Machines \ {"REMOTE"} : new[m] = pane[m]
      BY <3>2 DEF UITypes, Machines
    <3>4. new \in [Machines -> Panes]
      BY <3>2, <1>2 DEF UITypes
    <3> HIDE DEF new
    <3>5. p = pane["REMOTE"]
      BY DEF p
    <3>6. QED
      BY <1>2, <3>1, <3>3, <3>4, <3>5 DEF RowsInv, RowsAreOfTheFolder
  <2>2. CASE ~(unseen /\ SamePath(p))
    BY <2>2 DEF UITypes, RowsInv, RowsAreOfTheFolder
  <2>3. QED
    BY <2>1, <2>2
<1>4. Synced(busy) = [m \in Machines |-> [new[m] EXCEPT !.needsFetch = @ \/ ended]]
  BY DEF Synced
<1> HIDE DEF new, p, q, ended
<1>5. ended \in BOOLEAN
  BY DEF ended, UITypes
<1>6. ASSUME NEW m \in Machines
      PROVE  /\ Synced(busy)[m] \in Panes
             /\ Synced(busy)[m].path = new[m].path
             /\ Synced(busy)[m].listing = new[m].listing
  BY <1>3, <1>4, <1>5 DEF Panes
<1>7. Synced(busy) \in [Machines -> Panes]
  BY <1>4, <1>6
<1>8. QED
  BY <1>3, <1>6, <1>7

----------------------------------------------------------------------------
(* Steps.  The variables of Inv fall into groups, and what an action       *)
(* leaves alone keeps its conjunct.                                        *)

LEMMA InitInv == Init => Inv
<1> SUFFICES ASSUME Init PROVE Inv
  OBVIOUS
<1>1. UITypes
  BY Blanks DEF Init, UITypes, Machines
<1>2. WorkTypes
  BY Blanks, PlainTask, BrowserAssumption DEF Init, WorkTypes
<1>3. TasksInv
  BY PlainTask DEF Init, TasksInv
<1>4. \A m \in Machines : pane[m].listing.names = {}
  BY Blanks DEF Init
<1>5. RowsInv
  BY <1>4, Blanks DEF Init, RowsInv, RowsAreOfTheFolder, Placed
<1>6. PromptInv
  BY Blanks DEF Init, PromptInv
<1>7. SelectionIsWhatWasMarked
  BY Blanks DEF Init, SelectionIsWhatWasMarked
<1>8. QED
  BY <1>1, <1>2, <1>3, <1>5, <1>6, <1>7 DEF Inv

LEMMA ResetKeeps ==
  ASSUME ResetBrowser
  PROVE  /\ machine' \in Machines /\ pane' \in [Machines -> Panes]
         /\ selection' \in [machine : Machines, dir : Folder, marks : SUBSET Marks]
         /\ \A m \in Machines : pane'[m].listing.names = {}
         /\ SelectionIsWhatWasMarked'
<1>1. pane' = [m \in Machines |-> NewPane] /\ machine' = "LOCAL" /\ selection' = NoSelection
  BY DEF ResetBrowser
<1>2. QED
  BY <1>1, Blanks DEF Machines, SelectionIsWhatWasMarked

(* The connect screen. *)
LEMMA ConnectKeeps == Inv /\ Connect => Inv'
<1> SUFFICES ASSUME Inv, Connect PROVE Inv'
  OBVIOUS
<1> USE DEF Inv
<1>1. /\ ResetBrowser /\ listing' = NoListing /\ Post(ConnectTask(connects + 1))
      /\ screen = "connect" /\ connects + 1 \in 0..MaxConnects /\ connects' = connects + 1
      /\ UNCHANGED <<screen, prompt, uiPc, wasBusy, wanted, task, got, server, disk>>
  BY BrowserAssumption DEF Connect, queue, WorkTypes
<1>2. tasks' \in Seq(Tasks) /\ TasksInv'
  BY <1>1, PostKeeps, ConnectTaskType
<1>3. UITypes'
  BY <1>1, ResetKeeps DEF UITypes
<1>4. WorkTypes'
  BY <1>1, <1>2, Blanks DEF WorkTypes
<1>5. RowsInv'
  BY <1>1, ResetKeeps, Blanks DEF RowsInv, RowsAreOfTheFolder, Placed
<1>6. PromptInv'
  BY <1>1 DEF PromptInv
<1>7. QED
  BY <1>1, <1>2, <1>3, <1>4, <1>5, <1>6, ResetKeeps

LEMMA LeaveKeeps ==
  ASSUME Inv, LeaveBrowser, uiPc' = "frame", wanted' \in Seq(Requests)
  PROVE  Inv'
<1> USE DEF Inv
<1>1. /\ ResetBrowser /\ Post(Plain("disconnect")) /\ prompt' = NoPrompt
      /\ UNCHANGED <<wasBusy, listing, task, got, server, connects, disk>>
  BY DEF LeaveBrowser
<1>2. tasks' \in Seq(Tasks) /\ TasksInv'
  BY <1>1, PostKeeps, PlainTask
<1>3. UITypes'
  BY <1>1, ResetKeeps, Blanks DEF UITypes
<1>4. WorkTypes'
  BY <1>1, <1>2 DEF WorkTypes
<1>5. RowsInv'
  BY <1>1, ResetKeeps DEF RowsInv, RowsAreOfTheFolder, Placed
<1>6. PromptInv'
  BY <1>1, Blanks DEF PromptInv
<1>7. QED
  BY <1>1, <1>2, <1>3, <1>4, <1>5, <1>6, ResetKeeps

(* What leaves the panes, the side and the listings alone. *)
LEMMA RowsStay ==
  ASSUME RowsInv, UNCHANGED <<pane, listing, got>>
  PROVE  RowsInv'
  BY DEF RowsInv, RowsAreOfTheFolder, Placed

LEMMA PromptStays ==
  ASSUME PromptInv, UNCHANGED <<pane, machine, prompt, screen>>, uiPc' \in {uiPc, "frame"}
  PROVE  PromptInv'
  BY DEF PromptInv

LEMMA TasksStay ==
  ASSUME TasksInv, UNCHANGED <<tasks, task>>
  PROVE  TasksInv'
  BY DEF TasksInv, Sound, Named

LEMMA SelectionStays ==
  ASSUME SelectionIsWhatWasMarked, selection' \in {selection, NoSelection}
  PROVE  SelectionIsWhatWasMarked'
  BY Blanks DEF SelectionIsWhatWasMarked

LEMMA UITypesStay ==
  ASSUME UITypes, UNCHANGED <<machine, wasBusy, pane>>,
         selection' \in {selection, NoSelection}, prompt' \in {prompt, NoPrompt}
  PROVE  UITypes'
  BY Blanks DEF UITypes

LEMMA WorkTypesStay ==
  ASSUME WorkTypes, UNCHANGED <<connects, server, listing, got, task, disk>>,
         tasks' \in Seq(Tasks), wanted' \in Seq(Requests)
  PROVE  WorkTypes'
  BY DEF WorkTypes

LEMMA OutsideKeeps == Inv /\ (GiveUp \/ Connected \/ LinkLost \/ Disconnect) => Inv'
<1> SUFFICES ASSUME Inv, GiveUp \/ Connected \/ LinkLost \/ Disconnect PROVE Inv'
  OBVIOUS
<1> USE DEF Inv
<1>1. CASE GiveUp
  <2>1. /\ Post(Plain("disconnect"))
        /\ UNCHANGED <<screen, machine, pane, selection, prompt, uiPc, wasBusy, listing, task, got,
                       server, connects, wanted, disk>>
    BY <1>1 DEF GiveUp, explorer, queue
  <2>2. tasks' \in Seq(Tasks) /\ TasksInv'
    BY <2>1, PostKeeps, PlainTask
  <2>3. UITypes' /\ WorkTypes'
    BY <2>1, <2>2, UITypesStay, WorkTypesStay DEF WorkTypes
  <2>4. RowsInv' /\ PromptInv' /\ SelectionIsWhatWasMarked'
    BY <2>1, RowsStay, PromptStays, SelectionStays
  <2>5. QED
    BY <2>2, <2>3, <2>4
<1>2. CASE Connected
  <2>1. /\ screen = "connect" /\ screen' = "browser"
        /\ UNCHANGED <<machine, pane, selection, prompt, uiPc, wasBusy, listing, tasks, task, got,
                       server, connects, wanted, disk>>
    BY <1>2 DEF Connected, explorer, queue, session
  <2>2. TasksInv' /\ RowsInv' /\ SelectionIsWhatWasMarked'
    BY <2>1, TasksStay, RowsStay, SelectionStays
  <2>3. UITypes' /\ WorkTypes'
    BY <2>1, UITypesStay, WorkTypesStay DEF WorkTypes
  <2>4. PromptInv'
    BY <2>1 DEF PromptInv
  <2>5. QED
    BY <2>2, <2>3, <2>4
<1>3. CASE LinkLost
  BY <1>3, LeaveKeeps DEF LinkLost
<1>4. CASE Disconnect
  BY <1>4, LeaveKeeps DEF Disconnect, EndFrame, WorkTypes
<1>5. QED
  BY <1>1, <1>2, <1>3, <1>4

(* The frame: a fetch gives the first folder its path, and the rows of the *)
(* card come with it.                                                      *)
LEMMA DrawKeeps == Inv /\ Draw => Inv'
<1> SUFFICES ASSUME Inv, Draw PROVE Inv'
  OBVIOUS
<1> USE DEF Inv
<1> DEFINE busy  == wanted # << >>
           panes == Synced(busy)
<1>1. /\ screen = "browser" /\ wasBusy' = busy
      /\ \/ panes[machine].needsFetch /\ machine = "LOCAL" /\ FetchLocal(panes)
         \/ panes[machine].needsFetch /\ machine # "LOCAL" /\ FetchRemote(panes)
         \/ pane' = panes /\ UNCHANGED tasks
      /\ UNCHANGED <<screen, machine, selection, prompt, listing, task, got, server, connects,
                     wanted, disk>>
  BY DEF Draw, queue
<1>2. /\ panes \in [Machines -> Panes]
      /\ \A m \in Machines :
           /\ panes[m].path = pane[m].path
           /\ Placed(panes[m].listing)
           /\ panes[m].listing.names # {} => panes[m].listing.path = panes[m].path
  BY SyncedPanes
<1> HIDE DEF panes, busy
(* What all three cases make of the panes. *)
<1>3. /\ pane' \in [Machines -> Panes]
      /\ \A m \in Machines :
           /\ pane[m].path \in Paths => pane'[m].path = pane[m].path
           /\ Placed(pane'[m].listing)
           /\ pane'[m].listing.names # {} => pane'[m].listing.path = pane'[m].path
      /\ tasks' \in Seq(Tasks) /\ TasksInv'
  <2>1. CASE FetchLocal(panes)
    <3> DEFINE path == Pick(panes["LOCAL"].path)
               rows == [path |-> path, of |-> 0, ok |-> TRUE, names |-> disk["LOCAL"][path]]
               p    == [panes["LOCAL"] EXCEPT !.path = path, !.listing = rows]
    <3>1. panes["LOCAL"] \in Panes
      BY <1>2 DEF Machines
    <3>2. path \in Paths /\ (pane["LOCAL"].path \in Paths => path = pane["LOCAL"].path)
      BY <1>2, <3>1, BrowserAssumption DEF Pick, Panes, Folder, Machines
    <3> HIDE DEF path
    <3>3. rows \in Listings /\ rows.path = path
      BY <3>2, BrowserAssumption DEF Listings, Folder, WorkTypes, Machines
    <3> HIDE DEF rows
    <3>4. p \in Panes /\ p.path = path /\ p.listing = rows
      BY <3>1, <3>2, <3>3 DEF Panes, Folder
    <3>5. pane' = [panes EXCEPT !["LOCAL"] = AtTop(p)] /\ tasks' = tasks
      BY <2>1 DEF FetchLocal, path, rows
    <3> HIDE DEF p
    <3>6. AtTop(p) \in Panes /\ AtTop(p).path = path /\ AtTop(p).listing = rows
      BY <3>4, Topped
    <3>7. /\ pane' \in [Machines -> Panes] /\ pane'["LOCAL"] = AtTop(p)
          /\ \A m \in Machines \ {"LOCAL"} : pane'[m] = panes[m]
      BY <1>2, <3>5, <3>6 DEF Machines
    <3>8. Placed(rows)
      BY <3>2, <3>3 DEF Placed
    <3>9. TasksInv' /\ tasks' \in Seq(Tasks)
      BY <1>1, <3>5, TasksStay DEF WorkTypes
    <3>10. QED
      BY <1>2, <3>2, <3>3, <3>6, <3>7, <3>8, <3>9
  <2>2. CASE FetchRemote(panes)
    <3> DEFINE path == Pick(panes["REMOTE"].path)
    <3>1. panes["REMOTE"] \in Panes
      BY <1>2 DEF Machines
    <3>2. path \in Paths /\ (pane["REMOTE"].path \in Paths => path = pane["REMOTE"].path)
      BY <1>2, <3>1, BrowserAssumption DEF Pick, Panes, Folder, Machines
    <3>3. /\ pane' = [panes EXCEPT !["REMOTE"].path = path]
          /\ Post(Task("list", "REMOTE", path, {}, {}))
      BY <2>2 DEF FetchRemote
    <3>4. panes["REMOTE"].listing.names # {} => path = panes["REMOTE"].path
      BY <1>2, <3>1, BrowserAssumption DEF Pick, Placed, Machines
    <3> HIDE DEF path
    <3>5. /\ pane' \in [Machines -> Panes]
          /\ pane'["REMOTE"].path = path
          /\ pane'["REMOTE"].listing = panes["REMOTE"].listing
          /\ \A m \in Machines \ {"REMOTE"} : pane'[m] = panes[m]
      BY <1>2, <3>1, <3>2, <3>3 DEF Panes, Folder, Machines
    <3>6. /\ Task("list", "REMOTE", path, {}, {}) \in Tasks
          /\ Sound(Task("list", "REMOTE", path, {}, {}))
      BY <3>2, TaskType DEF Sound, Kinds, Machines, Folder
    <3>7. tasks' \in Seq(Tasks) /\ TasksInv'
      BY <1>1, <3>3, <3>6, PostKeeps
    <3>8. QED
      BY <1>2, <3>2, <3>4, <3>5, <3>7
  <2>3. CASE pane' = panes /\ UNCHANGED tasks
    BY <1>1, <1>2, <2>3, TasksStay DEF WorkTypes
  <2>4. QED
    BY <1>1, <2>1, <2>2, <2>3
<1>4. UITypes'
  BY <1>1, <1>3 DEF UITypes, busy
<1>5. WorkTypes'
  BY <1>1, <1>3, WorkTypesStay DEF WorkTypes
<1>6. RowsInv'
  BY <1>1, <1>3 DEF RowsInv, RowsAreOfTheFolder, Placed
<1>7. PromptInv'
  BY <1>1, <1>3 DEF PromptInv, UITypes
<1>8. SelectionIsWhatWasMarked'
  BY <1>1, SelectionStays
<1>9. QED
  BY <1>3, <1>4, <1>5, <1>6, <1>7, <1>8

----------------------------------------------------------------------------
LEMMA ClearKeeps == Inv /\ Clear => Inv'
<1> SUFFICES ASSUME Inv, Clear PROVE Inv'
  OBVIOUS
<1> USE DEF Inv
<1>1. /\ uiPc = "clear" /\ pane' = [pane EXCEPT ![machine].needsFetch = FALSE]
      /\ UNCHANGED <<screen, machine, selection, prompt, wasBusy, listing, tasks, task, got, server,
                     connects, wanted, disk>>
  BY DEF Clear, session, queue
<1>2. /\ pane' \in [Machines -> Panes]
      /\ \A m \in Machines : pane'[m].path = pane[m].path /\ pane'[m].listing = pane[m].listing
  BY <1>1 DEF UITypes, Panes
<1>3. UITypes' /\ WorkTypes'
  BY <1>1, <1>2, WorkTypesStay DEF UITypes, WorkTypes
<1>4. TasksInv' /\ SelectionIsWhatWasMarked'
  BY <1>1, TasksStay, SelectionStays
<1>5. RowsInv'
  BY <1>1, <1>2 DEF RowsInv, RowsAreOfTheFolder, Placed
<1>6. PromptInv'
  BY <1>1, <1>2 DEF PromptInv, UITypes
<1>7. QED
  BY <1>3, <1>4, <1>5, <1>6

(* The keys of the explorer that change no folder and no name.             *)
LEMMA QuietKeysKeep == Inv /\ (NoKey \/ OpenMenu \/ CloseMenu \/ No) => Inv'
<1> SUFFICES ASSUME Inv, NoKey \/ OpenMenu \/ CloseMenu \/ No PROVE Inv'
  OBVIOUS
<1> USE DEF Inv
<1>1. /\ uiPc' = "frame" /\ prompt' \in {prompt, NoPrompt}
      /\ UNCHANGED <<screen, machine, pane, selection, wasBusy, listing, tasks, task, got, server,
                     connects, wanted, disk>>
  BY DEF NoKey, OpenMenu, CloseMenu, No, EndFrame, Others, explorer, queue
<1>2. UITypes' /\ WorkTypes'
  BY <1>1, UITypesStay, WorkTypesStay DEF WorkTypes
<1>3. TasksInv' /\ RowsInv' /\ SelectionIsWhatWasMarked'
  BY <1>1, TasksStay, RowsStay, SelectionStays
<1>4. PromptInv'
  BY <1>1, Blanks DEF PromptInv
<1>5. QED
  BY <1>2, <1>3, <1>4

LEMMA ExplorerKeysKeep == Inv /\ (SwitchSide \/ MoveCursor \/ NavigateTo) => Inv'
<1> SUFFICES ASSUME Inv, SwitchSide \/ MoveCursor \/ NavigateTo PROVE Inv'
  OBVIOUS
<1> USE DEF Inv
<1>1. /\ uiPc' = "frame" /\ prompt.kind = "none"
      /\ UNCHANGED <<screen, selection, prompt, wasBusy, listing, tasks, task, got, server, connects,
                     wanted, disk>>
  BY DEF SwitchSide, MoveCursor, NavigateTo, HasKeys, EndFrame, Others, queue
<1>2. /\ machine' \in Machines /\ pane' \in [Machines -> Panes]
      /\ \A m \in Machines :
           /\ Placed(pane'[m].listing)
           /\ pane'[m].listing.names # {} => pane'[m].listing.path = pane'[m].path
  <2>1. CASE SwitchSide
    BY <2>1 DEF SwitchSide, Machines, UITypes, RowsInv, RowsAreOfTheFolder
  <2>2. CASE MoveCursor
    <3>1. PICK row \in RowsOf(Here) : pane' = [pane EXCEPT ![machine].cursor = row]
      BY <2>2 DEF MoveCursor
    <3>2. row \in Rows
      BY RowsAreRows DEF Here, UITypes
    <3>3. /\ pane' \in [Machines -> Panes]
          /\ \A m \in Machines : pane'[m].path = pane[m].path /\ pane'[m].listing = pane[m].listing
      BY <3>1, <3>2 DEF UITypes, Panes
    <3>4. machine' = machine
      BY <2>2 DEF MoveCursor
    <3>5. QED
      BY <3>3, <3>4 DEF UITypes, RowsInv, RowsAreOfTheFolder
  <2>3. CASE NavigateTo
    <3>1. PICK path \in Paths \ {Here.path} :
            pane' = [pane EXCEPT ![machine] =
                      AtTop([@ EXCEPT !.path = path, !.listing = NoListing, !.needsFetch = TRUE])]
      BY <2>3 DEF NavigateTo
    <3> DEFINE q == [pane[machine] EXCEPT !.path = path, !.listing = NoListing,
                                          !.needsFetch = TRUE]
    <3>2. q \in Panes /\ q.listing = NoListing
      BY Blanks DEF UITypes, Panes, Folder
    <3>3. pane' = [pane EXCEPT ![machine] = AtTop(q)]
      BY <3>1
    <3> HIDE DEF q
    <3>4. AtTop(q) \in Panes /\ AtTop(q).listing = NoListing
      BY <3>2, Topped
    <3>5. /\ pane' \in [Machines -> Panes] /\ pane'[machine] = AtTop(q)
          /\ \A m \in Machines \ {machine} : pane'[m] = pane[m]
      BY <3>3, <3>4 DEF UITypes
    <3>6. machine' = machine
      BY <2>3 DEF NavigateTo
    <3>7. QED
      BY <3>4, <3>5, <3>6, Blanks DEF UITypes, RowsInv, RowsAreOfTheFolder
  <2>4. QED
    BY <2>1, <2>2, <2>3
<1>3. UITypes' /\ WorkTypes'
  BY <1>1, <1>2, WorkTypesStay DEF UITypes, WorkTypes
<1>4. TasksInv' /\ SelectionIsWhatWasMarked'
  BY <1>1, TasksStay, SelectionStays
<1>5. RowsInv'
  BY <1>1, <1>2 DEF RowsInv, RowsAreOfTheFolder, Placed
<1>6. PromptInv'
  BY <1>1 DEF PromptInv
<1>7. QED
  BY <1>2, <1>3, <1>4, <1>5, <1>6

(* A row that can be marked is in a folder. *)
LEMMA MarkedInFolder ==
  ASSUME Inv, Here.cursor \in RowsOf(Here) \ {Parent}
  PROVE  /\ pane[machine].path \in Paths /\ Here.cursor \in Names
         /\ Entry(machine, Here.path, Here.cursor) \in Marks
<1> USE DEF Inv
<1>1. Here = pane[machine] /\ Here \in Panes
  BY DEF Here, UITypes
<1>2. Here.cursor \in Here.listing.names
  BY DEF RowsOf
<1>3. Here.cursor \in Names /\ Here.path \in Folder
  BY <1>1, RowsAreRows DEF Panes
<1>4. Here.path \in Paths
  BY <1>1, <1>2 DEF UITypes, RowsInv, RowsAreOfTheFolder, Placed
<1>5. QED
  BY <1>1, <1>3, <1>4, EntryType DEF UITypes

LEMMA PressSelectKeeps == Inv /\ PressSelect => Inv'
<1> SUFFICES ASSUME Inv, PressSelect PROVE Inv'
  OBVIOUS
<1> USE DEF Inv
<1> DEFINE e == Entry(machine, Here.path, Here.cursor)
<1>1. /\ uiPc' = "frame" /\ prompt.kind = "none" /\ screen' = screen /\ uiPc = "keys"
      /\ UNCHANGED <<machine, pane, wasBusy, listing, tasks, task, got, server, connects, wanted,
                     disk>>
  BY DEF PressSelect, HasKeys, EndFrame, Others, queue
<1>2. /\ pane[machine].path \in Paths /\ Here.cursor \in Names /\ e \in Marks
  BY MarkedInFolder DEF PressSelect
<1>3. e.machine = machine /\ e.dir = pane[machine].path /\ e.name = Here.cursor
  BY EntryType DEF Here
<1>4. /\ selection' \in [machine : Machines, dir : Folder, marks : SUBSET Marks]
      /\ SelectionIsWhatWasMarked'
      /\ prompt' \in Prompts
      /\ PromptInv'
  <2>1. CASE InFolder(machine, Here.path)
    <3>1. prompt' = prompt
      BY <2>1 DEF PressSelect
    <3>2. CASE \E m \in selection.marks : m.name = e.name
      <4>1. selection' = [selection EXCEPT !.marks = {m \in @ : m.name # e.name}]
        BY <2>1, <3>2 DEF PressSelect
      <4>2. /\ selection'.marks \subseteq selection.marks
            /\ selection'.machine = selection.machine /\ selection'.dir = selection.dir
            /\ selection' \in [machine : Machines, dir : Folder, marks : SUBSET Marks]
        BY <4>1 DEF UITypes
      <4>3. QED
        BY <1>1, <3>1, <4>2, PromptStays DEF SelectionIsWhatWasMarked, UITypes
    <3>3. CASE ~ \E m \in selection.marks : m.name = e.name
      <4> HIDE DEF e
      <4>1. selection' = [machine |-> machine, dir |-> Here.path, marks |-> selection.marks \cup {e}]
        BY <2>1, <3>3 DEF PressSelect, e
      <4>2. selection' \in [machine : Machines, dir : Folder, marks : SUBSET Marks]
        BY <1>2, <4>1 DEF UITypes, Here, Folder
      <4>3. \A m \in selection.marks : m.machine = machine /\ m.dir = Here.path
        BY <2>1 DEF InFolder, Holds, SelectionIsWhatWasMarked
      <4>4. SelectionIsWhatWasMarked'
        BY <1>3, <4>1, <4>3 DEF SelectionIsWhatWasMarked, Here
      <4>5. QED
        BY <1>1, <3>1, <4>2, <4>4, PromptStays DEF UITypes
    <3>4. QED
      BY <3>2, <3>3
  <2>2. CASE ~InFolder(machine, Here.path)
    <3> HIDE DEF e
    <3>1. /\ prompt' = [kind |-> "reselect", dir |-> NoPath, names |-> {e.name}, shown |-> {e}]
          /\ selection' = selection
      BY <2>2 DEF PressSelect, e
    <3>2. prompt' \in Prompts
      BY <1>2, <1>3, <3>1 DEF Prompts, Folder, Rows, Marks, Entries
    <3>3. screen # "connect"
      BY <1>1 DEF PromptInv
    <3>4. PromptInv'
      BY <1>1, <1>2, <1>3, <3>1, <3>3 DEF PromptInv
    <3>5. QED
      BY <3>1, <3>2, <3>4, SelectionStays DEF UITypes
  <2>3. QED
    BY <2>1, <2>2
<1>5. UITypes' /\ WorkTypes'
  BY <1>1, <1>4, WorkTypesStay DEF UITypes, WorkTypes
<1>6. TasksInv' /\ RowsInv'
  BY <1>1, TasksStay, RowsStay
<1>7. QED
  BY <1>4, <1>5, <1>6

(* needsFetch is all that refreshLater() and an operation write of a pane. *)
LEMMA FlagKeeps ==
  ASSUME Inv, NEW m \in Machines, pane' = [pane EXCEPT ![m].needsFetch = TRUE],
         UNCHANGED <<screen, machine, prompt>>, uiPc' \in {uiPc, "frame"},
         Placed(listing'), Placed(got')
  PROVE  pane' \in [Machines -> Panes] /\ RowsInv' /\ PromptInv'
<1> USE DEF Inv
<1>1. /\ pane' \in [Machines -> Panes]
      /\ \A n \in Machines : pane'[n].path = pane[n].path /\ pane'[n].listing = pane[n].listing
  BY DEF UITypes, Panes
<1>2. RowsInv'
  BY <1>1 DEF RowsInv, RowsAreOfTheFolder, Placed
<1>3. PromptInv'
  BY <1>1 DEF PromptInv, UITypes
<1>4. QED
  BY <1>1, <1>2, <1>3

LEMMA NewFolderKeeps == Inv /\ NewFolder => Inv'
<1> SUFFICES ASSUME Inv, NewFolder PROVE Inv'
  OBVIOUS
<1> USE DEF Inv
<1>1. PICK n \in Names : Post(Task("make", machine, Here.path, {n}, {}))
  BY DEF NewFolder
<1>2. /\ uiPc' = "frame"
      /\ UNCHANGED <<screen, machine, pane, selection, prompt, wasBusy, listing, task, got, server,
                     connects, wanted, disk>>
  BY DEF NewFolder, EndFrame, Others, explorer, queue
<1> DEFINE t == Task("make", machine, Here.path, {n}, {})
<1>3. Here.path \in Folder /\ {n} \in SUBSET Rows
  BY DEF Here, UITypes, Panes, Rows
<1>4. t \in Tasks /\ t.kind = "make" /\ t.names = {n}
  BY <1>3, TaskType DEF UITypes, Kinds
<1>5. Sound(t)
  BY <1>4 DEF Sound
<1>6. tasks' \in Seq(Tasks) /\ TasksInv'
  BY <1>1, <1>2, <1>4, <1>5, PostKeeps
<1>7. UITypes' /\ WorkTypes'
  BY <1>2, <1>6, UITypesStay, WorkTypesStay DEF WorkTypes
<1>8. RowsInv' /\ PromptInv' /\ SelectionIsWhatWasMarked'
  BY <1>2, RowsStay, PromptStays, SelectionStays
<1>9. QED
  BY <1>6, <1>7, <1>8

(* The question of a deletion names what its callback will delete.         *)
LEMMA AskDeleteKeeps == Inv /\ AskDelete => Inv'
<1> SUFFICES ASSUME Inv, AskDelete PROVE Inv'
  OBVIOUS
<1> USE DEF Inv
<1>1. /\ uiPc' = "frame" /\ uiPc = "keys"
      /\ UNCHANGED <<screen, machine, pane, selection, wasBusy, listing, tasks, task, got, server,
                     connects, wanted, disk>>
  BY DEF AskDelete, MenuHasKeys, EndFrame, Others, explorer, queue
<1>2. /\ prompt' \in Prompts /\ prompt'.kind \in {"delete", "deleteSelected"}
      /\ prompt'.shown = {Entry(machine, prompt'.dir, n) : n \in prompt'.names}
  <2>1. CASE /\ Here.cursor \in RowsOf(Here)
             /\ prompt' = [kind |-> "delete", dir |-> Here.path, names |-> {Here.cursor},
                           shown |-> {Entry(machine, Here.path, Here.cursor)}]
    <3>1. Here \in Panes
      BY DEF Here, UITypes
    <3>2. Here.cursor \in Rows /\ Here.path \in Folder
      BY <2>1, <3>1, RowsAreRows DEF Panes
    <3>3. Entry(machine, Here.path, Here.cursor) \in Entries
      BY <3>2, EntryType DEF UITypes
    <3>4. QED
      BY <2>1, <3>2, <3>3 DEF Prompts
  <2>2. CASE prompt' = [kind |-> "deleteSelected", dir |-> selection.dir,
                        names |-> {m.name : m \in selection.marks},
                        shown |-> {Entry(machine, selection.dir, m.name) : m \in selection.marks}]
    <3>1. \A m \in selection.marks : m.name \in Rows
      BY DEF UITypes, Marks, Rows
    <3>2. \A m \in selection.marks : Entry(machine, selection.dir, m.name) \in Entries
      BY <3>1, EntryType DEF UITypes
    <3>3. prompt' \in Prompts
      BY <2>2, <3>1, <3>2 DEF UITypes, Prompts
    <3>4. {Entry(machine, selection.dir, m.name) : m \in selection.marks}
            = {Entry(machine, selection.dir, n) : n \in {m.name : m \in selection.marks}}
      OBVIOUS
    <3>5. QED
      BY <2>2, <3>3, <3>4
  <2>3. QED
    BY <2>1, <2>2 DEF AskDelete
<1>3. UITypes' /\ WorkTypes'
  BY <1>1, <1>2, WorkTypesStay DEF UITypes, WorkTypes
<1>4. TasksInv' /\ RowsInv' /\ SelectionIsWhatWasMarked'
  BY <1>1, TasksStay, RowsStay, SelectionStays
<1>5. PromptInv'
  BY <1>1, <1>2 DEF PromptInv
<1>6. QED
  BY <1>3, <1>4, <1>5

LEMMA QueueSelectionKeeps ==
  ASSUME Inv, QueueSelection, prompt' \in {prompt, NoPrompt}, uiPc' = "frame",
         UNCHANGED <<machine, Others>>
  PROVE  Inv'
<1> USE DEF Inv
<1>1. /\ pane' = [pane EXCEPT ![machine].needsFetch = TRUE] /\ selection' = NoSelection
      /\ UNCHANGED tasks \/ Post(Plain("drain"))
      /\ wanted' = Append(wanted, [source  |-> selection.machine, from |-> selection.dir,
                                   machine |-> machine, dir |-> Here.path,
                                   names   |-> {m.name : m \in selection.marks}])
      /\ UNCHANGED <<screen, wasBusy, listing, task, got, server, connects, disk>>
  BY DEF QueueSelection, Others
<1>2. wanted' \in Seq(Requests)
  <2>1. {m.name : m \in selection.marks} \subseteq Names
    BY DEF UITypes, Marks
  <2>2. Here.path \in Folder
    BY DEF Here, UITypes, Panes
  <2>3. [source  |-> selection.machine, from |-> selection.dir, machine |-> machine,
         dir |-> Here.path, names |-> {m.name : m \in selection.marks}] \in Requests
    BY <2>1, <2>2 DEF UITypes, Requests
  <2>4. QED
    BY <1>1, <2>3 DEF WorkTypes
<1>3. tasks' \in Seq(Tasks) /\ TasksInv'
  BY <1>1, PostKeeps, TasksStay, PlainTask DEF WorkTypes
<1>4. pane' \in [Machines -> Panes] /\ RowsInv' /\ SelectionIsWhatWasMarked'
  <2>1. machine \in Machines
    BY DEF UITypes
  <2>2. \A n \in Machines : pane'[n].path = pane[n].path /\ pane'[n].listing = pane[n].listing
    BY <1>1, <2>1 DEF UITypes, Panes
  <2>3. pane' \in [Machines -> Panes]
    BY <1>1, <2>1 DEF UITypes, Panes
  <2>4. RowsInv'
    BY <1>1, <2>2 DEF RowsInv, RowsAreOfTheFolder, Placed
  <2>5. QED
    BY <1>1, <2>3, <2>4, SelectionStays
<1>5. PromptInv'
  <2>1. CASE prompt' = prompt
    BY <1>1, <2>1, FlagKeeps DEF UITypes, RowsInv, Placed
  <2>2. CASE prompt' = NoPrompt
    BY <2>2, Blanks DEF PromptInv
  <2>3. QED
    BY <2>1, <2>2
<1>6. UITypes'
  BY <1>1, <1>4, Blanks DEF UITypes
<1>7. WorkTypes'
  BY <1>1, <1>2, <1>3, WorkTypesStay
<1>8. QED
  BY <1>3, <1>4, <1>5, <1>6, <1>7

LEMMA TransferKeeps == Inv /\ Transfer => Inv'
<1> SUFFICES ASSUME Inv, Transfer PROVE Inv'
  OBVIOUS
<1> USE DEF Inv
<1>1. uiPc' = "frame" /\ uiPc = "keys" /\ UNCHANGED <<machine, Others>>
  BY DEF Transfer, MenuHasKeys, EndFrame
<1>2. CASE QueueSelection /\ UNCHANGED prompt
  BY <1>1, <1>2, QueueSelectionKeeps
<1>3. CASE /\ prompt' = [NoPrompt EXCEPT !.kind = "overwrite"]
           /\ UNCHANGED <<pane, selection, tasks, queue, ops>>
  <2>1. prompt' \in Prompts /\ prompt'.kind = "overwrite"
    BY <1>3, Blanks DEF Prompts
  <2>2. UITypes' /\ WorkTypes'
    BY <1>1, <1>3, <2>1, WorkTypesStay DEF UITypes, WorkTypes, Others, queue
  <2>3. TasksInv' /\ RowsInv' /\ SelectionIsWhatWasMarked'
    BY <1>1, <1>3, TasksStay, RowsStay, SelectionStays DEF Others
  <2>4. PromptInv'
    BY <1>1, <2>1 DEF PromptInv, Others
  <2>5. QED
    BY <2>2, <2>3, <2>4
<1>4. QED
  BY <1>2, <1>3 DEF Transfer

LEMMA YesKeeps == Inv /\ Yes => Inv'
<1> SUFFICES ASSUME Inv, Yes PROVE Inv'
  OBVIOUS
<1> USE DEF Inv
<1>1. /\ uiPc' = "frame" /\ prompt' = NoPrompt /\ UNCHANGED <<machine, Others>>
  BY DEF Yes, EndFrame
<1>2. PromptInv'
  BY <1>1, Blanks DEF PromptInv
<1>3. CASE /\ prompt.kind = "reselect"
           /\ selection' = [machine |-> machine, dir |-> Here.path, marks |-> Reselected]
           /\ UNCHANGED <<pane, tasks, queue, ops>>
  <2>1. /\ pane[machine].path \in Paths /\ prompt.shown \subseteq Marks
        /\ \A e \in prompt.shown : e.machine = machine /\ e.dir = pane[machine].path
    BY <1>3 DEF PromptInv
  <2>2. selection' \in [machine : Machines, dir : Folder, marks : SUBSET Marks]
    BY <1>3, <2>1 DEF UITypes, Here, Reselected, Folder
  <2>3. SelectionIsWhatWasMarked'
    BY <1>3, <2>1 DEF SelectionIsWhatWasMarked, Here, Reselected
  <2>4. UITypes' /\ WorkTypes'
    BY <1>1, <1>3, <2>2, Blanks, WorkTypesStay DEF UITypes, WorkTypes, Others, queue
  <2>5. TasksInv' /\ RowsInv'
    BY <1>1, <1>3, TasksStay, RowsStay DEF Others
  <2>6. QED
    BY <1>2, <2>3, <2>4, <2>5
<1>4. CASE /\ prompt.kind \in {"delete", "deleteSelected"}
           /\ Post(Task("delete", machine, prompt.dir, prompt.names, prompt.shown))
           /\ selection' \in {selection, NoSelection}
           /\ UNCHANGED <<pane, queue>>
  <2> DEFINE t == Task("delete", machine, prompt.dir, prompt.names, prompt.shown)
  <2>1. /\ t \in Tasks /\ t.kind = "delete" /\ t.machine = machine /\ t.dir = prompt.dir
        /\ t.names = prompt.names /\ t.shown = prompt.shown
    BY TaskType DEF UITypes, Prompts, Kinds
  <2>2. Sound(t)
    BY <1>4, <2>1 DEF Sound, Named, PromptInv
  <2> HIDE DEF t
  <2>3. tasks' \in Seq(Tasks) /\ TasksInv'
    BY <1>1, <1>4, <2>1, <2>2, PostKeeps DEF t, Others
  <2>4. UITypes' /\ WorkTypes'
    BY <1>1, <1>4, <2>3, UITypesStay, WorkTypesStay DEF WorkTypes, Others, queue
  <2>5. RowsInv' /\ SelectionIsWhatWasMarked'
    BY <1>1, <1>4, RowsStay, SelectionStays DEF Others
  <2>6. QED
    BY <1>2, <2>3, <2>4, <2>5
<1>5. CASE QueueSelection
  BY <1>1, <1>5, QueueSelectionKeeps
<1>6. QED
  BY <1>3, <1>4, <1>5 DEF Yes

----------------------------------------------------------------------------
(* The worker. *)

LEMMA TakeKeeps == Inv /\ Take => Inv'
<1> SUFFICES ASSUME Inv, Take PROVE Inv'
  OBVIOUS
<1> USE DEF Inv
<1>1. /\ tasks # << >> /\ task' = Head(tasks) /\ tasks' = Tail(tasks)
      /\ UNCHANGED <<screen, machine, pane, selection, prompt, uiPc, wasBusy, listing, got, server,
                     connects, wanted, disk>>
  BY DEF Take, Worker, queue
<1>2. task' \in Tasks /\ tasks' \in Seq(Tasks)
  BY <1>1 DEF WorkTypes
<1>3. TasksInv'
  <2>1. task' = tasks[1] /\ 1 \in 1..Len(tasks)
    BY <1>1 DEF WorkTypes
  <2>2. Len(tasks') = Len(tasks) - 1
    BY <1>1 DEF WorkTypes
  <2>3. \A i \in 1..Len(tasks') : i + 1 \in 1..Len(tasks) /\ tasks'[i] = tasks[i + 1]
    BY <1>1, <2>2 DEF WorkTypes
  <2>4. \A i \in 1..Len(tasks') : Sound(tasks'[i])
    BY <2>3 DEF TasksInv
  <2>5. Sound(task')
    BY <2>1 DEF TasksInv
  <2>6. QED
    BY <2>4, <2>5 DEF TasksInv, Sound, Named
<1>4. UITypes' /\ WorkTypes'
  BY <1>1, <1>2, UITypesStay DEF WorkTypes
<1>5. RowsInv' /\ PromptInv' /\ SelectionIsWhatWasMarked'
  BY <1>1, RowsStay, PromptStays, SelectionStays
<1>6. QED
  BY <1>3, <1>4, <1>5

LEMMA RunKeeps == Inv /\ Run => Inv'
<1> SUFFICES ASSUME Inv, Run PROVE Inv'
  OBVIOUS
<1> USE DEF Inv
<1>1. UNCHANGED <<screen, machine, pane, selection, prompt, uiPc, wasBusy, listing, tasks, task,
                  connects>>
  BY DEF Run, Worker
<1>2. /\ server' \in 0..MaxConnects /\ wanted' \in Seq(Requests)
      /\ got' \in Listings /\ Placed(got')
      /\ disk' \in [Machines -> [Paths -> SUBSET Names]]
  <2>1. CASE /\ task.kind \in {"connect", "disconnect"} /\ server' \in {0, task.number}
             /\ UNCHANGED <<got, queue, disk>>
    <3>1. server' \in 0..MaxConnects
      BY <2>1, BrowserAssumption DEF WorkTypes, Tasks
    <3>2. QED
      BY <2>1, <3>1 DEF WorkTypes, RowsInv, Placed, queue
  <2>2. CASE /\ task.kind = "list" /\ UNCHANGED <<server, queue, disk>>
             /\ \E ok \in {FALSE, server # 0} :
                   got' = [path |-> task.dir, of |-> server, ok |-> ok,
                           names |-> IF ok THEN disk["REMOTE"][task.dir] ELSE {}]
    <3>1. PICK ok \in {FALSE, server # 0} :
                   got' = [path |-> task.dir, of |-> server, ok |-> ok,
                           names |-> IF ok THEN disk["REMOTE"][task.dir] ELSE {}]
      BY <2>2
    <3>2. task.dir \in Paths
      BY <2>2 DEF TasksInv, Sound
    <3>3. disk["REMOTE"][task.dir] \in SUBSET Names
      BY <3>2 DEF WorkTypes, Machines
    <3>4. (IF ok THEN disk["REMOTE"][task.dir] ELSE {}) \in SUBSET Names
      BY <3>3
    <3>5. ok \in BOOLEAN
      OBVIOUS
    <3>6. got' \in Listings
      BY <3>1, <3>2, <3>4, <3>5 DEF Listings, Folder, WorkTypes
    <3>7. QED
      BY <2>2, <3>1, <3>2, <3>6 DEF Placed, WorkTypes, queue
  <2>3. CASE /\ task.kind \in {"delete", "make"} /\ UNCHANGED <<got, server, queue>>
             /\ \E ns \in SUBSET task.names :
                   disk' = [disk EXCEPT ![task.machine][task.dir] =
                              IF task.kind = "make" THEN @ \cup ns ELSE @ \ ns]
    <3>1. PICK ns \in SUBSET task.names :
                   disk' = [disk EXCEPT ![task.machine][task.dir] =
                              IF task.kind = "make" THEN @ \cup ns ELSE @ \ ns]
      BY <2>3
    <3>2. task.machine \in Machines /\ (task.kind = "make" => ns \subseteq Names)
      BY DEF WorkTypes, Tasks, TasksInv, Sound
    <3>3. disk' \in [Machines -> [Paths -> SUBSET Names]]
      <4>1. CASE task.kind = "make"
        BY <3>1, <3>2, <4>1 DEF WorkTypes
      <4>2. CASE task.kind # "make"
        BY <3>1, <3>2, <4>2 DEF WorkTypes
      <4>3. QED
        BY <4>1, <4>2
    <3>4. QED
      BY <2>3, <3>3 DEF WorkTypes, RowsInv, Placed, queue
  <2>4. CASE /\ task.kind = "drain" /\ wanted # << >> /\ wanted' = Tail(wanted)
             /\ UNCHANGED <<got, server>>
             /\ LET r == Head(wanted)
                IN  \E ns \in SUBSET (r.names \cap disk[r.source][r.from]) :
                       disk' = [disk EXCEPT ![r.machine][r.dir] = @ \cup ns]
    <3> DEFINE r == Head(wanted)
    <3>1. r \in Requests /\ wanted' \in Seq(Requests)
      BY <2>4 DEF WorkTypes
    <3>2. PICK ns \in SUBSET (r.names \cap disk[r.source][r.from]) :
                       disk' = [disk EXCEPT ![r.machine][r.dir] = @ \cup ns]
      BY <2>4
    <3>3. ns \subseteq Names
      BY <3>1, <3>2 DEF Requests
    <3> HIDE DEF r
    <3>4. disk' \in [Machines -> [Paths -> SUBSET Names]]
      BY <3>1, <3>2, <3>3 DEF WorkTypes, Requests
    <3>5. QED
      BY <2>4, <3>1, <3>4 DEF WorkTypes, RowsInv, Placed
  <2>5. CASE UNCHANGED <<got, server, wanted, disk>>
    BY <2>5 DEF WorkTypes, RowsInv, Placed
  <2>6. QED
    BY <2>1, <2>2, <2>3, <2>4, <2>5 DEF Run
<1>3. UITypes'
  BY <1>1, UITypesStay
<1>4. WorkTypes'
  BY <1>1, <1>2 DEF WorkTypes
<1>5. TasksInv' /\ PromptInv' /\ SelectionIsWhatWasMarked'
  BY <1>1, TasksStay, PromptStays, SelectionStays
<1>6. RowsInv'
  BY <1>1, <1>2 DEF RowsInv, RowsAreOfTheFolder, Placed
<1>7. QED
  BY <1>3, <1>4, <1>5, <1>6

LEMMA PublishKeeps == Inv /\ Publish => Inv'
<1> SUFFICES ASSUME Inv, Publish PROVE Inv'
  OBVIOUS
<1> USE DEF Inv
<1>1. /\ listing' \in {listing, NoListing, got}
      /\ pane' = pane \/ RefreshLater(task.machine)
      /\ UNCHANGED <<screen, machine, selection, prompt, uiPc, wasBusy, tasks, task, got, server,
                     connects, wanted, disk>>
  BY DEF Publish, Worker, queue
<1>2. listing' \in Listings /\ Placed(listing') /\ Placed(got')
  BY <1>1, Blanks DEF WorkTypes, RowsInv, Placed
<1>3. pane' \in [Machines -> Panes] /\ RowsInv' /\ PromptInv'
  <2>1. CASE pane' = pane
    BY <1>1, <1>2, <2>1, PromptStays DEF UITypes, RowsInv, RowsAreOfTheFolder, Placed
  <2>2. CASE RefreshLater(task.machine)
    <3>1. task.machine \in Machines
      BY DEF WorkTypes, Tasks
    <3>2. QED
      BY <1>1, <1>2, <2>2, <3>1, FlagKeeps DEF RefreshLater
  <2>3. QED
    BY <1>1, <2>1, <2>2
<1>4. UITypes' /\ WorkTypes'
  BY <1>1, <1>2, <1>3 DEF UITypes, WorkTypes
<1>5. TasksInv' /\ SelectionIsWhatWasMarked'
  BY <1>1, TasksStay, SelectionStays
<1>6. QED
  BY <1>3, <1>4, <1>5

LEMMA AfterKeeps == Inv /\ (After \/ LinkDrops) => Inv'
<1> SUFFICES ASSUME Inv, After \/ LinkDrops PROVE Inv'
  OBVIOUS
<1> USE DEF Inv
<1>1. /\ listing' \in {listing, NoListing} /\ got' \in {got, NoListing}
      /\ task' \in {task, Plain("other")} /\ server' \in {server, 0}
      /\ UNCHANGED <<screen, machine, pane, selection, prompt, uiPc, wasBusy, tasks, connects,
                     wanted, disk>>
  BY DEF After, LinkDrops, Worker, queue
<1>2. UITypes'
  BY <1>1, UITypesStay
<1>3. WorkTypes'
  BY <1>1, Blanks, PlainTask, BrowserAssumption DEF WorkTypes
<1>4. TasksInv'
  <2>1. Sound(task')
    BY <1>1, PlainTask DEF TasksInv
  <2>2. \A i \in 1..Len(tasks') : Sound(tasks'[i])
    BY <1>1 DEF TasksInv
  <2>3. QED
    BY <2>1, <2>2 DEF TasksInv, Sound, Named
<1>5. RowsInv'
  BY <1>1, Blanks DEF RowsInv, RowsAreOfTheFolder, Placed
<1>6. PromptInv' /\ SelectionIsWhatWasMarked'
  BY <1>1, PromptStays, SelectionStays
<1>7. QED
  BY <1>2, <1>3, <1>4, <1>5, <1>6

----------------------------------------------------------------------------

LEMMA StutterKeeps == Inv /\ UNCHANGED vars => Inv'
<1> SUFFICES ASSUME Inv, UNCHANGED vars PROVE Inv'
  OBVIOUS
<1> USE DEF Inv
<1>1. UNCHANGED <<screen, machine, pane, selection, prompt, uiPc, wasBusy, listing, tasks, task, got,
                  server, connects, wanted, disk>>
  BY DEF vars, explorer, session, queue
<1>2. UITypes' /\ WorkTypes'
  BY <1>1, UITypesStay, WorkTypesStay DEF WorkTypes
<1>3. TasksInv' /\ RowsInv' /\ PromptInv' /\ SelectionIsWhatWasMarked'
  BY <1>1, TasksStay, RowsStay, PromptStays, SelectionStays
<1>4. QED
  BY <1>2, <1>3

LEMMA StepInv == Inv /\ [Next]_vars => Inv'
  BY ConnectKeeps, OutsideKeeps, DrawKeeps, ClearKeeps, QuietKeysKeep, ExplorerKeysKeep,
     PressSelectKeeps, NewFolderKeeps, AskDeleteKeeps, TransferKeeps, YesKeeps, TakeKeeps, RunKeeps,
     PublishKeeps, AfterKeeps, StutterKeeps
  DEF Next, UI

(* The inductive invariant of the explorer: the types, what its tasks      *)
(* promise, where rows come from and what a prompt was asked about.        *)
THEOREM ExplorerInvariance == Spec => []Inv
<1>1. QED
  BY InitInv, StepInv, PTL DEF Spec

(* screenBrowser.cpp compares the path of a listing with the pane's: the   *)
(* rows of a pane are never of another folder than the one it shows.       *)
THEOREM RowsAreAlwaysOfTheFolder == Spec => []RowsAreOfTheFolder
<1>1. Inv => RowsAreOfTheFolder
  BY DEF Inv, RowsInv
<1>2. QED
  BY <1>1, ExplorerInvariance, PTL

(* screenActions.cpp: a deletion that is queued is of what its prompt      *)
(* named, on the side where it was asked.                                  *)
THEOREM OnlyTheNamedIsDeleted == Spec => []DeletesWhatWasNamed
<1>1. Inv => DeletesWhatWasNamed
  BY DEF Inv, TasksInv, Sound, Named, DeletesWhatWasNamed
<1>2. QED
  BY <1>1, ExplorerInvariance, PTL

(* screenBrowser.h: the selection is always of one directory on one        *)
(* machine, the one its names were marked in.                              *)
THEOREM SelectionIsOfOneFolder == Spec => []SelectionIsWhatWasMarked
<1>1. Inv => SelectionIsWhatWasMarked
  BY DEF Inv
<1>2. QED
  BY <1>1, ExplorerInvariance, PTL

----------------------------------------------------------------------------
(* The order of the tasks.  Queue is the task that the worker has, until   *)
(* it has ended, and those that wait: a task is taken without a change of  *)
(* Queue, and every step leaves it, appends one task or drops the first.   *)

Queue   == (IF wpc \in {"run", "publish"} THEN <<task>> ELSE << >>) \o tasks
At(k)   == {i \in 1..Len(Queue) : Queue[i].kind = k}
Remote  == pane["REMOTE"]

(* A connect() that is under way is the only one, and what was read before *)
(* it is forgotten by a disconnect that comes first.                       *)
Ordered ==
    /\ \A i, j \in At("connect") : i = j
    /\ At("connect") # {} => screen = "connect" /\ state # "CONNECTED"
    /\ \A i \in At("list"), j \in At("connect") : i < j =>
          \E k \in At("disconnect") : i < k /\ k < j
    /\ listing.of # 0 => \A j \in At("connect") : \E k \in At("disconnect") : k < j
    /\ screen = "connect" => \A i \in At("list") : \E k \in At("disconnect") : i < k

OfTheServer ==
    server # 0 => /\ got.of \in {0, server} /\ listing.of \in {0, server}
                  /\ Remote.listing.of \in {0, server}

(* What holds of the rows however many connects wait.                      *)
Origin ==
    /\ screen = "connect" => Remote.path = NoPath /\ Remote.listing.of = 0
    /\ wpc \in {"idle", "run"} => got.of = 0
    /\ \A l \in {got, listing, Remote.listing} : l.names # {} => l.of # 0

OriginInv == Origin /\ (~overlapped => Ordered /\ OfTheServer)

----------------------------------------------------------------------------
(* The server's side is read again.  A fetch posts its list and lowers     *)
(* needsFetch as two steps, and a worker that raises it in between is      *)
(* overruled: the list is then still behind in the queue.                  *)

Asked == uiPc = "clear" /\ machine = "REMOTE"
Fresh == Remote.path # NoPath /\ (~Remote.needsFetch \/ Asked)

UpToDate(l) == l.path = Remote.path /\ (l.ok => l.names = disk["REMOTE"][Remote.path])

Coming  == unseen /\ listing.path = Remote.path
Renewed == wasBusy \/ (wpc = "publish" /\ Operates(task, "REMOTE"))

Settled ==
    /\ screen = "browser" /\ state = "CONNECTED" /\ server # 0
    /\ At("connect") = {} /\ At("list") = {}

ListsInv ==
    /\ Fresh => \A i \in At("list") : \E j \in At("list") : i <= j /\ Queue[j].dir = Remote.path
    /\ Fresh => \A i \in At("connect") : \E j \in At("list") : i < j
    /\ Asked /\ Len(Queue) > 0 => Len(Queue) \in At("list")

BusyInv ==
    /\ uiPc # "frame" /\ wanted # << >> => wasBusy
    /\ \A i \in 1..Len(wanted) : wanted[i].machine = "REMOTE" => Remote.needsFetch \/ wasBusy

GotInv ==
    wpc = "publish" /\ task.kind = "list" =>
        got.path = task.dir /\ (got.ok => got.names = disk["REMOTE"][task.dir])

SettledInv ==
    Fresh /\ Settled =>
        /\ Asked => Coming /\ UpToDate(listing)
        /\ \/ Remote.needsFetch \/ Renewed
           \/ UpToDate(IF Coming THEN listing ELSE Remote.listing)

ReadInv == ListsInv /\ BusyInv /\ GotInv /\ SettledInv

LEMMA QueueType ==
  ASSUME WorkTypes
  PROVE  /\ Queue \in Seq(Tasks) /\ tasks \in Seq(Tasks)
         /\ \A k : At(k) \subseteq 1..Len(Queue)
         /\ \A k : \A i \in At(k) : i \in Nat /\ i >= 1 /\ Queue[i].kind = k
         /\ wpc \in {"run", "publish"} =>
              Queue = <<task>> \o tasks /\ Queue # << >> /\ Queue[1] = task
              /\ 1 \in At(task.kind) /\ Tail(Queue) = tasks
         /\ wpc \notin {"run", "publish"} => Queue = tasks
<1>1. Queue \in Seq(Tasks)
  BY DEF WorkTypes, Queue
<1>2. /\ \A k : At(k) \subseteq 1..Len(Queue)
      /\ \A k : \A i \in At(k) : i \in Nat /\ i >= 1 /\ Queue[i].kind = k
  BY <1>1 DEF At
<1>3. CASE wpc \in {"run", "publish"}
  <2>1. Queue = <<task>> \o tasks
    BY <1>3 DEF Queue
  <2>2. Queue # << >> /\ Queue[1] = task /\ Tail(Queue) = tasks /\ 1 \in 1..Len(Queue)
    BY <2>1 DEF WorkTypes
  <2>3. 1 \in At(task.kind)
    BY <2>2 DEF At
  <2>4. QED
    BY <1>1, <1>3, <1>2, <2>1, <2>2, <2>3 DEF WorkTypes
<1>4. CASE wpc \notin {"run", "publish"}
  <2>1. Queue = tasks
    BY <1>4 DEF Queue, WorkTypes
  <2>2. QED
    BY <1>1, <1>4, <1>2, <2>1 DEF WorkTypes
<1>5. QED
  BY <1>3, <1>4

LEMMA QueueStays ==
  ASSUME WorkTypes, UNCHANGED tasks,
         wpc \in {"run", "publish"} => wpc' \in {"run", "publish"} /\ task' = task,
         wpc \notin {"run", "publish"} => wpc' \notin {"run", "publish"}
  PROVE  Queue' = Queue /\ \A k : At(k)' = At(k)
<1>1. Queue' = Queue
  BY DEF Queue
<1>2. QED
  BY <1>1 DEF At

LEMMA QueueGrows ==
  ASSUME WorkTypes, NEW t \in Tasks, Post(t), UNCHANGED <<wpc, task>>
  PROVE  /\ Queue' = Append(Queue, t)
         /\ Len(Queue) \in Nat /\ Len(Queue') = Len(Queue) + 1
         /\ \A i \in 1..Len(Queue) : Queue'[i] = Queue[i]
         /\ Queue'[Len(Queue) + 1] = t
         /\ \A k : At(k)' = At(k) \cup (IF t.kind = k THEN {Len(Queue) + 1} ELSE {})
<1>1. Queue \in Seq(Tasks) /\ Queue' = Append(Queue, t)
  <2>1. tasks' = Append(tasks, t)
    BY DEF Post
  <2>2. QED
    BY <2>1, QueueType DEF Queue, WorkTypes
<1>2. /\ Len(Queue) \in Nat /\ Len(Queue') = Len(Queue) + 1
      /\ \A i \in 1..Len(Queue) : Queue'[i] = Queue[i]
      /\ Queue'[Len(Queue) + 1] = t
  BY <1>1
<1>3. ASSUME NEW k
      PROVE  At(k)' = At(k) \cup (IF t.kind = k THEN {Len(Queue) + 1} ELSE {})
  BY <1>2 DEF At
<1>4. QED
  BY <1>1, <1>2, <1>3

LEMMA QueueDrops ==
  ASSUME WorkTypes, UNCHANGED tasks, wpc \in {"run", "publish"}, wpc' = "after"
  PROVE  /\ Queue # << >> /\ Queue[1] = task /\ 1 \in At(task.kind) /\ Queue' = Tail(Queue)
         /\ Len(Queue) \in Nat /\ Len(Queue') = Len(Queue) - 1
         /\ \A i \in 1..Len(Queue') : Queue'[i] = Queue[i + 1]
         /\ \A k : \A i \in At(k)' : i \in 1..Len(Queue') /\ i + 1 \in At(k)
         /\ \A k : \A i \in At(k) : (i = 1 /\ task.kind = k) \/ (i > 1 /\ i - 1 \in At(k)')
<1>1. Queue \in Seq(Tasks) /\ Queue # << >> /\ Queue[1] = task /\ 1 \in At(task.kind)
      /\ Tail(Queue) = tasks /\ Queue' = tasks
  BY QueueType DEF Queue, WorkTypes
<1>2. /\ Len(Queue) \in Nat /\ Len(Queue') = Len(Queue) - 1 /\ Queue' = Tail(Queue)
      /\ \A i \in 1..Len(Queue') : Queue'[i] = Queue[i + 1]
  BY <1>1
<1>3. ASSUME NEW k, NEW i \in At(k)' PROVE i \in 1..Len(Queue') /\ i + 1 \in At(k)
  <2>1. i \in 1..Len(Queue') /\ Queue'[i].kind = k
    BY <1>3 DEF At
  <2>2. i + 1 \in 1..Len(Queue) /\ Queue[i + 1].kind = k
    BY <1>2, <2>1
  <2>3. QED
    BY <2>1, <2>2 DEF At
<1>4. ASSUME NEW k, NEW i \in At(k)
      PROVE  (i = 1 /\ task.kind = k) \/ (i > 1 /\ i - 1 \in At(k)')
  <2>1. i \in 1..Len(Queue) /\ Queue[i].kind = k
    BY <1>4 DEF At
  <2>2. CASE i = 1
    BY <1>1, <2>1, <2>2
  <2>3. CASE i > 1
    <3>1. i - 1 \in 1..Len(Queue') /\ Queue'[i - 1].kind = k
      BY <1>2, <2>1, <2>3
    <3>2. QED
      BY <2>3, <3>1 DEF At
  <2>4. QED
    BY <1>2, <2>1, <2>2, <2>3
<1>5. QED
  BY <1>1, <1>2, <1>3, <1>4

(* What a step of the queue does to the order. *)
LEMMA OrderedStays ==
  ASSUME Ordered, \A k : At(k)' = At(k), listing'.of \in {0, listing.of},
         screen' = "connect" => screen = "connect",
         At("connect") # {} => screen' = "connect" /\ state' # "CONNECTED"
  PROVE  Ordered'
  BY DEF Ordered

LEMMA OrderedGrows ==
  ASSUME WorkTypes, Ordered, NEW t \in Tasks, Post(t), UNCHANGED <<wpc, task>>,
         t.kind \notin {"connect", "list"}, UNCHANGED listing,
         screen' = screen \/ t.kind = "disconnect",
         At("connect") # {} => screen' = "connect" /\ state' # "CONNECTED"
  PROVE  Ordered'
<1> DEFINE n == Len(Queue) + 1
<1>1. /\ At("connect")' = At("connect") /\ At("list")' = At("list")
      /\ At("disconnect")' = At("disconnect") \cup IF t.kind = "disconnect" THEN {n} ELSE {}
      /\ Len(Queue) \in Nat
  <2>1. /\ \A k : At(k)' = At(k) \cup (IF t.kind = k THEN {n} ELSE {})
        /\ Len(Queue) \in Nat
    BY QueueGrows
  <2> HIDE DEF n
  <2>2. QED
    BY <2>1
<1>2. \A i \in At("list") : i \in Nat /\ i < n
  BY <1>1, QueueType
<1>3. CASE t.kind = "disconnect"
  <2>1. n \in At("disconnect")' /\ At("disconnect") \subseteq At("disconnect")'
    BY <1>1, <1>3
  <2>2. \A i \in At("list")' : \E k \in At("disconnect")' : i < k
    BY <1>1, <1>2, <2>1
  <2>3. QED
    BY <1>1, <2>1, <2>2 DEF Ordered
<1>4. CASE t.kind # "disconnect"
  BY <1>1, <1>4 DEF Ordered
<1>5. QED
  BY <1>3, <1>4

LEMMA OrderedDrops ==
  ASSUME WorkTypes, Ordered, UNCHANGED <<tasks, screen>>, wpc \in {"run", "publish"}, wpc' = "after",
         task.kind # "list" => listing'.of \in {0, listing.of},
         task.kind = "disconnect" => listing'.of = 0,
         task.kind # "connect" => state' \in {state, "DISCONNECTED"}
  PROVE  Ordered'
<1>1. /\ \A k : \A i \in At(k)' : i + 1 \in At(k) /\ i \in Nat
      /\ \A k : \A i \in At(k) : (i = 1 /\ task.kind = k) \/ (i > 1 /\ i - 1 \in At(k)')
      /\ 1 \in At(task.kind)
  BY QueueDrops
<1>2. \A k : At(k) \subseteq Nat /\ At(k)' \subseteq Nat
  BY <1>1, QueueType
<1>3. ASSUME NEW i \in At("connect")', NEW j \in At("connect")' PROVE i = j
  BY <1>1, <1>2, <1>3 DEF Ordered
<1>4. ASSUME At("connect")' # {} PROVE screen' = "connect" /\ state' # "CONNECTED"
  <2>1. PICK j \in At("connect")' : TRUE
    BY <1>4
  <2>2. j + 1 \in At("connect") /\ j \in Nat /\ j >= 1
    BY <1>1, QueueDrops
  <2>3. task.kind # "connect"
    BY <1>1, <2>2 DEF Ordered
  <2>4. QED
    BY <2>2, <2>3 DEF Ordered
<1>5. ASSUME NEW i \in At("list")', NEW j \in At("connect")', i < j
      PROVE  \E k \in At("disconnect")' : i < k /\ k < j
  <2>1. i + 1 \in At("list") /\ j + 1 \in At("connect") /\ i \in Nat /\ j \in Nat /\ i + 1 < j + 1
    BY <1>1, <1>2, <1>5
  <2>2. PICK k \in At("disconnect") : i + 1 < k /\ k < j + 1
    BY <2>1 DEF Ordered
  <2>3. k \in Nat /\ k - 1 \in At("disconnect")'
    BY <1>1, <1>2, <2>1, <2>2
  <2>4. i < k - 1 /\ k - 1 < j
    BY <2>1, <2>2, <2>3
  <2>5. QED
    BY <2>3, <2>4
<1>6. ASSUME listing'.of # 0, NEW j \in At("connect")'
      PROVE  \E k \in At("disconnect")' : k < j
  <2>1. j + 1 \in At("connect") /\ j \in Nat /\ j >= 1 /\ task.kind # "disconnect"
    BY <1>1, <1>6, QueueDrops
  <2>2. \E k \in At("disconnect") : k < j + 1
    <3>1. CASE task.kind = "list"
      <4>1. 1 \in At("list") /\ 1 < j + 1
        BY <1>1, <2>1, <3>1
      <4>2. QED
        BY <2>1, <4>1 DEF Ordered
    <3>2. CASE task.kind # "list"
      BY <1>6, <2>1, <3>2 DEF Ordered
    <3>3. QED
      BY <3>1, <3>2
  <2>3. PICK k \in At("disconnect") : k < j + 1
    BY <2>2
  <2>4. k \in Nat /\ k - 1 \in At("disconnect")' /\ k - 1 < j
    BY <1>1, <1>2, <2>1, <2>3
  <2>5. QED
    BY <2>4
<1>7. ASSUME screen' = "connect", NEW i \in At("list")'
      PROVE  \E k \in At("disconnect")' : i < k
  <2>1. i + 1 \in At("list") /\ i \in Nat /\ i >= 1
    BY <1>1, <1>7, QueueDrops
  <2>2. PICK k \in At("disconnect") : i + 1 < k
    BY <1>7, <2>1 DEF Ordered
  <2>3. k \in Nat /\ k - 1 \in At("disconnect")' /\ i < k - 1
    BY <1>1, <1>2, <2>1, <2>2
  <2>4. QED
    BY <2>3
<1>8. QED
  BY <1>3, <1>4, <1>5, <1>6, <1>7 DEF Ordered

----------------------------------------------------------------------------
(* What the steps of the user interface do to the server's side. *)

LEMMA ToppedFlag ==
  ASSUME NEW p \in Panes
  PROVE  AtTop(p).needsFetch = p.needsFetch
  BY DEF AtTop, Panes

LEMMA RemoteType ==
  ASSUME UITypes
  PROVE  Remote \in Panes /\ Remote.needsFetch \in BOOLEAN /\ "REMOTE" \in Machines
         /\ Remote.path \in Folder /\ Remote.listing \in Listings
  BY DEF Remote, UITypes, Machines, Panes

(* A key: it posts no list and no connect, changes the path only with a    *)
(* fetch to come, and what it queues for the server has raised needsFetch. *)
KeyFacts ==
    /\ uiPc = "keys" /\ uiPc' = "frame"
    /\ UNCHANGED Others
    /\ UNCHANGED tasks \/ \E t \in Tasks : Post(t) /\ t.kind \in {"make", "delete", "drain"}
    /\ \/ /\ Remote'.path = Remote.path /\ Remote'.listing = Remote.listing
          /\ Remote.needsFetch => Remote'.needsFetch
       \/ Remote'.listing = NoListing /\ Remote'.needsFetch
    /\ \/ UNCHANGED wanted
       \/ \E r \in Requests : /\ wanted' = Append(wanted, r)
                              /\ r.machine = "REMOTE" => Remote'.needsFetch

LEMMA QueuedFacts ==
  ASSUME Inv, QueueSelection
  PROVE  /\ UNCHANGED tasks \/ \E t \in Tasks : Post(t) /\ t.kind \in {"make", "delete", "drain"}
         /\ Remote'.path = Remote.path /\ Remote'.listing = Remote.listing
         /\ Remote.needsFetch => Remote'.needsFetch
         /\ \E r \in Requests : /\ wanted' = Append(wanted, r)
                                /\ r.machine = "REMOTE" => Remote'.needsFetch
<1> USE DEF Inv
<1> DEFINE r == [source  |-> selection.machine, from |-> selection.dir, machine |-> machine,
                 dir |-> Here.path, names |-> {m.name : m \in selection.marks}]
<1>1. /\ pane' = [pane EXCEPT ![machine].needsFetch = TRUE]
      /\ UNCHANGED tasks \/ Post(Plain("drain"))
      /\ wanted' = Append(wanted, r)
  BY DEF QueueSelection
<1>2. r \in Requests /\ r.machine = machine
  <2>1. {m.name : m \in selection.marks} \subseteq Names
    BY DEF UITypes, Marks
  <2>2. Here.path \in Folder
    BY DEF Here, UITypes, Panes
  <2>3. QED
    BY <2>1, <2>2 DEF UITypes, Requests
<1> HIDE DEF r
<1>3. /\ Remote'.path = Remote.path /\ Remote'.listing = Remote.listing
      /\ Remote.needsFetch => Remote'.needsFetch
      /\ machine = "REMOTE" => Remote'.needsFetch
  BY <1>1 DEF UITypes, Remote, Panes, Machines
<1>4. QED
  BY <1>1, <1>2, <1>3, PlainTask

LEMMA KeyStep ==
  ASSUME Inv,
         \/ NoKey \/ SwitchSide \/ MoveCursor \/ NavigateTo \/ PressSelect
         \/ OpenMenu \/ CloseMenu \/ NewFolder \/ AskDelete \/ Transfer \/ Yes \/ No
  PROVE  KeyFacts
<1> USE DEF Inv
<1>1. uiPc = "keys" /\ uiPc' = "frame" /\ UNCHANGED Others
  BY DEF NoKey, SwitchSide, MoveCursor, NavigateTo, PressSelect, OpenMenu, CloseMenu, NewFolder,
         AskDelete, Transfer, Yes, No, EndFrame, HasKeys, MenuHasKeys
<1>2. CASE UNCHANGED <<pane, tasks, queue>>
  BY <1>1, <1>2 DEF KeyFacts, Remote, queue
<1>3. CASE MoveCursor
  <2>1. UNCHANGED <<tasks, queue>> /\ \E row : pane' = [pane EXCEPT ![machine].cursor = row]
    BY <1>3 DEF MoveCursor
  <2>2. /\ Remote'.path = Remote.path /\ Remote'.listing = Remote.listing
        /\ Remote.needsFetch => Remote'.needsFetch
    BY <2>1 DEF UITypes, Remote, Panes, Machines
  <2>3. QED
    BY <1>1, <2>1, <2>2 DEF KeyFacts, queue
<1>4. CASE NavigateTo
  <2>1. PICK path \in Paths : pane' = [pane EXCEPT ![machine] =
           AtTop([pane[machine] EXCEPT !.path = path, !.listing = NoListing, !.needsFetch = TRUE])]
    BY <1>4 DEF NavigateTo
  <2> DEFINE p == [pane[machine] EXCEPT !.path = path, !.listing = NoListing, !.needsFetch = TRUE]
  <2>2. p \in Panes /\ p.path = path /\ p.listing = NoListing /\ p.needsFetch = TRUE
    BY Blanks DEF UITypes, Panes, Folder
  <2>3. pane' = [pane EXCEPT ![machine] = AtTop(p)] /\ UNCHANGED <<tasks, queue>>
    BY <1>4, <2>1 DEF NavigateTo
  <2> HIDE DEF p
  <2>4. AtTop(p).listing = NoListing /\ AtTop(p).needsFetch = TRUE
    BY <2>2, Topped, ToppedFlag
  <2>5. \/ Remote' = Remote
        \/ Remote'.listing = NoListing /\ Remote'.needsFetch
    BY <2>3, <2>4 DEF UITypes, Remote, Machines
  <2>6. QED
    BY <1>1, <2>3, <2>5 DEF KeyFacts, queue
<1>5. CASE NewFolder
  <2>1. UNCHANGED <<pane, queue>> /\ \E n \in Names : Post(Task("make", machine, Here.path, {n}, {}))
    BY <1>5 DEF NewFolder, explorer
  <2>2. PICK n \in Names : Post(Task("make", machine, Here.path, {n}, {}))
    BY <2>1
  <2>3. Here.path \in Folder /\ machine \in Machines
    BY DEF Here, UITypes, Panes
  <2>4. Task("make", machine, Here.path, {n}, {}) \in Tasks
        /\ Task("make", machine, Here.path, {n}, {}).kind = "make"
    BY <2>3, TaskType DEF Kinds, Rows
  <2>5. QED
    BY <1>1, <2>1, <2>2, <2>4 DEF KeyFacts, Remote, queue
<1>6. CASE QueueSelection
  BY <1>1, <1>6, QueuedFacts DEF KeyFacts
<1>7. CASE Yes
  <2>1. CASE /\ Post(Task("delete", machine, prompt.dir, prompt.names, prompt.shown))
             /\ UNCHANGED <<pane, queue>>
    <3>1. /\ Task("delete", machine, prompt.dir, prompt.names, prompt.shown) \in Tasks
          /\ Task("delete", machine, prompt.dir, prompt.names, prompt.shown).kind = "delete"
      BY TaskType DEF UITypes, Prompts, Kinds
    <3>2. QED
      BY <1>1, <2>1, <3>1 DEF KeyFacts, Remote, queue
  <2>2. QED
    BY <1>2, <1>6, <1>7, <2>1 DEF Yes
<1>8. QED
  BY <1>2, <1>3, <1>4, <1>5, <1>6, <1>7
  DEF NoKey, SwitchSide, PressSelect, OpenMenu, CloseMenu, AskDelete, Transfer, No, explorer

(* The frame: what has arrived is copied, and a fetch posts its list. *)
DrawFacts ==
    /\ uiPc = "frame" /\ screen = "browser" /\ unseen' = FALSE
    /\ wasBusy' = (wanted # << >>)
    /\ UNCHANGED <<screen, machine, state, listing, wpc, task, got, server, overlapped, wanted,
                   disk>>
    /\ Remote'.listing = (IF Coming THEN listing ELSE Remote.listing)
    /\ Remote.needsFetch \/ (wasBusy /\ wanted = << >>) => Remote'.needsFetch
    /\ \/ /\ machine = "REMOTE" /\ uiPc' = "clear" /\ Remote'.path \in Paths
          /\ \E t \in Tasks : t.kind = "list" /\ t.dir = Remote'.path /\ Post(t)
       \/ /\ uiPc' = "keys" \/ machine = "LOCAL"
          /\ Remote'.path = Remote.path
          /\ UNCHANGED tasks

LEMMA SyncedRemote ==
  ASSUME UITypes, WorkTypes, NEW busy \in BOOLEAN
  PROVE  /\ Synced(busy)["REMOTE"] \in Panes
         /\ Synced(busy)["REMOTE"].path = Remote.path
         /\ Synced(busy)["REMOTE"].listing = (IF Coming THEN listing ELSE Remote.listing)
         /\ Synced(busy)["REMOTE"].needsFetch = (Remote.needsFetch \/ (wasBusy /\ ~busy))
<1> DEFINE p     == pane["REMOTE"]
           q     == [p EXCEPT !.listing = listing]
           new   == IF unseen /\ SamePath(p) THEN [pane EXCEPT !["REMOTE"] = AtTop(q)] ELSE pane
           ended == wasBusy /\ ~busy
<1>1. p \in Panes /\ q \in Panes /\ q.path = p.path /\ q.listing = listing
      /\ q.needsFetch = p.needsFetch
  BY DEF UITypes, WorkTypes, Panes, Machines
<1>2. /\ AtTop(q) \in Panes /\ AtTop(q).path = p.path /\ AtTop(q).listing = listing
      /\ AtTop(q).needsFetch = p.needsFetch
  BY <1>1, Topped, ToppedFlag
<1>3. (unseen /\ SamePath(p)) <=> Coming
  BY DEF SamePath, Coming, Remote
<1>4. Synced(busy) = [m \in Machines |-> [new[m] EXCEPT !.needsFetch = @ \/ ended]]
  BY DEF Synced
<1>5. Remote = p
  BY DEF Remote
<1> HIDE DEF q
<1>6. /\ new["REMOTE"] \in Panes /\ new["REMOTE"].path = p.path
      /\ new["REMOTE"].listing = (IF Coming THEN listing ELSE p.listing)
      /\ new["REMOTE"].needsFetch = p.needsFetch
  <2>1. CASE Coming
    <3>1. new = [pane EXCEPT !["REMOTE"] = AtTop(q)]
      BY <1>3, <2>1
    <3>2. new["REMOTE"] = AtTop(q)
      BY <3>1 DEF UITypes, Machines
    <3>3. QED
      BY <1>2, <2>1, <3>2
  <2>2. CASE ~Coming
    BY <1>1, <1>3, <2>2
  <2>3. QED
    BY <2>1, <2>2
<1> HIDE DEF new, ended, p
<1>7. /\ Synced(busy)["REMOTE"] = [new["REMOTE"] EXCEPT !.needsFetch = @ \/ ended]
      /\ ended \in BOOLEAN
  BY <1>4 DEF Machines, ended, UITypes
<1>8. QED
  BY <1>5, <1>6, <1>7 DEF Panes, ended

LEMMA DrawStep ==
  ASSUME Inv, Draw
  PROVE  DrawFacts
<1> USE DEF Inv
<1> DEFINE busy  == wanted # << >>
           panes == Synced(busy)
<1>1. /\ uiPc = "frame" /\ screen = "browser" /\ unseen' = FALSE /\ wasBusy' = busy
      /\ \/ machine = "LOCAL" /\ FetchLocal(panes)
         \/ machine # "LOCAL" /\ FetchRemote(panes) /\ panes[machine].needsFetch /\ uiPc' = "clear"
         \/ pane' = panes /\ UNCHANGED tasks /\ uiPc' = "keys"
      /\ UNCHANGED <<screen, machine, state, listing, wpc, task, got, server, overlapped, wanted,
                     disk>>
  BY DEF Draw, queue
<1>2. /\ panes \in [Machines -> Panes] /\ panes["REMOTE"] \in Panes
      /\ panes["REMOTE"].path = Remote.path
      /\ panes["REMOTE"].listing = (IF Coming THEN listing ELSE Remote.listing)
      /\ panes["REMOTE"].needsFetch = (Remote.needsFetch \/ (wasBusy /\ ~busy))
  BY SyncedPanes, SyncedRemote
<1> HIDE DEF panes
<1>3. CASE machine = "LOCAL" /\ FetchLocal(panes)
  <2>1. Remote' = panes["REMOTE"] /\ UNCHANGED tasks
    BY <1>2, <1>3 DEF FetchLocal, Remote, Machines
  <2>2. QED
    BY <1>1, <1>2, <1>3, <2>1 DEF DrawFacts
<1>4. CASE machine # "LOCAL" /\ FetchRemote(panes) /\ uiPc' = "clear"
  <2> DEFINE path == Pick(panes["REMOTE"].path)
             t    == Task("list", "REMOTE", path, {}, {})
  <2>1. path \in Paths
    BY <1>2, BrowserAssumption DEF Pick, Panes, Folder, Machines
  <2>2. pane' = [panes EXCEPT !["REMOTE"].path = path] /\ Post(t)
    BY <1>4 DEF FetchRemote
  <2> HIDE DEF path
  <2>3. Remote'.path = path /\ Remote'.listing = panes["REMOTE"].listing
        /\ Remote'.needsFetch = panes["REMOTE"].needsFetch
    BY <1>2, <2>2 DEF Remote, Machines, Panes
  <2>4. t \in Tasks /\ t.kind = "list" /\ t.dir = path
    BY <2>1, TaskType DEF Kinds, Machines, Folder
  <2> HIDE DEF t
  <2>5. machine = "REMOTE"
    BY <1>4 DEF UITypes, Machines
  <2>6. QED
    BY <1>1, <1>2, <1>4, <2>1, <2>2, <2>3, <2>4, <2>5 DEF DrawFacts
<1>5. CASE pane' = panes /\ UNCHANGED tasks /\ uiPc' = "keys"
  BY <1>1, <1>2, <1>5 DEF DrawFacts, Remote
<1>6. QED
  BY <1>1, <1>3, <1>4, <1>5

----------------------------------------------------------------------------
(* Rows and the server they are of. *)

LEMMA InitOrigin == Init => OriginInv
<1> SUFFICES ASSUME Init PROVE OriginInv
  OBVIOUS
<1>1. /\ Remote = NewPane /\ Remote.listing = NoListing /\ Remote.path = NoPath
      /\ got = NoListing /\ listing = NoListing
      /\ server = 0 /\ tasks = << >> /\ wpc = "idle"
  BY Blanks DEF Init, Remote, Machines, NewPane
<1>2. NoListing.of = 0 /\ NoListing.names = {}
  BY DEF NoListing
<1>3. \A k : At(k) = {}
  BY <1>1 DEF At, Queue
<1>4. QED
  BY <1>1, <1>2, <1>3 DEF OriginInv, Origin, Ordered, OfTheServer

(* A step that reads nothing and connects to nothing. *)
LEMMA OriginStays ==
  ASSUME OriginInv, got' = got, listing' = listing, server' = server, overlapped' = overlapped,
         wpc' \in {"idle", "run"} => wpc \in {"idle", "run"},
         Remote'.listing \in {Remote.listing, listing, NoListing},
         screen' = "connect" => Remote'.path = NoPath /\ Remote'.listing.of = 0,
         ~overlapped /\ Ordered => Ordered'
  PROVE  OriginInv'
<1>1. NoListing.of = 0 /\ NoListing.names = {}
  BY DEF NoListing
<1>2. Origin'
  BY <1>1 DEF OriginInv, Origin
<1>3. ~overlapped /\ OfTheServer => OfTheServer'
  BY <1>1 DEF OfTheServer
<1>4. QED
  BY <1>2, <1>3 DEF OriginInv

LEMMA ResetRemote ==
  ASSUME ResetBrowser
  PROVE  Remote' = NewPane /\ Remote'.path = NoPath /\ Remote'.listing = NoListing
         /\ Remote'.listing.of = 0 /\ Remote'.needsFetch
  BY DEF ResetBrowser, Remote, Machines, NewPane, NoListing

LEMMA ConnectOrigin == Inv /\ OriginInv /\ Connect => OriginInv'
<1> SUFFICES ASSUME Inv, OriginInv, Connect PROVE OriginInv'
  OBVIOUS
<1> USE DEF Inv
<1> DEFINE t == ConnectTask(connects + 1)
           n == Len(Queue) + 1
<1>1. /\ ResetBrowser /\ listing' = NoListing /\ Post(t) /\ screen = "connect"
      /\ state' = "CONNECTING" /\ overlapped' = (overlapped \/ Pending("connect"))
      /\ UNCHANGED <<screen, wpc, task, got, server>>
  BY DEF Connect
<1>2. t \in Tasks /\ t.kind = "connect"
  BY BrowserAssumption, ConnectTaskType DEF Connect, WorkTypes
<1> HIDE DEF t
<1>3. NoListing.of = 0 /\ NoListing.names = {}
  BY DEF NoListing
<1>4. Origin'
  BY <1>1, <1>3, ResetRemote DEF OriginInv, Origin
<1>5. ASSUME ~overlapped' PROVE OfTheServer'
  BY <1>1, <1>3, <1>5, ResetRemote DEF OriginInv, OfTheServer
<1>6. ASSUME ~overlapped' PROVE Ordered'
  <2>1. Ordered
    BY <1>1, <1>6 DEF OriginInv
  <2>2. /\ \A k : At(k)' = At(k) \cup (IF t.kind = k THEN {n} ELSE {})
        /\ Len(Queue) \in Nat
    BY <1>1, <1>2, QueueGrows
  <2> HIDE DEF n
  <2>3. /\ At("connect")' = At("connect") \cup {n}
        /\ At("list")' = At("list") /\ At("disconnect")' = At("disconnect")
    BY <1>2, <2>2
  <2>4. At("connect") = {}
    <3>1. SUFFICES ASSUME NEW i \in At("connect") PROVE FALSE
      OBVIOUS
    <3>2. i \in 1..Len(Queue) /\ Queue[i].kind = "connect"
      BY <3>1 DEF At
    <3>3. CASE wpc \in {"run", "publish"}
      <4>1. Queue = <<task>> \o tasks /\ tasks \in Seq(Tasks)
        BY <3>3, QueueType
      <4>2. CASE i = 1
        BY <1>1, <1>6, <3>2, <3>3, <4>1, <4>2, QueueType DEF Pending
      <4>3. CASE i # 1
        <5>1. i - 1 \in 1..Len(tasks) /\ tasks[i - 1].kind = "connect"
          BY <3>2, <4>1, <4>3
        <5>2. QED
          BY <1>1, <1>6, <5>1 DEF Pending
      <4>4. QED
        BY <4>2, <4>3
    <3>4. CASE wpc \notin {"run", "publish"}
      BY <1>1, <1>6, <3>2, <3>4, QueueType DEF Pending
    <3>5. QED
      BY <3>3, <3>4
  <2>5. \A i \in At("list") : \E k \in At("disconnect") : i < k /\ k < n
    <3>1. \A k \in At("disconnect") : k < n
      BY <2>2, QueueType DEF n
    <3>2. QED
      BY <1>1, <2>1, <3>1 DEF Ordered
  <2>6. QED
    BY <1>1, <1>3, <2>1, <2>3, <2>4, <2>5 DEF Ordered
<1>7. QED
  BY <1>4, <1>5, <1>6 DEF OriginInv

LEMMA LeaveOrigin == Inv /\ OriginInv /\ LeaveBrowser => OriginInv'
<1> SUFFICES ASSUME Inv, OriginInv, LeaveBrowser PROVE OriginInv'
  OBVIOUS
<1> USE DEF Inv
<1>1. /\ ResetBrowser /\ Post(Plain("disconnect")) /\ screen' = "connect" /\ state' = "DISCONNECTED"
      /\ UNCHANGED <<listing, wpc, task, got, server, overlapped>>
  BY DEF LeaveBrowser
<1>2. Plain("disconnect") \in Tasks /\ Plain("disconnect").kind = "disconnect"
  BY PlainTask
<1>3. Ordered => Ordered'
  BY <1>1, <1>2, OrderedGrows
<1>4. QED
  BY <1>1, <1>3, OriginStays, ResetRemote

LEMMA OutsideOrigin ==
  Inv /\ OriginInv /\ (GiveUp \/ Connected \/ LinkLost \/ Disconnect \/ Clear) => OriginInv'
<1> SUFFICES ASSUME Inv, OriginInv, GiveUp \/ Connected \/ LinkLost \/ Disconnect \/ Clear
             PROVE  OriginInv'
  OBVIOUS
<1> USE DEF Inv
<1>1. CASE GiveUp
  <2>1. /\ Post(Plain("disconnect")) /\ state' = "DISCONNECTED" /\ screen = "connect"
        /\ UNCHANGED <<screen, pane, listing, wpc, task, got, server, overlapped>>
    BY <1>1 DEF GiveUp, explorer
  <2>2. Plain("disconnect") \in Tasks /\ Plain("disconnect").kind = "disconnect"
    BY PlainTask
  <2>3. Ordered => Ordered'
    BY <2>1, <2>2, OrderedGrows
  <2>4. QED
    BY <2>1, <2>3, OriginStays DEF Remote, OriginInv, Origin
<1>2. CASE Connected
  <2>1. /\ state = "CONNECTED" /\ screen' = "browser"
        /\ UNCHANGED <<pane, state, listing, tasks, wpc, task, got, server, overlapped>>
    BY <1>2 DEF Connected, explorer, session
  <2>2. \A k : At(k)' = At(k)
    BY <2>1, QueueStays
  <2>3. Ordered => Ordered'
    BY <2>1, <2>2, OrderedStays DEF Ordered
  <2>4. QED
    BY <2>1, <2>3, OriginStays DEF Remote
<1>3. CASE LinkLost \/ Disconnect
  BY <1>3, LeaveOrigin DEF LinkLost, Disconnect
<1>4. CASE Clear
  <2>1. /\ pane' = [pane EXCEPT ![machine].needsFetch = FALSE]
        /\ UNCHANGED <<screen, state, listing, tasks, wpc, task, got, server, overlapped>>
    BY <1>4 DEF Clear, session
  <2>2. Remote'.path = Remote.path /\ Remote'.listing = Remote.listing
    BY <2>1 DEF Remote, UITypes, Panes, Machines
  <2>3. \A k : At(k)' = At(k)
    BY <2>1, QueueStays
  <2>4. Ordered => Ordered'
    BY <2>1, <2>3, OrderedStays DEF Ordered
  <2>5. QED
    BY <2>1, <2>2, <2>4, OriginStays DEF OriginInv, Origin
<1>5. QED
  BY <1>1, <1>2, <1>3, <1>4

LEMMA DrawOrigin == Inv /\ OriginInv /\ DrawFacts => OriginInv'
<1> SUFFICES ASSUME Inv, OriginInv, DrawFacts PROVE OriginInv'
  OBVIOUS
<1> USE DEF Inv
<1>1. /\ screen = "browser" /\ Remote'.listing \in {Remote.listing, listing}
      /\ UNCHANGED <<screen, state, listing, wpc, task, got, server, overlapped>>
  BY DEF DrawFacts
<1>2. CASE UNCHANGED tasks
  <2>1. \A k : At(k)' = At(k)
    BY <1>1, <1>2, QueueStays
  <2>2. Ordered => Ordered'
    BY <1>1, <2>1, OrderedStays DEF Ordered
  <2>3. QED
    BY <1>1, <2>2, OriginStays
<1>3. CASE \E t \in Tasks : t.kind = "list" /\ Post(t)
  <2>1. PICK t \in Tasks : t.kind = "list" /\ Post(t)
    BY <1>3
  <2> DEFINE n == Len(Queue) + 1
  <2>2. \A k : At(k)' = At(k) \cup (IF t.kind = k THEN {n} ELSE {})
    BY <1>1, <2>1, QueueGrows
  <2> HIDE DEF n
  <2>3. /\ At("connect")' = At("connect") /\ At("disconnect")' = At("disconnect")
        /\ At("list")' = At("list") \cup {n}
    BY <2>1, <2>2
  <2>4. ASSUME Ordered PROVE Ordered'
    <3>1. At("connect") = {}
      BY <1>1, <2>4 DEF Ordered
    <3>2. QED
      BY <1>1, <2>3, <2>4, <3>1 DEF Ordered
  <2>5. QED
    BY <1>1, <2>4, OriginStays
<1>4. QED
  BY <1>2, <1>3 DEF DrawFacts

LEMMA KeyOrigin == Inv /\ OriginInv /\ KeyFacts => OriginInv'
<1> SUFFICES ASSUME Inv, OriginInv, KeyFacts PROVE OriginInv'
  OBVIOUS
<1> USE DEF Inv
<1>1. /\ screen # "connect" /\ Remote'.listing \in {Remote.listing, NoListing}
      /\ UNCHANGED <<screen, state, listing, wpc, task, got, server, overlapped>>
  BY DEF KeyFacts, Others, PromptInv
<1>2. Ordered => At("connect") = {}
  BY <1>1 DEF Ordered
<1>3. CASE UNCHANGED tasks
  <2>1. \A k : At(k)' = At(k)
    BY <1>1, <1>3, QueueStays
  <2>2. Ordered => Ordered'
    BY <1>1, <1>2, <2>1, OrderedStays
  <2>3. QED
    BY <1>1, <2>2, OriginStays
<1>4. CASE \E t \in Tasks : Post(t) /\ t.kind \in {"make", "delete", "drain"}
  <2>1. Ordered => Ordered'
    BY <1>1, <1>2, <1>4, OrderedGrows
  <2>2. QED
    BY <1>1, <2>1, OriginStays
<1>5. QED
  BY <1>3, <1>4 DEF KeyFacts

LEMMA QueueTaken ==
  ASSUME WorkTypes, Take
  PROVE  Queue' = Queue /\ \A k : At(k)' = At(k)
<1>1. /\ tasks # << >> /\ task' = Head(tasks) /\ tasks' = Tail(tasks) /\ tasks \in Seq(Tasks)
      /\ wpc = "idle" /\ wpc' = "run"
  BY DEF Take, WorkTypes
<1>2. Queue = tasks /\ Queue' = <<Head(tasks)>> \o Tail(tasks)
  BY <1>1 DEF Queue
<1>3. Queue' = Queue
  BY <1>1, <1>2
<1>4. QED
  BY <1>3 DEF At

LEMMA TakeOrigin == Inv /\ OriginInv /\ Take => OriginInv'
<1> SUFFICES ASSUME Inv, OriginInv, Take PROVE OriginInv'
  OBVIOUS
<1> USE DEF Inv
<1>1. /\ wpc = "idle" /\ UNCHANGED <<pane, screen, state, listing, got, server, overlapped>>
  BY DEF Take, Worker
<1>2. Ordered => Ordered'
  BY <1>1, QueueTaken, OrderedStays DEF Ordered
<1>3. QED
  BY <1>1, <1>2, OriginStays DEF Remote, OriginInv, Origin

LEMMA RunOrigin == Inv /\ OriginInv /\ Run => OriginInv'
<1> SUFFICES ASSUME Inv, OriginInv, Run PROVE OriginInv'
  OBVIOUS
<1> USE DEF Inv
<1>1. /\ wpc = "run" /\ UNCHANGED <<pane, screen, state, listing, tasks, task, overlapped>>
      /\ Remote' = Remote
  BY DEF Run, Worker, Remote
<1>2. got.of = 0
  BY <1>1 DEF OriginInv, Origin
(* The order: only a drain ends here. *)
<1>3. ASSUME Ordered PROVE Ordered'
  <2>1. CASE wpc' \in {"run", "publish"}
    <3>1. \A k : At(k)' = At(k)
      BY <1>1, <2>1, QueueStays
    <3>2. QED
      BY <1>1, <1>3, <3>1, OrderedStays DEF Ordered
  <2>2. CASE wpc' = "after" /\ task.kind = "drain"
    BY <1>1, <1>3, <2>2, OrderedDrops
  <2>3. QED
    BY <1>1, <2>1, <2>2 DEF Run
<1>4. CASE task.kind = "connect" /\ server' \in {0, task.number} /\ wpc' = "publish" /\ got' = got
  <2>1. Origin'
    BY <1>1, <1>2, <1>4 DEF OriginInv, Origin
  <2>2. ASSUME ~overlapped PROVE OfTheServer'
    <3>1. Ordered
      BY <2>2 DEF OriginInv
    <3>2. 1 \in At("connect")
      BY <1>1, <1>4, QueueType
    <3>3. screen = "connect"
      BY <3>1, <3>2 DEF Ordered
    <3>4. listing.of = 0
      <4>1. \A k \in At("disconnect") : k >= 1 /\ k \in Nat
        BY QueueType
      <4>2. QED
        BY <3>1, <3>2, <4>1 DEF Ordered
    <3>5. Remote.listing.of = 0
      BY <3>3 DEF OriginInv, Origin
    <3>6. QED
      BY <1>1, <1>2, <1>4, <3>4, <3>5 DEF OfTheServer
  <2>3. QED
    BY <1>1, <1>3, <2>1, <2>2 DEF OriginInv
<1>5. CASE server' = 0 /\ got' = got /\ wpc' = "publish"
  <2>1. Origin'
    BY <1>1, <1>2, <1>5 DEF OriginInv, Origin
  <2>2. OfTheServer'
    BY <1>5 DEF OfTheServer
  <2>3. QED
    BY <1>1, <1>3, <2>1, <2>2 DEF OriginInv
<1>6. CASE /\ server' = server /\ wpc' = "publish"
           /\ \E ok \in {FALSE, server # 0} :
                 got' = [path |-> task.dir, of |-> server, ok |-> ok,
                         names |-> IF ok THEN disk["REMOTE"][task.dir] ELSE {}]
  <2>1. got'.of = server /\ (got'.names # {} => server # 0)
    <3>1. PICK ok \in {FALSE, server # 0} :
                 got' = [path |-> task.dir, of |-> server, ok |-> ok,
                         names |-> IF ok THEN disk["REMOTE"][task.dir] ELSE {}]
      BY <1>6
    <3>2. got'.of = server /\ got'.names = (IF ok THEN disk["REMOTE"][task.dir] ELSE {})
      BY <3>1
    <3>3. got'.names # {} => ok
      BY <3>2
    <3>4. ok => server # 0
      BY <3>1, Zenon
    <3>5. QED
      BY <3>2, <3>3, <3>4
  <2>2. Origin'
    BY <1>1, <1>6, <2>1 DEF OriginInv, Origin
  <2>3. ~overlapped => OfTheServer'
    BY <1>1, <1>6, <2>1 DEF OriginInv, OfTheServer
  <2>4. QED
    BY <1>1, <1>3, <2>2, <2>3 DEF OriginInv
<1>7. CASE server' = server /\ got' = got
  BY <1>1, <1>3, <1>7, OriginStays DEF OriginInv, Origin
<1>8. QED
  BY <1>4, <1>5, <1>6, <1>7 DEF Run, queue

LEMMA PublishFlag ==
  ASSUME UITypes, WorkTypes, Publish
  PROVE  /\ Remote'.path = Remote.path /\ Remote'.listing = Remote.listing
         /\ Remote'.needsFetch = (Remote.needsFetch \/ Operates(task, "REMOTE"))
<1>1. CASE task.kind \in {"delete", "make"} /\ RefreshLater(task.machine)
  <2>1. task.machine \in Machines /\ pane' = [pane EXCEPT ![task.machine].needsFetch = TRUE]
    BY <1>1 DEF WorkTypes, Tasks, RefreshLater
  <2>2. Operates(task, "REMOTE") <=> task.machine = "REMOTE"
    BY <1>1 DEF Operates
  <2>3. CASE task.machine = "REMOTE"
    BY <2>1, <2>2, <2>3, RemoteType DEF UITypes, Remote, Panes, Machines
  <2>4. CASE task.machine # "REMOTE"
    BY <2>1, <2>2, <2>4, RemoteType DEF UITypes, Remote, Panes, Machines
  <2>5. QED
    BY <2>3, <2>4
<1>2. CASE task.kind \notin {"delete", "make"} /\ pane' = pane
  BY <1>2, RemoteType DEF Operates, Remote
<1>3. QED
  BY <1>1, <1>2 DEF Publish

LEMMA PublishOrigin == Inv /\ OriginInv /\ Publish => OriginInv'
<1> SUFFICES ASSUME Inv, OriginInv, Publish PROVE OriginInv'
  OBVIOUS
<1> USE DEF Inv
<1>1. /\ wpc = "publish" /\ wpc' = "after"
      /\ UNCHANGED <<screen, tasks, task, got, server, overlapped>>
      /\ Remote'.path = Remote.path /\ Remote'.listing = Remote.listing
  BY PublishFlag DEF Publish, Worker
<1>2. NoListing.of = 0 /\ NoListing.names = {}
  BY DEF NoListing
<1>3. /\ listing' \in {listing, NoListing, got}
      /\ task.kind # "list" => listing' \in {listing, NoListing}
      /\ task.kind = "disconnect" => listing' = NoListing
      /\ task.kind # "connect" => state' \in {state, "DISCONNECTED"}
  BY DEF Publish
<1>4. Ordered => Ordered'
  BY <1>1, <1>2, <1>3, OrderedDrops
<1>5. Origin'
  BY <1>1, <1>2, <1>3 DEF OriginInv, Origin
<1>6. OfTheServer => OfTheServer'
  BY <1>1, <1>2, <1>3 DEF OfTheServer
<1>7. QED
  BY <1>1, <1>4, <1>5, <1>6 DEF OriginInv

LEMMA AfterOrigin == Inv /\ OriginInv /\ (After \/ LinkDrops) => OriginInv'
<1> SUFFICES ASSUME Inv, OriginInv, After \/ LinkDrops PROVE OriginInv'
  OBVIOUS
<1> USE DEF Inv
<1>1. /\ UNCHANGED <<pane, screen, tasks, overlapped>> /\ Remote' = Remote
      /\ listing' \in {listing, NoListing} /\ got' \in {got, NoListing}
      /\ server' \in {server, 0}
      /\ state' \in {state, "LOST"}
  BY DEF After, LinkDrops, Worker, Remote
<1>2. NoListing.of = 0 /\ NoListing.names = {}
  BY DEF NoListing
<1>3. \A k : At(k)' = At(k)
  BY QueueStays DEF After, LinkDrops
<1>4. Ordered => Ordered'
  BY <1>1, <1>2, <1>3, OrderedStays DEF Ordered
<1>5. Origin'
  <2>1. CASE After
    BY <1>1, <1>2, <2>1 DEF OriginInv, Origin, After
  <2>2. CASE LinkDrops
    BY <1>1, <2>2 DEF OriginInv, Origin, LinkDrops
  <2>3. QED
    BY <2>1, <2>2
<1>6. OfTheServer => OfTheServer'
  BY <1>1, <1>2 DEF OfTheServer
<1>7. QED
  BY <1>1, <1>4, <1>5, <1>6 DEF OriginInv

LEMMA StepOrigin == Inv /\ OriginInv /\ [Next]_vars => OriginInv'
<1> SUFFICES ASSUME Inv, OriginInv, [Next]_vars PROVE OriginInv'
  OBVIOUS
<1>1. CASE UNCHANGED vars
  <2>1. UNCHANGED <<pane, screen, state, listing, tasks, wpc, task, got, server, overlapped>>
    BY <1>1 DEF vars, explorer, session
  <2>2. QED
    BY <2>1 DEF OriginInv, Origin, Ordered, OfTheServer, Remote, At, Queue
<1>2. CASE UI
  BY <1>2, ConnectOrigin, OutsideOrigin, DrawStep, DrawOrigin, KeyStep, KeyOrigin DEF UI
<1>3. QED
  BY <1>1, <1>2, TakeOrigin, RunOrigin, PublishOrigin, AfterOrigin DEF Next

(* screenBrowser.cpp forgets the panes with the session, session.cpp the   *)
(* listing: unless connects wait for each other, no row of an earlier      *)
(* server is on screen while another one is connected.                     *)
THEOREM RowsAreAlwaysOfTheServer == Spec => []RowsAreOfTheServer
<1>1. Init => Inv /\ OriginInv
  BY InitInv, InitOrigin
<1>2. Inv /\ OriginInv /\ [Next]_vars => (Inv /\ OriginInv)'
  BY StepInv, StepOrigin
<1>3. OriginInv => RowsAreOfTheServer
  BY DEF OriginInv, Origin, OfTheServer, Remote, RowsAreOfTheServer
<1>4. QED
  BY <1>1, <1>2, <1>3, PTL DEF Spec

----------------------------------------------------------------------------
(* The lists that are queued. *)

LEMMA InitRead == Init => ReadInv
<1> SUFFICES ASSUME Init PROVE ReadInv
  OBVIOUS
<1>1. /\ Remote.path = NoPath /\ tasks = << >> /\ wanted = << >> /\ wpc = "idle" /\ uiPc = "frame"
  BY Blanks DEF Init, Remote, Machines, NewPane
<1>2. ListsInv /\ SettledInv
  BY <1>1 DEF ListsInv, SettledInv, Fresh, Asked
<1>3. BusyInv /\ GotInv
  BY <1>1 DEF BusyInv, GotInv
<1>4. QED
  BY <1>2, <1>3 DEF ReadInv

LEMMA ListsStay ==
  ASSUME ListsInv, Queue' = Queue, \A k : At(k)' = At(k),
         Fresh' => Fresh /\ Remote'.path = Remote.path, Asked' => Asked
  PROVE  ListsInv'
  BY DEF ListsInv

LEMMA ListsGrow ==
  ASSUME WorkTypes, ListsInv, NEW t \in Tasks, Post(t), UNCHANGED <<wpc, task>>,
         t.kind \notin {"list", "connect"}, ~Asked',
         Fresh' => Fresh /\ Remote'.path = Remote.path
  PROVE  ListsInv'
<1> DEFINE n == Len(Queue) + 1
<1>1. /\ \A k : At(k)' = At(k) \cup (IF t.kind = k THEN {n} ELSE {})
      /\ \A i \in 1..Len(Queue) : Queue'[i] = Queue[i]
  BY QueueGrows
<1> HIDE DEF n
<1>2. At("list")' = At("list") /\ At("connect")' = At("connect")
  BY <1>1
<1>3. \A j \in At("list") : Queue'[j] = Queue[j]
  BY <1>1, QueueType
<1>4. QED
  BY <1>2, <1>3 DEF ListsInv

LEMMA ListsDrop ==
  ASSUME WorkTypes, ListsInv, UNCHANGED tasks, wpc \in {"run", "publish"}, wpc' = "after",
         Fresh' => Fresh /\ Remote'.path = Remote.path, Asked' => Asked
  PROVE  ListsInv'
<1>1. /\ Len(Queue) \in Nat /\ Len(Queue') = Len(Queue) - 1
      /\ \A i \in 1..Len(Queue') : Queue'[i] = Queue[i + 1]
      /\ \A k : \A i \in At(k)' : i \in 1..Len(Queue') /\ i + 1 \in At(k)
      /\ \A k : \A i \in At(k) : (i = 1 /\ task.kind = k) \/ (i > 1 /\ i - 1 \in At(k)')
  BY QueueDrops
<1>2. \A k : \A i \in At(k) : i \in Nat
  BY QueueType
<1>3. ASSUME Fresh', NEW i \in At("list")'
      PROVE  \E j \in At("list")' : i <= j /\ Queue'[j].dir = Remote'.path
  <2>1. i \in Nat /\ i >= 1 /\ i + 1 \in At("list")
    BY <1>1, <1>3
  <2>2. PICK j \in At("list") : i + 1 <= j /\ Queue[j].dir = Remote.path
    BY <1>3, <2>1 DEF ListsInv
  <2>3. j \in Nat /\ j > 1
    BY <1>2, <2>1, <2>2
  <2>4. j - 1 \in At("list")'
    BY <1>1, <2>2, <2>3
  <2>5. j - 1 \in 1..Len(Queue') /\ Queue'[j - 1] = Queue[j]
    BY <1>1, <2>3, <2>4
  <2>6. i <= j - 1
    BY <2>1, <2>2, <2>3
  <2>7. QED
    BY <1>3, <2>2, <2>4, <2>5, <2>6
<1>4. ASSUME Fresh', NEW i \in At("connect")'
      PROVE  \E j \in At("list")' : i < j
  <2>1. i \in Nat /\ i >= 1 /\ i + 1 \in At("connect")
    BY <1>1, <1>4
  <2>2. PICK j \in At("list") : i + 1 < j
    BY <1>4, <2>1 DEF ListsInv
  <2>3. j \in Nat /\ j > 1
    BY <1>2, <2>1, <2>2
  <2>4. j - 1 \in At("list")'
    BY <1>1, <2>2, <2>3
  <2>5. i < j - 1
    BY <2>1, <2>2, <2>3
  <2>6. QED
    BY <2>4, <2>5
<1>5. ASSUME Asked', Len(Queue') > 0 PROVE Len(Queue') \in At("list")'
  <2>1. Len(Queue) \in At("list") /\ Len(Queue) > 1
    BY <1>1, <1>5 DEF ListsInv
  <2>2. QED
    BY <1>1, <2>1
<1>6. QED
  BY <1>3, <1>4, <1>5 DEF ListsInv

(* A list that is posted is of the path it is posted for, and the last. *)
LEMMA ListPosted ==
  ASSUME WorkTypes, ListsInv, NEW t \in Tasks, Post(t), UNCHANGED <<wpc, task>>,
         t.kind = "list", t.dir = Remote'.path
  PROVE  ListsInv' /\ At("list")' # {}
<1> DEFINE n == Len(Queue) + 1
<1>1. /\ \A k : At(k)' = At(k) \cup (IF t.kind = k THEN {n} ELSE {})
      /\ Len(Queue) \in Nat /\ Len(Queue') = n /\ Queue'[n] = t
  BY QueueGrows
<1>2. n \in At("list")' /\ At("connect")' = At("connect") /\ At("list")' = At("list") \cup {n}
  BY <1>1
<1>3. \A i \in At("list") : i \in Nat /\ i <= n
  BY <1>1, QueueType
<1>4. \A i \in At("connect") : i \in Nat /\ i < n
  BY <1>1, QueueType
<1>5. \A i \in At("list")' : i <= n
  BY <1>1, <1>2, <1>3
<1> HIDE DEF n
<1>6. QED
  BY <1>1, <1>2, <1>4, <1>5 DEF ListsInv

LEMMA NotAsked ==
  ASSUME WorkTypes, ListsInv, At("list") = {}, wpc \in {"run", "publish"}
  PROVE  ~Asked
<1>1. 1 \in At(task.kind) /\ At(task.kind) \subseteq 1..Len(Queue) /\ Queue \in Seq(Tasks)
  BY QueueType
<1>2. Len(Queue) > 0
  BY <1>1
<1>3. QED
  BY <1>2 DEF ListsInv

(* What leaves the worker, the card and the server alone.                  *)
LEMMA GotStays ==
  ASSUME GotInv, UNCHANGED <<wpc, task, got, disk>>
  PROVE  GotInv'
  BY DEF GotInv

(* What stays on the connect screen, or goes there. *)
LEMMA OffScreenRead ==
  ASSUME Inv, OriginInv, ReadInv, screen' = "connect", Remote'.path = NoPath,
         UNCHANGED <<wpc, task, got, disk, wasBusy>>,
         uiPc' = "frame", wanted' \in {wanted, << >>}, Remote.needsFetch => Remote'.needsFetch
  PROVE  ReadInv'
<1>1. ~Fresh' /\ ~Asked' /\ ~Settled'
  BY DEF Fresh, Asked, Settled
<1>2. ListsInv' /\ SettledInv'
  BY <1>1 DEF ListsInv, SettledInv
<1>3. BusyInv'
  BY DEF ReadInv, BusyInv
<1>4. QED
  BY <1>2, <1>3, GotStays DEF ReadInv

LEMMA OutsideRead ==
  Inv /\ OriginInv /\ ReadInv /\ (Connect \/ GiveUp \/ Connected \/ LinkLost \/ Disconnect)
    => ReadInv'
<1> SUFFICES ASSUME Inv, OriginInv, ReadInv,
                    Connect \/ GiveUp \/ Connected \/ LinkLost \/ Disconnect
             PROVE  ReadInv'
  OBVIOUS
<1> USE DEF Inv
<1>1. CASE Connect \/ GiveUp
  <2>1. /\ screen = "connect" /\ UNCHANGED <<screen, uiPc, wasBusy, wpc, task, got, disk, wanted>>
        /\ ResetBrowser \/ UNCHANGED pane
    BY <1>1 DEF Connect, GiveUp, queue, explorer
  <2>2. uiPc = "frame" /\ Remote.path = NoPath
    BY <2>1 DEF PromptInv, OriginInv, Origin
  <2>3. Remote'.path = NoPath /\ (Remote.needsFetch => Remote'.needsFetch)
    BY <2>1, <2>2, ResetRemote DEF Remote
  <2>4. QED
    BY <2>1, <2>2, <2>3, OffScreenRead
<1>2. CASE LinkLost \/ Disconnect
  <2>1. /\ LeaveBrowser /\ uiPc' = "frame" /\ wanted' \in {wanted, << >>}
    BY <1>2 DEF LinkLost, Disconnect, EndFrame
  <2>2. ResetBrowser /\ screen' = "connect" /\ UNCHANGED <<wasBusy, wpc, task, got, disk>>
    BY <2>1 DEF LeaveBrowser
  <2>3. QED
    BY <2>1, <2>2, ResetRemote, OffScreenRead
<1>3. CASE Connected
  <2>1. /\ screen = "connect"
        /\ UNCHANGED <<pane, uiPc, machine, wasBusy, tasks, wpc, task, got, disk, wanted>>
    BY <1>3 DEF Connected, explorer, session, queue
  <2>2. Remote.path = NoPath /\ Remote' = Remote
    BY <2>1 DEF OriginInv, Origin, Remote
  <2>3. ~Fresh' /\ ~Asked'
    BY <2>1, <2>2 DEF Fresh, Asked, PromptInv
  <2>4. ListsInv' /\ SettledInv'
    BY <2>3 DEF ListsInv, SettledInv
  <2>5. BusyInv'
    BY <2>1, <2>2 DEF ReadInv, BusyInv
  <2>6. QED
    BY <2>1, <2>4, <2>5, GotStays DEF ReadInv
<1>4. QED
  BY <1>1, <1>2, <1>3

LEMMA DrawRead == Inv /\ ReadInv /\ DrawFacts => ReadInv'
<1> SUFFICES ASSUME Inv, ReadInv, DrawFacts PROVE ReadInv'
  OBVIOUS
<1> USE DEF Inv
<1>1. /\ uiPc = "frame" /\ unseen' = FALSE /\ wasBusy' = (wanted # << >>)
      /\ UNCHANGED <<screen, machine, state, listing, wpc, task, got, server, wanted, disk>>
      /\ Remote'.listing = (IF Coming THEN listing ELSE Remote.listing)
      /\ Remote.needsFetch \/ (wasBusy /\ wanted = << >>) => Remote'.needsFetch
  BY DEF DrawFacts
<1>2. GotInv'
  BY <1>1, GotStays DEF ReadInv
<1>3. BusyInv'
  <2>1. \A i \in 1..Len(wanted) : wanted # << >>
    BY DEF WorkTypes
  <2>2. QED
    BY <1>1, <2>1 DEF BusyInv
<1>4. CASE \E t \in Tasks : t.kind = "list" /\ t.dir = Remote'.path /\ Post(t)
  <2>1. ListsInv' /\ At("list")' # {}
    BY <1>1, <1>4, ListPosted DEF ReadInv
  <2>2. SettledInv'
    BY <2>1 DEF SettledInv, Settled
  <2>3. QED
    BY <1>2, <1>3, <2>1, <2>2 DEF ReadInv
<1>5. CASE /\ uiPc' = "keys" \/ machine = "LOCAL"
           /\ Remote'.path = Remote.path
           /\ UNCHANGED tasks
  <2>1. ~Asked' /\ Queue' = Queue /\ (\A k : At(k)' = At(k))
    BY <1>1, <1>5, QueueStays DEF Asked
  <2>2. Fresh' => Fresh /\ ~Remote.needsFetch /\ ~(wasBusy /\ wanted = << >>)
    BY <1>1, <1>5, <2>1, RemoteType DEF Fresh
  <2>3. ListsInv'
    BY <1>5, <2>1, <2>2, ListsStay DEF ReadInv
  <2>4. SettledInv'
    <3>1. SUFFICES ASSUME Fresh', Settled'
                   PROVE  Renewed' \/ UpToDate(IF Coming THEN listing ELSE Remote.listing)'
      BY <2>1 DEF SettledInv
    <3>2. Fresh /\ Settled /\ ~Remote.needsFetch
      BY <1>1, <2>1, <2>2, <3>1 DEF Settled
    <3>3. CASE Renewed
      BY <1>1, <2>2, <3>1, <3>3 DEF Renewed
    <3>4. CASE UpToDate(IF Coming THEN listing ELSE Remote.listing)
      <4>1. ~Coming'
        BY <1>1 DEF Coming
      <4>2. UpToDate(Remote'.listing)
        BY <1>1, <3>4
      <4>3. UpToDate(Remote.listing)'
        BY <1>1, <1>5, <4>2 DEF UpToDate
      <4>4. QED
        BY <4>1, <4>3
    <3>5. QED
      BY <3>2, <3>3, <3>4 DEF ReadInv, SettledInv
  <2>5. QED
    BY <1>2, <1>3, <2>3, <2>4 DEF ReadInv
<1>6. QED
  BY <1>4, <1>5 DEF DrawFacts

LEMMA ClearRead == Inv /\ ReadInv /\ Clear => ReadInv'
<1> SUFFICES ASSUME Inv, ReadInv, Clear PROVE ReadInv'
  OBVIOUS
<1> USE DEF Inv
<1>1. /\ uiPc = "clear" /\ uiPc' = "keys" /\ pane' = [pane EXCEPT ![machine].needsFetch = FALSE]
      /\ UNCHANGED <<screen, machine, unseen, wasBusy, state, listing, tasks, wpc, task, got,
                     server, wanted, disk>>
  BY DEF Clear, session, queue
<1>2. /\ Remote'.path = Remote.path /\ Remote'.listing = Remote.listing
      /\ machine = "REMOTE" => ~Remote'.needsFetch
      /\ machine # "REMOTE" => Remote' = Remote
  BY <1>1, RemoteType DEF UITypes, Remote, Panes, Machines
<1>3. /\ Fresh' => Fresh
      /\ ~Asked' /\ Queue' = Queue /\ \A k : At(k)' = At(k)
      /\ machine = "REMOTE" => Asked
  BY <1>1, <1>2, QueueStays DEF Fresh, Asked
<1>4. ListsInv'
  BY <1>2, <1>3, ListsStay DEF ReadInv
<1>5. BusyInv'
  <2>1. \A i \in 1..Len(wanted) : wanted # << >>
    BY DEF WorkTypes
  <2>2. wanted # << >> => wasBusy
    BY <1>1 DEF ReadInv, BusyInv
  <2>3. QED
    BY <1>1, <2>1, <2>2 DEF BusyInv
<1>6. SettledInv'
  <2>1. SUFFICES ASSUME Fresh', Settled'
                 PROVE  \/ Remote'.needsFetch \/ Renewed'
                        \/ UpToDate(IF Coming THEN listing ELSE Remote.listing)'
    BY <1>3 DEF SettledInv
  <2>2. Fresh /\ Settled
    BY <1>1, <1>3, <2>1 DEF Settled
  <2>3. \A l : UpToDate(l) => UpToDate(l)'
    BY <1>1, <1>2 DEF UpToDate
  <2>4. Coming' = Coming /\ Renewed' = Renewed
    BY <1>1, <1>2 DEF Coming, Renewed, Operates
  <2>5. CASE machine = "REMOTE"
    <3>1. Coming /\ UpToDate(listing)
      BY <1>3, <2>2, <2>5 DEF ReadInv, SettledInv
    <3>2. QED
      BY <1>1, <1>2, <2>4, <3>1 DEF UpToDate
  <2>6. CASE machine # "REMOTE"
    <3>1. Remote' = Remote
      BY <1>2, <2>6
    <3>2. QED
      BY <1>1, <2>2, <2>4, <3>1 DEF ReadInv, SettledInv, UpToDate
  <2>7. QED
    BY <2>5, <2>6
<1>7. QED
  BY <1>1, <1>4, <1>5, <1>6, GotStays DEF ReadInv

LEMMA KeyRead == Inv /\ ReadInv /\ KeyFacts => ReadInv'
<1> SUFFICES ASSUME Inv, ReadInv, KeyFacts PROVE ReadInv'
  OBVIOUS
<1> USE DEF Inv
<1>1. /\ uiPc' = "frame"
      /\ UNCHANGED <<screen, unseen, wasBusy, state, listing, wpc, task, got, server, disk>>
  BY DEF KeyFacts, Others
<1>2. /\ ~Asked'
      /\ Fresh' => /\ Fresh /\ ~Remote'.needsFetch /\ ~Remote.needsFetch
                   /\ Remote'.path = Remote.path /\ Remote'.listing = Remote.listing
  <2>1. ~Asked'
    BY <1>1 DEF Asked
  <2>2. QED
    BY <2>1, RemoteType DEF KeyFacts, Fresh
<1>3. ListsInv' /\ At("connect") \subseteq At("connect")' /\ At("list") \subseteq At("list")'
  <2>1. CASE UNCHANGED tasks
    <3>1. Queue' = Queue /\ \A k : At(k)' = At(k)
      BY <1>1, <2>1, QueueStays
    <3>2. QED
      BY <1>2, <3>1, ListsStay DEF ReadInv
  <2>2. CASE \E t \in Tasks : Post(t) /\ t.kind \in {"make", "delete", "drain"}
    <3>1. PICK t \in Tasks : Post(t) /\ t.kind \in {"make", "delete", "drain"}
      BY <2>2
    <3>2. ListsInv'
      BY <1>1, <1>2, <3>1, ListsGrow DEF ReadInv
    <3>3. \A k : At(k) \subseteq At(k)'
      <4>1. \A k : At(k)' = At(k) \cup (IF t.kind = k THEN {Len(Queue) + 1} ELSE {})
        BY <1>1, <3>1, QueueGrows
      <4>2. QED
        BY <4>1
    <3>4. QED
      BY <3>2, <3>3
  <2>3. QED
    BY <2>1, <2>2 DEF KeyFacts
<1>4. BusyInv'
  <2>1. Remote.needsFetch => Remote'.needsFetch
    BY DEF KeyFacts
  <2>2. CASE UNCHANGED wanted
    BY <1>1, <2>1, <2>2 DEF ReadInv, BusyInv
  <2>3. CASE \E r \in Requests : /\ wanted' = Append(wanted, r)
                                 /\ r.machine = "REMOTE" => Remote'.needsFetch
    <3>1. PICK r \in Requests : /\ wanted' = Append(wanted, r)
                                /\ r.machine = "REMOTE" => Remote'.needsFetch
      BY <2>3
    <3>2. /\ Len(wanted) \in Nat /\ Len(wanted') = Len(wanted) + 1
          /\ \A i \in 1..Len(wanted) : wanted'[i] = wanted[i]
          /\ wanted'[Len(wanted) + 1] = r
      BY <3>1 DEF WorkTypes
    <3>3. ASSUME NEW i \in 1..Len(wanted'), wanted'[i].machine = "REMOTE"
          PROVE  Remote'.needsFetch \/ wasBusy'
      <4>1. CASE i \in 1..Len(wanted)
        BY <1>1, <2>1, <3>2, <3>3, <4>1 DEF ReadInv, BusyInv
      <4>2. CASE i = Len(wanted) + 1
        BY <3>1, <3>2, <3>3, <4>2
      <4>3. QED
        BY <3>2, <3>3, <4>1, <4>2
    <3>4. QED
      BY <1>1, <3>3 DEF BusyInv
  <2>4. QED
    BY <2>2, <2>3 DEF KeyFacts
<1>5. SettledInv'
  <2>1. SUFFICES ASSUME Fresh', Settled'
                 PROVE  Renewed' \/ UpToDate(IF Coming THEN listing ELSE Remote.listing)'
    BY <1>2 DEF SettledInv
  <2>2. Fresh /\ Settled
    BY <1>1, <1>2, <1>3, <2>1 DEF Settled
  <2>3. ~Remote.needsFetch /\ Remote'.path = Remote.path /\ Remote'.listing = Remote.listing
    BY <1>2, <2>1
  <2>4. Renewed \/ UpToDate(IF Coming THEN listing ELSE Remote.listing)
    BY <2>2, <2>3 DEF ReadInv, SettledInv
  <2>5. Coming' = Coming /\ Renewed' = Renewed
    BY <1>1, <2>3 DEF Coming, Renewed, Operates
  <2>6. QED
    BY <1>1, <2>3, <2>4, <2>5 DEF UpToDate
<1>6. QED
  BY <1>1, <1>3, <1>4, <1>5, GotStays DEF ReadInv

(* The worker. *)
LEMMA TakeRead == Inv /\ ReadInv /\ Take => ReadInv'
<1> SUFFICES ASSUME Inv, ReadInv, Take PROVE ReadInv'
  OBVIOUS
<1> USE DEF Inv
<1>1. /\ wpc = "idle" /\ wpc' = "run"
      /\ UNCHANGED <<pane, screen, machine, uiPc, unseen, wasBusy, state, listing, server, wanted,
                     disk>>
  BY DEF Take, Worker, queue
<1>2. Queue' = Queue /\ \A k : At(k)' = At(k)
  BY QueueTaken
<1>3. /\ Remote' = Remote /\ (Fresh' <=> Fresh) /\ (Asked' <=> Asked) /\ (Settled' <=> Settled)
      /\ (Coming' <=> Coming) /\ (Renewed => Renewed')
  BY <1>1, <1>2 DEF Remote, Fresh, Asked, Settled, Coming, Renewed
<1>4. ListsInv'
  BY <1>2, <1>3, ListsStay DEF ReadInv
<1>5. BusyInv' /\ GotInv'
  BY <1>1, <1>3 DEF ReadInv, BusyInv, GotInv
<1>6. SettledInv'
  BY <1>1, <1>3 DEF ReadInv, SettledInv, UpToDate
<1>7. QED
  BY <1>4, <1>5, <1>6 DEF ReadInv

(* A task that changes the server either raises the flag when it publishes *)
(* or is a transfer, whose end raises it.                                  *)
LEMMA RunChanges ==
  ASSUME Inv, BusyInv, Run, disk'["REMOTE"] # disk["REMOTE"], ~Remote.needsFetch
  PROVE  Renewed'
<1> USE DEF Inv
<1>1. CASE /\ task.kind \in {"delete", "make"} /\ wpc' = "publish"
           /\ \E ns \in SUBSET task.names :
                 disk' = [disk EXCEPT ![task.machine][task.dir] =
                            IF task.kind = "make" THEN @ \cup ns ELSE @ \ ns]
  <2>1. PICK ns \in SUBSET task.names :
                 disk' = [disk EXCEPT ![task.machine][task.dir] =
                            IF task.kind = "make" THEN @ \cup ns ELSE @ \ ns]
    BY <1>1
  <2>2. task.machine # "REMOTE" => disk'["REMOTE"] = disk["REMOTE"]
    BY <2>1 DEF WorkTypes
  <2>3. task.machine = "REMOTE" /\ task' = task
    BY <2>2 DEF Run
  <2>4. QED
    BY <1>1, <2>3 DEF Renewed, Operates
<1>2. CASE /\ wanted # << >>
           /\ \E ns \in SUBSET (Head(wanted).names \cap disk[Head(wanted).source][Head(wanted).from]) :
                 disk' = [disk EXCEPT ![Head(wanted).machine][Head(wanted).dir] = @ \cup ns]
  <2>1. PICK ns : disk' = [disk EXCEPT ![Head(wanted).machine][Head(wanted).dir] = @ \cup ns]
    BY <1>2
  <2>2. Head(wanted) = wanted[1] /\ 1 \in 1..Len(wanted)
    BY <1>2 DEF WorkTypes
  <2>3. Head(wanted).machine # "REMOTE" => disk'["REMOTE"] = disk["REMOTE"]
    BY <2>1 DEF WorkTypes
  <2>4. wasBusy
    BY <2>2, <2>3 DEF BusyInv
  <2>5. QED
    BY <2>4 DEF Renewed, Run, Worker
<1>3. QED
  BY <1>1, <1>2 DEF Run

LEMMA RunRead == Inv /\ ReadInv /\ Run => ReadInv'
<1> SUFFICES ASSUME Inv, ReadInv, Run PROVE ReadInv'
  OBVIOUS
<1> USE DEF Inv
<1>1. /\ wpc = "run" /\ wpc' \in {"run", "publish", "after"}
      /\ wpc' = "after" => task.kind = "drain"
      /\ UNCHANGED <<pane, screen, machine, uiPc, unseen, wasBusy, state, listing, tasks, task>>
  BY DEF Run, Worker
<1>2. /\ Remote' = Remote /\ (Fresh' <=> Fresh) /\ (Asked' <=> Asked) /\ (Coming' <=> Coming)
  BY <1>1 DEF Remote, Fresh, Asked, Coming
<1>3. ListsInv'
  <2>1. CASE wpc' = "after"
    BY <1>1, <1>2, <2>1, ListsDrop DEF ReadInv
  <2>2. CASE wpc' # "after"
    BY <1>1, <1>2, <2>2, QueueStays, ListsStay DEF ReadInv
  <2>3. QED
    BY <2>1, <2>2
<1>4. BusyInv'
  <2>1. wanted' = wanted \/ (wanted # << >> /\ wanted' = Tail(wanted))
    BY DEF Run, queue
  <2>2. CASE wanted' = wanted
    BY <1>1, <1>2, <2>2 DEF ReadInv, BusyInv
  <2>3. CASE wanted # << >> /\ wanted' = Tail(wanted)
    <3>1. /\ Len(wanted) \in Nat /\ Len(wanted') = Len(wanted) - 1
          /\ \A i \in 1..Len(wanted') : i + 1 \in 1..Len(wanted) /\ wanted'[i] = wanted[i + 1]
      BY <2>3 DEF WorkTypes
    <3>2. QED
      BY <1>1, <1>2, <2>3, <3>1 DEF ReadInv, BusyInv
  <2>4. QED
    BY <2>1, <2>2, <2>3
<1>5. GotInv'
  <2>1. SUFFICES ASSUME wpc' = "publish", task.kind = "list"
                 PROVE  got'.path = task.dir /\ (got'.ok => got'.names = disk'["REMOTE"][task.dir])
    BY <1>1 DEF GotInv
  <2>2. PICK ok \in {FALSE, server # 0} :
               got' = [path |-> task.dir, of |-> server, ok |-> ok,
                       names |-> IF ok THEN disk["REMOTE"][task.dir] ELSE {}]
    BY <2>1 DEF Run
  <2>3. disk' = disk
    BY <2>1 DEF Run
  <2>4. QED
    BY <2>2, <2>3
<1>6. SettledInv'
  <2>1. SUFFICES ASSUME Fresh', Settled'
                 PROVE  ~Asked /\ (\/ Remote'.needsFetch \/ Renewed'
                                   \/ UpToDate(IF Coming THEN listing ELSE Remote.listing)')
    BY <1>2 DEF SettledInv
  <2>2. At("list") = {} /\ At("connect") = {}
    <3>1. At("list")' = {} /\ At("connect")' = {}
      BY <2>1 DEF Settled
    <3>2. CASE wpc' = "after"
      <4>1. /\ \A i \in At("list") : i - 1 \in At("list")'
            /\ \A i \in At("connect") : i - 1 \in At("connect")'
        BY <1>1, <3>2, QueueDrops
      <4>2. QED
        BY <3>1, <4>1
    <3>3. CASE wpc' # "after"
      BY <1>1, <3>1, <3>3, QueueStays
    <3>4. QED
      BY <3>2, <3>3
  <2>3. task.kind # "connect"
    BY <1>1, <2>2, QueueType
  <2>4. Settled
    <3>1. server' \in {0, server}
      BY <2>3 DEF Run
    <3>2. QED
      BY <1>1, <2>1, <2>2, <3>1 DEF Settled
  <2>5. ~Asked
    BY <1>1, <2>2, NotAsked DEF ReadInv
  <2>6. ~Remote.needsFetch /\ (Renewed \/ UpToDate(IF Coming THEN listing ELSE Remote.listing))
    BY <1>2, <2>1, <2>4, <2>5, RemoteType DEF ReadInv, SettledInv, Fresh
  <2>7. CASE Renewed
    BY <1>1, <2>5, <2>7 DEF Renewed
  <2>8. CASE disk'["REMOTE"] # disk["REMOTE"]
    BY <2>5, <2>6, <2>8, RunChanges DEF ReadInv
  <2>9. CASE ~Renewed /\ disk'["REMOTE"] = disk["REMOTE"]
    <3>1. UpToDate(IF Coming THEN listing ELSE Remote.listing)
      BY <2>6, <2>9
    <3>2. UpToDate(IF Coming THEN listing ELSE Remote.listing)'
      BY <1>1, <1>2, <2>9, <3>1 DEF UpToDate
    <3>3. QED
      BY <2>5, <3>2
  <2>10. QED
    BY <2>5, <2>7, <2>8, <2>9
<1>7. QED
  BY <1>3, <1>4, <1>5, <1>6 DEF ReadInv

LEMMA PublishRead == Inv /\ ReadInv /\ Publish => ReadInv'
<1> SUFFICES ASSUME Inv, ReadInv, Publish PROVE ReadInv'
  OBVIOUS
<1> USE DEF Inv
<1>1. /\ wpc = "publish" /\ wpc' = "after"
      /\ UNCHANGED <<screen, machine, uiPc, wasBusy, tasks, task, got, server, wanted, disk>>
  BY DEF Publish, Worker, queue
<1>2. /\ Remote'.path = Remote.path /\ Remote'.listing = Remote.listing
      /\ Remote'.needsFetch = (Remote.needsFetch \/ Operates(task, "REMOTE"))
      /\ Remote.needsFetch => Remote'.needsFetch
  BY PublishFlag, RemoteType
<1>3. (Fresh' => Fresh) /\ (Asked' <=> Asked)
  BY <1>1, <1>2 DEF Fresh, Asked
<1>4. ListsInv'
  BY <1>1, <1>2, <1>3, ListsDrop DEF ReadInv
<1>5. BusyInv' /\ GotInv'
  BY <1>1, <1>2 DEF ReadInv, BusyInv, GotInv
<1>6. SettledInv'
  <2>1. SUFFICES ASSUME Fresh', Settled'
                 PROVE  /\ Asked => Coming' /\ UpToDate(listing)'
                        /\ \/ Remote'.needsFetch \/ Renewed'
                           \/ UpToDate(IF Coming THEN listing ELSE Remote.listing)'
    BY <1>3 DEF SettledInv
  <2>2. /\ At("list")' = {} /\ At("connect")' = {} /\ state' = "CONNECTED"
        /\ 1 \in At(task.kind)
        /\ \A k : \A i \in At(k) : (i = 1 /\ task.kind = k) \/ (i > 1 /\ i - 1 \in At(k)')
    BY <1>1, <2>1, QueueDrops DEF Settled
  <2>3. \A i \in At("list") : i = 1
    BY <2>2
  <2>4. task.kind # "connect"
    <3>1. SUFFICES ASSUME task.kind = "connect" PROVE FALSE
      OBVIOUS
    <3>2. PICK j \in At("list") : 1 < j
      BY <1>3, <2>1, <2>2, <3>1 DEF ReadInv, ListsInv
    <3>3. QED
      BY <2>3, <3>2
  <2>5. CASE task.kind = "list"
    <3>1. task.dir = Remote.path
      <4>1. 1 \in At("list")
        BY <2>2, <2>5
      <4>2. \E j \in At("list") : Queue[j].dir = Remote.path
        BY <1>3, <2>1, <4>1 DEF ReadInv, ListsInv
      <4>3. Queue[1].dir = Remote.path
        BY <2>3, <4>2
      <4>4. QED
        BY <1>1, <4>3, QueueType
    <3>2. listing' = got /\ unseen' = TRUE
      BY <2>5 DEF Publish
    <3>3. got.path = Remote.path /\ (got.ok => got.names = disk["REMOTE"][Remote.path])
      BY <1>1, <2>5, <3>1 DEF ReadInv, GotInv
    <3>4. Coming' /\ UpToDate(listing)'
      BY <1>1, <1>2, <3>2, <3>3 DEF Coming, UpToDate
    <3>5. QED
      BY <3>4
  <2>6. CASE task.kind = "disconnect"
    BY <2>2, <2>6 DEF Publish
  <2>7. CASE task.kind \in {"delete", "make"}
    <3>1. UNCHANGED <<unseen, state, listing>>
      BY <2>7 DEF Publish
    <3>2. At("list") = {} /\ At("connect") = {}
      BY <2>2, <2>7
    <3>3. Fresh /\ Settled /\ ~Asked
      BY <1>1, <1>3, <2>1, <3>1, <3>2, NotAsked DEF Settled, ReadInv
    <3>4. CASE Operates(task, "REMOTE")
      BY <1>2, <1>3, <3>3, <3>4 DEF Fresh, Asked, SettledInv
    <3>5. CASE ~Operates(task, "REMOTE")
      <4>1. ~Remote.needsFetch
        BY <3>3 DEF Fresh
      <4>2. Renewed \/ UpToDate(IF Coming THEN listing ELSE Remote.listing)
        BY <3>3, <4>1 DEF ReadInv, SettledInv
      <4>3. Renewed => Renewed'
        BY <1>1, <3>5 DEF Renewed
      <4>4. Coming' <=> Coming
        BY <1>2, <3>1 DEF Coming
      <4>5. QED
        BY <1>1, <1>2, <3>1, <3>3, <4>2, <4>3, <4>4 DEF UpToDate
    <3>6. QED
      BY <3>4, <3>5
  <2>8. QED
    BY <2>4, <2>5, <2>6, <2>7 DEF Publish
<1>7. QED
  BY <1>4, <1>5, <1>6 DEF ReadInv

LEMMA AfterRead == Inv /\ ReadInv /\ (After \/ LinkDrops) => ReadInv'
<1> SUFFICES ASSUME Inv, ReadInv, After \/ LinkDrops PROVE ReadInv'
  OBVIOUS
<1> USE DEF Inv
<1>1. /\ UNCHANGED <<pane, screen, machine, uiPc, unseen, wasBusy, tasks, wanted, disk>>
      /\ wpc \notin {"publish"} /\ wpc' \notin {"publish"}
      /\ server' = 0 \/ state' = "LOST" \/ UNCHANGED <<server, state, listing>>
  BY DEF After, LinkDrops, Worker, queue
<1>2. Queue' = Queue /\ \A k : At(k)' = At(k)
  BY QueueStays DEF After, LinkDrops
<1>3. /\ Remote' = Remote /\ (Fresh' <=> Fresh) /\ (Asked' <=> Asked) /\ (Renewed' <=> Renewed)
  BY <1>1 DEF Remote, Fresh, Asked, Renewed
<1>4. ListsInv'
  BY <1>2, <1>3, ListsStay DEF ReadInv
<1>5. BusyInv' /\ GotInv'
  BY <1>1, <1>3 DEF ReadInv, BusyInv, GotInv
<1>6. SettledInv'
  <2>1. CASE server' = 0 \/ state' = "LOST"
    BY <2>1 DEF SettledInv, Settled
  <2>2. CASE UNCHANGED <<server, state, listing>>
    <3>1. (Settled' <=> Settled) /\ (Coming' <=> Coming)
      BY <1>1, <1>2, <1>3, <2>2 DEF Settled, Coming
    <3>2. QED
      BY <1>1, <1>3, <2>2, <3>1 DEF ReadInv, SettledInv, UpToDate
  <2>3. QED
    BY <1>1, <2>1, <2>2
<1>7. QED
  BY <1>4, <1>5, <1>6 DEF ReadInv

LEMMA StepRead == Inv /\ OriginInv /\ ReadInv /\ [Next]_vars => ReadInv'
<1> SUFFICES ASSUME Inv, OriginInv, ReadInv, [Next]_vars PROVE ReadInv'
  OBVIOUS
<1>1. CASE UNCHANGED vars
  <2>1. UNCHANGED <<pane, screen, machine, uiPc, unseen, wasBusy, state, listing, tasks, wpc, task,
                    got, server, wanted, disk>>
    BY <1>1 DEF vars, explorer, session, queue
  <2>2. Queue' = Queue /\ Remote' = Remote /\ \A k : At(k)' = At(k)
    BY <2>1 DEF Queue, Remote, At
  <2>3. (Fresh' <=> Fresh) /\ (Asked' <=> Asked) /\ (Settled' <=> Settled)
        /\ (Coming' <=> Coming) /\ (Renewed' <=> Renewed)
    BY <2>1, <2>2 DEF Fresh, Asked, Settled, Coming, Renewed
  <2>4. ListsInv'
    BY <2>2, <2>3, ListsStay DEF ReadInv
  <2>5. BusyInv' /\ GotInv'
    BY <2>1, <2>2 DEF ReadInv, BusyInv, GotInv
  <2>6. SettledInv'
    BY <2>1, <2>2, <2>3 DEF ReadInv, SettledInv, UpToDate
  <2>7. QED
    BY <2>4, <2>5, <2>6 DEF ReadInv
<1>2. CASE UI
  BY <1>2, OutsideRead, DrawStep, DrawRead, ClearRead, KeyStep, KeyRead DEF UI
<1>3. QED
  BY <1>1, <1>2, TakeRead, RunRead, PublishRead, AfterRead DEF Next

(* Rows that are behind the server's folder will be read again.            *)
LEMMA BehindIsListed ==
  ASSUME Inv, ReadInv
  PROVE  RemoteIsReadAgain
<1> USE DEF Inv
<1>1. SUFFICES ASSUME screen = "browser", state = "CONNECTED", server # 0, Behind("REMOTE"),
                      ~WillRefresh("REMOTE")
               PROVE  BeingListed(Remote.path)
  BY DEF RemoteIsReadAgain, Remote
<1>2. Fresh /\ ~Remote.needsFetch /\ ~Renewed
  BY <1>1 DEF Behind, WillRefresh, Fresh, Renewed, Remote
<1>3. CASE At("list") # {}
  <2>1. PICK j \in At("list") : Queue[j].dir = Remote.path
    BY <1>2, <1>3 DEF ReadInv, ListsInv
  <2>2. j \in 1..Len(Queue) /\ Queue[j].kind = "list"
    BY <2>1 DEF At
  <2>3. CASE wpc \in {"run", "publish"}
    <3>1. Queue = <<task>> \o tasks /\ tasks \in Seq(Tasks)
      BY <2>3, QueueType
    <3>2. CASE j = 1
      BY <2>1, <2>2, <2>3, <3>2, QueueType DEF BeingListed
    <3>3. CASE j # 1
      <4>1. j - 1 \in 1..Len(tasks) /\ tasks[j - 1] = Queue[j]
        BY <2>2, <3>1, <3>3
      <4>2. QED
        BY <2>1, <2>2, <4>1 DEF BeingListed
    <3>4. QED
      BY <3>2, <3>3
  <2>4. CASE wpc \notin {"run", "publish"}
    BY <2>1, <2>2, <2>4, QueueType DEF BeingListed
  <2>5. QED
    BY <2>3, <2>4
<1>4. CASE At("list") = {}
  <2>1. At("connect") = {}
    BY <1>2, <1>4 DEF ReadInv, ListsInv
  <2>2. UpToDate(IF Coming THEN listing ELSE Remote.listing)
    BY <1>1, <1>2, <1>4, <2>1 DEF ReadInv, SettledInv, Settled
  <2>3. CASE Coming
    BY <2>3 DEF Coming, BeingListed
  <2>4. CASE ~Coming
    BY <1>1, <2>2, <2>4 DEF UpToDate, Behind, Remote
  <2>5. QED
    BY <2>3, <2>4
<1>5. QED
  BY <1>3, <1>4

(* screenActions.cpp, "re-read the affected side once a worker operation   *)
(* has finished": a folder of the server that one of our tasks has changed *)
(* is listed again, although the worker raises needsFetch on its own       *)
(* thread and the user interface may lower it again.                       *)
THEOREM RemoteIsAlwaysReadAgain == Spec => []RemoteIsReadAgain
<1>1. Init => Inv /\ OriginInv /\ ReadInv
  BY InitInv, InitOrigin, InitRead
<1>2. Inv /\ OriginInv /\ ReadInv /\ [Next]_vars => (Inv /\ OriginInv /\ ReadInv)'
  BY StepInv, StepOrigin, StepRead
<1>3. Inv /\ ReadInv => RemoteIsReadAgain
  BY BehindIsListed
<1>4. QED
  BY <1>1, <1>2, <1>3, PTL DEF Spec

=============================================================================
