------------------------------- MODULE Slots --------------------------------
(***************************************************************************)
(* The saved servers: config/config.cpp, which keeps them in memory and in *)
(* one file of the card, and ui/screenConnect.cpp, which edits them.       *)
(*                                                                         *)
(* save() empties the file and writes it anew, record after record, and    *)
(* nobody looks at its result: the file may not open, the card may be full *)
(* after any byte, and the console may lose power in the middle.  What is  *)
(* then on the card is what the next start of the program reads.           *)
(*                                                                         *)
(* The screen looks at the session in every frame, also while a prompt is  *)
(* up: a connect that fails puts a notice in its place, one that succeeds  *)
(* opens the browser under it.  The key of the frame, unless a prompt was  *)
(* up when it began, goes to the connect screen after that look, even when *)
(* it has just been left.  The session is external here (Session): its     *)
(* tasks may set its state at any moment.                                  *)
(***************************************************************************)
EXTENDS Integers

CONSTANTS
    SLOT_COUNT,
    Hosts,         \* the servers a user may type
    MaxConnects    \* bound on the connects that the worker has not ended

ASSUME SlotsAssumption == {SLOT_COUNT, MaxConnects} \subseteq Nat

None  == 0                                        \* s_lastUsed is -1
Index == 1..SLOT_COUNT

(* A slot is told by its host.  Of one that is not whole a beginning is    *)
(* left: the fields after the cut are missing, and what remains of the     *)
(* line at the cut, be it the host's, is read as its value.                *)
NoHost     == "no host"
Empty      == [host |-> NoHost, whole |-> TRUE]
Whole(h)   == [host |-> h, whole |-> TRUE]
Part(slot) == [slot EXCEPT !.whole = FALSE]

VARIABLES
    on,        \* the program runs
    slots,     \* s_slots
    last,      \* s_lastUsed
    file,      \* config.cfg: the slots and the last one
    mode,      \* s_mode
    editing,   \* s_editingSlot
    draft,     \* s_draft
    prompt,    \* "none", "delete" or "notice"
    screen,    \* "connect" or "browser"
    turn,      \* "frame", or "keys" when the screen may use the frame's key
    state,     \* session::state()
    connects,  \* connects that the worker has not ended
    asked,     \* history: the slot the prompt asked about
    saved,     \* history: what the last save that opened the file was to write,
               \* or what was read when the program started
    cut,       \* history: it did not write all of it
    refused    \* history: a later save could not open the file

memory  == <<slots, last>>
ui      == <<mode, editing, draft>>
session == <<state, connects>>
card    == <<file, saved, cut, refused>>
vars    == <<on, memory, card, ui, prompt, asked, screen, turn, session>>

AllEmpty == [i \in Index |-> Empty]
NoFile   == [slots |-> AllEmpty, last |-> None]

----------------------------------------------------------------------------
(* Faulty variants of definitions below. *)

KeysAlways == "keys"                             \* the screen gets keys under a prompt
LoadAsIs ==                                      \* the last used slot may be empty
    slots' = file.slots /\ last' = file.last

----------------------------------------------------------------------------
(* config.cpp *)

(* What a save can leave: nothing of the records after the cut, and of the *)
(* record at the cut nothing or a part.                                    *)
CutAt(k) ==
    {[i \in Index |-> IF i < k THEN slots'[i] ELSE IF i = k THEN c ELSE Empty] :
        c \in {Empty} \cup IF slots'[k] = Empty THEN {} ELSE {Part(slots'[k])}}

(* save() with the slots as they are by now. *)
SaveWhole ==
    /\ file' = [slots |-> slots', last |-> last']
    /\ saved' = file' /\ cut' = FALSE /\ refused' = FALSE

(* The card is full, or the power goes: PowerOff follows. *)
SaveCut ==
    /\ \E k \in Index, l \in {None, last'} :
          \E s \in CutAt(k) :
             /\ l = None => s = AllEmpty
             /\ file' = [slots |-> s, last |-> l]
    /\ saved' = [slots |-> slots', last |-> last'] /\ cut' = TRUE /\ refused' = FALSE

SaveRefused ==
    /\ refused' = TRUE
    /\ UNCHANGED <<file, saved, cut>>

Save == SaveWhole \/ SaveCut \/ SaveRefused

(* load(): a last used slot that is empty is none. *)
Load ==
    /\ slots' = file.slots
    /\ last' = IF file.last # None /\ file.slots[file.last] # Empty THEN file.last ELSE None

Init ==
    /\ on = TRUE
    /\ slots = AllEmpty /\ last = None /\ file = NoFile
    /\ mode = "HOME" /\ editing = None /\ draft = Empty
    /\ prompt = "none" /\ asked = None
    /\ screen = "connect" /\ turn = "frame" /\ state = "DISCONNECTED" /\ connects = 0
    /\ saved = NoFile /\ cut = FALSE /\ refused = FALSE

PowerOff ==
    /\ on
    /\ on' = FALSE
    /\ UNCHANGED <<memory, card, ui, prompt, asked, screen, turn, session>>

Start ==
    /\ ~on
    /\ on' = TRUE
    /\ Load
    /\ mode' = "HOME" /\ editing' = None /\ draft' = Empty
    /\ prompt' = "none" /\ asked' = None
    /\ screen' = "connect" /\ turn' = "frame" /\ state' = "DISCONNECTED" /\ connects' = 0
    /\ saved' = [slots |-> slots', last |-> last'] /\ cut' = FALSE /\ refused' = FALSE
    /\ UNCHANGED file

----------------------------------------------------------------------------
(* screenConnect.cpp *)

(* Who has the keys is decided when the frame begins. *)
KeysOfFrame == IF prompt = "none" THEN "keys" ELSE "frame"

(* pollConnection() *)
Poll ==
    /\ on /\ screen = "connect" /\ turn = "frame"
    /\ turn' = KeysOfFrame
    /\ IF state = "FAILED" THEN prompt' = "notice" /\ asked' = None /\ state' = "DISCONNECTED"
                           ELSE UNCHANGED <<prompt, asked, state>>
    /\ screen' = IF state = "CONNECTED" THEN "browser" ELSE screen
    /\ UNCHANGED <<on, memory, card, ui, connects>>

(* The screen gets the key, and it is not waiting for a connect. *)
HasKeys == on /\ turn = "keys" /\ turn' = "frame"
Ready   == HasKeys /\ state # "CONNECTING"

NoKey ==
    /\ HasKeys
    /\ UNCHANGED <<on, memory, card, ui, prompt, asked, screen, session>>

SameScreen == UNCHANGED <<prompt, asked, screen>>

OpenList ==
    /\ Ready /\ mode = "HOME"
    /\ mode' = "LIST"
    /\ SameScreen /\ UNCHANGED <<on, memory, card, editing, draft, session>>

(* B: back to the home screen, or the draft is dropped. *)
Back ==
    /\ Ready /\ mode \in {"LIST", "EDIT"}
    /\ mode' = IF mode = "EDIT" THEN "LIST" ELSE "HOME"
    /\ draft' = Empty
    /\ SameScreen /\ UNCHANGED <<on, memory, card, editing, session>>

(* connectTo(): from the home screen the last used slot, which may have    *)
(* been emptied since, from the list any.                                  *)
ConnectTo(i) ==
    /\ Ready /\ connects < MaxConnects
    /\ mode = "LIST" \/ (mode = "HOME" /\ i = last)
    /\ slots[i] # Empty
    /\ last' = i /\ UNCHANGED slots
    /\ Save
    /\ state' = "CONNECTING" /\ connects' = connects + 1
    /\ SameScreen /\ UNCHANGED <<on, ui>>

OpenEditor(i) ==
    /\ Ready /\ mode = "LIST"
    /\ mode' = "EDIT" /\ editing' = i /\ draft' = slots[i]
    /\ SameScreen /\ UNCHANGED <<on, memory, card, session>>

(* The keyboard, which may be given nothing. *)
EditField ==
    /\ Ready /\ mode = "EDIT"
    /\ draft' \in {Whole(h) : h \in Hosts} \cup {Empty}
    /\ SameScreen /\ UNCHANGED <<on, memory, card, mode, editing, session>>

SaveSlot ==
    /\ Ready /\ mode = "EDIT"
    /\ IF draft = Empty
       THEN /\ prompt' = "notice"
            /\ UNCHANGED <<memory, card, mode, draft>>
       ELSE /\ slots' = [slots EXCEPT ![editing] = draft]
            /\ UNCHANGED <<last, prompt>>
            /\ Save
            /\ mode' = "LIST" /\ draft' = Empty
    /\ UNCHANGED <<on, asked, screen, editing, session>>

AskDelete ==
    /\ Ready /\ mode = "EDIT"
    /\ prompt' = "delete" /\ asked' = editing
    /\ UNCHANGED <<on, memory, card, screen, ui, session>>

(* The prompt has the keys. *)
Answer ==
    /\ on /\ turn = "frame" /\ prompt # "none"
    /\ prompt' = "none" /\ asked' = None
    /\ \/ /\ prompt = "delete"
          /\ slots' = [slots EXCEPT ![editing] = Empty]
          /\ UNCHANGED last
          /\ Save
          /\ mode' = "LIST" /\ draft' = Empty
       \/ UNCHANGED <<memory, card, mode, draft>>
    /\ UNCHANGED <<on, screen, turn, editing, session>>

(* B while the worker connects. *)
Abort ==
    /\ HasKeys /\ state = "CONNECTING"
    /\ state' = "DISCONNECTED"
    /\ UNCHANGED <<on, memory, card, ui, prompt, asked, screen, connects>>

----------------------------------------------------------------------------
(* The session: a connect ends, aborted or not, as does a disconnect; a    *)
(* browser is left, by the user or because the link was lost.              *)

Outcome ==
    /\ on /\ connects > 0
    /\ connects' = connects - 1
    /\ state' \in {"CONNECTED", "FAILED"}
    /\ UNCHANGED <<on, memory, card, ui, prompt, asked, screen, turn>>

Disconnected ==
    /\ on /\ state # "DISCONNECTED"
    /\ state' = "DISCONNECTED"
    /\ UNCHANGED <<on, memory, card, ui, prompt, asked, screen, turn, connects>>

LeaveBrowser ==
    /\ on /\ screen = "browser" /\ turn = "frame"
    /\ screen' = "connect" /\ state' = "DISCONNECTED"
    /\ prompt' \in IF prompt = "none" THEN {"none", "notice"} ELSE {"notice"}
    /\ asked' = None
    /\ UNCHANGED <<on, memory, card, ui, turn, connects>>

Next ==
    \/ PowerOff \/ Start
    \/ Poll \/ NoKey \/ OpenList \/ Back \/ EditField \/ SaveSlot \/ AskDelete \/ Answer \/ Abort
    \/ \E i \in Index : OpenEditor(i) \/ ConnectTo(i)
    \/ Outcome \/ Disconnected \/ LeaveBrowser

Spec == Init /\ [][Next]_vars

----------------------------------------------------------------------------
(* Properties. *)

(* What the program finds when it starts again.  After a save that was     *)
(* whole: exactly what was in memory when the power went.  After one that  *)
(* was cut, by a full card or the power: each slot as it was to be saved,  *)
(* empty, or a beginning of it, never another one's.                       *)
(* After saves that were refused: what was saved before them.  The last    *)
(* used slot is never an empty one.                                        *)
RestartFindsWhatWasSaved ==
    [][~on /\ on' =>
          /\ \A i \in Index :
                slots'[i] = saved.slots[i] \/ (cut /\ slots'[i] \in {Empty, Part(saved.slots[i])})
          /\ ~refused => saved = [slots |-> slots, last |-> last]
          /\ last' # None => slots'[last'] # Empty /\ last' = saved.last]_vars

(* A slot is only emptied by the answer to a question about that slot,     *)
(* whatever the session does to the screen and to the prompt meanwhile:    *)
(* the callback reads s_editingSlot when it is called (screenConnect.cpp), *)
(* and a draft without a host is not saved.                                *)
EmptiesTheSlotAskedAbout ==
    [][on /\ on' =>
          \A i \in Index : slots[i] # Empty /\ slots'[i] = Empty => prompt = "delete" /\ asked = i]_vars

=============================================================================
