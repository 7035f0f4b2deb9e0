----------------------------- MODULE SlotsProofs -----------------------------
(***************************************************************************)
(* Theorems about Slots, for any number of slots, any hosts and any number *)
(* of connects that pile up.                                               *)
(*                                                                         *)
(* Two inductive invariants.  CardInv says what the file may differ in     *)
(* from what the last save was to write, at any moment and not only when   *)
(* the program starts.  PromptInv says that the question about a slot is   *)
(* up only while no key reaches the editor, so that s_editingSlot is still *)
(* the slot of the question when the callback reads it.                    *)
(***************************************************************************)
EXTENDS Slots, TLAPS

Slot == [host : Hosts \cup {NoHost}, whole : BOOLEAN]

(* Slots and the last of them, in memory or on the card. *)
Config == [slots : [Index -> Slot], last : Index \cup {None}]

TypeInv ==
    /\ slots \in [Index -> Slot] /\ last \in Index \cup {None}
    /\ file \in Config
    /\ editing \in Index \cup {None} /\ draft \in Slot

(* The slot i of the file is that of s, or, after a cut, what is left of it. *)
Left(i, s) == file.slots[i] = s.slots[i] \/ (cut /\ file.slots[i] \in {Empty, Part(s.slots[i])})

CardInv ==
    /\ \A i \in Index : Left(i, saved)
    /\ ~refused => saved = [slots |-> slots, last |-> last]
    /\ file.last # None /\ file.slots[file.last] # Empty => file.last = saved.last

PromptInv == prompt = "delete" => asked = editing /\ turn = "frame"

----------------------------------------------------------------------------
(* What a slot can be. *)

LEMMA EmptyIsSlot == Empty \in Slot
  BY DEF Empty, Slot, NoHost

LEMMA WholeIsSlot == ASSUME NEW h \in Hosts PROVE Whole(h) \in Slot
  BY DEF Whole, Slot

LEMMA PartIsSlot == ASSUME NEW s \in Slot PROVE Part(s) \in Slot
  BY DEF Part, Slot

(* None is no index. *)
LEMMA NoneIsNoIndex == None \notin Index
  BY SlotsAssumption DEF None, Index

----------------------------------------------------------------------------
(* save(): whatever it writes, the file is a configuration, and it stands  *)
(* in the relation to memory that CardInv asks for.                        *)
LEMMA CutIsConfig ==
  ASSUME NEW k \in Index, slots' \in [Index -> Slot], NEW s \in CutAt(k)
  PROVE  /\ s \in [Index -> Slot]
         /\ \A i \in Index : s[i] = slots'[i] \/ s[i] \in {Empty, Part(slots'[i])}
<1>1. PICK c \in {Empty} \cup (IF slots'[k] = Empty THEN {} ELSE {Part(slots'[k])}) :
        s = [i \in Index |-> IF i < k THEN slots'[i] ELSE IF i = k THEN c ELSE Empty]
  BY DEF CutAt
<1>2. c \in {Empty, Part(slots'[k])}
  BY <1>1
<1>3. c \in Slot
  BY <1>2, EmptyIsSlot, PartIsSlot
<1>4. QED
  BY <1>1, <1>2, <1>3, EmptyIsSlot

LEMMA SaveKeeps ==
  ASSUME TypeInv, CardInv, Save,
         slots' \in [Index -> Slot], last' \in Index \cup {None}
  PROVE  file' \in Config /\ CardInv'
<1>1. CASE SaveWhole
  BY <1>1 DEF SaveWhole, Config, CardInv, Left
<1>2. CASE SaveCut
  <2>0. PICK k \in Index, l \in {None, last'} :
          \E s \in CutAt(k) : (l = None => s = AllEmpty) /\ file' = [slots |-> s, last |-> l]
    BY <1>2 DEF SaveCut
  <2>1. PICK s \in CutAt(k) : (l = None => s = AllEmpty) /\ file' = [slots |-> s, last |-> l]
    BY <2>0
  <2>2. /\ s \in [Index -> Slot]
        /\ \A i \in Index : s[i] = slots'[i] \/ s[i] \in {Empty, Part(slots'[i])}
    BY <2>1, CutIsConfig
  <2>3. /\ saved' = [slots |-> slots', last |-> last']
        /\ cut' = TRUE
        /\ refused' = FALSE
    BY <1>2 DEF SaveCut
  <2>4. file' \in Config
    BY <2>1, <2>2 DEF Config
  <2>5. \A i \in Index : Left(i, saved)'
    BY <2>1, <2>2, <2>3 DEF Left
  <2>6. QED
    BY <2>1, <2>3, <2>4, <2>5 DEF CardInv
<1>3. CASE SaveRefused
  BY <1>3 DEF SaveRefused, CardInv, Left, TypeInv
<1>4. QED
  BY <1>1, <1>2, <1>3 DEF Save

----------------------------------------------------------------------------

LEMMA InitHolds == Init => TypeInv /\ CardInv /\ PromptInv
<1>1. AllEmpty \in [Index -> Slot]
  BY EmptyIsSlot DEF AllEmpty
<1>2. QED
  BY <1>1, EmptyIsSlot DEF Init, TypeInv, CardInv, Left, PromptInv, NoFile, Config

(* An action that leaves memory, card, editor and prompt alone. *)
LEMMA Unmoved ==
  ASSUME TypeInv, CardInv, UNCHANGED <<memory, card>>,
         editing' \in Index \cup {None}, draft' \in Slot
  PROVE  TypeInv' /\ CardInv'
  BY DEF TypeInv, CardInv, Left, memory, card

LEMMA StartHolds ==
  ASSUME TypeInv, CardInv, Start
  PROVE  TypeInv' /\ CardInv'
<1>1. /\ slots' = file.slots
      /\ last' = IF file.last # None /\ file.slots[file.last] # Empty THEN file.last ELSE None
      /\ editing' = None /\ draft' = Empty
      /\ saved' = [slots |-> slots', last |-> last'] /\ file' = file
  BY DEF Start, Load
<1>2. slots' \in [Index -> Slot] /\ last' \in Index \cup {None}
  BY <1>1 DEF TypeInv, Config
<1>3. TypeInv'
  BY <1>1, <1>2, EmptyIsSlot DEF TypeInv
<1>4. CardInv'
  BY <1>1 DEF CardInv, Left
<1>5. QED
  BY <1>3, <1>4

LEMMA ConnectHolds ==
  ASSUME TypeInv, CardInv, NEW i \in Index, ConnectTo(i)
  PROVE  TypeInv' /\ CardInv'
<1>1. slots' \in [Index -> Slot] /\ last' \in Index \cup {None} /\ Save
  BY DEF ConnectTo, TypeInv
<1>2. file' \in Config /\ CardInv'
  BY <1>1, SaveKeeps
<1>3. QED
  BY <1>1, <1>2 DEF ConnectTo, TypeInv, ui

LEMMA SaveSlotHolds ==
  ASSUME TypeInv, CardInv, SaveSlot
  PROVE  TypeInv' /\ CardInv'
<1>1. CASE draft = Empty
  BY <1>1, Unmoved DEF SaveSlot, TypeInv
<1>2. CASE draft # Empty
  <2>1. /\ slots' = [slots EXCEPT ![editing] = draft] /\ last' = last
        /\ Save /\ draft' = Empty /\ editing' = editing
    BY <1>2 DEF SaveSlot
  <2>2. slots' \in [Index -> Slot] /\ last' \in Index \cup {None}
    BY <2>1 DEF TypeInv
  <2>3. file' \in Config /\ CardInv'
    BY <2>1, <2>2, SaveKeeps
  <2>4. QED
    BY <2>1, <2>2, <2>3, EmptyIsSlot DEF TypeInv
<1>3. QED
  BY <1>1, <1>2

LEMMA AnswerHolds ==
  ASSUME TypeInv, CardInv, Answer
  PROVE  TypeInv' /\ CardInv'
<1>1. CASE UNCHANGED <<memory, card, mode, draft>>
  BY <1>1, Unmoved DEF Answer, TypeInv
<1>2. CASE /\ slots' = [slots EXCEPT ![editing] = Empty]
           /\ last' = last /\ Save /\ draft' = Empty
  <2>1. slots' \in [Index -> Slot] /\ last' \in Index \cup {None}
    BY <1>2, EmptyIsSlot DEF TypeInv
  <2>2. file' \in Config /\ CardInv'
    BY <1>2, <2>1, SaveKeeps
  <2>3. QED
    BY <1>2, <2>1, <2>2, EmptyIsSlot DEF Answer, TypeInv
<1>3. QED
  BY <1>1, <1>2 DEF Answer

LEMMA CardStep == TypeInv /\ CardInv /\ [Next]_vars => TypeInv' /\ CardInv'
<1>. SUFFICES ASSUME TypeInv, CardInv, [Next]_vars PROVE TypeInv' /\ CardInv'
  OBVIOUS
<1>1. CASE Start
  BY <1>1, StartHolds
<1>2. CASE \E i \in Index : ConnectTo(i)
  BY <1>2, ConnectHolds
<1>3. CASE SaveSlot
  BY <1>3, SaveSlotHolds
<1>4. CASE Answer
  BY <1>4, AnswerHolds
<1>5. CASE \E i \in Index : OpenEditor(i)
  BY <1>5, Unmoved DEF OpenEditor, TypeInv
<1>6. CASE EditField
  BY <1>6, Unmoved, EmptyIsSlot, WholeIsSlot DEF EditField, TypeInv
<1>7. CASE Back
  BY <1>7, Unmoved, EmptyIsSlot DEF Back, TypeInv
<1>8. CASE OpenList
  BY <1>8, Unmoved DEF OpenList, TypeInv
<1>9. CASE PowerOff \/ Poll \/ NoKey \/ AskDelete \/ Abort \/ Outcome \/ Disconnected \/ LeaveBrowser
  BY <1>9, Unmoved
  DEF PowerOff, Poll, NoKey, AskDelete, Abort, Outcome, Disconnected, LeaveBrowser, TypeInv, ui
<1>10. CASE UNCHANGED vars
  BY <1>10, Unmoved DEF vars, ui, TypeInv
<1>11. QED
  BY <1>1, <1>2, <1>3, <1>4, <1>5, <1>6, <1>7, <1>8, <1>9, <1>10 DEF Next

LEMMA PromptStep == PromptInv /\ [Next]_vars => PromptInv'
<1>. SUFFICES ASSUME PromptInv, [Next]_vars PROVE PromptInv'
  OBVIOUS
<1>1. CASE PowerOff \/ Start \/ Answer \/ Outcome \/ Disconnected \/ LeaveBrowser \/ UNCHANGED vars
  BY <1>1 DEF PowerOff, Start, Answer, Outcome, Disconnected, LeaveBrowser, vars, ui, PromptInv
<1>2. CASE Poll
  BY <1>2 DEF Poll, KeysOfFrame, ui, PromptInv
<1>3. CASE AskDelete
  BY <1>3 DEF AskDelete, Ready, HasKeys, ui, PromptInv
<1>4. CASE NoKey \/ OpenList \/ Back \/ EditField \/ SaveSlot \/ Abort
           \/ \E i \in Index : OpenEditor(i) \/ ConnectTo(i)
  <2>1. prompt # "delete"
    BY <1>4 DEF NoKey, OpenList, Back, EditField, SaveSlot, Abort, OpenEditor, ConnectTo, Ready, HasKeys,
                PromptInv
  <2>2. prompt' \in {prompt, "notice"}
    BY <1>4 DEF NoKey, OpenList, Back, EditField, SaveSlot, Abort, OpenEditor, ConnectTo, SameScreen
  <2>3. QED
    BY <2>1, <2>2 DEF PromptInv
<1>5. QED
  BY <1>1, <1>2, <1>3, <1>4 DEF Next

----------------------------------------------------------------------------

(* Both invariants hold in every reachable state. *)
THEOREM SlotsInvariance == Spec => [](TypeInv /\ CardInv /\ PromptInv)
  BY InitHolds, CardStep, PromptStep, PTL DEF Spec

(* Whatever cut or refused saves came before, a start of the program finds *)
(* the slots that were saved, parts of them, or none.                      *)
THEOREM RestartIsSafe == Spec => RestartFindsWhatWasSaved
<1>1. ASSUME TypeInv, CardInv, [Next]_vars
      PROVE  [~on /\ on' =>
                /\ \A i \in Index :
                      slots'[i] = saved.slots[i]
                      \/ (cut /\ slots'[i] \in {Empty, Part(saved.slots[i])})
                /\ ~refused => saved = [slots |-> slots, last |-> last]
                /\ last' # None => slots'[last'] # Empty /\ last' = saved.last]_vars
  <2>. SUFFICES ASSUME ~on, on'
                PROVE  /\ \A i \in Index :
                            slots'[i] = saved.slots[i]
                            \/ (cut /\ slots'[i] \in {Empty, Part(saved.slots[i])})
                       /\ ~refused => saved = [slots |-> slots, last |-> last]
                       /\ last' # None => slots'[last'] # Empty /\ last' = saved.last
    OBVIOUS
  <2>1. Start
    BY <1>1 DEF Next, PowerOff, Poll, NoKey, OpenList, Back, EditField, SaveSlot, AskDelete, Answer,
                Abort, OpenEditor, ConnectTo, Outcome, Disconnected, LeaveBrowser, Ready, HasKeys, vars
  <2>2. /\ slots' = file.slots
        /\ last' = IF file.last # None /\ file.slots[file.last] # Empty THEN file.last ELSE None
    BY <2>1 DEF Start, Load
  <2>3. QED
    BY <1>1, <2>2 DEF CardInv, Left
<1>2. QED
  BY <1>1, SlotsInvariance, PTL DEF Spec, RestartFindsWhatWasSaved

(* A slot is emptied only by the answer to the question about that slot. *)
THEOREM OnlyTheSlotAskedAbout == Spec => EmptiesTheSlotAskedAbout
<1>1. ASSUME TypeInv, PromptInv, [Next]_vars
      PROVE  [on /\ on' =>
                \A i \in Index :
                   slots[i] # Empty /\ slots'[i] = Empty => prompt = "delete" /\ asked = i]_vars
  <2>. SUFFICES ASSUME on, on', NEW i \in Index, slots[i] # Empty, slots'[i] = Empty
                PROVE  prompt = "delete" /\ asked = i
    OBVIOUS
  <2>1. CASE Answer
    <3>1. prompt = "delete" /\ slots' = [slots EXCEPT ![editing] = Empty]
      BY <2>1 DEF Answer, memory
    <3>2. i = editing
      BY <1>1, <3>1 DEF TypeInv
    <3>3. QED
      BY <1>1, <3>1, <3>2 DEF PromptInv
  <2>2. CASE SaveSlot
    <3>1. slots' = slots \/ (draft # Empty /\ slots' = [slots EXCEPT ![editing] = draft])
      BY <2>2 DEF SaveSlot, memory
    <3>2. slots'[i] = slots[i] \/ (draft # Empty /\ slots'[i] = draft)
      BY <1>1, <3>1 DEF TypeInv
    <3>3. QED
      BY <3>2
  <2>3. CASE Poll \/ NoKey \/ OpenList \/ Back \/ EditField \/ AskDelete \/ Abort \/ Outcome
             \/ Disconnected \/ LeaveBrowser \/ (\E k \in Index : OpenEditor(k) \/ ConnectTo(k))
             \/ UNCHANGED vars
    BY <2>3 DEF Poll, NoKey, OpenList, Back, EditField, AskDelete, Abort, Outcome, Disconnected,
                LeaveBrowser, OpenEditor, ConnectTo, memory, vars
  <2>4. QED
    BY <1>1, <2>1, <2>2, <2>3 DEF Next, PowerOff, Start
<1>2. QED
  BY <1>1, SlotsInvariance, PTL DEF Spec, EmptiesTheSlotAskedAbout

=============================================================================
