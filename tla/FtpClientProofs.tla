--------------------------- MODULE FtpClientProofs ---------------------------
(***************************************************************************)
(* Theorems about FtpClient: in every behaviour of the client and of a     *)
(* server that may refuse, hang up or fall silent, and however long it is, *)
(* each reply is read by the command it answers.                           *)
(*                                                                         *)
(* The invariant compares two accounts.  The client expects one reply, or  *)
(* two in the middle of a transfer or an abort: First and Second.  These   *)
(* are the replies that it has not read, what the server still owes for    *)
(* the transfer it works on, and the commands it has not handled.          *)
(***************************************************************************)
EXTENDS FtpClient, TLAPS

(* The replies on their way to the client, and the commands to the server. *)
Queue == Seq(Commands)
Inbox == Seq([to : Commands \cup {"bye"}, code : Codes])

TypeInv ==
    /\ data \in BOOLEAN /\ aborting \in BOOLEAN /\ gone \in BOOLEAN
    /\ call \in Calls \cup {"none"}
    /\ cmd \in Commands \cup {"none"}
    /\ verb \in Transfers \cup {"none"}
    /\ wire \in Queue
    /\ inbox \in Inbox
    /\ serving \in Transfers \cup {"none"}

(* Where the client is in a call. *)
CallInv ==
    /\ call = "none" => cmd = "none"
    /\ call = "none" /\ ~data => verb = "none"
    /\ call = "connect" => verb = "none" /\ ~data
    /\ call = "probe" => verb = "none" /\ cmd = "SIZE"
    /\ data => verb # "none"
    /\ aborting => ~data /\ verb # "none" /\ cmd \in {verb, "ABOR"}
    /\ cmd = "ABOR" => aborting
    /\ cmd \in Transfers => cmd = verb

(* The command whose reply comes next, and the one whose reply follows.    *)
First  == IF cmd = "none" /\ data THEN verb ELSE cmd
Opened == cmd = verb /\ data                        \* the reply to RETR, STOR, MLSD, LIST is due
Second == IF aborting /\ cmd = verb THEN "ABOR" ELSE "none"

(* The replies that are there are the first ones of those that are         *)
(* expected, and the server's good-bye ends them.                          *)
InboxInv ==
    /\ Len(inbox) <= 3
    /\ \A i \in 1..Len(inbox) :
          inbox[i].to = "bye" => i = Len(inbox) /\ gone /\ inbox[i].code = "421"
    /\ Len(inbox) >= 1 => inbox[1].to \in {First, "bye"}
    /\ Len(inbox) >= 2 =>
          inbox[2].to \in {Second, "bye"} \cup
                          IF Opened /\ inbox[1].code = "1xx" THEN {verb} ELSE {}
    /\ Len(inbox) = 3 => inbox[3].to = "bye"

(* What the server still owes, so long as it has not left. *)
Owes(n, s, w) == Len(inbox) = n /\ serving = s /\ wire = w

OwedInv ==
    /\ gone => serving = "none"
    /\ ~gone =>
        /\ cmd = "none" /\ ~data => Owes(0, "none", << >>)
        /\ (cmd = "none" /\ data) \/ (cmd = verb /\ cmd # "none" /\ ~data /\ ~aborting) =>
              Owes(0, verb, << >>) \/ Owes(1, "none", << >>)
        /\ Opened =>
              \/ Owes(0, "none", <<verb>>)
              \/ Owes(1, verb, << >>) /\ inbox[1].code = "1xx"
              \/ Owes(2, "none", << >>) /\ inbox[1].code = "1xx"
              \/ Owes(1, "none", << >>) /\ inbox[1].code # "1xx"
        /\ aborting /\ cmd = verb =>
              Owes(0, verb, <<"ABOR">>) \/ Owes(1, "none", <<"ABOR">>) \/ Owes(2, "none", << >>)
        /\ cmd # "none" /\ cmd # verb => Owes(0, "none", <<cmd>>) \/ Owes(1, "none", << >>)

Inv == TypeInv /\ CallInv /\ InboxInv /\ OwedInv

----------------------------------------------------------------------------
(* The types. *)

LEMMA Names ==
  /\ Transfers \subseteq Commands
  /\ {"hello", "USER", "PASS", "FEAT", "OPTS", "TYPE", "PASV", "SIZE", "DELE", "RMD", "MKD",
       "RNFR", "RNTO", "ABOR"} \subseteq Commands
  /\ {"MLSD", "LIST", "RETR", "STOR"} = Transfers
  /\ DOMAIN Simple \cup DOMAIN Opening \cup {"connect", "finishTransfer", "abortTransfer"} \subseteq Calls
  /\ \A c \in DOMAIN Simple : Simple[c] \in Commands
  /\ \A c \in DOMAIN Opening : Opening[c] \in Transfers
  BY DEF Commands, Transfers, Calls, Simple, Opening

LEMMA RestOfInbox ==
  ASSUME TypeInv, inbox # << >>
  PROVE  /\ Len(inbox) \in Nat \ {0}
         /\ Reply = inbox[1] /\ Reply.to \in Commands \cup {"bye"} /\ Reply.code \in Codes
         /\ Reply = [to |-> Reply.to, code |-> Reply.code]
         /\ Tail(inbox) \in Inbox
         /\ Len(Tail(inbox)) = Len(inbox) - 1
         /\ \A i \in 1..(Len(inbox) - 1) : Tail(inbox)[i] = inbox[i + 1]
<1> DEFINE R == [to : Commands \cup {"bye"}, code : Codes]
<1>1. inbox \in Seq(R)
  BY DEF TypeInv, Inbox
<1> HIDE DEF R
<1>2. /\ Len(inbox) \in Nat \ {0}
      /\ Head(inbox) = inbox[1] /\ inbox[1] \in R
      /\ Tail(inbox) \in Seq(R)
      /\ Len(Tail(inbox)) = Len(inbox) - 1
      /\ \A i \in 1..(Len(inbox) - 1) : Tail(inbox)[i] = inbox[i + 1]
  BY <1>1
<1>3. QED
  BY <1>2 DEF R, Reply, Inbox

LEMMA NewReply ==
  ASSUME TypeInv, NEW c \in Commands \cup {"bye"}, NEW code \in Codes, Tell(c, code)
  PROVE  /\ inbox' \in Inbox
         /\ Len(inbox) \in Nat /\ Len(inbox') = Len(inbox) + 1
         /\ \A i \in 1..Len(inbox) : inbox'[i] = inbox[i]
         /\ inbox'[Len(inbox) + 1] = [to |-> c, code |-> code]
<1> DEFINE R == [to : Commands \cup {"bye"}, code : Codes]
           r == [to |-> c, code |-> code]
<1>1. r \in R
  OBVIOUS
<1>2. inbox \in Seq(R) /\ inbox' = Append(inbox, r)
  BY DEF TypeInv, Tell, Inbox
<1> HIDE DEF R, r
<1>3. /\ inbox' \in Seq(R)
      /\ Len(inbox) \in Nat /\ Len(inbox') = Len(inbox) + 1
      /\ \A i \in 1..Len(inbox) : inbox'[i] = inbox[i]
      /\ inbox'[Len(inbox) + 1] = r
  BY <1>1, <1>2
<1>4. QED
  BY <1>3 DEF R, r, Inbox

LEMMA Nothing == << >> \in Queue /\ << >> \in Inbox
  BY DEF Queue, Inbox

LEMMA Sent ==
  ASSUME TypeInv, NEW c \in Commands
  PROVE  Append(wire, c) \in Queue
  BY DEF TypeInv, Queue

LEMMA CloseKeepsType ==
  ASSUME TypeInv, Close, call' = "none", cmd' = "none"
  PROVE  TypeInv'
  BY Nothing DEF TypeInv, Close

LEMMA ReadKeepsType ==
  ASSUME TypeInv, ReadReply
  PROVE  TypeInv'
<1>0. Tail(inbox) \in Inbox
  BY RestOfInbox DEF ReadReply
<1>1. CASE LoginReply
  <2>1. CASE \E c \in NextOfLogin(Reply.code) : Send(c) /\ Consume
                /\ UNCHANGED <<open, broken, data, call, verb, aborting, result, server>>
    <3>1. PICK c \in NextOfLogin(Reply.code) : Send(c)
      BY <2>1
    <3>2. c \in Commands
      BY DEF NextOfLogin, Commands
    <3>3. QED
      BY <1>0, <2>1, <3>1, <3>2, Sent DEF TypeInv, Send, Consume, server
  <2>2. CASE Return("yes") /\ Consume /\ UNCHANGED <<open, broken, data, verb, aborting, wire, server>>
    BY <1>0, <2>2 DEF TypeInv, Consume, Return, server
  <2>3. CASE Close /\ Return("no")
    BY <2>3, CloseKeepsType DEF Return
  <2>4. QED
    BY <1>1, <2>1, <2>2, <2>3 DEF LoginReply
<1>2. CASE SimpleReply
  <2>1. /\ inbox' = Tail(inbox) /\ UNCHANGED <<data, aborting, serving, gone>>
        /\ call' \in {call, "none"} /\ verb' \in {verb, "MLSD"}
        /\ \/ cmd' = "none" /\ wire' = wire
           \/ cmd' \in {"RNTO", "PASV"} /\ wire' = Append(wire, cmd')
    BY <1>2 DEF SimpleReply, Consume, Send, Return, server
  <2>2. wire' \in Queue /\ cmd' \in Commands \cup {"none"}
    BY <2>1, Sent, Names DEF TypeInv
  <2>3. QED
    BY <1>0, <2>1, <2>2, Names DEF TypeInv
<1>3. CASE OpeningReply
  <2>1. /\ inbox' = Tail(inbox) /\ UNCHANGED <<aborting, serving, gone>>
        /\ data' \in {data, TRUE, FALSE} /\ call' \in {call, "none"}
        /\ verb # "none" /\ verb' \in {verb, "none", "LIST"}
        /\ \/ cmd' = "none" /\ wire' = wire
           \/ cmd' \in {"PASV", verb} /\ wire' = Append(wire, cmd')
    BY <1>3 DEF OpeningReply, NotOpened, Consume, Send, Return
  <2>2. wire' \in Queue /\ cmd' \in Commands \cup {"none"}
    BY <2>1, Sent, Names DEF TypeInv
  <2>3. QED
    BY <1>0, <2>1, <2>2, Names DEF TypeInv
<1>4. CASE AbortReply
  BY <1>0, <1>4, Names DEF AbortReply, TypeInv, Consume, Return, server
<1>5. QED
  BY <1>1, <1>2, <1>3, <1>4 DEF ReadReply

LEMMA BeginKeepsType ==
  ASSUME TypeInv, Begin
  PROVE  TypeInv'
<1>1. CASE Connect
  <2>1. CASE Close /\ Return("no")
    BY <2>1, CloseKeepsType DEF Return
  <2>2. CASE wire' = <<"hello">> /\ inbox' = << >> /\ serving' = "none" /\ gone' = FALSE
              /\ call' = "connect" /\ cmd' = "hello" /\ UNCHANGED <<data, verb, aborting>>
    <3>1. <<"hello">> \in Queue
      BY Names DEF Queue
    <3>2. QED
      BY <2>2, <3>1, Nothing, Names DEF TypeInv
  <2>3. QED
    BY <1>1, <2>1, <2>2 DEF Connect
<1>2. CASE Disconnect
  BY <1>2, CloseKeepsType DEF Disconnect, Return
<1>3. ASSUME NEW c \in DOMAIN Simple, CallSimple(c) PROVE TypeInv'
  BY <1>3, Names, Sent DEF CallSimple, Send, TypeInv, server
<1>4. ASSUME NEW c \in DOMAIN Opening, CallOpening(c) PROVE TypeInv'
  BY <1>4, Names, Sent DEF CallOpening, Send, TypeInv, server
<1>5. ASSUME NEW c, CallDead(c) PROVE TypeInv'
  BY <1>5 DEF CallDead, Return, TypeInv, server
<1>6. CASE FinishTransfer
  BY <1>6, Names DEF FinishTransfer, TypeInv, server
<1>7. CASE AbortTransfer
  BY <1>7, Names, Sent DEF AbortTransfer, Abort, TypeInv, server
<1>8. QED
  BY <1>1, <1>2, <1>3, <1>4, <1>5, <1>6, <1>7 DEF Begin

LEMMA ServerKeepsType ==
  ASSUME TypeInv, Server
  PROVE  TypeInv'
<1>1. CASE Serve
  <2>1. PICK code \in Answers[Head(wire)] :
          /\ Tell(Head(wire), code)
          /\ serving' = IF code = "1xx" THEN Head(wire) ELSE "none"
    BY <1>1 DEF Serve
  <2>2. Head(wire) \in Commands /\ Tail(wire) \in Queue
    BY <1>1 DEF Serve, TypeInv, Queue
  <2>3. code \in Codes /\ (code = "1xx" => Head(wire) \in Transfers)
    BY <2>1, <2>2 DEF Answers, Codes, Completed
  <2>4. QED
    BY <1>1, <2>1, <2>2, <2>3, NewReply DEF Serve, TypeInv, client
<1>2. CASE EndTransfer
  <2>1. PICK code \in {"226", "4xx"} : Tell(serving, code)
    BY <1>2 DEF EndTransfer
  <2>2. serving \in Commands /\ code \in Codes
    BY <1>2, <2>1, Names DEF EndTransfer, TypeInv, Codes, Completed
  <2>3. QED
    BY <1>2, <2>1, <2>2, NewReply DEF EndTransfer, TypeInv, client
<1>3. CASE Bye
  <2>1. "421" \in Codes
    BY DEF Codes
  <2>2. QED
    BY <1>3, <2>1, NewReply DEF Bye, TypeInv, client
<1>4. QED
  BY <1>1, <1>2, <1>3 DEF Server

LEMMA NextKeepsType ==
  ASSUME TypeInv, Next
  PROVE  TypeInv'
<1>1. CASE ReadListing
  BY <1>1, Names, Sent DEF ReadListing, Abort, TypeInv, server
<1>2. CASE LoseLink
  BY <1>2, CloseKeepsType DEF LoseLink, Return
<1>3. QED
  BY <1>1, <1>2, ReadKeepsType, BeginKeepsType, ServerKeepsType DEF Next, Step

----------------------------------------------------------------------------
(* Where the client is. *)

LEMMA Distinct ==
  /\ "none" \notin Commands /\ "bye" \notin Commands /\ "none" \notin Transfers
  /\ {"hello", "USER", "PASS", "FEAT", "OPTS", "TYPE", "PASV", "SIZE", "DELE", "RMD", "MKD",
       "RNFR", "RNTO", "ABOR"} \cap Transfers = {}
  /\ \A c \in DOMAIN Simple : Simple[c] \notin Transfers \cup {"ABOR"}
  /\ "none" \notin DOMAIN Simple \cup DOMAIN Opening
  /\ {"connect", "finishTransfer", "abortTransfer"} \cap (DOMAIN Simple \cup DOMAIN Opening) = {}
  /\ "probe" \notin DOMAIN Opening /\ Simple["probe"] = "SIZE"
  BY DEF Commands, Transfers, Simple, Opening

LEMMA ReadKeepsCall ==
  ASSUME TypeInv, CallInv, ReadReply
  PROVE  CallInv'
<1>1. CASE LoginReply
  <2>1. call = "connect" /\ verb = "none" /\ data = FALSE /\ aborting = FALSE
    BY <1>1 DEF LoginReply, CallInv, TypeInv
  <2>2. /\ verb' = "none" /\ data' = FALSE /\ aborting' = FALSE
        /\ \/ call' = "connect" /\ cmd' \in {"USER", "PASS", "FEAT", "OPTS", "TYPE"}
           \/ call' = "none" /\ cmd' = "none"
    <3>1. CASE \E c \in NextOfLogin(Reply.code) : Send(c) /\ UNCHANGED <<data, call, verb, aborting>>
      <4>1. PICK c \in NextOfLogin(Reply.code) : Send(c) /\ UNCHANGED <<data, call, verb, aborting>>
        BY <3>1
      <4>2. c \in {"USER", "PASS", "FEAT", "OPTS", "TYPE"}
        BY <4>1 DEF NextOfLogin
      <4>3. QED
        BY <2>1, <4>1, <4>2 DEF Send
    <3>2. CASE Return("yes") /\ UNCHANGED <<data, verb, aborting>>
      BY <2>1, <3>2 DEF Return
    <3>3. CASE Close /\ Return("no")
      BY <3>3 DEF Close, Return
    <3>4. QED
      BY <1>1, <3>1, <3>2, <3>3 DEF LoginReply
  <2>3. cmd' \notin Transfers /\ cmd' # "ABOR"
    BY <2>2, Distinct
  <2>4. QED
    BY <2>2, <2>3 DEF CallInv
<1>2. CASE SimpleReply
  <2>1. /\ UNCHANGED <<data, aborting>> /\ verb = "none" /\ call \in DOMAIN Simple
        /\ \/ call' = "none" /\ cmd' = "none" /\ verb' = verb
           \/ call' = call /\ cmd' = "RNTO" /\ verb' = verb /\ cmd = "RNFR"
           \/ call' = call /\ cmd' = "PASV" /\ verb' = "MLSD" /\ call = "exists"
    BY <1>2 DEF SimpleReply, Send, Return
  <2>2. QED
    BY <2>1, Distinct DEF CallInv, TypeInv
<1>3. CASE OpeningReply
  <2>1. /\ verb # "none" /\ ~aborting /\ aborting' = aborting
        /\ \/ cmd' = verb /\ data' = TRUE /\ UNCHANGED <<call, verb>>
           \/ cmd' = "PASV" /\ data' = FALSE /\ call' = call /\ verb' = "LIST"
           \/ cmd' = "none" /\ data' = FALSE /\ call' = "none" /\ verb' = "none"
           \/ cmd' = "none" /\ data /\ UNCHANGED <<data, verb>> /\ call' \in {call, "none"}
           \/ cmd' = "none" /\ ~data /\ data' = data /\ call' = "none" /\ verb' = "none"
    BY <1>3 DEF OpeningReply, NotOpened, Send, Return
  <2>2. call \notin {"none", "connect", "probe"} /\ verb \in Transfers /\ verb # "ABOR"
    BY <2>1, Distinct DEF ReadReply, CallInv, TypeInv
  <2>3. QED
    BY <2>1, <2>2, Distinct DEF CallInv
<1>4. CASE AbortReply
  BY <1>4, Distinct DEF AbortReply, LastReply, Return, CallInv, TypeInv
<1>5. QED
  BY <1>1, <1>2, <1>3, <1>4 DEF ReadReply

LEMMA BeginKeepsCall ==
  ASSUME TypeInv, CallInv, Begin
  PROVE  CallInv'
<1>1. CASE Connect \/ Disconnect
  BY <1>1, Distinct DEF Connect, Disconnect, Close, Return, Free, Returned, CallInv, TypeInv
<1>2. ASSUME NEW c \in DOMAIN Simple, CallSimple(c) PROVE CallInv'
  BY <1>2, Distinct DEF CallSimple, Send, Free, Returned, CallInv, TypeInv
<1>3. ASSUME NEW c \in DOMAIN Opening, CallOpening(c) PROVE CallInv'
  BY <1>3, Distinct, Names DEF CallOpening, Send, Free, Returned, CallInv, TypeInv
<1>4. ASSUME NEW c, CallDead(c) PROVE CallInv'
  BY <1>4 DEF CallDead, Return, Free, Returned, CallInv, TypeInv
<1>5. CASE FinishTransfer \/ AbortTransfer
  BY <1>5, Distinct DEF FinishTransfer, AbortTransfer, Abort, Returned, CallInv, TypeInv
<1>6. QED
  BY <1>1, <1>2, <1>3, <1>4, <1>5 DEF Begin

LEMMA NextKeepsCall ==
  ASSUME TypeInv, CallInv, Next
  PROVE  CallInv'
<1>1. CASE ReadListing
  BY <1>1, Distinct DEF ReadListing, Abort, CallInv, TypeInv
<1>2. CASE LoseLink
  BY <1>2 DEF LoseLink, Close, Return, CallInv
<1>3. CASE Server
  BY <1>3 DEF Server, Serve, EndTransfer, Bye, client, CallInv
<1>4. QED
  BY <1>1, <1>2, <1>3, ReadKeepsCall, BeginKeepsCall DEF Next, Step

----------------------------------------------------------------------------
(* The replies that are there. *)

LEMMA Short ==
  /\ \A c : Append(<< >>, c) = <<c>>
  /\ \A c : Head(<<c>>) = c /\ Tail(<<c>>) = << >> /\ <<c>> # << >>
  OBVIOUS

LEMMA ReplyIsNamed ==
  ASSUME NEW s \in Inbox, NEW i \in 1..Len(s)
  PROVE  s[i].to \in Commands \cup {"bye"} /\ s[i].to # "none"
<1> DEFINE R == [to : Commands \cup {"bye"}, code : Codes]
<1>1. s \in Seq(R)
  BY DEF Inbox
<1> HIDE DEF R
<1>2. s[i] \in R
  BY <1>1
<1>3. s[i].to \in Commands \cup {"bye"}
  BY <1>2 DEF R
<1>4. QED
  BY <1>3, Distinct

(* What is left of the inbox when its first reply has been read. *)
LEMMA TailFits ==
  ASSUME TypeInv, InboxInv, inbox # << >>, inbox' = Tail(inbox), gone' = gone
  PROVE  /\ Len(inbox') \in 0..2 /\ Len(inbox') = Len(inbox) - 1
         /\ \A i \in 1..Len(inbox') :
               inbox'[i].to = "bye" => i = Len(inbox') /\ gone' /\ inbox'[i].code = "421"
         /\ Len(inbox') >= 1 =>
               inbox'[1].to \in {Second, "bye"} \cup
                                IF Opened /\ Reply.code = "1xx" THEN {verb} ELSE {}
         /\ Len(inbox') = 2 => inbox'[2].to = "bye"
<1>1. /\ Len(inbox) \in 1..3 /\ Reply = inbox[1]
      /\ Len(inbox') = Len(inbox) - 1
      /\ \A i \in 1..(Len(inbox) - 1) : inbox'[i] = inbox[i + 1]
  <2>1. /\ Len(inbox) \in Nat \ {0} /\ Reply = inbox[1]
        /\ Len(Tail(inbox)) = Len(inbox) - 1
        /\ \A i \in 1..(Len(inbox) - 1) : Tail(inbox)[i] = inbox[i + 1]
    BY RestOfInbox
  <2>2. Len(inbox) <= 3
    BY DEF InboxInv
  <2>3. Len(inbox) \in 1..3
    BY <2>1, <2>2
  <2>4. QED
    BY <2>1, <2>3
<1>2. ASSUME NEW i \in 1..Len(inbox'), inbox'[i].to = "bye"
      PROVE  i = Len(inbox') /\ gone' /\ inbox'[i].code = "421"
  <2>1. i + 1 \in 1..Len(inbox) /\ inbox[i + 1].to = "bye" /\ inbox'[i] = inbox[i + 1]
    BY <1>1, <1>2
  <2>2. i + 1 = Len(inbox) /\ gone /\ inbox[i + 1].code = "421"
    BY <2>1 DEF InboxInv
  <2>3. i = Len(inbox')
    <3>1. i \in Int /\ Len(inbox) \in Int
      BY <1>1, <1>2
    <3>2. i = Len(inbox) - 1
      BY <3>1, <2>2
    <3>3. QED
      BY <3>2, <1>1
  <2>4. gone'
    BY <2>2
  <2>5. QED
    BY <2>1, <2>2, <2>3, <2>4
<1>3. Len(inbox') >= 1 => inbox'[1] = inbox[2] /\ Len(inbox) >= 2
  BY <1>1
<1>4. Len(inbox') = 2 => inbox'[2] = inbox[3] /\ Len(inbox) = 3
  BY <1>1
<1>5. Len(inbox) >= 2 =>
        inbox[2].to \in {Second, "bye"} \cup
                        IF Opened /\ inbox[1].code = "1xx" THEN {verb} ELSE {}
  BY DEF InboxInv
<1>6. Len(inbox) = 3 => inbox[3].to = "bye"
  BY DEF InboxInv
<1>7. Len(inbox') \in 0..2 /\ Len(inbox') = Len(inbox) - 1
  BY <1>1
<1>8. Len(inbox') >= 1 =>
        inbox'[1].to \in {Second, "bye"} \cup
                         IF Opened /\ Reply.code = "1xx" THEN {verb} ELSE {}
  <2>1. Reply.code = inbox[1].code
    BY <1>1
  <2>2. QED
    BY <2>1, <1>3, <1>5
<1>9. QED
  BY <1>2, <1>4, <1>6, <1>7, <1>8

(* A reply is read, and the next one is what the client now expects. *)
LEMMA ReadKeepsInbox ==
  ASSUME TypeInv, TypeInv', InboxInv, inbox # << >>, inbox' = Tail(inbox), gone' = gone,
         Second # "none" => First' = Second,
         Opened /\ Reply.code = "1xx" => First' = verb
  PROVE  InboxInv'
<1>1. Len(inbox') >= 1 => inbox'[1].to # "none"
  <2>1. inbox' \in Inbox /\ Len(inbox') \in Nat
    BY TailFits, TypeInv' DEF TypeInv
  <2>2. CASE Len(inbox') >= 1
    <3>1. 1 \in 1..Len(inbox')
      BY <2>1, <2>2
    <3>2. QED
      BY <2>1, <3>1, ReplyIsNamed
  <2>3. QED
    BY <2>2
<1>2. Len(inbox') >= 1 => inbox'[1].to \in {First', "bye"}
  BY <1>1, TailFits
<1>3. QED
  BY <1>2, TailFits DEF InboxInv

(* The inbox is left alone while the client comes to expect something.     *)
LEMMA SameInbox ==
  ASSUME TypeInv, InboxInv, inbox' = inbox, gone' = gone, Second = "none", ~Opened,
         First' = First \/ First = "none"
  PROVE  InboxInv'
<1>1. inbox \in Inbox /\ Len(inbox) \in Nat
  BY DEF TypeInv, Inbox
<1>2. Len(inbox) >= 1 => inbox[1].to # "none"
  BY <1>1, ReplyIsNamed
<1>3. Len(inbox) >= 2 => inbox[2].to # "none"
  BY <1>1, ReplyIsNamed
<1>4. Len(inbox) >= 1 => inbox[1].to \in {First', "bye"}
  BY <1>2 DEF InboxInv
<1>5. Len(inbox) >= 2 => inbox[2].to = "bye"
  BY <1>3 DEF InboxInv
<1>6. QED
  BY <1>1, <1>4, <1>5 DEF InboxInv

LEMMA EmptyInbox ==
  ASSUME inbox' = << >>
  PROVE  InboxInv'
  BY DEF InboxInv

LEMMA ReadReplyKeepsInbox ==
  ASSUME TypeInv, TypeInv', CallInv, InboxInv, ReadReply
  PROVE  InboxInv'
<1>1. inbox # << >> /\ cmd # "none"
  BY DEF ReadReply
<1>2. CASE LoginReply \/ SimpleReply
  <2>1. verb = "none" /\ ~aborting /\ ~data
    BY <1>2 DEF LoginReply, SimpleReply, CallInv
  <2>2. Second = "none" /\ ~Opened
    BY <2>1 DEF Second, Opened
  <2>3. inbox' = << >> \/ (inbox' = Tail(inbox) /\ gone' = gone)
    BY <1>2 DEF LoginReply, SimpleReply, Consume, Close, server
  <2>4. QED
    BY <1>1, <2>2, <2>3, ReadKeepsInbox, EmptyInbox
<1>3. CASE OpeningReply
  <2>1. inbox' = Tail(inbox) /\ gone' = gone /\ verb \in Transfers
    BY <1>3 DEF OpeningReply, Consume, TypeInv
  <2>2. Second = "none"
    BY <1>3 DEF OpeningReply, Second
  <2>3. Opened /\ Reply.code = "1xx" => First' = verb
    <3>1. cmd = verb => cmd # "PASV"
      BY <2>1, Distinct
    <3>2. Opened /\ Reply.code = "1xx" => cmd' = "none" /\ data' = data /\ verb' = verb /\ data
      BY <1>3, <3>1 DEF OpeningReply, Opened
    <3>3. QED
      BY <3>2 DEF First
  <2>4. QED
    BY <1>1, <2>1, <2>2, <2>3, ReadKeepsInbox
<1>4. CASE AbortReply
  <2>1. inbox' = Tail(inbox) /\ gone' = gone /\ ~data
    BY <1>4 DEF AbortReply, Consume, CallInv, server
  <2>2. ~Opened
    BY <2>1 DEF Opened
  <2>3. Second # "none" => First' = Second
    <3>1. verb # "ABOR"
      BY Distinct DEF TypeInv
    <3>2. Second # "none" => cmd = verb /\ Second = "ABOR" /\ cmd' = "ABOR"
      BY <1>4, <3>1 DEF AbortReply, LastReply, Second
    <3>3. QED
      BY <3>2 DEF First
  <2>4. QED
    BY <1>1, <2>1, <2>2, <2>3, ReadKeepsInbox
<1>5. QED
  BY <1>2, <1>3, <1>4 DEF ReadReply

LEMMA BeginKeepsInbox ==
  ASSUME TypeInv, CallInv, InboxInv, Begin
  PROVE  InboxInv'
<1>1. CASE Connect \/ Disconnect
  BY <1>1, EmptyInbox DEF Connect, Disconnect, Close
<1>2. ASSUME inbox' = inbox, gone' = gone, Free PROVE InboxInv'
  <2>1. cmd = "none" /\ verb = "none" /\ ~data /\ ~aborting
    BY <1>2 DEF Free, Returned, CallInv
  <2>2. Second = "none" /\ ~Opened /\ First = "none"
    BY <2>1 DEF Second, Opened, First
  <2>3. QED
    BY <1>2, <2>2, SameInbox
<1>3. CASE FinishTransfer \/ AbortTransfer
  <2>1. inbox' = inbox /\ gone' = gone /\ data /\ cmd = "none" /\ verb # "none" /\ cmd' = verb
    BY <1>3 DEF FinishTransfer, AbortTransfer, Abort, Returned, CallInv, server
  <2>2. Second = "none" /\ ~Opened /\ First' = First
    BY <2>1 DEF Second, Opened, First
  <2>3. QED
    BY <2>1, <2>2, SameInbox
<1>4. QED
  BY <1>1, <1>2, <1>3 DEF Begin, CallSimple, CallOpening, CallDead, server

LEMMA StepKeepsInbox ==
  ASSUME TypeInv, TypeInv', CallInv, InboxInv, Step
  PROVE  InboxInv'
<1>1. CASE ReadListing
  <2>1. inbox' = inbox /\ gone' = gone /\ data /\ cmd = "none" /\ verb # "none" /\ cmd' = verb
    BY <1>1 DEF ReadListing, Abort, CallInv, server
  <2>2. Second = "none" /\ ~Opened /\ First' = First
    BY <2>1 DEF Second, Opened, First
  <2>3. QED
    BY <2>1, <2>2, SameInbox
<1>2. CASE LoseLink
  BY <1>2, EmptyInbox DEF LoseLink, Close
<1>3. QED
  BY <1>1, <1>2, ReadReplyKeepsInbox DEF Step

----------------------------------------------------------------------------
(* What the server owes. *)

LEMMA CloseKeepsOwed ==
  ASSUME Close, cmd' = "none"
  PROVE  OwedInv'
<1>1. Owes(0, "none", << >>)' /\ serving' = "none" /\ ~data' /\ ~aborting' /\ ~Opened'
  BY DEF Close, Owes, Opened
<1>2. QED
  BY <1>1 DEF OwedInv, Opened

(* A function has returned, or nothing of a transfer is under way and one  *)
(* command is sent.                                                        *)
LEMMA OneCommandIsOwed ==
  ASSUME gone' = gone, gone => serving' = "none", ~data', ~aborting',
         ~gone => \/ cmd' = "none" /\ Owes(0, "none", << >>)'
                  \/ cmd' # "none" /\ cmd' # verb' /\ Owes(0, "none", <<cmd>>)'
  PROVE  OwedInv'
<1>1. gone' => serving' = "none"
  OBVIOUS
<1>2. ~Opened'
  BY DEF Opened
<1>3. ~gone' => \/ cmd' = "none" /\ Owes(0, "none", << >>)'
                \/ cmd' # "none" /\ cmd' # verb' /\ Owes(0, "none", <<cmd>>)'
  OBVIOUS
<1>4. QED
  BY <1>1, <1>2, <1>3 DEF OwedInv

LEMMA BeginKeepsOwed ==
  ASSUME TypeInv, CallInv, OwedInv, Begin
  PROVE  OwedInv'
<1>1. ASSUME Free
      PROVE  cmd = "none" /\ verb = "none" /\ ~data /\ ~aborting
  BY <1>1 DEF Free, Returned, CallInv
<1>2. ASSUME Free, ~gone
      PROVE  serving = "none" /\ Len(inbox) = 0 /\ wire = << >>
  BY <1>1, <1>2 DEF OwedInv, Owes
<1>3. CASE Connect
  <2>1. CASE Close /\ Return("no")
    BY <2>1, CloseKeepsOwed DEF Return
  <2>2. CASE /\ wire' = <<"hello">> /\ inbox' = << >> /\ serving' = "none" /\ gone' = FALSE
             /\ cmd' = "hello" /\ UNCHANGED <<data, verb, aborting>>
    <3>1. ~data' /\ ~aborting' /\ verb' = "none" /\ ~gone' /\ ~Opened'
      BY <1>1, <1>3, <2>2 DEF Connect, Opened
    <3>2. Owes(0, "none", <<"hello">>)'
      BY <2>2 DEF Owes
    <3>3. QED
      BY <2>2, <3>1, <3>2 DEF OwedInv
  <2>3. QED
    BY <1>3, <2>1, <2>2 DEF Connect
<1>4. CASE Disconnect
  BY <1>4, CloseKeepsOwed DEF Disconnect, Return
<1>5. ASSUME NEW c, Free, gone' = gone, serving' = serving, inbox' = inbox, data' = data,
             aborting' = aborting, c \notin {"none", verb'}, Send(c)
      PROVE  OwedInv'
  <2>1. cmd' = c /\ ~data' /\ ~aborting'
    BY <1>1, <1>5 DEF Send
  <2>2. ~gone => Owes(0, "none", <<cmd>>)'
    BY <1>2, <1>5, Short DEF Send, Owes
  <2>3. gone => serving' = "none"
    BY <1>5 DEF OwedInv
  <2>4. QED
    BY <1>5, <2>1, <2>2, <2>3, OneCommandIsOwed
<1>6. ASSUME NEW c \in DOMAIN Simple, CallSimple(c) PROVE OwedInv'
  <2>1. verb' = "none" /\ Simple[c] # "none"
    BY <1>1, <1>6, Names, Distinct DEF CallSimple
  <2>2. QED
    BY <1>5, <1>6, <2>1 DEF CallSimple, server
<1>7. ASSUME NEW c \in DOMAIN Opening, CallOpening(c) PROVE OwedInv'
  <2>1. verb' \in Transfers /\ "PASV" \notin Transfers
    BY <1>7, Names, Distinct DEF CallOpening
  <2>2. QED
    BY <1>5, <1>7, <2>1 DEF CallOpening, server
<1>8. ASSUME NEW c, CallDead(c) PROVE OwedInv'
  <2>1. /\ cmd' = "none" /\ ~data' /\ ~aborting' /\ gone' = gone
        /\ gone => serving' = "none"
    BY <1>1, <1>8 DEF CallDead, Return, OwedInv, server
  <2>2. ~gone => Owes(0, "none", << >>)'
    BY <1>2, <1>8 DEF CallDead, Owes, server
  <2>3. QED
    BY <2>1, <2>2, OneCommandIsOwed
<1>9. ASSUME FinishTransfer \/ AbortTransfer PROVE OwedInv'
  <2>1. /\ inbox' = inbox /\ serving' = serving /\ gone' = gone /\ verb' = verb
        /\ data /\ ~data' /\ cmd = "none" /\ verb # "none" /\ ~aborting /\ cmd' = verb
        /\ \/ ~aborting' /\ wire' = wire
           \/ aborting' /\ wire' = Append(wire, "ABOR")
    BY <1>9 DEF FinishTransfer, AbortTransfer, Abort, Returned, CallInv, server
  <2>2. ~gone => Owes(0, verb, << >>) \/ Owes(1, "none", << >>)
    BY <2>1 DEF OwedInv
  <2>3. CASE ~aborting' /\ wire' = wire
    BY <2>1, <2>2, <2>3 DEF OwedInv, Owes, Opened
  <2>4. CASE aborting' /\ wire' = Append(wire, "ABOR")
    <3>1. ~gone => Owes(0, verb, <<"ABOR">>)' \/ Owes(1, "none", <<"ABOR">>)'
      BY <2>1, <2>2, <2>4, Short DEF Owes
    <3>2. QED
      BY <2>1, <2>4, <3>1 DEF OwedInv, Owes, Opened
  <2>5. QED
    BY <2>1, <2>3, <2>4
<1>10. QED
  BY <1>3, <1>4, <1>6, <1>7, <1>8, <1>9 DEF Begin

LEMMA ReadReplyKeepsOwed ==
  ASSUME TypeInv, CallInv, OwedInv, ReadReply
  PROVE  OwedInv'
<1>1. cmd # "none" /\ Len(inbox) \in Nat \ {0} /\ Len(Tail(inbox)) = Len(inbox) - 1
      /\ Reply = inbox[1]
  BY RestOfInbox DEF ReadReply
<1>2. gone => serving = "none"
  BY DEF OwedInv
<1>3. ASSUME cmd # verb, ~gone
      PROVE  Len(inbox) = 1 /\ serving = "none" /\ wire = << >>
  BY <1>1, <1>3 DEF OwedInv, Owes
<1>4. ASSUME inbox' = Tail(inbox), gone' = gone, serving' = serving, ~data', ~aborting',
             ~gone => Len(inbox) = 1 /\ serving = "none" /\ wire = << >>,
             \/ cmd' = "none" /\ wire' = wire
             \/ cmd' # "none" /\ cmd' # verb' /\ wire' = Append(wire, cmd')
      PROVE  OwedInv'
  <2>1. ~gone => Len(inbox') = 0 /\ serving' = "none" /\ wire = << >>
    <3>1. Len(inbox') = Len(inbox) - 1
      BY <1>1, <1>4
    <3>2. Len(inbox) = 1 => Len(inbox') = 0
      BY <3>1
    <3>3. QED
      BY <1>4, <3>2
  <2>2. ~gone => \/ cmd' = "none" /\ Owes(0, "none", << >>)'
                 \/ cmd' # "none" /\ cmd' # verb' /\ Owes(0, "none", <<cmd>>)'
    BY <1>4, <2>1, Short DEF Owes
  <2>3. QED
    BY <1>2, <1>4, <2>2, OneCommandIsOwed
<1>5. CASE LoginReply
  <2>1. call = "connect" /\ verb = "none" /\ ~data /\ ~aborting
    BY <1>5 DEF LoginReply, CallInv
  <2>2. CASE \E c \in NextOfLogin(Reply.code) : Send(c) /\ Consume
                /\ UNCHANGED <<open, broken, data, call, verb, aborting, result, server>>
    <3>1. PICK c \in NextOfLogin(Reply.code) :
            Send(c) /\ Consume /\ UNCHANGED <<data, verb, aborting, server>>
      BY <2>2
    <3>2. c # "none"
      BY <3>1 DEF NextOfLogin
    <3>3. QED
      BY <1>1, <1>3, <1>4, <2>1, <3>1, <3>2 DEF Send, Consume, server
  <2>3. CASE Return("yes") /\ Consume /\ UNCHANGED <<open, broken, data, verb, aborting, wire, server>>
    BY <1>1, <1>3, <1>4, <2>1, <2>3 DEF Return, Consume, server
  <2>4. CASE Close /\ Return("no")
    BY <2>4, CloseKeepsOwed DEF Return
  <2>5. QED
    BY <1>5, <2>2, <2>3, <2>4 DEF LoginReply
<1>6. CASE SimpleReply
  <2>1. /\ inbox' = Tail(inbox) /\ verb = "none"
        /\ UNCHANGED <<data, aborting, serving, gone>>
        /\ \/ cmd' = "none" /\ wire' = wire
           \/ /\ cmd' \in {"RNTO", "PASV"} /\ verb' \in {"none", "MLSD"}
              /\ wire' = Append(wire, cmd')
    BY <1>6 DEF SimpleReply, Consume, Send, Return, server
  <2>2. ~data' /\ ~aborting'
    BY <2>1 DEF CallInv
  <2>3. cmd' # "none" => cmd' # verb'
    BY <2>1
  <2>4. QED
    BY <1>1, <1>3, <1>4, <2>1, <2>2, <2>3
<1>7. CASE OpeningReply
  <2>1. /\ inbox' = Tail(inbox) /\ gone' = gone /\ serving' = serving
        /\ ~aborting /\ ~aborting' /\ verb \in Transfers
    BY <1>7 DEF OpeningReply, Consume, TypeInv
  <2>2. verb \notin {"none", "PASV"}
    BY <2>1, Distinct
  <2>3. CASE cmd = "PASV" /\ data' = TRUE /\ Send(verb) /\ verb' = verb
    <3>1. ~gone => Len(inbox') = 0 /\ serving' = "none" /\ wire' = <<verb>>
      <4>1. ~gone => Len(inbox) = 1 /\ serving = "none" /\ wire = << >>
        BY <1>3, <2>2, <2>3
      <4>2. Len(inbox) = 1 => Len(inbox') = 0
        BY <1>1, <2>1
      <4>3. wire' = Append(wire, verb)
        BY <2>3 DEF Send
      <4>4. QED
        BY <2>1, <4>1, <4>2, <4>3, Short
    <3>2. ~gone => Owes(0, "none", <<verb>>)'
      BY <3>1, <2>3 DEF Owes
    <3>3. cmd' = verb' /\ data' /\ cmd' # "none" /\ gone' = gone /\ serving' = serving
      BY <2>1, <2>2, <2>3 DEF Send
    <3>4. QED
      BY <1>2, <2>1, <3>2, <3>3 DEF OwedInv, Opened
  <2>4. ASSUME NotOpened, ~gone => Len(inbox) = 1 /\ serving = "none" /\ wire = << >>
        PROVE  OwedInv'
    <3>1. /\ ~data'
          /\ \/ cmd' = "none" /\ wire' = wire
             \/ cmd' = "PASV" /\ verb' = "LIST" /\ wire' = Append(wire, cmd')
      BY <2>4 DEF NotOpened, Send, Return
    <3>2. QED
      BY <1>4, <2>1, <2>4, <3>1
  <2>5. CASE cmd = "PASV" /\ NotOpened
    BY <1>3, <2>2, <2>4, <2>5
  <2>6. CASE cmd = verb /\ data /\ Reply.code # "1xx" /\ NotOpened
    <3>1. ~gone => Len(inbox) = 1 /\ serving = "none" /\ wire = << >>
      BY <1>1, <2>6 DEF OwedInv, Opened, Owes
    <3>2. QED
      BY <2>4, <2>6, <3>1
  <2>7. CASE cmd = verb /\ data /\ Reply.code = "1xx" /\ cmd' = "none"
             /\ UNCHANGED <<data, verb, wire>>
    <3>1. ~gone => Owes(1, verb, << >>) \/ Owes(2, "none", << >>)
      BY <1>1, <2>7 DEF OwedInv, Opened, Owes
    <3>2. ~gone => Owes(0, verb, << >>)' \/ Owes(1, "none", << >>)'
      BY <1>1, <2>1, <2>7, <3>1 DEF Owes
    <3>3. cmd' = "none" /\ data' /\ verb' # "none"
      BY <2>2, <2>7
    <3>4. ~Opened'
      BY <3>3 DEF Opened
    <3>5. QED
      BY <1>2, <2>1, <3>2, <3>3, <3>4 DEF OwedInv
  <2>8. CASE cmd = verb /\ ~data /\ cmd' = "none" /\ UNCHANGED <<data, wire>>
    <3>1. ~gone => Len(inbox) = 1 /\ serving = "none" /\ wire = << >>
      BY <1>1, <2>1, <2>2, <2>8 DEF OwedInv, Owes
    <3>2. QED
      BY <1>4, <2>1, <2>8, <3>1
  <2>9. QED
    BY <1>7, <2>3, <2>5, <2>6, <2>7, <2>8 DEF OpeningReply, Return
<1>8. CASE AbortReply
  <2>1. /\ aborting /\ inbox' = Tail(inbox) /\ gone' = gone /\ serving' = serving
        /\ wire' = wire /\ ~data /\ ~data' /\ cmd \in {verb, "ABOR"} /\ verb # "ABOR"
    BY <1>8, Distinct DEF AbortReply, Consume, CallInv, TypeInv, server
  <2>2. CASE cmd = verb /\ cmd' = "ABOR" /\ UNCHANGED <<verb, aborting>>
    <3>1. ~gone => Owes(1, "none", <<"ABOR">>) \/ Owes(2, "none", << >>)
      BY <1>1, <2>1, <2>2 DEF OwedInv, Owes
    <3>2. ~gone => Owes(0, "none", <<"ABOR">>)' \/ Owes(1, "none", << >>)'
      BY <1>1, <2>1, <3>1 DEF Owes
    <3>3. cmd' # verb' /\ cmd' = "ABOR" /\ ~Opened'
      BY <2>1, <2>2 DEF Opened
    <3>4. QED
      BY <1>2, <2>1, <3>2, <3>3 DEF OwedInv
  <2>3. CASE cmd = "ABOR" /\ aborting' = FALSE /\ Return("no")
    BY <1>3, <1>4, <2>1, <2>3 DEF Return
  <2>4. QED
    BY <1>8, <2>1, <2>2, <2>3 DEF AbortReply, LastReply
<1>9. QED
  BY <1>5, <1>6, <1>7, <1>8 DEF ReadReply

LEMMA StepKeepsOwed ==
  ASSUME TypeInv, CallInv, OwedInv, Step
  PROVE  OwedInv'
<1>1. CASE ReadListing
  <2>1. /\ inbox' = inbox /\ serving' = serving /\ gone' = gone /\ verb' = verb
        /\ data /\ ~data' /\ cmd = "none" /\ verb # "none" /\ ~aborting /\ cmd' = verb
        /\ \/ ~aborting' /\ wire' = wire
           \/ aborting' /\ wire' = Append(wire, "ABOR")
    BY <1>1 DEF ReadListing, Abort, CallInv, server
  <2>2. ~gone => Owes(0, verb, << >>) \/ Owes(1, "none", << >>)
    BY <2>1 DEF OwedInv
  <2>3. CASE ~aborting' /\ wire' = wire
    BY <2>1, <2>2, <2>3 DEF OwedInv, Owes, Opened
  <2>4. CASE aborting' /\ wire' = Append(wire, "ABOR")
    <3>1. ~gone => Owes(0, verb, <<"ABOR">>)' \/ Owes(1, "none", <<"ABOR">>)'
      BY <2>1, <2>2, <2>4, Short DEF Owes
    <3>2. QED
      BY <2>1, <2>4, <3>1 DEF OwedInv, Owes, Opened
  <2>5. QED
    BY <2>1, <2>3, <2>4
<1>2. CASE LoseLink
  BY <1>2, CloseKeepsOwed DEF LoseLink, Return
<1>3. QED
  BY <1>1, <1>2, ReadReplyKeepsOwed DEF Step

----------------------------------------------------------------------------
(* The server's steps. *)

(* At most two replies await the client, so long as the server has not     *)
(* left, and the good-bye is not among them.                               *)
LEMMA Room ==
  ASSUME TypeInv, CallInv, InboxInv, OwedInv, ~gone
  PROVE  /\ Len(inbox) \in 0..2
         /\ \A i \in 1..Len(inbox) : inbox[i].to # "bye"
<1>1. Len(inbox) = 0 \/ Len(inbox) = 1 \/ Len(inbox) = 2
  BY DEF OwedInv, Owes, Opened, CallInv
<1>2. QED
  BY <1>1 DEF InboxInv

LEMMA FirstStays ==
  ASSUME TypeInv, NEW c \in Commands \cup {"bye"}, NEW code \in Codes, Tell(c, code)
  PROVE  /\ Len(inbox) \in Nat /\ Len(inbox') = Len(inbox) + 1
         /\ Len(inbox) >= 1 => inbox'[1] = inbox[1]
         /\ Len(inbox) = 0 => inbox'[1].code = code
<1>1. /\ Len(inbox) \in Nat /\ Len(inbox') = Len(inbox) + 1
      /\ \A i \in 1..Len(inbox) : inbox'[i] = inbox[i]
      /\ inbox'[Len(inbox) + 1] = [to |-> c, code |-> code]
  BY NewReply
<1>2. CASE Len(inbox) >= 1
  <2>1. 1 \in 1..Len(inbox)
    BY <1>1, <1>2
  <2>2. QED
    BY <1>1, <1>2, <2>1
<1>3. CASE Len(inbox) = 0
  <2>1. Len(inbox) + 1 = 1
    BY <1>3
  <2>2. QED
    BY <1>1, <1>3, <2>1
<1>4. QED
  BY <1>1, <1>2, <1>3

(* The server says something that the client expects.                      *)
LEMMA SpeakKeepsInbox ==
  ASSUME TypeInv, CallInv, InboxInv, OwedInv, ~gone, UNCHANGED client,
         NEW c \in Commands \cup {"bye"}, NEW code \in Codes, Tell(c, code),
         \/ c = "bye" /\ code = "421" /\ gone'
         \/ /\ c # "bye"
            /\ \/ Len(inbox) = 0 /\ c = First
               \/ Len(inbox) = 1 /\ c = Second
               \/ Len(inbox) = 1 /\ Opened /\ inbox[1].code = "1xx" /\ c = verb
  PROVE  InboxInv'
<1> DEFINE n == Len(inbox)
<1>1. n \in 0..2 /\ \A i \in 1..n : inbox[i].to # "bye"
  BY Room
<1>2. /\ Len(inbox') = n + 1
      /\ \A i \in 1..n : inbox'[i] = inbox[i]
      /\ inbox'[n + 1] = [to |-> c, code |-> code]
  BY NewReply
<1>3. First' = First /\ Second' = Second /\ Opened' = Opened /\ verb' = verb
  BY DEF client, First, Second, Opened
<1>4. ASSUME NEW i \in 1..Len(inbox'), inbox'[i].to = "bye"
      PROVE  i = Len(inbox') /\ gone' /\ inbox'[i].code = "421"
  <2>1. i \in 1..n \/ i = n + 1
    BY <1>1, <1>2, <1>4
  <2>2. i = n + 1
    BY <1>1, <1>2, <1>4, <2>1
  <2>3. c = "bye" /\ inbox'[i].code = code
    BY <1>2, <1>4, <2>2
  <2>4. QED
    BY <1>2, <2>2, <2>3
<1>5. CASE n = 0
  <2>1. Len(inbox') = 1 /\ inbox'[1].to = c /\ c \in {First, "bye"}
    BY <1>2, <1>5
  <2>2. QED
    BY <1>3, <1>4, <2>1 DEF InboxInv
<1>6. CASE n = 1
  <2>1. Len(inbox') = 2 /\ inbox'[1] = inbox[1] /\ inbox'[2].to = c
    BY <1>2, <1>6
  <2>2. inbox[1].to \in {First, "bye"}
    BY <1>6 DEF InboxInv
  <2>3. c \in {Second, "bye"} \cup IF Opened /\ inbox[1].code = "1xx" THEN {verb} ELSE {}
    BY <1>6
  <2>4. QED
    BY <1>3, <1>4, <2>1, <2>2, <2>3 DEF InboxInv
<1>7. CASE n = 2
  <2>1. c = "bye"
    BY <1>7
  <2>2. Len(inbox') = 3 /\ inbox'[1] = inbox[1] /\ inbox'[2] = inbox[2] /\ inbox'[3].to = c
    BY <1>2, <1>7
  <2>3. /\ inbox[1].to \in {First, "bye"}
        /\ inbox[2].to \in {Second, "bye"} \cup
                            IF Opened /\ inbox[1].code = "1xx" THEN {verb} ELSE {}
    BY <1>7 DEF InboxInv
  <2>4. QED
    BY <1>3, <1>4, <2>1, <2>2, <2>3 DEF InboxInv
<1>8. QED
  BY <1>1, <1>5, <1>6, <1>7

LEMMA ServerKeepsBoth ==
  ASSUME TypeInv, CallInv, InboxInv, OwedInv, Server
  PROVE  InboxInv' /\ OwedInv'
<1>0. /\ UNCHANGED client /\ First' = First /\ Second' = Second /\ (Opened' <=> Opened)
      /\ ~gone
  BY DEF Server, Serve, EndTransfer, Bye, client, First, Second, Opened, OwedInv
<1>1. CASE Serve
  <2>1. PICK code \in Answers[Head(wire)] :
          /\ Tell(Head(wire), code)
          /\ serving' = IF code = "1xx" THEN Head(wire) ELSE "none"
    BY <1>1 DEF Serve
  <2>2. Head(wire) \in Commands
    BY <1>1 DEF Serve, TypeInv, Queue
  <2>3. code \in Codes /\ (code = "1xx" => Head(wire) \in Transfers)
    BY <2>1, <2>2 DEF Answers, Codes, Completed
  <2>4. Len(inbox') = Len(inbox) + 1 /\ Len(inbox) \in Nat
        /\ (Len(inbox) >= 1 => inbox'[1] = inbox[1])
        /\ (Len(inbox) = 0 => inbox'[1].code = code)
    BY <2>1, <2>2, <2>3, FirstStays
  <2>5. serving = "none" /\ wire # << >> /\ wire' = Tail(wire) /\ gone' = gone
    BY <1>1 DEF Serve
  <2>6. CASE Opened /\ Owes(0, "none", <<verb>>)
    <3>1. Head(wire) = verb /\ wire' = << >> /\ Len(inbox) = 0 /\ cmd = verb /\ data
          /\ First = verb /\ verb # "none"
      BY <2>5, <2>6, Short DEF Owes, Opened, First, CallInv
    <3>2. InboxInv'
      BY <1>0, <2>1, <2>2, <2>3, <3>1, Distinct, SpeakKeepsInbox
    <3>3. \/ Owes(1, verb, << >>)' /\ inbox'[1].code = "1xx"
          \/ Owes(1, "none", << >>)' /\ inbox'[1].code # "1xx"
      BY <1>0, <2>1, <2>4, <3>1 DEF Owes, client
    <3>4. cmd' = verb' /\ data' /\ ~aborting' /\ cmd' # "none" /\ ~gone'
      BY <1>0, <2>5, <3>1 DEF client, CallInv
    <3>5. QED
      BY <3>2, <3>3, <3>4 DEF OwedInv, Opened
  <2>7. CASE aborting /\ cmd = verb /\ Owes(1, "none", <<"ABOR">>)
    <3>1. /\ Head(wire) = "ABOR" /\ wire' = << >> /\ Len(inbox) = 1 /\ Second = "ABOR"
          /\ ~data /\ cmd # "none" /\ "ABOR" \notin Transfers
      BY <2>5, <2>7, Short, Distinct DEF Owes, Second, CallInv
    <3>2. InboxInv'
      BY <1>0, <2>1, <2>2, <2>3, <3>1, SpeakKeepsInbox
    <3>3. Owes(2, "none", << >>)'
      BY <2>1, <2>3, <2>4, <3>1 DEF Owes
    <3>4. cmd' = verb' /\ ~data' /\ aborting' /\ cmd' # "none" /\ ~gone'
      BY <1>0, <2>5, <2>7, <3>1 DEF client
    <3>5. QED
      BY <3>2, <3>3, <3>4 DEF OwedInv, Opened
  <2>8. CASE cmd # "none" /\ cmd # verb /\ Owes(0, "none", <<cmd>>)
    <3>1. Head(wire) = cmd /\ wire' = << >> /\ Len(inbox) = 0 /\ First = cmd
          /\ cmd \notin Transfers /\ cmd # "bye"
      BY <2>2, <2>5, <2>8, Short, Distinct DEF Owes, First, CallInv
    <3>2. InboxInv'
      BY <1>0, <2>1, <2>2, <2>3, <3>1, SpeakKeepsInbox
    <3>3. Owes(1, "none", << >>)'
      BY <2>1, <2>3, <2>4, <3>1 DEF Owes
    <3>4. cmd' # verb' /\ cmd' # "none" /\ ~gone'
      BY <1>0, <2>5, <2>8 DEF client
    <3>5. QED
      BY <3>2, <3>3, <3>4 DEF OwedInv, Opened, Owes
  <2>9. QED
    BY <1>0, <2>5, <2>6, <2>7, <2>8 DEF OwedInv, Owes, Opened, CallInv
<1>2. CASE EndTransfer
  <2>1. PICK code \in {"226", "4xx"} : Tell(serving, code)
    BY <1>2 DEF EndTransfer
  <2>2. serving \in Transfers /\ serving \in Commands /\ serving # "bye" /\ code \in Codes
    BY <1>2, <2>1, Names, Distinct DEF EndTransfer, TypeInv, Codes, Completed
  <2>3. Len(inbox') = Len(inbox) + 1 /\ Len(inbox) \in Nat
        /\ (Len(inbox) >= 1 => inbox'[1] = inbox[1])
    BY <2>1, <2>2, FirstStays
  <2>4. serving # "none" /\ serving' = "none" /\ wire' = wire /\ gone' = gone
    BY <1>2 DEF EndTransfer
  <2>5. CASE /\ (cmd = "none" /\ data) \/ (cmd = verb /\ cmd # "none" /\ ~data /\ ~aborting)
             /\ Owes(0, verb, << >>)
    <3>1. serving = verb /\ First = verb /\ Len(inbox) = 0 /\ wire = << >> /\ verb # "none"
      BY <2>4, <2>5 DEF Owes, First
    <3>2. InboxInv'
      BY <1>0, <2>1, <2>2, <3>1, SpeakKeepsInbox
    <3>3. Owes(1, "none", << >>)'
      BY <2>3, <2>4, <3>1 DEF Owes
    <3>4. ~gone' /\ ~Opened'
          /\ \/ cmd' = "none" /\ data'
             \/ cmd' = verb' /\ cmd' # "none" /\ ~data' /\ ~aborting'
      BY <1>0, <2>4, <2>5, <3>1 DEF client, Opened
    <3>5. ~aborting' \/ cmd' # verb'
      BY <1>0, <2>5, <3>1 DEF client, CallInv
    <3>6. QED
      BY <3>2, <3>3, <3>4, <3>5 DEF OwedInv
  <2>6. CASE Opened /\ Owes(1, verb, << >>) /\ inbox[1].code = "1xx"
    <3>1. serving = verb /\ Len(inbox) = 1 /\ wire = << >> /\ cmd = verb /\ data /\ verb # "none"
      BY <2>4, <2>6 DEF Owes, Opened
    <3>2. InboxInv'
      BY <1>0, <2>1, <2>2, <2>6, <3>1, SpeakKeepsInbox
    <3>3. Owes(2, "none", << >>)' /\ inbox'[1].code = "1xx"
      BY <2>3, <2>4, <2>6, <3>1 DEF Owes
    <3>4. cmd' = verb' /\ data' /\ ~aborting' /\ cmd' # "none" /\ ~gone'
      BY <1>0, <2>4, <3>1 DEF client, CallInv
    <3>5. QED
      BY <3>2, <3>3, <3>4 DEF OwedInv, Opened
  <2>7. CASE aborting /\ cmd = verb /\ Owes(0, verb, <<"ABOR">>)
    <3>1. serving = verb /\ Len(inbox) = 0 /\ wire = <<"ABOR">> /\ ~data /\ verb # "none"
          /\ First = verb
      BY <2>4, <2>7 DEF Owes, First, CallInv
    <3>2. InboxInv'
      BY <1>0, <2>1, <2>2, <3>1, SpeakKeepsInbox
    <3>3. Owes(1, "none", <<"ABOR">>)'
      BY <2>3, <2>4, <3>1 DEF Owes
    <3>4. cmd' = verb' /\ ~data' /\ aborting' /\ cmd' # "none" /\ ~gone' /\ ~Opened'
      BY <1>0, <2>4, <2>7, <3>1 DEF client, Opened
    <3>5. QED
      BY <3>2, <3>3, <3>4 DEF OwedInv
  <2>8. QED
    BY <1>0, <2>4, <2>5, <2>6, <2>7 DEF OwedInv, Owes, Opened, CallInv
<1>3. CASE Bye
  <2>1. Tell("bye", "421") /\ gone' = TRUE /\ serving' = "none" /\ "421" \in Codes
    BY <1>3 DEF Bye, Codes
  <2>2. InboxInv'
    BY <1>0, <2>1, SpeakKeepsInbox
  <2>3. QED
    BY <2>1, <2>2 DEF OwedInv
<1>4. QED
  BY <1>1, <1>2, <1>3 DEF Server

----------------------------------------------------------------------------
(* The theorems. *)

LEMMA InitInv ==
  Init => Inv
<1> SUFFICES ASSUME Init PROVE Inv
  OBVIOUS
<1>1. TypeInv
  BY Nothing DEF Init, TypeInv
<1>2. CallInv
  BY Distinct DEF Init, CallInv
<1>3. InboxInv
  BY DEF Init, InboxInv
<1>4. OwedInv
  BY DEF Init, OwedInv, Owes, Opened
<1>5. QED
  BY <1>1, <1>2, <1>3, <1>4 DEF Inv

LEMMA NextKeepsInv ==
  Inv /\ [Next]_vars => Inv'
<1> SUFFICES ASSUME Inv, [Next]_vars PROVE Inv'
  OBVIOUS
<1> USE DEF Inv
<1>1. CASE Next
  <2>1. TypeInv' /\ CallInv'
    BY <1>1, NextKeepsType, NextKeepsCall
  <2>2. InboxInv' /\ OwedInv'
    BY <1>1, <2>1, BeginKeepsInbox, StepKeepsInbox, BeginKeepsOwed, StepKeepsOwed,
       ServerKeepsBoth DEF Next
  <2>3. QED
    BY <2>1, <2>2
<1>2. CASE UNCHANGED vars
  BY <1>2 DEF vars, TypeInv, CallInv, InboxInv, OwedInv, Owes, First, Second, Opened
<1>3. QED
  BY <1>1, <1>2

LEMMA InvHolds ==
  Spec => []Inv
BY InitInv, NextKeepsInv, PTL DEF Spec

LEMMA InvAnswers ==
  Inv => ReplyIsTheAnswer
<1> SUFFICES ASSUME Inv, cmd # "none", inbox # << >> PROVE Reply.to \in {cmd, "bye"}
  BY DEF ReplyIsTheAnswer
<1>1. Len(inbox) >= 1 /\ Reply = inbox[1]
  BY RestOfInbox DEF Inv
<1>2. QED
  BY <1>1 DEF Inv, InboxInv, First

LEMMA InvInStep ==
  Inv => InStep
<1> SUFFICES ASSUME Inv, Free
             PROVE  \/ wire = << >> /\ inbox = << >> /\ serving = "none"
                    \/ gone /\ \A i \in 1..Len(inbox) : inbox[i].to = "bye"
  BY DEF InStep
<1>1. cmd = "none" /\ verb = "none" /\ ~data /\ ~aborting
  BY DEF Inv, CallInv, Free, Returned
<1>2. inbox \in Inbox /\ Len(inbox) \in Nat /\ (Len(inbox) = 0 => inbox = << >>)
  BY DEF Inv, TypeInv, Inbox
<1>3. CASE ~gone
  BY <1>1, <1>2, <1>3 DEF Inv, OwedInv, Owes
<1>4. CASE gone
  <2>1. ASSUME NEW i \in 1..Len(inbox) PROVE inbox[i].to = "bye"
    <3>1. Len(inbox) >= 1 /\ 1 \in 1..Len(inbox)
      <4>1. i \in Int /\ i >= 1 /\ i <= Len(inbox)
        BY <1>2, <2>1
      <4>2. Len(inbox) \in Int /\ Len(inbox) >= 1
        BY <1>2, <4>1
      <4>3. QED
        BY <4>2
    <3>2. inbox[1].to # "none"
      BY <1>2, <3>1, ReplyIsNamed
    <3>3. First = "none"
      BY <1>1 DEF First
    <3>4. inbox[1].to = "bye"
      BY <3>1, <3>2, <3>3 DEF Inv, InboxInv
    <3>5. Len(inbox) = 1
      BY <3>1, <3>4 DEF Inv, InboxInv
    <3>6. QED
      BY <2>1, <3>4, <3>5
  <2>2. QED
    BY <1>4, <2>1
<1>5. QED
  BY <1>3, <1>4

(* A reply is read by the command it answers, or is the server's good-bye: *)
(* FtpClient::readReply() (ftpClient.cpp) never takes the answer to an     *)
(* earlier command for its own, whichever commands came before.            *)
THEOREM RepliesAreTheAnswers ==
  Spec => []ReplyIsTheAnswer
  BY InvAnswers, InvHolds, PTL

(* Between two calls and outside a transfer nothing is owed and nothing is *)
(* unread, after any sequence of listings, transfers, aborts and failures: *)
(* the client's next command starts in step.                               *)
THEOREM CallsBeginInStep ==
  Spec => []InStep
  BY InvInStep, InvHolds, PTL

(* probe() (ftpClient.cpp) says "directory" only when the server itself    *)
(* has refused the SIZE that it sent: neither the answer to another        *)
(* command, nor a lost connection, nor the server's good-bye will do.      *)
THEOREM ProbesNeverGuess ==
  Spec => ProbeNeverGuesses
<1> DEFINE A == call = "probe" /\ result' = "directory" /\ call' = "none" =>
                   inbox # << >> /\ Reply = [to |-> "SIZE", code |-> "5xx"]
<1>1. Inv /\ [Next]_vars => [A]_vars
  <2> SUFFICES ASSUME Inv, Next, call = "probe", result' = "directory", call' = "none"
               PROVE  inbox # << >> /\ Reply = [to |-> "SIZE", code |-> "5xx"]
    OBVIOUS
  <2>1. verb = "none" /\ cmd = "SIZE" /\ ~data /\ ~aborting /\ call # "none"
    BY DEF Inv, CallInv
  <2>2. ReadReply /\ SimpleReply
    <3>1. ~Begin
      BY <2>1 DEF Begin, Connect, Disconnect, CallSimple, CallOpening, CallDead, FinishTransfer,
                  AbortTransfer, Free, Returned
    <3>2. ~Server
      BY <2>1 DEF Server, Serve, EndTransfer, Bye, client
    <3>3. ~LoseLink
      BY DEF LoseLink, Return, LostResult
    <3>4. ~ReadListing
      BY <2>1 DEF ReadListing
    <3>5. QED
      BY <2>1, <3>1, <3>2, <3>3, <3>4 DEF Next, Step, ReadReply, LoginReply, OpeningReply, AbortReply
  <2>3. inbox # << >> /\ Reply.code = "5xx"
    BY <2>1, <2>2 DEF ReadReply, SimpleReply, Return, Send, Verdict
  <2>4. Reply = inbox[1] /\ Len(inbox) >= 1 /\ Reply.to \in {"SIZE", "bye"}
    <3>1. Len(inbox) \in Nat \ {0} /\ Reply = inbox[1]
      BY <2>3, RestOfInbox DEF Inv
    <3>2. inbox[1].to \in {"SIZE", "bye"}
      BY <2>1, <3>1 DEF Inv, InboxInv, First
    <3>3. QED
      BY <3>1, <3>2
  <2>5. Reply.to # "bye"
    <3>1. 1 \in 1..Len(inbox) /\ (inbox[1].to = "bye" => inbox[1].code = "421")
      <4>1. Len(inbox) \in Nat \ {0}
        BY <2>3, RestOfInbox DEF Inv
      <4>2. 1 \in 1..Len(inbox)
        BY <4>1
      <4>3. QED
        BY <4>2 DEF Inv, InboxInv
    <3>2. QED
      BY <2>3, <2>4, <3>1
  <2>6. Reply = [to |-> Reply.to, code |-> Reply.code]
    BY <2>3, RestOfInbox DEF Inv
  <2>7. QED
    BY <2>3, <2>4, <2>5, <2>6
<1>2. QED
  BY <1>1, InvHolds, PTL DEF Spec, ProbeNeverGuesses

=============================================================================
