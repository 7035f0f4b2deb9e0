----------------------------- MODULE FtpClient -----------------------------
(***************************************************************************)
(* The FTP client's control connection (source/ftp/ftpClient.cpp) and the  *)
(* server at the other end of it.                                          *)
(*                                                                         *)
(* The client sends one command at a time and reads its reply, except for  *)
(* a transfer: its command has two replies, a preliminary one before the   *)
(* data and a closing one after it, and ABOR adds a third.  Nothing on the *)
(* wire says which command a reply belongs to, so a reply left unread      *)
(* would answer the next command.  The model knows: a reply carries the    *)
(* command it answers.                                                     *)
(*                                                                         *)
(* The server is external.  It handles one command after another, may      *)
(* refuse any, end a transfer at any time, say 421 and go, or fall silent. *)
(***************************************************************************)
EXTENDS Integers, Sequences

Transfers == {"MLSD", "LIST", "RETR", "STOR"}
Commands  == Transfers \cup
             {"hello", "USER", "PASS", "FEAT", "OPTS", "TYPE", "PASV", "SIZE", "DELE", "RMD",
              "MKD", "RNFR", "RNTO", "ABOR"}
Completed == {"211", "213", "220", "226", "227", "230", "250"}    \* the 2xx codes
Codes     == Completed \cup {"1xx", "331", "350", "421", "4xx", "5xx"}

VARIABLES
    open,      \* m_control holds a socket
    broken,    \* m_broken
    data,      \* the client's data socket is open
    call,      \* the client's function that runs, "none" when it has returned
    cmd,       \* the command whose reply is awaited, "none" when no reply is
    verb,      \* the transfer being opened, running or closed, "none" outside one
    aborting,  \* abortTransfer() runs
    result,    \* what the last function returned
    wire,      \* commands the server has not handled
    inbox,     \* replies the client has not read, m_buffer included
    serving,   \* the transfer the server works on
    eof,       \* the server has closed its end of the data connection
    gone       \* the server has closed its end of the control connection

vars == <<open, broken, data, call, cmd, verb, aborting, result, wire, inbox, serving, eof, gone>>

client == <<open, broken, data, call, cmd, verb, aborting, result>>
server == <<serving, eof, gone>>

Alive == open /\ ~broken

(* The functions that are one command, and the command of each. *)
Simple == [removeFile |-> "DELE", removeDirectory |-> "RMD", makeDirectory |-> "MKD",
           size |-> "SIZE", probe |-> "SIZE", exists |-> "SIZE", rename |-> "RNFR"]
(* The functions that begin with a transfer. *)
Opening == [list |-> "MLSD", beginRetrieve |-> "RETR", beginStore |-> "STOR"]

Calls == DOMAIN Simple \cup DOMAIN Opening \cup {"connect", "finishTransfer", "abortTransfer"}
Results == {"none", "yes", "no", "file", "directory", "error"}

----------------------------------------------------------------------------
(* Faulty variants of the definitions below, one for each property. *)

KeepLine == UNCHANGED inbox                  \* a line that was read stays in m_buffer
FirstReply == cmd = verb                     \* abortTransfer() reads one reply only
GuessDirectory(c) == "directory"             \* no answer is taken for "not a file"

----------------------------------------------------------------------------
(* The pieces of the client. *)

Send(c) == cmd' = c /\ wire' = Append(wire, c)

Return(r) == call' = "none" /\ cmd' = "none" /\ result' = r

(* What each function returns when the connection is lost under it. *)
LostResult(c) == IF c = "probe" THEN "error" ELSE "no"

(* The control connection is closed; what was on its way is lost. *)
Close ==
    /\ open' = FALSE
    /\ wire' = << >> /\ inbox' = << >>
    /\ serving' = "none" /\ eof' = FALSE /\ gone' = FALSE
    /\ data' = FALSE /\ verb' = "none" /\ aborting' = FALSE

Init ==
    /\ open = FALSE /\ broken = FALSE /\ data = FALSE
    /\ call = "none" /\ cmd = "none" /\ verb = "none" /\ aborting = FALSE /\ result = "none"
    /\ wire = << >> /\ inbox = << >>
    /\ serving = "none" /\ eof = FALSE /\ gone = FALSE

(* No function runs; with a transfer open, only finishTransfer() and       *)
(* abortTransfer() may be called.                                          *)
Returned == call = "none"
Free == Returned /\ ~data

----------------------------------------------------------------------------
(* The client's functions begin. *)

(* connect() drops the old connection first.  The TCP connection may fail. *)
Connect ==
    /\ Free
    /\ broken' = FALSE
    /\ \/ /\ Close
          /\ Return("no")
       \/ /\ open' = TRUE
          /\ wire' = <<"hello">> /\ inbox' = << >>
          /\ serving' = "none" /\ eof' = FALSE /\ gone' = FALSE
          /\ call' = "connect" /\ cmd' = "hello"
          /\ UNCHANGED <<data, verb, aborting, result>>

Disconnect ==
    /\ Free
    /\ Close
    /\ broken' = FALSE
    /\ Return("none")

(* A function called on a dead session returns without sending. *)
CallDead(c) ==
    /\ Free
    /\ ~Alive
    /\ Return(LostResult(c))
    /\ UNCHANGED <<open, broken, data, verb, aborting, wire, inbox, server>>

CallSimple(c) ==
    /\ Free
    /\ Alive
    /\ call' = c
    /\ Send(Simple[c])
    /\ UNCHANGED <<open, broken, data, verb, aborting, result, inbox, server>>

CallOpening(c) ==
    /\ Free
    /\ Alive
    /\ call' = c
    /\ verb' = Opening[c]
    /\ Send("PASV")
    /\ UNCHANGED <<open, broken, data, aborting, result, inbox, server>>

(* The data has been read to its end, or written: the caller closes the    *)
(* data socket and reads the closing reply.                                *)
FinishTransfer ==
    /\ Returned
    /\ data
    /\ verb = "RETR" => eof
    /\ data' = FALSE
    /\ call' = "finishTransfer"
    /\ cmd' = verb
    /\ UNCHANGED <<open, broken, verb, aborting, result, wire, inbox, server>>

Abort ==
    /\ data' = FALSE
    /\ aborting' = TRUE
    /\ cmd' = verb
    /\ wire' = Append(wire, "ABOR")

AbortTransfer ==
    /\ Returned
    /\ data
    /\ call' = "abortTransfer"
    /\ Abort
    /\ UNCHANGED <<open, broken, verb, result, inbox, server>>

----------------------------------------------------------------------------
(* A function reads a reply. *)

Reply == Head(inbox)

Consume == inbox' = Tail(inbox)

(* connect(): the greeting, the login, FEAT, OPTS and TYPE.  OPTS is sent  *)
(* when FEAT offers UTF-8.  Any refusal ends in disconnect().              *)
NextOfLogin(code) ==
    CASE cmd = "hello" /\ code = "220"            -> {"USER"}
      [] cmd = "USER" /\ code = "331"             -> {"PASS"}
      [] cmd \in {"USER", "PASS"} /\ code = "230" -> {"FEAT"}
      [] cmd = "FEAT" /\ code = "211"             -> {"OPTS", "TYPE"}
      [] cmd = "FEAT" /\ code # "211"             -> {"TYPE"}
      [] cmd = "OPTS"                             -> {"TYPE"}
      [] OTHER                                    -> {}

LoginReply ==
    /\ call = "connect"
    /\ LET next == NextOfLogin(Reply.code)
       IN  \/ /\ \E c \in next : Send(c)
              /\ Consume
              /\ UNCHANGED <<open, broken, data, call, verb, aborting, result, server>>
           \/ /\ next = {} /\ cmd = "TYPE" /\ Reply.code \in Completed
              /\ Return("yes")
              /\ Consume
              /\ UNCHANGED <<open, broken, data, verb, aborting, wire, server>>
           \/ /\ next = {} /\ ~(cmd = "TYPE" /\ Reply.code \in Completed)
              /\ Close
              /\ broken' = FALSE
              /\ Return("no")

(* Functions of one command.  rename() has a second one; exists() asks the *)
(* parent's listing when SIZE is refused.                                  *)
Verdict(code) ==
    CASE call \in {"size", "exists"} -> IF code = "213" THEN "yes" ELSE "no"
      [] call = "probe"              -> IF code = "213" THEN "file"
                                        ELSE IF code = "5xx" THEN "directory" ELSE "error"
      [] call = "makeDirectory"      -> IF code = "250" THEN "yes" ELSE "no"
      [] OTHER                       -> IF code \in Completed THEN "yes" ELSE "no"

SimpleReply ==
    /\ call \in DOMAIN Simple
    /\ verb = "none"
    /\ Consume
    /\ \/ /\ cmd = "RNFR" /\ Reply.code = "350"
          /\ Send("RNTO")
          /\ UNCHANGED <<call, verb, result>>
       \/ /\ cmd = "RNFR" /\ Reply.code # "350"
          /\ Return("no")
          /\ UNCHANGED <<verb, wire>>
       \/ /\ call = "exists" /\ Reply.code # "213"
          /\ verb' = "MLSD"
          /\ Send("PASV")
          /\ UNCHANGED <<call, result>>
       \/ /\ cmd # "RNFR" /\ ~(call = "exists" /\ Reply.code # "213")
          /\ Return(Verdict(Reply.code))
          /\ UNCHANGED <<verb, wire>>
    /\ UNCHANGED <<open, broken, data, aborting, server>>

(* openData() has failed: list() tries LIST after MLSD, the others give up. *)
NotOpened ==
    /\ data' = FALSE
    /\ \/ /\ verb = "MLSD"
          /\ verb' = "LIST"
          /\ Send("PASV")
          /\ UNCHANGED <<call, result>>
       \/ /\ verb # "MLSD"
          /\ verb' = "none"
          /\ Return("no")
          /\ UNCHANGED wire

(* What a transfer's closing reply means.  exists() has the listing of the *)
(* parent by then, and the name is in it or not.                           *)
Closing(code) ==
    IF code \notin Completed THEN {"no"} ELSE IF call = "exists" THEN {"yes", "no"} ELSE {"yes"}

(* openPassive() and openData(): PASV, the data connection, the command.   *)
(* The data connection may fail, and so may the reading of the address.    *)
OpeningReply ==
    /\ verb # "none" /\ ~aborting
    /\ Consume
    /\ \/ /\ cmd = "PASV" /\ Reply.code = "227"
          /\ data' = TRUE /\ eof' = FALSE
          /\ Send(verb)
          /\ UNCHANGED <<call, verb, result>>
       \/ /\ cmd = "PASV"
          /\ NotOpened
          /\ UNCHANGED eof
       \/ /\ cmd = verb /\ data /\ Reply.code # "1xx"
          /\ NotOpened
          /\ UNCHANGED eof
       \/ /\ cmd = verb /\ data /\ Reply.code = "1xx"
          /\ cmd' = "none"
          /\ IF verb \in {"RETR", "STOR"}
             THEN call' = "none" /\ result' = "yes"
             ELSE UNCHANGED <<call, result>>
          /\ UNCHANGED <<data, verb, wire, eof>>
       \/ /\ cmd = verb /\ ~data
          /\ verb' = "none"
          /\ \E r \in Closing(Reply.code) : Return(r)
          /\ UNCHANGED <<data, wire, eof>>
    /\ UNCHANGED <<open, broken, aborting, serving, gone>>

(* abortTransfer() reads the transfer's closing reply and ABOR's. *)
LastReply == cmd = "ABOR"

AbortReply ==
    /\ aborting
    /\ Consume
    /\ \/ /\ ~LastReply
          /\ cmd' = "ABOR"
          /\ UNCHANGED <<call, verb, aborting, result>>
       \/ /\ LastReply
          /\ aborting' = FALSE /\ verb' = "none"
          /\ Return("no")
    /\ UNCHANGED <<open, broken, data, wire, server>>

ReadReply ==
    /\ cmd # "none"
    /\ inbox # << >>
    /\ LoginReply \/ SimpleReply \/ OpeningReply \/ AbortReply

(* list() reads its rows: to the end, or until an error, a timeout or the  *)
(* bound on a listing, after which it resynchronises.                      *)
ReadListing ==
    /\ call \in {"list", "exists"}
    /\ data /\ cmd = "none"
    /\ \/ /\ eof
          /\ data' = FALSE
          /\ cmd' = verb
          /\ UNCHANGED <<aborting, wire>>
       \/ Abort
    /\ UNCHANGED <<open, broken, call, verb, result, inbox, server>>

(* A send or a read fails: an error, the server gone, a reply that is not  *)
(* one, or no reply before the deadline.  fail() closes the connection and *)
(* the function returns; connect() also forgets that it was broken.        *)
CanFail == TRUE

LoseLink ==
    /\ cmd # "none"
    /\ CanFail
    /\ Close
    /\ broken' = (call # "connect")
    /\ Return(LostResult(call))

----------------------------------------------------------------------------
(* The server. *)

Answers ==
    [c \in Commands |->
        CASE c = "hello"                                -> {"220", "5xx"}
          [] c = "USER"                                 -> {"331", "230", "5xx"}
          [] c = "PASS"                                 -> {"230", "5xx"}
          [] c = "FEAT"                                 -> {"211", "5xx"}
          [] c = "PASV"                                 -> {"227", "5xx"}
          [] c = "SIZE"                                 -> {"213", "4xx", "5xx"}
          [] c = "RNFR"                                 -> {"350", "5xx"}
          [] c \in Transfers                            -> {"1xx", "5xx"}
          [] c = "ABOR"                                 -> {"226", "5xx"}
          [] OTHER                                      -> {"250", "5xx"}]

Tell(c, code) == inbox' = Append(inbox, [to |-> c, code |-> code])

Serve ==
    /\ open /\ ~gone
    /\ serving = "none" /\ wire # << >>
    /\ wire' = Tail(wire)
    /\ \E code \in Answers[Head(wire)] :
          /\ Tell(Head(wire), code)
          /\ serving' = IF code = "1xx" THEN Head(wire) ELSE "none"
    /\ UNCHANGED <<client, eof, gone>>

(* The transfer ends, whole or not; an upload ends well only when the      *)
(* client has closed its data socket.                                      *)
EndTransfer ==
    /\ serving # "none"
    /\ \E code \in {"226", "4xx"} :
          /\ serving = "STOR" /\ data => code = "4xx"
          /\ Tell(serving, code)
    /\ serving' = "none"
    /\ eof' = TRUE
    /\ UNCHANGED <<client, wire, gone>>

(* The server ends the session of its own accord. *)
Bye ==
    /\ open /\ ~gone
    /\ Tell("bye", "421")
    /\ gone' = TRUE
    /\ serving' = "none" /\ eof' = TRUE
    /\ UNCHANGED <<client, wire>>

----------------------------------------------------------------------------

Begin ==
    \/ Connect \/ Disconnect
    \/ \E c \in DOMAIN Simple : CallSimple(c) \/ CallDead(c)
    \/ \E c \in DOMAIN Opening : CallOpening(c) \/ CallDead(c)
    \/ FinishTransfer \/ AbortTransfer

Step   == ReadReply \/ ReadListing \/ LoseLink
Server == Serve \/ EndTransfer \/ Bye

Next == Begin \/ Step \/ Server

(* Every wait of the client has a deadline; the server owes nothing. *)
Spec == Init /\ [][Next]_vars /\ WF_vars(Step)

----------------------------------------------------------------------------
(* Properties. *)

TypeOK ==
    /\ {open, broken, data, aborting, eof, gone} \subseteq BOOLEAN
    /\ broken => ~open
    /\ call \in Calls \cup {"none"}
    /\ cmd \in Commands \cup {"none"}
    /\ verb \in Transfers \cup {"none"}
    /\ result \in Results
    /\ wire \in Seq(Commands)
    /\ inbox \in Seq([to : Commands \cup {"bye"}, code : Codes])
    /\ serving \in Transfers \cup {"none"}
    /\ call = "none" => cmd = "none"
    /\ data => verb # "none"

(* The reply the client reads next is the answer to the command it awaits, *)
(* unless it is the server's good-bye: no command ever gets the answer of  *)
(* another, however a transfer ended.                                      *)
ReplyIsTheAnswer == cmd # "none" /\ inbox # << >> => Reply.to \in {cmd, "bye"}

(* Between two functions, outside a transfer, nothing is owed and nothing  *)
(* is unread, so the next command starts in step.                          *)
InStep ==
    Free /\ open => \/ wire = << >> /\ inbox = << >> /\ serving = "none"
                    \/ gone /\ \A i \in 1..Len(inbox) : inbox[i].to = "bye"

(* ftpClient.h: "never guess": a path is taken for a directory only when   *)
(* the server itself refused its SIZE.                                     *)
ProbeNeverGuesses ==
    [][call = "probe" /\ result' = "directory" /\ call' = "none" =>
          inbox # << >> /\ Reply = [to |-> "SIZE", code |-> "5xx"]]_vars

(* Every function returns, whatever the server does or does not do. *)
CallsReturn == call # "none" ~> call = "none"

=============================================================================
