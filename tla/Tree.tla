-------------------------------- MODULE Tree --------------------------------
(***************************************************************************)
(* What the worker does to whole trees: expand() of transfer/queue.cpp     *)
(* turns a folder into jobs, which drain() then runs one after another,    *)
(* and removeTree() of fs/ops.cpp deletes one.                             *)
(*                                                                         *)
(* Both are recursive, ask what each path is before they act, and go       *)
(* through what a listing said a moment ago.  Meanwhile other clients of   *)
(* the server add and remove files, the link may drop, and a folder may    *)
(* list itself (a link), which only the bound on the depth ends.  Here the *)
(* recursion is a stack of folders with the names that are still to do.    *)
(*                                                                         *)
(* A path is a sequence of names that begins with its machine.  The server *)
(* and the card are external: any command may be refused, but the listing  *)
(* of what is not a folder fails, as queue.cpp and ftpClient.cpp suppose.  *)
(* One file's transfer is one step (FileTransfer has its steps).           *)
(***************************************************************************)
EXTENDS Integers, Sequences, SequencesExt, Functions

CONSTANTS
    Cases,         \* the requests, each with the files it meets: a set of records
    Names,         \* what others may call a file
    Self,          \* the name under which a folder lists itself
    MaxDepth,      \* MAX_DEPTH
    MaxChanges     \* bound on what others do on the server

(* Files are in trees: a path is there only with the folders above it.     *)
IsTree(f) ==
    /\ DOMAIN f \subseteq Seq(STRING) \ {<< >>}
    /\ \A p \in DOMAIN f : \A k \in 1..(Len(p) - 1) :
          SubSeq(p, 1, k) \in DOMAIN f /\ f[SubSeq(p, 1, k)] = "dir"

ASSUME TreeAssumption == MaxDepth \in Nat /\ MaxChanges \in Nat

ASSUME NamesAssumption == Names \subseteq STRING /\ Self \in STRING \ Names

(* No file has the name of the link, which is in a folder of the request. *)
ASSUME CasesAssumption ==
    \A c \in Cases :
        /\ c.req.source \in Seq(STRING) \ {<< >>} /\ c.req.destDir \in Seq(STRING)
        /\ IsTree(c.files)
        /\ \A p \in DOMAIN c.files : Last(p) # Self
        /\ c.loop = << >> \/ /\ c.loop \in DOMAIN c.files /\ c.files[c.loop] = "dir"
                             /\ IsPrefix(c.req.source, c.loop)

(* screenActions.cpp: "The destination is the folder on screen". *)
ASSUME DestinationAssumption ==
    \A c \in Cases :
        /\ c.files \in [DOMAIN c.files -> STRING]
        /\ c.req.what # "REMOVE" =>
              c.req.destDir \in DOMAIN c.files /\ c.files[c.req.destDir] = "dir"

VARIABLES
    req,       \* the request: what, source, destDir and overwrite
    loop,      \* the folder that lists itself, << >> for none
    files,     \* what exists on both machines: "dir" or a content, by path
    link,      \* client.alive()
    pc,        \* where the worker is
    at,        \* the path that is being looked at
    node,      \* where it leads, which a link makes another path
    stack,     \* the folders that are open, each with the names left in it
    jobs,      \* the jobs of the walk
    ran,       \* how many of them have ended
    result,    \* what expand() or removeTree() returned
    failed,    \* a job has failed
    start,     \* history: files when the request began
    steady,    \* history: the paths of start that others have left alone
    changes,   \* history: how often others changed something
    skipped,   \* history: the files passed over for what is at their destination
    unseen,    \* history: what others added to a folder after its listing
    misled     \* history: a refusal was taken for another one

vars == <<req, loop, files, link, pc, at, node, stack, jobs, ran, result, failed, start, steady,
          changes, skipped, unseen, misled>>

others  == <<link, start, steady, changes, unseen>>
world   == <<files, others>>
walking == <<at, node, stack, jobs>>

Theirs == "theirs"     \* the content of a file that others have put there

Removing  == req.what = "REMOVE"
Remote(p) == p[1] = "server"

Kind(p) == IF p \notin DOMAIN files THEN "none"
           ELSE IF files[p] = "dir" THEN "dir" ELSE "file"

(* The rows of a folder, and where one of them leads. *)
Rows(p) ==
    {Last(q) : q \in {q \in DOMAIN files : Len(q) = Len(p) + 1 /\ IsPrefix(p, q)}}
    \cup IF p = loop THEN {Self} ELSE {}
Leads(p, n) == IF n = Self THEN p ELSE Append(p, n)

With(f, p, c)   == [q \in DOMAIN f \cup {p} |-> IF q = p THEN c ELSE f[q]]
Without(f, p)   == Restrict(f, DOMAIN f \ {p})

Init ==
    /\ \E c \in Cases : req = c.req /\ loop = c.loop /\ files = c.files
    /\ link = TRUE
    /\ pc = "inspect" /\ at = req.source /\ node = req.source /\ stack = << >>
    /\ jobs = << >> /\ ran = 0 /\ result = "none" /\ failed = FALSE
    /\ start = files /\ steady = DOMAIN files /\ changes = 0 /\ skipped = {} /\ unseen = {}
    /\ misled = FALSE

----------------------------------------------------------------------------
(* Faulty variants of definitions below. *)

FlatDest(p) == Append(req.destDir, Last(p))     \* destDir is handed down, not dest
DepthOfRoot == 0                                \* depth, not depth + 1, is handed down
KeepWhatWasRead ==                              \* a failure below ends the walk only
    /\ pc' = IF Removing THEN "done" ELSE "jobs"
    /\ result' = "true" /\ at' = << >> /\ node' = << >> /\ stack' = << >>
    /\ UNCHANGED jobs

----------------------------------------------------------------------------
(* Both recursions. *)

(* dest of the path p: join() of its folder's and its own name. *)
Dest(p) == req.destDir \o SubSeq(p, Len(req.source), Len(p))

Job(folder) == [source |-> at, dest |-> Dest(at), directory |-> folder]

(* The argument depth. *)
Depth == Len(stack)

(* The call at the bottom returns false, and with it all that wait for it; *)
(* drain() throws away what a walk that failed has gathered.               *)
Fails ==
    /\ pc' = "done" /\ result' = "false" /\ at' = << >> /\ node' = << >> /\ stack' = << >>
    /\ jobs' = << >>

(* A call returns true to the folder above it, if there is one. *)
Returns(above) ==
    /\ at' = << >> /\ node' = << >> /\ stack' = above
    /\ IF above # << >> THEN pc' = "next" /\ UNCHANGED result
       ELSE /\ pc' = IF Removing \/ jobs' = << >> THEN "done" ELSE "jobs"
            /\ result' = "true"

(* A faulty variant of Refused: a removal's result is not looked at. *)
NotLookedAt == UNCHANGED jobs /\ Returns(stack)

TooDeep ==
    /\ pc = "inspect" /\ Depth > MaxDepth
    /\ Fails
    /\ UNCHANGED <<req, loop, world, ran, failed, skipped, misled>>

(* probe(), exists() and isDirectory(): a server that has no such file, or *)
(* does not tell its size, is taken to mean a folder.                      *)
Verdicts ==
    IF Remote(at)
    THEN IF ~link THEN {"error"}
         ELSE {"directory", "error"} \cup IF Kind(node) = "file" THEN {"file"} ELSE {}
    ELSE CASE Kind(node) = "dir"  -> {"directory"}
           [] Kind(node) = "file" -> {"file"}
           [] OTHER             -> {IF Removing THEN "file" ELSE "error"}

Inspect ==
    /\ pc = "inspect" /\ Depth <= MaxDepth
    /\ \/ "error" \in Verdicts /\ Fails
       \/ /\ "directory" \in Verdicts
          /\ pc' = "list"
          /\ jobs' = IF Removing THEN jobs ELSE Append(jobs, Job(TRUE))
          /\ UNCHANGED <<at, node, stack, result>>
       \/ /\ "file" \in Verdicts
          /\ IF Removing \/ req.overwrite = "NO"
             THEN /\ pc' = IF Removing THEN "delete" ELSE "clash"
                  /\ UNCHANGED <<at, node, stack, jobs, result>>
             ELSE jobs' = Append(jobs, Job(FALSE)) /\ Returns(stack)
    /\ UNCHANGED <<req, loop, world, ran, failed, skipped, misled>>

(* OVERWRITE_NO: a file that exists at the destination is not queued.  A   *)
(* server that refuses both SIZE and the listing is taken to have none.    *)
Clash ==
    /\ pc = "clash"
    /\ LET present == Dest(at) \in DOMAIN files
           remote  == Remote(Dest(at))
       IN  \/ /\ remote
              /\ ~link
              /\ Fails
              /\ UNCHANGED <<skipped, misled>>
           \/ /\ present /\ (remote => link)
              /\ skipped' = skipped \cup {at}
              /\ UNCHANGED <<jobs, misled>>
              /\ Returns(stack)
           \/ /\ present => remote
              /\ remote => link
              /\ misled' = (misled \/ present)
              /\ jobs' = Append(jobs, Job(FALSE))
              /\ UNCHANGED skipped
              /\ Returns(stack)
    /\ UNCHANGED <<req, loop, world, ran, failed>>

ListFolder ==
    /\ pc = "list"
    /\ \/ Fails
       \/ /\ Kind(node) = "dir" /\ (Remote(at) => link)
          /\ stack' = Append(stack, [path |-> at, node |-> node, todo |-> Rows(node)])
          /\ pc' = "next" /\ at' = << >> /\ node' = << >>
          /\ UNCHANGED <<jobs, result>>
    /\ unseen' = {q \in unseen : Front(q) # node}
    /\ UNCHANGED <<req, loop, files, link, start, steady, changes, ran, failed, skipped, misled>>

Top == Last(stack)

(* The loop over the listing.  The order of the rows is left open. *)
NextRow ==
    /\ pc = "next"
    /\ \E n \in Top.todo :
          /\ at' = Append(Top.path, n) /\ node' = Leads(Top.node, n)
          /\ stack' = Append(Front(stack), [Top EXCEPT !.todo = @ \ {n}])
    /\ pc' = "inspect"
    /\ UNCHANGED <<req, loop, world, jobs, ran, result, failed, skipped, misled>>

RowsDone ==
    /\ pc = "next" /\ Top.todo = {}
    /\ IF Removing
       THEN /\ pc' = "rmdir" /\ at' = Top.path /\ node' = Top.node /\ stack' = Front(stack)
            /\ UNCHANGED <<jobs, result>>
       ELSE UNCHANGED jobs /\ Returns(Front(stack))
    /\ UNCHANGED <<req, loop, world, ran, failed, skipped, misled>>

----------------------------------------------------------------------------
(* removeTree() deletes a file, or a folder whose rows are gone. *)

Deletable(p) ==
    /\ Remote(p) => link
    /\ IF pc = "delete" THEN Kind(p) = "file" ELSE Kind(p) = "dir" /\ Rows(p) = {}

(* removeFile() or removeDirectory() has returned false. *)
Refused == Fails

Delete ==
    /\ pc \in {"delete", "rmdir"}
    /\ \/ Deletable(node) /\ files' = Without(files, node) /\ UNCHANGED jobs /\ Returns(stack)
       \/ UNCHANGED files /\ Refused
       \/ /\ Remote(at) /\ Deletable(node)            \* done, but the reply is lost
          /\ files' = Without(files, node)
          /\ Refused
    /\ UNCHANGED <<req, loop, others, ran, failed, skipped, misled>>

----------------------------------------------------------------------------
(* drain() runs the jobs. *)

Current == jobs[ran + 1]

Above(p) == {SubSeq(p, 1, n) : n \in 2..(Len(p) - 1)}

(* makeDirectories(): mkdir for each component; what exists is not an      *)
(* error, be it a folder or not.                                           *)
Passable(p) == \A q \in Above(p) : q \in DOMAIN files => files[q] = "dir"
MadeUpTo(p) == [q \in DOMAIN files \cup Above(p) |-> IF q \in DOMAIN files THEN files[q] ELSE "dir"]

Ended(ok) ==
    /\ ran' = ran + 1
    /\ failed' = (failed \/ ~ok)
    /\ pc' = IF ran' = Len(jobs) THEN "done" ELSE "jobs"

(* runDirectory() on the card. *)
MakeFolder(j) ==
    \/ /\ Passable(j.dest)
       /\ files' = IF j.dest \in DOMAIN files THEN MadeUpTo(j.dest)
                   ELSE With(MadeUpTo(j.dest), j.dest, "dir")
       /\ Ended(TRUE)
       /\ UNCHANGED misled
    \/ UNCHANGED <<files, misled>> /\ Ended(FALSE)

(* runDirectory() on the server: MKD, whose answer is not looked at. *)
AskFolder(j) ==
    LET possible == Kind(Front(j.dest)) = "dir" /\ j.dest \notin DOMAIN files
    IN  /\ \/ possible /\ files' = With(files, j.dest, "dir") /\ UNCHANGED misled
           \/ UNCHANGED files /\ misled' = (misled \/ possible)
        /\ Ended(TRUE)

(* runDownload(), runUpload(), runLocalCopy(), ok or not. *)
CopyFile(j) ==
    /\ UNCHANGED misled
    /\ \/ /\ Kind(j.source) = "file" /\ Kind(j.dest) # "dir"
          /\ IF req.what = "UPLOAD"
             THEN /\ Kind(Front(j.dest)) = "dir"
                  /\ files' = With(files, j.dest, files[j.source])
             ELSE /\ Passable(j.dest)
                  /\ files' = With(MadeUpTo(j.dest), j.dest, files[j.source])
          /\ Ended(TRUE)
       \/ /\ \/ UNCHANGED files
             \/ Kind(j.dest) = "file" /\ files' = Without(files, j.dest)
          /\ Ended(FALSE)

RunJob ==
    /\ pc = "jobs"
    /\ IF req.what # "LOCAL_COPY" /\ ~link
       THEN UNCHANGED <<files, misled>> /\ Ended(FALSE)
       ELSE IF ~Current.directory THEN CopyFile(Current)
       ELSE IF req.what = "UPLOAD" THEN AskFolder(Current)
       ELSE MakeFolder(Current)
    /\ UNCHANGED <<req, loop, others, walking, result, skipped>>

----------------------------------------------------------------------------
(* The others. *)

LinkDrops ==
    /\ pc # "done" /\ link
    /\ link' = FALSE
    /\ UNCHANGED <<req, loop, files, pc, walking, ran, result, failed, start, steady, changes,
                   skipped, unseen, misled>>

(* A folder whose rows have been read, and a row that is still to come. *)
Listed(p) ==
    \/ \E i \in DOMAIN stack : stack[i].node = p
    \/ pc = "rmdir" /\ node = p
Due(p, n) ==
    \/ \E i \in DOMAIN stack : stack[i].node = p /\ n \in stack[i].todo
    \/ pc # "rmdir" /\ at # << >> /\ node = Append(p, n)

(* Another client of the server adds a file or removes one. *)
OthersChange ==
    /\ pc # "done" /\ changes < MaxChanges
    /\ changes' = changes + 1
    /\ \/ \E p \in DOMAIN files, n \in Names :
             /\ Remote(p) /\ files[p] = "dir" /\ Append(p, n) \notin DOMAIN files
             /\ files' = With(files, Append(p, n), Theirs)
             /\ unseen' = IF Listed(p) /\ ~Due(p, n) THEN unseen \cup {Append(p, n)} ELSE unseen
             /\ UNCHANGED steady
       \/ \E p \in DOMAIN files :
             /\ Remote(p) /\ files[p] # "dir"
             /\ files' = Without(files, p)
             /\ steady' = steady \ {p} /\ unseen' = unseen \ {p}
    /\ UNCHANGED <<req, loop, link, pc, walking, ran, result, failed, start, skipped, misled>>

Walk == TooDeep \/ Inspect \/ Clash \/ ListFolder \/ NextRow \/ RowsDone

Next == Walk \/ Delete \/ RunJob \/ LinkDrops \/ OthersChange

Spec == Init /\ [][Next]_vars

----------------------------------------------------------------------------
(* Properties. *)

(* ops.cpp: the cap on the depth is about "not walking off the end of the  *)
(* worker's stack on a tree that reports itself as its own child".         *)
StackIsBounded == Len(stack) <= MaxDepth + 1

(* queue.cpp: "half a tree is worse than none".  A walk that returns true  *)
(* has a job, or a reason to skip it, for everything that was in the tree  *)
(* all the time, of the kind it has, and each folder comes before what is  *)
(* in it; a walk that returns false leaves no job.                         *)
WalkIsWhole ==
    /\ result = "false" => jobs = << >>
    /\ result = "true" /\ ~Removing =>
          /\ \A p \in steady : IsPrefix(req.source, p) =>
                \/ p \in skipped
                \/ \E i \in DOMAIN jobs : jobs[i].source = p /\ (jobs[i].directory <=> start[p] = "dir")
          /\ \A i \in DOMAIN jobs : jobs[i].source # req.source =>
                \E k \in 1..(i - 1) : jobs[k].directory /\ jobs[k].source = Front(jobs[i].source)

(* What the tree looks like at the destination, from what there was: every *)
(* file and folder of the source under the destination folder, the rest as *)
(* it was.  An old file stays where it was skipped, and where a folder was *)
(* to be made, which is not told as a failure of the folder's job.         *)
Image(p) == req.destDir \o <<Last(req.source)>> \o SubSeq(p, Len(req.source) + 1, Len(p))

Old(q) == q \in DOMAIN start /\ start[q] # "dir"

Made(p) == IF start[p] = "dir" THEN \A q \in Above(Image(p)) \cup {Image(p)} : ~Old(q)
           ELSE ~(Image(p) \in DOMAIN start /\ req.overwrite = "NO")

Expected ==
    LET tree  == {p \in DOMAIN start : IsPrefix(req.source, p) /\ Made(p)}
        image == {Image(p) : p \in tree}
    IN  [q \in DOMAIN start \cup image |->
            IF q \in image THEN start[CHOOSE p \in tree : Image(p) = q] ELSE start[q]]

(* No file of the tree is written before it is read: a folder copied over  *)
(* a part of itself reads some of what the copy has put there.             *)
Apart ==
    \A p \in DOMAIN start :
        IsPrefix(req.source, p) /\ IsPrefix(req.source, Image(p)) /\ Image(p) \in DOMAIN start =>
            Image(p) = p

(* When the walk is whole and every job ends well, the tree is there,      *)
(* whole, and nothing else was touched, whatever was there before; unless  *)
(* the server changed meanwhile, or refused a query or an MKD for a reason *)
(* of its own, which the code does not tell from what it expects, or the   *)
(* tree was copied over a part of itself.                                  *)
CopyIsWhole ==
    pc = "done" /\ result = "true" /\ ~Removing /\ ~failed /\ ~misled /\ changes = 0 /\ Apart =>
        files = Expected

(* removeTree() returns true when nothing is left, removes nothing that is *)
(* not in the tree, and nothing that was put there after its folder had    *)
(* been listed: it fails then.                                             *)
RemovalIsExact ==
    Removing =>
        /\ result = "true" => \A p \in DOMAIN files : ~IsPrefix(req.source, p)
        /\ \A p \in steady : ~IsPrefix(req.source, p) => p \in DOMAIN files
        /\ unseen \subseteq DOMAIN files

=============================================================================
