----------------------------- MODULE TreeProofs -----------------------------
(***************************************************************************)
(* Theorems about Tree, for trees of any size and depth, any folder in     *)
(* them that lists itself, and any number of changes by others.            *)
(*                                                                         *)
(* What a walk or a removal has still to do is on its stack: a path is     *)
(* Pending when it lies below a row that is left in an open folder, or     *)
(* below the path that is being looked at.  A walk covers the tree because *)
(* each path of it is pending until it has its job (CoverInv), and nothing *)
(* is pending when the stack is empty.  A folder that lists itself stays   *)
(* pending for ever, so such a walk ends only at the cap on the depth.  A  *)
(* removal spares what it has not listed because no row is left, in any    *)
(* open folder, of what was added after the folder's listing (UnseenInv).  *)
(*                                                                         *)
(* A copy is whole because each job finds what it needs: the folders above *)
(* its path have had their jobs (AboveFirst), and what the jobs so far     *)
(* have left at the destination is known exactly (After).  A folder that   *)
(* could not be made, for a file in its place, keeps all below it from     *)
(* being made too, silently (FrontFolder) or not (WayIsThere).             *)
(***************************************************************************)
EXTENDS Tree, SequenceTheorems, TLAPS

Strings == STRING     \* by a name, which a step that is not about strings leaves folded
Paths   == Seq(Strings)
Frames  == [path : Paths, node : Paths, todo : SUBSET Strings]
Jobs    == [source : Paths, dest : Paths, directory : BOOLEAN]

TypeInv ==
    /\ req.source \in Paths \ {<< >>} /\ req.destDir \in Paths
    /\ loop \in Paths /\ at \in Paths /\ node \in Paths
    /\ stack \in Seq(Frames) /\ jobs \in Seq(Jobs)
    /\ pc \in {"inspect", "list", "clash", "delete", "rmdir", "next", "jobs", "done"}
    /\ result \in {"none", "true", "false"}

(* Where the worker is, and how deep. *)
PlaceInv ==
    /\ pc \in {"inspect", "list", "clash", "delete", "rmdir"} => at # << >> /\ node # << >>
    /\ pc = "next" => stack # << >> /\ at = << >> /\ node = << >>
    /\ pc \in {"jobs", "done"} => stack = << >> /\ at = << >> /\ node = << >>
    /\ result = "none" <=> pc \notin {"jobs", "done"}
    /\ pc \in {"delete", "rmdir"} => Removing
    /\ pc \in {"clash", "jobs"} => ~Removing
    /\ stack = << >> /\ at # << >> => at = req.source /\ node = req.source
    /\ stack # << >> => stack[1].path = req.source /\ stack[1].node = req.source
    /\ Len(stack) <= MaxDepth + 1
    /\ pc \in {"list", "clash", "delete", "rmdir"} => Len(stack) <= MaxDepth

(* The worker is inside the tree of the request, and what it walks is a    *)
(* tree still.                                                             *)
NodesInv ==
    /\ \A i \in 1..Len(stack) :
          /\ stack[i].path # << >> /\ IsPrefix(req.source, stack[i].node)
          /\ Self \in stack[i].todo => stack[i].node = loop
          /\ loop = << >> => stack[i].path = stack[i].node
    /\ at # << >> => /\ IsPrefix(req.source, node)
                     /\ loop = << >> => at = node

(* A tree, said with prefixes. *)
Rooted(f) ==
    /\ DOMAIN f \subseteq Paths \ {<< >>}
    /\ \A q \in DOMAIN f : \A p \in Paths \ {<< >>} :
          IsPrefix(p, q) /\ p # q => p \in DOMAIN f /\ f[p] = "dir"

FilesSound ==
    /\ Rooted(files)
    /\ \A p \in DOMAIN files : Last(p) # Self
    /\ loop # << >> => /\ loop \in DOMAIN files /\ files[loop] = "dir"
                       /\ IsPrefix(req.source, loop)

FilesInv == result = "none" => FilesSound

----------------------------------------------------------------------------
(* Walks. *)

(* A path that the recursion has still to come to. *)
PendingIn(open, p) ==
    \E i \in 1..Len(open) : \E n \in open[i].todo :
        n # Self /\ IsPrefix(Append(open[i].node, n), p)

LoopIn(open) == PendingIn(open, loop) \/ \E i \in 1..Len(open) : Self \in open[i].todo

Here(p)     == at # << >> /\ IsPrefix(node, p)
Pending(p)  == PendingIn(stack, p) \/ Here(p)
LoopPending == LoopIn(stack) \/ Here(loop)

Covered(p) ==
    \/ p \in skipped
    \/ \E i \in 1..Len(jobs) : jobs[i].source = p /\ (jobs[i].directory <=> start[p] = "dir")

HasFolder(queued, p) ==
    \E k \in 1..Len(queued) : queued[k].directory /\ queued[k].source = p

SteadyInv ==
    ~Removing /\ result = "none" =>
        \A p \in steady : p \in DOMAIN files /\ p \in DOMAIN start /\ files[p] = start[p]

ClashInv == pc = "clash" /\ node \in DOMAIN files => files[node] # "dir"

CoverInv ==
    ~Removing =>
        /\ result = "none" /\ loop # << >> => LoopPending
        /\ result # "false" /\ loop = << >> =>
              \A p \in steady : IsPrefix(req.source, p) => Pending(p) \/ Covered(p)
        /\ result = "true" => loop = << >>

JobsInv ==
    /\ Removing \/ result = "false" => jobs = << >>
    /\ ~Removing => /\ \A i \in 1..Len(stack) : HasFolder(jobs, stack[i].path)
                    /\ pc = "list" => HasFolder(jobs, at)
                    /\ at # << >> => at = req.source \/ HasFolder(jobs, Front(at))
    /\ \A i \in 1..Len(jobs) : jobs[i].source # req.source =>
          \E k \in 1..(i - 1) : jobs[k].directory /\ jobs[k].source = Front(jobs[i].source)

----------------------------------------------------------------------------
(* Removals. *)

GoneInv == Removing /\ result = "true" => \A p \in DOMAIN files : ~IsPrefix(req.source, p)

OutsideInv == Removing => \A p \in steady : ~IsPrefix(req.source, p) => p \in DOMAIN files

UnseenInv ==
    Removing =>
        \A q \in unseen : /\ q \in Paths \ {<< >>} /\ q \in DOMAIN files /\ files[q] # "dir"
                          /\ \A i \in 1..Len(stack) :
                                stack[i].node = Front(q) => Last(q) \notin stack[i].todo
                          /\ pc # "rmdir" /\ at # << >> => node # q

----------------------------------------------------------------------------
(* Sequences and paths. *)

(* A prefix, place by place. *)
LEMMA PrefixPlaces ==
    ASSUME NEW S, NEW s \in Seq(S), NEW t \in Seq(S)
    PROVE  IsPrefix(s, t) <=> Len(s) <= Len(t) /\ \A i \in 1..Len(s) : s[i] = t[i]
<1>1. SubSeq(s, 1, Len(s)) = s  BY SubSeqFull
<1>2. ASSUME Len(s) <= Len(t)
      PROVE  SubSeq(t, 1, Len(s)) = s <=> \A i \in 1..Len(s) : s[i] = t[i]
  <2>1. /\ SubSeq(t, 1, Len(s)) \in Seq(S) /\ Len(SubSeq(t, 1, Len(s))) = Len(s)
        /\ \A i \in 1..Len(s) : SubSeq(t, 1, Len(s))[i] = t[i]
    <3>1. \A i \in 1..Len(s) : t[i] \in S  BY <1>2, LenProperties, ElementOfSeq
    <3>2. Len(s) \in Nat  BY LenProperties
    <3> QED  BY <3>1, <3>2, SubSeqProperties, 1 \in Int
  <2>2. (\A i \in 1..Len(s) : s[i] = t[i]) => SubSeq(t, 1, Len(s)) = s
    BY <2>1, SeqEqual
  <2> QED  BY <2>1, <2>2
<1> QED  BY <1>1, <1>2 DEF IsPrefix

(* A sequence without its last element. *)
LEMMA FrontPlaces ==
    ASSUME NEW S, NEW s \in Seq(S), s # << >>
    PROVE  /\ Front(s) \in Seq(S) /\ Len(Front(s)) = Len(s) - 1 /\ Last(s) \in S
           /\ \A i \in 1..(Len(s) - 1) : Front(s)[i] = s[i]
           /\ Last(s) = s[Len(s)] /\ Len(s) \in Nat \ {0}
<1>1. Len(s) \in Nat \ {0} /\ \A i \in 1..Len(s) : s[i] \in S
  BY EmptySeq, ElementOfSeq
<1>2. /\ SubSeq(s, 1, Len(s) - 1) \in Seq(S)
      /\ Len(SubSeq(s, 1, Len(s) - 1)) = Len(s) - 1
      /\ \A i \in 1..(Len(s) - 1) : SubSeq(s, 1, Len(s) - 1)[i] = s[i]
  <2> DEFINE m == Len(s) - 1
  <2>1. m \in Int /\ 1 \in Int /\ \A i \in 1..m : s[i] \in S  BY <1>1
  <2> HIDE DEF m
  <2>2. /\ SubSeq(s, 1, m) \in Seq(S)
        /\ Len(SubSeq(s, 1, m)) = IF 1 <= m THEN m - 1 + 1 ELSE 0
        /\ \A i \in 1..(m - 1 + 1) : SubSeq(s, 1, m)[i] = s[1 + i - 1]
    <3>1. \A j \in 1..m : s[j] \in S  BY <2>1
    <3> QED  BY <2>1, <3>1, SubSeqProperties
  <2>3. m \in Nat  BY <1>1 DEF m
  <2>4. Len(SubSeq(s, 1, m)) = m  BY <2>2, <2>3
  <2>5. \A i \in 1..m : SubSeq(s, 1, m)[i] = s[i]
    <3>1. SUFFICES ASSUME NEW i \in 1..m PROVE SubSeq(s, 1, m)[i] = s[i]
      OBVIOUS
    <3>2. i \in 1..(m - 1 + 1) /\ 1 + i - 1 = i  BY <2>3
    <3> QED  BY <2>2, <3>2
  <2> QED  BY <2>2, <2>4, <2>5 DEF m
<1> QED  BY <1>1, <1>2 DEF Front, Last

(* Append, place by place. *)
LEMMA AppendPlaces ==
    ASSUME NEW S, NEW s \in Seq(S), NEW e \in S
    PROVE  /\ Append(s, e) \in Seq(S) /\ Append(s, e) # << >>
           /\ Len(Append(s, e)) = Len(s) + 1 /\ Len(s) \in Nat
           /\ \A i \in 1..Len(s) : Append(s, e)[i] = s[i]
           /\ Append(s, e)[Len(s) + 1] = e
<1>1. /\ Append(s, e) \in Seq(S) /\ Append(s, e) # << >>
      /\ Len(Append(s, e)) = Len(s) + 1
      /\ \A i \in 1..Len(s) : Append(s, e)[i] = s[i]
      /\ Append(s, e)[Len(s) + 1] = e
  BY AppendProperties
<1>2. Len(s) \in Nat  BY LenProperties
<1> QED  BY <1>1, <1>2

LEMMA FrontAndLast ==
    ASSUME NEW S, NEW s \in Seq(S), s # << >>
    PROVE  s = Append(Front(s), Last(s))
<1>1. /\ Front(s) \in Seq(S) /\ Len(Front(s)) = Len(s) - 1 /\ Last(s) \in S
      /\ \A i \in 1..(Len(s) - 1) : Front(s)[i] = s[i]
      /\ Last(s) = s[Len(s)] /\ Len(s) \in Nat \ {0}
  BY FrontPlaces
<1>2. /\ Append(Front(s), Last(s)) \in Seq(S)
      /\ Len(Append(Front(s), Last(s))) = Len(s)
      /\ \A i \in 1..(Len(s) - 1) : Append(Front(s), Last(s))[i] = s[i]
      /\ Append(Front(s), Last(s))[Len(s)] = s[Len(s)]
  BY <1>1, AppendProperties
<1> QED  BY <1>1, <1>2, SeqEqual

LEMMA FrontOfAppend ==
    ASSUME NEW S, NEW s \in Seq(S), NEW e \in S
    PROVE  Front(Append(s, e)) = s /\ Last(Append(s, e)) = e
<1>1. /\ Append(s, e) \in Seq(S) /\ Append(s, e) # << >> /\ Len(Append(s, e)) = Len(s) + 1
      /\ \A i \in 1..Len(s) : Append(s, e)[i] = s[i]
      /\ Append(s, e)[Len(s) + 1] = e /\ Len(s) \in Nat
  BY AppendProperties, LenProperties
<1> DEFINE t == Append(s, e)
<1>2. t \in Seq(S) /\ t # << >>  BY <1>1
<1> HIDE DEF t
<1>3. /\ Front(t) \in Seq(S) /\ Len(Front(t)) = Len(t) - 1
      /\ \A i \in 1..(Len(t) - 1) : Front(t)[i] = t[i]
      /\ Last(t) = t[Len(t)]
  BY <1>2, FrontPlaces
<1>4. Len(t) = Len(s) + 1 /\ Len(s) \in Nat /\ t[Len(s) + 1] = e
      /\ \A i \in 1..Len(s) : t[i] = s[i]
  BY <1>1 DEF t
<1>5. Front(t) = s  BY <1>3, <1>4, SeqEqual
<1> QED  BY <1>3, <1>4, <1>5 DEF t

LEMMA PrefixOfItself == ASSUME NEW p \in Paths PROVE IsPrefix(p, p)
  BY PrefixPlaces, LenProperties DEF Paths

LEMMA PrefixOfPrefix ==
    ASSUME NEW p \in Paths, NEW q \in Paths, NEW r \in Paths, IsPrefix(p, q), IsPrefix(q, r)
    PROVE  IsPrefix(p, r)
<1>1. Len(p) \in Nat /\ Len(q) \in Nat /\ Len(r) \in Nat  BY LenProperties DEF Paths
<1>2. Len(p) <= Len(q) /\ \A i \in 1..Len(p) : p[i] = q[i]  BY PrefixPlaces DEF Paths
<1>3. Len(q) <= Len(r) /\ \A i \in 1..Len(q) : q[i] = r[i]  BY PrefixPlaces DEF Paths
<1> QED  BY <1>1, <1>2, <1>3, PrefixPlaces DEF Paths

(* What lies above the child of a folder lies above the folder, or is the  *)
(* child.                                                                  *)
LEMMA PrefixOfAppend ==
    ASSUME NEW p \in Paths, NEW q \in Paths, NEW n \in Strings
    PROVE  IsPrefix(p, Append(q, n)) <=> p = Append(q, n) \/ IsPrefix(p, q)
<1> DEFINE t == Append(q, n)
<1>1. /\ t \in Paths /\ Len(t) = Len(q) + 1 /\ Len(q) \in Nat
      /\ \A i \in 1..Len(q) : t[i] = q[i]
  BY AppendPlaces DEF Paths
<1> HIDE DEF t
<1>2. Len(p) \in Nat  BY LenProperties DEF Paths
<1>3. IsPrefix(p, q) <=> Len(p) <= Len(q) /\ \A i \in 1..Len(p) : p[i] = q[i]
  BY PrefixPlaces DEF Paths
<1>4. IsPrefix(p, t) <=> Len(p) <= Len(t) /\ \A i \in 1..Len(p) : p[i] = t[i]
  BY <1>1, PrefixPlaces DEF Paths
<1>5. p = t => IsPrefix(p, t)  BY <1>1, PrefixOfItself
<1>6. IsPrefix(p, q) => IsPrefix(p, t)  BY <1>1, <1>2, <1>3, <1>4
<1>7. IsPrefix(p, t) /\ ~IsPrefix(p, q) => p = t
  <2> SUFFICES ASSUME IsPrefix(p, t), ~IsPrefix(p, q) PROVE p = t
    OBVIOUS
  <2>1. Len(p) = Len(t)  BY <1>1, <1>2, <1>3, <1>4
  <2> QED  BY <1>1, <1>4, <2>1, SeqEqual DEF Paths
<1> QED  BY <1>5, <1>6, <1>7 DEF t

(* A path below another is in one of its children. *)
LEMMA PrefixBelow ==
    ASSUME NEW p \in Paths, NEW q \in Paths, IsPrefix(p, q), p # q
    PROVE  \E n \in Strings : IsPrefix(Append(p, n), q)
<1>1. Len(p) \in Nat /\ Len(q) \in Nat  BY LenProperties DEF Paths
<1>2. Len(p) <= Len(q) /\ \A i \in 1..Len(p) : p[i] = q[i]  BY PrefixPlaces DEF Paths
<1>3. Len(p) < Len(q)  BY <1>1, <1>2, SeqEqual DEF Paths
<1> DEFINE n == q[Len(p) + 1]
<1>4. n \in Strings  BY <1>1, <1>3, ElementOfSeq DEF Paths
<1> DEFINE t == Append(p, n)
<1>5. /\ t \in Paths /\ Len(t) = Len(p) + 1
      /\ \A i \in 1..Len(p) : t[i] = p[i]
      /\ t[Len(p) + 1] = n
  <2> HIDE DEF n
  <2> QED  BY <1>4, AppendPlaces DEF Paths
<1> HIDE DEF t
<1>6. \A i \in 1..Len(t) : t[i] = q[i]  BY <1>1, <1>2, <1>5
<1>7. IsPrefix(t, q)  BY <1>1, <1>3, <1>5, <1>6, PrefixPlaces DEF Paths
<1> QED  BY <1>4, <1>7 DEF t

(* Two folders above one path lie one above the other. *)
LEMMA PrefixLonger ==
    ASSUME NEW p \in Paths, NEW q \in Paths, IsPrefix(p, q)
    PROVE  /\ Len(p) \in Nat /\ Len(q) \in Nat /\ Len(p) <= Len(q)
           /\ Len(p) = Len(q) => p = q
           /\ p # << >> => q # << >>
<1>1. Len(p) \in Nat /\ Len(q) \in Nat  BY LenProperties DEF Paths
<1>2. Len(p) <= Len(q) /\ \A i \in 1..Len(p) : p[i] = q[i]  BY PrefixPlaces DEF Paths
<1>3. Len(p) = Len(q) => p = q  BY <1>2, SeqEqual DEF Paths
<1>4. p # << >> => Len(p) # 0  BY EmptySeq DEF Paths
<1>5. q = << >> => Len(q) = 0  BY EmptySeq DEF Paths
<1> QED  BY <1>1, <1>2, <1>3, <1>4, <1>5

LEMMA AppendIsPath ==
    ASSUME NEW p \in Paths, NEW n \in Strings
    PROVE  /\ Append(p, n) \in Paths \ {<< >>} /\ Append(p, n) # p
           /\ IsPrefix(p, Append(p, n))
           /\ Front(Append(p, n)) = p /\ Last(Append(p, n)) = n
<1>1. Append(p, n) \in Paths /\ Append(p, n) # << >>
      /\ Len(Append(p, n)) = Len(p) + 1 /\ Len(p) \in Nat
  BY AppendPlaces DEF Paths
<1>2. Front(Append(p, n)) = p /\ Last(Append(p, n)) = n  BY FrontOfAppend DEF Paths
<1>3. IsPrefix(p, Append(p, n))  BY PrefixOfItself, PrefixOfAppend
<1> QED  BY <1>1, <1>2, <1>3

----------------------------------------------------------------------------
(* Trees. *)

LEMMA TreeIsRooted == ASSUME NEW f, IsTree(f) PROVE Rooted(f)
<1>1. DOMAIN f \subseteq Paths \ {<< >>}  BY DEF IsTree, Paths, Strings
<1>2. ASSUME NEW q \in DOMAIN f, NEW p \in Paths \ {<< >>}, IsPrefix(p, q), p # q
      PROVE  p \in DOMAIN f /\ f[p] = "dir"
  <2>1. q \in Paths /\ p \in Paths  BY <1>1
  <2>2. Len(p) \in Nat /\ Len(q) \in Nat /\ Len(p) <= Len(q) /\ Len(p) # Len(q)
    BY <1>2, <2>1, PrefixLonger
  <2>3. Len(p) # 0  BY EmptySeq, <2>1 DEF Paths
  <2>4. SubSeq(q, 1, Len(p)) = p
    <3>1. SubSeq(p, 1, Len(p)) = p  BY <2>1, SubSeqFull DEF Paths
    <3> QED  BY <1>2, <3>1 DEF IsPrefix
  <2>5. Len(p) \in 1..(Len(q) - 1)  BY <2>2, <2>3
  <2> QED  BY <2>4, <2>5 DEF IsTree
<1> QED  BY <1>1, <1>2 DEF Rooted

(* The child of a folder that begins a path below it is there. *)
LEMMA ChildBelow ==
    ASSUME NEW f, Rooted(f), NEW p \in Paths, NEW q \in DOMAIN f, IsPrefix(p, q), p # q
    PROVE  \E n \in Strings : Append(p, n) \in DOMAIN f /\ IsPrefix(Append(p, n), q)
<1>1. q \in Paths  BY DEF Rooted
<1>2. PICK n \in Strings : IsPrefix(Append(p, n), q)  BY <1>1, PrefixBelow
<1>3. Append(p, n) \in Paths \ {<< >>}  BY AppendIsPath
<1>4. Append(p, n) \in DOMAIN f
  <2>1. CASE Append(p, n) = q  BY <2>1
  <2>2. CASE Append(p, n) # q  BY <1>2, <1>3, <2>2 DEF Rooted
  <2> QED  BY <2>1, <2>2
<1> QED  BY <1>2, <1>4

(* Nothing is below a file. *)
LEMMA FileIsLeaf ==
    ASSUME NEW f, Rooted(f), NEW p \in DOMAIN f, f[p] # "dir"
    PROVE  \A q \in DOMAIN f : IsPrefix(p, q) => q = p
  BY DEF Rooted

LEMMA RootedWithout ==
    ASSUME NEW f, Rooted(f), NEW p, \A q \in DOMAIN f : IsPrefix(p, q) => q = p
    PROVE  /\ Rooted(Without(f, p))
           /\ DOMAIN Without(f, p) = DOMAIN f \ {p}
           /\ \A q \in DOMAIN f \ {p} : Without(f, p)[q] = f[q]
<1>1. /\ DOMAIN Without(f, p) = DOMAIN f \ {p}
      /\ \A q \in DOMAIN f \ {p} : Without(f, p)[q] = f[q]
  BY DEF Without, Restrict
<1>2. Rooted(Without(f, p))
  <2> DEFINE g == Without(f, p)
  <2>1. DOMAIN g = DOMAIN f \ {p} /\ \A q \in DOMAIN f \ {p} : g[q] = f[q]  BY <1>1
  <2> HIDE DEF g
  <2>2. DOMAIN g \subseteq Paths \ {<< >>}  BY <2>1 DEF Rooted
  <2>3. ASSUME NEW q \in DOMAIN g, NEW r \in Paths \ {<< >>}, IsPrefix(r, q), r # q
        PROVE  r \in DOMAIN g /\ g[r] = "dir"
    <3>1. r \in DOMAIN f /\ f[r] = "dir"  BY <2>1, <2>3 DEF Rooted
    <3>2. r # p  BY <2>1, <2>3
    <3> QED  BY <2>1, <3>1, <3>2
  <2>4. Rooted(g)  BY <2>2, <2>3 DEF Rooted
  <2> QED  BY <2>4 DEF g
<1> QED  BY <1>1, <1>2

LEMMA RootedWith ==
    ASSUME NEW f, Rooted(f), NEW p \in DOMAIN f, f[p] = "dir", NEW n \in Strings, NEW a, NEW c,
           a = Append(p, n), a \notin DOMAIN f
    PROVE  Rooted(With(f, a, c))
<1> DEFINE g == With(f, a, c)
<1>1. /\ DOMAIN g = DOMAIN f \cup {a} /\ g[a] = c
      /\ \A q \in DOMAIN f : g[q] = f[q]
  BY DEF With
<1>2. p \in Paths \ {<< >>}  BY DEF Rooted
<1>3. a \in Paths \ {<< >>}  BY <1>2, AppendIsPath
<1>4. \A r \in Paths : IsPrefix(r, a) <=> r = a \/ IsPrefix(r, p)  BY <1>2, PrefixOfAppend
<1>5. a \notin DOMAIN f  OBVIOUS
<1> HIDE DEF g
<1>6. DOMAIN g \subseteq Paths \ {<< >>}  BY <1>1, <1>3 DEF Rooted
<1>7. ASSUME NEW q \in DOMAIN g, NEW r \in Paths \ {<< >>}, IsPrefix(r, q), r # q
      PROVE  r \in DOMAIN g /\ g[r] = "dir"
  <2>1. CASE q \in DOMAIN f
    <3>1. r \in DOMAIN f /\ f[r] = "dir"  BY <1>7, <2>1 DEF Rooted
    <3> QED  BY <1>1, <3>1
  <2>2. CASE q = a
    <3>1. IsPrefix(r, p)  BY <1>4, <1>7, <2>2
    <3>2. r \in DOMAIN f /\ f[r] = "dir"  BY <3>1 DEF Rooted
    <3> QED  BY <1>1, <3>2
  <2> QED  BY <1>1, <2>1, <2>2
<1>8. Rooted(g)  BY <1>6, <1>7 DEF Rooted
<1> QED  BY <1>8 DEF g

(* The rows of a folder are the names of its children, and of the link. *)
LEMMA RowsAreChildren ==
    ASSUME Rooted(files), \A q \in DOMAIN files : Last(q) # Self, NEW p \in Paths
    PROVE  /\ Rows(p) \subseteq Strings
           /\ \A n \in Rows(p) \ {Self} : Append(p, n) \in DOMAIN files
           /\ \A n \in Strings : Append(p, n) \in DOMAIN files => n \in Rows(p)
           /\ Self \in Rows(p) <=> p = loop
<1>1. ASSUME NEW q \in DOMAIN files, Len(q) = Len(p) + 1, IsPrefix(p, q)
      PROVE  Last(q) \in Strings /\ q = Append(p, Last(q))
  <2>1. q \in Paths /\ q # << >>  BY DEF Rooted
  <2>2. /\ Front(q) \in Paths /\ Len(Front(q)) = Len(q) - 1 /\ Last(q) \in Strings
        /\ Len(q) \in Nat
    BY <2>1, FrontPlaces DEF Paths
  <2>3. q = Append(Front(q), Last(q))  BY <2>1, FrontAndLast DEF Paths
  <2>4. Len(p) \in Nat  BY LenProperties DEF Paths
  <2>5. p # q  BY <1>1, <2>4
  <2>6. IsPrefix(p, Front(q))  BY <1>1, <2>2, <2>3, <2>5, PrefixOfAppend
  <2>7. p = Front(q)  BY <1>1, <2>2, <2>4, <2>6, PrefixLonger
  <2> QED  BY <2>2, <2>3, <2>7
<1>2. Self \in Strings  BY NamesAssumption DEF Strings
<1>3. ASSUME NEW n \in Strings, Append(p, n) \in DOMAIN files
      PROVE  n \in Rows(p)
  <2>1. IsPrefix(p, Append(p, n)) /\ Last(Append(p, n)) = n  BY AppendIsPath
  <2>2. Len(Append(p, n)) = Len(p) + 1  BY AppendPlaces DEF Paths
  <2> QED  BY <1>3, <2>1, <2>2 DEF Rows
<1>4. ASSUME NEW n \in Rows(p)
      PROVE  n \in Strings /\ (n # Self => Append(p, n) \in DOMAIN files)
  <2>1. CASE n = Self  BY <1>2, <2>1
  <2>2. CASE n # Self
    <3>1. PICK q \in DOMAIN files : Len(q) = Len(p) + 1 /\ IsPrefix(p, q) /\ n = Last(q)
      BY <2>2 DEF Rows
    <3> QED  BY <1>1, <3>1
  <2> QED  BY <2>1, <2>2
<1>5. Self \in Rows(p) <=> p = loop  BY DEF Rows
<1> QED  BY <1>3, <1>4, <1>5

----------------------------------------------------------------------------
(* Where the worker is. *)

Base == TypeInv /\ PlaceInv /\ NodesInv /\ FilesInv

LEMMA OpenFolders ==
    ASSUME TypeInv
    PROVE  /\ Len(stack) \in Nat
           /\ stack = << >> <=> Len(stack) = 0
           /\ \A i \in 1..Len(stack) : /\ stack[i].path \in Paths /\ stack[i].node \in Paths
                                       /\ stack[i].todo \subseteq Strings
                                       /\ stack[i] \in Frames
<1>1. Len(stack) \in Nat /\ (stack = << >> <=> Len(stack) = 0)
  BY EmptySeq, LenProperties DEF TypeInv
<1>2. \A i \in 1..Len(stack) : stack[i] \in Frames  BY ElementOfSeq DEF TypeInv
<1> QED  BY <1>1, <1>2 DEF Frames

LEMMA TopFolder ==
    ASSUME TypeInv, stack # << >>
    PROVE  /\ Front(stack) \in Seq(Frames) /\ Len(Front(stack)) = Len(stack) - 1
           /\ \A i \in 1..(Len(stack) - 1) : Front(stack)[i] = stack[i]
           /\ Top = stack[Len(stack)] /\ Len(stack) \in Nat \ {0}
           /\ Top \in Frames /\ Top.path \in Paths /\ Top.node \in Paths
           /\ Top.todo \subseteq Strings
           /\ Front(stack) = << >> <=> Len(stack) = 1
<1>1. /\ Front(stack) \in Seq(Frames) /\ Len(Front(stack)) = Len(stack) - 1
      /\ \A i \in 1..(Len(stack) - 1) : Front(stack)[i] = stack[i]
      /\ Last(stack) = stack[Len(stack)] /\ Len(stack) \in Nat \ {0}
      /\ Last(stack) \in Frames
  BY FrontPlaces DEF TypeInv
<1>2. Front(stack) = << >> <=> Len(Front(stack)) = 0  BY <1>1, EmptySeq
<1> QED  BY <1>1, <1>2 DEF Top, Frames

(* A folder is opened. *)
LEMMA Pushed ==
    ASSUME TypeInv, NEW f \in Frames
    PROVE  /\ Append(stack, f) \in Seq(Frames) /\ Append(stack, f) # << >>
           /\ Len(Append(stack, f)) = Len(stack) + 1 /\ Len(stack) \in Nat
           /\ \A i \in 1..Len(stack) : Append(stack, f)[i] = stack[i]
           /\ Append(stack, f)[Len(stack) + 1] = f
  BY AppendPlaces DEF TypeInv

(* A row of the innermost folder is taken. *)
LEMMA RowTaken ==
    ASSUME TypeInv, stack # << >>, NEW n
    PROVE  LET s == Append(Front(stack), [Top EXCEPT !.todo = @ \ {n}])
           IN  /\ s \in Seq(Frames) /\ s # << >> /\ Len(s) = Len(stack)
               /\ \A i \in 1..(Len(stack) - 1) : s[i] = stack[i]
               /\ s[Len(stack)].path = Top.path /\ s[Len(stack)].node = Top.node
               /\ s[Len(stack)].todo = Top.todo \ {n}
<1> DEFINE t == [Top EXCEPT !.todo = @ \ {n}]
<1>1. /\ Front(stack) \in Seq(Frames) /\ Len(Front(stack)) = Len(stack) - 1
      /\ \A i \in 1..(Len(stack) - 1) : Front(stack)[i] = stack[i]
      /\ Len(stack) \in Nat \ {0} /\ Top \in Frames
  BY TopFolder
<1>2. t \in Frames /\ t.path = Top.path /\ t.node = Top.node /\ t.todo = Top.todo \ {n}
  BY <1>1 DEF Frames
<1> HIDE DEF t
<1>3. /\ Append(Front(stack), t) \in Seq(Frames) /\ Append(Front(stack), t) # << >>
      /\ Len(Append(Front(stack), t)) = Len(Front(stack)) + 1
      /\ \A i \in 1..Len(Front(stack)) : Append(Front(stack), t)[i] = Front(stack)[i]
      /\ Append(Front(stack), t)[Len(Front(stack)) + 1] = t
  BY <1>1, <1>2, AppendPlaces
<1>4. /\ Append(Front(stack), t) \in Seq(Frames) /\ Append(Front(stack), t) # << >>
      /\ Len(Append(Front(stack), t)) = Len(stack)
      /\ \A i \in 1..(Len(stack) - 1) : Append(Front(stack), t)[i] = stack[i]
      /\ Append(Front(stack), t)[Len(stack)] = t
  BY <1>1, <1>3
<1> QED  BY <1>2, <1>4 DEF t

LEMMA JobQueued ==
    ASSUME TypeInv, at # << >>, NEW folder \in BOOLEAN
    PROVE  /\ Append(jobs, Job(folder)) \in Seq(Jobs) /\ Append(jobs, Job(folder)) # << >>
           /\ Len(Append(jobs, Job(folder))) = Len(jobs) + 1 /\ Len(jobs) \in Nat
           /\ \A i \in 1..Len(jobs) : Append(jobs, Job(folder))[i] = jobs[i]
           /\ Append(jobs, Job(folder))[Len(jobs) + 1] = Job(folder)
           /\ Job(folder).source = at /\ Job(folder).directory = folder
<1>1. Dest(at) \in Paths
  <2> DEFINE m == Len(req.source)
             k == Len(at)
  <2>1. m \in Nat \ {0} /\ k \in Nat  BY EmptySeq, LenProperties DEF TypeInv, Paths
  <2>2. \A i \in m..k : at[i] \in Strings  BY <2>1, ElementOfSeq DEF TypeInv, Paths
  <2> HIDE DEF m, k
  <2>3. SubSeq(at, m, k) \in Paths  BY <2>1, <2>2, SubSeqProperties DEF Paths
  <2>4. req.destDir \o SubSeq(at, m, k) \in Paths
    BY <2>3, ConcatProperties DEF TypeInv, Paths
  <2> QED  BY <2>4 DEF Dest, m, k
<1>2. Job(folder) \in Jobs  BY <1>1 DEF TypeInv, Job, Jobs
<1>3. jobs \in Seq(Jobs)  BY DEF TypeInv
<1>4. Job(folder).source = at /\ Job(folder).directory = folder  BY DEF Job
<1> DEFINE j == Job(folder)
<1> HIDE DEF j
<1>5. j \in Jobs  BY <1>2 DEF j
<1>6. /\ Append(jobs, j) \in Seq(Jobs) /\ Append(jobs, j) # << >>
      /\ Len(Append(jobs, j)) = Len(jobs) + 1 /\ Len(jobs) \in Nat
      /\ \A i \in 1..Len(jobs) : Append(jobs, j)[i] = jobs[i]
      /\ Append(jobs, j)[Len(jobs) + 1] = j
  BY <1>3, <1>5, AppendPlaces
<1> QED  BY <1>4, <1>6 DEF j

LEMMA BaseInit == ASSUME Init PROVE Base
<1>1. PICK c \in Cases : req = c.req /\ loop = c.loop /\ files = c.files  BY DEF Init
<1>2. /\ req.source \in Paths \ {<< >>} /\ req.destDir \in Paths
      /\ Rooted(files)
      /\ \A p \in DOMAIN files : Last(p) # Self
      /\ loop = << >> \/ /\ loop \in DOMAIN files /\ files[loop] = "dir"
                         /\ IsPrefix(req.source, loop)
  <2>1. IsTree(files)  BY <1>1, CasesAssumption
  <2> QED  BY <1>1, <2>1, CasesAssumption, TreeIsRooted DEF Paths, Strings
<1>3. << >> \in Seq(Frames) /\ << >> \in Seq(Jobs) /\ << >> \in Paths  BY EmptySeq DEF Paths
<1>4. TypeInv
  <2>1. loop \in Paths  BY <1>2, <1>3 DEF Rooted
  <2> QED  BY <1>2, <1>3, <2>1 DEF Init, TypeInv
<1>5. Len(stack) = 0  BY DEF Init
<1>6. PlaceInv  BY <1>2, <1>5, TreeAssumption DEF Init, PlaceInv
<1>7. NodesInv  BY <1>2, <1>5, PrefixOfItself DEF Init, NodesInv
<1>8. FilesInv  BY <1>2 DEF FilesInv, FilesSound
<1> QED  BY <1>4, <1>6, <1>7, <1>8 DEF Base

LEMMA BaseFails == ASSUME Base, Fails, UNCHANGED <<req, loop>> PROVE Base'
<1>1. << >> \in Seq(Frames) /\ << >> \in Seq(Jobs) /\ << >> \in Paths /\ Len(<< >>) = 0
  BY EmptySeq DEF Paths
<1>2. TypeInv'  BY <1>1 DEF Base, TypeInv, Fails
<1>3. PlaceInv'  BY <1>1, TreeAssumption DEF PlaceInv, Fails
<1>4. NodesInv'  BY <1>1 DEF NodesInv, Fails
<1>5. FilesInv'  BY DEF FilesInv, Fails
<1> QED  BY <1>2, <1>3, <1>4, <1>5 DEF Base

(* What is left of the open folders when a call returns. *)
LEMMA Returned ==
    ASSUME TypeInv, NEW above, above = stack \/ (stack # << >> /\ above = Front(stack))
    PROVE  /\ above \in Seq(Frames) /\ Len(above) \in Nat /\ Len(above) <= Len(stack)
           /\ Len(stack) \in Nat
           /\ above = << >> <=> Len(above) = 0
           /\ \A i \in 1..Len(above) : i \in 1..Len(stack) /\ above[i] = stack[i]
<1>1. CASE above = stack  BY <1>1, OpenFolders DEF TypeInv
<1>2. CASE stack # << >> /\ above = Front(stack)
  <2>1. /\ Front(stack) \in Seq(Frames) /\ Len(Front(stack)) = Len(stack) - 1
        /\ \A i \in 1..(Len(stack) - 1) : Front(stack)[i] = stack[i]
        /\ Len(stack) \in Nat \ {0}
        /\ Front(stack) = << >> <=> Len(stack) = 1
    BY <1>2, TopFolder
  <2> QED  BY <1>2, <2>1
<1> QED  BY <1>1, <1>2

LEMMA BaseReturns ==
    ASSUME Base, result = "none", NEW above,
           above = stack \/ (stack # << >> /\ above = Front(stack)),
           Returns(above), UNCHANGED <<req, loop>>, jobs' \in Seq(Jobs), FilesSound'
    PROVE  Base'
<1>1. /\ above \in Seq(Frames) /\ Len(above) \in Nat /\ Len(above) <= Len(stack)
      /\ Len(stack) \in Nat
      /\ above = << >> <=> Len(above) = 0
      /\ \A i \in 1..Len(above) : i \in 1..Len(stack) /\ above[i] = stack[i]
  BY Returned DEF Base
<1>2. << >> \in Paths  BY EmptySeq DEF Paths
<1>3. TypeInv'  BY <1>1, <1>2 DEF Base, TypeInv, Returns
<1>4. PlaceInv'
  <2>1. (stack # << >> => stack[1].path = req.source /\ stack[1].node = req.source)'
    BY <1>1 DEF Base, PlaceInv, Returns
  <2>2. (Len(stack) <= MaxDepth + 1)'
    BY <1>1, TreeAssumption DEF Base, PlaceInv, Returns
  <2>3. /\ stack' = above /\ at' = << >> /\ node' = << >>
        /\ \/ above # << >> /\ pc' = "next" /\ result' = "none"
           \/ above = << >> /\ pc' \in {"done", "jobs"} /\ result' = "true"
        /\ pc' = "jobs" => ~Removing
    BY DEF Returns
  <2>4. Removing' <=> Removing  BY DEF Removing
  <2> QED  BY <2>1, <2>2, <2>3, <2>4 DEF PlaceInv
<1>5. NodesInv'  BY <1>1 DEF Base, NodesInv, Returns
<1>6. FilesInv'  BY DEF FilesInv
<1> QED  BY <1>3, <1>4, <1>5, <1>6 DEF Base

LEMMA BaseInspect == ASSUME Base, Inspect PROVE Base'
<1>1. /\ pc = "inspect" /\ result = "none" /\ at # << >> /\ node # << >>
      /\ Len(stack) <= MaxDepth /\ FilesSound
  BY OpenFolders DEF Base, Inspect, PlaceInv, FilesInv, Depth
<1>2. CASE Fails  BY <1>2, BaseFails DEF Inspect
<1>3. CASE /\ pc' = "list" /\ jobs' = (IF Removing THEN jobs ELSE Append(jobs, Job(TRUE)))
           /\ UNCHANGED <<at, node, stack, result>>
  <2>1. jobs' \in Seq(Jobs)  BY <1>1, <1>3, JobQueued DEF Base, TypeInv
  <2>2. TypeInv'  BY <1>3, <2>1 DEF Base, TypeInv, Inspect
  <2>3. PlaceInv'  BY <1>1, <1>3 DEF Base, PlaceInv, Inspect, Removing
  <2>4. NodesInv'  BY <1>3 DEF Base, NodesInv, Inspect
  <2>5. FilesInv'  BY <1>3 DEF Base, FilesInv, FilesSound, Inspect, world
  <2> QED  BY <2>2, <2>3, <2>4, <2>5 DEF Base
<1>4. CASE /\ Removing \/ req.overwrite = "NO"
           /\ pc' = IF Removing THEN "delete" ELSE "clash"
           /\ UNCHANGED <<at, node, stack, jobs, result>>
  <2>1. TypeInv'  BY <1>4 DEF Base, TypeInv, Inspect
  <2>2. PlaceInv'  BY <1>1, <1>4 DEF Base, PlaceInv, Inspect, Removing
  <2>3. NodesInv'  BY <1>4 DEF Base, NodesInv, Inspect
  <2>4. FilesInv'  BY <1>4 DEF Base, FilesInv, FilesSound, Inspect, world
  <2> QED  BY <2>1, <2>2, <2>3, <2>4 DEF Base
<1>5. CASE jobs' = Append(jobs, Job(FALSE)) /\ Returns(stack)
  <2>1. jobs' \in Seq(Jobs)  BY <1>1, <1>5, JobQueued DEF Base
  <2>2. FilesSound'  BY <1>1 DEF FilesSound, Inspect, world
  <2> QED  BY <1>1, <1>5, <2>1, <2>2, BaseReturns DEF Inspect
<1> QED  BY <1>2, <1>3, <1>4, <1>5 DEF Inspect

LEMMA BaseClash == ASSUME Base, Clash PROVE Base'
<1>1. pc = "clash" /\ result = "none" /\ at # << >> /\ FilesSound
  BY DEF Base, Clash, PlaceInv, FilesInv
<1>2. CASE Fails  BY <1>2, BaseFails DEF Clash
<1>3. CASE Returns(stack) /\ (jobs' = jobs \/ jobs' = Append(jobs, Job(FALSE)))
  <2>1. jobs' \in Seq(Jobs)  BY <1>1, <1>3, JobQueued DEF Base, TypeInv
  <2>2. FilesSound'  BY <1>1 DEF FilesSound, Clash, world
  <2> QED  BY <1>1, <1>3, <2>1, <2>2, BaseReturns DEF Clash
<1> QED  BY <1>2, <1>3 DEF Clash

LEMMA BaseListFolder == ASSUME Base, ListFolder PROVE Base'
<1>1. /\ pc = "list" /\ result = "none" /\ at # << >> /\ node # << >>
      /\ Len(stack) <= MaxDepth /\ FilesSound
  BY DEF Base, ListFolder, PlaceInv, FilesInv
<1>2. CASE Fails  BY <1>2, BaseFails DEF ListFolder
<1>3. CASE ~Fails
  <2> DEFINE f == [path |-> at, node |-> node, todo |-> Rows(node)]
  <2>1. /\ stack' = Append(stack, f) /\ pc' = "next" /\ at' = << >> /\ node' = << >>
        /\ UNCHANGED <<jobs, result, req, loop, files>>
    BY <1>3 DEF ListFolder
  <2>2. Rows(node) \subseteq Strings /\ (Self \in Rows(node) <=> node = loop)
    BY <1>1, RowsAreChildren DEF Base, TypeInv, FilesSound
  <2>3. f \in Frames /\ f.path = at /\ f.node = node /\ f.todo = Rows(node)
    BY <2>2 DEF Base, TypeInv, Frames
  <2> HIDE DEF f
  <2>4. /\ Append(stack, f) \in Seq(Frames) /\ Append(stack, f) # << >>
        /\ Len(Append(stack, f)) = Len(stack) + 1 /\ Len(stack) \in Nat
        /\ \A i \in 1..Len(stack) : Append(stack, f)[i] = stack[i]
        /\ Append(stack, f)[Len(stack) + 1] = f
    BY <2>3, Pushed DEF Base
  <2>5. /\ stack' \in Seq(Frames) /\ stack' # << >> /\ Len(stack') = Len(stack) + 1
        /\ \A i \in 1..Len(stack) : stack'[i] = stack[i]
        /\ stack'[Len(stack) + 1] = f
    BY <2>1, <2>4
  <2>6. << >> \in Paths  BY EmptySeq DEF Paths
  <2>7. TypeInv'  BY <2>1, <2>5, <2>6 DEF Base, TypeInv
  <2>8. PlaceInv'
    <3>1. stack'[1].path = req.source /\ stack'[1].node = req.source
      BY <1>1, <2>3, <2>4, <2>5, OpenFolders DEF Base, PlaceInv
    <3>2. Len(stack') <= MaxDepth + 1  BY <1>1, <2>4, <2>5, TreeAssumption
    <3> QED  BY <1>1, <2>1, <2>5, <3>1, <3>2 DEF PlaceInv
  <2>9. NodesInv'
    <3>1. ASSUME NEW i \in 1..Len(stack')
          PROVE  /\ stack'[i].path # << >> /\ IsPrefix(req.source, stack'[i].node)
                 /\ Self \in stack'[i].todo => stack'[i].node = loop
                 /\ loop = << >> => stack'[i].path = stack'[i].node
      <4>1. CASE i = Len(stack) + 1  BY <1>1, <2>2, <2>3, <2>5, <4>1 DEF Base, NodesInv
      <4>2. CASE i # Len(stack) + 1
        <5>1. i \in 1..Len(stack) /\ stack'[i] = stack[i]  BY <2>4, <2>5, <4>2
        <5> QED  BY <5>1 DEF Base, NodesInv
      <4> QED  BY <4>1, <4>2
    <3> QED  BY <2>1, <3>1 DEF NodesInv
  <2>10. FilesInv'  BY <2>1 DEF Base, FilesInv, FilesSound
  <2> QED  BY <2>7, <2>8, <2>9, <2>10 DEF Base
<1> QED  BY <1>2, <1>3

LEMMA BaseNextRow == ASSUME Base, NextRow PROVE Base'
<1>1. pc = "next" /\ result = "none" /\ stack # << >> /\ FilesSound
  BY DEF Base, NextRow, PlaceInv, FilesInv
<1>2. PICK n \in Top.todo :
         /\ at' = Append(Top.path, n) /\ node' = Leads(Top.node, n)
         /\ stack' = Append(Front(stack), [Top EXCEPT !.todo = @ \ {n}])
  BY DEF NextRow
<1>3. /\ Top = stack[Len(stack)] /\ Len(stack) \in Nat \ {0}
      /\ Top.path \in Paths /\ Top.node \in Paths /\ Top.todo \subseteq Strings
  BY <1>1, TopFolder DEF Base
<1>4. /\ stack' \in Seq(Frames) /\ stack' # << >> /\ Len(stack') = Len(stack)
      /\ \A i \in 1..(Len(stack) - 1) : stack'[i] = stack[i]
      /\ stack'[Len(stack)].path = Top.path /\ stack'[Len(stack)].node = Top.node
      /\ stack'[Len(stack)].todo = Top.todo \ {n}
  BY <1>1, <1>2, RowTaken DEF Base
<1>5. /\ pc' = "inspect" /\ UNCHANGED <<req, loop, files, jobs, result>>
  BY DEF NextRow, world
<1>6. /\ at' \in Paths \ {<< >>} /\ node' \in Paths
      /\ n # Self => node' = Append(Top.node, n) /\ node' # << >>
      /\ n = Self => node' = Top.node
  BY <1>2, <1>3, AppendIsPath DEF Leads
<1>7. /\ Top.path # << >> /\ IsPrefix(req.source, Top.node)
      /\ req.source \in Paths \ {<< >>}
      /\ Self \in Top.todo => Top.node = loop
      /\ loop = << >> => Top.path = Top.node
  BY <1>3 DEF Base, NodesInv, TypeInv
<1>8. IsPrefix(req.source, node')
  <2>1. n \in Strings  BY <1>3
  <2>2. IsPrefix(req.source, Append(Top.node, n))  BY <1>3, <1>7, <2>1, PrefixOfAppend
  <2> QED  BY <1>6, <1>7, <2>2
<1>9. node' # << >>  BY <1>6, <1>7, <1>8, PrefixLonger
<1>10. TypeInv'  BY <1>4, <1>5, <1>6 DEF Base, TypeInv
<1>11. PlaceInv'
  <2>1. stack'[1].path = req.source /\ stack'[1].node = req.source
    BY <1>1, <1>3, <1>4 DEF Base, PlaceInv
  <2> QED  BY <1>1, <1>4, <1>5, <1>6, <1>9, <2>1 DEF Base, PlaceInv
<1>12. NodesInv'
  <2>1. ASSUME NEW i \in 1..Len(stack')
        PROVE  /\ stack'[i].path # << >> /\ IsPrefix(req.source, stack'[i].node)
               /\ Self \in stack'[i].todo => stack'[i].node = loop
               /\ loop = << >> => stack'[i].path = stack'[i].node
    <3>1. CASE i = Len(stack)  BY <1>4, <1>7, <3>1
    <3>2. CASE i # Len(stack)
      <4>1. i \in 1..Len(stack) /\ stack'[i] = stack[i]  BY <1>3, <1>4, <3>2
      <4> QED  BY <4>1 DEF Base, NodesInv
    <3> QED  BY <3>1, <3>2
  <2>2. loop = << >> => at' = node'
    <3> SUFFICES ASSUME loop = << >> PROVE at' = node'
      OBVIOUS
    <3>1. Top.node # << >>  BY <1>3, <1>7, PrefixLonger
    <3>2. n # Self  BY <1>7, <3>1
    <3> QED  BY <1>2, <1>6, <1>7, <3>2
  <2> QED  BY <1>5, <1>8, <2>1, <2>2 DEF NodesInv
<1>13. FilesInv'  BY <1>5 DEF Base, FilesInv, FilesSound
<1> QED  BY <1>10, <1>11, <1>12, <1>13 DEF Base

LEMMA BaseRowsDone == ASSUME Base, RowsDone PROVE Base'
<1>1. pc = "next" /\ result = "none" /\ stack # << >> /\ FilesSound
  BY DEF Base, RowsDone, PlaceInv, FilesInv
<1>2. UNCHANGED <<req, loop, files, jobs>>
  BY DEF RowsDone, world
<1>3. FilesSound'  BY <1>1, <1>2 DEF FilesSound
<1>4. CASE ~Removing
  BY <1>1, <1>2, <1>3, <1>4, BaseReturns DEF RowsDone, Base, TypeInv
<1>5. CASE Removing
  <2>1. /\ pc' = "rmdir" /\ at' = Top.path /\ node' = Top.node /\ stack' = Front(stack)
        /\ result' = result
    BY <1>5 DEF RowsDone
  <2>2. /\ Top = stack[Len(stack)] /\ Len(stack) \in Nat \ {0}
        /\ Top.path \in Paths /\ Top.node \in Paths
        /\ Front(stack) \in Seq(Frames) /\ Len(Front(stack)) = Len(stack) - 1
        /\ \A i \in 1..(Len(stack) - 1) : Front(stack)[i] = stack[i]
        /\ Front(stack) = << >> <=> Len(stack) = 1
    BY <1>1, TopFolder DEF Base
  <2>3. /\ IsPrefix(req.source, Top.node) /\ req.source \in Paths \ {<< >>}
        /\ loop = << >> => Top.path = Top.node
    BY <2>2 DEF Base, NodesInv, TypeInv
  <2>4. Top.node # << >>  BY <2>2, <2>3, PrefixLonger
  <2>5. TypeInv'  BY <1>2, <2>1, <2>2 DEF Base, TypeInv
  <2>6. NodesInv'  BY <1>2, <2>1, <2>2, <2>3 DEF Base, NodesInv
  <2>7. Top.path # << >>
    BY <2>2 DEF Base, NodesInv
  <2>8. PlaceInv'
    <3>1. Front(stack) = << >> => Top.path = req.source /\ Top.node = req.source
      BY <1>1, <2>2 DEF Base, PlaceInv
    <3>2. Front(stack) # << >> => /\ Front(stack)[1].path = req.source
                                  /\ Front(stack)[1].node = req.source
      BY <1>1, <2>2 DEF Base, PlaceInv
    <3>3. Len(Front(stack)) <= MaxDepth
      BY <2>2, TreeAssumption DEF Base, PlaceInv
    <3> QED  BY <1>1, <1>2, <1>5, <2>1, <2>2, <2>4, <2>7, <3>1, <3>2, <3>3, TreeAssumption
             DEF Base, PlaceInv, Removing
  <2>9. FilesInv'  BY <1>3 DEF FilesInv
  <2> QED  BY <2>5, <2>6, <2>8, <2>9 DEF Base
<1> QED  BY <1>4, <1>5

(* What removeTree() deletes leaves a tree. *)
LEMMA DeletedNode ==
    ASSUME Base, pc \in {"delete", "rmdir"}, Deletable(node)
    PROVE  /\ node \in DOMAIN files /\ node # loop
           /\ \A q \in DOMAIN files : IsPrefix(node, q) => q = node
           /\ Rooted(Without(files, node))
           /\ DOMAIN Without(files, node) = DOMAIN files \ {node}
           /\ \A q \in DOMAIN files \ {node} : Without(files, node)[q] = files[q]
           /\ pc = "delete" => files[node] # "dir"
           /\ pc = "rmdir" => files[node] = "dir"
<1>1. /\ result = "none" /\ node # << >> /\ FilesSound /\ node \in Paths
  BY DEF Base, PlaceInv, FilesInv, TypeInv
<1>2. /\ node \in DOMAIN files
      /\ pc = "delete" => files[node] # "dir"
      /\ pc = "rmdir" => files[node] = "dir" /\ Rows(node) = {}
  BY DEF Deletable, Kind
<1>3. \A q \in DOMAIN files : IsPrefix(node, q) => q = node
  <2>1. CASE pc = "delete"  BY <1>1, <1>2, <2>1, FileIsLeaf DEF FilesSound
  <2>2. CASE pc = "rmdir"
    <3>1. SUFFICES ASSUME NEW q \in DOMAIN files, IsPrefix(node, q), q # node PROVE FALSE
      OBVIOUS
    <3>2. PICK n \in Strings : Append(node, n) \in DOMAIN files
      BY <1>1, <3>1, ChildBelow DEF FilesSound
    <3>3. n \in Rows(node)  BY <1>1, <3>2, RowsAreChildren DEF FilesSound
    <3> QED  BY <1>2, <2>2, <3>3
  <2> QED  BY <2>1, <2>2
<1>4. node # loop
  <2>1. CASE pc = "delete"  BY <1>1, <1>2, <2>1 DEF FilesSound
  <2>2. CASE pc = "rmdir"  BY <1>1, <1>2, <2>2, RowsAreChildren DEF FilesSound
  <2> QED  BY <2>1, <2>2
<1> QED  BY <1>1, <1>2, <1>3, <1>4, RootedWithout DEF FilesSound

LEMMA BaseDelete == ASSUME Base, Delete PROVE Base'
<1>1. pc \in {"delete", "rmdir"} /\ result = "none" /\ FilesSound
  BY DEF Base, Delete, PlaceInv, FilesInv
<1>2. UNCHANGED <<req, loop>>  BY DEF Delete
<1>3. CASE Fails  BY <1>2, <1>3, BaseFails
<1>4. CASE Deletable(node) /\ files' = Without(files, node) /\ UNCHANGED jobs /\ Returns(stack)
  <2>1. FilesSound'  BY <1>1, <1>2, <1>4, DeletedNode DEF FilesSound
  <2>2. jobs' \in Seq(Jobs)  BY <1>4 DEF Base, TypeInv
  <2> QED  BY <1>1, <1>2, <1>4, <2>1, <2>2, BaseReturns
<1> QED  BY <1>3, <1>4 DEF Delete, Refused

LEMMA BaseRunJob == ASSUME Base, RunJob PROVE Base'
<1>1. pc = "jobs" /\ result # "none" /\ ~Removing  BY DEF Base, RunJob, PlaceInv
<1>2. UNCHANGED <<req, loop, at, node, stack, jobs, result>>  BY DEF RunJob, walking
<1>3. pc' \in {"done", "jobs"}
  BY DEF RunJob, CopyFile, AskFolder, MakeFolder, Ended
<1>4. TypeInv'  BY <1>2, <1>3 DEF Base, TypeInv
<1>5. PlaceInv'  BY <1>1, <1>2, <1>3 DEF Base, PlaceInv, Removing
<1>6. NodesInv'  BY <1>2 DEF Base, NodesInv
<1>7. FilesInv'  BY <1>1, <1>2 DEF FilesInv
<1> QED  BY <1>4, <1>5, <1>6, <1>7 DEF Base

(* Nothing of what the worker keeps is touched by the others. *)
LEMMA BaseIdle ==
    ASSUME Base, UNCHANGED <<req, loop, pc, at, node, stack, jobs, result>>, FilesInv'
    PROVE  Base'
<1>1. TypeInv'  BY DEF Base, TypeInv
<1>2. PlaceInv'  BY DEF Base, PlaceInv, Removing
<1>3. NodesInv'  BY DEF Base, NodesInv
<1> QED  BY <1>1, <1>2, <1>3 DEF Base

(* What the others may do to the files. *)
LEMMA Added ==
    ASSUME FilesSound, NEW p \in DOMAIN files, NEW n \in Names,
           files[p] = "dir", Append(p, n) \notin DOMAIN files,
           files' = With(files, Append(p, n), Theirs), UNCHANGED <<req, loop>>
    PROVE  /\ FilesSound' /\ n \in Strings /\ n # Self /\ p \in Paths \ {<< >>}
           /\ DOMAIN files' = DOMAIN files \cup {Append(p, n)}
           /\ \A q \in DOMAIN files : files'[q] = files[q]
           /\ files'[Append(p, n)] = Theirs
<1>1. n \in Strings /\ n # Self  BY NamesAssumption DEF Strings
<1>2. p \in Paths \ {<< >>}  BY DEF FilesSound, Rooted
<1>3. Last(Append(p, n)) # Self  BY <1>1, <1>2, AppendIsPath
<1>4. /\ Rooted(files') /\ DOMAIN files' = DOMAIN files \cup {Append(p, n)}
      /\ \A q \in DOMAIN files : files'[q] = files[q]
      /\ files'[Append(p, n)] = Theirs
  <2> DEFINE a == Append(p, n)
             c == Theirs
  <2>1. /\ Rooted(files) /\ a = Append(p, n) /\ a \notin DOMAIN files
        /\ files' = With(files, a, c)
    BY DEF FilesSound
  <2> HIDE DEF a, c
  <2>2. Rooted(With(files, a, c))  BY <1>1, <2>1, RootedWith
  <2>3. DOMAIN files' = DOMAIN files \cup {a} /\ \A q \in DOMAIN files : files'[q] = files[q]
    BY <2>1 DEF With
  <2>4. files'[a] = c  BY <2>1 DEF With
  <2> QED  BY <2>1, <2>2, <2>3, <2>4 DEF a, c
<1>5. FilesSound'
  <2> DEFINE a == Append(p, n)
  <2> HIDE DEF a
  <2> QED  BY <1>3, <1>4 DEF FilesSound, a
<1> QED  BY <1>1, <1>2, <1>4, <1>5

LEMMA Taken ==
    ASSUME FilesSound, NEW p \in DOMAIN files, files[p] # "dir",
           files' = Without(files, p), UNCHANGED <<req, loop>>
    PROVE  /\ FilesSound' /\ DOMAIN files' = DOMAIN files \ {p}
           /\ \A q \in DOMAIN files \ {p} : files'[q] = files[q]
<1>1. \A q \in DOMAIN files : IsPrefix(p, q) => q = p  BY FileIsLeaf DEF FilesSound
<1>2. /\ Rooted(files') /\ DOMAIN files' = DOMAIN files \ {p}
      /\ \A q \in DOMAIN files \ {p} : files'[q] = files[q]
  BY <1>1, RootedWithout DEF FilesSound
<1> QED  BY <1>2 DEF FilesSound

LEMMA BaseOthersChange == ASSUME Base, OthersChange PROVE Base'
<1>1. UNCHANGED <<req, loop, pc, at, node, stack, jobs, result>>
  BY DEF OthersChange, walking
<1>2. ASSUME result = "none" PROVE FilesSound'
  <2>1. FilesSound  BY <1>2 DEF Base, FilesInv
  <2> QED  BY <1>1, <2>1, Added, Taken DEF OthersChange
<1>3. FilesInv'  BY <1>1, <1>2 DEF FilesInv
<1> QED  BY <1>1, <1>3, BaseIdle

LEMMA BaseStep == ASSUME Base, [Next]_vars PROVE Base'
<1>1. ASSUME UNCHANGED <<req, loop, files, pc, at, node, stack, jobs, result>> PROVE Base'
  <2>1. FilesInv'  BY <1>1 DEF Base, FilesInv, FilesSound
  <2> QED  BY <1>1, <2>1, BaseIdle
<1>2. CASE TooDeep
  <2>1. Fails /\ UNCHANGED <<req, loop>>  BY <1>2 DEF TooDeep
  <2> QED  BY <2>1, BaseFails
<1>3. CASE Inspect  BY <1>3, BaseInspect
<1>4. CASE Clash  BY <1>4, BaseClash
<1>5. CASE ListFolder  BY <1>5, BaseListFolder
<1>6. CASE NextRow  BY <1>6, BaseNextRow
<1>7. CASE RowsDone  BY <1>7, BaseRowsDone
<1>8. CASE Delete  BY <1>8, BaseDelete
<1>9. CASE RunJob  BY <1>9, BaseRunJob
<1>10. CASE LinkDrops  BY <1>1, <1>10 DEF LinkDrops, walking
<1>11. CASE OthersChange  BY <1>11, BaseOthersChange
<1>12. CASE UNCHANGED vars  BY <1>1, <1>12 DEF vars
<1> QED  BY <1>2, <1>3, <1>4, <1>5, <1>6, <1>7, <1>8, <1>9, <1>10, <1>11, <1>12 DEF Next, Walk

LEMMA BaseAlways == Spec => []Base
<1>1. Init => Base  BY BaseInit
<1>2. Base /\ [Next]_vars => Base'  BY BaseStep
<1> QED  BY <1>1, <1>2, PTL DEF Spec

(* expand() and removeTree() of transfer/queue.cpp and fs/ops.cpp never    *)
(* call themselves more than MAX_DEPTH + 1 deep, whatever the server says  *)
(* its folders are.                                                        *)
THEOREM RecursionIsBounded == Spec => []StackIsBounded
<1>1. Base => StackIsBounded  BY DEF Base, PlaceInv, StackIsBounded
<1> QED  BY <1>1, BaseAlways, PTL

----------------------------------------------------------------------------
(* Removals. *)

RemovalInv == GoneInv /\ OutsideInv /\ UnseenInv

LEMMA RemovalInit == ASSUME Init PROVE RemovalInv
<1>1. /\ result = "none" /\ steady = DOMAIN files /\ unseen = {}  BY DEF Init
<1> QED  BY <1>1 DEF RemovalInv, GoneInv, OutsideInv, UnseenInv

(* A removal that has ended stays as it is. *)
LEMMA RemovalAtRest ==
    ASSUME RemovalInv, UNCHANGED <<req, files, result, steady, unseen, stack>>,
           \/ UNCHANGED <<pc, at, node>>
           \/ at' = at /\ node' = node /\ pc # "rmdir"
    PROVE  RemovalInv'
<1>1. GoneInv'  BY DEF RemovalInv, GoneInv, Removing
<1>2. OutsideInv'  BY DEF RemovalInv, OutsideInv, Removing
<1>3. UnseenInv'  BY DEF RemovalInv, UnseenInv, Removing
<1> QED  BY <1>1, <1>2, <1>3 DEF RemovalInv

LEMMA RemovalFails ==
    ASSUME RemovalInv, Fails, UNCHANGED <<req, files, steady>>, unseen' \subseteq unseen
    PROVE  RemovalInv'
<1>1. Len(<< >>) = 0  BY EmptySeq
<1>2. GoneInv'  BY DEF Fails, GoneInv
<1>3. OutsideInv'  BY DEF RemovalInv, OutsideInv, Removing
<1>4. UnseenInv'  BY <1>1 DEF RemovalInv, UnseenInv, Removing, Fails
<1> QED  BY <1>2, <1>3, <1>4 DEF RemovalInv

LEMMA RemovalInspect == ASSUME Base, RemovalInv, Removing, Inspect PROVE RemovalInv'
<1>1. UNCHANGED <<req, files, steady, unseen>>  BY DEF Inspect, world, others
<1>2. CASE Fails  BY <1>1, <1>2, RemovalFails
<1>3. CASE ~Fails
  <2>1. pc # "rmdir" /\ UNCHANGED <<at, node, stack, result>>
    BY <1>3 DEF Inspect
  <2> QED  BY <1>1, <2>1, RemovalAtRest
<1> QED  BY <1>2, <1>3

LEMMA RemovalListFolder == ASSUME Base, RemovalInv, Removing, ListFolder PROVE RemovalInv'
<1>1. /\ UNCHANGED <<req, files, steady>> /\ unseen' = {q \in unseen : Front(q) # node}
      /\ pc = "list"
  BY DEF ListFolder
<1>2. CASE Fails  BY <1>1, <1>2, RemovalFails
<1>3. CASE ~Fails
  <2> DEFINE f == [path |-> at, node |-> node, todo |-> Rows(node)]
  <2>1. /\ stack' = Append(stack, f) /\ pc' = "next" /\ at' = << >> /\ result' = result
    BY <1>3 DEF ListFolder
  <2>2. FilesSound /\ node \in Paths /\ at \in Paths
    BY <1>1 DEF Base, TypeInv, PlaceInv, FilesInv
  <2>3. f \in Frames /\ f.node = node
    BY <2>2, RowsAreChildren DEF FilesSound, Frames
  <2> HIDE DEF f
  <2>4. /\ Len(stack') = Len(stack) + 1 /\ Len(stack) \in Nat
        /\ \A i \in 1..Len(stack) : stack'[i] = stack[i]
        /\ stack'[Len(stack) + 1] = f
    BY <2>1, <2>3, Pushed DEF Base
  <2>5. \A i \in 1..Len(stack') : i = Len(stack) + 1 \/ (i \in 1..Len(stack) /\ stack'[i] = stack[i])
    BY <2>4
  <2>6. GoneInv'  BY <1>1, <2>1 DEF RemovalInv, GoneInv, Removing
  <2>7. OutsideInv'  BY <1>1 DEF RemovalInv, OutsideInv, Removing
  <2>8. UnseenInv'
    <3>1. ASSUME NEW q \in unseen', NEW i \in 1..Len(stack'), stack'[i].node = Front(q)
          PROVE  Last(q) \notin stack'[i].todo
      <4>1. q \in unseen /\ Front(q) # node  BY <1>1, <3>1
      <4> QED  BY <2>3, <2>4, <2>5, <3>1, <4>1 DEF RemovalInv, UnseenInv
    <3> QED  BY <1>1, <2>1, <3>1 DEF RemovalInv, UnseenInv, Removing
  <2> QED  BY <2>6, <2>7, <2>8 DEF RemovalInv
<1> QED  BY <1>2, <1>3

LEMMA RemovalNextRow == ASSUME Base, RemovalInv, Removing, NextRow PROVE RemovalInv'
<1>1. /\ pc = "next" /\ result = "none" /\ stack # << >> /\ FilesSound
      /\ UNCHANGED <<req, files, steady, unseen, result>>
  BY DEF Base, NextRow, PlaceInv, FilesInv, world, others
<1>2. PICK n \in Top.todo :
         /\ at' = Append(Top.path, n) /\ node' = Leads(Top.node, n)
         /\ stack' = Append(Front(stack), [Top EXCEPT !.todo = @ \ {n}])
  BY DEF NextRow
<1>3. /\ Top = stack[Len(stack)] /\ Len(stack) \in Nat \ {0}
      /\ Top.path \in Paths /\ Top.node \in Paths /\ Top.todo \subseteq Strings
  BY <1>1, TopFolder DEF Base
<1>4. /\ Len(stack') = Len(stack)
      /\ \A i \in 1..(Len(stack) - 1) : stack'[i] = stack[i]
      /\ stack'[Len(stack)].node = Top.node
      /\ stack'[Len(stack)].todo = Top.todo \ {n}
  BY <1>1, <1>2, RowTaken DEF Base
<1>5. GoneInv'  BY <1>1 DEF RemovalInv, GoneInv, Removing
<1>6. OutsideInv'  BY <1>1 DEF RemovalInv, OutsideInv, Removing
<1>7. ASSUME NEW q \in unseen
      PROVE  /\ \A i \in 1..Len(stack') :
                   stack'[i].node = Front(q) => Last(q) \notin stack'[i].todo
             /\ node' # q
  <2>1. /\ q \in Paths \ {<< >>} /\ q \in DOMAIN files /\ files[q] # "dir"
        /\ \A i \in 1..Len(stack) : stack[i].node = Front(q) => Last(q) \notin stack[i].todo
    BY DEF RemovalInv, UnseenInv
  <2>2. ASSUME NEW i \in 1..Len(stack'), stack'[i].node = Front(q)
        PROVE  Last(q) \notin stack'[i].todo
    <3>1. CASE i = Len(stack)  BY <1>3, <1>4, <2>1, <2>2, <3>1
    <3>2. CASE i # Len(stack)
      <4>1. i \in 1..Len(stack) /\ stack'[i] = stack[i]  BY <1>3, <1>4, <3>2
      <4> QED  BY <2>1, <2>2, <4>1
    <3> QED  BY <3>1, <3>2
  <2>3. node' # q
    <3>1. CASE n = Self
      <4>1. node' = Top.node /\ Top.node = loop
        BY <1>2, <1>3, <3>1 DEF Leads, Base, NodesInv
      <4>2. Top.node # << >>
        BY <1>3, PrefixLonger DEF Base, NodesInv, TypeInv
      <4> QED  BY <1>1, <2>1, <4>1, <4>2 DEF FilesSound
    <3>2. CASE n # Self
      <4>1. /\ node' = Append(Top.node, n)
            /\ Front(Append(Top.node, n)) = Top.node /\ Last(Append(Top.node, n)) = n
        BY <1>2, <1>3, <3>2, AppendIsPath DEF Leads
      <4>2. Front(node') = Top.node /\ Last(node') = n  BY <4>1
      <4> QED  BY <1>3, <2>1, <4>2
    <3> QED  BY <3>1, <3>2
  <2> QED  BY <2>2, <2>3
<1>8. UnseenInv'  BY <1>1, <1>7 DEF RemovalInv, UnseenInv, Removing
<1> QED  BY <1>5, <1>6, <1>8 DEF RemovalInv

LEMMA RemovalRowsDone == ASSUME Base, RemovalInv, Removing, RowsDone PROVE RemovalInv'
<1>1. /\ stack # << >> /\ pc' = "rmdir" /\ stack' = Front(stack)
      /\ UNCHANGED <<req, files, steady, unseen, result>>
  BY DEF Base, PlaceInv, RowsDone, world, others
<1>2. /\ Len(Front(stack)) = Len(stack) - 1 /\ Len(stack) \in Nat \ {0}
      /\ \A i \in 1..(Len(stack) - 1) : Front(stack)[i] = stack[i]
  BY <1>1, TopFolder DEF Base
<1>3. \A i \in 1..Len(stack') : i \in 1..Len(stack) /\ stack'[i] = stack[i]
  BY <1>1, <1>2
<1>4. GoneInv'  BY <1>1 DEF RemovalInv, GoneInv, Removing
<1>5. OutsideInv'  BY <1>1 DEF RemovalInv, OutsideInv, Removing
<1>6. UnseenInv'  BY <1>1, <1>3 DEF RemovalInv, UnseenInv, Removing
<1> QED  BY <1>4, <1>5, <1>6 DEF RemovalInv

LEMMA RemovalDelete == ASSUME Base, RemovalInv, Removing, Delete PROVE RemovalInv'
<1>1. /\ pc \in {"delete", "rmdir"} /\ result = "none" /\ at # << >> /\ node \in Paths
      /\ UNCHANGED <<req, steady, unseen>>
  BY DEF Base, Delete, PlaceInv, TypeInv, others
<1>2. CASE UNCHANGED files /\ Fails  BY <1>1, <1>2, RemovalFails
<1>3. CASE /\ Deletable(node) /\ files' = Without(files, node)
           /\ Returns(stack) \/ Fails
  <2>1. /\ \A q \in DOMAIN files : IsPrefix(node, q) => q = node
        /\ DOMAIN files' = DOMAIN files \ {node}
        /\ \A q \in DOMAIN files \ {node} : files'[q] = files[q]
        /\ pc = "rmdir" => files[node] = "dir"
    BY <1>1, <1>3, DeletedNode
  <2>2. ASSUME result' = "true" PROVE node = req.source
    <3>1. stack = << >>  BY <1>1, <1>3, <2>2 DEF Returns, Fails
    <3> QED  BY <1>1, <3>1 DEF Base, PlaceInv
  <2>3. GoneInv'  BY <1>1, <2>1, <2>2 DEF GoneInv
  <2>4. IsPrefix(req.source, node)  BY <1>1 DEF Base, NodesInv
  <2>5. OutsideInv'  BY <1>1, <2>1, <2>4 DEF RemovalInv, OutsideInv, Removing
  <2>6. at' = << >> /\ (stack' = stack \/ stack' = << >>) /\ Len(<< >>) = 0
    BY <1>3, EmptySeq DEF Returns, Fails
  <2>7. ASSUME NEW q \in unseen PROVE q # node
    BY <1>1, <2>1 DEF RemovalInv, UnseenInv
  <2>8. UnseenInv'  BY <1>1, <2>1, <2>6, <2>7 DEF RemovalInv, UnseenInv, Removing
  <2> QED  BY <2>3, <2>5, <2>8 DEF RemovalInv
<1> QED  BY <1>2, <1>3 DEF Delete, Refused

LEMMA RemovalOthersChange ==
    ASSUME Base, RemovalInv, Removing, OthersChange PROVE RemovalInv'
<1>1. /\ UNCHANGED <<req, loop, pc, at, node, stack, result>> /\ result = "none" /\ FilesSound
  BY DEF OthersChange, walking, Base, PlaceInv, FilesInv
<1>2. GoneInv'  BY <1>1 DEF GoneInv
<1>3. CASE \E p \in DOMAIN files, n \in Names :
             /\ Remote(p) /\ files[p] = "dir" /\ Append(p, n) \notin DOMAIN files
             /\ files' = With(files, Append(p, n), Theirs)
             /\ unseen' = IF Listed(p) /\ ~Due(p, n) THEN unseen \cup {Append(p, n)} ELSE unseen
             /\ UNCHANGED steady
  <2>1. PICK p \in DOMAIN files, n \in Names :
             /\ files[p] = "dir" /\ Append(p, n) \notin DOMAIN files
             /\ files' = With(files, Append(p, n), Theirs)
             /\ unseen' = IF Listed(p) /\ ~Due(p, n) THEN unseen \cup {Append(p, n)} ELSE unseen
             /\ UNCHANGED steady
    BY <1>3
  <2>2. /\ n \in Strings /\ n # Self /\ p \in Paths \ {<< >>}
        /\ DOMAIN files' = DOMAIN files \cup {Append(p, n)}
        /\ \A q \in DOMAIN files : files'[q] = files[q]
        /\ files'[Append(p, n)] = Theirs
    BY <1>1, <2>1, Added
  <2>3. OutsideInv'  BY <1>1, <2>1, <2>2 DEF RemovalInv, OutsideInv, Removing
  <2>4. ASSUME NEW q \in unseen
        PROVE  /\ q \in Paths \ {<< >>} /\ q \in DOMAIN files' /\ files'[q] # "dir"
               /\ \A i \in 1..Len(stack) : stack[i].node = Front(q) => Last(q) \notin stack[i].todo
               /\ pc # "rmdir" /\ at # << >> => node # q
    BY <2>2 DEF RemovalInv, UnseenInv
  <2>5. ASSUME ~Due(p, n)
        PROVE  LET a == Append(p, n)
               IN  /\ a \in Paths \ {<< >>} /\ a \in DOMAIN files' /\ files'[a] # "dir"
                   /\ \A i \in 1..Len(stack) :
                         stack[i].node = Front(a) => Last(a) \notin stack[i].todo
                   /\ pc # "rmdir" /\ at # << >> => node # a
    <3> DEFINE a == Append(p, n)
    <3>1. a \in Paths \ {<< >>} /\ Front(a) = p /\ Last(a) = n  BY <2>2, AppendIsPath
    <3>2. a \in DOMAIN files' /\ files'[a] # "dir"  BY <2>2 DEF Theirs
    <3>3. DOMAIN stack = 1..Len(stack)  BY LenProperties DEF Base, TypeInv
    <3>4. /\ \A i \in 1..Len(stack) : stack[i].node = p => n \notin stack[i].todo
          /\ pc # "rmdir" /\ at # << >> => node # a
      BY <2>5, <3>3 DEF Due
    <3> QED  BY <3>1, <3>2, <3>4
  <2>6. UnseenInv'
    <3> DEFINE a == Append(p, n)
    <3>1. unseen' = unseen \/ (~Due(p, n) /\ unseen' = unseen \cup {a})  BY <2>1
    <3>2. ~Due(p, n) => /\ a \in Paths \ {<< >>} /\ a \in DOMAIN files' /\ files'[a] # "dir"
                        /\ \A i \in 1..Len(stack) :
                              stack[i].node = Front(a) => Last(a) \notin stack[i].todo
                        /\ pc # "rmdir" /\ at # << >> => node # a
      BY <2>5
    <3> HIDE DEF a
    <3> QED  BY <1>1, <2>4, <3>1, <3>2 DEF UnseenInv
  <2> QED  BY <1>2, <2>3, <2>6 DEF RemovalInv
<1>4. CASE \E p \in DOMAIN files :
             /\ Remote(p) /\ files[p] # "dir"
             /\ files' = Without(files, p)
             /\ steady' = steady \ {p} /\ unseen' = unseen \ {p}
  <2>1. PICK p \in DOMAIN files :
             /\ files[p] # "dir" /\ files' = Without(files, p)
             /\ steady' = steady \ {p} /\ unseen' = unseen \ {p}
    BY <1>4
  <2>2. /\ DOMAIN files' = DOMAIN files \ {p}
        /\ \A q \in DOMAIN files \ {p} : files'[q] = files[q]
    BY <1>1, <2>1, Taken
  <2>3. OutsideInv'  BY <1>1, <2>1, <2>2 DEF RemovalInv, OutsideInv, Removing
  <2>4. UnseenInv'  BY <1>1, <2>1, <2>2 DEF RemovalInv, UnseenInv, Removing
  <2> QED  BY <1>2, <2>3, <2>4 DEF RemovalInv
<1> QED  BY <1>3, <1>4 DEF OthersChange

LEMMA RemovalStep == ASSUME Base, RemovalInv, [Next]_vars PROVE RemovalInv'
<1>1. CASE ~Removing
  <2>1. req' = req
    BY DEF Next, Walk, TooDeep, Inspect, Clash, ListFolder, NextRow, RowsDone, Delete, RunJob,
           LinkDrops, OthersChange, vars
  <2> QED  BY <1>1, <2>1 DEF RemovalInv, GoneInv, OutsideInv, UnseenInv, Removing
<1>2. CASE Removing
  <2>1. CASE TooDeep  BY <2>1, RemovalFails DEF TooDeep, world, others
  <2>2. CASE Inspect  BY <1>2, <2>2, RemovalInspect
  <2>3. CASE Clash  BY <1>2, <2>3 DEF Clash, Base, PlaceInv
  <2>4. CASE ListFolder  BY <1>2, <2>4, RemovalListFolder
  <2>5. CASE NextRow  BY <1>2, <2>5, RemovalNextRow
  <2>6. CASE RowsDone  BY <1>2, <2>6, RemovalRowsDone
  <2>7. CASE Delete  BY <1>2, <2>7, RemovalDelete
  <2>8. CASE RunJob  BY <1>2, <2>8 DEF RunJob, Base, PlaceInv
  <2>9. CASE LinkDrops  BY <2>9, RemovalAtRest DEF LinkDrops, walking
  <2>10. CASE OthersChange  BY <1>2, <2>10, RemovalOthersChange
  <2>11. CASE UNCHANGED vars  BY <2>11, RemovalAtRest DEF vars
  <2> QED  BY <2>1, <2>2, <2>3, <2>4, <2>5, <2>6, <2>7, <2>8, <2>9, <2>10, <2>11 DEF Next, Walk
<1> QED  BY <1>1, <1>2

(* removeTree() of fs/ops.cpp returns true only when nothing of the tree   *)
(* is left; it removes nothing that is outside the tree, and nothing that  *)
(* others have added to a folder after its listing.                        *)
THEOREM RemovalIsAlwaysExact == Spec => []RemovalIsExact
<1>1. Init => RemovalInv  BY RemovalInit
<1>2. Base /\ RemovalInv /\ [Next]_vars => RemovalInv'  BY RemovalStep
<1>3. RemovalInv => RemovalIsExact
  BY DEF RemovalInv, GoneInv, OutsideInv, UnseenInv, RemovalIsExact
<1> QED  BY <1>1, <1>2, <1>3, BaseAlways, PTL DEF Spec

----------------------------------------------------------------------------
(* Walks. *)

WalkInv == SteadyInv /\ ClashInv /\ CoverInv /\ JobsInv

LEMMA NothingOpen == \A p : ~PendingIn(<< >>, p) /\ ~LoopIn(<< >>)
<1>1. Len(<< >>) = 0  BY EmptySeq
<1> QED  BY <1>1 DEF PendingIn, LoopIn

LEMMA WalkInit == ASSUME Init PROVE WalkInv
<1>1. PICK c \in Cases : req = c.req /\ loop = c.loop /\ files = c.files  BY DEF Init
<1>2. /\ result = "none" /\ steady = DOMAIN files /\ start = files /\ pc = "inspect"
      /\ at = req.source /\ node = req.source /\ stack = << >> /\ jobs = << >>
  BY DEF Init
<1>3. Len(<< >>) = 0  BY EmptySeq
<1>4. req.source # << >> /\ (loop = << >> \/ IsPrefix(req.source, loop))
  BY <1>1, CasesAssumption
<1>5. SteadyInv /\ ClashInv  BY <1>2 DEF SteadyInv, ClashInv
<1>6. CoverInv  BY <1>2, <1>4 DEF CoverInv, LoopPending, Pending, Here
<1>7. JobsInv  BY <1>2, <1>3 DEF JobsInv
<1> QED  BY <1>5, <1>6, <1>7 DEF WalkInv

LEMMA WalkFails == ASSUME WalkInv, Fails, UNCHANGED req PROVE WalkInv'
<1>1. Len(<< >>) = 0  BY EmptySeq
<1>2. SteadyInv' /\ ClashInv' /\ CoverInv'  BY DEF Fails, SteadyInv, ClashInv, CoverInv
<1>3. JobsInv'  BY <1>1 DEF Fails, JobsInv
<1> QED  BY <1>2, <1>3 DEF WalkInv

(* The jobs of a walk only grow, the folder above each being there first. *)
LEMMA JobsGrow ==
    ASSUME Base, JobsInv, ~Removing, at # << >>, UNCHANGED <<req, start>>,
           skipped \subseteq skipped',
           jobs' = jobs \/ (\E folder \in BOOLEAN : jobs' = Append(jobs, Job(folder)))
    PROVE  /\ \A p : HasFolder(jobs, p) => HasFolder(jobs', p)
           /\ \A p : Covered(p) => Covered(p)'
           /\ \A i \in 1..Len(jobs') : jobs'[i].source # req.source =>
                 \E k \in 1..(i - 1) : jobs'[k].directory /\ jobs'[k].source = Front(jobs'[i].source)
           /\ \A folder \in BOOLEAN : jobs' = Append(jobs, Job(folder)) =>
                 \E k \in 1..Len(jobs') : jobs'[k].source = at /\ jobs'[k].directory = folder
<1>1. CASE jobs' = jobs
  <2>1. ASSUME NEW folder \in BOOLEAN PROVE jobs' # Append(jobs, Job(folder))
    <3>1. Len(Append(jobs, Job(folder))) = Len(jobs) + 1 /\ Len(jobs) \in Nat
      BY JobQueued DEF Base
    <3> QED  BY <1>1, <3>1
  <2> QED  BY <1>1, <2>1 DEF HasFolder, Covered, JobsInv
<1>2. ASSUME NEW folder \in BOOLEAN, jobs' = Append(jobs, Job(folder))
      PROVE  /\ \A p : HasFolder(jobs, p) => HasFolder(jobs', p)
             /\ \A p : Covered(p) => Covered(p)'
             /\ \A i \in 1..Len(jobs') : jobs'[i].source # req.source =>
                   \E k \in 1..(i - 1) : /\ jobs'[k].directory
                                         /\ jobs'[k].source = Front(jobs'[i].source)
             /\ \E k \in 1..Len(jobs') : jobs'[k].source = at /\ jobs'[k].directory = folder
  <2>1. /\ Len(jobs') = Len(jobs) + 1 /\ Len(jobs) \in Nat
        /\ \A i \in 1..Len(jobs) : jobs'[i] = jobs[i]
        /\ jobs'[Len(jobs) + 1].source = at /\ jobs'[Len(jobs) + 1].directory = folder
    BY <1>2, JobQueued DEF Base
  <2>2. ASSUME NEW p, HasFolder(jobs, p) PROVE HasFolder(jobs', p)
    <3>1. PICK k \in 1..Len(jobs) : jobs[k].directory /\ jobs[k].source = p
      BY <2>2 DEF HasFolder
    <3>2. k \in 1..Len(jobs') /\ jobs'[k] = jobs[k]  BY <2>1
    <3> QED  BY <3>1, <3>2 DEF HasFolder
  <2>3. ASSUME NEW p, Covered(p) PROVE Covered(p)'
    <3>1. CASE p \in skipped  BY <3>1 DEF Covered
    <3>2. CASE p \notin skipped
      <4>1. PICK k \in 1..Len(jobs) : /\ jobs[k].source = p
                                      /\ jobs[k].directory <=> start[p] = "dir"
        BY <2>3, <3>2 DEF Covered
      <4>2. k \in 1..Len(jobs') /\ jobs'[k] = jobs[k]  BY <2>1
      <4> QED  BY <4>1, <4>2 DEF Covered
    <3> QED  BY <3>1, <3>2
  <2>4. ASSUME NEW i \in 1..Len(jobs'), jobs'[i].source # req.source
        PROVE  \E k \in 1..(i - 1) : /\ jobs'[k].directory
                                     /\ jobs'[k].source = Front(jobs'[i].source)
    <3>1. CASE i = Len(jobs) + 1
      <4>1. HasFolder(jobs, Front(at))  BY <2>1, <2>4, <3>1 DEF JobsInv
      <4>2. PICK k \in 1..Len(jobs) : jobs[k].directory /\ jobs[k].source = Front(at)
        BY <4>1 DEF HasFolder
      <4>3. k \in 1..(i - 1) /\ jobs'[k] = jobs[k]  BY <2>1, <3>1
      <4> QED  BY <2>1, <3>1, <4>2, <4>3
    <3>2. CASE i # Len(jobs) + 1
      <4>1. i \in 1..Len(jobs) /\ jobs'[i] = jobs[i]  BY <2>1, <3>2
      <4>2. PICK k \in 1..(i - 1) : /\ jobs[k].directory
                                    /\ jobs[k].source = Front(jobs[i].source)
        BY <2>4, <4>1 DEF JobsInv
      <4>3. k \in 1..Len(jobs)  BY <2>1, <4>1
      <4>4. jobs'[k] = jobs[k]  BY <2>1, <4>3
      <4> QED  BY <4>1, <4>2, <4>4
    <3> QED  BY <3>1, <3>2
  <2>5. Len(jobs) + 1 \in 1..Len(jobs')  BY <2>1
  <2> QED  BY <2>1, <2>2, <2>3, <2>4, <2>5
<1>3. \A f, g \in BOOLEAN : Append(jobs, Job(f)) = Append(jobs, Job(g)) => f = g
  <2> SUFFICES ASSUME NEW f \in BOOLEAN, NEW g \in BOOLEAN,
                      Append(jobs, Job(f)) = Append(jobs, Job(g))
               PROVE  f = g
    OBVIOUS
  <2>1. Append(jobs, Job(f))[Len(jobs) + 1].directory = f  BY JobQueued DEF Base
  <2>2. Append(jobs, Job(g))[Len(jobs) + 1].directory = g  BY JobQueued DEF Base
  <2> QED  BY <2>1, <2>2
<1> QED  BY <1>1, <1>2, <1>3

(* A call of a walk returns true: what has been pending still is, or has   *)
(* its job.                                                                *)
LEMMA WalkReturns ==
    ASSUME Base, WalkInv, ~Removing, result = "none", NEW above,
           above = stack \/ (stack # << >> /\ above = Front(stack)),
           Returns(above), UNCHANGED <<req, loop, files, start, steady>>,
           loop # << >> => LoopIn(above),
           loop = << >> => \A p \in steady : IsPrefix(req.source, p) =>
                              PendingIn(above, p) \/ Covered(p)',
           \A p : HasFolder(jobs, p) => HasFolder(jobs', p),
           \A i \in 1..Len(jobs') : jobs'[i].source # req.source =>
              \E k \in 1..(i - 1) : jobs'[k].directory /\ jobs'[k].source = Front(jobs'[i].source)
    PROVE  WalkInv'
<1>1. /\ stack' = above /\ at' = << >>
      /\ \/ above # << >> /\ pc' = "next" /\ result' = "none"
         \/ above = << >> /\ pc' \in {"done", "jobs"} /\ result' = "true"
  BY DEF Returns
<1>2. ~Removing'  BY DEF Removing
<1>3. SteadyInv'  BY <1>1 DEF WalkInv, SteadyInv
<1>4. ClashInv'  BY <1>1 DEF ClashInv
<1>5. CoverInv'
  <2>1. (result = "none" /\ loop # << >> => LoopPending)'
    BY <1>1 DEF LoopPending, LoopIn, PendingIn
  <2>2. (result # "false" /\ loop = << >> =>
            \A p \in steady : IsPrefix(req.source, p) => Pending(p) \/ Covered(p))'
    BY <1>1 DEF Pending, PendingIn
  <2>3. (result = "true" => loop = << >>)'  BY <1>1, NothingOpen
  <2> QED  BY <2>1, <2>2, <2>3 DEF CoverInv
<1>6. JobsInv'
  <2>1. \A i \in 1..Len(above) : i \in 1..Len(stack) /\ above[i] = stack[i]
    BY Returned DEF Base
  <2>2. \A i \in 1..Len(stack') : HasFolder(jobs', stack'[i].path)
    <3> SUFFICES ASSUME NEW i \in 1..Len(above) PROVE HasFolder(jobs', stack'[i].path)
      BY <1>1
    <3>1. HasFolder(jobs, stack[i].path)  BY <2>1 DEF WalkInv, JobsInv
    <3>2. HasFolder(jobs', stack[i].path)  BY <3>1
    <3>3. stack'[i] = stack[i]  BY <1>1, <2>1
    <3> QED  BY <3>2, <3>3
  <2>3. result' # "false" /\ pc' # "list"  BY <1>1
  <2> QED  BY <1>1, <1>2, <2>2, <2>3 DEF JobsInv
<1> QED  BY <1>3, <1>4, <1>5, <1>6 DEF WalkInv

(* What lies below a file that is looked at is the file. *)
LEMMA FileAlone ==
    ASSUME Base, WalkInv, result = "none", at # << >>,
           node \in DOMAIN files => files[node] # "dir"
    PROVE  /\ \A p \in DOMAIN files : Here(p) => p = node
           /\ loop # << >> => ~Here(loop)
<1>1. FilesSound /\ node \in Paths /\ IsPrefix(req.source, node) /\ req.source \in Paths \ {<< >>}
  BY DEF Base, FilesInv, TypeInv, NodesInv
<1>2. node # << >>  BY <1>1, PrefixLonger
<1>3. ASSUME NEW p \in DOMAIN files, Here(p) PROVE p = node
  <2>1. IsPrefix(node, p)  BY <1>3 DEF Here
  <2>2. p # node => node \in DOMAIN files /\ files[node] = "dir"
    BY <1>1, <1>2, <2>1 DEF FilesSound, Rooted
  <2> QED  BY <2>2
<1>4. ASSUME loop # << >>, Here(loop) PROVE FALSE
  <2>1. loop \in DOMAIN files /\ files[loop] = "dir"  BY <1>1, <1>4 DEF FilesSound
  <2> QED  BY <1>3, <1>4, <2>1
<1> QED  BY <1>3, <1>4

(* The call for a file returns, its job queued or the file passed over. *)
LEMMA FileReturns ==
    ASSUME Base, WalkInv, ~Removing, result = "none", at # << >>,
           node \in DOMAIN files => files[node] # "dir",
           Returns(stack), UNCHANGED <<req, loop, files, start, steady>>,
           \/ jobs' = Append(jobs, Job(FALSE)) /\ skipped' = skipped
           \/ jobs' = jobs /\ skipped' = skipped \cup {at}
    PROVE  WalkInv'
<1>1. /\ \A p : HasFolder(jobs, p) => HasFolder(jobs', p)
      /\ \A p : Covered(p) => Covered(p)'
      /\ \A i \in 1..Len(jobs') : jobs'[i].source # req.source =>
            \E k \in 1..(i - 1) : jobs'[k].directory /\ jobs'[k].source = Front(jobs'[i].source)
      /\ jobs' = Append(jobs, Job(FALSE)) =>
            \E k \in 1..Len(jobs') : jobs'[k].source = at /\ jobs'[k].directory = FALSE
  BY JobsGrow DEF WalkInv
<1>2. loop # << >> => LoopIn(stack)
  BY FileAlone DEF WalkInv, CoverInv, LoopPending
<1>3. ASSUME loop = << >>, NEW p \in steady, IsPrefix(req.source, p)
      PROVE  PendingIn(stack, p) \/ Covered(p)'
  <2>1. PendingIn(stack, p) \/ Here(p) \/ Covered(p)
    BY <1>3 DEF WalkInv, CoverInv, Pending
  <2>2. CASE Here(p)
    <3>1. p \in DOMAIN files /\ files[p] = start[p]  BY DEF WalkInv, SteadyInv
    <3>2. p = node /\ node = at  BY <1>3, <2>2, <3>1, FileAlone DEF Base, NodesInv
    <3>3. start[p] # "dir"  BY <3>1, <3>2
    <3>4. CASE jobs' = Append(jobs, Job(FALSE))
      <4>1. PICK k \in 1..Len(jobs') : jobs'[k].source = p /\ jobs'[k].directory = FALSE
        BY <1>1, <3>2, <3>4
      <4> QED  BY <3>3, <4>1 DEF Covered
    <3>5. CASE skipped' = skipped \cup {at}  BY <3>2, <3>5 DEF Covered
    <3> QED  BY <3>4, <3>5
  <2> QED  BY <1>1, <2>1, <2>2
<1> QED  BY <1>1, <1>2, <1>3, WalkReturns

LEMMA WalkInspect == ASSUME Base, WalkInv, ~Removing, Inspect PROVE WalkInv'
<1>1. /\ pc = "inspect" /\ result = "none" /\ at # << >>
      /\ UNCHANGED <<req, loop, files, start, steady, skipped>>
  BY DEF Base, PlaceInv, Inspect, world, others
<1>2. ~Removing'  BY <1>1 DEF Removing
<1>3. "file" \in Verdicts => node \in DOMAIN files /\ files[node] # "dir"
  BY DEF Verdicts, Kind
<1>4. CASE Fails  BY <1>1, <1>4, WalkFails
<1>5. CASE /\ pc' = "list" /\ jobs' = Append(jobs, Job(TRUE))
           /\ UNCHANGED <<at, node, stack, result>>
  <2>1. /\ \A p : HasFolder(jobs, p) => HasFolder(jobs', p)
        /\ \A p : Covered(p) => Covered(p)'
        /\ \A i \in 1..Len(jobs') : jobs'[i].source # req.source =>
              \E k \in 1..(i - 1) : jobs'[k].directory /\ jobs'[k].source = Front(jobs'[i].source)
        /\ \E k \in 1..Len(jobs') : jobs'[k].source = at /\ jobs'[k].directory = TRUE
    BY <1>1, <1>5, JobsGrow DEF WalkInv
  <2>2. SteadyInv'  BY <1>1, <1>2, <1>5 DEF WalkInv, SteadyInv
  <2>3. ClashInv'  BY <1>5 DEF ClashInv
  <2>4. CoverInv'
    <3>1. (result = "none" /\ loop # << >> => LoopPending)'
      BY <1>1, <1>5 DEF WalkInv, CoverInv, LoopPending, LoopIn, PendingIn, Here
    <3>2. \A p : Pending(p)' <=> Pending(p)  BY <1>5 DEF Pending, PendingIn, Here
    <3>3. (result # "false" /\ loop = << >> =>
              \A p \in steady : IsPrefix(req.source, p) => Pending(p) \/ Covered(p))'
      BY <1>1, <1>5, <2>1, <3>2 DEF WalkInv, CoverInv
    <3> QED  BY <1>1, <1>5, <3>1, <3>3 DEF CoverInv
  <2>5. JobsInv'
    <3>1. \A i \in 1..Len(stack') : HasFolder(jobs', stack'[i].path)
      BY <1>5, <2>1 DEF WalkInv, JobsInv
    <3>2. HasFolder(jobs', at')  BY <1>5, <2>1 DEF HasFolder
    <3>3. at' = req.source \/ HasFolder(jobs', Front(at'))
      BY <1>1, <1>5, <2>1 DEF WalkInv, JobsInv
    <3> QED  BY <1>1, <1>2, <1>5, <2>1, <3>1, <3>2, <3>3 DEF JobsInv
  <2> QED  BY <2>2, <2>3, <2>4, <2>5 DEF WalkInv
<1>6. CASE /\ "file" \in Verdicts /\ pc' = "clash"
           /\ UNCHANGED <<at, node, stack, jobs, result>>
  <2>1. SteadyInv'  BY <1>1, <1>2, <1>6 DEF WalkInv, SteadyInv
  <2>2. ClashInv'  BY <1>1, <1>3, <1>6 DEF ClashInv
  <2>3. CoverInv'
    <3>1. (LoopPending)' <=> LoopPending
      BY <1>1, <1>6 DEF LoopPending, LoopIn, PendingIn, Here
    <3>2. \A p : Pending(p)' <=> Pending(p)  BY <1>6 DEF Pending, PendingIn, Here
    <3>3. \A p : Covered(p)' <=> Covered(p)  BY <1>1, <1>6 DEF Covered
    <3> QED  BY <1>1, <1>2, <1>6, <3>1, <3>2, <3>3 DEF WalkInv, CoverInv
  <2>4. JobsInv'  BY <1>1, <1>2, <1>6 DEF WalkInv, JobsInv
  <2> QED  BY <2>1, <2>2, <2>3, <2>4 DEF WalkInv
<1>7. CASE "file" \in Verdicts /\ jobs' = Append(jobs, Job(FALSE)) /\ Returns(stack)
  BY <1>1, <1>3, <1>7, FileReturns
<1> QED  BY <1>4, <1>5, <1>6, <1>7 DEF Inspect

LEMMA WalkClash == ASSUME Base, WalkInv, ~Removing, Clash PROVE WalkInv'
<1>1. /\ pc = "clash" /\ result = "none" /\ at # << >>
      /\ UNCHANGED <<req, loop, files, start, steady>>
      /\ node \in DOMAIN files => files[node] # "dir"
  BY DEF Base, PlaceInv, Clash, world, others, WalkInv, ClashInv
<1>2. CASE Fails  BY <1>1, <1>2, WalkFails
<1>3. CASE /\ Returns(stack)
           /\ \/ jobs' = Append(jobs, Job(FALSE)) /\ skipped' = skipped
              \/ jobs' = jobs /\ skipped' = skipped \cup {at}
  BY <1>1, <1>3, FileReturns
<1> QED  BY <1>2, <1>3 DEF Clash

LEMMA WalkListFolder == ASSUME Base, WalkInv, ~Removing, ListFolder PROVE WalkInv'
<1>1. /\ pc = "list" /\ result = "none" /\ at # << >>
      /\ UNCHANGED <<req, loop, files, start, steady, skipped>>
  BY DEF Base, PlaceInv, ListFolder
<1>2. ~Removing'  BY <1>1 DEF Removing
<1>3. CASE Fails  BY <1>1, <1>3, WalkFails
<1>4. CASE ~Fails
  <2> DEFINE f == [path |-> at, node |-> node, todo |-> Rows(node)]
  <2>1. /\ Kind(node) = "dir"
        /\ stack' = Append(stack, f) /\ pc' = "next" /\ at' = << >>
        /\ UNCHANGED <<jobs, result>>
    BY <1>4 DEF ListFolder
  <2>2. /\ FilesSound /\ node \in Paths /\ at \in Paths
    BY <1>1 DEF Base, TypeInv, FilesInv
  <2>3. /\ Rows(node) \subseteq Strings
        /\ \A n \in Strings : Append(node, n) \in DOMAIN files => n \in Rows(node)
        /\ Self \in Rows(node) <=> node = loop
    BY <2>2, RowsAreChildren DEF FilesSound
  <2>4. f \in Frames /\ f.path = at /\ f.node = node /\ f.todo = Rows(node)
    BY <2>2, <2>3 DEF Frames
  <2> HIDE DEF f
  <2>5. /\ Len(stack') = Len(stack) + 1 /\ Len(stack) \in Nat
        /\ \A i \in 1..Len(stack) : stack'[i] = stack[i]
        /\ stack'[Len(stack) + 1] = f
    BY <2>1, <2>4, Pushed DEF Base
  <2>6. Len(stack) + 1 \in 1..Len(stack') /\ \A i \in 1..Len(stack) : i \in 1..Len(stack')
    BY <2>5
  <2>7. \A p : PendingIn(stack, p) => PendingIn(stack', p)
    BY <2>5, <2>6 DEF PendingIn
  <2>8. ASSUME NEW p \in DOMAIN files, Here(p), p # node PROVE PendingIn(stack', p)
    <3>1. PICK n \in Strings : Append(node, n) \in DOMAIN files /\ IsPrefix(Append(node, n), p)
      BY <2>2, <2>8, ChildBelow DEF Here, FilesSound
    <3>2. Last(Append(node, n)) = n  BY <2>2, AppendIsPath
    <3>3. n \in Rows(node) /\ n # Self  BY <2>2, <2>3, <3>1, <3>2 DEF FilesSound
    <3> QED  BY <2>4, <2>5, <2>6, <3>1, <3>3 DEF PendingIn
  <2>9. SteadyInv'  BY <1>1, <1>2, <2>1 DEF WalkInv, SteadyInv
  <2>10. ClashInv'  BY <2>1 DEF ClashInv
  <2>11. CoverInv'
    <3>1. ASSUME loop # << >> PROVE LoopIn(stack)' \/ LoopPending'
      <4>1. LoopIn(stack) \/ Here(loop)  BY <1>1, <3>1 DEF WalkInv, CoverInv, LoopPending
      <4>2. loop \in DOMAIN files  BY <2>2, <3>1 DEF FilesSound
      <4>3. CASE LoopIn(stack)
        BY <1>1, <2>5, <2>6, <2>7, <4>3 DEF LoopIn
      <4>4. CASE Here(loop) /\ loop # node  BY <1>1, <2>8, <4>2, <4>4 DEF LoopIn
      <4>5. CASE loop = node  BY <1>1, <2>3, <2>4, <2>5, <2>6, <4>5 DEF LoopIn
      <4> QED  BY <4>1, <4>3, <4>4, <4>5
    <3>2. ASSUME loop = << >>, NEW p \in steady, IsPrefix(req.source, p)
          PROVE  PendingIn(stack', p) \/ Covered(p)'
      <4>1. PendingIn(stack, p) \/ Here(p) \/ Covered(p)
        BY <1>1, <3>2 DEF WalkInv, CoverInv, Pending
      <4>2. \A q : Covered(q)' <=> Covered(q)  BY <1>1, <2>1 DEF Covered
      <4>3. p \in DOMAIN files /\ files[p] = start[p]  BY <1>1 DEF WalkInv, SteadyInv
      <4>4. CASE p = node
        <5>1. start[p] = "dir"  BY <2>1, <4>3, <4>4 DEF Kind
        <5>2. p = at  BY <1>1, <3>2, <4>4 DEF Base, NodesInv
        <5>3. PICK k \in 1..Len(jobs) : jobs[k].directory /\ jobs[k].source = p
          BY <1>1, <5>2 DEF WalkInv, JobsInv, HasFolder
        <5>4. Covered(p)  BY <5>1, <5>3 DEF Covered
        <5> QED  BY <4>2, <5>4
      <4>5. CASE Here(p) /\ p # node  BY <2>8, <4>3, <4>5
      <4> QED  BY <2>7, <4>1, <4>2, <4>4, <4>5
    <3> QED  BY <1>1, <2>1, <3>1, <3>2 DEF CoverInv, LoopPending, Pending
  <2>12. JobsInv'
    <3>1. ASSUME NEW i \in 1..Len(stack') PROVE HasFolder(jobs', stack'[i].path)
      <4>1. CASE i = Len(stack) + 1  BY <1>1, <2>1, <2>4, <2>5, <4>1 DEF WalkInv, JobsInv
      <4>2. CASE i # Len(stack) + 1
        <5>1. i \in 1..Len(stack) /\ stack'[i] = stack[i]  BY <2>5, <4>2
        <5> QED  BY <2>1, <5>1 DEF WalkInv, JobsInv
      <4> QED  BY <4>1, <4>2
    <3> QED  BY <1>1, <1>2, <2>1, <3>1 DEF WalkInv, JobsInv
  <2> QED  BY <2>9, <2>10, <2>11, <2>12 DEF WalkInv
<1> QED  BY <1>3, <1>4

LEMMA WalkNextRow == ASSUME Base, WalkInv, ~Removing, NextRow PROVE WalkInv'
<1>1. /\ pc = "next" /\ result = "none" /\ stack # << >> /\ at = << >>
      /\ UNCHANGED <<req, loop, files, start, steady, skipped, jobs, result>>
      /\ pc' = "inspect"
  BY DEF Base, NextRow, PlaceInv, world, others
<1>2. PICK n \in Top.todo :
         /\ at' = Append(Top.path, n) /\ node' = Leads(Top.node, n)
         /\ stack' = Append(Front(stack), [Top EXCEPT !.todo = @ \ {n}])
  BY DEF NextRow
<1>3. /\ Top = stack[Len(stack)] /\ Len(stack) \in Nat \ {0}
      /\ Top.path \in Paths /\ Top.node \in Paths /\ Top.todo \subseteq Strings
  BY <1>1, TopFolder DEF Base
<1>4. /\ Len(stack') = Len(stack)
      /\ \A i \in 1..(Len(stack) - 1) : stack'[i] = stack[i]
      /\ stack'[Len(stack)].path = Top.path
      /\ stack'[Len(stack)].node = Top.node
      /\ stack'[Len(stack)].todo = Top.todo \ {n}
  BY <1>1, <1>2, RowTaken DEF Base
<1>5. \A i \in 1..Len(stack) : \/ i = Len(stack)
                               \/ i \in 1..(Len(stack) - 1) /\ stack'[i] = stack[i]
  BY <1>3, <1>4
<1>6. at' # << >> /\ Front(at') = Top.path  BY <1>2, <1>3, AppendIsPath
<1>7. ~Removing'  BY <1>1 DEF Removing
<1>8. ASSUME NEW p, PendingIn(stack, p) PROVE PendingIn(stack', p) \/ Here(p)'
  <2>1. PICK i \in 1..Len(stack) : \E m \in stack[i].todo :
           m # Self /\ IsPrefix(Append(stack[i].node, m), p)
    BY <1>8 DEF PendingIn
  <2>2. PICK m \in stack[i].todo : m # Self /\ IsPrefix(Append(stack[i].node, m), p)
    BY <2>1
  <2>3. CASE i = Len(stack) /\ m = n
    <3>1. node' = Append(Top.node, n)  BY <1>2, <2>2, <2>3 DEF Leads
    <3> QED  BY <1>3, <1>6, <2>2, <2>3, <3>1 DEF Here
  <2>4. CASE i = Len(stack) /\ m # n
    <3>1. m \in stack'[i].todo /\ stack'[i].node = stack[i].node  BY <1>3, <1>4, <2>2, <2>4
    <3> QED  BY <1>4, <2>2, <3>1 DEF PendingIn
  <2>5. CASE i # Len(stack)
    <3>1. stack'[i] = stack[i]  BY <1>5, <2>5
    <3> QED  BY <1>4, <2>2, <3>1 DEF PendingIn
  <2> QED  BY <2>3, <2>4, <2>5
<1>9. SteadyInv'  BY <1>1, <1>7 DEF WalkInv, SteadyInv
<1>10. ClashInv'  BY <1>1 DEF ClashInv
<1>11. CoverInv'
  <2>1. ASSUME loop # << >> PROVE LoopPending'
    <3>1. LoopIn(stack)  BY <1>1, <2>1 DEF WalkInv, CoverInv, LoopPending, Here
    <3>2. CASE PendingIn(stack, loop)
      <4>1. PendingIn(stack', loop) \/ (at' # << >> /\ IsPrefix(node', loop))
        BY <1>8, <3>2 DEF Here
      <4> QED  BY <1>1, <4>1 DEF LoopPending, LoopIn, Here
    <3>3. ASSUME NEW i \in 1..Len(stack), Self \in stack[i].todo PROVE LoopPending'
      <4>1. CASE i = Len(stack) /\ n = Self
        <5>1. node' = Top.node /\ Top.node = loop
          BY <1>2, <1>3, <3>3, <4>1 DEF Leads, Base, NodesInv
        <5>2. IsPrefix(loop, loop)  BY PrefixOfItself DEF Base, TypeInv
        <5> QED  BY <1>1, <1>6, <5>1, <5>2 DEF LoopPending, Here
      <4>2. CASE i # Len(stack) \/ n # Self
        <5>1. Self \in stack'[i].todo  BY <1>3, <1>4, <1>5, <3>3, <4>2
        <5> QED  BY <1>4, <5>1 DEF LoopPending, LoopIn
      <4> QED  BY <4>1, <4>2
    <3> QED  BY <3>1, <3>2, <3>3 DEF LoopIn
  <2>2. ASSUME loop = << >>, NEW p \in steady, IsPrefix(req.source, p)
        PROVE  Pending(p)' \/ Covered(p)'
    <3>1. PendingIn(stack, p) \/ Covered(p)
      BY <1>1, <2>2 DEF WalkInv, CoverInv, Pending, Here
    <3>2. Covered(p)' <=> Covered(p)  BY <1>1 DEF Covered
    <3> QED  BY <1>8, <3>1, <3>2 DEF Pending
  <2> QED  BY <1>1, <2>1, <2>2 DEF CoverInv
<1>12. JobsInv'
  <2>1. ASSUME NEW i \in 1..Len(stack') PROVE HasFolder(jobs', stack'[i].path)
    <3>1. i \in 1..Len(stack) /\ stack'[i].path = stack[i].path  BY <1>3, <1>4, <1>5
    <3> QED  BY <1>1, <3>1 DEF WalkInv, JobsInv
  <2>2. HasFolder(jobs', Front(at'))  BY <1>1, <1>3, <1>6 DEF WalkInv, JobsInv
  <2> QED  BY <1>1, <1>7, <2>1, <2>2 DEF WalkInv, JobsInv
<1> QED  BY <1>9, <1>10, <1>11, <1>12 DEF WalkInv

LEMMA WalkRowsDone == ASSUME Base, WalkInv, ~Removing, RowsDone PROVE WalkInv'
<1>1. /\ pc = "next" /\ result = "none" /\ stack # << >> /\ at = << >> /\ Top.todo = {}
      /\ UNCHANGED <<req, loop, files, start, steady, skipped, jobs>>
      /\ Returns(Front(stack))
  BY DEF Base, RowsDone, PlaceInv, world, others
<1>2. /\ Len(Front(stack)) = Len(stack) - 1 /\ Len(stack) \in Nat \ {0}
      /\ \A i \in 1..(Len(stack) - 1) : Front(stack)[i] = stack[i]
      /\ Top = stack[Len(stack)]
  BY <1>1, TopFolder DEF Base
<1>3. \A i \in 1..Len(stack) : \/ stack[i].todo = {}
                               \/ i \in 1..Len(Front(stack)) /\ Front(stack)[i] = stack[i]
  BY <1>1, <1>2
<1> DEFINE above == Front(stack)
<1>4. \A p : PendingIn(stack, p) => PendingIn(above, p)
  BY <1>3 DEF PendingIn
<1>5. LoopIn(stack) => LoopIn(above)  BY <1>3, <1>4 DEF LoopIn
<1>6. loop # << >> => LoopIn(above)
  BY <1>1, <1>5 DEF WalkInv, CoverInv, LoopPending, Here
<1>7. \A p : Covered(p)' <=> Covered(p)  BY <1>1 DEF Covered
<1>8. loop = << >> => \A p \in steady : IsPrefix(req.source, p) =>
                         PendingIn(above, p) \/ Covered(p)'
  BY <1>1, <1>4, <1>7 DEF WalkInv, CoverInv, Pending, Here
<1>9. \A i \in 1..Len(jobs') : jobs'[i].source # req.source =>
         \E k \in 1..(i - 1) : jobs'[k].directory /\ jobs'[k].source = Front(jobs'[i].source)
  BY <1>1 DEF WalkInv, JobsInv
<1> HIDE DEF above
<1>10. above = Front(stack)  BY DEF above
<1> QED  BY <1>1, <1>6, <1>8, <1>9, <1>10, WalkReturns

(* A step that leaves the walk alone. *)
LEMMA WalkRests ==
    ASSUME WalkInv, UNCHANGED <<req, loop, at, node, stack, jobs, result, start, skipped>>,
           steady' \subseteq steady, SteadyInv', ClashInv', pc' = "list" => pc = "list"
    PROVE  WalkInv'
<1>1. /\ \A p : Pending(p)' <=> Pending(p)
      /\ LoopPending' <=> LoopPending
      /\ \A p : Covered(p)' <=> Covered(p)
  BY DEF Pending, LoopPending, Here, LoopIn, PendingIn, Covered
<1>2. CoverInv'  BY <1>1 DEF WalkInv, CoverInv, Removing
<1>3. JobsInv'  BY DEF WalkInv, JobsInv, Removing
<1> QED  BY <1>2, <1>3 DEF WalkInv

LEMMA WalkRunJob == ASSUME Base, WalkInv, ~Removing, RunJob PROVE WalkInv'
<1>1. /\ result # "none" /\ steady' = steady
      /\ UNCHANGED <<req, loop, at, node, stack, jobs, result, start, skipped>>
  BY DEF Base, PlaceInv, RunJob, walking, others
<1>2. pc' \in {"done", "jobs"}
  BY DEF RunJob, CopyFile, AskFolder, MakeFolder, Ended
<1>3. SteadyInv' /\ ClashInv'  BY <1>1, <1>2 DEF SteadyInv, ClashInv
<1> QED  BY <1>1, <1>2, <1>3, WalkRests

LEMMA WalkOthersChange == ASSUME Base, WalkInv, ~Removing, OthersChange PROVE WalkInv'
<1>1. UNCHANGED <<req, loop, pc, at, node, stack, jobs, result, start, skipped>>
  BY DEF OthersChange, walking
<1>2. steady' \subseteq steady  BY DEF OthersChange
<1>3. CASE result # "none"
  <2>1. SteadyInv'  BY <1>1, <1>3 DEF SteadyInv
  <2>2. ClashInv'  BY <1>1, <1>3 DEF ClashInv, Base, PlaceInv
  <2> QED  BY <1>1, <1>2, <2>1, <2>2, WalkRests
<1>4. CASE result = "none"
  <2>1. FilesSound  BY <1>4 DEF Base, FilesInv
  <2>2. ASSUME NEW p \in DOMAIN files, NEW n \in Names,
               files[p] = "dir", Append(p, n) \notin DOMAIN files,
               files' = With(files, Append(p, n), Theirs), steady' = steady
        PROVE  SteadyInv' /\ ClashInv'
    <3> DEFINE a == Append(p, n)
    <3>1. /\ DOMAIN files' = DOMAIN files \cup {a} /\ files'[a] = Theirs
          /\ \A q \in DOMAIN files : files'[q] = files[q]
      BY <1>1, <2>1, <2>2, Added
    <3> HIDE DEF a
    <3>2. SteadyInv'  BY <1>1, <2>2, <3>1 DEF WalkInv, SteadyInv, Removing
    <3>3. ClashInv'  BY <1>1, <3>1 DEF WalkInv, ClashInv, Theirs
    <3> QED  BY <3>2, <3>3
  <2>3. ASSUME NEW p \in DOMAIN files, files[p] # "dir",
               files' = Without(files, p), steady' = steady \ {p}
        PROVE  SteadyInv' /\ ClashInv'
    <3>1. /\ DOMAIN files' = DOMAIN files \ {p}
          /\ \A q \in DOMAIN files \ {p} : files'[q] = files[q]
      BY <1>1, <2>1, <2>3, Taken
    <3>2. SteadyInv'  BY <1>1, <2>3, <3>1 DEF WalkInv, SteadyInv, Removing
    <3>3. ClashInv'  BY <1>1, <3>1 DEF WalkInv, ClashInv
    <3> QED  BY <3>2, <3>3
  <2>4. SteadyInv' /\ ClashInv'  BY <2>2, <2>3 DEF OthersChange
  <2> QED  BY <1>1, <1>2, <2>4, WalkRests
<1> QED  BY <1>3, <1>4

(* A removal has no jobs. *)
LEMMA NoWalk == ASSUME WalkInv, Removing, [Next]_vars, Base PROVE WalkInv'
<1>1. req' = req
  BY DEF Next, Walk, TooDeep, Inspect, Clash, ListFolder, NextRow, RowsDone, Delete, RunJob,
         LinkDrops, OthersChange, vars
<1>2. pc # "clash" /\ pc # "jobs" /\ jobs = << >>  BY DEF Base, PlaceInv, WalkInv, JobsInv
<1>3. jobs' = << >>
  BY <1>2 DEF Next, Walk, TooDeep, Inspect, Clash, ListFolder, NextRow, RowsDone, Delete,
              RunJob, LinkDrops, OthersChange, vars, Fails, Refused, walking
<1>4. pc' # "clash"
  <2>1. CASE Fails  BY <2>1 DEF Fails
  <2>2. ASSUME NEW above, Returns(above) PROVE pc' # "clash"  BY <2>2 DEF Returns
  <2> QED  BY <1>2, <2>1, <2>2 DEF Next, Walk, TooDeep, Inspect, Clash, ListFolder, NextRow,
              RowsDone, Delete, RunJob, LinkDrops, OthersChange, vars, Refused
<1>5. Len(<< >>) = 0  BY EmptySeq
<1>6. Removing'  BY <1>1 DEF Removing
<1>7. SteadyInv' /\ ClashInv' /\ CoverInv'  BY <1>4, <1>6 DEF SteadyInv, ClashInv, CoverInv
<1>8. JobsInv'  BY <1>3, <1>5, <1>6 DEF JobsInv
<1> QED  BY <1>7, <1>8 DEF WalkInv

LEMMA WalkStep == ASSUME Base, WalkInv, [Next]_vars PROVE WalkInv'
<1>1. CASE Removing  BY <1>1, NoWalk
<1>2. CASE ~Removing
  <2>1. ASSUME UNCHANGED <<req, loop, files, pc, at, node, stack, jobs, result, start, skipped,
                           steady>>
        PROVE  WalkInv'
    <3>1. SteadyInv' /\ ClashInv'  BY <2>1 DEF WalkInv, SteadyInv, ClashInv, Removing
    <3> QED  BY <2>1, <3>1, WalkRests
  <2>2. CASE TooDeep  BY <2>2, WalkFails DEF TooDeep
  <2>3. CASE Inspect  BY <1>2, <2>3, WalkInspect
  <2>4. CASE Clash  BY <1>2, <2>4, WalkClash
  <2>5. CASE ListFolder  BY <1>2, <2>5, WalkListFolder
  <2>6. CASE NextRow  BY <1>2, <2>6, WalkNextRow
  <2>7. CASE RowsDone  BY <1>2, <2>7, WalkRowsDone
  <2>8. CASE Delete  BY <1>2, <2>8 DEF Delete, Base, PlaceInv
  <2>9. CASE RunJob  BY <1>2, <2>9, WalkRunJob
  <2>10. CASE LinkDrops  BY <2>1, <2>10 DEF LinkDrops, walking
  <2>11. CASE OthersChange  BY <1>2, <2>11, WalkOthersChange
  <2>12. CASE UNCHANGED vars  BY <2>1, <2>12 DEF vars
  <2> QED  BY <2>2, <2>3, <2>4, <2>5, <2>6, <2>7, <2>8, <2>9, <2>10, <2>11, <2>12 DEF Next, Walk
<1> QED  BY <1>1, <1>2

(* queue.cpp, expand(): "half a tree is worse than none".  A walk that     *)
(* returns true has a job, or a reason to skip it, for everything that was *)
(* in the tree all the time, each folder before what is in it; one that    *)
(* returns false has none.                                                 *)
THEOREM WalkIsAlwaysWhole == Spec => []WalkIsWhole
<1>1. Init => WalkInv  BY WalkInit
<1>2. Base /\ WalkInv /\ [Next]_vars => WalkInv'  BY WalkStep
<1>3. ASSUME Base, WalkInv PROVE WalkIsWhole
  <2>1. DOMAIN jobs = 1..Len(jobs)  BY LenProperties DEF Base, TypeInv
  <2>2. result = "false" => jobs = << >>  BY <1>3 DEF WalkInv, JobsInv
  <2>3. ASSUME result = "true", ~Removing
        PROVE  \A p \in steady : IsPrefix(req.source, p) => Covered(p)
    <3>1. loop = << >> /\ stack = << >> /\ at = << >>
      BY <1>3, <2>3 DEF WalkInv, CoverInv, Base, TypeInv, PlaceInv
    <3>2. \A p : ~Pending(p)  BY <3>1, NothingOpen DEF Pending, Here
    <3> QED  BY <1>3, <2>3, <3>1, <3>2 DEF WalkInv, CoverInv
  <2>4. \A i \in DOMAIN jobs : jobs[i].source # req.source =>
           \E k \in 1..(i - 1) : jobs[k].directory /\ jobs[k].source = Front(jobs[i].source)
    BY <1>3, <2>1 DEF WalkInv, JobsInv
  <2> QED  BY <2>1, <2>2, <2>3, <2>4 DEF WalkIsWhole, Covered
<1> QED  BY <1>1, <1>2, <1>3, BaseAlways, PTL DEF Spec

----------------------------------------------------------------------------
(* Copies, while the others do nothing. *)

Quiet == ~Removing /\ changes = 0

InTree(p) == p \in DOMAIN start /\ IsPrefix(req.source, p)

StartInv ==
    /\ Rooted(start) /\ start = [p \in DOMAIN start |-> start[p]]
    /\ ~Removing => req.destDir \in DOMAIN start /\ start[req.destDir] = "dir"

QuietInv ==
    /\ changes \in Nat
    /\ Quiet => steady = DOMAIN start
    /\ Quiet /\ ran = 0 => files = start

RanInv ==
    /\ ran \in Nat
    /\ result # "true" => ran = 0
    /\ pc = "jobs" => result = "true" /\ ran < Len(jobs)
    /\ ~Removing /\ result = "true" /\ pc = "done" => ran = Len(jobs)

(* A job is for what is there, and does not replace what it should not. *)
Queued(j) ==
    /\ InTree(j.source)
    /\ j.directory <=> start[j.source] = "dir"
    /\ ~j.directory /\ req.overwrite = "NO" /\ ~misled => j.dest \notin DOMAIN start

(* All folders above a path of the tree have their jobs before it. *)
AboveFirst(queued, i) ==
    \A q \in DOMAIN start :
        InTree(q) /\ IsPrefix(q, queued[i].source) /\ q # queued[i].source =>
            \E k \in 1..(i - 1) : queued[k].source = q

JobsSound ==
    \A i \in 1..Len(jobs) :
        /\ jobs[i].dest = Dest(jobs[i].source)
        /\ AboveFirst(jobs, i)
        /\ (i = Len(jobs) /\ pc = "list") \/ Queued(jobs[i])

AtSound ==
    /\ pc = "list" => jobs # << >> /\ jobs[Len(jobs)].source = at /\ jobs[Len(jobs)].directory
    /\ pc = "clash" => Old(at) /\ req.overwrite = "NO"

SkipSound == \A p \in skipped : Old(p) /\ req.overwrite = "NO" /\ Dest(p) \in DOMAIN start

SourcesInv == Quiet /\ loop = << >> => JobsSound /\ AtSound /\ SkipSound

Sources(n) == {jobs[i].source : i \in 1..n}

Images(S) == {Image(p) : p \in {q \in S : Made(q)}}

(* The files f when the paths S of the tree have been copied. *)
After(f, S) ==
    /\ f = [q \in DOMAIN f |-> f[q]]
    /\ DOMAIN f = DOMAIN start \cup Images(S)
    /\ \A p \in S : Made(p) => f[Image(p)] = start[p]
    /\ \A q \in DOMAIN start \ Images(S) : f[q] = start[q]

CopiedInv ==
    Quiet /\ result = "true" /\ ~failed /\ ~misled /\ Apart => After(files, Sources(ran))

CopyInv == StartInv /\ QuietInv /\ RanInv /\ SourcesInv /\ CopiedInv

----------------------------------------------------------------------------
(* Where a path of the tree is copied to. *)

LEMMA PartPlaces ==
    ASSUME NEW p \in Paths, NEW m \in Nat \ {0}, NEW k \in Nat, k <= Len(p), m <= k + 1
    PROVE  /\ SubSeq(p, m, k) \in Paths /\ Len(SubSeq(p, m, k)) = k - m + 1
           /\ \A i \in 1..(k - m + 1) : SubSeq(p, m, k)[i] = p[m + i - 1]
<1>1. Len(p) \in Nat  BY LenProperties DEF Paths
<1>2. \A i \in m..k : p[i] \in Strings  BY <1>1, ElementOfSeq DEF Paths
<1>3. /\ SubSeq(p, m, k) \in Seq(Strings)
      /\ Len(SubSeq(p, m, k)) = (IF m <= k THEN k - m + 1 ELSE 0)
      /\ \A i \in 1..(k - m + 1) : SubSeq(p, m, k)[i] = p[m + i - 1]
  BY <1>2, SubSeqProperties
<1> QED  BY <1>3 DEF Paths

LEMMA ImagePlaces ==
    ASSUME TypeInv, NEW p \in Paths, IsPrefix(req.source, p)
    PROVE  /\ Dest(p) = Image(p) /\ Image(p) \in Paths
           /\ Len(req.source) \in Nat \ {0} /\ Len(req.destDir) \in Nat /\ Len(p) \in Nat
           /\ Len(req.source) <= Len(p)
           /\ Len(Image(p)) = Len(req.destDir) + Len(p) - Len(req.source) + 1
           /\ \A i \in 1..Len(req.destDir) : Image(p)[i] = req.destDir[i]
           /\ \A i \in (Len(req.destDir) + 1)..Len(Image(p)) :
                 Image(p)[i] = p[i - Len(req.destDir) + Len(req.source) - 1]
<1>1. req.source \in Paths \ {<< >>} /\ req.destDir \in Paths  BY DEF TypeInv
<1> DEFINE s == req.source
           d == req.destDir
<1>2. s \in Paths \ {<< >>} /\ d \in Paths /\ IsPrefix(s, p)  BY <1>1
<1>3. Dest(p) = d \o SubSeq(p, Len(s), Len(p))  BY DEF Dest
<1>4. Image(p) = d \o <<Last(s)>> \o SubSeq(p, Len(s) + 1, Len(p))  BY DEF Image
<1> DEFINE a == Dest(p)
<1> HIDE DEF s, d, a
<1>5. /\ a = d \o <<Last(s)>> \o SubSeq(p, Len(s) + 1, Len(p))
      /\ a \in Paths /\ Len(a) = Len(d) + Len(p) - Len(s) + 1
      /\ \A i \in 1..Len(d) : a[i] = d[i]
      /\ \A i \in (Len(d) + 1)..Len(a) : a[i] = p[i - Len(d) + Len(s) - 1]
  <2>0. s \in Paths \ {<< >>} /\ d \in Paths /\ IsPrefix(s, p) /\ p \in Paths
        /\ a = d \o SubSeq(p, Len(s), Len(p))
    BY <1>2, <1>3 DEF a
  <2> DEFINE m == Len(s)
             k == Len(p)
             n == Len(d)
  <2>1. m \in Nat \ {0} /\ k \in Nat /\ n \in Nat /\ m <= k
    BY <2>0, EmptySeq, LenProperties, PrefixLonger DEF Paths
  <2>2. p[m] = Last(s) /\ Last(s) \in Strings
    <3>1. s[m] = Last(s) /\ Last(s) \in Strings  BY <2>0, FrontPlaces DEF Paths
    <3>2. s[m] = p[m]  BY <2>0, <2>1, PrefixPlaces DEF Paths
    <3> QED  BY <3>1, <3>2
  <2> DEFINE t == SubSeq(p, m, k)
             u == SubSeq(p, m + 1, k)
             l == <<Last(s)>>
  <2>3. t \in Paths /\ Len(t) = k - m + 1 /\ \A i \in 1..(k - m + 1) : t[i] = p[m + i - 1]
    <3>1. p \in Paths /\ m \in Nat \ {0} /\ m <= k + 1 /\ k \in Nat /\ k <= Len(p)  BY <2>0, <2>1
    <3> HIDE DEF m, k
    <3> QED  BY <3>1, PartPlaces
  <2>4. u \in Paths /\ Len(u) = k - m /\ \A i \in 1..(k - m) : u[i] = p[m + i]
    <3> DEFINE h == m + 1
    <3>1. p \in Paths /\ h \in Nat \ {0} /\ h <= k + 1 /\ k \in Nat /\ k <= Len(p)  BY <2>0, <2>1
    <3> HIDE DEF h, k
    <3>2. /\ SubSeq(p, h, k) \in Paths /\ Len(SubSeq(p, h, k)) = k - h + 1
          /\ \A i \in 1..(k - h + 1) : SubSeq(p, h, k)[i] = p[h + i - 1]
      BY <3>1, PartPlaces
    <3>3. k - h + 1 = k - m /\ \A i \in 1..(k - m) : h + i - 1 = m + i  BY <2>1 DEF h
    <3> QED  BY <3>2, <3>3 DEF h
  <2>5. l \in Paths /\ Len(l) = 1 /\ l[1] = Last(s)  BY <2>2 DEF Paths
  <2> HIDE DEF m, k, n, t, u, l
  <2>6. a = d \o t  BY <2>0 DEF t, m, k
  <2>7. /\ a \in Paths /\ Len(a) = n + (k - m + 1)
        /\ \A i \in 1..Len(a) : a[i] = IF i <= n THEN d[i] ELSE t[i - n]
    <3>1. d \in Seq(Strings) /\ t \in Seq(Strings)  BY <2>0, <2>3 DEF Paths
    <3>2. /\ a \in Seq(Strings) /\ Len(a) = Len(d) + Len(t)
          /\ \A i \in 1..(Len(d) + Len(t)) : a[i] = IF i <= Len(d) THEN d[i] ELSE t[i - Len(d)]
      BY <2>6, <3>1, ConcatProperties
    <3> QED  BY <2>3, <3>2 DEF Paths, n
  <2>8. \A i \in 1..Len(a) : a[i] = IF i <= n THEN d[i] ELSE t[i - n]  BY <2>7
  <2>9. Len(a) \in Nat /\ Len(a) = n + k - m + 1 /\ n + 1 <= Len(a)  BY <2>1, <2>7
  <2>10. \A i \in 1..n : a[i] = d[i]  BY <2>1, <2>8, <2>9
  <2>11. \A i \in (n + 1)..Len(a) : a[i] = p[i - n + m - 1]
    <3> SUFFICES ASSUME NEW i \in (n + 1)..Len(a) PROVE a[i] = p[i - n + m - 1]
      OBVIOUS
    <3>1. i \in 1..Len(a) /\ ~(i <= n)  BY <2>1, <2>9
    <3>2. a[i] = t[i - n]  BY <2>8, <3>1
    <3>3. i - n \in 1..(k - m + 1)  BY <2>1, <2>9
    <3>4. m + (i - n) - 1 = i - n + m - 1  BY <2>1, <2>9
    <3> QED  BY <2>3, <3>2, <3>3, <3>4
  <2> DEFINE c == d \o l
  <2>12. /\ c \in Seq(Strings) /\ Len(c) = Len(d) + Len(l)
         /\ \A i \in 1..(Len(d) + Len(l)) : c[i] = IF i <= Len(d) THEN d[i] ELSE l[i - Len(d)]
    <3>1. d \in Seq(Strings) /\ l \in Seq(Strings)  BY <2>0, <2>5 DEF Paths
    <3> QED  BY <3>1, ConcatProperties
  <2> DEFINE b == c \o u
  <2> HIDE DEF c
  <2>13. c \in Paths /\ Len(c) = n + 1  BY <2>5, <2>12 DEF Paths, n
  <2>14. /\ \A i \in 1..n : c[i] = d[i]
         /\ c[n + 1] = Last(s)
    <3>1. \A i \in 1..(n + 1) : c[i] = IF i <= n THEN d[i] ELSE l[i - n]
      BY <2>5, <2>12 DEF n
    <3>2. n + 1 \in 1..(n + 1) /\ ~(n + 1 <= n) /\ (n + 1) - n = 1  BY <2>1
    <3>3. c[n + 1] = l[1]
      <4>1. c[n + 1] = l[(n + 1) - n]  BY <3>1, <3>2
      <4> QED  BY <3>2, <4>1
    <3>4. \A i \in 1..n : i \in 1..(n + 1) /\ i <= n  BY <2>1
    <3> QED  BY <2>5, <3>1, <3>3, <3>4
  <2>15. /\ b \in Paths /\ Len(b) = Len(c) + Len(u)
         /\ \A i \in 1..(Len(c) + Len(u)) : b[i] = IF i <= Len(c) THEN c[i] ELSE u[i - Len(c)]
    <3>1. c \in Seq(Strings) /\ u \in Seq(Strings)  BY <2>4, <2>13 DEF Paths
    <3> QED  BY <3>1, ConcatProperties DEF Paths
  <2> HIDE DEF b
  <2>16. Len(b) = Len(a)  BY <2>1, <2>4, <2>9, <2>13, <2>15
  <2>17. \A i \in 1..Len(a) : b[i] = IF i <= n + 1 THEN c[i] ELSE u[i - (n + 1)]
    BY <2>13, <2>15, <2>16
  <2>18. a = b
    <3>1. ASSUME NEW i \in 1..Len(a) PROVE a[i] = b[i]
      <4>1. CASE i <= n
        <5>1. i \in 1..n /\ i <= n + 1  BY <2>1, <2>9, <4>1
        <5> QED  BY <2>10, <2>14, <2>17, <5>1
      <4>2. CASE i = n + 1
        <5>1. i \in (n + 1)..Len(a) /\ i <= n + 1 /\ i - n + m - 1 = m  BY <2>1, <2>9, <4>2
        <5>2. a[i] = p[m]  BY <2>11, <5>1
        <5>3. b[i] = c[n + 1]  BY <2>17, <4>2, <5>1
        <5> QED  BY <2>2, <2>14, <5>2, <5>3
      <4>3. CASE i > n + 1
        <5>1. /\ i \in (n + 1)..Len(a) /\ ~(i <= n + 1)
              /\ i - (n + 1) \in 1..(k - m) /\ m + (i - (n + 1)) = i - n + m - 1
          BY <2>1, <2>9, <4>3
        <5>2. a[i] = p[i - n + m - 1]  BY <2>11, <5>1
        <5>3. b[i] = u[i - (n + 1)]  BY <2>17, <5>1
        <5>4. u[i - (n + 1)] = p[m + (i - (n + 1))]  BY <2>4, <5>1
        <5> QED  BY <5>1, <5>2, <5>3, <5>4
      <4> QED  BY <2>1, <2>9, <4>1, <4>2, <4>3
    <3> QED  BY <2>7, <2>15, <2>16, <3>1, SeqEqual DEF Paths
  <2> QED  BY <2>7, <2>9, <2>10, <2>11, <2>18 DEF b, c, l, u, m, k, n
<1>6. Len(s) \in Nat \ {0} /\ Len(d) \in Nat /\ Len(p) \in Nat /\ Len(s) <= Len(p)
  BY <1>2, EmptySeq, LenProperties, PrefixLonger DEF Paths
<1>7. a = Image(p)  BY <1>4, <1>5
<1> QED  BY <1>5, <1>6, <1>7 DEF s, d, a

(* Different paths of the tree are copied to different places. *)
LEMMA ImageInjective ==
    ASSUME TypeInv, NEW p \in Paths, NEW q \in Paths,
           IsPrefix(req.source, p), IsPrefix(req.source, q), Image(p) = Image(q)
    PROVE  p = q
<1> DEFINE s == req.source
           d == req.destDir
           m == Len(s)
           n == Len(d)
<1>1. m \in Nat \ {0} /\ n \in Nat /\ Len(p) \in Nat /\ Len(q) \in Nat /\ m <= Len(p) /\ m <= Len(q)
      /\ s \in Paths
  BY ImagePlaces DEF TypeInv
<1>2. /\ Len(Image(p)) = n + Len(p) - m + 1
      /\ \A i \in (n + 1)..Len(Image(p)) : Image(p)[i] = p[i - n + m - 1]
  BY ImagePlaces
<1>3. /\ Len(Image(q)) = n + Len(q) - m + 1
      /\ \A i \in (n + 1)..Len(Image(q)) : Image(q)[i] = q[i - n + m - 1]
  BY ImagePlaces
<1>4. /\ \A i \in 1..m : s[i] = p[i]
      /\ \A i \in 1..m : s[i] = q[i]
  BY <1>1, PrefixPlaces DEF Paths
<1> HIDE DEF s, d, m, n
<1>5. Len(p) = Len(q)  BY <1>1, <1>2, <1>3
<1>6. ASSUME NEW i \in 1..Len(p) PROVE p[i] = q[i]
  <2>1. CASE i <= m  BY <1>1, <1>4, <2>1
  <2>2. CASE i > m
    <3> DEFINE j == i + n - m + 1
    <3>1. j \in (n + 1)..Len(Image(p)) /\ j - n + m - 1 = i  BY <1>1, <1>2, <2>2
    <3> HIDE DEF j
    <3>2. Image(p)[j] = p[j - n + m - 1] /\ Image(q)[j] = q[j - n + m - 1]
      BY <1>2, <1>3, <3>1
    <3> QED  BY <3>1, <3>2
  <2> QED  BY <1>1, <2>1, <2>2
<1> QED  BY <1>5, <1>6, SeqEqual DEF Paths


LEMMA AbovePrefix ==
    ASSUME NEW b \in Paths
    PROVE  Above(b) = {q \in Paths : IsPrefix(q, b) /\ q # b /\ Len(q) >= 2}
<1>1. Len(b) \in Nat  BY LenProperties DEF Paths
<1>2. ASSUME NEW n \in 2..(Len(b) - 1)
      PROVE  /\ SubSeq(b, 1, n) \in Paths /\ IsPrefix(SubSeq(b, 1, n), b)
             /\ SubSeq(b, 1, n) # b /\ Len(SubSeq(b, 1, n)) >= 2
  <2> DEFINE q == SubSeq(b, 1, n)
  <2>1. n \in Nat /\ 1 \in Nat \ {0} /\ n <= Len(b) /\ 1 <= n + 1 /\ n - 1 + 1 = n
        /\ n # Len(b) /\ n >= 2
    BY <1>1
  <2>2. /\ q \in Paths /\ Len(q) = n - 1 + 1
        /\ \A i \in 1..(n - 1 + 1) : q[i] = b[1 + i - 1]
    BY <2>1, PartPlaces
  <2> HIDE DEF q
  <2>3. Len(q) = n /\ \A i \in 1..n : q[i] = b[i]
    <3>1. ASSUME NEW i \in 1..n PROVE q[i] = b[i]
      <4>1. i \in 1..(n - 1 + 1) /\ 1 + i - 1 = i  BY <2>1
      <4> QED  BY <2>2, <4>1
    <3> QED  BY <2>1, <2>2, <3>1
  <2>4. IsPrefix(q, b)  BY <2>1, <2>2, <2>3, PrefixPlaces DEF Paths
  <2>5. q # b  BY <2>1, <2>3
  <2> QED  BY <2>1, <2>2, <2>3, <2>4, <2>5 DEF q
<1>3. ASSUME NEW q \in Paths, IsPrefix(q, b), q # b, Len(q) >= 2
      PROVE  q \in Above(b)
  <2>1. Len(q) \in 2..(Len(b) - 1)  BY <1>1, <1>3, PrefixLonger
  <2>2. SubSeq(q, 1, Len(q)) = q  BY SubSeqFull DEF Paths
  <2>3. SubSeq(b, 1, Len(q)) = q  BY <1>3, <2>2 DEF IsPrefix
  <2> QED  BY <2>1, <2>3 DEF Above
<1>4. ASSUME NEW q \in Above(b)
      PROVE  q \in Paths /\ IsPrefix(q, b) /\ q # b /\ Len(q) >= 2
  <2>1. PICK n \in 2..(Len(b) - 1) : q = SubSeq(b, 1, n)  BY DEF Above
  <2> QED  BY <1>2, <2>1
<1> QED  BY <1>3, <1>4

(* What lies in a folder is copied into its copy. *)
LEMMA ImageOfPrefix ==
    ASSUME TypeInv, NEW r \in Paths, NEW p \in Paths, IsPrefix(req.source, r), IsPrefix(r, p)
    PROVE  /\ IsPrefix(req.source, p) /\ IsPrefix(Image(r), Image(p))
           /\ Image(r) \in Paths /\ Image(p) \in Paths
           /\ r # p => Image(r) # Image(p)
<1> DEFINE s == req.source
           d == req.destDir
           m == Len(s)
           n == Len(d)
           a == Image(r)
           b == Image(p)
<1>1. req.source \in Paths  BY DEF TypeInv
<1>2. IsPrefix(req.source, p)  BY <1>1, PrefixOfPrefix
<1>3. /\ m \in Nat \ {0} /\ n \in Nat /\ Len(r) \in Nat /\ m <= Len(r)
      /\ a \in Paths /\ Len(a) = n + Len(r) - m + 1
      /\ \A i \in 1..n : a[i] = d[i]
      /\ \A i \in (n + 1)..Len(a) : a[i] = r[i - n + m - 1]
  BY ImagePlaces
<1>4. /\ Len(p) \in Nat
      /\ b \in Paths /\ Len(b) = n + Len(p) - m + 1
      /\ \A i \in 1..n : b[i] = d[i]
      /\ \A i \in (n + 1)..Len(b) : b[i] = p[i - n + m - 1]
  BY <1>2, ImagePlaces
<1>5. Len(r) <= Len(p) /\ \A i \in 1..Len(r) : r[i] = p[i]  BY PrefixPlaces DEF Paths
<1>6. r # p => a # b  BY <1>2, ImageInjective
<1> HIDE DEF s, d, m, n, a, b
<1>7. ASSUME NEW i \in 1..Len(a) PROVE a[i] = b[i]
  <2>1. CASE i <= n  BY <1>3, <1>4, <2>1
  <2>2. CASE i > n
    <3>1. i \in (n + 1)..Len(a) /\ i \in (n + 1)..Len(b) /\ i - n + m - 1 \in 1..Len(r)
      BY <1>3, <1>4, <1>5, <2>2
    <3> QED  BY <1>3, <1>4, <1>5, <3>1
  <2> QED  BY <1>3, <2>1, <2>2
<1>8. Len(a) <= Len(b)  BY <1>3, <1>4, <1>5
<1>9. IsPrefix(a, b)  BY <1>3, <1>4, <1>7, <1>8, PrefixPlaces DEF Paths
<1> QED  BY <1>2, <1>3, <1>4, <1>6, <1>9 DEF a, b

(* What is above a copy is above the destination, or is a copy of what is  *)
(* above the original.                                                     *)
LEMMA ImageAbove ==
    ASSUME TypeInv, NEW p \in Paths, IsPrefix(req.source, p),
           NEW q \in Paths, IsPrefix(q, Image(p)), q # Image(p)
    PROVE  \/ IsPrefix(q, req.destDir)
           \/ \E r \in Paths : /\ IsPrefix(req.source, r) /\ IsPrefix(r, p) /\ r # p
                               /\ q = Image(r)
<1> DEFINE s == req.source
           d == req.destDir
           m == Len(s)
           n == Len(d)
           b == Image(p)
           l == Len(q)
<1>1. /\ m \in Nat \ {0} /\ n \in Nat /\ Len(p) \in Nat /\ m <= Len(p)
      /\ b \in Paths /\ Len(b) = n + Len(p) - m + 1
      /\ \A i \in 1..n : b[i] = d[i]
      /\ \A i \in (n + 1)..Len(b) : b[i] = p[i - n + m - 1]
      /\ s \in Paths /\ d \in Paths
  BY ImagePlaces DEF TypeInv
<1>2. l \in Nat /\ l <= Len(b) /\ l # Len(b)  BY <1>1, PrefixLonger
<1>3. \A i \in 1..l : q[i] = b[i]  BY <1>1, PrefixPlaces DEF Paths
<1>4. CASE l <= n
  <2>1. \A i \in 1..l : q[i] = d[i]  BY <1>1, <1>2, <1>3, <1>4
  <2> QED  BY <1>1, <1>4, <2>1, PrefixPlaces DEF Paths
<1>5. CASE l > n
  <2> DEFINE k == l - n + m - 1
             r == SubSeq(p, 1, k)
  <2>1. k \in Nat /\ m <= k /\ k < Len(p) /\ k - 1 + 1 = k /\ l = n + k - m + 1
        /\ 1 \in Nat \ {0} /\ k <= Len(p) /\ 1 <= k + 1
    <3> DEFINE h == Len(p)
               g == Len(b)
    <3>0. h \in Nat /\ g = n + h - m + 1 /\ l <= g /\ l # g  BY <1>1, <1>2
    <3> HIDE DEF s, d, m, n, b, l, h, g
    <3>1. /\ m \in Nat \ {0} /\ n \in Nat /\ h \in Nat /\ l \in Nat
          /\ l < n + h - m + 1 /\ l > n
      BY <1>1, <1>2, <1>5, <3>0
    <3>2. k \in Int /\ m <= k /\ k < h /\ k - 1 + 1 = k /\ l = n + k - m + 1
      BY <3>1
    <3> HIDE DEF k
    <3> QED  BY <3>1, <3>2 DEF h
  <2> HIDE DEF k
  <2>2. /\ r \in Paths /\ Len(r) = k - 1 + 1
        /\ \A i \in 1..(k - 1 + 1) : r[i] = p[1 + i - 1]
    BY <2>1, PartPlaces
  <2> HIDE DEF r
  <2>3. Len(r) = k /\ \A i \in 1..k : r[i] = p[i]
    <3>1. ASSUME NEW i \in 1..k PROVE r[i] = p[i]
      <4>1. i \in 1..(k - 1 + 1) /\ 1 + i - 1 = i  BY <2>1
      <4> QED  BY <2>2, <4>1
    <3> QED  BY <2>1, <2>2, <3>1
  <2>4. IsPrefix(r, p)  BY <2>1, <2>2, <2>3, PrefixPlaces DEF Paths
  <2>5. r # p  BY <2>1, <2>3
  <2>6. IsPrefix(s, r)
    <3>1. \A i \in 1..m : s[i] = p[i]  BY <1>1, PrefixPlaces DEF Paths
    <3>2. \A i \in 1..m : s[i] = r[i]  BY <1>1, <2>1, <2>3, <3>1
    <3>3. m <= Len(r)  BY <2>1, <2>3
    <3> QED  BY <1>1, <2>2, <3>2, <3>3, PrefixPlaces DEF Paths
  <2> DEFINE a == Image(r)
  <2>7. /\ a \in Paths /\ Len(a) = n + Len(r) - m + 1
        /\ \A i \in 1..n : a[i] = d[i]
        /\ \A i \in (n + 1)..Len(a) : a[i] = r[i - n + m - 1]
    BY <2>2, <2>6, ImagePlaces
  <2>8. q = a
    <3> HIDE DEF a, l, b, m, n, s, d
    <3>1. Len(a) = l  BY <2>1, <2>3, <2>7
    <3>2. ASSUME NEW i \in 1..l PROVE q[i] = a[i]
      <4>1. q[i] = b[i]  BY <1>3
      <4>2. CASE i <= n  BY <1>1, <1>2, <2>7, <4>1, <4>2
      <4>3. CASE i > n
        <5>1. i \in (n + 1)..Len(a) /\ i \in (n + 1)..Len(b) /\ i - n + m - 1 \in 1..k
          BY <1>1, <1>2, <2>1, <3>1, <4>3
        <5>2. a[i] = r[i - n + m - 1]  BY <2>7, <5>1
        <5>3. b[i] = p[i - n + m - 1]  BY <1>1, <5>1
        <5> QED  BY <2>3, <4>1, <5>1, <5>2, <5>3
      <4> QED  BY <1>1, <1>2, <4>2, <4>3
    <3>3. Len(q) = l  BY DEF l
    <3> QED  BY <2>7, <3>1, <3>2, <3>3, SeqEqual DEF Paths
  <2> QED  BY <2>2, <2>4, <2>5, <2>6, <2>8
<1> QED  BY <1>1, <1>2, <1>4, <1>5

----------------------------------------------------------------------------
(* The destination, when a part of the tree has been copied. *)

LEMMA InTreeIsPath ==
    ASSUME StartInv, TypeInv, NEW p, InTree(p)
    PROVE  /\ p \in Paths \ {<< >>} /\ IsPrefix(req.source, p) /\ p \in DOMAIN start
           /\ Image(p) \in Paths \ {<< >>}
           /\ \A q \in Paths : IsPrefix(q, req.destDir) => Image(p) # q
           /\ ~Removing => Len(Image(p)) >= 2
<1>1. p \in Paths \ {<< >>} /\ IsPrefix(req.source, p) /\ p \in DOMAIN start
  BY DEF StartInv, Rooted, InTree
<1>2. /\ Image(p) \in Paths
      /\ Len(req.source) \in Nat \ {0} /\ Len(req.destDir) \in Nat /\ Len(p) \in Nat
      /\ Len(req.source) <= Len(p)
      /\ Len(Image(p)) = Len(req.destDir) + Len(p) - Len(req.source) + 1
  BY <1>1, ImagePlaces
<1>3. Len(Image(p)) \in Nat /\ Len(Image(p)) >= 1 /\ Len(Image(p)) > Len(req.destDir)
  <2> DEFINE l == Len(Image(p))
             d == Len(req.destDir)
             s == Len(req.source)
             k == Len(p)
  <2>1. s \in Nat \ {0} /\ d \in Nat /\ k \in Nat /\ s <= k /\ l = d + k - s + 1  BY <1>2
  <2> HIDE DEF l, d, s, k
  <2>2. l \in Nat /\ l >= 1 /\ l > d  BY <2>1
  <2> QED  BY <2>2 DEF l, d
<1>4. Image(p) # << >>  BY <1>3, EmptySeq
<1>5. ASSUME NEW q \in Paths, IsPrefix(q, req.destDir) PROVE Image(p) # q
  BY <1>2, <1>3, <1>5, PrefixLonger DEF TypeInv
<1>6. ASSUME ~Removing PROVE Len(Image(p)) >= 2
  <2>1. req.destDir \in Paths \ {<< >>}  BY <1>6 DEF StartInv, Rooted
  <2>2. Len(req.destDir) # 0  BY <2>1, EmptySeq DEF Paths
  <2> QED  BY <1>2, <1>3, <2>2
<1> QED  BY <1>1, <1>2, <1>4, <1>5, <1>6

(* What is above a copy. *)
LEMMA WayToImage ==
    ASSUME StartInv, TypeInv, ~Removing, NEW p, InTree(p),
           NEW q \in Paths \ {<< >>}, IsPrefix(q, Image(p)), q # Image(p)
    PROVE  \/ IsPrefix(q, req.destDir) /\ q \in DOMAIN start /\ start[q] = "dir"
           \/ \E r \in DOMAIN start : /\ InTree(r) /\ IsPrefix(r, p) /\ r # p
                                      /\ start[r] = "dir" /\ q = Image(r)
<1>1. p \in Paths /\ IsPrefix(req.source, p) /\ p \in DOMAIN start  BY InTreeIsPath
<1>2. CASE IsPrefix(q, req.destDir)
  BY <1>2 DEF StartInv, Rooted
<1>3. ASSUME NEW r \in Paths, IsPrefix(req.source, r), IsPrefix(r, p), r # p, q = Image(r)
      PROVE  r \in DOMAIN start /\ InTree(r) /\ start[r] = "dir"
  <2>1. r # << >>  BY <1>3, PrefixLonger DEF TypeInv
  <2>2. r \in DOMAIN start /\ start[r] = "dir"  BY <1>1, <1>3, <2>1 DEF StartInv, Rooted
  <2> QED  BY <1>3, <2>2 DEF InTree
<1>4. \/ IsPrefix(q, req.destDir)
      \/ \E r \in Paths : /\ IsPrefix(req.source, r) /\ IsPrefix(r, p) /\ r # p
                          /\ q = Image(r)
  BY <1>1, ImageAbove
<1> QED  BY <1>2, <1>3, <1>4

(* A folder is made when those above it are. *)
LEMMA MadeFromAbove ==
    ASSUME StartInv, TypeInv, ~Removing, NEW p, InTree(p), start[p] = "dir",
           NEW r, InTree(r), IsPrefix(r, p), r # p, start[r] = "dir", Made(p)
    PROVE  Made(r)
<1>1. p \in Paths /\ r \in Paths /\ IsPrefix(req.source, r)  BY InTreeIsPath
<1>2. /\ IsPrefix(Image(r), Image(p)) /\ Image(r) # Image(p)
      /\ Image(r) \in Paths /\ Image(p) \in Paths
  BY <1>1, ImageOfPrefix
<1>3. Len(Image(r)) >= 2  BY InTreeIsPath
<1>4. \A q \in Above(Image(p)) \cup {Image(p)} : ~Old(q)  BY DEF Made
<1>5. Image(r) \in Above(Image(p))  BY <1>2, <1>3, AbovePrefix
<1>6. ASSUME NEW q \in Above(Image(r)) PROVE q \in Above(Image(p))
  <2>1. q \in Paths /\ IsPrefix(q, Image(r)) /\ q # Image(r) /\ Len(q) >= 2
    BY <1>2, AbovePrefix
  <2>2. IsPrefix(q, Image(p))  BY <1>2, <2>1, PrefixOfPrefix
  <2>3. q # Image(p)  BY <1>2, <2>1, PrefixLonger
  <2> QED  BY <1>2, <2>1, <2>2, <2>3, AbovePrefix
<1> QED  BY <1>4, <1>5, <1>6 DEF Made

Part(S) == \A p \in S : InTree(p)

(* What is at the place of a path whose turn has not come, or that is not  *)
(* made, has always been there.                                            *)
LEMMA NotYet ==
    ASSUME StartInv, TypeInv, NEW S, Part(S), NEW p, InTree(p), ~(p \in S /\ Made(p))
    PROVE  Image(p) \notin Images(S)
<1> SUFFICES ASSUME NEW r \in S, Made(r), Image(p) = Image(r) PROVE FALSE
  BY DEF Images
<1>1. InTree(r)  BY DEF Part
<1>2. /\ p \in Paths /\ IsPrefix(req.source, p)
      /\ r \in Paths /\ IsPrefix(req.source, r)
  BY <1>1, InTreeIsPath
<1>3. p = r  BY <1>2, ImageInjective
<1> QED  BY <1>3

LEMMA FolderIsMade ==
    ASSUME StartInv, TypeInv, ~Removing, NEW S, Part(S), NEW f, After(f, S),
           NEW p, InTree(p), start[p] = "dir", Image(p) \in DOMAIN f, f[Image(p)] = "dir"
    PROVE  Made(p)
<1> SUFFICES ASSUME ~Made(p) PROVE FALSE
  OBVIOUS
<1>1. Image(p) \notin Images(S)  BY NotYet
<1>2. Image(p) \in DOMAIN start /\ start[Image(p)] = "dir"  BY <1>1 DEF After
<1>3. PICK q \in Above(Image(p)) \cup {Image(p)} : Old(q)  BY DEF Made
<1>4. q # Image(p)  BY <1>2, <1>3 DEF Old
<1>5. Image(p) \in Paths  BY InTreeIsPath
<1>6. q \in Paths /\ IsPrefix(q, Image(p)) /\ Len(q) >= 2  BY <1>3, <1>4, <1>5, AbovePrefix
<1>7. q # << >>  BY <1>6, EmptySeq
<1>8. start[q] = "dir"  BY <1>2, <1>4, <1>6, <1>7 DEF StartInv, Rooted
<1> QED  BY <1>3, <1>8 DEF Old

(* The folders above what is copied. *)
LEMMA WayIsThere ==
    ASSUME StartInv, TypeInv, ~Removing, NEW S, Part(S), After(files, S),
           NEW p, InTree(p), Passable(Image(p)),
           \A r \in DOMAIN start : InTree(r) /\ IsPrefix(r, p) /\ r # p => r \in S
    PROVE  /\ \A q \in Above(Image(p)) : ~Old(q)
           /\ MadeUpTo(Image(p)) = files
<1>1. Image(p) \in Paths  BY InTreeIsPath
<1>2. ASSUME NEW q \in Above(Image(p))
      PROVE  /\ ~Old(q)
             /\ q \in DOMAIN start \/ \E r \in S : InTree(r) /\ start[r] = "dir" /\ q = Image(r)
  <2>1. q \in Paths /\ IsPrefix(q, Image(p)) /\ q # Image(p) /\ Len(q) >= 2
    BY <1>1, AbovePrefix
  <2>2. q # << >>  BY <2>1, EmptySeq
  <2>3. CASE IsPrefix(q, req.destDir) /\ q \in DOMAIN start /\ start[q] = "dir"
    BY <2>3 DEF Old
  <2>4. ASSUME NEW r \in DOMAIN start, InTree(r), IsPrefix(r, p), r # p, start[r] = "dir",
               q = Image(r)
        PROVE  ~Old(q) /\ r \in S
    <3>1. r \in S  BY <2>4
    <3>2. ASSUME Old(q) PROVE FALSE
      <4>1. q \in DOMAIN start  BY <3>2 DEF Old
      <4>2. q \in DOMAIN files  BY <4>1 DEF After
      <4>3. files[q] = "dir"  BY <4>2 DEF Passable
      <4>4. Made(r)  BY <2>4, <4>2, <4>3, FolderIsMade
      <4>5. ~Old(Image(r))  BY <2>4, <4>4 DEF Made
      <4> QED  BY <2>4, <3>2, <4>5
    <3> QED  BY <3>1, <3>2
  <2> QED  BY <2>1, <2>2, <2>3, <2>4, WayToImage
<1>3. ASSUME NEW q \in Above(Image(p)) PROVE q \in DOMAIN files
  <2>1. CASE q \in DOMAIN start  BY <2>1 DEF After
  <2>2. ASSUME NEW r \in S, InTree(r), start[r] = "dir", q = Image(r)
        PROVE  q \in DOMAIN files
    <3>1. Made(r)
      <4>1. IsPrefix(q, Image(p)) /\ q # Image(p) /\ q \in Paths  BY <1>1, AbovePrefix
      <4>2. ASSUME NEW t \in Above(Image(r)) PROVE t \in Above(Image(p))
        <5>1. t \in Paths /\ IsPrefix(t, q) /\ t # q /\ Len(t) >= 2
          BY <2>2, <4>1, AbovePrefix
        <5>2. IsPrefix(t, Image(p))  BY <1>1, <4>1, <5>1, PrefixOfPrefix
        <5>3. t # Image(p)  BY <1>1, <4>1, <5>1, PrefixLonger
        <5> QED  BY <1>1, <5>1, <5>2, <5>3, AbovePrefix
      <4> QED  BY <1>2, <2>2, <4>2 DEF Made
    <3>2. Image(r) \in Images(S)  BY <3>1 DEF Images
    <3> QED  BY <2>2, <3>2 DEF After
  <2> QED  BY <1>2, <2>1, <2>2
<1>4. DOMAIN files \cup Above(Image(p)) = DOMAIN files  BY <1>3
<1>5. MadeUpTo(Image(p)) = [q \in DOMAIN files |-> files[q]]  BY <1>4 DEF MadeUpTo
<1>6. files = [q \in DOMAIN files |-> files[q]]  BY DEF After
<1> QED  BY <1>2, <1>5, <1>6

(* The next path of the tree is done. *)
LEMMA NothingToDo ==
    ASSUME StartInv, TypeInv, NEW S, Part(S), NEW f, After(f, S), NEW p, InTree(p),
           Made(p) => Image(p) \in DOMAIN f /\ f[Image(p)] = start[p]
    PROVE  After(f, S \cup {p})
<1>1. CASE ~Made(p)
  <2>1. Images(S \cup {p}) = Images(S)  BY <1>1 DEF Images
  <2> QED  BY <1>1, <2>1 DEF After
<1>2. CASE Made(p)
  <2>1. Images(S \cup {p}) = Images(S) \cup {Image(p)}  BY <1>2 DEF Images
  <2>2. Image(p) \in DOMAIN start \cup Images(S)  BY <1>2 DEF After
  <2> QED  BY <1>2, <2>1, <2>2 DEF After
<1> QED  BY <1>1, <1>2

LEMMA ImageWritten ==
    ASSUME StartInv, TypeInv, NEW S, Part(S), NEW f, After(f, S), NEW p, InTree(p), Made(p)
    PROVE  After(With(f, Image(p), start[p]), S \cup {p})
<1> DEFINE a == Image(p)
           g == With(f, a, start[p])
<1>1. /\ DOMAIN g = DOMAIN f \cup {a} /\ g[a] = start[p]
      /\ \A q \in DOMAIN f \ {a} : g[q] = f[q]
      /\ g = [q \in DOMAIN f \cup {a} |-> IF q = a THEN start[p] ELSE f[q]]
  BY DEF With
<1>2. Images(S \cup {p}) = Images(S) \cup {a}  BY DEF Images
<1>3. ASSUME NEW r \in S, Made(r), r # p PROVE Image(r) # a
  <2>1. InTree(r)  BY DEF Part
  <2>2. /\ p \in Paths /\ IsPrefix(req.source, p)
        /\ r \in Paths /\ IsPrefix(req.source, r)
    BY <2>1, InTreeIsPath
  <2> QED  BY <1>3, <2>2, ImageInjective
<1> HIDE DEF a, g
<1>4. g = [q \in DOMAIN g |-> g[q]]  BY <1>1
<1>5. DOMAIN g = DOMAIN start \cup Images(S \cup {p})  BY <1>1, <1>2 DEF After
<1>6. ASSUME NEW r \in S \cup {p}, Made(r) PROVE g[Image(r)] = start[r]
  <2>1. CASE r = p  BY <1>1, <2>1 DEF a
  <2>2. CASE r # p
    <3>1. r \in S /\ Image(r) # a  BY <1>3, <1>6, <2>2
    <3>2. Image(r) \in Images(S)  BY <1>6, <3>1 DEF Images
    <3>3. Image(r) \in DOMAIN f /\ f[Image(r)] = start[r]  BY <1>6, <3>1, <3>2 DEF After
    <3> QED  BY <1>1, <3>1, <3>3
  <2> QED  BY <2>1, <2>2
<1>7. ASSUME NEW q \in DOMAIN start \ Images(S \cup {p}) PROVE g[q] = start[q]
  BY <1>1, <1>2 DEF After
<1>8. After(g, S \cup {p})  BY <1>4, <1>5, <1>6, <1>7 DEF After
<1> QED  BY <1>8 DEF g, a

----------------------------------------------------------------------------
(* The walk of a copy. *)

LEMMA CopyInit == ASSUME Init PROVE CopyInv
<1>1. PICK c \in Cases : req = c.req /\ loop = c.loop /\ files = c.files  BY DEF Init
<1>2. /\ start = files /\ steady = DOMAIN files /\ changes = 0 /\ ran = 0 /\ result = "none"
      /\ pc = "inspect" /\ jobs = << >> /\ skipped = {}
  BY DEF Init
<1>3. Rooted(files)  BY <1>1, CasesAssumption, TreeIsRooted
<1>4. /\ files \in [DOMAIN files -> STRING]
      /\ ~Removing => req.destDir \in DOMAIN files /\ files[req.destDir] = "dir"
  BY <1>1, DestinationAssumption DEF Removing
<1>5. StartInv
  <2>1. files = [p \in DOMAIN files |-> files[p]]  BY <1>4
  <2> QED  BY <1>2, <1>3, <1>4, <2>1 DEF StartInv
<1>6. QuietInv /\ RanInv /\ CopiedInv  BY <1>2 DEF QuietInv, RanInv, CopiedInv
<1>7. SourcesInv
  <2>1. Len(<< >>) = 0  BY EmptySeq
  <2> QED  BY <1>2, <2>1 DEF SourcesInv, JobsSound, AtSound, SkipSound
<1> QED  BY <1>5, <1>6, <1>7 DEF CopyInv

LEMMA RequestStays == ASSUME [Next]_vars PROVE UNCHANGED <<req, loop, start>>
  BY DEF Next, Walk, TooDeep, Inspect, Clash, ListFolder, NextRow, RowsDone, Delete, RunJob,
         LinkDrops, OthersChange, vars, world, others

LEMMA StartStep == ASSUME StartInv, [Next]_vars PROVE StartInv'
  BY RequestStays DEF StartInv, Removing

(* Only the jobs of a copy write while the others do nothing. *)
LEMMA QuietStep == ASSUME Base, QuietInv, RanInv, [Next]_vars PROVE QuietInv'
<1>1. UNCHANGED <<req, start>>  BY RequestStays
<1>2. Removing' <=> Removing  BY <1>1 DEF Removing
<1>3. CASE UNCHANGED <<files, changes, steady, ran>>
  BY <1>1, <1>2, <1>3 DEF QuietInv, Quiet
<1>4. CASE Walk
  BY <1>3, <1>4 DEF Walk, TooDeep, Inspect, Clash, ListFolder, NextRow, RowsDone, world, others
<1>5. CASE Delete
  BY <1>1, <1>2, <1>5 DEF Delete, others, Base, PlaceInv, QuietInv, Quiet
<1>6. CASE RunJob
  <2>1. UNCHANGED <<changes, steady>> /\ ran' = ran + 1
    BY <1>6 DEF RunJob, others, CopyFile, AskFolder, MakeFolder, Ended
  <2>2. ran' # 0  BY <2>1 DEF RanInv
  <2> QED  BY <1>1, <1>2, <2>1, <2>2 DEF QuietInv, Quiet
<1>7. CASE LinkDrops  BY <1>3, <1>7 DEF LinkDrops
<1>8. CASE OthersChange
  <2>1. changes' = changes + 1  BY <1>8 DEF OthersChange
  <2> QED  BY <2>1 DEF QuietInv, Quiet
<1>9. CASE UNCHANGED vars  BY <1>3, <1>9 DEF vars
<1> QED  BY <1>4, <1>5, <1>6, <1>7, <1>8, <1>9 DEF Next

LEMMA RanReturns ==
    ASSUME RanInv, result = "none", ran' = ran, NEW above, Returns(above), UNCHANGED req,
           jobs' \in Seq(Jobs)
    PROVE  RanInv'
<1>1. ran' = 0  BY DEF RanInv
<1>2. Len(jobs') \in Nat /\ (jobs' = << >> <=> Len(jobs') = 0)  BY EmptySeq, LenProperties
<1>3. \/ pc' = "next" /\ result' = "none"
      \/ /\ pc' = IF Removing \/ jobs' = << >> THEN "done" ELSE "jobs"
         /\ result' = "true"
  BY DEF Returns
<1>4. Removing' <=> Removing  BY DEF Removing
<1> QED  BY <1>1, <1>2, <1>3, <1>4 DEF RanInv

LEMMA RanStep == ASSUME Base, Base', RanInv, [Next]_vars PROVE RanInv'
<1>1. UNCHANGED req  BY RequestStays
<1>2. jobs' \in Seq(Jobs)  BY DEF Base, TypeInv
<1>3. Removing' <=> Removing  BY <1>1 DEF Removing
<1>4. CASE UNCHANGED <<ran, pc, result, jobs>>  BY <1>3, <1>4 DEF RanInv
<1>5. CASE result = "none" /\ Fails /\ ran' = ran
  BY <1>5 DEF Fails, RanInv
<1>6. ASSUME result = "none", NEW above, Returns(above), ran' = ran PROVE RanInv'
  BY <1>1, <1>2, <1>6, RanReturns
<1>7. CASE /\ result = "none" /\ result' = "none" /\ ran' = ran
           /\ pc' \in {"inspect", "list", "clash", "delete", "rmdir", "next"}
  BY <1>7 DEF RanInv
<1>8. CASE TooDeep \/ Inspect \/ Clash \/ ListFolder \/ NextRow \/ RowsDone \/ Delete
  <2>1. result = "none"
    BY <1>8 DEF Base, PlaceInv, TooDeep, Inspect, Clash, ListFolder, NextRow, RowsDone, Delete
  <2>2. ran' = ran
    BY <1>8 DEF TooDeep, Inspect, Clash, ListFolder, NextRow, RowsDone, Delete
  <2>3. \/ Fails
        \/ Returns(stack)
        \/ Returns(Front(stack))
        \/ result' = result /\ pc' \in {"inspect", "list", "clash", "delete", "rmdir", "next"}
    BY <1>8 DEF TooDeep, Inspect, Clash, ListFolder, NextRow, RowsDone, Delete, Refused
  <2> QED  BY <1>5, <1>6, <1>7, <2>1, <2>2, <2>3
<1>9. CASE RunJob
  <2>1. /\ pc = "jobs" /\ result' = result /\ jobs' = jobs /\ ran' = ran + 1
        /\ pc' = IF ran' = Len(jobs) THEN "done" ELSE "jobs"
    BY <1>9 DEF RunJob, walking, CopyFile, AskFolder, MakeFolder, Ended
  <2>2. result \in {"true", "false"} /\ (result = "false" => ran = 0)
    BY <2>1 DEF Base, TypeInv, PlaceInv, RanInv
  <2>3. Len(jobs) \in Nat  BY LenProperties DEF Base, TypeInv
  <2>4. result = "true"  BY <2>1, <2>2 DEF RanInv, Base, PlaceInv
  <2> QED  BY <1>3, <2>1, <2>2, <2>3, <2>4 DEF RanInv
<1>10. CASE LinkDrops \/ OthersChange \/ UNCHANGED vars
  BY <1>4, <1>10 DEF LinkDrops, OthersChange, vars, walking
<1> QED  BY <1>8, <1>9, <1>10 DEF Next, Walk

(* A job is added: everything above its path has been queued before. *)
LEMMA JobAdded ==
    ASSUME Base, JobsInv, StartInv, ~Removing, at # << >>, JobsSound, pc # "list",
           NEW folder \in BOOLEAN, jobs' = Append(jobs, Job(folder)), UNCHANGED <<req, start>>,
           misled => misled'
    PROVE  /\ Len(jobs') = Len(jobs) + 1 /\ Len(jobs) \in Nat /\ jobs' # << >>
           /\ jobs'[Len(jobs')].source = at /\ jobs'[Len(jobs')].directory = folder
           /\ jobs'[Len(jobs')].dest = Dest(at)
           /\ \A i \in 1..Len(jobs') : /\ jobs'[i].dest = Dest(jobs'[i].source)
                                       /\ AboveFirst(jobs, i)'
           /\ \A i \in 1..Len(jobs') : i # Len(jobs') => Queued(jobs[i])'
<1>1. /\ Len(jobs') = Len(jobs) + 1 /\ Len(jobs) \in Nat /\ jobs' # << >>
      /\ \A i \in 1..Len(jobs) : jobs'[i] = jobs[i]
      /\ jobs'[Len(jobs) + 1] = Job(folder)
      /\ Job(folder).source = at /\ Job(folder).directory = folder
  BY JobQueued DEF Base
<1>2. Job(folder).dest = Dest(at)  BY DEF Job
<1>3. ASSUME NEW i \in 1..Len(jobs)
      PROVE  /\ jobs'[i].dest = Dest(jobs'[i].source)
             /\ AboveFirst(jobs, i)'
             /\ Queued(jobs[i])'
  <2>1. jobs[i].dest = Dest(jobs[i].source) /\ AboveFirst(jobs, i) /\ Queued(jobs[i])
        /\ jobs'[i] = jobs[i]
    BY <1>1 DEF JobsSound
  <2>2. \A k \in 1..(i - 1) : k \in 1..Len(jobs)  BY <1>1
  <2>3. \A k \in 1..(i - 1) : jobs'[k] = jobs[k]  BY <1>1, <2>2
  <2>4. AboveFirst(jobs, i)'  BY <2>1, <2>3 DEF AboveFirst, InTree
  <2>5. Queued(jobs[i])'  BY <2>1 DEF Queued, InTree
  <2> QED  BY <2>1, <2>4, <2>5
<1>4. ASSUME NEW q \in DOMAIN start, InTree(q), IsPrefix(q, at), q # at
      PROVE  \E k \in 1..Len(jobs) : jobs'[k].source = q
  <2>1. at \in Paths /\ req.source \in Paths \ {<< >>} /\ q \in Paths \ {<< >>}
        /\ IsPrefix(req.source, q)
    BY <1>4 DEF Base, TypeInv, StartInv, Rooted, InTree
  <2>2. at # req.source  BY <1>4, <2>1, PrefixLonger
  <2>3. HasFolder(jobs, Front(at))  BY <2>2 DEF JobsInv
  <2>4. PICK k \in 1..Len(jobs) : jobs[k].source = Front(at)  BY <2>3 DEF HasFolder
  <2>5. /\ Front(at) \in Paths /\ Last(at) \in Strings /\ at = Append(Front(at), Last(at))
    BY <2>1, FrontPlaces, FrontAndLast DEF Paths
  <2>6. IsPrefix(q, Front(at))  BY <1>4, <2>1, <2>5, PrefixOfAppend
  <2>7. CASE q = Front(at)  BY <1>1, <2>4, <2>7
  <2>8. CASE q # Front(at)
    <3>1. AboveFirst(jobs, k)  BY DEF JobsSound
    <3>2. PICK h \in 1..(k - 1) : jobs[h].source = q
      BY <1>4, <2>4, <2>6, <2>8, <3>1 DEF AboveFirst
    <3>3. h \in 1..Len(jobs)  BY <1>1
    <3> QED  BY <1>1, <3>2, <3>3
  <2> QED  BY <2>7, <2>8
<1>5. \A i \in 1..Len(jobs') : i = Len(jobs) + 1 \/ i \in 1..Len(jobs)  BY <1>1
<1>6. \A i \in 1..Len(jobs') : AboveFirst(jobs, i)'
  <2> SUFFICES ASSUME NEW i \in 1..Len(jobs') PROVE AboveFirst(jobs, i)'
    OBVIOUS
  <2>1. CASE i \in 1..Len(jobs)  BY <1>3, <2>1
  <2>2. CASE i = Len(jobs')
    <3> SUFFICES ASSUME NEW q \in DOMAIN start, InTree(q), IsPrefix(q, jobs'[i].source),
                        q # jobs'[i].source
                 PROVE  \E k \in 1..(i - 1) : jobs'[k].source = q
      BY DEF AboveFirst, InTree
    <3>1. \E k \in 1..Len(jobs) : jobs'[k].source = q  BY <1>1, <1>4, <2>2
    <3>2. i - 1 = Len(jobs)  BY <1>1, <2>2
    <3> QED  BY <3>1, <3>2
  <2> QED  BY <1>1, <1>5, <2>1, <2>2
<1>7. \A i \in 1..Len(jobs') : jobs'[i].dest = Dest(jobs'[i].source)
  BY <1>1, <1>2, <1>3, <1>5
<1> QED  BY <1>1, <1>2, <1>3, <1>5, <1>6, <1>7

(* The call for a file of a copy returns. *)
LEMMA FileQueued ==
    ASSUME Base, JobsInv, StartInv, ~Removing, at # << >>, JobsSound, pc # "list",
           jobs' = Append(jobs, Job(FALSE)), UNCHANGED <<req, start>>, misled => misled',
           at \in DOMAIN start, start[at] # "dir", IsPrefix(req.source, at),
           req.overwrite = "NO" /\ ~misled' => Dest(at) \notin DOMAIN start
    PROVE  JobsSound'
<1>1. /\ jobs'[Len(jobs')].source = at /\ jobs'[Len(jobs')].directory = FALSE
      /\ jobs'[Len(jobs')].dest = Dest(at)
      /\ \A i \in 1..Len(jobs') : /\ jobs'[i].dest = Dest(jobs'[i].source)
                                  /\ AboveFirst(jobs, i)'
      /\ \A i \in 1..Len(jobs') : i # Len(jobs') => Queued(jobs[i])'
  BY JobAdded
<1>2. Queued(jobs[Len(jobs)])'  BY <1>1 DEF Queued, InTree
<1>3. \A p : Dest(p)' = Dest(p)  BY DEF Dest
<1> QED  BY <1>1, <1>2, <1>3 DEF JobsSound

LEMMA JobsStay ==
    ASSUME JobsSound, UNCHANGED <<req, start, jobs>>, misled => misled',
           pc = "list" => pc' = "list"
    PROVE  JobsSound'
<1>1. ASSUME NEW i \in 1..Len(jobs)
      PROVE  /\ jobs[i].dest = Dest(jobs[i].source) /\ AboveFirst(jobs, i)'
             /\ (i = Len(jobs) /\ pc = "list") \/ Queued(jobs[i])'
  <2>1. /\ jobs[i].dest = Dest(jobs[i].source) /\ AboveFirst(jobs, i)
        /\ (i = Len(jobs) /\ pc = "list") \/ Queued(jobs[i])
    BY DEF JobsSound
  <2> QED  BY <2>1 DEF AboveFirst, Queued, InTree
<1> QED  BY <1>1 DEF JobsSound, Dest

LEMMA SourcesFails ==
    ASSUME SourcesInv, Fails, UNCHANGED <<req, loop, start, changes, skipped>>
    PROVE  SourcesInv'
<1>1. Len(<< >>) = 0 /\ jobs' = << >> /\ pc' = "done"  BY EmptySeq DEF Fails
<1>2. (Quiet /\ loop = << >>)' => SkipSound  BY DEF SourcesInv, Quiet, Removing
<1>3. SkipSound => SkipSound'  BY DEF SkipSound, Old, Dest
<1>4. JobsSound' /\ AtSound'  BY <1>1 DEF JobsSound, AtSound
<1> QED  BY <1>2, <1>3, <1>4 DEF SourcesInv

(* A step that adds no job. *)
LEMMA SourcesRests ==
    ASSUME SourcesInv, UNCHANGED <<req, loop, start, jobs, skipped>>, misled => misled',
           Quiet' => Quiet, pc' \notin {"list", "clash"}, pc # "list"
    PROVE  SourcesInv'
<1> SUFFICES ASSUME Quiet', loop' = << >> PROVE JobsSound' /\ AtSound' /\ SkipSound'
  BY DEF SourcesInv
<1>1. JobsSound /\ SkipSound  BY DEF SourcesInv
<1>2. AtSound'  BY DEF AtSound
<1>3. SkipSound'  BY <1>1 DEF SkipSound, Old, Dest
<1>4. JobsSound'  BY <1>1, JobsStay
<1> QED  BY <1>2, <1>3, <1>4

LEMMA SourcesInspect ==
    ASSUME Base, JobsInv, CopyInv, Inspect PROVE SourcesInv'
<1>1. /\ pc = "inspect" /\ result = "none" /\ at # << >>
      /\ UNCHANGED <<req, loop, files, start, changes, skipped, misled>>
  BY DEF Base, PlaceInv, Inspect, world, others
<1>2. CASE Fails  BY <1>1, <1>2, SourcesFails DEF CopyInv
<1>3. CASE ~Fails
  <2> SUFFICES ASSUME Quiet', loop' = << >> PROVE JobsSound' /\ AtSound' /\ SkipSound'
    BY DEF SourcesInv
  <2>1. Quiet /\ loop = << >> /\ ~Removing  BY <1>1 DEF Quiet, Removing
  <2>2. JobsSound /\ AtSound /\ SkipSound /\ StartInv  BY <2>1 DEF CopyInv, SourcesInv
  <2>3. SkipSound'  BY <1>1, <2>2 DEF SkipSound, Old, Dest
  <2>4. files = start  BY <1>1, <2>1 DEF CopyInv, QuietInv, RanInv
  <2>5. at = node /\ IsPrefix(req.source, at)  BY <1>1, <2>1 DEF Base, NodesInv
  <2>6. CASE /\ pc' = "list" /\ jobs' = Append(jobs, Job(TRUE))
             /\ UNCHANGED <<at, node, stack, result>>
    <3>1. /\ jobs' # << >>
          /\ jobs'[Len(jobs')].source = at /\ jobs'[Len(jobs')].directory = TRUE
          /\ \A i \in 1..Len(jobs') : /\ jobs'[i].dest = Dest(jobs'[i].source)
                                      /\ AboveFirst(jobs, i)'
          /\ \A i \in 1..Len(jobs') : i # Len(jobs') => Queued(jobs[i])'
      BY <1>1, <2>1, <2>2, <2>6, JobAdded
    <3>2. \A p : Dest(p)' = Dest(p)  BY <1>1 DEF Dest
    <3>3. JobsSound'  BY <2>6, <3>1, <3>2 DEF JobsSound
    <3>4. AtSound'  BY <2>6, <3>1 DEF AtSound
    <3> QED  BY <2>3, <3>3, <3>4
  <2>7. ASSUME "file" \in Verdicts PROVE Old(at)
    BY <2>1, <2>4, <2>5, <2>7 DEF Verdicts, Kind, Old
  <2>8. CASE /\ "file" \in Verdicts /\ req.overwrite = "NO" /\ pc' = "clash"
             /\ UNCHANGED <<at, node, stack, jobs, result>>
    <3>1. AtSound'  BY <1>1, <2>7, <2>8 DEF AtSound, Old
    <3>2. JobsSound'  BY <1>1, <2>2, <2>8, JobsStay
    <3> QED  BY <2>3, <3>1, <3>2
  <2>9. CASE /\ "file" \in Verdicts /\ req.overwrite # "NO"
             /\ jobs' = Append(jobs, Job(FALSE)) /\ Returns(stack)
    <3>1. at \in DOMAIN start /\ start[at] # "dir"  BY <2>7, <2>9 DEF Old
    <3>2. JobsSound'  BY <1>1, <2>1, <2>2, <2>5, <2>9, <3>1, FileQueued
    <3>3. AtSound'  BY <2>9 DEF AtSound, Returns
    <3> QED  BY <2>3, <3>2, <3>3
  <2> QED  BY <1>1, <1>3, <2>1, <2>6, <2>8, <2>9 DEF Inspect
<1> QED  BY <1>2, <1>3

LEMMA SourcesClash ==
    ASSUME Base, JobsInv, CopyInv, Clash PROVE SourcesInv'
<1>1. /\ pc = "clash" /\ result = "none" /\ at # << >>
      /\ UNCHANGED <<req, loop, files, start, changes>>
  BY DEF Base, PlaceInv, Clash, world, others
<1>2. CASE Fails /\ skipped' = skipped  BY <1>1, <1>2, SourcesFails DEF CopyInv
<1>3. CASE ~(Fails /\ skipped' = skipped)
  <2> SUFFICES ASSUME Quiet', loop' = << >> PROVE JobsSound' /\ AtSound' /\ SkipSound'
    BY DEF SourcesInv
  <2>1. Quiet /\ loop = << >> /\ ~Removing  BY <1>1 DEF Quiet, Removing
  <2>2. JobsSound /\ AtSound /\ SkipSound /\ StartInv  BY <2>1 DEF CopyInv, SourcesInv
  <2>3. files = start  BY <1>1, <2>1 DEF CopyInv, QuietInv, RanInv
  <2>4. IsPrefix(req.source, at)  BY <1>1, <2>1 DEF Base, NodesInv
  <2>5. Old(at) /\ req.overwrite = "NO"  BY <1>1, <2>2 DEF AtSound
  <2>6. Returns(stack)  BY <1>3 DEF Clash
  <2>7. AtSound'  BY <2>6 DEF AtSound, Returns
  <2>8. CASE /\ Dest(at) \in DOMAIN files /\ skipped' = skipped \cup {at}
             /\ UNCHANGED <<jobs, misled>>
    <3>1. SkipSound'  BY <1>1, <2>2, <2>3, <2>5, <2>8 DEF SkipSound, Old, Dest
    <3>2. JobsSound'  BY <1>1, <2>2, <2>8, JobsStay
    <3> QED  BY <2>7, <3>1, <3>2
  <2>9. CASE /\ misled' = (misled \/ Dest(at) \in DOMAIN files)
             /\ jobs' = Append(jobs, Job(FALSE)) /\ skipped' = skipped
    <3>1. SkipSound'  BY <1>1, <2>2, <2>9 DEF SkipSound, Old, Dest
    <3>2. at \in DOMAIN start /\ start[at] # "dir"  BY <2>5 DEF Old
    <3>3. JobsSound'  BY <1>1, <2>1, <2>2, <2>3, <2>4, <2>9, <3>2, FileQueued
    <3> QED  BY <2>7, <3>1, <3>3
  <2> QED  BY <1>3, <2>8, <2>9 DEF Clash
<1> QED  BY <1>2, <1>3

LEMMA SourcesListFolder ==
    ASSUME Base, CopyInv, ListFolder PROVE SourcesInv'
<1>1. /\ pc = "list" /\ result = "none" /\ at # << >>
      /\ UNCHANGED <<req, loop, files, start, changes, skipped, misled>>
  BY DEF Base, PlaceInv, ListFolder
<1>2. CASE Fails  BY <1>1, <1>2, SourcesFails DEF CopyInv
<1>3. CASE ~Fails
  <2> SUFFICES ASSUME Quiet', loop' = << >> PROVE JobsSound' /\ AtSound' /\ SkipSound'
    BY DEF SourcesInv
  <2>1. Quiet /\ loop = << >> /\ ~Removing  BY <1>1 DEF Quiet, Removing
  <2>2. JobsSound /\ AtSound /\ SkipSound /\ StartInv  BY <2>1 DEF CopyInv, SourcesInv
  <2>3. files = start  BY <1>1, <2>1 DEF CopyInv, QuietInv, RanInv
  <2>4. at = node /\ IsPrefix(req.source, at)  BY <1>1, <2>1 DEF Base, NodesInv
  <2>5. Kind(node) = "dir" /\ pc' = "next" /\ jobs' = jobs  BY <1>3 DEF ListFolder
  <2>6. at \in DOMAIN start /\ start[at] = "dir"  BY <2>3, <2>4, <2>5 DEF Kind
  <2>7. AtSound'  BY <2>5 DEF AtSound
  <2>8. SkipSound'  BY <1>1, <2>2 DEF SkipSound, Old, Dest
  <2>9. ASSUME NEW i \in 1..Len(jobs)
        PROVE  /\ jobs[i].dest = Dest(jobs[i].source) /\ AboveFirst(jobs, i)'
               /\ Queued(jobs[i])'
    <3>1. jobs[i].dest = Dest(jobs[i].source) /\ AboveFirst(jobs, i)
          /\ (i = Len(jobs) \/ Queued(jobs[i]))
      BY <2>2 DEF JobsSound
    <3>2. AboveFirst(jobs, i)'  BY <1>1, <2>5, <3>1 DEF AboveFirst, InTree
    <3>3. CASE i = Len(jobs)
      <4>1. jobs[i].source = at /\ jobs[i].directory  BY <1>1, <2>2, <3>3 DEF AtSound
      <4> QED  BY <1>1, <2>4, <2>5, <2>6, <3>1, <3>2, <4>1 DEF Queued, InTree
    <3>4. CASE Queued(jobs[i])  BY <1>1, <2>5, <3>1, <3>2, <3>4 DEF Queued, InTree
    <3> QED  BY <3>1, <3>3, <3>4
  <2>10. JobsSound'  BY <1>1, <2>5, <2>9 DEF JobsSound, Dest
  <2> QED  BY <2>7, <2>8, <2>10
<1> QED  BY <1>2, <1>3

LEMMA SourcesStep ==
    ASSUME Base, JobsInv, CopyInv, [Next]_vars PROVE SourcesInv'
<1>1. UNCHANGED <<req, loop, start>>  BY RequestStays
<1>2. SourcesInv /\ changes \in Nat  BY DEF CopyInv, QuietInv
<1>3. CASE TooDeep
  BY <1>1, <1>2, <1>3, SourcesFails DEF TooDeep, world, others
<1>4. CASE Inspect  BY <1>4, SourcesInspect
<1>5. CASE Clash  BY <1>5, SourcesClash
<1>6. CASE ListFolder  BY <1>6, SourcesListFolder
<1>7. CASE NextRow
  <2>1. /\ pc = "next" /\ pc' = "inspect" /\ UNCHANGED <<jobs, skipped, misled, changes>>
    BY <1>7 DEF NextRow, world, others
  <2> QED  BY <1>1, <1>2, <2>1, SourcesRests DEF Quiet, Removing
<1>8. CASE RowsDone
  <2>1. /\ pc = "next" /\ UNCHANGED <<jobs, skipped, misled, changes>>
        /\ pc' \notin {"list", "clash"}
    BY <1>8 DEF RowsDone, Returns, world, others
  <2> QED  BY <1>1, <1>2, <2>1, SourcesRests DEF Quiet, Removing
<1>9. CASE Delete
  BY <1>1, <1>9 DEF Delete, Base, PlaceInv, SourcesInv, Quiet, Removing
<1>10. CASE RunJob
  <2>1. /\ pc = "jobs" /\ UNCHANGED <<jobs, skipped, changes>> /\ (misled => misled')
        /\ pc' \notin {"list", "clash"}
    BY <1>10 DEF RunJob, walking, others, CopyFile, AskFolder, MakeFolder, Ended
  <2> QED  BY <1>1, <1>2, <2>1, SourcesRests DEF Quiet, Removing
<1>11. CASE OthersChange
  <2>1. changes' = changes + 1  BY <1>11 DEF OthersChange
  <2> QED  BY <1>2, <2>1 DEF SourcesInv, Quiet
<1>12. CASE UNCHANGED <<jobs, skipped, misled, changes, pc, at>>
  <2>1. JobsSound => JobsSound'
    BY <1>1, <1>12, JobsStay
  <2>2. AtSound => AtSound'  BY <1>1, <1>12 DEF AtSound, Old
  <2>3. SkipSound => SkipSound'  BY <1>1, <1>12 DEF SkipSound, Old, Dest
  <2> QED  BY <1>1, <1>2, <1>12, <2>1, <2>2, <2>3 DEF SourcesInv, Quiet, Removing
<1>13. CASE LinkDrops \/ UNCHANGED vars
  BY <1>12, <1>13 DEF LinkDrops, walking, vars
<1> QED  BY <1>3, <1>4, <1>5, <1>6, <1>7, <1>8, <1>9, <1>10, <1>11, <1>13 DEF Next, Walk

----------------------------------------------------------------------------
(* The jobs of a copy. *)

LEMMA MadeHasFolder ==
    ASSUME StartInv, TypeInv, NEW S, Part(S), NEW f, After(f, S),
           NEW p, InTree(p), start[p] = "dir", Made(p), Image(p) \in DOMAIN f
    PROVE  f[Image(p)] = "dir"
<1>1. CASE p \in S  BY <1>1 DEF After
<1>2. CASE p \notin S
  <2>1. Image(p) \notin Images(S)  BY <1>2, NotYet
  <2>2. Image(p) \in DOMAIN start /\ f[Image(p)] = start[Image(p)]  BY <2>1 DEF After
  <2>3. ~Old(Image(p))  BY DEF Made
  <2> QED  BY <2>2, <2>3 DEF Old
<1> QED  BY <1>1, <1>2

(* MKD makes a folder exactly where one is to be made. *)
LEMMA FrontFolder ==
    ASSUME StartInv, TypeInv, ~Removing, NEW S, Part(S), After(files, S),
           NEW p, InTree(p), start[p] = "dir",
           \A r \in DOMAIN start : InTree(r) /\ IsPrefix(r, p) /\ r # p => r \in S
    PROVE  /\ Made(p) => Kind(Front(Image(p))) = "dir"
           /\ Kind(Front(Image(p))) = "dir" /\ Image(p) \notin DOMAIN files => Made(p)
<1> DEFINE a == Image(p)
           f == Front(a)
<1>1. a \in Paths \ {<< >>} /\ Len(a) >= 2  BY InTreeIsPath
<1> HIDE DEF a
<1>2. f \in Paths /\ Last(a) \in Strings /\ a = Append(f, Last(a)) /\ Len(f) = Len(a) - 1
      /\ Len(a) \in Nat
  BY <1>1, FrontPlaces, FrontAndLast DEF Paths
<1> HIDE DEF f
<1>3. IsPrefix(f, a) /\ f # a  BY <1>2, AppendIsPath
<1>4. f # << >>
  <2>1. Len(f) # 0  BY <1>1, <1>2
  <2> QED  BY <2>1, EmptySeq
<1>5. \/ IsPrefix(f, req.destDir) /\ f \in DOMAIN start /\ start[f] = "dir"
      \/ \E r \in DOMAIN start : /\ InTree(r) /\ IsPrefix(r, p) /\ r # p
                                 /\ start[r] = "dir" /\ f = Image(r)
  BY <1>2, <1>3, <1>4, WayToImage DEF a
<1>6. ASSUME Made(p) PROVE Kind(f) = "dir"
  <2>1. CASE IsPrefix(f, req.destDir) /\ f \in DOMAIN start /\ start[f] = "dir"
    <3>1. \A r \in S : Image(r) # f  BY <1>2, <2>1, InTreeIsPath DEF Part
    <3>2. f \notin Images(S)  BY <3>1 DEF Images
    <3>3. f \in DOMAIN files /\ files[f] = "dir"  BY <2>1, <3>2 DEF After
    <3> QED  BY <3>3 DEF Kind
  <2>2. ASSUME NEW r \in DOMAIN start, InTree(r), IsPrefix(r, p), r # p, start[r] = "dir",
               f = Image(r)
        PROVE  Kind(f) = "dir"
    <3>1. Made(r)  BY <1>6, <2>2, MadeFromAbove
    <3>2. r \in S  BY <2>2
    <3>3. Image(r) \in Images(S)  BY <3>1, <3>2 DEF Images
    <3>4. f \in DOMAIN files /\ files[f] = "dir"  BY <2>2, <3>1, <3>2, <3>3 DEF After
    <3> QED  BY <3>4 DEF Kind
  <2> QED  BY <1>5, <2>1, <2>2
<1>7. ASSUME Kind(f) = "dir", a \notin DOMAIN files PROVE Made(p)
  <2>1. f \in DOMAIN files /\ files[f] = "dir"  BY <1>7 DEF Kind
  <2>2. ASSUME NEW q \in Above(a) \cup {a}, Old(q) PROVE FALSE
    <3>1. q \in DOMAIN start /\ start[q] # "dir"  BY <2>2 DEF Old
    <3>2. q \in DOMAIN files  BY <3>1 DEF After
    <3>3. q # a  BY <1>7, <3>2
    <3>4. q \in Paths /\ IsPrefix(q, a) /\ Len(q) >= 2  BY <1>1, <2>2, <3>3, AbovePrefix
    <3>5. IsPrefix(q, f)  BY <1>2, <3>3, <3>4, PrefixOfAppend
    <3>6. q # << >>  BY <3>4, EmptySeq
    <3>7. CASE f \in DOMAIN start /\ start[f] = "dir"
      <4>1. start[q] = "dir"  BY <3>4, <3>5, <3>6, <3>7 DEF StartInv, Rooted
      <4> QED  BY <3>1, <4>1
    <3>8. ASSUME NEW r \in DOMAIN start, InTree(r), start[r] = "dir", f = Image(r)
          PROVE  FALSE
      <4>1. Made(r)  BY <2>1, <3>8, FolderIsMade
      <4>2. \A t \in Above(f) \cup {f} : ~Old(t)  BY <3>8, <4>1 DEF Made
      <4>3. q \in Above(f) \cup {f}  BY <1>2, <3>4, <3>5, AbovePrefix
      <4> QED  BY <2>2, <4>2, <4>3
    <3> QED  BY <1>5, <3>7, <3>8
  <2>3. \A q \in Above(Image(p)) \cup {Image(p)} : ~Old(q)  BY <2>2 DEF a
  <2> QED  BY <2>3 DEF Made
<1> QED  BY <1>6, <1>7 DEF f, a

(* A job that ends well. *)
LEMMA JobCopies ==
    ASSUME Base, WalkInv, CopyInv, RunJob, Quiet, result = "true", ~failed', ~misled', Apart
    PROVE  After(files', Sources(ran + 1))
<1> DEFINE j == jobs[ran + 1]
           p == j.source
           S == Sources(ran)
<1>1. /\ pc = "jobs" /\ ~Removing /\ loop = << >>
      /\ ran \in Nat /\ ran < Len(jobs) /\ Len(jobs) \in Nat
      /\ StartInv /\ TypeInv /\ JobsSound
  <2>1. pc = "jobs" /\ ~Removing  BY DEF RunJob, Quiet
  <2>2. loop = << >>  BY <2>1 DEF WalkInv, CoverInv
  <2>3. Len(jobs) \in Nat  BY LenProperties DEF Base, TypeInv
  <2> QED  BY <2>1, <2>2, <2>3 DEF CopyInv, RanInv, SourcesInv, Base
<1>2. \A i \in 1..(ran + 1) : i \in 1..Len(jobs) /\ Queued(jobs[i])
  BY <1>1 DEF JobsSound
<1>3. /\ InTree(p) /\ (j.directory <=> start[p] = "dir")
      /\ ~j.directory /\ req.overwrite = "NO" /\ ~misled => j.dest \notin DOMAIN start
      /\ j.dest = Dest(p)
  BY <1>1, <1>2 DEF JobsSound, Queued
<1>4. j.dest = Image(p)
  <2>1. p \in Paths /\ IsPrefix(req.source, p)  BY <1>1, <1>3, InTreeIsPath
  <2> QED  BY <1>1, <1>3, <2>1, ImagePlaces
<1>5. /\ Part(S)
      /\ \A r \in DOMAIN start : InTree(r) /\ IsPrefix(r, p) /\ r # p => r \in S
      /\ Sources(ran + 1) = S \cup {p}
  <2>1. Part(S)  BY <1>1, <1>2 DEF Part, Sources, Queued
  <2>2. AboveFirst(jobs, ran + 1)  BY <1>1, <1>2 DEF JobsSound
  <2>3. ASSUME NEW r \in DOMAIN start, InTree(r), IsPrefix(r, p), r # p PROVE r \in S
    <3> DEFINE n == ran + 1
    <3>1. AboveFirst(jobs, n) /\ p = jobs[n].source  BY <2>2
    <3> HIDE DEF n, p
    <3>2. PICK k \in 1..(n - 1) : jobs[k].source = r  BY <2>3, <3>1 DEF AboveFirst
    <3>3. n - 1 = ran  BY <1>1 DEF n
    <3> QED  BY <3>2, <3>3 DEF Sources
  <2>4. \A i : i \in 1..(ran + 1) <=> i \in 1..ran \/ i = ran + 1  BY <1>1
  <2>5. Sources(ran + 1) = S \cup {p}  BY <2>4 DEF Sources
  <2> QED  BY <2>1, <2>3, <2>5
<1>6. /\ \/ ~j.directory /\ CopyFile(j)
         \/ j.directory /\ req.what = "UPLOAD" /\ AskFolder(j)
         \/ j.directory /\ req.what # "UPLOAD" /\ MakeFolder(j)
      /\ ~failed /\ ~misled /\ ~Ended(FALSE)
  BY DEF RunJob, Current, CopyFile, AskFolder, MakeFolder, Ended
<1>7. After(files, S)  BY <1>6 DEF CopyInv, CopiedInv
<1> HIDE DEF j, p, S
<1>8. p \in DOMAIN start  BY <1>3 DEF InTree
<1>9. CASE ~j.directory /\ CopyFile(j)
  <2>1. start[p] # "dir"  BY <1>3, <1>9
  <2>2. Made(p)  BY <1>3, <1>4, <1>6, <1>9, <2>1 DEF Made
  <2>3. files[p] = start[p]
    <3>1. CASE p \notin Images(S)  BY <1>7, <1>8, <3>1 DEF After
    <3>2. ASSUME NEW r \in S, Made(r), p = Image(r) PROVE files[p] = start[p]
      <4>1. InTree(r)  BY <1>5 DEF Part
      <4>2. IsPrefix(req.source, r) /\ r \in DOMAIN start /\ IsPrefix(req.source, Image(r))
            /\ Image(r) \in DOMAIN start
        BY <1>3, <3>2, <4>1 DEF InTree
      <4>3. Image(r) = r  BY <4>2 DEF Apart
      <4> QED  BY <1>7, <3>2, <4>3 DEF After
    <3> QED  BY <3>1, <3>2 DEF Images
  <2>4. /\ Kind(j.dest) # "dir"
        /\ \/ files' = With(files, Image(p), files[p])
           \/ Passable(Image(p)) /\ files' = With(MadeUpTo(Image(p)), Image(p), files[p])
    BY <1>4, <1>6, <1>9 DEF CopyFile, p
  <2>5. Passable(Image(p)) => MadeUpTo(Image(p)) = files  BY <1>1, <1>3, <1>5, <1>7, WayIsThere
  <2>6. files' = With(files, Image(p), start[p])  BY <2>3, <2>4, <2>5
  <2>7. After(With(files, Image(p), start[p]), S \cup {p})
    BY <1>1, <1>3, <1>5, <1>7, <2>2, ImageWritten
  <2> QED  BY <1>5, <2>6, <2>7
<1>10. CASE j.directory
  <2>1. start[p] = "dir"  BY <1>3, <1>10
  <2>2. /\ Image(p) \in DOMAIN files /\ Made(p) => files[Image(p)] = "dir"
        /\ Made(p) => Kind(Front(Image(p))) = "dir"
        /\ Kind(Front(Image(p))) = "dir" /\ Image(p) \notin DOMAIN files => Made(p)
    BY <1>1, <1>3, <1>5, <1>7, <2>1, MadeHasFolder, FrontFolder
  <2>3. ASSUME files' = files, Made(p) => Image(p) \in DOMAIN files
        PROVE  After(files', Sources(ran + 1))
    BY <1>1, <1>3, <1>5, <1>7, <2>1, <2>2, <2>3, NothingToDo
  <2>4. ASSUME files' = With(files, Image(p), "dir"), Made(p)
        PROVE  After(files', Sources(ran + 1))
    <3>1. After(With(files, Image(p), start[p]), S \cup {p})
      BY <1>1, <1>3, <1>5, <1>7, <2>4, ImageWritten
    <3> QED  BY <1>5, <2>1, <2>4, <3>1
  <2>5. CASE req.what = "UPLOAD" /\ AskFolder(j)
    <3> DEFINE possible == Kind(Front(Image(p))) = "dir" /\ Image(p) \notin DOMAIN files
    <3>1. \/ possible /\ files' = With(files, Image(p), "dir")
          \/ ~possible /\ files' = files
      BY <1>4, <2>5 DEF AskFolder
    <3>2. possible => Made(p)  BY <2>2
    <3>3. ~possible => (Made(p) => Image(p) \in DOMAIN files)  BY <2>2
    <3> QED  BY <2>3, <2>4, <3>1, <3>2, <3>3
  <2>6. CASE MakeFolder(j)
    <3>1. /\ Passable(Image(p))
          /\ files' = IF Image(p) \in DOMAIN files THEN MadeUpTo(Image(p))
                      ELSE With(MadeUpTo(Image(p)), Image(p), "dir")
      BY <1>4, <1>6, <2>6 DEF MakeFolder
    <3>2. /\ \A q \in Above(Image(p)) : ~Old(q)
          /\ MadeUpTo(Image(p)) = files
      BY <1>1, <1>3, <1>5, <1>7, <3>1, WayIsThere
    <3>3. CASE Image(p) \in DOMAIN files  BY <2>3, <3>1, <3>2, <3>3
    <3>4. CASE Image(p) \notin DOMAIN files
      <4>1. ~Old(Image(p))  BY <1>7, <3>4 DEF After, Old
      <4>2. Made(p)  BY <2>1, <3>2, <4>1 DEF Made
      <4> QED  BY <2>4, <3>1, <3>2, <3>4, <4>2
    <3> QED  BY <3>3, <3>4
  <2> QED  BY <1>6, <1>10, <2>5, <2>6
<1> QED  BY <1>6, <1>9, <1>10

LEMMA CopiedStep ==
    ASSUME Base, Base', WalkInv, CopyInv, QuietInv', RanInv', StartInv', [Next]_vars
    PROVE  CopiedInv'
<1> SUFFICES ASSUME (Quiet /\ result = "true" /\ ~failed /\ ~misled /\ Apart)'
             PROVE  After(files, Sources(ran))'
  BY DEF CopiedInv
<1>1. UNCHANGED <<req, loop, start>>  BY RequestStays
<1>2. ~Removing  BY <1>1 DEF Quiet, Removing
<1>3. CASE ran' = 0
  <2>1. files' = start'  BY <1>3 DEF QuietInv
  <2>2. Sources(ran)' = {}  BY <1>3 DEF Sources
  <2>3. Images({})' = {}  BY DEF Images
  <2> QED  BY <2>1, <2>2, <2>3 DEF After, StartInv, Images
<1>4. \A p : (Image(p)' = Image(p)) /\ (Made(p)' <=> Made(p))
  BY <1>1 DEF Image, Made, Old, Above
<1>5. Apart  BY <1>1, <1>4 DEF Apart
<1>6. ASSUME NEW S, NEW f, After(f, S) PROVE After(f, S)'
  BY <1>1, <1>4, <1>6 DEF After, Images
<1>7. CASE RunJob
  <2>1. UNCHANGED <<jobs, result, changes>> /\ ran' = ran + 1
    BY <1>7 DEF RunJob, walking, others, CopyFile, AskFolder, MakeFolder, Ended
  <2>2. After(files', Sources(ran + 1))
    BY <1>2, <1>5, <1>7, <2>1, JobCopies DEF Quiet
  <2>3. Sources(ran)' = Sources(ran + 1)  BY <2>1 DEF Sources
  <2> QED  BY <1>1, <1>4, <2>2, <2>3 DEF After, Images
<1>8. CASE ran' # 0 /\ ~RunJob
  <2>1. ran' = ran
    BY <1>8 DEF Next, Walk, TooDeep, Inspect, Clash, ListFolder, NextRow, RowsDone, Delete,
                LinkDrops, OthersChange, vars
  <2>2. result = "true" /\ pc \in {"jobs", "done"}
    BY <1>8, <2>1 DEF CopyInv, RanInv, Base, PlaceInv
  <2>3. LinkDrops \/ OthersChange \/ UNCHANGED vars
    BY <1>8, <2>2 DEF Next, Walk, TooDeep, Inspect, Clash, ListFolder, NextRow, RowsDone, Delete
  <2>4. ~OthersChange
    <3>1. OthersChange => changes' = changes + 1  BY DEF OthersChange
    <3> QED  BY <3>1 DEF Quiet, CopyInv, QuietInv
  <2>5. UNCHANGED <<files, changes, jobs, failed, misled, result>>
    BY <2>3, <2>4 DEF LinkDrops, vars, walking
  <2>6. After(files, Sources(ran))
    BY <1>2, <1>5, <2>5 DEF Quiet, CopyInv, CopiedInv
  <2>7. Sources(ran)' = Sources(ran)  BY <2>1, <2>5 DEF Sources
  <2> QED  BY <1>1, <1>4, <2>5, <2>6, <2>7 DEF After, Images
<1> QED  BY <1>3, <1>7, <1>8

(* queue.cpp: a walk that is whole, and jobs that all end well, copy the   *)
(* tree whole and touch nothing else.                                      *)
THEOREM CopyIsAlwaysWhole == Spec => []CopyIsWhole
<1>1. Init => WalkInv /\ CopyInv  BY WalkInit, CopyInit
<1>2. Base /\ Base' /\ WalkInv /\ CopyInv /\ [Next]_vars => WalkInv' /\ CopyInv'
  <2> SUFFICES ASSUME Base, Base', WalkInv, CopyInv, [Next]_vars PROVE WalkInv' /\ CopyInv'
    OBVIOUS
  <2>1. StartInv' /\ QuietInv' /\ RanInv'  BY StartStep, QuietStep, RanStep DEF CopyInv
  <2>2. SourcesInv'  BY SourcesStep DEF WalkInv
  <2>3. CopiedInv'  BY <2>1, CopiedStep
  <2> QED  BY <2>1, <2>2, <2>3, WalkStep DEF CopyInv
<1>3. ASSUME Base, WalkInv, CopyInv PROVE CopyIsWhole
  <2> SUFFICES ASSUME pc = "done", result = "true", ~Removing, ~failed, ~misled, changes = 0,
                      Apart
               PROVE  files = Expected
    BY DEF CopyIsWhole
  <2> DEFINE S == Sources(Len(jobs))
             tree == {p \in DOMAIN start : IsPrefix(req.source, p) /\ Made(p)}
             image == {Image(p) : p \in tree}
  <2>1. /\ StartInv /\ TypeInv /\ loop = << >> /\ stack = << >> /\ at = << >>
        /\ steady = DOMAIN start /\ JobsSound /\ SkipSound
        /\ After(files, S) /\ Len(jobs) \in Nat
    <3>1. loop = << >> /\ stack = << >> /\ at = << >>
      BY <1>3 DEF WalkInv, CoverInv, Base, PlaceInv
    <3>2. ran = Len(jobs) /\ Quiet  BY <1>3 DEF CopyInv, RanInv, Quiet
    <3>3. Len(jobs) \in Nat  BY <1>3, LenProperties DEF Base, TypeInv
    <3> QED  BY <1>3, <3>1, <3>2, <3>3 DEF CopyInv, QuietInv, SourcesInv, CopiedInv, Base
  <2>2. \A i \in 1..Len(jobs) : Queued(jobs[i])  BY <2>1 DEF JobsSound
  <2>3. Part(S)  BY <2>2 DEF Part, Sources, Queued
  <2>4. ASSUME NEW p \in DOMAIN start, IsPrefix(req.source, p), Made(p) PROVE p \in S
    <3>1. Covered(p)
      <4>1. ~Pending(p)  BY <2>1, NothingOpen DEF Pending, Here
      <4> QED  BY <1>3, <2>1, <2>4, <4>1 DEF WalkInv, CoverInv
    <3>2. p \notin skipped
      <4> SUFFICES ASSUME p \in skipped PROVE FALSE
        OBVIOUS
      <4>1. Old(p) /\ req.overwrite = "NO" /\ Dest(p) \in DOMAIN start  BY <2>1 DEF SkipSound
      <4>2. p \in Paths  BY <2>1 DEF StartInv, Rooted
      <4>3. Dest(p) = Image(p)  BY <2>1, <2>4, <4>2, ImagePlaces
      <4> QED  BY <2>4, <4>1, <4>3 DEF Made, Old
    <3> QED  BY <3>1, <3>2 DEF Covered, Sources
  <2>5. {q \in S : Made(q)} = tree
    BY <2>3, <2>4 DEF Part, InTree
  <2>6. Images(S) = image  BY <2>5 DEF Images
  <2>7. ASSUME NEW p \in tree PROVE (CHOOSE t \in tree : Image(t) = Image(p)) = p
    <3>1. ASSUME NEW t \in tree, Image(t) = Image(p) PROVE t = p
      <4>1. t \in Paths /\ p \in Paths  BY <2>1 DEF StartInv, Rooted
      <4> QED  BY <2>1, <3>1, <4>1, ImageInjective
    <3> QED  BY <3>1
  <2>8. ASSUME NEW q \in image PROVE files[q] = start[CHOOSE t \in tree : Image(t) = q]
    <3>1. PICK p \in tree : q = Image(p)  OBVIOUS
    <3>2. p \in S /\ Made(p)  BY <2>4
    <3>3. files[Image(p)] = start[p]  BY <2>1, <3>2 DEF After
    <3>4. (CHOOSE t \in tree : Image(t) = Image(p)) = p  BY <2>7
    <3> HIDE DEF image, tree, S
    <3> QED  BY <3>1, <3>3, <3>4
  <2>9. /\ files = [q \in DOMAIN files |-> files[q]]
        /\ DOMAIN files = DOMAIN start \cup image
        /\ \A q \in DOMAIN start \ image : files[q] = start[q]
    BY <2>1, <2>6 DEF After
  <2>10. Expected = [q \in DOMAIN start \cup image |->
                       IF q \in image THEN start[CHOOSE t \in tree : Image(t) = q] ELSE start[q]]
    BY DEF Expected
  <2> HIDE DEF image, tree, S
  <2> QED  BY <2>8, <2>9, <2>10
<1> QED  BY <1>1, <1>2, <1>3, BaseAlways, PTL DEF Spec

=============================================================================
