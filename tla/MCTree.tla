------------------------------- MODULE MCTree -------------------------------
(* Small instances of Tree: every tree of a few files and folders, what of *)
(* it is at the destination already, and a folder that lists itself.       *)
EXTENDS Tree, FiniteSets

CONSTANTS MaxTree, MaxOld     \* the files and folders below the source, and at the destination

MCNames == {"a", "b"}

Seqs(n) == UNION {[1..k -> MCNames] : k \in 0..n}

(* The trees of at most n paths below their root: a function from paths    *)
(* relative to the root, the empty one included.                           *)
Shapes(depth, n) ==
    {s \in SUBSET Seqs(depth) : << >> \in s /\ Cardinality(s) <= n + 1
                                 /\ \A p \in s \ {<< >>} : Front(p) \in s}
Trees(depth, n) ==
    UNION {{t \in [s -> {"dir", "new"}] : \A p \in s \ {<< >>} : t[Front(p)] = "dir"} : s \in Shapes(depth, n)}

Under(root, t) == [q \in {root \o p : p \in DOMAIN t} |-> t[CHOOSE p \in DOMAIN t : root \o p = q]]
Renamed(t)     == [p \in DOMAIN t |-> IF t[p] = "new" THEN "old" ELSE t[p]]

Machines == (<<"server">> :> "dir") @@ (<<"card">> :> "dir") @@ (<<"card", "z">> :> "dir")

Request(what, source, dest, over) ==
    [what |-> what, source |-> source, destDir |-> dest, overwrite |-> over]

Routes ==
    {[what |-> "DOWNLOAD", source |-> <<"server", "x">>, dest |-> <<"card">>],
     [what |-> "UPLOAD", source |-> <<"card", "x">>, dest |-> <<"server">>],
     [what |-> "LOCAL_COPY", source |-> <<"card", "x">>, dest |-> <<"card", "z">>]}

Case(r, over, l, f) == [req |-> Request(r.what, r.source, r.dest, over), loop |-> l, files |-> f]

Copies ==
    {Case(r, over, << >>, Machines @@ Under(r.source, t) @@ Under(Append(r.dest, "x"), Renamed(o))) :
        r \in Routes, over \in {"YES", "NO"}, t \in Trees(3, MaxTree), o \in Trees(1, MaxOld)}
    \cup
    {Case(r, "YES", << >>, Machines @@ Under(r.source, t)) : r \in Routes, t \in Trees(3, MaxTree)}

(* A local copy of a folder over a folder of its name that is in it. *)
OverItself ==
    Case([what |-> "LOCAL_COPY", source |-> <<"card", "x">>, dest |-> <<"card", "x">>], "YES", << >>,
         Machines @@ Under(<<"card", "x">>, (<< >> :> "dir") @@ (<<"a">> :> "new")
                                            @@ (<<"x">> :> "dir") @@ (<<"x", "a">> :> "old")))

(* A local copy of a folder into itself, and into its own place. *)
Inward ==
    {Case([what |-> "LOCAL_COPY", source |-> <<"card", "x">>, dest |-> d], "YES", << >>,
          Machines @@ Under(<<"card", "x">>, t)) :
        d \in {<<"card", "x">>, <<"card">>}, t \in {t \in Trees(2, MaxTree) : t[<< >>] = "dir"}}
    \cup {OverItself}

Loops ==
    {Case(r, "YES", r.source, Machines @@ Under(r.source, t)) :
        r \in {r \in Routes : r.what = "DOWNLOAD"}, t \in {t \in Trees(1, 1) : t[<< >>] = "dir"}}
    \cup
    {Case([what |-> "REMOVE", source |-> <<"server", "x">>, dest |-> << >>], "YES", <<"server", "x">>,
          Machines @@ Under(<<"server", "x">>, t)) : t \in {t \in Trees(1, 2) : t[<< >>] = "dir"}}

Removals ==
    {Case([what |-> "REMOVE", source |-> Append(m, "x"), dest |-> << >>], "YES", << >>,
          Machines @@ Under(Append(m, "x"), t)) : m \in {<<"server">>, <<"card">>}, t \in Trees(3, MaxTree)}

MCCases == Copies \cup Inward \cup Loops \cup Removals

=============================================================================
