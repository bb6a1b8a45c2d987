------------------------------ MODULE TagIndex ------------------------------
(***************************************************************************)
(* What gtags promises its users, without files, ids or phases: an index   *)
(* that maps every path to the contents its tags describe, and that a run  *)
(* replaces at once, wholly or for one file.                               *)
(***************************************************************************)
CONSTANTS Path, Version

VARIABLES
    want,   \* want[p]: the contents p's tags should describe: none or one
    index   \* index[p]: the contents p's tags do describe

Contents == {{}} \cup {{v} : v \in Version}

Init ==
    /\ want \in [Path -> Contents]
    /\ index = [p \in Path |-> {}]

Edit == /\ \E p \in Path : \E c \in Contents : want' = [want EXCEPT ![p] = c]
        /\ UNCHANGED index

(* gtags, gtags -i *)
Update == index' = want /\ UNCHANGED want

(* gtags --single-update p *)
UpdateOne(p) == index' = [index EXCEPT ![p] = want[p]] /\ UNCHANGED want

Next == Edit \/ Update \/ \E p \in Path : UpdateOne(p)

Spec == Init /\ [][Next]_<<want, index>>
=============================================================================
