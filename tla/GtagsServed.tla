---------------------------- MODULE GtagsServed ----------------------------
(***************************************************************************)
(* Gtags implements TagIndex.  A history variable keeps what a reader sees *)
(* who opens the tag files while no run is active; global(1) makes no      *)
(* promise to a reader during a run.                                       *)
(***************************************************************************)
EXTENDS Gtags

VARIABLE served

(* What the tag files say of p: the contents of all tags, definitions and  *)
(* references, whose file id GPATH translates to p.                        *)
Seen == [p \in Path |->
           {r.ver : r \in {s \in tags["GTAGS"] \cup tags["GRTAGS"] :
                             gpath.pathOf[s.fid] = p}}]

ServedInit == Init /\ served = [p \in Path |-> {}]
ServedNext == Next /\ served' = IF AtRest' THEN Seen' ELSE served
ServedSpec == ServedInit /\ [][ServedNext]_<<vars, served>>
FairServedSpec == ServedSpec /\ WF_vars(Step)

Wanted == [p \in Path |-> IF Exists(p) /\ IsSource(p) THEN {ver[p]} ELSE {}]

Index == INSTANCE TagIndex WITH want <- Wanted, index <- served

(* Every run, whatever its steps, appears as one replacement of the index  *)
(* by the contents of the files, wholly or for the one file asked for.     *)
ImplementsTagIndex == Index!Spec
=============================================================================
