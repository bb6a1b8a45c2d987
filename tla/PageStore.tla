----------------------------- MODULE PageStore -----------------------------
(***************************************************************************)
(* What the btree code needs from its page cache: a file of pages that     *)
(* grows at its end and in which a page holds what was last stored there.  *)
(***************************************************************************)
EXTENDS Naturals

CONSTANTS Pgno, Val, Absent

VARIABLES size, content

Init == size = 0 /\ content = [p \in Pgno |-> Absent]

Extend == /\ size \in Pgno
          /\ size' = size + 1
          /\ \E v \in Val : content' = [content EXCEPT ![size] = v]

Store(p) == /\ p < size
            /\ \E v \in Val : content' = [content EXCEPT ![p] = v]
            /\ UNCHANGED size

Next == Extend \/ \E p \in Pgno : Store(p)

Spec == Init /\ [][Next]_<<size, content>>
=============================================================================
