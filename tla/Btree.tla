------------------------------- MODULE Btree -------------------------------
(***************************************************************************)
(* The btree of libdb as dbop.c calls it: put, get, delete by key, delete  *)
(* at the cursor, and forward scans (bt_put.c, bt_get.c, bt_delete.c,      *)
(* bt_seq.c).  A call is one action: a tag file is open in one process     *)
(* and has one thread.                                                     *)
(***************************************************************************)
EXTENDS BtPages

CONSTANTS
    Key,         \* the keys, natural numbers
    FixedKey,    \* keys of records that are put first and never deleted
    WideKey,     \* keys whose records take twice the room of others
    BigKey,      \* keys whose data need a page of their own
    MaxPut,      \* bound on the records ever put
    PutsFirst,   \* TRUE: no record is put after one has been deleted
    ScanPuts     \* TRUE: a scan goes on although records are put

ASSUME BtreeAssumption ==
    /\ Room \in Nat /\ Room >= 2 /\ Dups \in BOOLEAN
    /\ Key \subseteq Nat \ {0} /\ FixedKey \subseteq Key
    /\ BigKey \cup WideKey \subseteq Key
    /\ WideKey # {} => Room >= 4      \* bt_ovflsize: two records fit on a page
    /\ MaxPut \in Nat
    /\ {PutsFirst, ScanPuts} \subseteq BOOLEAN

VARIABLES
    tree,    \* the BTREE structure and its pages
    stored,  \* history: the records put and not deleted
    nput,    \* history: the number of records put
    deleted, \* history: whether a record was ever deleted
    scan,    \* history: whether a scan is under way,
    todo,    \* the records it has still to return,
    current  \* and the one it returned last: a set of at most one record

vars == <<tree, stored, nput, deleted, scan, todo, current>>

Record(r) == [key |-> r.key, dat |-> r.dat]

(* A key/data pair as a leaf holds it; data too big for it are on a page   *)
(* of their own.                                                           *)
Item(k, n, ovfl) ==
    [key |-> k, dat |-> n, size |-> IF k \in WideKey THEN 2 ELSE 1, ovfl |-> ovfl]
-----------------------------------------------------------------------------
Fits(t, h, item) == Units(t.page[h].recs) + item.size <= Room

(* Variant of the next operator with a bug: any record of the last page    *)
(* will do as the last one.                                                *)
FastAnywhere(t, item) ==
    LET h == t.last.pg
        p == t.page[h]
        i == t.last.i
        edge == IF t.order = "forward" THEN p.next = None ELSE p.prev = None
        cmp == Cmp(p, i, item.key)
    IN  IF t.order = "not" \/ ~edge \/ ~Fits(t, h, item) \/ i > Len(p.recs) THEN [hit |-> FALSE]
        ELSE [hit |-> IF t.order = "forward" THEN cmp >= 0 ELSE cmp <= 0,
              pg |-> h, exact |-> cmp = 0, stack |-> <<>>,
              i |-> IF t.order = "forward" /\ cmp # 0 THEN i + 1 ELSE i]

(* Variant of the next operator with a bug: the key put last again is not  *)
(* taken for a match.                                                      *)
FastExactNot(t, item) ==
    LET h == t.last.pg
        p == t.page[h]
        i == t.last.i
        edge == IF t.order = "forward" THEN p.next = None /\ i = Len(p.recs)
                ELSE p.prev = None /\ i = 1
        cmp == Cmp(p, i, item.key)
    IN  IF t.order = "not" \/ ~edge \/ ~Fits(t, h, item) THEN [hit |-> FALSE]
        ELSE [hit |-> IF t.order = "forward" THEN cmp >= 0 ELSE cmp <= 0,
              pg |-> h, exact |-> FALSE, stack |-> <<>>,
              i |-> IF t.order = "forward" THEN i + 1 ELSE i]

(* bt_fast: sorted puts go on at the page of the last one.                 *)
Fast(t, item) ==
    LET h == t.last.pg
        p == t.page[h]
        i == t.last.i
        edge == IF t.order = "forward" THEN p.next = None /\ i = Len(p.recs)
                ELSE p.prev = None /\ i = 1
        cmp == Cmp(p, i, item.key)
    IN  IF t.order = "not" \/ ~edge \/ ~Fits(t, h, item) THEN [hit |-> FALSE]
        ELSE [hit |-> IF t.order = "forward" THEN cmp >= 0 ELSE cmp <= 0,
              pg |-> h, exact |-> cmp = 0, stack |-> <<>>,
              i |-> IF t.order = "forward" /\ cmp # 0 THEN i + 1 ELSE i]

(* A cursor at or after the insertion moves with its record.               *)
InsertCursor(t, h, i) ==
    IF CursorOn(t, h) /\ t.cursor.i >= i THEN [t.cursor EXCEPT !.i = @ + 1] ELSE t.cursor

(* The end of __bt_put, when the record fits, and its look out for sorted  *)
(* puts.                                                                   *)
Insert(t, h, i, item) ==
    LET p == t.page[h]
        o == IF t.order # "not" THEN t.order
             ELSE IF p.next = None THEN IF i = Len(p.recs) + 1 THEN "forward" ELSE "not"
             ELSE IF p.prev = None /\ i = 1 THEN "back" ELSE "not"
    IN  [t EXCEPT !.page[h].recs = InsertAt(@, i, item),
                  !.cursor = InsertCursor(t, h, i),
                  !.order = o,
                  !.last = IF t.order = "not" /\ o # "not" THEN [pg |-> h, i |-> i] ELSE @]

(* __bt_put with flags 0: without duplicates the old record goes first.    *)
PutItem(t, item) ==
    LET f  == Fast(t, item)
        t1 == IF f.hit THEN [t EXCEPT !.last.i = f.i] ELSE [t EXCEPT !.order = "not"]
        e  == IF f.hit THEN f ELSE Search(t1, item.key)
        t2 == IF e.exact /\ ~Dups THEN LeafDelete(t1, e.pg, e.i) ELSE t1
    IN  IF Fits(t2, e.pg, item) THEN Insert(t2, e.pg, e.i, item)
        ELSE Split(t2, e.pg, e.i, item, e.stack)

Put(k) ==
    /\ nput < MaxPut
    /\ PutsFirst => ~deleted
    /\ FixedKey \subseteq {k} \cup {r.key : r \in stored}
    /\ LET n == nput + 1
           t == IF k \in BigKey THEN OverflowPut(tree) ELSE tree
           ovfl == IF k \in BigKey THEN NewPage(tree) ELSE None
           old == IF Dups THEN {} ELSE {r \in stored : r.key = k}
           new == [key |-> k, dat |-> n]
       IN  /\ tree' = PutItem(t, Item(k, n, ovfl))
           /\ stored' = (stored \ old) \cup {new}
           /\ nput' = n
           /\ scan' = (scan /\ ScanPuts)
           /\ todo' = todo \ old
           /\ current' = current \ old
    /\ UNCHANGED deleted

(* __bt_delete of a key, which only GPATH, without duplicates, does *)
Delete(k) ==
    /\ ~Dups /\ k \notin FixedKey
    /\ LET gone == {r \in stored : r.key = k}
       IN  /\ gone # {}
           /\ tree' = DeleteKey(tree, k)
           /\ stored' = stored \ gone
           /\ todo' = todo \ gone
           /\ current' = current \ gone
    /\ deleted' = TRUE
    /\ UNCHANGED <<nput, scan>>

(* __bt_delete with R_CURSOR: the record that the scan has just returned.  *)
DeleteCursor ==
    /\ scan /\ tree.cursor.init
    /\ ~tree.cursor.acquire /\ ~tree.cursor.after /\ ~tree.cursor.before
    /\ \A r \in current : r.key \notin FixedKey
    /\ LET h == tree.cursor.pg
           stack == IF Len(tree.page[h].recs) = 1 THEN AcquireStack(tree, h) ELSE <<>>
           t == LeafDelete(tree, h, tree.cursor.i)
       IN  tree' = IF t.page[h].recs = <<>> THEN PageDelete(t, h, stack) ELSE t
    /\ stored' = stored \ current
    /\ current' = {}
    /\ deleted' = TRUE
    /\ UNCHANGED <<nput, scan, todo>>
-----------------------------------------------------------------------------
(* Scanning.                                                               *)

NoPos == [pg |-> None, i |-> 0]
Pos(pg, i) == [pg |-> pg, i |-> i]

RECURSIVE LeftmostLeaf(_, _)
LeftmostLeaf(t, pg) ==
    IF t.page[pg].type = "leaf" THEN pg
    ELSE LeftmostLeaf(t, Head(t.page[pg].recs).pg)

(* The record at index i, or the first of the next page. *)
OrNext(t, h, i) ==
    IF i <= Len(t.page[h].recs) THEN Pos(h, i)
    ELSE IF t.page[h].next = None THEN NoPos ELSE Pos(t.page[h].next, 1)

(* __bt_first: the first record with the key, or the next greater one.     *)
RECURSIVE WalkBack(_, _, _, _)
WalkBack(t, h, i, key) ==
    LET q == IF i > 1 THEN Pos(h, i - 1)
             ELSE IF t.page[h].prev = None THEN NoPos
             ELSE Pos(t.page[h].prev, Len(t.page[t.page[h].prev].recs))
    IN  IF q # NoPos /\ Cmp(t.page[q.pg], q.i, key) = 0
        THEN WalkBack(t, q.pg, q.i, key) ELSE Pos(h, i)

First(t, key) ==
    LET e == Search(t, key)
    IN  IF e.exact THEN IF Dups THEN WalkBack(t, e.pg, e.i, key) ELSE Pos(e.pg, e.i)
        ELSE OrNext(t, e.pg, e.i)

(* Variant of the next operator with a bug: whatever was deleted under the *)
(* cursor, the next index is taken.                                        *)
AdvanceSkips(t) == OrNext(t, t.cursor.pg, t.cursor.i + 1)

(* __bt_seqadv for R_NEXT *)
Advance(t) ==
    LET c == t.cursor
    IN  IF c.acquire THEN First(t, c.key)
        ELSE IF c.after THEN Pos(c.pg, c.i)
        ELSE OrNext(t, c.pg, c.i + 1)

(* __bt_setcur *)
SetCursor(t, pos) == [t EXCEPT !.cursor = [NoCursor EXCEPT !.init = TRUE, !.pg = pos.pg, !.i = pos.i]]

At(t, pos) == Record(t.page[pos.pg].recs[pos.i])

(* What __bt_seq returns: a record, or RET_SPECIAL when there is none. *)
Return(pos, rest) ==
    /\ scan' = (pos # NoPos)
    /\ tree' = IF pos = NoPos THEN tree ELSE SetCursor(tree, pos)
    /\ current' = IF pos = NoPos THEN {} ELSE {At(tree, pos)}
    /\ todo' = rest \ current'
    /\ UNCHANGED <<stored, nput, deleted>>

SeqFirst ==
    LET h == LeftmostLeaf(tree, Root)
    IN  Return(IF tree.page[h].recs = <<>> THEN NoPos ELSE Pos(h, 1), stored)

SeqKey(k) == Return(First(tree, k), {r \in stored : r.key >= k})

SeqNext == scan /\ Return(Advance(tree), todo)
-----------------------------------------------------------------------------
Init ==
    /\ tree = EmptyTree
    /\ stored = {} /\ nput = 0 /\ deleted = FALSE
    /\ scan = FALSE /\ todo = {} /\ current = {}

Next ==
    \/ \E k \in Key : Put(k) \/ Delete(k) \/ SeqKey(k)
    \/ DeleteCursor \/ SeqFirst \/ SeqNext

Spec == Init /\ [][Next]_vars
-----------------------------------------------------------------------------
Pages == DOMAIN tree.page

(* The leaves, along their links and down from the root. *)
RECURSIVE Chain(_), Below(_), InTree(_), FreeList(_)
Chain(pg) == IF pg = None THEN <<>> ELSE <<pg>> \o Chain(tree.page[pg].next)
Below(pg) ==
    IF tree.page[pg].type = "leaf" THEN <<pg>>
    ELSE FlattenSeq([i \in 1 .. Len(tree.page[pg].recs) |-> Below(tree.page[pg].recs[i].pg)])
InTree(pg) ==
    {pg} \cup IF tree.page[pg].type = "leaf" THEN {}
              ELSE UNION {InTree(e.pg) : e \in ToSet(tree.page[pg].recs)}
FreeList(pg) == IF pg = None THEN {} ELSE {pg} \cup FreeList(tree.page[pg].next)

Leaves == Chain(LeftmostLeaf(tree, Root))
Records == FlattenSeq([i \in 1 .. Len(Leaves) |-> tree.page[Leaves[i]].recs])

(* Pages, their links and their sizes; no page holds more than fits on it. *)
TypeOK ==
    /\ \A pg \in Pages : /\ tree.page[pg].type \in {"leaf", "node", "overflow", "new"}
                         /\ {tree.page[pg].prev, tree.page[pg].next} \subseteq Pages \cup {None}
                         /\ Units(tree.page[pg].recs) <= Room
    /\ tree.free \in Pages \cup {None}
    /\ tree.order \in {"not", "forward", "back"}
    /\ stored \subseteq [key : Key, dat : 1 .. MaxPut]
    /\ nput \in 0 .. MaxPut
    /\ {scan, deleted} \subseteq BOOLEAN
    /\ todo \subseteq stored /\ current \subseteq stored

(* The leaves hold the stored records, each once, in the order of keys.    *)
HoldsRecords ==
    /\ {Record(Records[i]) : i \in 1 .. Len(Records)} = stored
    /\ Len(Records) = Cardinality(stored)
    /\ \A i \in 1 .. Len(Records) - 1 : Records[i].key <= Records[i + 1].key

(* The way down from the root and the way along the links lead to the same *)
(* leaves in the same order, whatever pages were split, emptied and freed. *)
LinksAgree ==
    /\ Below(Root) = Leaves
    /\ \A i \in 1 .. Len(Leaves) :
         tree.page[Leaves[i]].prev = IF i = 1 THEN None ELSE Leaves[i - 1]

(* __bt_search: "the EPG for matching record, if any".  Every stored key   *)
(* is found, and no other one.                                             *)
SearchFinds ==
    \A k \in Key : LET e == Search(tree, k)
                   IN  /\ e.exact <=> \E r \in stored : r.key = k
                       /\ e.exact => tree.page[e.pg].recs[e.i].key = k

(* Every page of the file is in the tree, holds the data of a record, or is *)
(* on the free list, and is one of these only: an allocation never hands   *)
(* out a page that is in use, and no page is lost when records are deleted *)
(* or replaced.                                                            *)
PagesAccounted ==
    LET ovfl == {Records[i].ovfl : i \in 1 .. Len(Records)} \ {None}
        tops == InTree(Root)
        free == FreeList(tree.free)
    IN  /\ tops \cup ovfl \cup free = Pages
        /\ Cardinality(tops) + Cardinality(ovfl) + Cardinality(free) = Cardinality(Pages)

(* The file is a tree: its pages are well formed, both ways through them   *)
(* agree, and each has one use.  A page is split, emptied, unlinked and    *)
(* freed level by level, and each step must leave all three as they were.  *)
TreeSound == TypeOK /\ LinksAgree /\ PagesAccounted

(* A scan returns every record that is in the tree throughout, once, and   *)
(* the records deleted at the cursor do not make it miss others.           *)
ScanReturnsAll ==
    [][SeqNext => /\ current' \subseteq todo
                  /\ ~scan' => todo = {}]_vars

(* While a scan is under way the cursor is at the record it returned, or   *)
(* knows where that record was, whatever happened to the pages since.      *)
CursorStays ==
    scan /\ current # {} =>
        /\ tree.cursor.init /\ ~tree.cursor.acquire
        /\ tree.cursor.i <= Len(tree.page[tree.cursor.pg].recs)
        /\ At(tree, Pos(tree.cursor.pg, tree.cursor.i)) \in current
=============================================================================
