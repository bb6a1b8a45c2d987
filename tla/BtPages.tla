------------------------------ MODULE BtPages ------------------------------
(***************************************************************************)
(* The pages of a libdb btree: searching it (bt_search.c), splitting its   *)
(* pages (bt_split.c), deleting them (bt_delete.c), the list of free pages *)
(* (bt_page.c) and pages of data too big for a leaf (bt_overflow.c).       *)
(*                                                                         *)
(* The operators work on a tree, the BTREE structure of the code, and      *)
(* return the tree they leave behind.  Page numbers are the code's: 1 is   *)
(* the root and 0, P_INVALID, is no page.  Indices count from 1.  Sizes    *)
(* are in units; an entry of an internal page takes one.                   *)
(***************************************************************************)
EXTENDS Integers, Sequences, SequencesExt, FiniteSets, TLC

CONSTANTS
    Room,     \* the units that fit on a page
    Dups      \* FALSE: B_NODUPS

None == 0                        \* P_INVALID
Root == 1                        \* P_ROOT

(* What an index of a page finds that nobody has filled in. *)
Garbage == [key |-> -1, dat |-> -1, size |-> 1, ovfl |-> None]

Page(type, prev, next, recs) ==
    [type |-> type, prev |-> prev, next |-> next, recs |-> recs, stale |-> -1]

NoCursor == [init |-> FALSE, acquire |-> FALSE, after |-> FALSE, before |-> FALSE,
             pg |-> None, i |-> 1, key |-> -1]

(* __bt_open on an empty file, nroot *)
EmptyTree ==
    [page  |-> (Root :> Page("leaf", None, None, <<>>)),
     free  |-> None,
     order |-> "not", last |-> [pg |-> None, i |-> 1],
     cursor |-> NoCursor]

(* __bt_new takes the page number NewPage(t) from the free list, or else   *)
(* from the end of the file.                                               *)
NewPage(t) == IF t.free # None THEN t.free ELSE Cardinality(DOMAIN t.page) + 1

Alloc(t) ==
    IF t.free # None THEN [t EXCEPT !.free = t.page[t.free].next]
    ELSE [t EXCEPT !.page = @ @@ (NewPage(t) :> Page("new", None, None, <<>>))]

(* __bt_free.  The page keeps its type and its bytes. *)
Free(t, pg) == [t EXCEPT !.page[pg].prev = None, !.page[pg].next = t.free, !.free = pg]

(* __ovfl_put, for data that needs one page, and __ovfl_delete *)
OverflowPut(t) == [Alloc(t) EXCEPT !.page[NewPage(t)] = Page("overflow", None, None, <<>>)]

(* Variant of the next operator with a bug: the page is forgotten.         *)
OverflowDeleteNot(t, pg) == t
OverflowDelete(t, pg) == IF pg = None THEN t ELSE Free(t, pg)
-----------------------------------------------------------------------------
(* __bt_cmp: the first entry of the leftmost page of an internal level is  *)
(* less than every key.                                                    *)
KeyAt(p, i) == IF p.recs = <<>> THEN p.stale ELSE p.recs[i].key

Cmp(p, i, key) ==
    IF i = 1 /\ p.prev = None /\ p.type # "leaf" THEN 1 ELSE key - KeyAt(p, i)

(* The binary search of one page: an equal entry, or the index of the      *)
(* first that is greater.                                                  *)
Look(p, key) ==
    LET look[base \in Nat, lim \in Nat] ==
            IF lim = 0 THEN [exact |-> FALSE, i |-> base]
            ELSE LET i == base + lim \div 2
                     c == Cmp(p, i, key)
                 IN  IF c = 0 THEN [exact |-> TRUE, i |-> i]
                     ELSE IF c > 0 THEN look[i + 1, (lim - 1) \div 2]
                     ELSE look[base, lim \div 2]
    IN  look[1, Len(p.recs)]

(* __bt_search: descend, noting on the stack the entries taken.  On a leaf *)
(* without the key, when duplicates are allowed, the key may still be next *)
(* door (__bt_sprev, __bt_snext); the stack stays that of the first leaf.  *)
RECURSIVE SearchFrom(_, _, _, _)
SearchFrom(t, pg, key, stack) ==
    LET p == t.page[pg]
        l == Look(p, key)
        up == IF l.exact \/ l.i = 1 THEN l.i ELSE l.i - 1
        Found(q, i, e) == [pg |-> q, i |-> i, exact |-> e, stack |-> stack]
        prev == t.page[p.prev]
        next == t.page[p.next]
    IN  IF p.type = "node"
        THEN SearchFrom(t, p.recs[up].pg, key, Append(stack, [pg |-> pg, i |-> up]))
        ELSE IF ~l.exact /\ Dups /\ l.i = 1 /\ p.prev # None
                /\ Cmp(prev, Len(prev.recs), key) = 0
        THEN Found(p.prev, Len(prev.recs), TRUE)
        ELSE IF ~l.exact /\ Dups /\ l.i = Len(p.recs) + 1 /\ p.next # None
                /\ Cmp(next, 1, key) = 0
        THEN Found(p.next, 1, TRUE)
        ELSE Found(pg, l.i, l.exact)

Search(t, key) == SearchFrom(t, Root, key, <<>>)
-----------------------------------------------------------------------------
(* Splitting.                                                              *)

Units(recs) == FoldLeft(LAMBDA n, r : n + r.size, 0, recs)

(* The loop of bt_psplit that fills the left page: off is the last index   *)
(* of the left page, nxt the number of old entries on it (off counts from  *)
(* 0, as skip does).                                                       *)
SplitPoint(recs, skip, item) ==
    LET go[nxt \in Nat, off \in Nat, used \in Nat] ==
            LET size == IF skip = off THEN item.size ELSE recs[nxt + 1].size
                nxt1 == IF skip = off THEN nxt ELSE nxt + 1
            IN  IF (skip <= off /\ used + size >= Room) \/ nxt = Len(recs) - 1
                THEN [off |-> off - 1, nxt |-> nxt]
                ELSE IF 2 * (used + size) >= Room
                THEN [off |-> off, nxt |-> nxt1]
                ELSE go[nxt1, off + 1, used + size]
    IN  go[0, 0, 0]

(* bt_psplit: the cursor follows its record.                               *)
SplitCursor(c, h, l, r, skip, nxt) ==
    IF c.init /\ c.pg = h
    THEN LET i == IF c.i - 1 >= skip THEN c.i ELSE c.i - 1
         IN  IF i < nxt THEN [c EXCEPT !.pg = l, !.i = i + 1]
             ELSE [c EXCEPT !.pg = r, !.i = i - nxt + 1]
    ELSE c

(* bt_page and bt_root with bt_psplit, and the insertion of item at the    *)
(* index i that they leave open.  An appended entry at the right edge of a *)
(* level gets a page of its own; else the entries are distributed.  When   *)
(* the new entry alone fills the left page, another index is left open at  *)
(* the start of the right one.                                             *)
SplitPage(t, h, i, item) ==
    LET p  == t.page[h]
        l  == IF h = Root THEN NewPage(t) ELSE h
        t1 == IF h = Root THEN Alloc(t) ELSE t
        r  == NewPage(t1)
        t2 == Alloc(t1)
        all == InsertAt(p.recs, i, item)
        s  == SplitPoint(p.recs, i - 1, item)
        right == IF i - 1 <= s.off /\ s.nxt = 0 THEN <<Garbage>> \o p.recs
                 ELSE SubSeq(all, s.off + 2, Len(all))
        appended == h # Root /\ p.next = None /\ i = Len(p.recs) + 1
        lprev == IF h = Root THEN None ELSE p.prev
        rnext == IF h = Root THEN None ELSE p.next
        left  == Page(p.type, lprev, r, IF appended THEN p.recs ELSE SubSeq(all, 1, s.off + 1))
        pages == [t2.page EXCEPT ![l] = left,
                                 ![r] = Page(p.type, l, rnext, IF appended THEN <<item>> ELSE right)]
    IN  [l |-> l, r |-> r,
         t |-> [t2 EXCEPT !.page = IF rnext = None THEN pages
                                   ELSE [pages EXCEPT ![rnext].prev = r],
                          !.cursor = IF appended THEN @
                                     ELSE SplitCursor(@, h, l, r, i - 1, s.nxt)]]

(* The key by which a parent tells r from its left sibling l: a prefix     *)
(* that is just greater than the last key of l (bt_pfx), or the whole key  *)
(* near the left edge of a level, on higher levels, and between equals.    *)
Separator(t, l, r, parent, skip) ==
    LET a == Last(t.page[l].recs).key
        b == Head(t.page[r].recs).key
    IN  IF t.page[r].type = "leaf" /\ (t.page[parent].prev # None \/ skip > 2) /\ a < b
        THEN a + 1 ELSE b

Entry(key, pg) == [key |-> key, pg |-> pg, size |-> 1]

(* bt_broot: a split root becomes the parent of its two halves.            *)
NewRoot(t, l, r) ==
    [t EXCEPT !.page[Root] =
        Page("node", None, None,
             <<Entry(0, l), Entry(Head(t.page[r].recs).key, r)>>)]

(* A variant of the loop of __bt_split with a bug: the entry of the new    *)
(* page goes before that of the page it was split from.                    *)
ParentIndexLow(i) == i
ParentIndex(i) == i + 1

(* The loop of __bt_split that enters r into the parents.                  *)
RECURSIVE EnterParent(_, _, _, _)
EnterParent(t, l, r, stack) ==
    IF stack = <<>> THEN t
    ELSE LET h    == Last(stack).pg
             skip == ParentIndex(Last(stack).i)
             item == Entry(Separator(t, l, r, h, skip), r)
             s    == SplitPage(t, h, skip, item)
         IN  IF Units(t.page[h].recs) + item.size <= Room
             THEN [t EXCEPT !.page[h].recs = InsertAt(@, skip, item)]
             ELSE EnterParent(IF h = Root THEN NewRoot(s.t, s.l, s.r) ELSE s.t,
                              s.l, s.r, Front(stack))

(* __bt_split *)
Split(t, h, i, item, stack) ==
    LET s == SplitPage(t, h, i, item)
    IN  EnterParent(IF h = Root THEN NewRoot(s.t, s.l, s.r) ELSE s.t, s.l, s.r, stack)
-----------------------------------------------------------------------------
(* Deleting.                                                               *)

(* Variant of the next operator with a bug: only forward links.            *)
RelinkHalf(t, pg) ==
    LET p == t.page[pg]
    IN  IF p.prev = None THEN t ELSE [t EXCEPT !.page[p.prev].next = p.next]

(* __bt_relink *)
Relink(t, pg) ==
    LET p == t.page[pg]
        t1 == IF p.next = None THEN t ELSE [t EXCEPT !.page[p.next].prev = p.prev]
    IN  IF p.prev = None THEN t1 ELSE [t1 EXCEPT !.page[p.prev].next = p.next]

(* __bt_pdelete: take the entry of an empty page out of the parents, free  *)
(* the parents that this empties, and then the page.  The root stays: it   *)
(* becomes an empty leaf.                                                  *)
RECURSIVE LeaveParent(_, _)
LeaveParent(t, stack) ==
    IF stack = <<>> THEN t
    ELSE LET h == Last(stack).pg
             p == t.page[h]
         IN  IF Len(p.recs) > 1 THEN [t EXCEPT !.page[h].recs = RemoveAt(@, Last(stack).i)]
             ELSE IF h = Root
             THEN [t EXCEPT !.page[h] = Page("leaf", None, None, <<>>)]
             ELSE LeaveParent(Free(Relink(t, h), h), Front(stack))

PageDelete(t, h, stack) ==
    LET t1 == LeaveParent(t, stack)
    IN  IF h = Root THEN t1 ELSE Free(Relink(t1, h), h)

(* __bt_curdel: the record under the cursor is about to be deleted.  The   *)
(* cursor moves to a duplicate, before it or after it, or keeps the key.   *)
CursorDelete(t, h, i) ==
    LET p == t.page[h]
        key == p.recs[i].key
        last == Len(p.recs)
        prev == t.page[p.prev]
        next == t.page[p.next]
        c == [t.cursor EXCEPT !.acquire = FALSE, !.after = FALSE, !.before = FALSE]
        Before(pg, j) == [c EXCEPT !.before = TRUE, !.pg = pg, !.i = j]
        After(pg, j)  == [c EXCEPT !.after = TRUE, !.pg = pg, !.i = j]
    IN  IF Dups /\ i > 1 /\ p.recs[i - 1].key = key THEN Before(h, i - 1)
        ELSE IF Dups /\ i < last /\ p.recs[i + 1].key = key THEN After(h, i + 1)
        ELSE IF Dups /\ i = 1 /\ p.prev # None /\ Last(prev.recs).key = key
        THEN Before(p.prev, Len(prev.recs))
        ELSE IF Dups /\ i = last /\ p.next # None /\ Head(next.recs).key = key
        THEN After(p.next, 1)
        ELSE [c EXCEPT !.acquire = TRUE, !.key = key]

CursorOn(t, h) == t.cursor.init /\ ~t.cursor.acquire /\ t.cursor.pg = h

(* Variant of the next operator with a bug: the cursor is not adjusted.    *)
CursorShiftNot(t, h, i) == t

(* The cursor of a page that lost its record i.                            *)
CursorShift(t, h, i) ==
    IF CursorOn(t, h) /\ t.cursor.i > i THEN [t EXCEPT !.cursor.i = @ - 1] ELSE t

(* __bt_dleaf *)
LeafDelete(t, h, i) ==
    LET rec == t.page[h].recs[i]
        t1  == IF CursorOn(t, h) /\ t.cursor.i = i
               THEN [t EXCEPT !.cursor = CursorDelete(t, h, i)] ELSE t
        t2  == OverflowDelete(t1, rec.ovfl)
    IN  CursorShift([t2 EXCEPT !.page[h].recs = RemoveAt(@, i),
                               !.page[h].stale = rec.key], h, i)

(* __bt_bdelete without duplicates; the tag files that allow them never    *)
(* delete by key.                                                          *)
DeleteKey(t, key) ==
    LET s == Search(t, key)
        one == LeafDelete(t, s.pg, s.i)
    IN  IF ~s.exact THEN t
        ELSE IF one.page[s.pg].recs = <<>> THEN PageDelete(one, s.pg, s.stack) ELSE one

(* __bt_stkacq: the stack of the page of the cursor.  The key of a cursor  *)
(* on a record is the empty one, so the search starts at the leftmost leaf *)
(* and moves right, page by page, fixing the stack.                        *)
RECURSIVE Restore(_, _, _), MoveUp(_, _, _), MoveRight(_, _, _, _)
Restore(t, stack, level) ==
    IF level = 0 THEN stack
    ELSE LET top == Last(stack)
         IN  Restore(t, Append(stack, [pg |-> t.page[top.pg].recs[top.i].pg, i |-> 1]),
                     level - 1)

MoveUp(t, stack, level) ==
    IF stack = <<>> THEN <<>>
    ELSE LET top == Last(stack)
         IN  IF top.i # Len(t.page[top.pg].recs)
             THEN Restore(t, Append(Front(stack), [top EXCEPT !.i = @ + 1]), level)
             ELSE MoveUp(t, Front(stack), level + 1)

MoveRight(t, h, stack, pg) ==
    IF h = pg \/ t.page[h].next = None THEN stack
    ELSE MoveRight(t, t.page[h].next, MoveUp(t, stack, 0), pg)

AcquireStack(t, pg) ==
    LET s == Search(t, -1) IN MoveRight(t, s.pg, s.stack, pg)
=============================================================================
