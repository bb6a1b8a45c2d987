----------------------------- MODULE TagReader -----------------------------
(***************************************************************************)
(* Reading a tag file: gtags_first and gtags_next (gtagsop.c) over         *)
(* dbop_first, dbop_next and dbop_unread (dbop.c).  A step is one call of  *)
(* dbop_first or dbop_next, and what is done with the record it returns.   *)
(*                                                                         *)
(* A tag name is a natural number, in the order of strcmp.  A record is a  *)
(* name and a file id; its line is abstracted.  Below is a btree, that is, *)
(* the sequence of its records and a cursor, or a table of SQLite 3, where *)
(* a query reads the records of a key or prefix in the order of keys.      *)
(***************************************************************************)
EXTENDS Naturals, Sequences, FiniteSets, FiniteSetsExt

CONSTANTS
    Name,      \* the tag names
    Upper,     \* the keys that start with one letter, in upper case
    Lower,     \* the keys that start with it in lower case; {} if it has none
    Fid,       \* the file ids
    Rank,      \* Rank[f]: where the path of f comes in the order of paths
    MaxRec,    \* bound on the records of the tag file
    Patterns,  \* the patterns asked for
    IcaseRefs  \* TRUE: lists of references are asked for ignoring case, too

Meta == 0      \* the keys of meta records, " __.VERSION" and others

(* The names that start with a prefix follow each other. *)
Consecutive(S) ==
    /\ S # {} /\ S \subseteq Nat \ {Meta}
    /\ \A x, y \in S, n \in Name : x <= n /\ n <= y => n \in S

ASSUME ReaderAssumption ==
    /\ Name \subseteq Nat \ {Meta} /\ MaxRec \in Nat
    /\ Consecutive(Upper) /\ (Lower = {} \/ Consecutive(Lower))
    /\ \A u \in Upper, l \in Lower : u < l
    /\ Fid \subseteq Nat /\ Rank \in [Fid -> Nat]
    /\ \A f, h \in Fid : Rank[f] = Rank[h] => f = h
    /\ IcaseRefs \in BOOLEAN
    /\ \A p \in Patterns :
          /\ p.kind \in {"any", "name", "prefix", "regex", "icase"}
          /\ p.kind \in {"name", "prefix"} => Consecutive(p.names)
          /\ p.kind = "icase" => p.names \subseteq Upper \cup Lower

VARIABLES
    file,     \* the records of the tag file, in the order of the btree
    defined,  \* the names in it that GTAGS defines
    engine,   \* what holds the records: "btree" or "sqlite"
    db, mode, \* what is asked for: GTAGS, GRTAGS or GSYMS, by tag, key or path
    pattern,
    range,    \* gtop->key: the keys it selects, all of them when it is NULL
    prefix,   \* gtop->prefix: TRUE until the lower case pass begins
    d,        \* the DBOP: its cursor, lastdat and lastkey, unread, prev, done
    pool,     \* gtop->vb or path_hash: what is gathered to be sorted
    seg,      \* the rest of gtp_array, or of path_array
    out,      \* history: what the caller got
    call,     \* the function that runs
    pc        \* what it does next: "first" and "next" call the DBOP

query == <<file, defined, engine, db, mode, pattern>>
vars == <<query, range, prefix, d, pool, seg, out, call, pc>>

Rec(i) == file[i]
Size == Len(file)
-----------------------------------------------------------------------------
(* dbop.c.  An operation returns a record: i, the index of the record that *)
(* it found or 0, and d, the DBOP it leaves.                               *)

InRange(i) == Rec(i).key \in range

(* regexec, where a regular expression was compiled *)
Matches(i) == pattern.kind \in {"regex", "icase"} => Rec(i).key \in pattern.names

(* DBOP_KEY: the key was returned before. *)
SameKey(i) == mode = "key" /\ Rec(i).key = d.prev

At(i) == [i |-> i, d |-> [d EXCEPT !.cursor = i, !.last = i, !.prev = Rec(i).key]]
Nothing(c) == [i |-> 0, d |-> [d EXCEPT !.cursor = c]]

(* The loops over R_CURSOR or R_FIRST and R_NEXT stop at the first record  *)
(* that is outside of the range, or that matches.  Unread stays as it is.  *)
BtreeFirst ==
    LET from == {i \in 1 .. Size : Rec(i).key >= Min(range)}
        stop == {i \in from : ~InRange(i) \/ (Rec(i).key # Meta /\ Matches(i))}
    IN  IF from = {} THEN [i |-> 0, d |-> d]
        ELSE IF stop = {} THEN Nothing(Size)
        ELSE IF InRange(Min(stop)) THEN At(Min(stop)) ELSE Nothing(Min(stop))

(* The end of the btree leaves its cursor where it is. *)
BtreeNext ==
    LET stop == {i \in d.cursor + 1 .. Size :
                    Rec(i).key # Meta /\ ~SameKey(i) /\ (~InRange(i) \/ Matches(i))}
    IN  IF stop = {} THEN Nothing(Size)
        ELSE IF InRange(Min(stop)) THEN At(Min(stop)) ELSE [At(Min(stop)) EXCEPT !.i = 0]

(* A query selects the records of its range; at its end done is set, and   *)
(* nothing is returned until the next query.                               *)
Rows == {i \in 1 .. Size : InRange(i) /\ Rec(i).key # Meta /\ Matches(i)}

Dbop3First ==
    IF Rows = {} THEN [i |-> 0, d |-> [d EXCEPT !.done = TRUE, !.last = 0]]
    ELSE [At(Min(Rows)) EXCEPT !.d.done = FALSE]

Dbop3Next ==
    LET rows == {i \in Rows : i > d.cursor /\ ~SameKey(i)}
    IN  IF d.done THEN [i |-> 0, d |-> d]
        ELSE IF rows = {} THEN [i |-> 0, d |-> [d EXCEPT !.done = TRUE, !.last = 0]]
        ELSE At(Min(rows))

DbopFirst == IF engine = "sqlite" THEN Dbop3First ELSE BtreeFirst

DbopNext ==
    IF d.unread THEN [i |-> d.last, d |-> [d EXCEPT !.unread = FALSE]]
    ELSE IF engine = "sqlite" THEN Dbop3Next ELSE BtreeNext

(* (A variant with a bug does not put the record back.) *)
DbopUnreadNot(x) == x
DbopUnread(x) == [x EXCEPT !.unread = TRUE]
-----------------------------------------------------------------------------
(* VIRTUAL_GRTAGS_GSYMS_PROCESSING: GRTAGS holds the references to names   *)
(* that GTAGS defines, and GSYMS, which is no file, all the others.        *)
Wanted(name) == CASE db = "GTAGS"  -> TRUE
                  [] db = "GRTAGS" -> name \in defined
                  [] db = "GSYMS"  -> name \notin defined

(* The qsort of a segment or of the paths: an entry goes where as many     *)
(* paths are before it.  (A variant with a bug leaves it out.)             *)
SortedNot(S) ==
    [k \in 1 .. Cardinality(S) |->
        CHOOSE r \in S : Cardinality({q \in S : q.fid < r.fid}) = k - 1]
Sorted(S) ==
    [k \in 1 .. Cardinality(S) |->
        CHOOSE r \in S : Cardinality({q \in S : Rank[q.fid] < Rank[r.fid]}) = k - 1]

(* gtop->key and gtop->prefix as gtags_first chooses them.                 *)
GtagsFirst ==
    /\ pc = "open" /\ pc' = "first" /\ call' = "gtags_first"
    /\ range' = CASE pattern.kind \in {"name", "prefix"} -> pattern.names
                  [] pattern.kind = "icase" -> Upper
                  [] OTHER -> Name \cup {Meta}
    /\ prefix' = (pattern.kind = "icase")
    /\ UNCHANGED <<query, d, pool, seg, out>>

(* Paths, and the records of a segment, come out of an array. *)
NextOfArray ==
    /\ pc = "reading" /\ seg # <<>>
    /\ out' = Append(out, Head(seg)) /\ seg' = Tail(seg)
    /\ UNCHANGED <<query, range, prefix, d, pool, call, pc>>

EndOfPaths ==
    /\ pc = "reading" /\ seg = <<>> /\ mode = "path"
    /\ pc' = "done"
    /\ UNCHANGED <<query, range, prefix, d, pool, seg, out, call>>

GtagsNext ==
    /\ pc = "reading" /\ seg = <<>> /\ mode # "path"
    /\ pc' = "next" /\ call' = "gtags_next"
    /\ UNCHANGED <<query, range, prefix, d, pool, seg, out>>

(* What the DBOP returns to the loop at hand.  The record that gtags_first *)
(* begins a segment with is not filtered, only put back.                   *)
Read == IF pc = "first" THEN DbopFirst ELSE DbopNext
Unfiltered == mode = "tag" /\ pc = "first"
Takes(e) == e.i # 0 /\ ~Unfiltered /\ Wanted(Rec(e.i).key)

PassOver(e) ==
    /\ e.i # 0 /\ ~Unfiltered /\ ~Wanted(Rec(e.i).key)
    /\ d' = e.d /\ pc' = "next"
    /\ UNCHANGED <<query, range, prefix, pool, seg, out, call>>

BeginSegment(e) ==
    /\ Unfiltered /\ e.i # 0
    /\ d' = DbopUnread(e.d) /\ pc' = "next"
    /\ UNCHANGED <<query, range, prefix, pool, seg, out, call>>

ReturnKey(e) ==
    /\ mode = "key" /\ Takes(e)
    /\ out' = Append(out, [key |-> Rec(e.i).key])
    /\ d' = e.d /\ pc' = "reading"
    /\ UNCHANGED <<query, range, prefix, pool, seg, call>>

GatherPath(e) ==
    /\ mode = "path" /\ Takes(e)
    /\ pool' = pool \cup {[fid |-> Rec(e.i).fid]}
    /\ d' = e.d /\ pc' = "next"
    /\ UNCHANGED <<query, range, prefix, seg, out, call>>

(* segment_read: the wanted records of the next tag name *)
Gather(e) ==
    /\ mode = "tag" /\ Takes(e)
    /\ \A q \in pool : q.key = Rec(e.i).key
    /\ pool' = pool \cup {Rec(e.i)}
    /\ d' = e.d
    /\ UNCHANGED <<query, range, prefix, seg, out, call, pc>>

(* The array is sorted, and its first entry returned. *)
Deliver ==
    /\ out' = Append(out, Head(Sorted(pool))) /\ seg' = Tail(Sorted(pool))
    /\ pool' = {} /\ pc' = "reading"
    /\ UNCHANGED <<query, range, prefix, call>>

(* The record that ends the segment is put back. *)
NextSegment(e) ==
    /\ mode = "tag" /\ Takes(e)
    /\ \E q \in pool : q.key # Rec(e.i).key
    /\ Deliver /\ d' = DbopUnread(e.d)

LastSegment(e) == mode = "tag" /\ e.i = 0 /\ pool # {} /\ Deliver /\ d' = e.d

(* gtags_restart: a second pass, with the lower case prefix.  When the     *)
(* first segment is empty, gtags_first does not try.                       *)
Restarts == prefix /\ Lower # {} /\ ~(mode = "tag" /\ call = "gtags_first" /\ pc = "next")

Restart(e) ==
    /\ e.i = 0 /\ (mode = "tag" => pool = {}) /\ Restarts
    /\ range' = Lower /\ prefix' = FALSE
    /\ d' = e.d /\ pc' = "first"
    /\ UNCHANGED <<query, pool, seg, out, call>>

SortPaths(e) == mode = "path" /\ e.i = 0 /\ ~Restarts /\ pool # {} /\ Deliver /\ d' = e.d

EndOfFile(e) ==
    /\ e.i = 0 /\ pool = {} /\ ~Restarts
    /\ d' = e.d /\ pc' = "done"
    /\ UNCHANGED <<query, range, prefix, pool, seg, out, call>>

DbopReturns ==
    /\ pc \in {"first", "next"}
    /\ \/ PassOver(Read) \/ BeginSegment(Read)
       \/ ReturnKey(Read) \/ GatherPath(Read) \/ Gather(Read)
       \/ NextSegment(Read) \/ LastSegment(Read)
       \/ Restart(Read) \/ SortPaths(Read) \/ EndOfFile(Read)

(* gtags_close, and the caller's end *)
Closed == pc = "done" /\ UNCHANGED vars
-----------------------------------------------------------------------------
(* The tag files that a run of gtags can leave: one record for a name and  *)
(* a file, in the order of names, after the meta records.                  *)
TagRecord == [key : Name, fid : Fid]
Follows(r, q) == q.key < r.key \/ (q.key = r.key /\ q.fid < r.fid)

Contents ==
    {s \in UNION {[1 .. n -> TagRecord] : n \in 0 .. MaxRec} :
        \A i, j \in DOMAIN s : i < j => Follows(s[j], s[i])}

Init ==
    /\ \E s \in Contents : file = <<[key |-> Meta, fid |-> 0]>> \o s
    /\ defined \in SUBSET {Rec(i).key : i \in 2 .. Size}
    /\ db \in {"GTAGS", "GRTAGS", "GSYMS"}
    /\ db = "GTAGS" => defined = {Rec(i).key : i \in 2 .. Size}
    /\ mode \in {"tag", "key", "path"} /\ engine \in {"btree", "sqlite"}
    /\ pattern \in {p \in Patterns :
          ~IcaseRefs => ~(p.kind = "icase" /\ mode = "tag" /\ db # "GTAGS")}
    /\ range = {} /\ prefix = FALSE
    /\ d = [cursor |-> 0, last |-> 0, unread |-> FALSE, prev |-> Meta, done |-> FALSE]
    /\ pool = {} /\ seg = <<>> /\ out = <<>> /\ call = "gtags_open" /\ pc = "open"

Next == GtagsFirst \/ NextOfArray \/ EndOfPaths \/ GtagsNext \/ DbopReturns \/ Closed

Spec == Init /\ [][Next]_vars
-----------------------------------------------------------------------------
(* The records that the query asks for. *)
Asked ==
    {Rec(i) : i \in {k \in 1 .. Size :
        /\ Rec(k).key # Meta /\ Wanted(Rec(k).key)
        /\ pattern.kind = "any" \/ Rec(k).key \in pattern.names}}

Answer == CASE mode = "tag"  -> Asked
            [] mode = "key"  -> {[key |-> r.key] : r \in Asked}
            [] mode = "path" -> {[fid |-> r.fid] : r \in Asked}

(* A search returns exactly what it was asked for, each once, whatever the *)
(* method of reading: by key, by prefix, through a regular expression, in  *)
(* two passes when case is ignored ("GTOP_IGNORECASE: ignore case          *)
(* distinction", gtags_first), and through the filter that makes GRTAGS    *)
(* and GSYMS of one file.                                                  *)
AnswersExactly ==
    pc = "done" => Range(out) = Answer /\ Len(out) = Cardinality(Answer)

(* The order that segment_read promises, name and then path, although a    *)
(* segment ends with a record that belongs to the next.                    *)
InOrder ==
    \A i, j \in 1 .. Len(out) : i < j =>
        CASE mode = "tag"  -> \/ out[i].key < out[j].key
                              \/ out[i].key = out[j].key /\ Rank[out[i].fid] < Rank[out[j].fid]
          [] mode = "key"  -> out[i].key < out[j].key
          [] mode = "path" -> Rank[out[i].fid] < Rank[out[j].fid]
=============================================================================
