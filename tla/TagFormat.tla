----------------------------- MODULE TagFormat -----------------------------
(***************************************************************************)
(* The compact format of tag records: flush_pool (gtagsop.c) writes the    *)
(* lines of a tag in a file as differences and ranges, split into records; *)
(* put_compact_format (output.c) unfolds the records that a search returns *)
(* and reads the source files on, line by line, for the image of each line.*)
(*                                                                         *)
(* Tags and files are natural numbers in the order of their names.  The    *)
(* length of a record is counted in numbers, not in bytes.                 *)
(***************************************************************************)
EXTENDS Naturals, Sequences, SequencesExt, FiniteSets

CONSTANTS
    Tags, Files,   \* the tag names and the source files
    KeyOf,         \* KeyOf[x]: the key of tag x, another one with extractmethod
    Tables,        \* what is put: tables of line numbers by file and tag
    Lengths,       \* the numbers of lines that a file may have when it is read
    MaxLen,        \* DBOP_PAGESIZE / 4
    MayVanish      \* TRUE: a file may be missing when it is read

ASSUME FormatAssumption ==
    /\ Tags \subseteq Nat \ {0} /\ Files \subseteq Nat \ {0}
    /\ IsFiniteSet(Tags) /\ IsFiniteSet(Files)
    /\ KeyOf \in [Tags -> Nat \ {0}]
    /\ \A x \in Tables : x \in [Files \X Tags -> Seq(Nat \ {0})]
    /\ Lengths \subseteq Nat /\ MaxLen \in Nat /\ MayVanish \in BOOLEAN

VARIABLES
    table,      \* gtop->path_hash for each file: the lines put for each tag
    lines,      \* lines[f]: the number of lines that file f has when it is read,
    gone,       \* and the files that are no more
    toFlush,    \* the files of which gtags_flush is still to come
    path_hash,  \* the entries of gtop->path_hash that flush_pool has still to write
    rec,        \* the record that flush_pool makes, and later the one that
                \* put_compact_format shows
    left,       \* the indices of lno_array that the loop has still to come to
    pos,        \* where p is in tagline; 0 until put_compact_format runs
    last, cont, \* locals of flush_pool, and later of put_compact_format
    recs,       \* the records of the tag file that a search has still to return
    curpath, curtag, cur_lineno, last_lineno, fp, src,  \* of output.c
    shown       \* history: what convert_put_using got

pvars == <<table, lines, gone>>
wvars == <<toFlush, path_hash, left>>
ovars == <<curpath, curtag, cur_lineno, last_lineno, fp, src, shown>>
fvars == <<pvars, wvars, ovars, rec, pos, last, cont, recs>>

NoLine  == <<>>          \* the empty image
NoRec == [tag |-> 0, path |-> 0, nums |-> <<>>]
-----------------------------------------------------------------------------
(* flush_pool.  A record is a sequence of [op, n]: "head" the first      *)
(* number, "," a difference and "-" the length of a range.                 *)

Num(op, n) == [op |-> op, n |-> n]

(* gtags_flush, after parse_file for f; between files the pool is empty. *)
GtagsFlush(f) ==
    /\ rec = NoRec /\ path_hash = {} /\ f \in toFlush
    /\ toFlush' = toFlush \ {f}
    /\ path_hash' = {e \in {f} \X Tags : table[e] # <<>>}
    /\ UNCHANGED <<pvars, ovars, rec, left, pos, last, cont, recs>>

(* strhash_first, strhash_next *)
NextEntry(e) ==
    /\ rec = NoRec /\ e \in path_hash
    /\ path_hash' = path_hash \ {e}
    /\ rec' = [tag |-> e[2], path |-> e[1], nums |-> <<>>]
    /\ left' = DOMAIN table[e]
    /\ last' = 0 /\ cont' = 0
    /\ UNCHANGED <<pvars, ovars, toFlush, pos, recs>>

(* The loop over the sorted line numbers: the next one. *)
LineAt(i) == table[<<rec.path, rec.tag>>][i]
AtLine(i) ==
    /\ rec # NoRec /\ pos = 0 /\ i \in left
    /\ \A j \in left : LineAt(i) <= LineAt(j)
    /\ left' = left \ {i}
    /\ UNCHANGED <<pvars, ovars, toFlush, path_hash, pos>>

SameLine(i) == AtLine(i) /\ LineAt(i) = last /\ UNCHANGED <<rec, last, cont, recs>>

OneMore(i) == last > 0 /\ LineAt(i) = last + 1

(* It makes a range, or a longer one, but at the head of a record. *)
LineFollows(i) ==
    /\ AtLine(i) /\ OneMore(i)
    /\ \/ cont # 0 /\ UNCHANGED <<rec, cont>>
       \/ /\ cont = 0 /\ rec.nums = <<>>
          /\ rec' = [rec EXCEPT !.nums = <<Num("head", LineAt(i))>>] /\ UNCHANGED cont
       \/ cont = 0 /\ rec.nums # <<>> /\ cont' = last /\ UNCHANGED rec
    /\ last' = LineAt(i) /\ UNCHANGED recs

(* Ending a range.  (A variant with a bug forgets its last line.) *)
RangeEndShort(q) == IF cont = 0 THEN q ELSE Append(q, Num("-", last - cont - 1))
RangeEnd(q) == IF cont = 0 THEN q ELSE Append(q, Num("-", last - cont))

Added(i) ==
    LET q == RangeEnd(rec.nums)
    IN  Append(q, IF q = <<>> THEN Num("head", LineAt(i)) ELSE Num(",", LineAt(i) - last))

(* dbop_put_tag of a record that is long enough *)
LineApart(i) ==
    /\ AtLine(i) /\ LineAt(i) # last /\ ~OneMore(i)
    /\ IF Len(Added(i)) > MaxLen
       THEN /\ recs' = recs \cup {[rec EXCEPT !.nums = Added(i)]}
            /\ rec' = [rec EXCEPT !.nums = <<>>]
       ELSE rec' = [rec EXCEPT !.nums = Added(i)] /\ UNCHANGED recs
    /\ last' = LineAt(i) /\ cont' = 0

EntryEnd ==
    /\ rec # NoRec /\ pos = 0 /\ left = {}
    /\ LET q == RangeEnd(rec.nums)
       IN  recs' = IF q = <<>> THEN recs ELSE recs \cup {[rec EXCEPT !.nums = q]}
    /\ rec' = NoRec
    /\ UNCHANGED <<pvars, wvars, ovars, pos, last, cont>>
-----------------------------------------------------------------------------
(* The order in which gtags_first and gtags_next return records: by key,   *)
(* path and first line number.                                             *)
First(q) == Head(q.nums).n
Before(q, r) ==
    \/ KeyOf[q.tag] < KeyOf[r.tag]
    \/ KeyOf[q.tag] = KeyOf[r.tag] /\ q.path < r.path
    \/ KeyOf[q.tag] = KeyOf[r.tag] /\ q.path = r.path /\ First(q) < First(r)

(* Reopen or rewind the source file.  After an fopen curtag holds the name *)
(* as compress wrote it, which equals no key.  (A variant with a bug does  *)
(* not rewind.)                                                            *)
Coded == 0
RewoundNot(q) == FALSE
Rewound(q) == First(q) < last_lineno /\ fp = "open"

OpenSource(q) ==
    /\ q.path # curpath
    /\ curpath' = q.path /\ curtag' = Coded
    /\ fp' = IF q.path \in gone THEN "NULL" ELSE "open"
    /\ cur_lineno' = 0 /\ last_lineno' = 0

ChangeTag(q) ==
    /\ q.path = curpath /\ KeyOf[q.tag] # curtag
    /\ curtag' = KeyOf[q.tag]
    /\ cur_lineno' = IF Rewound(q) THEN 0 ELSE cur_lineno
    /\ last_lineno' = 0
    /\ UNCHANGED <<curpath, fp>>

KeepTag(q) ==
    /\ q.path = curpath /\ KeyOf[q.tag] = curtag
    /\ UNCHANGED <<curpath, curtag, fp, cur_lineno, last_lineno>>

(* put_compact_format up to its loop, for the next record of the search *)
ShowRecord(q) ==
    /\ toFlush = {} /\ path_hash = {} /\ rec = NoRec
    /\ q \in recs /\ \A r \in recs : ~Before(r, q)
    /\ OpenSource(q) \/ ChangeTag(q) \/ KeepTag(q)
    /\ rec' = q /\ recs' = recs \ {q}
    /\ pos' = 1 /\ last' = 0 /\ cont' = 0
    /\ UNCHANGED <<pvars, wvars, src, shown>>

(* Reading on to line n and showing it.  End of file closes fp. *)
Reads(n) == last_lineno # n /\ fp = "open" /\ cur_lineno < n

ShowLine(n) ==
    /\ \/ ~Reads(n) /\ UNCHANGED <<fp, cur_lineno, src>>
       \/ /\ Reads(n) /\ n <= lines[rec.path]
          /\ src' = <<rec.path, n>> /\ cur_lineno' = n /\ UNCHANGED fp
       \/ /\ Reads(n) /\ n > lines[rec.path]
          /\ src' = NoLine /\ cur_lineno' = lines[rec.path] /\ fp' = "NULL"
    /\ shown' = Append(shown, [tag |-> rec.tag, path |-> rec.path, line |-> n, src |-> src'])
    /\ last_lineno' = n /\ last' = n
    /\ UNCHANGED <<pvars, wvars, curpath, curtag, rec, recs>>

(* The loop that unfolds the record: within a range, *)
RangeLine == pos > 0 /\ cont > last /\ ShowLine(last + 1) /\ UNCHANGED <<pos, cont>>

(* behind one, *)
RangeOver ==
    /\ pos > 0 /\ cont > 0 /\ cont <= last
    /\ cont' = 0
    /\ UNCHANGED <<pvars, wvars, ovars, rec, pos, last, recs>>

(* and at a number. *)
Number ==
    /\ pos > 0 /\ cont = 0 /\ pos <= Len(rec.nums)
    /\ LET x == rec.nums[pos]
       IN  \/ x.op = "head" /\ ShowLine(x.n) /\ UNCHANGED cont
           \/ x.op = "," /\ ShowLine(last + x.n) /\ UNCHANGED cont
           \/ x.op = "-" /\ ShowLine(last + 1) /\ cont' = last + x.n
    /\ pos' = pos + 1

RecordEnd ==
    /\ pos > Len(rec.nums) /\ pos > 0 /\ cont = 0
    /\ rec' = NoRec /\ pos' = 0
    /\ UNCHANGED <<pvars, wvars, ovars, last, cont, recs>>
-----------------------------------------------------------------------------
AllShown == toFlush = {} /\ path_hash = {} /\ rec = NoRec /\ recs = {}

FormatInit ==
    /\ table \in Tables
    /\ lines \in [Files -> Lengths]
    /\ gone \in IF MayVanish THEN SUBSET Files ELSE {{}}
    /\ toFlush = Files /\ path_hash = {} /\ left = {}
    /\ rec = NoRec /\ pos = 0 /\ last = 0 /\ cont = 0 /\ recs = {}
    /\ curpath = 0 /\ curtag = Coded /\ cur_lineno = 0 /\ last_lineno = 0
    /\ fp = "NULL" /\ src = NoLine /\ shown = <<>>

FormatNext ==
    \/ \E f \in toFlush : GtagsFlush(f)
    \/ \E e \in path_hash : NextEntry(e)
    \/ \E i \in left : SameLine(i) \/ LineFollows(i) \/ LineApart(i)
    \/ EntryEnd
    \/ \E q \in recs : ShowRecord(q)
    \/ RangeLine \/ RangeOver \/ Number \/ RecordEnd
    \/ AllShown /\ UNCHANGED fvars

FormatSpec == FormatInit /\ [][FormatNext]_fvars
-----------------------------------------------------------------------------
(* What put_syms put is what a search shows, each line of a tag in a file  *)
(* once, whatever differences, ranges and splits lie between.              *)
LinesSurvive ==
    AllShown =>
        LET kept == UNION {{[tag |-> e[2], path |-> e[1], line |-> n] : n \in ToSet(table[e])} :
                            e \in Files \X Tags}
            got == [i \in 1 .. Len(shown) |->
                      [tag |-> shown[i].tag, path |-> shown[i].path, line |-> shown[i].line]]
        IN  ToSet(got) = kept /\ Len(got) = Cardinality(kept)

(* The image shown with a line is that line of that file, however the      *)
(* search goes back and forth in the files; or, when the file has become   *)
(* shorter or is no more, nothing.                                         *)
ImagesRight ==
    \A i \in 1 .. Len(shown) :
        LET o == shown[i]
            intact == /\ o.path \notin gone
                      /\ \A x \in Tags : \A n \in ToSet(table[o.path, x]) : n <= lines[o.path]
        IN  o.src = <<o.path, o.line>> \/ (~intact /\ o.src = NoLine)
=============================================================================
