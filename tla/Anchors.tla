------------------------------ MODULE Anchors ------------------------------
(***************************************************************************)
(* The anchors of a source file in htags: makehtml (htags.c), anchor_load  *)
(* (anchor.c) and the streams it reads (libutil/xargs.c).                  *)
(*                                                                         *)
(* For each tag file, a stream runs `global -f' with as many paths as a    *)
(* command line holds, again and again.  All streams take their paths from *)
(* one FILE, and each one keeps its own place in it.  htags converts the   *)
(* files one by one and takes from each stream the records of the file at  *)
(* hand; the first record of the next file is put back.                    *)
(***************************************************************************)
EXTENDS Naturals, Sequences, FiniteSets, FiniteSetsExt

CONSTANTS
    Listings,  \* lists of the files of GPATH: [fid, other, length] each
    Printed,   \* what global -f may print for a file: functions from Db
               \*   to sequences of lines, each once
    Limit      \* the bytes of a command line that are left for paths

Db == <<"GTAGS", "GRTAGS", "GSYMS">>

ASSUME AnchorsAssumption ==
    /\ Limit \in Nat
    /\ Listings \subseteq Seq([fid : Nat, other : BOOLEAN, length : 1 .. Limit])
    /\ \A s \in Listings : \A i, j \in DOMAIN s : s[i].fid = s[j].fid => i = j
    /\ Printed \subseteq [Range(Db) -> Seq(Nat \ {0})]
    /\ \A p \in Printed : \A d \in Range(Db) : IsInjective(p[d])

VARIABLES
    files,     \* anchor_stream: the list of files
    print,     \* print[f][db]: what global -f prints for file id f
    ipos,      \* the position of anchor_stream: the next entry of files
    xargs,     \* anchor_input: the stream of each tag file
    fileno,    \* the file that is being converted, as an index of files
    indb,      \* the stream that is being read, as an index of Db
    anchors,   \* table
    CURRENTDEF, \* an index of anchors, or 0; stays from file to file
    step       \* "load", "sort", "index", "lines" or "end"

avars == <<files, print, ipos, xargs, fileno, indb, anchors, CURRENTDEF, step>>
-----------------------------------------------------------------------------
(* What global -f prints for a list of arguments.  A place <<i, k>> is the *)
(* k-th line of what it prints for the entry i of files.                   *)
NoPlace == <<0, 0>>
Printout(d, i) == print[files[i].fid][d]
Places(d, S) == UNION {{i} \X DOMAIN Printout(d, i) : i \in S}

Precedes(p, q) == p[1] < q[1] \/ (p[1] = q[1] /\ p[2] < q[2])
FirstOf(S) == CHOOSE p \in S : \A q \in S : q = p \/ Precedes(p, q)

(* The record at a place: the definitions of functions are the lines that  *)
(* are odd, to have definitions of both kinds.                             *)
TypeOf(d, line) == CASE d = "GTAGS" -> (IF line % 2 = 1 THEN "D" ELSE "T")
                     [] d = "GRTAGS" -> "R"
                     [] d = "GSYMS" -> "Y"

RecordAt(d, p) ==
    LET line == Printout(d, p[1])[p[2]]
    IN  [fid |-> files[p[1]].fid, lineno |-> line, type |-> TypeOf(d, line)]

(* xargs.c.  pipe has the places that the running command has still to     *)
(* print.                                                                  *)
NewStream == [fptr |-> 1, path |-> 0, pipe |-> {}, result |-> NoPlace,
              unread |-> FALSE, end_of_arg |-> FALSE]

(* The entries from s on that are arguments, and the first that does not   *)
(* fit into the command line, or 0.  Entries that begin with a blank, the  *)
(* other files, are passed over.                                           *)
Args(s) == {i \in s .. Len(files) : ~files[i].other}

Bytes(S) == MapThenSumSet(LAMBDA i : files[i].length, S)

Overflow(s) ==
    LET long == {i \in Args(s) : Bytes({j \in Args(s) : j <= i}) > Limit}
    IN  IF long = {} THEN 0 ELSE Min(long)

(* fseek to the place where the last command of this stream stopped.       *)
(* (A variant with a bug goes on where any stream stopped.)                *)
SoughtNot(x) == ipos
Sought(x) == x.fptr

(* execute_command: the path that did not fit into the last command comes  *)
(* first.  Without an argument there is no command.                        *)
StartOfArgs(x) == IF x.path # 0 THEN x.path ELSE Sought(x)

ExecuteCommand(d) ==
    LET x == xargs[d]
        s == StartOfArgs(x)
        o == Overflow(s)
        args == {i \in Args(s) : o # 0 => i < o}
        upto == IF o # 0 THEN o + 1 ELSE Len(files) + 1
    IN  /\ ipos' = upto
        /\ xargs' = [xargs EXCEPT ![d] =
              [x EXCEPT !.path = o, !.fptr = upto, !.pipe = Places(d, args),
                        !.end_of_arg = (args = {})]]
-----------------------------------------------------------------------------
(* anchor_load: a record that xargs_read returned is one of the file at    *)
(* hand, or it is put back.  (A variant with a bug does not put it back.)  *)
UnreadNot(x) == x
Unread(x) == [x EXCEPT !.unread = TRUE]

NextDb == IF indb < Len(Db) THEN indb' = indb + 1 /\ UNCHANGED step
          ELSE step' = "sort" /\ UNCHANGED indb

TakeRecord(d, p, x) ==
    IF files[p[1]].fid = files[fileno].fid
    THEN /\ anchors' = Append(anchors, RecordAt(d, p))
         /\ xargs' = [xargs EXCEPT ![d] = x]
         /\ UNCHANGED <<indb, step>>
    ELSE /\ xargs' = [xargs EXCEPT ![d] = Unread(x)]
         /\ NextDb
         /\ UNCHANGED anchors

(* xargs_read, with each command it runs as a step.                        *)
XargsRead ==
    /\ step = "load"
    /\ LET d == Db[indb]
           x == xargs[d]
       IN  \/ x.end_of_arg /\ NextDb /\ UNCHANGED <<ipos, xargs, anchors>>
           \/ /\ ~x.end_of_arg /\ x.unread
              /\ TakeRecord(d, x.result, [x EXCEPT !.unread = FALSE])
              /\ UNCHANGED ipos
           \/ /\ ~x.end_of_arg /\ ~x.unread /\ x.pipe # {}
              /\ LET p == FirstOf(x.pipe)
                 IN  TakeRecord(d, p, [x EXCEPT !.result = p, !.pipe = @ \ {p}])
              /\ UNCHANGED ipos
           \/ /\ ~x.end_of_arg /\ ~x.unread /\ x.pipe = {}
              /\ ExecuteCommand(d)
              /\ UNCHANGED <<indb, anchors, step>>
    /\ UNCHANGED <<files, print, fileno, CURRENTDEF>>

(* The qsort by line, which leaves anchors of one line in any order: here  *)
(* the order they had, or its reverse.                                     *)
SortsUpTo(j, i, stable) ==
    \/ anchors[j].lineno < anchors[i].lineno
    \/ anchors[j].lineno = anchors[i].lineno /\ IF stable THEN j <= i ELSE j >= i

ByLine(stable) ==
    LET rank(i) == Cardinality({j \in DOMAIN anchors : SortsUpTo(j, i, stable)})
    IN  [k \in DOMAIN anchors |-> anchors[CHOOSE i \in DOMAIN anchors : rank(i) = k]]

Sort ==
    /\ step = "sort"
    /\ \E stable \in BOOLEAN : anchors' = ByLine(stable)
    /\ step' = "index"
    /\ UNCHANGED <<files, print, ipos, xargs, fileno, indb, CURRENTDEF>>

Definitions == {i \in DOMAIN anchors : anchors[i].type = "D"}

(* src2html: the loop over anchor_first and anchor_next leaves CURRENTDEF  *)
(* at the last definition, and as it was where there is none.  (A variant  *)
(* with a bug stops at the first.)                                         *)
LoopedOnce == IF Definitions = {} THEN CURRENTDEF ELSE Min(Definitions)
Looped == IF Definitions = {} THEN CURRENTDEF ELSE Max(Definitions)

Index ==
    /\ step = "index"
    /\ CURRENTDEF' = IF files[fileno].other THEN CURRENTDEF ELSE Looped
    /\ step' = "lines"
    /\ UNCHANGED <<files, print, ipos, xargs, fileno, indb, anchors>>

(* anchor_unload and the next file of makehtml. *)
NextFile ==
    /\ step = "lines"
    /\ anchors' = <<>> /\ indb' = 1
    /\ IF fileno < Len(files) THEN fileno' = fileno + 1 /\ step' = "load"
       ELSE fileno' = fileno /\ step' = "end"
    /\ UNCHANGED <<files, print, ipos, xargs, CURRENTDEF>>

AnchorsInit ==
    /\ files \in Listings
    /\ print \in [{files[i].fid : i \in DOMAIN files} -> Printed]
    /\ ipos = Len(files) + 1
    /\ xargs = [d \in Range(Db) |-> NewStream]
    /\ fileno = 1 /\ indb = 1 /\ anchors = <<>> /\ CURRENTDEF = 0
    /\ step = IF files = <<>> THEN "end" ELSE "load"

AnchorsEnd == step = "end" /\ UNCHANGED avars

AnchorsNext == XargsRead \/ Sort \/ Index \/ NextFile \/ AnchorsEnd
AnchorsSpec == AnchorsInit /\ [][AnchorsNext]_avars
-----------------------------------------------------------------------------
(* anchor_getlinks for a line with a definition: it is looked for from     *)
(* CURRENTDEF backwards, or from the beginning if there was none yet.      *)
Highest(S) == IF S = {} THEN 0 ELSE Max(S)
Lowest(S) == IF S = {} THEN 0 ELSE Min(S)
LineOf(i) == IF i = 0 THEN 0 ELSE anchors[i].lineno
PlaceOf(line) ==
    LET S == {i \in Definitions : anchors[i].lineno = line}
    IN  IF CURRENTDEF = 0 THEN Lowest(S \cup {Len(anchors) + 1})
        ELSE Highest({i \in S : i <= CURRENTDEF})
FirstDef == LineOf(Lowest(Definitions))
LastDef == LineOf(Highest(Definitions))
GetLinks(line) ==
    [prev  |-> LineOf(Highest({i \in Definitions : i < PlaceOf(line)})),
     next  |-> LineOf(Lowest({i \in Definitions : i > PlaceOf(line)})),
     first |-> IF line # FirstDef THEN FirstDef ELSE 0,
     last  |-> IF line # LastDef THEN LastDef ELSE 0]
-----------------------------------------------------------------------------
(* Each file gets the anchors that global prints for it and no others, and *)
(* by lines, although three streams read one list of paths at their own    *)
(* pace, in portions that end anywhere, and find the end of a file only by *)
(* the first record of another.                                            *)
AnchorsOf(i) ==
    IF files[i].other THEN {}
    ELSE UNION {{RecordAt(d, p) : p \in Places(d, {i})} : d \in Range(Db)}

AnchorsRight ==
    step \in {"index", "lines"} =>
        /\ Range(anchors) = AnchorsOf(fileno) /\ IsInjective(anchors)
        /\ \A i, j \in DOMAIN anchors : i < j => anchors[i].lineno <= anchors[j].lineno

(* The links beside a definition lead to its neighbours in this file, and  *)
(* to the first and the last, although the place from which they are found *)
(* (CURRENTDEF) is left over from an earlier loop, or an earlier file.     *)
LinksRight ==
    LET defs == {a.lineno : a \in {b \in AnchorsOf(fileno) : b.type = "D"}}
    IN  step = "lines" => \A line \in defs :
            GetLinks(line) = [prev  |-> Highest({l \in defs : l < line}),
                              next  |-> Lowest({l \in defs : l > line}),
                              first |-> Lowest({Min(defs)} \ {line}),
                              last  |-> Highest({Max(defs)} \ {line})]
=============================================================================
