----------------------------- MODULE MCReading -----------------------------
(* Instances of the small machines for TLC, one at a time: the files of a  *)
(* project (Find), what is defined in one (CppParser), what keeps the      *)
(* records (Mpool, SqlGpath), what a search returns (TagReader), how       *)
(* records are written and shown (TagFormat), and what htags makes of them *)
(* (Anchors, DupIndex).                                                    *)
(*                                                                         *)
(* Names 1 and 2 start with a letter in upper case, 3 and 4 with the same  *)
(* in lower case.                                                          *)
EXTENDS TagReader, TagFormat, Find, CppParser, Mpool, Anchors, DupIndex, SqlGpath

CONSTANTS v0, v1      \* contents of pages

VARIABLE part

RankReversed == [f \in {1, 2} |-> 3 - f]

P(k, s) == [kind |-> k, names |-> s]

AllPatterns ==
    {P("any", {})} \cup {P("name", {n}) : n \in {2, 4}} \cup
    {P("prefix", s) : s \in {{1, 2}, {3, 4}}} \cup
    {P("regex", s) : s \in {{1, 3}, {2, 5}, {4}}} \cup
    {P("icase", s) : s \in {{1, 3}, {2, 4}, {1, 2, 3, 4}}}

OwnKey == [x \in {1, 2} |-> x]

(* The lines of a tag in a file: in any order and more than once, and as   *)
(* many as make ranges and splits.                                         *)
Long  == UNION {[1 .. k -> {1, 2, 3, 4, 6}] : k \in 0 .. 3} \cup
         {SetToSeq(s) : s \in SUBSET (1 .. 7)}
Short == {<<>>, <<2>>, <<4, 1>>}
SomeTables == {(<<1, 1>> :> u) @@ (<<1, 2>> :> v) @@ (<<2, 1>> :> w) @@ (<<2, 2>> :> <<3>>) :
                  u \in Long, v \in Short \cup {<<4, 3, 2>>}, w \in Short}

(* Directory 2, the root of the project, and 4 are in 1; 3 is in 2.        *)
Tree == <<1, 1, 2, 1>>
SomeLinks == {<<{}, a, b, c>> : a \in {{}, {4}}, b \in {{}, {4}, {1}, {2, 4}}, c \in SUBSET {1, 2, 3}}
SomeSkips == {{}, {[what |-> "dir", to |-> 3]}, {[what |-> "link", to |-> 4]}}

(* Three files, with the largest id first, some of them no source files;   *)
(* a path may take one half of a command line or all of it.                *)
SomeListings ==
    {[i \in 1 .. 3 |-> [fid |-> 4 - i, other |-> i \in o, length |-> n[i]]] :
        o \in {{}, {1}, {2}}, n \in {<<1, 1, 1>>, <<1, 2, 1>>, <<2, 2, 1>>}}
SomePrinted ==
    {[GTAGS |-> l[1], GRTAGS |-> l[2], GSYMS |-> l[3]] :
        l \in {<<<<>>, <<>>, <<>>>>, <<<<3, 1>>, <<>>, <<>>>>, <<<<>>, <<1, 4>>, <<>>>>,
               <<<<1, 2, 3, 5>>, <<2, 1>>, <<4>>>>, <<<<2>>, <<>>, <<2>>>>}}

Records(t, n) == [k \in 1 .. n |-> [tag |-> t, at |-> k]]
SomeInputs == {Records(1, i) \o Records(2, j) \o Records(3, k) : i, j, k \in 0 .. 3}
BothFiles == <<"GTAGS", "GRTAGS">>

ReaderOff ==
    /\ file = <<>> /\ defined = {} /\ engine = "btree" /\ db = "GTAGS" /\ mode = "tag"
    /\ pattern = P("any", {}) /\ range = {} /\ prefix = FALSE
    /\ d = [cursor |-> 0, last |-> 0, unread |-> FALSE, prev |-> Meta, done |-> FALSE]
    /\ pool = {} /\ seg = <<>> /\ out = <<>> /\ call = "gtags_close" /\ pc = "done"

FormatOff ==
    /\ table = [x \in Files \X Tags |-> <<>>] /\ lines = [f \in Files |-> 0]
    /\ gone = {}
    /\ toFlush = {} /\ path_hash = {} /\ left = {} /\ rec = NoRec /\ pos = 0
    /\ last = 0 /\ cont = 0 /\ recs = {} /\ curpath = 0 /\ curtag = Coded
    /\ cur_lineno = 0 /\ last_lineno = 0 /\ fp = "NULL" /\ src = NoLine /\ shown = <<>>

FindOff ==
    /\ links = [x \in FDir |-> {}] /\ skips = {} /\ removed = {} /\ nofile = {}
    /\ stack = <<>> /\ found = {} /\ nfound = 0 /\ status = "off"

MpoolOff ==
    /\ npages = 0 /\ lru = <<>> /\ cached = {} /\ curcache = 0
    /\ buf = [p \in Pgno |-> v0] /\ pinned = {} /\ dirty = {}
    /\ disk = [p \in Pgno |-> Absent] /\ held = {} /\ changed = {}

AnchorsOff ==
    /\ files = <<>> /\ print = <<>> /\ ipos = 1 /\ xargs = <<>>
    /\ fileno = 1 /\ indb = 1 /\ anchors = <<>> /\ CURRENTDEF = 0 /\ step = "end"

DupIndexOff ==
    /\ input = <<>> /\ idb = 1 /\ rest = <<>> /\ prev = NoTag /\ first_line = NoRecord
    /\ count = 0 /\ entry_count = 0 /\ writing = 0 /\ pages = <<>> /\ cache = <<>>

PartsInit ==
    /\ part \in {"reader", "format", "find", "cpp", "loops", "mpool", "anchors", "dupindex", "sql"}
    /\ IF part = "reader" THEN Init ELSE ReaderOff
    /\ IF part = "format" THEN FormatInit ELSE FormatOff
    /\ IF part = "find" THEN FindInit ELSE FindOff
    /\ IF part = "mpool" THEN MpoolInit ELSE MpoolOff
    /\ IF part = "anchors" THEN AnchorsInit ELSE AnchorsOff
    /\ IF part = "dupindex" THEN DupInit ELSE DupIndexOff
    /\ CppInit /\ SqlInit

(* The parts that are not chosen stand still.  The parser is two of them:  *)
(* sources that the loop of Cpp() reads alone, and sources with all of its *)
(* loops, but without macros, equal signs outside of enum and namespaces.  *)
readers == <<vars, fvars, avars, dvars>>
stores  == <<mpvars, svars>>
sources == <<findvars, cvars>>

PartsNext ==
    /\ UNCHANGED part
    /\ \/ part = "reader" /\ Next /\ UNCHANGED <<fvars, avars, dvars, stores, sources>>
       \/ part = "format" /\ FormatNext /\ UNCHANGED <<vars, avars, dvars, stores, sources>>
       \/ part = "anchors" /\ AnchorsNext /\ UNCHANGED <<vars, fvars, dvars, stores, sources>>
       \/ part = "dupindex" /\ DupNext /\ UNCHANGED <<vars, fvars, avars, stores, sources>>
       \/ part = "find" /\ FindNext /\ UNCHANGED <<cvars, readers, stores>>
       \/ part = "cpp" /\ CppNext /\ loop' = Main /\ UNCHANGED <<findvars, readers, stores>>
       \/ /\ part = "loops" /\ CppNext /\ ~startmacro' /\ ~startequal' /\ namespacelevel' = 0
          /\ UNCHANGED <<findvars, readers, stores>>
       \/ part = "mpool" /\ MpoolNext /\ UNCHANGED <<svars, readers, sources>>
       \/ part = "sql" /\ SqlNext /\ UNCHANGED <<mpvars, readers, sources>>

PartsSpec == PartsInit /\ [][PartsNext]_<<readers, stores, sources, part>>
=============================================================================
