# TLA+ models of GNU GLOBAL

GNU GLOBAL indexes source code. `gtags` parses the files of a project and writes three
database files beside them; `global` answers questions from these files ("where is this
function defined, where is it used?"). This directory holds TLA+ modules for the parts
of GLOBAL that keep state, the TLC configurations that check them on small instances,
and proofs for every instance, checked by TLAPS.

All paths below are relative to `src/global/` in this repository.

1. [The system](#1-the-system): components, state, interactions, what is hard
2. [Modules](#2-modules): which module stands for which code, and how
3. [Runs](#3-runs): what TLC checks, with which bounds, and what that shows
4. [Fairness](#4-fairness)
5. [Proofs](#5-proofs): what holds for every instance, and why
6. [Disagreements](#6-disagreements): where the code does not do what it says
7. [Not modelled](#7-not-modelled)
8. [Plan](#8-plan)

## 1. The system

### Components

| component | code | state | operations |
|---|---|---|---|
| gtags | gtags/gtags.c | addlist, addlist_other, deletelist; the sets deleteset and findset; the time of GTAGS | createtags, incremental, updatetags, `--single-update` |
| GPATH | libutil/gpathop.c | path -> id and id -> path records with a flag (source, other), NEXTKEY | gpath_open, put, delete, the two lookups, close |
| tag files | libutil/gtagsop.c | an open GTAGS or GRTAGS: a DBOP, a pool of lines, a segment of records that is being read | gtags_open, put, flush, delete, first, next, close |
| DBOP | libutil/dbop.c | key range, pattern, unread flag, last record; two pipes to a `sort` process | dbop_open, get, put, delete, update, first, next, unread, close |
| libdb btree | libdb/bt_*.c | pages: leaves with links, internal pages, overflow pages, a free list; one cursor; bt_last and bt_order | put, get, del, seq, sync, close |
| libdb page cache | libdb/mpool.c | buffers, LRU queue, hash table, pinned and dirty flags | mpool_new, get, put, sync, close |
| find | libutil/find.c | a stack of directories, the skip list | find_open, find_read, find_close |
| parsers | libparser/*.c | a token stream, a stack of `#if` branches, symbol tables | parse_file |
| plug-in parsers | libparser/parser.c, plugin-factory | a list of parsers, shared libraries, a program and two pipes for each | parse_file, parser_exit |
| global | global/global.c, output.c | file pointer, line number, image and tag of the record shown last | search, completion, grep, idutils, output |
| paths, options, data structures | rest of libutil | buffers | conversions |
| htags | htags/*.c, libutil/xargs.c | three streams of records, a table of anchors, pages of duplicate tags and their cache | makehtml, makedupindex |
| gtags-cscope, gozilla, scripts | own directories | screens | front ends of global |

`PROJECT.json` lists every component, also the ones without a model, with the reason.

### How they interact

- A user edits files. `gtags` walks the tree (find), compares modification times with
  that of GTAGS, and calls a parser for each new or changed file.
- The parser calls back put_syms, which collects lines in the pool of a tag file;
  gtags_flush turns the pool of a file into compact records and dbop_put's them.
- During creation, dbop_put writes to a pipe into `sort`; dbop_close reads the sorted
  records back and puts them into the btree (DBOP_SORTED_WRITE). During an update it
  puts into the btree at once.
- GTAGS and GRTAGS share one GPATH, open once and counted; a tag record holds the file
  id and not the path.
- A file of a language that a plug-in library serves is parsed by a program that the
  library started: gtags writes its path into a pipe and reads tags from another until a
  terminator comes.
- Built with `--with-sqlite3`, the DBOP under a tag file is a table of SQLite 3 in place
  of a btree.
- The btree takes pages from the page cache, changes them in place and gives them back;
  the file is written when buffers are reused and at the close.
- `global` opens the three files, reads records by segments of one name, translates ids
  to paths (and dies when an id has no path), and shows each line with its image from
  the source file. It takes no lock.
- `htags` runs `global -f` over and over, one stream for each tag file, all taking their
  paths from one list, and `global -x` once for each; the pages it writes link one
  record to another.

### What is hard, and what makes each component correct

| component | what is hard | what must hold |
|---|---|---|
| gtags | two looks at the file system in a run; one second mtimes; three files closed one after another; a kill in between; ids that outlive files; a langmap that changes | no tag without a path; a retired id owns no tags; one content per file; no change is missed; every run ends; a creation repairs everything; to its readers a run is one replacement of the index |
| GPATH | two families of records with flags, a counter, holes | a one to one relation; an id never comes to mean another file |
| tag files, writing | differences, ranges and splits of line numbers | what was put comes out, each line once |
| tag files, reading | look-ahead that is put back, filters, two passes, three ways of reading | exactly the records asked for, in order |
| sorted writing | four pipes, inherited descriptors, bounded buffers, a sort that dies | closing returns; a closed file is complete; no process is left behind |
| SQLite variant | a transaction that may end between the two records of a path | both records or none; NEXTKEY above every id |
| plug-ins | programs that inherit each other's pipes; a list with one entry for a language and one library for many; a program that breaks off | a file gets the tags of its own answer; every wait ends; no program is left |
| btree | splits and page deletions that have to agree with search, cursor, bt_last and free list | holds what was stored; finds it; a scan misses nothing; no page lost or used twice |
| page cache | reuse of buffers while pages are in use or dirty | a page holds what was last stored; the cache is bounded |
| parsers | every branch of an `#if` is read and may open blocks; macros that do not balance; names that may be definitions or calls | the level of braces is that of the source; definitions are found, and calls are not taken for any |
| showing records | a file pointer that stays from record to record | each line with its own image |
| htags | three streams that share one position; indexes that stay from file to file; pages and cache written at different times | each file gets its anchors; links lead to the neighbours; a tag leads to its records |

The hazards behind this table are in `PROJECT.json`, each at its line with the
properties that watch it, or the reason why none does.

## 2. Modules

| module | stands for | |
|---|---|---|
| Gpath | libutil/gpathop.c | operators on a GPATH record |
| Gtags | gtags/gtags.c with gtags_open, gtags_delete, gtags_close of gtagsop.c, find_read, test | the central state machine |
| TagIndex | | abstract: an index replaced at once |
| GtagsServed | readers between runs | Gtags with a history variable; refines TagIndex |
| GtagsInv | | the inductive invariants of Gtags |
| GtagsProofs, GtagsServedProofs | | theorems |
| BtPages | bt_page.c, bt_search.c, bt_split.c, bt_overflow.c, the layout of btree.h | the pages of a btree, as operators |
| Btree | bt_put.c, bt_delete.c, bt_seq.c, as dbop.c calls them | the btree as a state machine |
| Mpool | mpool.c, bt_close.c | the page cache |
| PageStore | | abstract: a file of pages |
| SqlGpath | gpathop.c over dbop3_open, put, delete, update, close of dbop.c | GPATH in a table of SQLite 3 |
| StoreProofs | | theorems on Mpool and SqlGpath |
| SortedWrite | start_sort_process, dbop_put, dbop_close, terminate_sort_process of dbop.c; sort(1), external | gtags, two sorts, four pipes |
| Plugins | libparser/parser.c, plugin-factory/exuberant-ctags.c, pygments-parser.c; the programs, external | gtags and the programs behind its plug-in libraries |
| TagReader | gtags_first, gtags_next, segment_read of gtagsop.c; dbop_first, dbop_next, dbop_unread of dbop.c, and their dbop3 variants | a search |
| TagReaderProofs | | theorems |
| Find | find_open, getdirs, has_symlinkloop and find_read_traverse of find.c | the walk through the directories |
| CreationProofs | | theorems on Find and SortedWrite |
| CppParser | Cpp, function_definition, enumerator_list and condition_macro of libparser/Cpp.c | the C++ parser |
| ParserProofs | | theorems on CppParser and Plugins |
| TagFormat | flush_pool of gtagsop.c, put_compact_format of output.c | records written and shown |
| TagFormatProofs | | theorems |
| Anchors | htags/anchor.c, makehtml of htags.c, libutil/xargs.c, parsefile of global.c | anchors and their links |
| DupIndex | htags/dupindex.c, put_anchor of src2html.c | pages of duplicate tags |
| HtagsProofs | | theorems on Anchors and DupIndex |
| MCGtags, MCGtagsServed, MCBtree, MCProcesses, MCReading | | instances for TLC |

Some modules hold, before the operator they would replace, a variant "with a bug", such
as `RewoundNot` before `Rewound`. The variants are used by nothing; each one was put in
place of its operator once to see that a property notices.

### Gtags

The tag files exist twice, on `disk` (gpath, tags, tagMtime) and in the memory of the
running gtags (`g`, `t`). libdb writes a file out when it is closed: that is the grain
at which a kill can leave files of different generations. Tags are reduced to what they
came from: [fid, path, ver], where ver counts the changes of a file. `exists` and
`ready` say whether the files are there and which were closed since a creation; an
unclosed one has no readable header, and the next gtags dies on it or creates all three
anew.

| code | action |
|---|---|
| createtags: unlink and open; one file of the loop; closing in the order GTAGS, GPATH, GRTAGS | StartCreate, VisitCreate, FindDone, CloseGtags, CloseGpath, CloseGrtags |
| incremental: one file of the find loop (gtags.c:645), `stat` that fails | StartIncremental, Visit, VisitVanished |
| the delete list loop over ids (gtags.c:692) | CheckId, IdsDone |
| updatetags: gtags_delete in both files, one file of addlist | UpdateTags, UpdateTagsDies, SkipTags, AddFile, AddVanished, AddDone |
| gpath_delete over deletelist, gpath_put over addlist_other, utime | DeletePath, AddOther, Touch |
| main with `--single-update` | StartSingle |
| the user, gtags.conf, the clock, SIGKILL | Edit, Create, Remove, ChangeLangmap, Tick, Crash |

`Racy` decides whether files may change while gtags runs or in the second of its last
write. Where one second mtimes cannot tell a change, the history variable `raced`
remembers the path, and promises about content leave such a path out until it is parsed
again. NoWrongPath leaves nothing out and speaks of every moment: a reader who opens the
three files between two closes may miss a path, and never gets that of another file.

### BtPages and Btree

Pages are records with their links, entries and sizes in units; `Room` is the size of a
page, so that every split and page deletion is reached with few records. A call of
dbop.c is one action: one process, one thread, the file open in it alone. Within the
call everything the code does is kept, also what reads oddly: the search that looks at a
neighbouring leaf without changing its stack of parents, bt_fast, the index left open by
a split, the cursor that follows its record through deletes. TreeSound is TypeOK,
LinksAgree (the leaves form one chain in the order of the tree) and PagesAccounted (no
page lost or used twice).

### Mpool

The buffers with their flags, queue and file. The client, the btree code, is the
environment: it holds at most `MaxPins` pages at once, gives a changed page back dirty,
and does not take a page twice while it holds it. The last point is a discipline the
code relies on: MPOOL_PINNED is a flag and not a count, and a mpool.c compiled with
DEBUG aborts on a second mpool_get of a pinned page.

### SortedWrite

Descriptors are modelled one by one for each process, with FD_CLOEXEC, because end of
file on a pipe depends on who still holds its writing end. Records are in the buffer of
the FILE, in a pipe, in sort, in the other pipe or in the btree.

### SqlGpath

The table exists as the running gtags reads it (`working`) and as another process does
(`committed`). A run is one transaction, except that dbop3_put counts its calls and ends
it after more than DBOP_COMMIT_THRESHOLD of them, to begin another. gpath_put puts two
records, one per action, with a possible end of the transaction after each. gtags may be
killed at any moment, and dies on a primary key that is taken. `torn` remembers that an
update was stopped after it had ended a transaction: NEXTKEY is written by gpath_close
alone and then lies behind the table.

### Plugins

`plugins` is plugin_list: an entry names a language and a library, a library may have
several entries, and lt_dlclose unloads it with the last of them; then its destructor
closes the pipes and waits for the program. The state of a program is that of the
process from fork to its end. Descriptors are modelled as in SortedWrite, but these are
not marked FD_CLOEXEC: a program inherits the pipes of all that gtags started before it.
`Setups` are the lists that a user may configure, together with two choices of
environment: whether programs may fail, and whether files come in any order or in one in
which no program is started later than one that is unloaded after it. When gtags dies,
exit(3) runs the destructors in the order of the loader and not of the list.

A request and its answer are a path and lines; the lines of a file are counted (`lines`)
and compared with the tags that put_line accepts.

### TagReader and TagFormat

The tag file under TagReader is the sequence of its records and a cursor, in a btree or,
with `engine` = "sqlite", in a table that a query reads in the order of keys; the DBOP
(`d`) keeps the unread flag, lastdat and prev. A step is one call of dbop_first or
dbop_next and what the loop at hand does with the record it returns: the filter passes
it over (PassOver), it begins or ends a segment and is put back (BeginSegment,
NextSegment), it is gathered or returned; and at the end of a pass, the lower case one
begins (Restart) or the search ends. `call` and `pc` say which loop that is, of
gtags_first or of gtags_next. Tag names are numbers in the order of strcmp, so the names
with one prefix follow each other (`Consecutive`); that prefix, or all names, is what
`range` selects.

In TagFormat a step is one round of a loop: of flush_pool over the sorted line numbers
of an entry (SameLine, LineFollows, LineApart, EntryEnd) or of put_compact_format over a
record (RangeLine, RangeOver, Number, RecordEnd). The two functions never run at the
same time, so the locals that both have share a variable: `rec` is the record that is
being made or shown, `last` and `cont` are the variables of these names in either, and
`pos` is where the second has read the record, 0 while the first runs. A record is a
sequence of numbers, each with the character before it. Its length is counted in numbers
and not in bytes: the limit `MaxLen` stands for DBOP_PAGESIZE / 4.

### Find

A directory stands for its real path, as realpath finds it. A directory holds one
regular file and its subdirectories (`Up`), and links to other directories (`links`), so
that one directory can be reached by many paths. The stack is that of find.c: for each
level the real path, how it was entered, and the entries not yet read; readdir gives
them in any order. One turn of the loops of find_read_traverse is one action, and
between two turns files and directories may be removed. `Paths` is the reference: all
ways to a file that lead through no directory twice and none above the project (`Ways`),
and of which each entry is there and not skipped. It knows nothing of the stack.

### CppParser

The source is written item by item while it is parsed: each action adds a namespace, a
class, a head, a body, a branch, a brace, a macro or its end. `nest`, `at`, `assign` and
`conds` are what the source means to a compiler that takes one branch of every `#if`:
which blocks are open, and how deep they and their classes are. The other variables are
those of Cpp.c, which sees only braces. `misfiled` remembers that a function with a body
was not taken for a definition, or that a call or macro was.

Lists of enumerators, the structure of a typedef and the names behind it are read by
loops of their own, each with its own interest in tokens and its own way of counting
`level`. `loop` says which one reads, and holds the level where it began, the variable
savelevel of enumerator_list or typedef_savelevel of Cpp(); `in_expression` tells a new
enumerator from a name in an expression. A block of the source has beside its depth the
loop that should read it. `misfiled` also remembers an enumerator that was not recorded
as one, a name in an expression that was, a member of a structure that ended the typedef
in its place, and a typedef name that another loop read.

The sources are those in which all branches of an `#if` (the ones under `#if 0` too) end
at the same place. With `Splits` = FALSE a branch also leaves the classes as they were
(one that begins in a branch ends in it) and ends in the loop in which it began, does
not end after a head or an equal sign that came in it, does not begin within the
expression of an enumerator, and macros close no class; with `BareAssign` = FALSE macros
assign only in statements with a semicolon; section 6 has what happens otherwise.

### Anchors and DupIndex

A stream of Anchors is the XARGS of xargs.c: it runs a command with as many paths as fit
(`Limit`), starting where its own last command stopped (`fptr`), with the path that did
not fit then. All streams move one file position, `ipos`. A command that runs is a step;
so is each record that anchor_load takes or puts back. What a command has still to print
is a set of places: a place <<i, k>> stands for the k-th line that global -f prints for
entry i of the list, and the first one is printed next. The qsort of anchor_load may
leave anchors of one line in any order; the model has two of them, the order of the
table and its reverse. CURRENTDEF is the static variable of anchor.c, an index that no
one resets between files. AnchorsAssumption has two things that the repository does not
enforce: a path fits into a command line, and global prints a line once for each tag
file; section 6 has what happens otherwise.

DupIndex reads the records of a tag file in order. The first record of a tag is kept
back (`first_line`), the second one opens a page; the cache record of a tag is made when
the next tag comes or the file ends. `Linked` is what put_anchor makes of it.

## 3. Runs

`tlc -config <cfg> <module>`; no run takes longer than two minutes.

| run | module and cfg | properties |
|---|---|---|
| quiet | MCGtagsServed, MCGtagsServed.cfg | TypeOK, NoDanglingTag, HolesHaveNoTags, CatchesUp, ImplementsTagIndex |
| crash | MCGtags, MCGtags_crash.cfg | GpathSound, CreateRepairs, FidNeverReused |
| racy | MCGtags, MCGtags_racy.cfg | OneContentPerFile, NoLostUpdate, NoWrongPath, RunTerminates |
| race | MCGtags, MCGtags_race.cfg | NoDanglingTag, violated |
| langmap | MCGtags, MCGtags_langmap.cfg | NoDanglingTag, violated |
| bt_create | MCBtree, MCBtree_create.cfg | TreeSound, HoldsRecords, ScanReturnsAll |
| bt_gpath | MCBtree, MCBtree_gpath.cfg | TreeSound, HoldsRecords, SearchFinds, CursorStays |
| bt_update | MCBtree, MCBtree_update.cfg | SearchFinds, violated |
| reading | MCReading, MCReading.cfg | AnswersExactly, InOrder, LinesSurvive, ImagesRight, FindsExactly, NoLoop, DefsRight, NestingRight, CacheBounded, ImplementsStore, PairsWhole, NextkeyAbove, AnchorsRight, LinksRight, GroupsRight |
| reading_icase | MCReading, MCReading_icase.cfg | AnswersExactly, violated |
| processes | MCProcesses, MCProcesses.cfg | NoSilentLoss, CloseReturns, NoOrphan, RepliesRight, ParserReturns, LibrariesEnd |
| two_libraries | MCProcesses, MCProcesses_two.cfg | LibrariesEnd, violated |

### quiet, crash, racy

- **quiet**: one source file `a` and one other file `doc`, either of which may be
  absent, text or binary; changes only between runs. Every order of creations,
  incremental and single updates leaves consistent files that show the present contents,
  and to a reader between runs a run is one replacement of the index.
- **crash**: gtags may be killed between any two steps, `doc` may become a source file
  by a new langmap and go back, single updates come at any time. GPATH stays a sound
  relation, ids keep their meaning, and a creation repairs whatever is left. (That
  incremental repairs it is not so and not claimed: see section 6 for langmaps, and
  after a kill between two closes GTAGS and GRTAGS may disagree until the files change
  again.)
- **racy**: files change, vanish and return at every moment of a run. A run still ends,
  definitions and references agree, and a change that an mtime can tell is either
  indexed or will be noticed by the next run. Whatever the user does, a reader at any
  moment gets the path a tag came from or none.

Bounds: `MaxVer` = 2 changes per file let a file be changed, deleted and recreated, 3
(racy) let it also vanish and return within a run; `MaxClock` = 2 or 3 seconds give a
change before, in and after the second of a run, and two runs with a change between
them, 1 (racy) a change in the second of a run and one after it; `MaxFid` = 3 or 4 lets
a path be retired and allocated a new id, with holes below NEXTKEY. A run starts only if
the ids for all paths are left (`RoomForFids`), so that the bound never stops a run half
way.

### bt_create, bt_gpath

The two ways in which GLOBAL uses a btree. **bt_create**: duplicate keys, all puts first
(sorted or not), then deletes at the cursor of a scan; that is the creation of GTAGS and
the thinning by gtags_delete. Room 3, two keys, 7 puts: a tree of three levels, so that
deleting a page can empty its parent. **bt_gpath**: no duplicates; puts, replacements,
deletes by key and at the cursor, and scans in every order; one smallest key that is
never deleted, as the records of GPATH with the version and NEXTKEY never are; one key
with data on an overflow page. Room 5 with records of two units gives splits on either
side of the new record and pages with a unit left; 4 keys and 6 puts give two levels.

The restrictions are those of the callers, and matter: see section 6 for what happens
without a fixed key, with puts during a scan, and with records of half a page.

### processes

Two machines, chosen by `part`. The sorts: 3 records, a pipe and a FILE buffer of one
record each, so that every process can block on every pipe. Every process may be killed
at any moment (`MayFail`).

The plug-ins: 3 files of two languages with up to two lines each and a pipe of one line,
so that programs block in the middle of an answer. Either one library serves both
languages, its program may break off at any moment or print an unknown line, and files
come in any order; or two libraries share the languages, with one entry each or with
both languages listed for both, programs do not fail, and a program is started only if
no other one will have to be waited for before it. gtags may be killed in all of them.
Without one of the two restrictions LibrariesEnd does not hold: run two_libraries has
the first, section 6 the second.

### reading

Nine parts that share nothing, one of them chosen in the initial state by `part`. The
reader: every file of up to 3 records of 5 names (two that begin in upper and two in
lower case) in 2 files whose paths sort the other way round than their ids; GTAGS, and
GRTAGS and GSYMS with every set of defined names; 10 patterns; by tag, key and path.
Three records are enough for a segment of two that is followed by another, for the last
record of a segment, pass or range, and for filters that leave a segment or a pass
empty. All of it for both engines. The format: all sequences of up to 3 line numbers and
all sets of lines up to 7, for two tags in two files, with files of 8 lines or cut to 3;
`MaxLen` = 3 splits records at every place. The walk: the project with one subdirectory,
a directory above it and one beside it, 64 ways of linking them (out of the project,
back into it, above it, to itself and to each other), three skip lists, two removals at
any moment. Four directories are enough for a loop that leads through a directory
outside the project, and for a directory that is reached by two paths. The parser: every
source with up to three open blocks and conditionals together, two conditionals at most,
and macros with one brace too many or too few at a time: an `#if` in an `#if`, a
function that only a branch opens or closes, an `#if 0` with and without `#else`. With
typedefs and enumerators this would be too many states for one run, so the parser is two
of the parts: sources without them, and sources with them but without macros,
namespaces, and equal signs outside an enum. In the latter an `#if` lies between
enumerators and members, around them and across the end of an enum.

The page cache: 3 pages, a cache of 1 and a client that holds up to 2: the cache is
smaller than the file and than what is held, so it evicts, grows when everything is
pinned, and comes back. The btree code holds no more than a few pages at once; libdb's
smallest cache is larger, but the code of a full cache is the same. GPATH in SQLite: 3
paths, 5 ids and a threshold of 2, so that transactions end before, between and after
the two records of a path and runs are stopped before and after such an end; the
threshold of dbop.c, 800, is even as well, which is what PairsWhole needs. The anchors:
3 files, the largest id first, up to one of them not a source file, with 5 choices of
what is printed for each, and a command line that holds two short paths or one long one,
so that commands end before, within and after the files of each other stream. The
duplicate tags: 3 tags with 0 to 3 records in each of two files: pages and single
records before and after one another.

`IcaseRefs` = FALSE leaves out lists of references that ignore case; they are run
reading_icase.

## 4. Fairness

- **Gtags**: WF(Step). A started gtags is scheduled; it waits for no one. Nothing is
  asked of the user, of the clock, or of gtags being started. RunTerminates and, through
  it, the meaning of CatchesUp rest on it.
- **SortedWrite**: WF(GtagsStep) and WF(SortStep(t)) for each sort. They are processes
  of one system; a step of one that can be taken forever is taken. Put is not fair: how
  many records there are is up to the parsers, and CloseReturns speaks of what follows
  the last one. No failure is fair.
- **Plugins**: WF(PGtagsStep) and WF(ChildStep(l)) for the program of each library, for
  the same reason. Failures (ChildFails) and signals (KilledByUser) are not fair.
  ParserExit, the end of the list of files, is part of PGtagsStep together with
  ParseFile, so that fairness does not choose between them.
- The other modules state safety only: their operations return by construction of the
  calls.

## 5. Proofs

`tlapm <module>`. Every theorem is about the specification that the runs check, for all
values of its constants that satisfy the named assumptions (any number of paths, ids,
records, pages, any sizes and clocks).

### gtags (GtagsProofs, GtagsServedProofs)

| theorem | assumes |
|---|---|
| TypeCorrect: Spec => []TypeOK | |
| GpathAlwaysSound: Spec => []GpathSound | |
| FidNeverReusedHolds: Spec => FidNeverReused | |
| CreateRepairsHolds: Spec => CreateRepairs | |
| NoWrongPathHolds: Spec => []NoWrongPath | ~MayCrash |
| NoLostUpdateHolds, OneContentPerFileHolds | Unkilled |
| NoDanglingTagHolds, HolesHaveNoTagsHolds | Undisturbed |
| CatchesUpHolds: Spec => CatchesUp | Undisturbed, SingleOnlyChange |
| GtagsImplementsTagIndex: ServedSpec => ImplementsTagIndex | Undisturbed, SingleOnlyChange |

The first four hold in every run, with kills, races and changing langmaps. The premises
of the others are constants of the runs, named in the theorem and not hidden in the
specification:

- `Unkilled`: gtags is not killed, there is one langmap, and `--single-update` is asked
  only when no other file has changed, as its manual says (SingleOnlyChange). Files may
  change at any moment, also while gtags looks at them.
- `Undisturbed`: files change only between runs, gtags is not killed, one langmap.

Section 6 and run crash show that they are needed: a kill between two closes loses the
pairing of ids and tags, a changed langmap leaves tags behind, and a file that vanishes
while gtags runs gets a tag without a path.

- *Types and GPATH.* TypeOK alone is not inductive: an id is looked up as
  `pathOf[fidOf[p]]`, so GPATH has to be sound too. `TypeInv` = TypeOK /\ GpathSound is
  inductive; the lemmas before it say what gpath_put and gpath_delete return.
- *Ids.* `FidInv`: what an update has in memory has at most lost ids of the GPATH on
  disk (OnlyRetires), so writing it out does not give an id another meaning; and a
  creation, which does begin again at 1, has not closed its last file, so that the three
  files never count as ready in between.
- *Tags and paths.* At rest the property is `Good(tags, gpath)`. It is not inductive,
  for the tag files on disk and the GPATH that will belong to them are written at
  different times. `PhaseInv` says, phase by phase, which of the two copies agree with
  each other: while scanning, the disk agrees with itself, and every listed file that
  has tags has its id in deleteset (`Covered`); while adding, the memory agrees with
  itself and has no tags of a file still listed (`NoTagsFor`), and the ids on disk are
  still in it (`Extends`); when GTAGS and GRTAGS are out, they agree with the GPATH in
  memory, which then is written. The step that carries it is the end of the delete list
  loop: addlist has only files that exist and deletelist only ones that do not, so no
  path is both parsed and deleted. This is where an undisturbed run is needed: run race
  breaks just that.
- *No wrong path.* Races and langmaps are admitted here, kills are not. `MatchInv`: the
  tags on disk and those in memory match the GPATH on disk and the one in memory, in
  every combination that a close can bring together, where to match is to have the path
  of the tag or none. An update only takes paths away from ids or gives new ids to
  paths, so that tags of either generation match either GPATH. After a kill between the
  close of GTAGS and that of GPATH this is not so: the next update gives the new ids
  again, to other files.
- *A creation repairs.* `CreatedInv` speaks of nothing that an earlier run left: every
  path is still to be visited or indexed in memory as it is (`IndexedIn`), unless it
  changed since the run began, and what is in memory has only tags of ids in memory. The
  three closes then carry it to the disk one file after the other. So it needs no
  premise.
- *No change is lost.* At rest the property is that each source file of GPATH has the
  tags of its content or a time after that of GTAGS (`Noticed`). Within a run it is the
  disk on which this holds, until GTAGS is written (`NoticedInv`); of the memory it says
  what is planned for each file: it will be parsed, or its tags are those of its content
  (`Planned`), and it is not deleted. `CollectInv` is what the find loop and the loop
  over the ids have already planned, `WriteInv` and `FinishInv` what is left of the plan
  after each close. Files that changed within the second or after gtags looked at them
  are in `raced`, which is what the property excepts, too. `OneParseInv` says that both
  tag files have the same records, of one parse for each id.
- *Every run catches up.* In an undisturbed run `raced` stays as it is, so the plan
  becomes exact, and `OtherInv` adds it for files that have no language: they are put
  into GPATH, or are deleted by the loop over the ids if that has yet to come to them.
- *The refinement.* The history variable `served` is the index as a reader would see it
  when the last run ended. `ServedInv`: until the next run writes, what is on disk is
  `served`. A step that completes a run replaces `served` by what the files say, which
  is CatchesUp and NoDanglingTag together; a change of a file is a step Edit of
  TagIndex; every other step changes neither.

### Page cache (StoreProofs)

CoherentHolds, PagesKeepContents and CacheBoundedHolds, for every size of cache and
file. `Coherent` is inductive with TypeOK: a clean buffer that nobody changes equals the
file, a page without a buffer has been written, and what the client holds has its
buffer. It needs the `changed` set: between a change in place and mpool_put the flag
MPOOL_DIRTY is not there yet, and the page survives because it is pinned. From it every
step is a step of PageStore or changes no contents: an eviction moves a page from buffer
to file, and reopening the file finds its size again. CacheBounded needs an invariant of
its own (`BInv`): the queue and the hash table hold the same pages, each once, and
curcache counts them; so a buffer that is not found for reuse means that all of them are
pinned, and there are no more of those than the client holds.

### GPATH in SQLite (StoreProofs)

TypeCorrect, PairsWholeHolds and NextkeyAboveHolds, for any number of paths and ids and
every even threshold. The invariant `SInv` holds an argument of parity: an update puts
records in pairs and counts them from 0, so the first record of a pair finds writecount
even and the second one finds it odd; a transaction ends at a put that finds it above
the threshold, and what is first above an even number is odd. In a creation the version
record has been counted, the parity is the other, and a transaction does end between the
two; but such a table has no NEXTKEY, and gpath_open refuses it.

### Plug-ins (ParserProofs)

RepliesRightHolds, for any lists, languages, lines and pipes, with failures. A library
is in one of two relations to gtags, which `IInv` states: nothing is asked and nothing
is on its way (Quiet), or its program answers for the file at hand, and the tags that
are put, the lines in the pipe and those still to be printed add up to the lines of that
file (Answering). What a program leaves that breaks off is the beginning of an answer,
without a terminator. gtags asks one library at a time (Turn) and leaves an answer only
at its terminator.

### The walk (CreationProofs)

NoLoopHolds, DepthBounded and FindsExactlyHolds, for every tree, all links, skip lists
and removals. For the first two the invariant is NoLoop itself with the types of the
stack: a directory is pushed only if has_symlinkloop has not found it on the stack or
above the project, and nothing else makes the stack longer. Its entries are therefore
different directories, and there are no more of them than directories; find_read sets
itself no limit. (That the walk ends is liveness and not stated; a level has finitely
many entries, each of which is taken off the list once.)

FindsExactly speaks of the end only. Until then a path of the project that is still
there has been found, or is pending: it goes along the stack for some levels, and its
next entry is still on the list of the level it reaches. `WalkInv` says so, and that a
path that was found is not pending any more, which makes each come once. It rests on
`Entered`: every level was an entry of the level below, where it has been taken off the
list. An entry that is dropped must then be on no path of what is left (`WayHere`): a
directory refused for a loop would repeat one of its path, for the stack is the path;
one that has vanished would be there; and a file is the end of its path, which is
returned. The other half, that nothing else is found, needs only that names on the stack
were read at some time, since what is removed does not come back.

### The parser (ParserProofs)

NestingHolds and DefsHold, for every depth of blocks and conditionals, if `WellWritten`:
no `#if` divides a class, a head or an expression and no macro assigns without a
semicolon. The invariant `CInv` says what NestingRight says and, of each open `#if`,
that its entry in pifstack has the depth of the place where it began and of the place
where its first branch ended (`CondOK`). All branches end alike, so the level after
`#endif` is that of the last branch, and after an `#if 0` that of the beginning. What a
nest says of itself (`Nests`) gives the rest: in a namespace or class the level is that
of the class stack, and in a function it is above it, which is how Cpp() tells heads
from calls. The loops for enumerators and typedefs end in time because the level at
which the source closes their block is the level they remember (`Reading`), also after a
branch, since it ends in the loop in which it began.

### Searching (TagReaderProofs)

For any names and prefixes, tag file, set of defined names, order of paths and pattern,
in both engines and by tag, key and path:

| theorem | assumes |
|---|---|
| AnswersUnlessEndsEarly: Spec => [](EndsEarly \/ AnswersExactly) | |
| AnswersWithoutIcase: Spec => []AnswersExactly | ~IcaseRefs |
| ReturnsOnlyAsked: Spec => [](Range(out) \subseteq Answer) | |
| InOrderHolds: Spec => []InOrder | |

`EndsEarly` is the query of run reading_icase, references by tag ignoring case, which
may return too few records; ReturnsOnlyAsked says that it returns no wrong one. The
constant IcaseRefs of the runs leaves that query out.

The invariant `ReaderInv` compares the search with the places of the file. `Due` are the
places whose records the query asks for. `Place` is where a pass stands: the cursor, or
the place before it when a record is put back. `Handled` are the places that are due and
behind it, in the range of this pass, or with the upper case prefix when the second pass
runs. `Gathered`: what the caller has got, what waits in the array and what is being
gathered are together the records of Handled. A call of the DBOP then has to be right in
one respect: it returns the first record of the range and the regular expression after
Place, but for keys that were returned (FirstFinds, NextFinds). This is where the
engines differ, and where the cursor of a btree that runs out of the range, `done` of a
table and the record that dbop_unread puts back come in; `Between` says what dbop_next
relies on when it is called again.

`OrderOK`: what is handled does not come after what is not (HandledComesFirst), and the
records being gathered have one name, which is after all that is returned and, when the
segment ends, before all that is due and not handled. At the end of a segment this is so
because the next record has another name; at the end of a pass, because the next pass
has later names (EndSeparates). A list in order has nothing twice (EachOnce), so the
length is right, too. `FirstOK` is the exception to the finding: without a filter, the
record that gtags_first puts back fills its first segment, so the search cannot end
there. The arrays are sorted as those of htags are, by the number of entries before an
entry (SortedIs).

### Records written and shown (TagFormatProofs)

For any tags, files, keys, tables of lines, lengths of files and length of a record:

| theorem | assumes |
|---|---|
| FormatTypes: FormatSpec => []FTypes | |
| LinesSurviveHolds: FormatSpec => []LinesSurvive | |
| ImagesRightHolds: FormatSpec => []ImagesRight | OwnKeys, ~MayVanish |

The meaning of a record is a set of lines, and it is said without the loop that unfolds
it: `Val` adds the numbers up, and a line belongs to the record if it is one of these
sums or, for a range, lies between two of them (`LinesOf`). What a record comes to grows
from number to number (ValGrows), so a number that is appended adds lines behind the
last one and changes nothing before (AppendLines). The invariant `FormatInv` then says
where each line is: it waits in its file, is still to come to flush_pool, is in the
record at hand or in an open range, is in a record of the tag file, or is shown
(`Kept`); and a line that is shown is nowhere else (`Once`). `Made` is what flush_pool
relies on: the numbers so far come to `last`, or to `cont` when a range is open, and the
records that were split off end before this one begins. The lines of a record that are
above `last` are those put_compact_format has still to show (`Unfolded`), since the
records of an entry lie apart (`Apart`) and the one with the least first line comes
first.

For the images, the source file that is open has been read up to cur_lineno (`Source`),
and no further than the next line to be shown of the same file and key (`Behind`): a
record of another key rewinds the file if it begins before, and records of the same key
come in the order of their lines. Both premises are needed, each for one of the hazards
that no property covers. With several tags of one key (extractmethod) a record may begin
before the end of the one shown before it, and nothing is rewound, since the key has not
changed; and if a file is missing, the image of the file before stays. In both cases the
code does show wrong images (end of section 6).

### Sorted writing (CreationProofs)

TypeCorrect, NoSilentLossHolds and EofComplete, for every number of records, every size
of pipe and buffer, failures and kills included. The invariant `IInv`: unless a sort has
failed, each record that was put is in one of the places on its way (`Flow`). End of
file reaches sort only when gtags has closed sortout, since gtags's descriptor is open
till then (`OpenOut`), and reaches gtags only when sort is gone, for the same reason at
the other pipe (`SortOut`); this needs that FD_CLOEXEC is set on descriptors of gtags
and inherited ones only (`MarkedOnly`), or exec would close the sort's own. So a sort
that has ended well has nothing left behind it, all records are loaded, and gtags closes
no other file.

### htags (HtagsProofs)

GroupsRightHolds, for any number of tag files and records. The premise
DupIndexAssumption says that the records of a tag come together, which is the order in
which global prints them. Of the tag file at hand `DInv` says that some first part of it
has been read (`Reading`), the last group of which is that of prev (`Group`): a single
record, which waits in first_line with no page open, or several, which are what is
written on the page `count`. Every other tag of that part has its link in the cache, and
every other page is that of such a tag (`Behind`), with a number below `count`, so that
a page that is opened is empty. What goes to the cache when the tag changes is therefore
right for the tag that is over, and the group that begins has a page of its own.

AnchorsRightHolds and LinksRightHolds, for any list of files, any lines and any length
of a command line. Every stream has still to return (`StillToCome`) the record that was
put back, what its command has not printed yet and what the commands after it will
print; these are three stretches of the list, one after the other (`InOrderOfPlaces`).
`AInv` says that this is what the stream prints for the file at hand and the files after
it, without what is already in the table (`StreamRight`). Running a command moves places
from the third part to the second and changes nothing of the whole; it moves at least
one if there is one, since the first path always fits (OverflowIs), so that a stream
ends only when nothing is to come. A record of another file is therefore put back only
when the stream has given all of this one: it is the first that is to come, and the file
at hand comes before all others. A record tells its stream and its place
(RecordsDiffer), so that nothing is in the table twice; the position that the streams
share, ipos, occurs in no part of the invariant. The sort is right because the number of
anchors that sort up to one differs from anchor to anchor (SortRight). For the links,
CURRENTDEF is the last definition of this table once the loop of src2html is over, if
the table has one, whatever it was before; the search backwards from there finds the
definition, and in a sorted table its neighbours by place are those by line (LineOfIs).

The invariants were model-checked before they were proved.

### Only model-checked

- Liveness (RunTerminates, CloseReturns, NoOrphan, ParserReturns, LibrariesEnd): outside
  of what TLAPS proves.

- Btree (TreeSound, HoldsRecords, SearchFinds, CursorStays, ScanReturnsAll): its
  operators are recursive (descents), which TLAPS does not support. These are the only
  invariants of the runs without a theorem.

## 6. Disagreements

Shown by a run:

- **race** (gtags/gtags.c:702). incremental looks at a file twice, in the find loop and
  in the delete list loop. A file that is missing only at the second look is in addlist
  and in deletelist: it is parsed under its id, then the id is deleted from GPATH.
  global dies on such a tag, "GPATH is corrupted."
- **langmap** (libutil/gpathop.c:170). gpath_put keeps the flag of a path that is
  present. A file that was other and becomes a source file by a new langmap is parsed
  under its id with the flag GPATH_OTHER; when it is deleted, its id is not added to
  deleteset and its tags stay.
- **bt_update** (libdb/bt_search.c:104). A search that finds its key at the edge of the
  neighbouring leaf returns that leaf with the parents of the first. A split of the
  neighbour then enters the new page at the wrong place in the parent, and a stored
  record is no longer found. It takes puts after deletes in a file with duplicate keys:
  gtags -i on GTAGS and GRTAGS.
- **reading_icase** (libutil/gtagsop.c:868). gtags_first goes on to the lower case
  prefix only if dbop_first finds nothing. If it finds a record, but the filter of the
  virtual GRTAGS or GSYMS drops all there are, the search ends.

- **two_libraries** (plugin-factory/exuberant-ctags.c:210). parser_exit "unload[s]
  shared libraries" (libparser/parser.c:370), each of which closes its pipes and waits
  for its program. The program of another library that was started later holds the
  writing end too, since the pipes are not marked FD_CLOEXEC. If that library is
  unloaded later, the program never gets end of file and gtags waits for ever. The order
  of the list and that in which the first files of the languages come decide.

Shown by other constants, inputs or a stronger property, without a text of the
repository that says what should be:

- MCProcesses with a member of Setups that has two libraries and programs that fail:
  die() unloads the libraries in the order of the loader, so that gtags can wait for
  ever whatever the order of the list (plugin-factory/exuberant-ctags.c:210).
- MCGtags_racy with `MayCrash` = TRUE: an update is killed after GTAGS is closed and
  before GPATH is; the next update gives the same id to another file, and the tags of
  one lead to the path of the other (NoWrongPath; gtags/gtags.c:909).
- MCReading without `torn` in NextkeyAbove: the NEXTKEY of a SQLite GPATH lies behind
  its table after a kill that follows the end of a transaction, and the next update dies
  of an id that is taken.
- MCReading with two definitions on one line, which AnchorsAssumption excludes: the
  "previous" link of the second leads to the line itself (htags/anchor.c,
  anchor_getlinks).
- MCReading with a path longer than `Limit`, which AnchorsAssumption excludes:
  execute_command finds no argument, and the stream ends as if all files were done
  (libutil/xargs.c:154).
- MCBtree with `FixedKey` = {}: puts in descending order use bt_last, which may be a
  page that was freed since; TLC stops where the empty page is split. GPATH keeps small
  keys that are never deleted, so its first leaf is never freed.
- MCBtree with `ScanPuts` = TRUE: bt_psplit moves a cursor to another record
  (CursorStays). No caller puts while it scans.
- MCBtree with records of half a page, which bt_ovflsize admits at one size (Room = 4 in
  bt_gpath, Room = 2 in bt_create): when such a record goes before all others, bt_psplit
  takes it for the whole left page and also leaves the first index of the right page
  open. Tag records are smaller: flush_pool splits them at a quarter of a page.
- MCReading with `BareAssign` = TRUE: after `#define SET(x) x = 1` the flag startequal
  stays set till the next semicolon, and a function defined there is recorded as a
  reference (libparser/Cpp.c:303).
- MCReading with `Splits` = TRUE: the class stack is not kept for each branch. Two heads
  of one class in two branches push two classes and one brace pops one, so that
  functions are looked for at the wrong level until the file ends (libparser/Cpp.c:293).
  Of two heads of one function in two branches, the second is a reference. And
  in_expression is not kept for each branch either (libparser/Cpp.c:781): of `enum { A
  =`, `#if X`, `FOO,`, `#else`, `BAR,`, `#endif`, the comma ends the expression, and
  BAR, which is in it too, is recorded as an enumerator.
- MCReading with `MayVanish` = TRUE: lines of a source file that cannot be opened are
  shown with the last image of the file before (global/output.c:131).
- MCReading with a `KeyOf` that maps several tags to one key, as extractmethod with -c
  does: the check for a rewind is skipped, and an image of another line may be shown
  (global/output.c:124).

## 7. Not modelled

- Kills inside the writing of a single file: a close is one step, so torn pages are not
  there; in SQLite, a kill inside a commit (the journal is kept in memory).
- I/O errors of libdb: every caller dies on one.
- Replacing a file by an older one with its old mtime (mv, tar): every change has the
  time of the change.
- gtags `--file`, `--dump`, `--restore`, GTAGS_extra commands; how the skip list is made
  from skip patterns.
- find: unreadable and special files, `gtags.files` (with a path that it lists twice), a
  limit of path lengths.
- The SQLite variant under GTAGS and GRTAGS when they are written: records of several
  transactions, of which a kill leaves the first. SQLite itself is vendored code:
  sqlite3.c alone is three quarters of the lines of the repository, and the models take
  its statements as one step.
- btree: R_PREV, R_CURSOR puts, keys too big for a page, overflow chains of more than a
  page, record numbers, byte order conversion, the checks of bt_open.c.
- Sorted writing: a sort that is missing or cannot be executed (tested just before).
- Plug-ins: the splitting of a line into fields, pygments_parser.py, user-custom.c (an
  empty frame).
- Reading: nearness sort, GTOP_NOSORT, `--nosource`, the prefix that get_prefix takes
  from a regular expression (a range that only makes reading shorter).
- Compression of names and the formats of output lines.
- Cpp.c: templates, union, `using`, `operator`, a `#define` between the head and the
  body of a function or inside an enum or typedef, names of a typedef in parentheses (a
  function pointer type is recorded as a reference), an enum in the structure of a
  typedef, typedef struct without a body, namespaces opened inside an `#if`, levels
  forced by a brace in the first column.
- htags: the text of its pages, its lexers, the indexes of files, definitions, includes
  and calls.
- The other parsers (C.c has the same condition_macro), idutils, cscope, gozilla,
  scripts: see the components in `PROJECT.json`.

## 8. Plan

The order so far was: what the index promises and how gtags keeps it (Gpath, Gtags,
TagIndex), what it is stored in (BtPages, Btree, Mpool, SqlGpath), how it is written
(SortedWrite, TagFormat), read (TagReader), how the files are found (Find), what is
found in them (CppParser, Plugins), and what htags makes of it (Anchors, DupIndex). What
would come next, in this order:

1. C.c, which reads old-style definitions and `#define` differently, after the pattern
   of CppParser.
2. The commits of GTAGS and GRTAGS in SQLite beside those of GPATH, under Gtags.
3. The file list of find and gtags `--file`.
4. Path operators: normalize, abs2rel, against a reference definition.

Small machines join MCReading or MCProcesses, which run several of them side by side.

Theorems to add: those of Btree, with the descents said by what they find, as TagReader
says what a call of the DBOP finds; a leaf with its neighbours and the parents as a
function from pages would do without recursion.
