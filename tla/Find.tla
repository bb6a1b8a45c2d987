-------------------------------- MODULE Find --------------------------------
(***************************************************************************)
(* find_open, find_read and getdirs (find.c): the walk through the         *)
(* directories of a project, which follows symbolic links to directories   *)
(* and must not follow them round a loop.                                  *)
(*                                                                         *)
(* A directory stands for its real path.  Each holds one regular file, and *)
(* may hold symbolic links to other directories.                           *)
(***************************************************************************)
EXTENDS Naturals, Sequences, FiniteSets

CONSTANTS
    FDir,       \* the directories of the file system
    Up,         \* Up[x]: the directory above x; x itself at the top
    Base,       \* the root directory of the project
    LinkSets,   \* functions from directories to the targets of their links
    SkipLists,  \* sets of entries that a skip list matches
    MaxRemove   \* bound on the files and directories removed meanwhile

Entry == [what : {"file", "dir", "link"}, to : FDir]

ASSUME FindAssumption ==
    /\ IsFiniteSet(FDir) /\ Base \in FDir
    /\ Up \in [FDir -> FDir]
    /\ LinkSets \subseteq [FDir -> SUBSET FDir]
    /\ SkipLists \subseteq SUBSET Entry
    /\ MaxRemove \in Nat

VARIABLES
    links, skips,     \* the links and the skip list
    removed, nofile,  \* directories, and files of directories, that are no more
    stack,            \* the directory stack
    found, nfound,    \* history: the paths returned, and their number
    status            \* find_eof, or whether gtags died

findvars == <<links, skips, removed, nofile, stack, found, nfound, status>>
fs == <<links, skips, removed, nofile>>

(* x and the directories above it: what every set has that has x and leads *)
(* nowhere up                                                              *)
Above ==
    [x \in FDir |-> {y \in FDir : \A s \in SUBSET FDir :
                                      x \in s /\ (\A z \in s : Up[z] \in s) => y \in s}]

Present(x, rm) == Above[x] \cap rm = {}

(* What readdir and stat find in x; a link to nowhere is left out. *)
EntriesOf(x, rm, nf) ==
    {e \in Entry : CASE e.what = "file" -> e.to = x /\ x \notin nf
                     [] e.what = "dir"  -> Up[e.to] = x /\ e.to # x /\ Present(e.to, rm)
                     [] e.what = "link" -> e.to \in links[x] /\ Present(e.to, rm)}

Top == stack[Len(stack)]
Dropped(e) == [stack EXCEPT ![Len(stack)].rest = @ \ {e}]

(* The path to e: how each directory of the stack was entered, and e. *)
PathTo(e) == [i \in 1 .. Len(stack) |-> IF i = Len(stack) THEN e ELSE stack[i + 1].by]

(* All directories that the path leads through are there. *)
Resolves(e) == /\ \A i \in 1 .. Len(stack) : Present(stack[i].real, removed)
               /\ Present(e.to, removed)
               /\ e.what = "file" => e.to \notin nofile
-----------------------------------------------------------------------------
(* has_symlinkloop: the real path is the project's root or above it, or on *)
(* the stack.  (Variants with a bug leave out one of these.)               *)
StackOnly(x) == \E i \in 1 .. Len(stack) : stack[i].real = x
RootOnly(x) == x \in Above[Base]
HasSymlinkloop(x) == x \in Above[Base] \/ \E i \in 1 .. Len(stack) : stack[i].real = x

Skip(e) ==
    /\ e \in skips
    /\ stack' = Dropped(e)
    /\ UNCHANGED <<found, nfound, status>>

(* A file is returned if it is still there. *)
ReadFile(e) ==
    /\ e \notin skips /\ e.what = "file"
    /\ stack' = Dropped(e)
    /\ IF Resolves(e) THEN found' = found \cup {PathTo(e)} /\ nfound' = nfound + 1
       ELSE UNCHANGED <<found, nfound>>
    /\ UNCHANGED status

(* A directory is pushed, *)
Descend(e) ==
    /\ e \notin skips /\ e.what # "file"
    /\ Resolves(e) /\ ~HasSymlinkloop(e.to)
    /\ stack' = Append(Dropped(e), [real |-> e.to, by |-> e,
                                    rest |-> EntriesOf(e.to, removed, nofile)])
    /\ UNCHANGED <<found, nfound, status>>

(* or ignored for a loop, *)
Refuse(e) ==
    /\ e \notin skips /\ e.what # "file"
    /\ Resolves(e) /\ HasSymlinkloop(e.to)
    /\ stack' = Dropped(e)
    /\ UNCHANGED <<found, nfound, status>>

(* or it has vanished: before realpath gtags dies, after it opendir fails. *)
Vanished(e) ==
    /\ e \notin skips /\ e.what # "file" /\ ~Resolves(e)
    /\ \/ status' = "died" /\ UNCHANGED stack
       \/ stack' = Dropped(e) /\ UNCHANGED status
    /\ UNCHANGED <<found, nfound>>

Pop ==
    /\ Top.rest = {} /\ Len(stack) > 1
    /\ stack' = SubSeq(stack, 1, Len(stack) - 1)
    /\ UNCHANGED <<found, nfound, status>>

Eof ==
    /\ Top.rest = {} /\ Len(stack) = 1
    /\ status' = "eof"
    /\ UNCHANGED <<stack, found, nfound>>

(* One turn of the loops of find_read_traverse. *)
FindRead ==
    /\ status = "reading"
    /\ \/ Pop \/ Eof
       \/ \E e \in Top.rest : Skip(e) \/ ReadFile(e) \/ Descend(e) \/ Refuse(e) \/ Vanished(e)
    /\ UNCHANGED fs

(* Someone removes a file, or a directory with all below it. *)
RemoveDir(x) ==
    /\ x \notin Above[Base] \cup removed
    /\ removed' = removed \cup {x} /\ UNCHANGED nofile
RemoveFile(x) == x \notin nofile /\ nofile' = nofile \cup {x} /\ UNCHANGED removed

Removal ==
    /\ Cardinality(removed) + Cardinality(nofile) < MaxRemove /\ status = "reading"
    /\ \E x \in FDir : RemoveDir(x) \/ RemoveFile(x)
    /\ UNCHANGED <<links, skips, stack, found, nfound, status>>
-----------------------------------------------------------------------------
(* find_open *)
FindInit ==
    /\ links \in LinkSets /\ skips \in SkipLists
    /\ removed = {} /\ nofile = {}
    /\ stack = <<[real |-> Base, by |-> [what |-> "dir", to |-> Base],
                  rest |-> EntriesOf(Base, {}, {})]>>
    /\ found = {} /\ nfound = 0 /\ status = "reading"

FindOver == status # "reading" /\ UNCHANGED findvars

FindNext == FindRead \/ Removal \/ FindOver

FindSpec == FindInit /\ [][FindNext]_findvars
-----------------------------------------------------------------------------
(* The ways to a file that lead through no directory twice, and none above *)
(* the root; of so many directories none is longer.                        *)
IsWay(p, n) ==
    /\ p[n].what = "file"
    /\ \A i \in 1 .. n - 1 : p[i].what # "file" /\ p[i].to \notin Above[Base]
    /\ \A i, j \in 1 .. n - 1 : p[i].to = p[j].to => i = j

Ways == UNION {{p \in [1 .. n -> Entry] : IsWay(p, n)} : n \in 1 .. Cardinality(FDir)}

(* The files of the project: those on the ways from the root on of which   *)
(* each entry is there, in the directory before, and not skipped.          *)
HolderOf(p, i) == IF i = 1 THEN Base ELSE p[i - 1].to

Paths(rm, nf) ==
    {p \in Ways : \A i \in DOMAIN p : p[i] \in EntriesOf(HolderOf(p, i), rm, nf) \ skips}

(* "Now GLOBAL refuses looping symbolic links" (NEWS): find returns the    *)
(* files of the project, each path once, links or not; of those removed    *)
(* meanwhile it may return some.                                           *)
FindsExactly ==
    status = "eof" => /\ Paths(removed, nofile) \subseteq found
                      /\ found \subseteq Paths({}, {})
                      /\ nfound = Cardinality(found)

(* No directory is on the stack twice, or above the root: find ends,       *)
(* however the links lead and whatever is removed.                         *)
NoLoop ==
    /\ \A i, j \in 1 .. Len(stack) : stack[i].real = stack[j].real => i = j
    /\ \A i \in 2 .. Len(stack) : stack[i].real \notin Above[Base]
=============================================================================
