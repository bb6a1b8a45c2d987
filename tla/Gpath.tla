------------------------------- MODULE Gpath -------------------------------
(***************************************************************************)
(* The path index GPATH (libutil/gpathop.c): two families of records, one *)
(* from path to file id and one from file id to path, each carrying the    *)
(* type flag, and the NEXTKEY counter from which file ids are allocated.   *)
(*                                                                         *)
(* A value of GPATH is a record; the operators below are the operations of *)
(* gpathop.c on it.  NoFid and NoPath stand for "dbop_get returned NULL".  *)
(***************************************************************************)
EXTENDS Naturals

CONSTANTS
    Path,     \* the path names that can occur in the project
    NoPath,   \* what a lookup of an unused file id returns
    MaxFid    \* bound on the file ids a database generation can allocate

ASSUME GpathAssumption ==
    /\ NoPath \notin Path
    /\ MaxFid \in Nat \ {0}

NoFid == 0
Fid   == 1 .. MaxFid

(* GPATH_SOURCE and GPATH_OTHER *)
FileType == {"source", "other"}

GpathRec ==
    [fidOf  : [Path -> Fid \cup {NoFid}],     \* path => fid records
     typeOf : [Path -> FileType],             \*   and their flags
     pathOf : [Fid -> Path \cup {NoPath}],    \* fid => path records
     ftypeOf: [Fid -> FileType],              \*   and their flags
     next   : 1 .. MaxFid + 1]                \* NEXTKEY

(* gpath_open in create mode: no record, and the first id is 1. *)
EmptyGpath ==
    [fidOf   |-> [p \in Path |-> NoFid],
     typeOf  |-> [p \in Path |-> "source"],
     pathOf  |-> [f \in Fid |-> NoPath],
     ftypeOf |-> [f \in Fid |-> "source"],
     next    |-> 1]

HasPath(g, p) == g.fidOf[p] # NoFid

(* gpath_put: a path that is already present keeps its id AND its flag;    *)
(* a new path takes the next id and both records get the flag.             *)
GpathPut(g, p, type) ==
    IF HasPath(g, p) THEN g
    ELSE [fidOf   |-> [g.fidOf EXCEPT ![p] = g.next],
          typeOf  |-> [g.typeOf EXCEPT ![p] = type],
          pathOf  |-> [g.pathOf EXCEPT ![g.next] = p],
          ftypeOf |-> [g.ftypeOf EXCEPT ![g.next] = type],
          next    |-> g.next + 1]

(* Variants of gpath_delete with a bug: the fid => path record stays; the  *)
(* id of the youngest file is given back.                                  *)
GpathDeleteHalf(g, p) == [g EXCEPT !.fidOf = [g.fidOf EXCEPT ![p] = NoFid]]

GpathDeleteReuse(g, p) ==
    IF ~HasPath(g, p) THEN g
    ELSE [fidOf   |-> [g.fidOf EXCEPT ![p] = NoFid],
          typeOf  |-> g.typeOf,
          pathOf  |-> [g.pathOf EXCEPT ![g.fidOf[p]] = NoPath],
          ftypeOf |-> g.ftypeOf,
          next    |-> IF g.fidOf[p] + 1 = g.next THEN g.fidOf[p] ELSE g.next]

(* gpath_delete: both records go, NEXTKEY stays (the id becomes a hole).   *)
GpathDelete(g, p) ==
    IF ~HasPath(g, p) THEN g
    ELSE [fidOf   |-> [g.fidOf EXCEPT ![p] = NoFid],
          typeOf  |-> g.typeOf,
          pathOf  |-> [g.pathOf EXCEPT ![g.fidOf[p]] = NoPath],
          ftypeOf |-> g.ftypeOf,
          next    |-> g.next]

-----------------------------------------------------------------------------
(* Both record families describe the same set of files, with the same      *)
(* flags, and every id in use has been allocated below NEXTKEY.            *)
GpathConsistent(g) ==
    /\ \A p \in Path : HasPath(g, p) => /\ g.fidOf[p] < g.next
                                        /\ g.pathOf[g.fidOf[p]] = p
                                        /\ g.ftypeOf[g.fidOf[p]] = g.typeOf[p]
    /\ \A f \in Fid : g.pathOf[f] # NoPath => /\ f < g.next
                                              /\ g.fidOf[g.pathOf[f]] = f
=============================================================================
