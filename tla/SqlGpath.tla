------------------------------ MODULE SqlGpath ------------------------------
(***************************************************************************)
(* GPATH in a table of SQLite 3: gpathop.c over dbop3_open, dbop3_put,     *)
(* dbop3_delete, dbop3_update and dbop3_close (libutil/dbop.c), and a      *)
(* gtags that may be killed.                                               *)
(*                                                                         *)
(* All writes from opening to closing are one transaction, but for one     *)
(* thing: dbop3_put ends it after so many records, and begins another.     *)
(* What was committed stays when gtags is killed, and the rest is undone.  *)
(* A kill in the middle of a commit is left out: the journal is kept in    *)
(* memory, and SQLite promises nothing then.                               *)
(***************************************************************************)
EXTENDS Naturals

CONSTANTS
    SPath,      \* the path names
    NoSPath,    \* stands for "no record"
    MaxId,      \* bound on the ids
    Threshold   \* DBOP_COMMIT_THRESHOLD

ASSUME SqlAssumption ==
    /\ NoSPath \notin SPath
    /\ MaxId \in Nat
    /\ Threshold \in Nat /\ Threshold % 2 = 0

VARIABLES
    committed,  \* the table as another process reads it
    working,    \* the table as the running gtags reads it
    running,    \* "no", "create" or "update"
    nextkey,    \* _nextkey
    pending,    \* the path whose id => path record is still to be put
    writecount,
    commits,    \* history: this run has ended a transaction in its middle
    torn        \* history: since the creation, an update that had done so
                \*   was not closed

svars == <<committed, working, running, nextkey, pending, writecount, commits, torn>>

Id == 1 .. MaxId
Table == [fidOf : [SPath -> Id \cup {0}], pathOf : [Id -> SPath \cup {NoSPath}],
          next : 0 .. MaxId + 1]
EmptyTable == [fidOf |-> [p \in SPath |-> 0], pathOf |-> [f \in Id |-> NoSPath], next |-> 0]

STypeOK ==
    /\ committed \in Table /\ working \in Table
    /\ running \in {"no", "create", "update"}
    /\ nextkey \in 1 .. MaxId + 1 /\ pending \in SPath \cup {NoSPath}
    /\ writecount \in 0 .. Threshold + 1
    /\ commits \in BOOLEAN /\ torn \in BOOLEAN
-----------------------------------------------------------------------------
(* The end of dbop3_put: writecount++ > DBOP_COMMIT_THRESHOLD.  (A variant *)
(* with a bug increments first.)                                           *)
CommitsEarly == writecount + 1 > Threshold
Commits == writecount > Threshold

PutRecord(table) ==
    /\ working' = table
    /\ committed' = IF Commits THEN table ELSE committed
    /\ writecount' = IF Commits THEN 0 ELSE writecount + 1
    /\ commits' = (commits \/ Commits)

(* gpath_open: the version record of a new table is put, too.              *)
OpenCreate ==
    /\ running = "no"
    /\ committed' = EmptyTable /\ working' = EmptyTable
    /\ running' = "create" /\ nextkey' = 1 /\ pending' = NoSPath
    /\ writecount' = 1 /\ commits' = FALSE /\ torn' = FALSE

(* Without a NEXTKEY record gtags dies.                                    *)
OpenUpdate ==
    /\ running = "no" /\ committed.next # 0
    /\ working' = committed
    /\ running' = "update" /\ nextkey' = committed.next /\ pending' = NoSPath
    /\ writecount' = 0 /\ commits' = FALSE
    /\ UNCHANGED <<committed, torn>>

(* gpath_put, its two records. *)
PutFid(p) ==
    /\ running # "no" /\ pending = NoSPath
    /\ working.fidOf[p] = 0 /\ nextkey \in Id
    /\ PutRecord([working EXCEPT !.fidOf[p] = nextkey])
    /\ nextkey' = nextkey + 1 /\ pending' = p
    /\ UNCHANGED <<running, torn>>

PutPathOf ==
    /\ running # "no" /\ pending # NoSPath
    /\ working.pathOf[nextkey - 1] = NoSPath
    /\ PutRecord([working EXCEPT !.pathOf[nextkey - 1] = pending])
    /\ pending' = NoSPath
    /\ UNCHANGED <<running, nextkey, torn>>

Stopped ==
    /\ running' = "no" /\ pending' = NoSPath
    /\ torn' = (torn \/ (running = "update" /\ commits))
    /\ UNCHANGED <<committed, working, nextkey, writecount, commits>>

(* The key is the primary key: gtags dies where it is taken.               *)
PutDies ==
    /\ running # "no" /\ pending # NoSPath
    /\ working.pathOf[nextkey - 1] # NoSPath
    /\ Stopped

DeletePath(p) ==
    /\ running = "update" /\ pending = NoSPath
    /\ working.fidOf[p] # 0
    /\ working' = [working EXCEPT !.fidOf[p] = 0, !.pathOf[working.fidOf[p]] = NoSPath]
    /\ UNCHANGED <<committed, running, nextkey, pending, writecount, commits, torn>>

(* gpath_close: NEXTKEY is updated, and the transaction ended.  (A variant *)
(* with a bug keeps the NEXTKEY of the last time.)                         *)
AtCloseNot == [working EXCEPT !.next = IF @ = 0 THEN nextkey ELSE @]
AtClose == [working EXCEPT !.next = nextkey]

CloseGpath ==
    /\ running # "no" /\ pending = NoSPath
    /\ working' = AtClose /\ committed' = AtClose
    /\ running' = "no"
    /\ UNCHANGED <<nextkey, pending, writecount, commits, torn>>

Kill == running # "no" /\ Stopped

SqlInit ==
    /\ committed = EmptyTable /\ working = EmptyTable
    /\ running = "no" /\ nextkey = 1 /\ pending = NoSPath
    /\ writecount = 0 /\ commits = FALSE /\ torn = FALSE

SqlNext ==
    \/ OpenCreate \/ OpenUpdate \/ PutPathOf \/ PutDies \/ CloseGpath \/ Kill
    \/ \E p \in SPath : PutFid(p) \/ DeletePath(p)

SqlSpec == SqlInit /\ [][SqlNext]_svars
-----------------------------------------------------------------------------
(* A GPATH that can be opened relates paths and ids one to one, whatever   *)
(* was killed when, although its two records are put one after the other   *)
(* and a transaction may end after either: only in a new table, which has  *)
(* no NEXTKEY yet, does it end between the two.                            *)
PairsWhole ==
    committed.next # 0 =>
        /\ \A p \in SPath : committed.fidOf[p] # 0 => committed.pathOf[committed.fidOf[p]] = p
        /\ \A f \in Id : committed.pathOf[f] # NoSPath => committed.fidOf[committed.pathOf[f]] = f

(* Every id in use is below NEXTKEY, so that gtags never dies of an id     *)
(* that is taken, unless an earlier update was stopped between the end of  *)
(* a transaction and its close: NEXTKEY is written at the close only.      *)
NextkeyAbove ==
    /\ running = "no" /\ committed.next # 0 /\ ~torn =>
          \A f \in Id : committed.pathOf[f] # NoSPath => f < committed.next
    /\ pending # NoSPath /\ working.pathOf[nextkey - 1] # NoSPath => torn
=============================================================================
