---------------------------- MODULE SortedWrite ----------------------------
(***************************************************************************)
(* Sorted writing (DBOP_SORTED_WRITE, dbop.c).  While gtags puts records,  *)
(* each of GTAGS and GRTAGS has a sort process behind two pipes; closing a *)
(* file sends end of file to its sort and loads what sort then writes.     *)
(*                                                                         *)
(* A pipe's write end is one descriptor in every process that inherited    *)
(* it, and sort gets no end of file before the last of them is closed.     *)
(* Sort orders the records; here they are moved as sets.                   *)
(***************************************************************************)
EXTENDS Naturals, FiniteSets

CONSTANTS
    Record,     \* the records that may be put
    PipeSize,   \* the records that fit into a pipe
    BufSize,    \* the records that fit into the buffer of a FILE
    MayFail     \* TRUE: sort may be killed or fail, and gtags be killed

ASSUME SortedWriteAssumption ==
    /\ IsFiniteSet(Record)
    /\ PipeSize \in Nat \ {0} /\ BufSize \in Nat \ {0}
    /\ MayFail \in BOOLEAN

Tag  == {"GTAGS", "GRTAGS"}      \* the order of opening and closing
Proc == {"gtags"} \cup Tag       \* a sort is named after its file

(* Descriptors: proc holds the reading or writing end of the pipe to or    *)
(* from the sort of a file.                                                *)
End == [proc : Proc, tag : Tag, pipe : {"to", "from"}, rw : {"r", "w"}]

VARIABLES
    pc,        \* what gtags does,
    tag,       \* and with which file
    sort,      \* the state of the sorts
    ends,      \* the open descriptors
    cloexec,   \* those with FD_CLOEXEC
    put,       \* history: the records put into each file
    buf, to, got, from, \* where the records of a file are: in the buffer
                        \* of sortout, a pipe, sort, or the other pipe
    loaded,    \* the records put into the btree by dbop_close
    closed     \* the files that were closed

vars == <<pc, tag, sort, ends, cloexec, put, buf, to, got, from, loaded, closed>>
data == <<put, buf, to, got, from, loaded, closed>>

(* Types of the variables of start_sort_process, dbop_put and dbop_close.  *)
TypeOK ==
    /\ pc \in {"pipe", "setup", "work", "close", "load", "wait", "done", "dead"}
    /\ tag \in Tag
    /\ sort \in [Tag -> {"none", "forked", "reading", "writing", "ok", "failed"}]
    /\ ends \subseteq End /\ cloexec \subseteq End
    /\ \A x \in {put, buf, to, got, from, loaded} : x \in [Tag -> SUBSET Record]
    /\ closed \subseteq Tag

Live(t) == sort[t] \in {"forked", "reading", "writing"}
Gone == pc \in {"done", "dead"}

EndsOf(p) == {e \in ends : e.proc = p}
Writers(t, pipe) == {e \in ends : e.tag = t /\ e.pipe = pipe /\ e.rw = "w"}
Readers(t, pipe) == {e \in ends : e.tag = t /\ e.pipe = pipe /\ e.rw = "r"}

Move(r, x, y) == x' = [x EXCEPT ![tag] = @ \ {r}] /\ y' = [y EXCEPT ![tag] = @ \cup {r}]
-----------------------------------------------------------------------------
(* start_sort_process                                                      *)

(* pipe(2) twice and fork(2): the sort inherits the new descriptors and    *)
(* those of a file opened before, with their FD_CLOEXEC.                   *)
Fork ==
    /\ pc = "pipe"
    /\ LET own == [proc : {"gtags"}, tag : {tag}, pipe : {"to", "from"}, rw : {"r", "w"}]
           Inherited(S) == {[proc |-> tag, tag |-> e.tag, pipe |-> e.pipe, rw |-> e.rw] : e \in S}
       IN  /\ ends' = ends \cup own \cup Inherited(EndsOf("gtags") \cup own)
           /\ cloexec' = cloexec \cup Inherited(cloexec \cap EndsOf("gtags"))
    /\ sort' = [sort EXCEPT ![tag] = "forked"]
    /\ pc' = "setup"
    /\ UNCHANGED tag /\ UNCHANGED data

(* The descriptors that fcntl(2) marks.  (A variant with a bug: none.)     *)
MarkedNot(t) == {}
Marked(t) == {[proc |-> "gtags", tag |-> t, pipe |-> "to", rw |-> "w"],
              [proc |-> "gtags", tag |-> t, pipe |-> "from", rw |-> "r"]}

(* The parent's half; GRTAGS is opened after GTAGS.                        *)
Setup ==
    /\ pc = "setup"
    /\ ends' = ends \ {[proc |-> "gtags", tag |-> tag, pipe |-> "to", rw |-> "r"],
                       [proc |-> "gtags", tag |-> tag, pipe |-> "from", rw |-> "w"]}
    /\ cloexec' = cloexec \cup Marked(tag)
    /\ IF tag = "GTAGS" THEN pc' = "pipe" /\ tag' = "GRTAGS"
       ELSE pc' = "work" /\ UNCHANGED tag
    /\ UNCHANGED sort /\ UNCHANGED data

(* What the child closes itself.  (A variant with a bug: nothing.)         *)
ChildClosesNot(t) == {}
ChildCloses(t) == {[proc |-> t, tag |-> t, pipe |-> "to", rw |-> "w"],
                   [proc |-> t, tag |-> t, pipe |-> "from", rw |-> "r"]}

(* The child's half: close, dup2, and execvp, which closes what is marked. *)
Exec(t) ==
    /\ sort[t] = "forked"
    /\ sort' = [sort EXCEPT ![t] = "reading"]
    /\ ends' = (ends \ ChildCloses(t)) \ (cloexec \cap EndsOf(t))
    /\ cloexec' = cloexec \ EndsOf(t)
    /\ UNCHANGED <<pc, tag>> /\ UNCHANGED data
-----------------------------------------------------------------------------
(* gtags: putting records and closing the files.                           *)

(* A process that is gone has closed its descriptors. *)
CloseAll(p) == ends' = ends \ EndsOf(p) /\ cloexec' = cloexec \ EndsOf(p)

Die ==
    /\ pc' = "dead" /\ CloseAll("gtags")
    /\ UNCHANGED <<tag, sort>> /\ UNCHANGED data

(* dbop_put: into the FILE, whose buffer is written out when it is full. *)
Put(t, r) ==
    /\ pc = "work" /\ r \notin put[t] /\ Cardinality(buf[t]) < BufSize
    /\ put' = [put EXCEPT ![t] = @ \cup {r}]
    /\ buf' = [buf EXCEPT ![t] = @ \cup {r}]
    /\ UNCHANGED <<pc, tag, sort, ends, cloexec, to, got, from, loaded, closed>>

(* write(2) blocks while the pipe is full, and raises SIGPIPE when nobody  *)
(* is left to read.                                                        *)
Flushing(t) == \/ pc = "work" /\ Cardinality(buf[t]) = BufSize
               \/ pc = "close" /\ t = tag

Write(t, r) ==
    /\ Flushing(t) /\ r \in buf[t]
    /\ Readers(t, "to") # {} /\ Cardinality(to[t]) < PipeSize
    /\ buf' = [buf EXCEPT ![t] = @ \ {r}]
    /\ to' = [to EXCEPT ![t] = @ \cup {r}]
    /\ UNCHANGED <<pc, tag, sort, ends, cloexec, put, got, from, loaded, closed>>

SigPipe(t) == Flushing(t) /\ buf[t] # {} /\ Readers(t, "to") = {} /\ Die

(* The last record is put; GTAGS is closed first. *)
Work ==
    /\ pc = "work"
    /\ pc' = "close" /\ tag' = "GTAGS"
    /\ UNCHANGED <<sort, ends, cloexec>> /\ UNCHANGED data

(* fclose(sortout) *)
CloseOut ==
    /\ pc = "close" /\ buf[tag] = {}
    /\ pc' = "load"
    /\ ends' = ends \ {[proc |-> "gtags", tag |-> tag, pipe |-> "to", rw |-> "w"]}
    /\ cloexec' = cloexec \cap ends'
    /\ UNCHANGED <<tag, sort>> /\ UNCHANGED data

(* One turn of the loop over strbuf_fgets(sortin). *)
Load(r) ==
    /\ pc = "load" /\ r \in from[tag]
    /\ Move(r, from, loaded)
    /\ UNCHANGED <<pc, tag, sort, ends, cloexec, put, buf, to, got, closed>>

(* End of file, and fclose(sortin). *)
LoadDone ==
    /\ pc = "load" /\ from[tag] = {} /\ Writers(tag, "from") = {}
    /\ pc' = "wait"
    /\ ends' = ends \ {[proc |-> "gtags", tag |-> tag, pipe |-> "from", rw |-> "r"]}
    /\ cloexec' = cloexec \cap ends'
    /\ UNCHANGED <<tag, sort>> /\ UNCHANGED data

(* WIFEXITED(status) && WEXITSTATUS(status) == 0.  (A variant with a bug   *)
(* accepts any end of sort.)                                               *)
SucceededAlways(t) == TRUE
Succeeded(t) == sort[t] = "ok"

(* terminate_sort_process, and the rest of dbop_close. *)
Wait ==
    /\ pc = "wait" /\ ~Live(tag) /\ Succeeded(tag)
    /\ closed' = closed \cup {tag}
    /\ IF tag = "GTAGS"
       THEN pc' = "close" /\ tag' = "GRTAGS" /\ UNCHANGED <<ends, cloexec>>
       ELSE pc' = "done" /\ CloseAll("gtags") /\ UNCHANGED tag
    /\ UNCHANGED <<sort, put, buf, to, got, from, loaded>>

WaitDies == pc = "wait" /\ ~Live(tag) /\ ~Succeeded(tag) /\ Die

Killed == MayFail /\ ~Gone /\ Die
-----------------------------------------------------------------------------
(* sort(1), an external program.  It writes nothing before end of file.    *)

SortReads(t, r) ==
    /\ sort[t] = "reading" /\ r \in to[t]
    /\ to' = [to EXCEPT ![t] = @ \ {r}]
    /\ got' = [got EXCEPT ![t] = @ \cup {r}]
    /\ UNCHANGED <<pc, tag, sort, ends, cloexec, put, buf, from, loaded, closed>>

SortEof(t) ==
    /\ sort[t] = "reading" /\ to[t] = {} /\ Writers(t, "to") = {}
    /\ sort' = [sort EXCEPT ![t] = "writing"]
    /\ UNCHANGED <<pc, tag, ends, cloexec>> /\ UNCHANGED data

SortWrites(t, r) ==
    /\ sort[t] = "writing" /\ r \in got[t]
    /\ Readers(t, "from") # {} /\ Cardinality(from[t]) < PipeSize
    /\ got' = [got EXCEPT ![t] = @ \ {r}]
    /\ from' = [from EXCEPT ![t] = @ \cup {r}]
    /\ UNCHANGED <<pc, tag, sort, ends, cloexec, put, buf, to, loaded, closed>>

SortEnds(t, s) ==
    /\ sort' = [sort EXCEPT ![t] = s] /\ CloseAll(t)
    /\ UNCHANGED <<pc, tag>> /\ UNCHANGED data

SortExits(t) == sort[t] = "writing" /\ got[t] = {} /\ SortEnds(t, "ok")

SortSigPipe(t) ==
    sort[t] = "writing" /\ got[t] # {} /\ Readers(t, "from") = {} /\ SortEnds(t, "failed")

SortFails(t) == MayFail /\ Live(t) /\ SortEnds(t, "failed")

SortStep(t) ==
    \/ Exec(t) \/ SortEof(t) \/ SortExits(t) \/ SortSigPipe(t)
    \/ \E r \in Record : SortReads(t, r) \/ SortWrites(t, r)
-----------------------------------------------------------------------------
Init ==
    /\ pc = "pipe" /\ tag = "GTAGS"
    /\ sort = [t \in Tag |-> "none"]
    /\ ends = {} /\ cloexec = {}
    /\ put = [t \in Tag |-> {}] /\ buf = put /\ to = put
    /\ got = put /\ from = put /\ loaded = put
    /\ closed = {}

(* gtags goes on by itself; putting records is up to the files it parses,  *)
(* and there are finitely many of them.                                    *)
GtagsStep ==
    \/ Fork \/ Setup \/ Work \/ CloseOut \/ LoadDone \/ Wait \/ WaitDies
    \/ \E r \in Record : Load(r)
    \/ \E t \in Tag : SigPipe(t) \/ \E r \in Record : Write(t, r)

Finished == Gone /\ (\A t \in Tag : ~Live(t)) /\ UNCHANGED vars

Next ==
    \/ GtagsStep \/ Killed \/ Finished
    \/ \E t \in Tag : SortStep(t) \/ SortFails(t) \/ \E r \in Record : Put(t, r)

Spec == Init /\ [][Next]_vars

(* The processes are scheduled by the system. *)
FairSpec == Spec /\ WF_vars(GtagsStep) /\ \A t \in Tag : WF_vars(SortStep(t))
-----------------------------------------------------------------------------
(* A file that dbop_close has closed holds the records that were put, all  *)
(* of them: a sort that was killed or ran out of space never leaves a      *)
(* shorter tag file behind without an error.                               *)
NoSilentLoss == \A t \in closed : loaded[t] = put[t]

(* "fclose(): enables reading from sortin descriptor" (dbop_close): both   *)
(* sorts get their end of file, whatever descriptors the other one has     *)
(* inherited, and gtags ends.                                              *)
CloseReturns == pc = "close" ~> Gone

(* No sort outlives its gtags, also when gtags is killed. *)
NoOrphan == Gone ~> \A t \in Tag : ~Live(t)
=============================================================================
