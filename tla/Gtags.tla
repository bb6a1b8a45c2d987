------------------------------- MODULE Gtags -------------------------------
(***************************************************************************)
(* gtags(1): full creation (createtags), incremental update (incremental)  *)
(* and single file update (--single-update) of the tag files GTAGS, GRTAGS *)
(* and GPATH, beside a user who edits the project's files.                 *)
(*                                                                         *)
(* The tag files exist twice: on disk, where a reader finds them, and in   *)
(* the memory of the running gtags, which writes a file out when it closes *)
(* it.  A tag record is abstracted to the file id it is stored under and   *)
(* the path and content version that were parsed to produce it.            *)
(***************************************************************************)
EXTENDS Gpath, FiniteSets

CONSTANTS
    MaxVer,       \* bound on the number of changes of one file
    MaxClock,     \* bound on the clock, in seconds
    LangMaps,     \* the sets of paths that some langmap calls source files
    Racy,         \* TRUE: files may change at any moment
    SingleOnlyChange, \* TRUE: --single-update only as its manual assumes
    MayCrash      \* TRUE: gtags may be killed at any step

ASSUME GtagsAssumption ==
    /\ MaxVer \in Nat /\ MaxClock \in Nat
    /\ IsFiniteSet(Path) /\ Cardinality(Path) <= MaxFid
    /\ LangMaps \subseteq SUBSET Path /\ LangMaps # {}
    /\ Racy \in BOOLEAN /\ SingleOnlyChange \in BOOLEAN /\ MayCrash \in BOOLEAN

Tag     == {"GTAGS", "GRTAGS"}
DbFile  == Tag \cup {"GPATH"}
Version == 0 .. MaxVer
TagRec  == [fid : Fid, path : Path, ver : Version]

VARIABLES
    now,       \* the clock, in the one second granularity of st_mtime
    kind,      \* kind[p]: "none" when the file does not exist
    ver,       \* ver[p]: the content of the file, as a version number
    mtime,     \* mtime[p]: its modification time
    langmap,   \* the paths whose suffix the langmap gives a language
    raced,     \* history: paths changed where mtimes cannot tell
    exists,    \* the three tag files exist on disk
    ready,     \* the tag files that were closed since they were created
    gpath,     \* GPATH on disk
    tags,      \* GTAGS and GRTAGS on disk
    tagMtime,  \* modification time of GTAGS
    pc, mode,  \* where gtags is, and which operation it performs
    g, t,      \* GPATH and the tag files in the memory of gtags
    oldMtime,  \* gtags_mtime: GTAGS's time when the run began
    toFind,    \* the directory entries that find_read has still to visit
    id,        \* the loop variable of the delete list loop
    findset, deleteset, addlist, addlist_other, deletelist

env  == <<now, kind, ver, mtime, langmap, raced>>
disk == <<exists, ready, gpath, tags, tagMtime>>
mem  == <<g, t, oldMtime, toFind, id, findset, deleteset,
          addlist, addlist_other, deletelist>>
vars == <<now, kind, ver, mtime, langmap, raced,
          exists, ready, gpath, tags, tagMtime, pc, mode,
          g, t, oldMtime, toFind, id, findset, deleteset,
          addlist, addlist_other, deletelist>>

Exists(p)   == kind[p] # "none"          \* test("f", p)
IsBinary(p) == kind[p] = "binary"        \* test("b", p)
IsSource(p) == p \in langmap             \* issourcefile(p)

NoTags == [d \in Tag |-> {}]

TypeOK ==
    /\ now \in 1 .. MaxClock + 1
    /\ kind \in [Path -> {"none", "text", "binary"}]
    /\ ver \in [Path -> Version]
    /\ mtime \in [Path -> 0 .. MaxClock + 1]
    /\ langmap \in LangMaps
    /\ raced \subseteq Path
    /\ exists \in BOOLEAN
    /\ ready \subseteq DbFile
    /\ gpath \in GpathRec
    /\ tags \in [Tag -> SUBSET TagRec]
    /\ tagMtime \in 0 .. MaxClock + 1
    /\ pc \in {"idle", "find", "ids", "update", "add", "closeGtags",
               "closeGrtags", "gpath", "closeGpath"}
    /\ mode \in {"create", "incremental", "single"}
    /\ g \in GpathRec
    /\ t \in [Tag -> SUBSET TagRec]
    /\ oldMtime \in 0 .. MaxClock + 1
    /\ toFind \subseteq Path
    /\ id \in 1 .. MaxFid + 1
    /\ findset \subseteq Fid /\ deleteset \subseteq Fid
    /\ addlist \subseteq Path /\ addlist_other \subseteq Path
    /\ deletelist \subseteq Path
-----------------------------------------------------------------------------
(* The user.  Unless Racy, files change only while no gtags runs and in a  *)
(* later second than the one in which GTAGS was last written; otherwise    *)
(* the changes that modification times cannot tell are remembered.         *)

Quiet == pc = "idle" /\ now > tagMtime

Change(p, k) ==
    /\ Racy \/ Quiet
    /\ ver[p] < MaxVer
    /\ kind' = [kind EXCEPT ![p] = k]
    /\ ver' = [ver EXCEPT ![p] = @ + 1]
    /\ mtime' = [mtime EXCEPT ![p] = now]
    /\ raced' = IF Quiet THEN raced \ {p} ELSE raced \cup {p}
    /\ UNCHANGED <<now, langmap, pc, mode>> /\ UNCHANGED disk /\ UNCHANGED mem

Edit(p)   == Exists(p) /\ Change(p, kind[p])
Create(p) == ~Exists(p) /\ \E k \in {"text", "binary"} : Change(p, k)
Remove(p) == Exists(p) /\ Change(p, "none")

(* Another langmap in gtags.conf, between two runs. *)
ChangeLangmap ==
    /\ pc = "idle"
    /\ \E m \in LangMaps : m # langmap /\ langmap' = m
    /\ UNCHANGED <<now, kind, ver, mtime, raced, pc, mode>>
    /\ UNCHANGED disk /\ UNCHANGED mem

Tick ==
    /\ now <= MaxClock
    /\ now' = now + 1
    /\ UNCHANGED <<kind, ver, mtime, langmap, raced, pc, mode>>
    /\ UNCHANGED disk /\ UNCHANGED mem
-----------------------------------------------------------------------------
(* Starting and ending a run.                                              *)

(* Bound: a run may start only while ids for every path are left, so that  *)
(* MaxFid never stops a run half way.                                      *)
RoomForFids(x) == x.next + Cardinality(Path) <= MaxFid + 1

(* The process is gone, and its memory with it. *)
Exit ==
    /\ pc' = "idle"
    /\ g' = EmptyGpath /\ t' = NoTags /\ oldMtime' = 0
    /\ toFind' = {} /\ id' = 1
    /\ findset' = {} /\ deleteset' = {}
    /\ addlist' = {} /\ addlist_other' = {} /\ deletelist' = {}

(* A run that ends before it closed its files leaves the disk as it is. *)
Die == Exit /\ mode' = mode /\ UNCHANGED env /\ UNCHANGED disk

(* dbop_open in create mode: the new file is empty.  (A variant with a bug *)
(* opens the old one.)                                                     *)
CreatedTagsKept == tags
CreatedTags == NoTags

(* createtags: the old files are unlinked, new ones opened, find started. *)
StartCreate ==
    /\ pc = "idle" /\ pc' = "find" /\ mode' = "create"
    /\ exists' = TRUE /\ ready' = {}
    /\ gpath' = EmptyGpath /\ tags' = CreatedTags
    /\ g' = EmptyGpath /\ t' = CreatedTags
    /\ toFind' = {p \in Path : Exists(p)}
    /\ UNCHANGED env
    /\ UNCHANGED <<tagMtime, oldMtime, id, findset, deleteset,
                   addlist, addlist_other, deletelist>>

(* A variant of the next operator with a bug: GTAGS's time is taken after  *)
(* it has been opened for writing.                                         *)
OpenForUpdateLate ==
    /\ pc = "idle" /\ exists /\ {"GTAGS", "GPATH"} \subseteq ready
    /\ RoomForFids(gpath)
    /\ g' = gpath /\ oldMtime' = now

(* gtags -i: without the three files it would be StartCreate; with files   *)
(* that an interrupted creation left it dies at the version check of GTAGS *)
(* or at the NEXTKEY of GPATH.                                             *)
OpenForUpdate ==
    /\ pc = "idle" /\ exists /\ {"GTAGS", "GPATH"} \subseteq ready
    /\ RoomForFids(gpath)
    /\ g' = gpath /\ oldMtime' = tagMtime

StartIncremental ==
    /\ OpenForUpdate
    /\ pc' = "find" /\ mode' = "incremental"
    /\ toFind' = {p \in Path : Exists(p)}
    /\ UNCHANGED env /\ UNCHANGED disk
    /\ UNCHANGED <<t, id, findset, deleteset, addlist, addlist_other, deletelist>>

(* Every file has exactly the tags of its present content, or none if it   *)
(* is not a source file; GPATH knows the text files of the project.        *)
TagsOf(x, f) == {r \in x : r.fid = f}

Current(p) ==
    IF Exists(p) /\ IsSource(p)
    THEN /\ HasPath(gpath, p)
         /\ \A d \in Tag : TagsOf(tags[d], gpath.fidOf[p]) =
                             {[fid |-> gpath.fidOf[p], path |-> p, ver |-> ver[p]]}
    ELSE /\ HasPath(gpath, p) <=> kind[p] = "text"
         /\ \A d \in Tag : \A r \in tags[d] : r.path # p

(* gtags --single-update p: p was added, updated or deleted. *)
StartSingle(p) ==
    /\ OpenForUpdate
    /\ SingleOnlyChange => \A q \in Path \ {p} : Current(q)
    /\ ~IsBinary(p)                                    \* else goto exit
    /\ LET fid   == gpath.fidOf[p]
           other == gpath.typeOf[p] = "other"
           new   == ~HasPath(gpath, p)
       IN  /\ new => Exists(p)                         \* else die
           /\ ~(~new /\ Exists(p) /\ other)            \* else goto exit
           /\ deleteset' = IF ~new /\ ~other THEN {fid} ELSE {}
           /\ deletelist' = IF ~new /\ ~Exists(p) THEN {p} ELSE {}
           /\ addlist_other' = IF new /\ ~IsSource(p) THEN {p} ELSE {}
           /\ addlist' = IF Exists(p) /\ (IF new THEN IsSource(p) ELSE ~other)
                         THEN {p} ELSE {}
    /\ pc' = "update" /\ mode' = "single"
    /\ UNCHANGED env /\ UNCHANGED disk /\ UNCHANGED <<t, toFind, id, findset>>
-----------------------------------------------------------------------------
(* parse_file under the id of p: the definitions go to GTAGS, the          *)
(* references to GRTAGS.  A path without a language is not parsed.  A file *)
(* that has vanished makes the parser die.                                 *)
Parse(p, f) ==
    t' = [d \in Tag |-> t[d] \cup IF IsSource(p)
                                  THEN {[fid |-> f, path |-> p, ver |-> ver[p]]}
                                  ELSE {}]

(* gpath_put; MaxFid bounds the ids. *)
PutPath(p, type) ==
    /\ g.next <= MaxFid
    /\ g' = GpathPut(g, p, type)

(* createtags, one turn of the find_read loop.  find_read skips an entry   *)
(* that has vanished since the directory was read.                         *)
VisitCreate(p) ==
    /\ pc = "find" /\ mode = "create" /\ p \in toFind
    /\ toFind' = toFind \ {p}
    /\ IF Exists(p) /\ IsSource(p)
       THEN PutPath(p, "source") /\ Parse(p, g'.fidOf[p]) /\ raced' = raced \ {p}
       ELSE /\ IF kind[p] = "text" THEN PutPath(p, "other") ELSE UNCHANGED g
            /\ UNCHANGED <<t, raced>>
    /\ UNCHANGED <<now, kind, ver, mtime, langmap, pc, mode>> /\ UNCHANGED disk
    /\ UNCHANGED <<oldMtime, id, findset, deleteset, addlist, addlist_other, deletelist>>

(* gtags_mtime < statp.st_mtime.  (A variant with a bug asks for more than *)
(* the granularity of the clock.)                                          *)
OutdatedSlack(p) == oldMtime + 1 < mtime[p]
Outdated(p) == oldMtime < mtime[p]

(* findset: the ids of the files that find met.  (A variant with a bug     *)
(* notes a file that has no id.)                                           *)
NoteFoundAlways(fid) == findset \cup {fid}
NoteFound(fid) == IF fid # NoFid THEN findset \cup {fid} ELSE findset

(* incremental, one turn of the find_read loop. *)
Visit(p) ==
    /\ pc = "find" /\ mode = "incremental" /\ p \in toFind
    /\ toFind' = toFind \ {p}
    /\ LET fid     == g.fidOf[p]
           listed  == Exists(p) /\ (IsSource(p) \/ ~IsBinary(p))
           new     == listed /\ fid = NoFid
           changed == listed /\ fid # NoFid /\ IsSource(p) /\ Outdated(p)
       IN  /\ findset' = IF listed THEN NoteFound(fid) ELSE findset
           /\ addlist_other' = IF new /\ ~IsSource(p)
                               THEN addlist_other \cup {p} ELSE addlist_other
           /\ addlist' = IF (new /\ IsSource(p)) \/ changed
                         THEN addlist \cup {p} ELSE addlist
           /\ deleteset' = IF changed THEN deleteset \cup {fid} ELSE deleteset
    /\ UNCHANGED env /\ UNCHANGED disk
    /\ UNCHANGED <<pc, mode, g, t, oldMtime, id, deletelist>>

(* The file vanished between find_read and stat: "stat failed". *)
VisitVanished(p) ==
    /\ pc = "find" /\ mode = "incremental" /\ p \in toFind /\ ~Exists(p)
    /\ Die

FindDone ==
    /\ pc = "find" /\ toFind = {}
    /\ pc' = IF mode = "create" THEN "closeGtags" ELSE "ids"
    /\ UNCHANGED mode /\ UNCHANGED env /\ UNCHANGED disk /\ UNCHANGED mem

(* idset_add(deleteset, id) for a deleted source file.  (A variant with a  *)
(* bug leaves the tags of the deleted file.)                               *)
RetireTagsNot(f) == deleteset
RetireTags(f) == deleteset \cup {f}

(* One turn of the delete list loop over the ids below NEXTKEY. *)
CheckId ==
    /\ pc = "ids" /\ id < g.next
    /\ id' = id + 1
    /\ LET p    == g.pathOf[id]
           gone == p # NoPath /\ (id \notin findset \/ ~Exists(p))
           bin  == p # NoPath /\ IsBinary(p)
       IN  IF g.ftypeOf[id] = "other"
           THEN /\ deletelist' = IF gone \/ bin THEN deletelist \cup {p} ELSE deletelist
                /\ UNCHANGED deleteset
           ELSE /\ deletelist' = IF gone THEN deletelist \cup {p} ELSE deletelist
                /\ deleteset' = IF gone THEN RetireTags(id) ELSE deleteset
    /\ UNCHANGED env /\ UNCHANGED disk
    /\ UNCHANGED <<pc, mode, g, t, oldMtime, toFind, findset, addlist, addlist_other>>

IdsDone ==
    /\ pc = "ids" /\ id = g.next
    /\ pc' = "update"
    /\ UNCHANGED mode /\ UNCHANGED env /\ UNCHANGED disk /\ UNCHANGED mem
-----------------------------------------------------------------------------
(* "execute updating". *)

(* gtags_delete: the records of the ids in S go.  (A variant with a bug    *)
(* keeps the records of the highest id.)                                   *)
WithoutTagsBelow(x, S) == {r \in x : r.fid \notin S \/ \A f \in S : f <= r.fid}
WithoutTags(x, S) == {r \in x : r.fid \notin S}

(* updatetags opens both tag files and deletes the records of deleteset.   *)
(* A GRTAGS that an interrupted creation left makes gtags_open die.        *)
UpdateTags ==
    /\ pc = "update" /\ (deleteset # {} \/ addlist # {})
    /\ "GRTAGS" \in ready
    /\ t' = [d \in Tag |-> WithoutTags(tags[d], deleteset)]
    /\ pc' = "add"
    /\ UNCHANGED mode /\ UNCHANGED env /\ UNCHANGED disk
    /\ UNCHANGED <<g, oldMtime, toFind, id, findset, deleteset,
                   addlist, addlist_other, deletelist>>

UpdateTagsDies ==
    /\ pc = "update" /\ (deleteset # {} \/ addlist # {})
    /\ "GRTAGS" \notin ready
    /\ Die

SkipTags ==
    /\ pc = "update" /\ deleteset = {} /\ addlist = {}
    /\ pc' = IF deletelist # {} \/ addlist_other # {} THEN "gpath" ELSE "closeGpath"
    /\ UNCHANGED mode /\ UNCHANGED env /\ UNCHANGED disk /\ UNCHANGED mem

(* One turn of the addlist loop of updatetags. *)
AddFile(p) ==
    /\ pc = "add" /\ p \in addlist /\ (Exists(p) \/ ~IsSource(p))
    /\ PutPath(p, "source")
    /\ Parse(p, g'.fidOf[p])
    /\ addlist' = addlist \ {p}
    /\ raced' = IF p \in deletelist THEN raced ELSE raced \ {p}
    /\ UNCHANGED <<now, kind, ver, mtime, langmap, pc, mode>> /\ UNCHANGED disk
    /\ UNCHANGED <<oldMtime, toFind, id, findset, deleteset, addlist_other, deletelist>>

AddVanished(p) == pc = "add" /\ p \in addlist /\ ~Exists(p) /\ IsSource(p) /\ Die

AddDone ==
    /\ pc = "add" /\ addlist = {}
    /\ pc' = "closeGtags"
    /\ UNCHANGED mode /\ UNCHANGED env /\ UNCHANGED disk /\ UNCHANGED mem

(* gtags_close: the file reaches the disk.  Creation releases GPATH, which *)
(* gtags_close closes first, between GTAGS and GRTAGS; an update keeps     *)
(* GPATH open until it has changed GPATH too.                              *)
CloseGtags ==
    /\ pc = "closeGtags"
    /\ tags' = [tags EXCEPT !["GTAGS"] = t["GTAGS"]]
    /\ ready' = ready \cup {"GTAGS"}
    /\ tagMtime' = now
    /\ pc' = IF mode = "create" THEN "closeGpath" ELSE "closeGrtags"
    /\ UNCHANGED <<mode, exists, gpath>> /\ UNCHANGED env /\ UNCHANGED mem

CloseGrtags ==
    /\ pc = "closeGrtags"
    /\ tags' = [tags EXCEPT !["GRTAGS"] = t["GRTAGS"]]
    /\ ready' = ready \cup {"GRTAGS"}
    /\ IF mode = "create"
       THEN Exit
       ELSE pc' = "gpath" /\ UNCHANGED mem
    /\ UNCHANGED <<mode, exists, gpath, tagMtime>> /\ UNCHANGED env

(* The loop over deletelist.  (A variant with a bug does not advance.)     *)
DeletePathAgain(p) ==
    /\ pc = "gpath" /\ p \in deletelist
    /\ g' = GpathDelete(g, p)
    /\ UNCHANGED <<pc, mode>> /\ UNCHANGED env /\ UNCHANGED disk
    /\ UNCHANGED <<t, oldMtime, toFind, id, findset, deleteset,
                   addlist, addlist_other, deletelist>>

DeletePath(p) ==
    /\ pc = "gpath" /\ p \in deletelist
    /\ g' = GpathDelete(g, p)
    /\ deletelist' = deletelist \ {p}
    /\ UNCHANGED <<pc, mode>> /\ UNCHANGED env /\ UNCHANGED disk
    /\ UNCHANGED <<t, oldMtime, toFind, id, findset, deleteset, addlist, addlist_other>>

AddOther(p) ==
    /\ pc = "gpath" /\ deletelist = {} /\ p \in addlist_other
    /\ PutPath(p, "other")
    /\ addlist_other' = addlist_other \ {p}
    /\ UNCHANGED <<pc, mode>> /\ UNCHANGED env /\ UNCHANGED disk
    /\ UNCHANGED <<t, oldMtime, toFind, id, findset, deleteset, addlist, deletelist>>

(* utime(GTAGS), "because they may have no definitions". *)
Touch ==
    /\ pc = "gpath" /\ deletelist = {} /\ addlist_other = {}
    /\ tagMtime' = now
    /\ pc' = "closeGpath"
    /\ UNCHANGED <<mode, exists, ready, gpath, tags>> /\ UNCHANGED env /\ UNCHANGED mem

(* gpath_close with the last reference: NEXTKEY and the records go out. *)
CloseGpath ==
    /\ pc = "closeGpath"
    /\ gpath' = g
    /\ ready' = ready \cup {"GPATH"}
    /\ IF mode = "create"
       THEN pc' = "closeGrtags" /\ UNCHANGED mem
       ELSE Exit
    /\ UNCHANGED <<mode, exists, tags, tagMtime>> /\ UNCHANGED env

Crash == MayCrash /\ pc # "idle" /\ Die
-----------------------------------------------------------------------------
Init ==
    /\ now = 1
    /\ kind \in [Path -> {"none", "text"}]
    /\ ver = [p \in Path |-> 0] /\ mtime = [p \in Path |-> 0]
    /\ langmap \in LangMaps /\ raced = {}
    /\ exists = FALSE /\ ready = {}
    /\ gpath = EmptyGpath /\ tags = NoTags /\ tagMtime = 0
    /\ pc = "idle" /\ mode = "create"
    /\ g = EmptyGpath /\ t = NoTags /\ oldMtime = 0
    /\ toFind = {} /\ id = 1 /\ findset = {} /\ deleteset = {}
    /\ addlist = {} /\ addlist_other = {} /\ deletelist = {}

User == \/ Tick \/ ChangeLangmap
        \/ \E p \in Path : Edit(p) \/ Create(p) \/ Remove(p)

Start == StartCreate \/ StartIncremental \/ \E p \in Path : StartSingle(p)

(* One step of the running gtags. *)
Step ==
    \/ FindDone \/ CheckId \/ IdsDone
    \/ UpdateTags \/ UpdateTagsDies \/ SkipTags \/ AddDone
    \/ CloseGtags \/ CloseGrtags \/ Touch \/ CloseGpath
    \/ \E p \in Path : \/ VisitCreate(p) \/ Visit(p) \/ VisitVanished(p)
                       \/ AddFile(p) \/ AddVanished(p)
                       \/ DeletePath(p) \/ AddOther(p)

Next == User \/ Start \/ Step \/ Crash

Spec == Init /\ [][Next]_vars

(* A started gtags keeps running; nothing obliges the user to do anything. *)
FairSpec == Spec /\ WF_vars(Step)
-----------------------------------------------------------------------------
(* The tag files are complete and nobody is writing them. *)
AtRest == pc = "idle" /\ ready = DbFile

(* GPATH, on disk and in memory, is a one to one relation between paths    *)
(* and ids, with agreeing flags, and NEXTKEY lies above every id in use    *)
(* (gpath_put, gpath_delete and the NEXTKEY written by gpath_close).       *)
GpathSound == GpathConsistent(gpath) /\ GpathConsistent(g)

(* segment_read dies with "GPATH is corrupted" on a tag whose file id is   *)
(* not in GPATH: at rest every tag's id leads to the path it came from.    *)
NoDanglingTag ==
    AtRest => \A d \in Tag : \A r \in tags[d] : gpath.pathOf[r.fid] = r.path

(* gtags_close writes one file after the other, and no reader is kept out. *)
(* At every moment of a run, and after files changed under a run, the tag  *)
(* files and GPATH on disk together give a tag the path it came from, or   *)
(* no path, but never the path of another file.  (A killed update may      *)
(* leave such tags.)                                                       *)
NoWrongPath ==
    \A d \in Tag : \A r \in tags[d] : gpath.pathOf[r.fid] \in {r.path, NoPath}

(* A retired id, a hole of GPATH, owns no tags: whenever an interrupted or *)
(* a finished update has written anything, the tags of a file left both    *)
(* tag files before the file left GPATH.                                   *)
HolesHaveNoTags ==
    ready = DbFile =>
        \A d \in Tag : \A r \in tags[d] :
            r.fid < gpath.next => gpath.pathOf[r.fid] # NoPath

(* Definitions and references come from one and the same parse, and a file *)
(* that is updated has lost its former tags: no file has tags of two       *)
(* contents, and GTAGS and GRTAGS never disagree about the content.        *)
OneContentPerFile ==
    AtRest => /\ tags["GTAGS"] = tags["GRTAGS"]
              /\ \A r, s \in tags["GTAGS"] : r.fid = s.fid => r = s

(* An indexed source file whose tags are out of date has a modification    *)
(* time that the next gtags -i will notice.                                *)
NoLostUpdate ==
    AtRest => \A p \in Path :
        (HasPath(gpath, p) /\ Exists(p) /\ IsSource(p) /\ p \notin raced)
            => Current(p) \/ mtime[p] > tagMtime

(* When a run ends normally every file of the project is indexed as it is  *)
(* on disk, whatever happened before it: interrupted runs, deleted and     *)
(* recreated files, files that became binary.                              *)
Completes == (CloseGpath /\ mode # "create") \/ (CloseGrtags /\ mode = "create")
CatchesUp == [][Completes => \A p \in Path : p \in raced \/ Current(p)']_vars

(* The same of creation alone, which reads nothing of the old tag files.   *)
CreateRepairs ==
    [][CloseGrtags /\ mode = "create" => \A p \in Path : p \in raced \/ Current(p)']_vars

(* Until the tag files are made anew an id means one file for ever: it is  *)
(* not given to another path, not even after its file has been deleted,    *)
(* and gpath_put never goes back below it, so ids held in tag records or   *)
(* by readers cannot change their meaning.                                 *)
FidNeverReused ==
    [][ready = DbFile /\ ready' = DbFile =>
         /\ gpath.next <= gpath'.next
         /\ \A f \in Fid : f < gpath.next =>
              gpath'.pathOf[f] \in {gpath.pathOf[f], NoPath}]_vars

(* A started run ends. *)
RunTerminates == pc # "idle" ~> pc = "idle"
=============================================================================
